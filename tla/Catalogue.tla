------------------------------ MODULE Catalogue ------------------------------
(***************************************************************************)
(* The tables staff edit to run the shop: brands, categories, products     *)
(* with their gallery, free items and manuals, promotions, sets, hero      *)
(* slides and QR cards (app/routers), and what the activity log says of    *)
(* every edit.  A request reads what it needs, builds its work in a        *)
(* session of its own, perhaps awaits an upload, and commits: another      *)
(* request may commit between the two.                                     *)
(*                                                                         *)
(* Money is in cents and a percentage in hundredths of a per cent.  Who    *)
(* may edit what is the subject of Accounts; descriptions, badges, dates   *)
(* and the audit columns are left out.                                     *)
(***************************************************************************)
EXTENDS ActivityLog, SequencesExt, FiniteSetsExt

CONSTANTS
  Editors,       \* requests of staff
  Storerooms,    \* the rows a behaviour starts from
  Titles,        \* names typed into the forms
  PriceForms,    \* bodies of PATCH /products/{id}/price
  ProductForms,  \* bodies of POST /products/, the contents apart
  ItemForms,     \* contents lists: product |-> qty
  GroupForms,    \* option groups of a set: sequences of sets of products
  MaxEdits       \* bound: requests that reach their commit

ASSUME MaxEditsAssumption == MaxEdits \in Nat

Tables == {"brands", "categories", "products", "product_images", "product_free_items",
           "manuals", "promotions", "promotion_items", "sets", "set_items",
           "set_option_groups", "set_option_choices", "hero_slides", "qr_codes"}

\* What the rows of a table are part of.
Owner == [product_images |-> "products", product_free_items |-> "products",
          manuals |-> "products", promotion_items |-> "promotions", set_items |-> "sets",
          set_option_groups |-> "sets", set_option_choices |-> "set_option_groups"]

Lists == {"product_free_items", "promotion_items", "set_items"}

\* The tables the cascading foreign keys lead to.
Linked(k, row) ==
  /\ "parent" \in DOMAIN row <=> Table(k) \in DOMAIN Owner
  /\ "parent" \in DOMAIN row => row.parent \in {Owner[Table(k)]} \X Nat
  /\ "member" \in DOMAIN row =>
       Table(k) \in Lists \cup {"set_option_choices"} /\ row.member \in {"products"} \X Nat

ForeignKeys == {"parent", "member", "brand", "category"}

References(row, columns) == {row[c] : c \in columns \cap DOMAIN row} \ {None}

PriceColumns == {"price", "list_price"}

Priced(row) == PriceColumns \subseteq DOMAIN row /\ row.price \in Int /\ row.list_price \in Int
Covered(row) == Priced(row) /\ row.list_price >= row.price

(* Prices are numbers; a product comes with a price (gt=0) and a discount   *)
(* (ge=0), of one of two kinds, and its form cannot make it a part of       *)
(* another row; a request is finite.                                        *)
ASSUME FormsAssumption ==
  /\ \A data \in PriceForms \cup ProductForms :
       /\ \A f \in PriceColumns \cap DOMAIN data : data[f] \in Int
       /\ DOMAIN data \cap {"parent", "member"} = {}
  /\ \A data \in ProductForms :
       /\ {"price", "discount", "discount_type"} \subseteq DOMAIN data
       /\ data.price \in Nat /\ data.discount \in Nat /\ data.discount_type \in {"percent", "cash"}
  /\ \A items \in ItemForms : IsFiniteSet(DOMAIN items)
  /\ \A groups \in GroupForms :
       groups \in Seq(Range(groups)) /\ \A i \in DOMAIN groups : IsFiniteSet(groups[i])

(* A shop is opened with list prices that cover the prices, and with its    *)
(* foreign keys in order; no row is NULL.                                   *)
ASSUME StoreroomsAssumption ==
  /\ None \notin Tables \X Nat
  /\ \A d \in Storerooms :
       /\ IsFiniteSet(DOMAIN d) /\ DOMAIN d \subseteq Tables \X Nat
       /\ \A k \in DOMAIN d :
            /\ Table(k) = "products" => Covered(d[k])
            /\ Linked(k, d[k])
            /\ References(d[k], ForeignKeys) \subseteq DOMAIN d

VARIABLES
  db,       \* key |-> row
  ids,      \* table |-> the last id drawn
  log,      \* activity_log: the entries of the last transaction that filed any
  working,  \* per request, its units of work, one per flush; <<>> if there is none
  edits,    \* requests that began
  crossed   \* history: products repriced over a price the request had not read

catalogueVars == <<db, ids, log, working, edits, crossed>>

\* A value for one thing alone; f, and g where f says nothing.
Only(k, v) == [x \in {k} |-> v]
f ++ g == [x \in DOMAIN f \cup DOMAIN g |-> IF x \in DOMAIN f THEN f[x] ELSE g[x]]

In(table) == {k \in DOMAIN db : Table(k) = table}
Under(owner, tables) == {k \in DOMAIN db : Table(k) \in tables /\ db[k].parent = owner}
Loaded(keys) == [k \in keys |-> db[k]]

\* The last id of a table once rows of these keys were inserted.
LastId(table, keys, before) == Max({k[2] : k \in {j \in keys : Table(j) = table}} \cup {before})

\* The n-th key drawn from now on.  Nothing here depends on which of two
\* overlapping INSERTs draws first.
Fresh(table, n) == <<table, ids[table] + n>>

-----------------------------------------------------------------------------
(* Units of work                                                           *)

Adding(new) == [NoWork EXCEPT !.new = new]
Assigning(k, columns) ==
  [NoWork EXCEPT !.dirty = Only(k, columns), !.loaded = Only(k, db[k])]
Deleting(keys) == [NoWork EXCEPT !.deleted = keys, !.loaded = Loaded(keys)]

\* The same session does both.
Both(u, v) ==
  [new |-> u.new ++ v.new, dirty |-> u.dirty ++ v.dirty, loaded |-> u.loaded ++ v.loaded,
   deleted |-> u.deleted \cup v.deleted, orphans |-> u.orphans \cup v.orphans]

\* A handler that passed its checks, with its flushes in order.
Begin(r, flushes) ==
  LET drawn == UNION {DOMAIN flushes[i].new : i \in DOMAIN flushes} IN
  /\ working[r] = <<>>
  /\ edits < MaxEdits
  /\ edits' = edits + 1
  /\ working' = [working EXCEPT ![r] = flushes]
  /\ ids' = [t \in Tables |-> LastId(t, drawn, ids[t])]
  /\ UNCHANGED <<db, log, crossed>>

Edit(r, work) == Begin(r, <<work>>)

-----------------------------------------------------------------------------
(* What the database makes of a flush                                      *)

\* ON DELETE CASCADE, two levels deep at most.
AndDependants(d, keys) ==
  keys \cup {k \in DOMAIN d : References(d[k], {"parent", "member"}) \cap keys # {}}
Gone(d, keys) == AndDependants(d, AndDependants(d, keys))

Written(d, u) ==
  u.new ++ [k \in DOMAIN d |->
              IF k \in DOMAIN u.dirty
              THEN [f \in ChangedColumns(u, k) |-> u.dirty[k][f]] ++ d[k]
              ELSE d[k]]

\* The unique constraints.
Unique(d) ==
  \A j, k \in DOMAIN d : j # k /\ Table(j) = Table(k) =>
    /\ Table(j) \in {"brands", "categories"} => d[j].name # d[k].name
    /\ Table(j) = "products" => d[j].code = None \/ d[j].code # d[k].code
    /\ "member" \in DOMAIN d[j] =>
         d[j].parent # d[k].parent \/ d[j].member # d[k].member

FlushFails(d, u) ==
  LET after == Written(d, u)
      gone == Gone(after, u.deleted \cup u.orphans)
  IN
  \/ \E k \in DOMAIN u.dirty \ DOMAIN d : ChangedColumns(u, k) # {}  \* StaleDataError
  \/ \E k \in DOMAIN after :                                          \* foreign keys
       ~ (References(after[k], ForeignKeys) \subseteq DOMAIN after)
  \/ ~ Unique(after)
  \/ \E k \in DOMAIN after \ gone :                                   \* RESTRICT
       References(after[k], {"brand", "category"}) \cap gone # {}

\* None once a flush failed.
Flushed(d, u) ==
  IF d = None \/ FlushFails(d, u) THEN None
  ELSE LET after == Written(d, u)
       IN Restrict(after, DOMAIN after \ Gone(after, u.deleted \cup u.orphans))

\* A request flushes once, or twice.
Outcome(r) ==
  LET first == Flushed(db, working[r][1]) IN
  IF Len(working[r]) = 1 THEN first ELSE Flushed(first, working[r][2])

\* Some price this request rewrites, or rewrote another by, has moved since.
Crosses(r, k) ==
  \E i \in DOMAIN working[r] :
    LET u == working[r][i] IN
    /\ k \in DOMAIN u.dirty \cap DOMAIN db
    /\ DOMAIN u.dirty[k] \cap PriceColumns # {}
    /\ \E f \in PriceColumns : u.loaded[k][f] # db[k][f]

Told(r) == UNION {Entries(working[r][i], r) : i \in DOMAIN working[r]}

CommitWork(r) ==
  LET outcome == Outcome(r)
      told == Told(r)
  IN
  /\ working[r] # <<>>
  /\ outcome # None
  /\ db' = outcome
  /\ log' = IF told = {} THEN log ELSE told
  /\ crossed' = crossed \cup {k \in In("products") : Crosses(r, k)}
  /\ working' = [working EXCEPT ![r] = <<>>]
  /\ UNCHANGED <<ids, edits>>

\* The log is written in a transaction of its own.
WorkFailsButTells(r) ==
  /\ working[r] # <<>>
  /\ Outcome(r) = None
  /\ log' = Told(r)
  /\ working' = [working EXCEPT ![r] = <<>>]
  /\ UNCHANGED <<db, ids, edits, crossed>>

\* The 500 (or 400) answer; the session and what the listener had kept for
\* it go with the request.
WorkFails(r) ==
  /\ working[r] # <<>>
  /\ Outcome(r) = None
  /\ working' = [working EXCEPT ![r] = <<>>]
  /\ UNCHANGED <<db, ids, log, edits, crossed>>

-----------------------------------------------------------------------------
(* Brands, categories, manuals, hero slides and QR cards                   *)

Named(table, title) == {k \in In(table) : db[k].name = title}

\* save_upload stores every file under a name of its own.
NewFile == <<"files", edits>>

\* With its picture in the same request, or without.
CreateBrand(r, title) ==
  /\ Named("brands", title) = {}
  /\ \E picture \in {None, NewFile} :
       Edit(r, Adding(Only(Fresh("brands", 1), [name |-> title, image |-> picture])))

CreateCategory(r, title) ==
  /\ Named("categories", title) = {}
  /\ Edit(r, Adding(Only(Fresh("categories", 1), [name |-> title])))

CreateCard(r, table, title) ==
  \E picture \in {None, NewFile} :
    Edit(r, Adding(Only(Fresh(table, 1), [name |-> title, image |-> picture])))
CreateHeroSlide(r, title) == CreateCard(r, "hero_slides", title)
CreateQrCode(r, title) == CreateCard(r, "qr_codes", title)

\* No look at the other names.
Rename(r, k, title) == Edit(r, Assigning(k, [name |-> title]))
UpdateBrand(r, title) == \E k \in In("brands") : Rename(r, k, title)
UpdateCategory(r, title) == \E k \in In("categories") : Rename(r, k, title)
UpdateHeroSlide(r, title) == \E k \in In("hero_slides") : Rename(r, k, title)
UpdateQrCode(r, title) == \E k \in In("qr_codes") : Rename(r, k, title)

UploadFile(r, k, column) == Edit(r, Assigning(k, Only(column, NewFile)))
UploadBrandImage(r) == \E k \in In("brands") : UploadFile(r, k, "image")
UploadManualImage(r) == \E k \in In("manuals") : UploadFile(r, k, "image")
UploadManualPdf(r) == \E k \in In("manuals") : UploadFile(r, k, "pdf")
UploadHeroSlideImage(r) == \E k \in In("hero_slides") : UploadFile(r, k, "image")
UploadQrImage(r) == \E k \in In("qr_codes") : UploadFile(r, k, "image")

\* A brand or a category in use makes the commit fail: 400.
DeleteRow(r, k) == Edit(r, Deleting({k}))
DeleteBrand(r) == \E k \in In("brands") : DeleteRow(r, k)
DeleteCategory(r) == \E k \in In("categories") : DeleteRow(r, k)
DeleteManual(r) == \E k \in In("manuals") : DeleteRow(r, k)
DeleteHeroSlide(r) == \E k \in In("hero_slides") : DeleteRow(r, k)
DeleteQrCode(r) == \E k \in In("qr_codes") : DeleteRow(r, k)

CreateManual(r, p) ==
  \E pdf \in {None, NewFile} :
    Edit(r, Adding(Only(Fresh("manuals", 1), [parent |-> p, image |-> None, pdf |-> pdf])))

UpdateManual(r, k, p) == Edit(r, Assigning(k, [parent |-> p]))

-----------------------------------------------------------------------------
(* Prices of a product                                                     *)

\* Decimal.quantize: the even one of two equally near.
HalfEven(n, d) ==
  LET q == n \div d  rest == 2 * (n % d) IN
  IF rest > d \/ (rest = d /\ q % 2 = 1) THEN q + 1 ELSE q

DeriveListPrice(price, discount, type) ==
  CASE discount <= 0 -> price
    [] discount > 0 /\ type = "cash" -> price + discount
    [] discount >= 10000 /\ type = "percent" -> price
    [] OTHER -> HalfEven(price * 10000, 10000 - discount)

DiscountFromPrices(list, price, type) ==
  CASE list <= price -> 0
    [] list > price /\ type = "cash" -> list - price
    [] OTHER -> HalfEven((list - price) * 10000, list)

Sent(data, f, otherwise) == IF f \in DOMAIN data THEN data[f] ELSE otherwise

\* The list price is left alone unless it is sent.
SyncKeepsList(row, data) ==
  LET list == Sent(data, "list_price", row.list_price)
      price == Sent(data, "price", row.price)
  IN [list_price |-> list,
      discount |-> Sent(data, "discount",
        DiscountFromPrices(list, price, Sent(data, "discount_type", row.discount_type)))] ++ data

\* _sync_price_fields of an accepted form; a price raised above the list
\* takes the list price with it.
SyncPriceFields(row, data) ==
  LET price == Sent(data, "price", row.price)
      list == Max({Sent(data, "list_price", row.list_price), price})
  IN IF DOMAIN data \cap {"price", "list_price", "discount", "discount_type"} = {}
     THEN data
     ELSE [list_price |-> list,
           discount |-> Sent(data, "discount",
             DiscountFromPrices(list, price, Sent(data, "discount_type", row.discount_type)))]
          ++ data

\* The validators, and the 400 of a list price below the price.
Acceptable(row, data) ==
  /\ {"discount", "discount_type"} \subseteq DOMAIN data /\ data.discount_type = "percent"
       => data.discount <= 10000
  /\ "list_price" \in DOMAIN data => data.list_price >= Sent(data, "price", row.price)

\* PATCH /products/{id}/price
UpdateProductPrice(r, p, data) ==
  /\ Acceptable(db[p], data)
  /\ Edit(r, Assigning(p, SyncPriceFields(db[p], data)))

-----------------------------------------------------------------------------
(* Contents: free items, promotion items, set items, option groups         *)

\* build_bundle_rows
Sellable(items, owner) == DOMAIN items \subseteq In("products") \ {owner}

\* The new rows of a contents list, numbered in some order.
Contents(table, owner, items) ==
  LET listed == SetToSeq(DOMAIN items) IN
  [k \in {Fresh(table, i) : i \in DOMAIN listed} |->
     LET m == listed[k[2] - ids[table]]
     IN [parent |-> owner, member |-> m, qty |-> items[m]]]

\* replace_bundle_rows: only what differs is touched.
ReplaceRows(table, owner, items) ==
  LET current == Under(owner, {table})
      members == {db[k].member : k \in current}
      kept == {k \in current : db[k].member \in DOMAIN items}
  IN [NoWork EXCEPT
        !.new = Contents(table, owner, Restrict(items, DOMAIN items \ members)),
        !.dirty = [k \in kept |-> [qty |-> items[db[k].member]]],
        !.orphans = current \ kept,
        !.loaded = Loaded(current)]

\* build_option_groups, the choices numbered in some order.
Groups(owner, groups) ==
  LET offered == SetToSeq(UNION {{i} \X groups[i] : i \in DOMAIN groups}) IN
  Adding([k \in {Fresh("set_option_groups", i) : i \in DOMAIN groups} |-> [parent |-> owner]]
         ++ [k \in {Fresh("set_option_choices", i) : i \in DOMAIN offered} |->
               LET choice == offered[k[2] - ids["set_option_choices"]]
               IN [parent |-> Fresh("set_option_groups", choice[1]), member |-> choice[2]]])

\* A group without choices is refused, and an unknown product.
Offerable(groups) ==
  \A i \in DOMAIN groups : groups[i] # {} /\ groups[i] \subseteq In("products")

-----------------------------------------------------------------------------
(* Products                                                                *)

CodeTaken(data, k) ==
  "code" \in DOMAIN data /\ data.code # None
    /\ \E p \in In("products") \ {k} : db[p].code = data.code

\* A brand and a category that are given must exist.
Known(data) ==
  /\ "brand" \in DOMAIN data => data.brand \in DOMAIN db \cup {None}
  /\ "category" \in DOMAIN data => data.category \in DOMAIN db \cup {None}

CreateProduct(r, data, items) ==
  LET p == Fresh("products", 1)
      list == Sent(data, "list_price",
                   DeriveListPrice(data.price, data.discount, data.discount_type))
  IN
  /\ Known(data)
  /\ ~ CodeTaken(data, None)
  /\ Acceptable(data, data)
  /\ Sellable(items, None)
  /\ Edit(r, Adding(Only(p, [list_price |-> list, image |-> None] ++ data)
                    ++ Contents("product_free_items", p, items)))

\* PUT /products/{id}; items is None when the body leaves them out.
UpdateProduct(r, p, data, items) ==
  /\ Known(data)
  /\ ~ CodeTaken(data, p)
  /\ Acceptable(db[p], data)
  /\ items # None => Sellable(items, p)
  /\ Edit(r, Both(Assigning(p, SyncPriceFields(db[p], data)),
                  IF items = None THEN NoWork
                  ELSE ReplaceRows("product_free_items", p, items)))

\* save_named_image: the file is named after the row as it was read, and a
\* later upload under that name overwrites it.
UploadNamedImage(r, k, column, folder, suffix) ==
  Edit(r, Assigning(k, Only(column, <<folder, db[k].name, suffix>>)))

UploadProductImage(r, p) == UploadNamedImage(r, p, "image", db[p].section, "")

Gallery(p) == Under(p, {"product_images"})

NextOrder(p) == Max({db[k].sort_order : k \in Gallery(p)} \cup {-1}) + 1

\* n files of a kind.
UploadGallery(r, p, n, kind) ==
  LET row(i) == [parent |-> p, sort_order |-> NextOrder(p) + i - 1, media_type |-> kind]
      last == ids["product_images"]
      batch == {Fresh("product_images", i) : i \in 1 .. n}
  IN  Begin(r, <<Adding([k \in batch |-> row(k[2] - last)])>>)

UploadGalleryImages(r, p, n) == UploadGallery(r, p, n, "image")
UploadGalleryVideos(r, p, n) == UploadGallery(r, p, n, "video")

DeleteGalleryItem(r, p, k) == k \in Gallery(p) /\ Edit(r, Deleting({k}))

\* The session deletes what its collections hold; the database sees to the
\* contents lists the product was on.
DeleteProduct(r, p) ==
  Edit(r, Deleting({p} \cup Under(p, {"manuals", "product_images", "product_free_items"})))

-----------------------------------------------------------------------------
(* Promotions and sets                                                     *)

CreatePromotion(r, title, items) ==
  LET k == Fresh("promotions", 1) IN
  /\ Sellable(items, None)
  /\ Edit(r, Adding(Only(k, [name |-> title, image |-> None, banner |-> None])
                    ++ Contents("promotion_items", k, items)))

UpdatePromotion(r, k, data, items) ==
  /\ items # None => Sellable(items, None)
  /\ Edit(r, Both(Assigning(k, data),
                  IF items = None THEN NoWork ELSE ReplaceRows("promotion_items", k, items)))

UploadPromotionImage(r, k) == UploadNamedImage(r, k, "image", "promotions", "")
UploadPromotionBanner(r, k) == UploadNamedImage(r, k, "banner", "promotions", "banner")
DeleteBanner(r, k) == Edit(r, Assigning(k, [banner |-> None]))

DeletePromotion(r, k) == Edit(r, Deleting({k} \cup Under(k, {"promotion_items"})))

CreateSet(r, data, items, groups) ==
  LET k == Fresh("sets", 1) IN
  /\ Known(data)
  /\ Sellable(items, None)
  /\ Offerable(groups)
  /\ Edit(r, Both(Adding(Only(k, [image |-> None, detail |-> None] ++ data)
                         ++ Contents("set_items", k, items)),
                  Groups(k, groups)))

\* replace_option_groups flushes the removal, with whatever else the session
\* holds by then, before it assigns the new groups.
UpdateSet(r, k, data, items, groups) ==
  LET contents == IF items = None THEN NoWork ELSE ReplaceRows("set_items", k, items)
      old == Under(k, {"set_option_groups"})
      removal == [NoWork EXCEPT !.orphans = old, !.loaded = Loaded(old)]
      fields == Assigning(k, data)
  IN
  /\ Known(data)
  /\ items # None => Sellable(items, None)
  /\ groups # None => Offerable(groups)
  /\ Begin(r, IF groups = None THEN <<Both(contents, fields)>>
              ELSE <<Both(contents, removal), Both(Groups(k, groups), fields)>>)

UploadSetImage(r, k) == UploadNamedImage(r, k, "image", "sets", "")
UploadSetDetailImage(r, k) == UploadNamedImage(r, k, "detail", "sets", "detail")

DeleteSet(r, k) ==
  LET groups == Under(k, {"set_option_groups"}) IN
  Edit(r, Deleting({k} \cup groups \cup Under(k, {"set_items"})
                   \cup UNION {Under(g, {"set_option_choices"}) : g \in groups}))

-----------------------------------------------------------------------------
CatalogueInit ==
  /\ db \in Storerooms
  /\ ids = [t \in Tables |-> LastId(t, DOMAIN db, 0)]
  /\ log = {}
  /\ working = [r \in Editors |-> <<>>]
  /\ edits = 0
  /\ crossed = {}

PricesDesk(r) ==
  \/ \E p \in In("products"), data \in PriceForms :
       \/ UpdateProductPrice(r, p, data)
       \/ UpdateProduct(r, p, data, None)
  \/ \E data \in ProductForms : CreateProduct(r, data, <<>>)

GalleryDesk(r) ==
  \E p \in In("products") :
    \/ UploadProductImage(r, p)
    \/ \E n \in 1 .. 2 : UploadGalleryImages(r, p, n) \/ UploadGalleryVideos(r, p, n)
    \/ \E k \in In("product_images") : DeleteGalleryItem(r, p, k)
    \/ DeleteProduct(r, p)

BundlesDesk(r) ==
  \/ \E items \in ItemForms, title \in Titles :
       \/ CreatePromotion(r, title, items)
       \/ \E groups \in GroupForms, b \in In("brands") \cup {None} :
            CreateSet(r, [name |-> title, brand |-> b], items, groups)
  \/ \E k \in In("promotions"), title \in Titles, items \in ItemForms \cup {None} :
       UpdatePromotion(r, k, [name |-> title], items)
  \/ \E k \in In("promotions") :
       \/ UploadPromotionImage(r, k)
       \/ UploadPromotionBanner(r, k)
       \/ DeleteBanner(r, k)
       \/ DeletePromotion(r, k)
  \/ \E k \in In("sets"), title \in Titles, items \in ItemForms \cup {None},
        groups \in GroupForms \cup {None} :
       UpdateSet(r, k, [name |-> title], items, groups)
  \/ \E k \in In("sets") :
       \/ UploadSetImage(r, k)
       \/ UploadSetDetailImage(r, k)
       \/ DeleteSet(r, k)
  \/ \E p \in In("products") :
       \/ \E items \in ItemForms : UpdateProduct(r, p, <<>>, items)
       \/ DeleteProduct(r, p)

ShelvesDesk(r) ==
  \/ \E title \in Titles :
       \/ CreateBrand(r, title) \/ UpdateBrand(r, title)
       \/ CreateCategory(r, title) \/ UpdateCategory(r, title)
       \/ CreateHeroSlide(r, title) \/ UpdateHeroSlide(r, title)
       \/ CreateQrCode(r, title) \/ UpdateQrCode(r, title)
  \/ UploadBrandImage(r) \/ DeleteBrand(r)
  \/ DeleteCategory(r)
  \/ UploadHeroSlideImage(r) \/ DeleteHeroSlide(r)
  \/ UploadQrImage(r) \/ DeleteQrCode(r)
  \/ UploadManualImage(r) \/ UploadManualPdf(r) \/ DeleteManual(r)
  \/ \E p \in In("products") :
       \/ CreateManual(r, p)
       \/ \E k \in In("manuals") : UpdateManual(r, k, p)
       \/ \E form \in ProductForms, c \in {"name", "code", "brand", "category"} :
            UpdateProduct(r, p, Restrict(form, {c}), None)
       \/ DeleteProduct(r, p)
  \/ \E form \in ProductForms : CreateProduct(r, form, <<>>)

Desks == {"prices", "gallery", "bundles", "shelves"}

\* The screens of one desk, and what becomes of the requests they send.
CatalogueStep(desk) ==
  \E r \in Editors :
    \/ desk = "prices" /\ PricesDesk(r)
    \/ desk = "gallery" /\ GalleryDesk(r)
    \/ desk = "bundles" /\ BundlesDesk(r)
    \/ desk = "shelves" /\ ShelvesDesk(r)
    \/ CommitWork(r)
    \/ WorkFails(r)

CatalogueNext == \E desk \in Desks : CatalogueStep(desk)

CatalogueSpec == CatalogueInit /\ [][CatalogueNext]_catalogueVars

-----------------------------------------------------------------------------
(* The properties.                                                         *)

(* However a product's prices were edited - in part or whole, through      *)
(* either endpoint - its list price is not below its price, unless two     *)
(* edits of them overlapped.                                               *)
ListCoversPrice ==
  \A p \in In("products") \ crossed : db[p].list_price >= db[p].price

\* The row an entry about k of the database d is filed under.
Subject(d, k) ==
  CASE Table(k) = "set_option_choices" -> d[d[k].parent].parent
    [] Table(k) \in ChildTables \ {"set_option_choices"} -> d[k].parent
    [] OTHER -> k

\* An entry of the row's own, or one for the parent created or deleted with it.
Tells(e, d, k, action) ==
  /\ e.entity = Subject(d, k)
  /\ \/ e.action = action /\ e.note = None
     \/ e.entity # k /\ e.action \in {"create", "delete"}
     \/ e.note # None /\ e.note[1] = Verb[action]

Committing == {r \in Editors : working[r] # <<>> /\ working'[r] = <<>>}
LoadedBy(r) == UNION {DOMAIN working[r][i].loaded : i \in DOMAIN working[r]}

(* Nothing staff write goes unrecorded: of every commit, each row that     *)
(* appears, each column that changes to a value and each row that goes -   *)
(* those the database alone removes apart - has its entry in the log,      *)
(* under the row itself or under the one it is a part of.                  *)
EveryWriteIsTold == [][
  /\ \A k \in DOMAIN db' \ DOMAIN db : \E e \in log' : Tells(e, db', k, "create")
  /\ \A k \in DOMAIN db' \cap DOMAIN db : \A f \in DOMAIN db[k] :
       db'[k][f] # db[k][f] =>
         \E e \in log' :
           /\ Tells(e, db, k, "update")
           /\ f \in DOMAIN e.changes /\ e.changes[f][2] = db'[k][f]
  /\ \A k \in DOMAIN db \ DOMAIN db' :
       (\E r \in Committing : k \in LoadedBy(r)) =>
         \E e \in log' : Tells(e, db, k, "delete")
  ]_catalogueVars

(* The log tells no tales: an entry is filed by a request that commits, in *)
(* its name, and says what the database then holds - the values a row was  *)
(* given are its values, and a row said to be deleted is gone.             *)
EntriesAreTrue == [][
  \A e \in log' :
    log' # log =>
      /\ e.actor \in Committing
      /\ e.action = "create" =>
           /\ e.entity \in DOMAIN db' \ DOMAIN db
           /\ \A f \in DOMAIN e.changes : db'[e.entity][f] = e.changes[f][2]
      /\ e.action = "update" /\ e.note = None =>
           /\ e.entity \in DOMAIN db'
           /\ \A f \in DOMAIN e.changes : db'[e.entity][f] = e.changes[f][2]
      /\ e.action = "delete" => e.entity \notin DOMAIN db'
  ]_catalogueVars
=============================================================================
