------------------------------- MODULE Listing -------------------------------
(***************************************************************************)
(* How the catalogue is read: GET /products/, /products/count and          *)
(* /products/facets (app/routers/products.py).  One reader pages through   *)
(* the answer to one question while the catalogue stands still; each page  *)
(* is a query of its own, and the database may order tied rows differently *)
(* every time.  A name is a number, in the order of the lower case, beside  *)
(* the words of the name and the code that a search may find.              *)
(***************************************************************************)
EXTENDS Integers, SequencesExt, FiniteSetsExt, Functions

CONSTANTS
  Stocks,     \* catalogues to read, each a function from product ids to rows
  Questions,  \* the query parameters of a reader
  Figures     \* prices a product could have

All == "all"               \* section=all; also no brand, no search
Unknown == -1              \* stock_qty is NULL
Uncategorised == "none"    \* category_id is NULL

\* A row of products, as far as it is searched, sorted and shown.
IsRow(r) ==
  /\ r \in [name : Int, words : {r.words}, price : Int, list_price : {r.list_price},
            discount : {r.discount}, stock : Nat \cup {Unknown}, brand : {r.brand},
            category : {r.category}, section : {r.section}, is_purchasable : BOOLEAN,
            delisted : BOOLEAN, created : Int]
  /\ r.brand \notin {All, Uncategorised}

IsFilter(f) ==
  f \in [include_unpurchasable : BOOLEAN, include_delisted : BOOLEAN, section : {f.section},
         brand : {f.brand}, categories : {f.categories}, q : {f.q}]

ASSUME ListingAssumption ==
  /\ \A s \in Stocks :
       IsFiniteSet(DOMAIN s) /\ DOMAIN s \subseteq Int /\ \A i \in DOMAIN s : IsRow(s[i])
  /\ \A a \in Questions : IsFilter(a.filter)

VARIABLES
  shelf,    \* the products
  asked,    \* the question: its filter, sort, limit and who asks
  skip,     \* the offset of the next page
  shown     \* the ids on the pages so far

listingVars == <<shelf, asked, skip, shown>>

Sorts == {"name", "name_desc", "price_asc", "price_desc",
          "stock_asc", "stock_desc", "newest", "oldest"}
PriceSorts == {"price_asc", "price_desc"}
MAX_PAGE_SIZE == 500

\* No token, a staff account or a customer.
CanViewPrice(viewer) ==
  \/ viewer.kind = "user" /\ viewer.is_active
  \/ viewer.kind = "customer" /\ viewer.is_active /\ viewer.access_permission

-----------------------------------------------------------------------------
\* The WHERE clause all three endpoints share.
Matches(row, f) ==
  /\ f.include_unpurchasable \/ row.is_purchasable
  /\ f.include_delisted \/ ~ row.delisted
  /\ f.section \in {All, row.section}
  /\ f.brand \in {All, row.brand}
  /\ f.categories = {} \/ row.category \in f.categories
  /\ f.q = All \/ f.q \in row.words

Selected(f) == {i \in DOMAIN shelf : Matches(shelf[i], f)}

Count(f) == Cardinality(Selected(f))

\* Row p comes before row q by the first key of the ORDER BY; unknown stock
\* comes last either way.
Ahead(sort, p, q) ==
  CASE sort = "name" -> p.name < q.name
    [] sort = "name_desc" -> q.name < p.name
    [] sort = "price_asc" -> p.price < q.price
    [] sort = "price_desc" -> q.price < p.price
    [] sort = "stock_asc" -> p.stock # Unknown /\ (q.stock = Unknown \/ p.stock < q.stock)
    [] sort = "stock_desc" -> p.stock # Unknown /\ (q.stock = Unknown \/ q.stock < p.stock)
    [] sort = "newest" -> q.created < p.created
    [] sort = "oldest" -> p.created < q.created

\* One key, ties as the database likes.
ComesByKey(sort, rows, i, j) == Ahead(sort, rows[i], rows[j])

\* Every ordering ends in the id.
Comes(sort, rows, i, j) ==
  \/ Ahead(sort, rows[i], rows[j])
  \/ /\ ~ Ahead(sort, rows[j], rows[i])
     /\ IF sort = "newest" THEN j < i ELSE i < j

\* The sort is taken as asked.
SortAsAsked(sort, viewer) == sort

\* A masked viewer who asks for a price ordering gets the default one.
EffectiveSort(sort, viewer) ==
  IF sort \in PriceSorts /\ ~ CanViewPrice(viewer) THEN "name" ELSE sort

\* The orders in which the database may return the matching rows.
Orders(rows, a) ==
  LET sort == EffectiveSort(a.sort, a.viewer)
      matching == {i \in DOMAIN rows : Matches(rows[i], a.filter)}
  IN {s \in SetToSeqs(matching) :
        \A i, j \in DOMAIN s : i < j => ~ Comes(sort, rows, s[j], s[i])}

\* _serialize_product: list_price and discount are withheld with the price.
Serialize(id, row, viewer) ==
  IF CanViewPrice(viewer)
  THEN [id |-> id, row |-> row]
  ELSE [id |-> id,
        row |-> [row EXCEPT !.price = "XXXX", !.list_price = "null", !.discount = "null"]]

\* What GET /products/ may answer with no offset and a page of any length.
Listings(rows, a) ==
  {[i \in DOMAIN s |-> Serialize(s[i], rows[s[i]], a.viewer)] : s \in Orders(rows, a)}

\* One bucket per value of a column among the matching rows.
Buckets(column, f) ==
  LET values == {shelf[i][column] : i \in Selected(f)} \ {Uncategorised}
  IN {[id |-> v, count |-> Cardinality({i \in Selected(f) : shelf[i][column] = v})] :
        v \in values}

\* Buckets counted with every filter applied.
FacetsOfFiltered(f) ==
  [categories |-> Buckets("category", f), brands |-> Buckets("brand", f)]

\* Each side leaves out its own filter.
Facets(f) ==
  [categories |-> Buckets("category", [f EXCEPT !.categories = {}]),
   brands |-> Buckets("brand", [f EXCEPT !.brand = All])]

-----------------------------------------------------------------------------
ListingInit ==
  /\ shelf \in Stocks
  /\ asked \in {a \in Questions : a.sort \in Sorts /\ a.limit \in 1 .. MAX_PAGE_SIZE}
  /\ skip = 0
  /\ shown = <<>>

\* The storefront asks for as many pages as the count makes.
ListProducts ==
  /\ skip < Count(asked.filter)
  /\ \E s \in Orders(shelf, asked) :
       shown' = shown \o SubSeq(s, skip + 1, Min({skip + asked.limit, Len(s)}))
  /\ skip' = skip + asked.limit
  /\ UNCHANGED <<shelf, asked>>

ListingSpec == ListingInit /\ [][ListProducts]_listingVars

-----------------------------------------------------------------------------
(* The pages of a listing show every matching product once, none twice and *)
(* none lost between two of them, for every sort and although ties are the *)
(* norm; and GET /count says how many pages that takes.                    *)
PagesPartition ==
  /\ IsInjective(shown)
  /\ skip >= Count(asked.filter) => ToSet(shown) = Selected(asked.filter)

\* The figures beside v.
Promised(buckets, v) == {b.count : b \in {c \in buckets : c.id = v}}

(* The figure beside a category or a brand is the number of products a     *)
(* click on it yields, with the other filters as they are; what is not     *)
(* offered would yield none, and nothing is offered twice.                 *)
FacetsPromiseWhatAClickYields ==
  LET f == asked.filter
      facets == Facets(f)
  IN skip = 0 =>
       \A i \in DOMAIN shelf :
         /\ shelf[i].category # Uncategorised =>
              Promised(facets.categories, shelf[i].category)
                = {Count([f EXCEPT !.categories = {shelf[i].category}])} \ {0}
         /\ Promised(facets.brands, shelf[i].brand)
              = {Count([f EXCEPT !.brand = shelf[i].brand])} \ {0}

(* A viewer whose prices are masked learns nothing about them: were every  *)
(* product priced differently, the same question would get the same        *)
(* answers in the same order.                                              *)
MaskedLearnNothing ==
  skip = 0 /\ ~ CanViewPrice(asked.viewer) =>
    \A prices \in [DOMAIN shelf -> Figures] :
      LET repriced == [i \in DOMAIN shelf |->
            [shelf[i] EXCEPT !.price = prices[i], !.list_price = prices[i], !.discount = 0]]
      IN Listings(repriced, asked) = Listings(shelf, asked)
=============================================================================
