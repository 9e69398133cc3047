------------------------------ MODULE Pricing -------------------------------
(***************************************************************************)
(* What a cart costs: routers/orders.py over core/bundles.py.  Products,   *)
(* one promotion and one configurable set are repriced, edited and deleted *)
(* by staff while carts are quoted, parked in a checkout behind a QR, and  *)
(* quotes are re-priced by edits.  Lines are snapshots; what they were     *)
(* bought from is a foreign key that deletion sets to NULL.                *)
(*                                                                         *)
(* Money is in cents and the columns hold cents (Numeric(10, 2), rounded   *)
(* half up by PostgreSQL).  A discount value is in hundredths, of a per    *)
(* cent or of a dollar as its type says, and a discount before rounding in *)
(* ten-thousandths of a cent.                                              *)
(***************************************************************************)
EXTENDS Integers, FiniteSetsExt, Functions, Sequences

CONSTANTS
  Products,
  GiftOnly,     \* products with is_purchasable = False
  Gifts,        \* the free items of each product, as a bag
  Prices,       \* what staff may price a product, a promotion or a set at
  Carts,        \* carts customers and staff send, set lines unconfigured
  Values,       \* discount values staff enter
  Bundles,      \* contents lists the admin forms send, as bags of products
  GroupForms,   \* lists of option groups the admin form sends
  Openings,     \* catalogues to start from
  MaxChanges    \* bound on changes to the catalogue

Bag == [Products -> Nat]
Nothing == [p \in Products |-> 0]

(* A choice of an option group; delta counts only if fixed. *)
Choice == [product : Products, qty : Nat \ {0}, fixed : BOOLEAN, delta : Int, default : BOOLEAN]

(* An option group, whose choices are numbered by sort_order.               *)
IsGroup(g) ==
  /\ g \in [id : Nat \X Nat, choices : [DOMAIN g.choices -> Choice]]
  /\ DOMAIN g.choices \subseteq Nat

Phases == {"soon", "running", "over"}

IsPromotion(b) == b \in [exists : BOOLEAN, phase : Phases, price : Nat, old : Nat, items : Bag]

IsSet(b) ==
  /\ b \in [exists : BOOLEAN, price : Nat, old : Nat, items : Bag, groups : {b.groups}]
  /\ IsFiniteSet(DOMAIN b.groups) /\ \A i \in DOMAIN b.groups : IsGroup(b.groups[i])

(* A line of a cart. *)
Kinds == {"product", "promotion", "set"}
Picked == SUBSET [group : Nat \X Nat, product : Products]
Item == [kind : Kinds, product : Products, qty : Nat, pick : Picked]

IsCart(cart) == IsFiniteSet(DOMAIN cart) /\ \A i \in DOMAIN cart : cart[i] \in Item

ASSUME CatalogueAssumption ==
  /\ IsFiniteSet(Products) /\ GiftOnly \subseteq Products /\ Gifts \in [Products -> Bag]
  /\ Prices \subseteq Nat \ {0} /\ Bundles \subseteq Bag /\ MaxChanges \in Nat
  /\ GroupForms \subseteq Seq(Seq(Choice))
  /\ \A o \in Openings :
       /\ o.price \in [Products -> Nat]
       /\ IsPromotion(o.promo) /\ IsSet(o.set)

(* Discounts and quantities are not negative (ge=0, ge=1).                  *)
ASSUME SchemasAssumption ==
  /\ Values \subseteq Nat
  /\ \A cart \in Carts : IsCart(cart)

VARIABLES
  price,     \* Product.price; 0 if the row is deleted
  promo,     \* the promotion and where the clock stands in its window
  set,       \* the set, its fixed items and its option groups
  order,     \* the order looked at: a quote, or a paid one from a checkout
  checkout,  \* the checkout waiting for its payment
  changes    \* changes to the catalogue so far

vars == <<price, promo, set, order, checkout, changes>>
catalogue == <<price, promo, set, changes>>

Rows == {p \in Products : price[p] > 0}

(* A line of an order. *)
Line == [kind : Kinds, product : Products, qty : Nat, pick : Picked,
         unit : Nat, was : Nat, amount : Nat, parts : Bag, linked : BOOLEAN]

AreLines(lines) == IsFiniteSet(DOMAIN lines) /\ \A i \in DOMAIN lines : lines[i] \in Line

NoOrder    == [lines |-> <<>>, type |-> "cash", value |-> 0, subtotal |-> 0, discount |-> 0, grand |-> 0]
NoCheckout == [lines |-> <<>>, subtotal |-> 0, grand |-> 0]

-----------------------------------------------------------------------------
(* core/bundles.py                                                          *)

(* The flagged choice, or the first one. *)
DefaultChoice(g) ==
  LET flagged == {j \in DOMAIN g.choices : g.choices[j].default}
  IN  g.choices[Min(IF flagged # {} THEN flagged ELSE DOMAIN g.choices)]

Worth(bag) == SumFunction([p \in Products |-> price[p] * bag[p]])

(* Mutant: the default's own price_delta counts too. *)
DeltaOfEvery(c, g) ==
  LET base == DefaultChoice(g)
  IN  IF c.fixed THEN c.delta
      ELSE price[c.product] * c.qty - price[base.product] * base.qty

(* What picking c adds to the price of its set. *)
Delta(c, g) ==
  LET base == DefaultChoice(g)
  IN  IF c = base THEN 0
      ELSE IF c.fixed THEN c.delta
      ELSE price[c.product] * c.qty - price[base.product] * base.qty

(* Groups without choices have nothing to include. *)
Slots == {g \in Range(set.groups) : DOMAIN g.choices # {}}

(* resolve_set_options: a pick that is not in the set is refused. *)
Fits(pick) ==
  \A x \in pick : \E g \in Slots : g.id = x.group /\ \E c \in Range(g.choices) : c.product = x.product

Chosen(pick) ==
  [g \in Slots |->
     LET picked == {j \in DOMAIN g.choices : [group |-> g.id, product |-> g.choices[j].product] \in pick}
     IN  IF picked # {} THEN g.choices[Min(picked)] ELSE DefaultChoice(g)]

Defaults == [g \in Slots |-> DefaultChoice(g)]

OptionsDelta(chosen) == SumFunction([g \in Slots |-> Delta(chosen[g], g)])

(* A slot takes over the fixed item its default names. *)
Claimed == {DefaultChoice(g).product : g \in Slots}

Selected(chosen, p) == SumFunction([g \in Slots |-> IF chosen[g].product = p THEN chosen[g].qty ELSE 0])

(* Mutant: a slot takes over the item it ends up on. *)
SetContentsByChoice(chosen) ==
  [p \in Products |->
     IF Selected(chosen, p) > 0 THEN Selected(chosen, p) ELSE set.items[p]]

SetContents(chosen) ==
  [p \in Products |-> (IF p \in Claimed THEN 0 ELSE set.items[p]) + Selected(chosen, p)]

(* The contents priced separately; the entered figure if none are listed. *)
BundleOldPrice(bundle, contents) == IF contents = Nothing THEN bundle.old ELSE Worth(contents)

(* build_option_groups: no empty group, no product twice in one; the first  *)
(* default stays, and a group without one gets its first choice.            *)
ValidGroups(form) ==
  \A i \in DOMAIN form :
    /\ form[i] # <<>>
    /\ IsInjective([j \in DOMAIN form[i] |-> form[i][j].product])
    /\ \A c \in Range(form[i]) : c.product \in Rows

Built(choices) ==
  LET flagged == {j \in DOMAIN choices : choices[j].default}
      keep    == IF flagged = {} THEN 1 ELSE Min(flagged)
  IN  [j \in DOMAIN choices |-> [choices[j] EXCEPT !.default = (j = keep)]]

-----------------------------------------------------------------------------
(* _build_order_lines                                                       *)

Times(bag, n) == [p \in Products |-> bag[p] * n]

Orderable(l) ==
  CASE l.kind = "product"   -> l.product \in Rows \ GiftOnly
    [] l.kind = "promotion" -> promo.exists /\ promo.phase = "running"
    [] l.kind = "set"       -> set.exists /\ Fits(l.pick)

(* A line at a unit price, with the price it is measured against. *)
Snapshot(l, unit, was, contents) ==
  [kind |-> l.kind, product |-> l.product, qty |-> l.qty, pick |-> l.pick, unit |-> unit,
   was |-> IF was = 0 THEN unit ELSE was, amount |-> unit * l.qty,
   parts |-> Times(contents, l.qty), linked |-> TRUE]

(* Free items go with the product that is given away (CASCADE). *)
FreeItems(p) == [q \in Products |-> IF q \in Rows THEN Gifts[p][q] ELSE 0]

ProductLine(l) == Snapshot(l, price[l.product], 0, FreeItems(l.product))

PromotionLine(l) == Snapshot(l, promo.price, BundleOldPrice(promo, promo.items), promo.items)

SetLine(l) ==
  LET chosen   == Chosen(l.pick)
      contents == SetContents(chosen)
  IN  Snapshot(l, Max({set.price + OptionsDelta(chosen), 0}), BundleOldPrice(set, contents), contents)

Priced(l) ==
  CASE l.kind = "product" -> ProductLine(l)
    [] l.kind = "promotion" -> PromotionLine(l)
    [] l.kind = "set" -> SetLine(l)

BuildOrderLines(cart) == [i \in DOMAIN cart |-> Priced(cart[i])]

Amounts(lines) == [i \in DOMAIN lines |-> lines[i].amount]

SumOf(lines) == SumFunction(Amounts(lines))

(* The order-level discount does not stack on a promotion or a set. *)
Discountable(lines) ==
  SumFunctionOnSet(Amounts(lines), {i \in DOMAIN lines : lines[i].kind = "product"})

(* Mutant: a set's key is forgotten. *)
PersistedDiscountableSets(lines) ==
  SumFunctionOnSet(Amounts(lines), {i \in DOMAIN lines : lines[i].kind # "promotion" \/ ~lines[i].linked})

(* _persisted_totals knows a deal by its foreign key. *)
PersistedDiscountable(lines) ==
  SumFunctionOnSet(Amounts(lines), {i \in DOMAIN lines : lines[i].kind = "product" \/ ~lines[i].linked})

ComputeDiscount(type, value, base) ==
  IF type = "percent" THEN base * value ELSE Min({value, base}) * 10000

Stored(amount) == (amount + 5000) \div 10000

Total(lines, type, value, base) ==
  LET off == ComputeDiscount(type, value, base)
  IN  [lines |-> lines, type |-> type, value |-> value, subtotal |-> SumOf(lines),
       discount |-> Stored(off), grand |-> Stored(Max({0, SumOf(lines) * 10000 - off}))]
-----------------------------------------------------------------------------
(* Carts and orders.                                                        *)

Configured(cart, pick) ==
  [i \in DOMAIN cart |-> [cart[i] EXCEPT !.pick = IF @ = {} /\ cart[i].kind = "set" THEN pick ELSE @]]

(* Nothing picked, or one choice of one group. *)
Picks == {{}} \cup UNION {{{[group |-> g.id, product |-> c.product]} : c \in Range(g.choices)} : g \in Slots}

(* One purchase is followed at a time: two never meet. *)
NoPurchase == order = NoOrder /\ checkout = NoCheckout

AllOrderable(cart) == \A i \in DOMAIN cart : Orderable(cart[i])

ValidDiscount(type, value) == type = "percent" => value <= 10000

(* POST /orders: a quote. *)
CreateOrder(cart, type, value) ==
  /\ NoPurchase
  /\ AllOrderable(cart) /\ ValidDiscount(type, value)
  /\ LET lines == BuildOrderLines(cart)
     IN  order' = Total(lines, type, value, Discountable(lines))
  /\ UNCHANGED <<catalogue, checkout>>

(* POST /orders/checkout: the snapshot leaves out what was picked.  A       *)
(* customer has no discount to give.                                        *)
CreateCheckout(cart) ==
  /\ NoPurchase
  /\ AllOrderable(cart)
  /\ LET lines == BuildOrderLines(cart)
     IN  checkout' = [lines    |-> [i \in DOMAIN lines |-> [lines[i] EXCEPT !.pick = {}]],
                      subtotal |-> SumOf(lines), grand |-> SumOf(lines)]
  /\ UNCHANGED <<catalogue, order>>

(* Every row the lines and their $0 components refer to. *)
RefersTo(l) ==
  /\ l.kind = "product" => l.product \in Rows
  /\ l.kind = "promotion" => promo.exists
  /\ l.kind = "set" => set.exists
  /\ \A p \in Products : l.parts[p] > 0 => p \in Rows

Restorable == \A i \in DOMAIN checkout.lines : RefersTo(checkout.lines[i])

(* Mutant: the paid cart is priced again. *)
MaterializeRepriced ==
  /\ checkout # NoCheckout /\ AllOrderable(checkout.lines)
  /\ LET lines == BuildOrderLines(checkout.lines)
     IN  order' = Total(lines, "cash", 0, 0)
  /\ checkout' = NoCheckout
  /\ UNCHANGED catalogue

(* _materialize_checkout.  The INSERT violates a foreign key when a row is  *)
(* gone, and the payment stays without an order.                            *)
Materialize ==
  /\ checkout # NoCheckout /\ Restorable
  /\ order' = [NoOrder EXCEPT !.lines = checkout.lines, !.subtotal = checkout.subtotal,
                              !.grand = checkout.grand]
  /\ checkout' = NoCheckout
  /\ UNCHANGED catalogue

(* The cart an editor sends back: what the lines still refer to. *)
AsShown == [i \in DOMAIN order.lines |->
  [kind |-> order.lines[i].kind, product |-> order.lines[i].product,
   qty |-> order.lines[i].qty, pick |-> order.lines[i].pick]]

Sendable == \A i \in DOMAIN order.lines : order.lines[i].linked

(* Mutant: the totals are left as they were. *)
EditedKeepTotals(lines, type, value, base) ==
  [order EXCEPT !.lines = lines, !.type = type, !.value = value]

Edited(lines, type, value, base) == Total(lines, type, value, base)

(* PUT /orders/{id} with a discount and no items, *)
EditDiscount(type, value) ==
  /\ order # NoOrder /\ ValidDiscount(type, value)
  /\ order' = Edited(order.lines, type, value, PersistedDiscountable(order.lines))
  /\ UNCHANGED <<catalogue, checkout>>

(* and with items, which are priced from scratch. *)
EditItems(cart, type, value) ==
  /\ order # NoOrder /\ ValidDiscount(type, value) /\ AllOrderable(cart)
  /\ LET lines == BuildOrderLines(cart)
     IN  order' = Edited(lines, type, value, Discountable(lines))
  /\ UNCHANGED <<catalogue, checkout>>

-----------------------------------------------------------------------------
(* The catalogue.                                                           *)

Change == changes < MaxChanges /\ changes' = changes + 1

Sold(bag) == \A p \in Products : bag[p] > 0 => p \in Rows

LinesOf(kind) == {i \in DOMAIN order.lines : order.lines[i].kind = kind}

(* The foreign keys of these lines of the order are set to NULL. *)
Nulled(lines, gone) == [i \in DOMAIN lines |-> [lines[i] EXCEPT !.linked = @ /\ i \notin gone]]

Unlink(gone) == order' = [order EXCEPT !.lines = Nulled(@, gone)]

Reprice(p, cost) ==
  /\ Change
  /\ p \in Rows
  /\ price' = [price EXCEPT ![p] = cost]
  /\ UNCHANGED <<promo, set, order, checkout>>

(* Bundles and groups that contain the product lose it by CASCADE. *)
Without(group, p) ==
  [group EXCEPT !.choices = Restrict(@, {j \in DOMAIN @ : @[j].product # p})]

DeleteProduct(p) ==
  /\ Change
  /\ p \in Rows
  /\ price' = [price EXCEPT ![p] = 0]
  /\ promo' = [promo EXCEPT !.items[p] = 0]
  /\ set' = [set EXCEPT !.items[p] = 0, !.groups = [i \in DOMAIN @ |-> Without(@[i], p)]]
  /\ Unlink({i \in LinesOf("product") : order.lines[i].product = p})
  /\ UNCHANGED checkout

UpdatePromotion(cost, items) ==
  /\ Change
  /\ promo.exists /\ Sold(items)
  /\ promo' = [promo EXCEPT !.price = cost, !.items = items]
  /\ UNCHANGED <<price, set, order, checkout>>

(* The clock passes start_date, then end_date. *)
PromotionMovesOn ==
  /\ promo.phase # "over"
  /\ promo' = [promo EXCEPT !.phase = IF @ = "soon" THEN "running" ELSE "over"]
  /\ UNCHANGED <<price, set, order, checkout, changes>>

DeletePromotion ==
  /\ Change
  /\ promo.exists
  /\ promo' = [promo EXCEPT !.exists = FALSE]
  /\ Unlink(LinesOf("promotion"))
  /\ UNCHANGED <<price, set, checkout>>

(* Groups that are sent replace the saved ones, under new ids. *)
NewGroups(form) == [i \in DOMAIN form |-> [id |-> <<changes + 1, i>>, choices |-> Built(form[i])]]

UpdateSet(cost, items, groups) ==
  /\ Change
  /\ set.exists /\ Sold(items)
  /\ set' = [set EXCEPT !.price = cost, !.items = items, !.groups = groups]
  /\ UNCHANGED <<price, promo, order, checkout>>

DeleteSet ==
  /\ Change
  /\ set.exists
  /\ set' = [set EXCEPT !.exists = FALSE]
  /\ Unlink(LinesOf("set"))
  /\ UNCHANGED <<price, promo, checkout>>

-----------------------------------------------------------------------------
Types == {"percent", "cash"}

Init ==
  /\ \E o \in Openings : price = o.price /\ promo = o.promo /\ set = o.set
  /\ order = NoOrder /\ checkout = NoCheckout /\ changes = 0

Ordering ==
  \/ \E cart \in Carts, pick \in Picks :
       \/ CreateCheckout(Configured(cart, pick))
       \/ \E type \in Types, value \in Values :
            \/ CreateOrder(Configured(cart, pick), type, value)
            \/ EditItems(Configured(cart, pick), type, value)
  \/ \E type \in Types, value \in Values :
       EditDiscount(type, value) \/ (Sendable /\ EditItems(AsShown, type, value))
  \/ Materialize

Selling ==
  \/ \E p \in Products : DeleteProduct(p) \/ \E cost \in Prices : Reprice(p, cost)
  \/ \E cost \in Prices, items \in Bundles \cup {promo.items} : UpdatePromotion(cost, items)
  \/ \E cost \in Prices, items \in Bundles \cup {set.items},
        groups \in {set.groups} \cup {NewGroups(f) : f \in {form \in GroupForms : ValidGroups(form)}} :
       UpdateSet(cost, items, groups)
  \/ PromotionMovesOn \/ DeletePromotion \/ DeleteSet

Next == Ordering \/ Selling

Spec == Init /\ [][Next]_vars

-----------------------------------------------------------------------------
(* Types; prices and amounts are never negative. *)
TypeOK ==
  /\ price \in [Products -> Nat] /\ IsPromotion(promo) /\ IsSet(set) /\ changes \in Nat
  /\ AreLines(order.lines) /\ AreLines(checkout.lines)
  /\ order \in [lines : {order.lines}, type : Types, value : Nat,
                subtotal : Nat, discount : Nat, grand : Nat]
  /\ checkout \in [lines : {checkout.lines}, subtotal : Nat, grand : Nat]

(* However it was quoted, paid and edited, and whatever was deleted since,  *)
(* an order's subtotal is what its lines cost, and what was taken off and   *)
(* what is left make up the subtotal - to the cent that is lost because     *)
(* both are rounded up when they fall between two cents.                    *)
AddsUp ==
  /\ order.subtotal = SumOf(order.lines)
  /\ order.discount + order.grand - order.subtotal \in {0, 1}

(* What the promotions and the sets among these lines cost. *)
DealsCost(lines) == SumFunctionOnSet(Amounts(lines), {i \in DOMAIN lines : lines[i].kind # "product"})

(* "promotion/set lines are outside the order-level discount's base"        *)
(* (_persisted_totals): whoever buys deals pays at least their price.       *)
(* The code does not keep it (README, section 6).                           *)
DealsKeepTheirPrice == order.grand >= DealsCost(order.lines)

(* An order comes to pay less than its deals cost in one way only: by an    *)
(* edit of the discount alone, after one of its deals was deleted.          *)
OnlyOrphansAreDiscounted ==
  [][DealsKeepTheirPrice =>
       \/ DealsKeepTheirPrice'
       \/ /\ order'.lines = order.lines
          /\ \E i \in DOMAIN order.lines : order.lines[i].kind # "product" /\ ~order.lines[i].linked]_vars

(* The order a checkout becomes is the one the QR asked the money for:      *)
(* its lines are those that were priced then, and they add up to the        *)
(* amount that was paid, though the catalogue has moved on.                 *)
SoldAsPaid ==
  [][checkout # NoCheckout /\ checkout' = NoCheckout =>
       order'.grand = checkout.grand /\ SumOf(order'.lines) = checkout.grand]_vars

(* The price and the "was" price a set is shown with are those an order     *)
(* for it as standard is written with (_serialize_set and                   *)
(* _build_order_lines "would disagree" otherwise).                          *)
AdvertisedIsCharged ==
  LET line == SetLine([kind |-> "set", product |-> CHOOSE p \in Products : TRUE, qty |-> 1, pick |-> {}])
      was  == BundleOldPrice(set, SetContents(Defaults))
  IN  line.unit = set.price /\ line.was = IF was = 0 THEN set.price ELSE was

(* "an upgraded set lists the Pro and NOT the standard machine it           *)
(* replaced": a fixed item whose slot ends up elsewhere is not in the box.  *)
UpgradeReplaces ==
  \A pick \in Picks : \A g \in Slots :
    LET chosen == Chosen(pick)
        standard == DefaultChoice(g).product
    IN  (\A h \in Slots : chosen[h].product # standard) => SetContents(chosen)[standard] = 0

(* A checkout can always become its order: what its snapshot refers to is   *)
(* there to be referred to.                                                 *)
CheckoutCanBecomeOrder == Restorable
=============================================================================
