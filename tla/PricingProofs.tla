--------------------------- MODULE PricingProofs ----------------------------
(***************************************************************************)
(* Theorems about Pricing, for every catalogue, cart, discount and order   *)
(* of edits.                                                               *)
(*                                                                         *)
(* What a cart costs is a sum over its lines: module Sums.                 *)
(***************************************************************************)
EXTENDS Pricing, Sums

-----------------------------------------------------------------------------
(* Option groups.                                                           *)

LEMMA DefaultOK ==
  ASSUME NEW g, IsGroup(g), DOMAIN g.choices # {}
  PROVE  DefaultChoice(g) \in Choice
<1> DEFINE flagged == {j \in DOMAIN g.choices : g.choices[j].default}
           places  == IF flagged # {} THEN flagged ELSE DOMAIN g.choices
<1>1. places \in SUBSET Nat /\ places # {} /\ places \subseteq DOMAIN g.choices
  BY DEF IsGroup
<1>2. Min(places) \in DOMAIN g.choices
  <2> HIDE DEF places
  <2> QED BY <1>1, LeastNumber
<1>3. DefaultChoice(g) = g.choices[Min(places)]
  BY DEF DefaultChoice
<1>4. g.choices \in [DOMAIN g.choices -> Choice]
  BY DEF IsGroup
<1> HIDE DEF places
<1> QED BY <1>2, <1>3, <1>4

LEMMA SlotsOK ==
  ASSUME IsSet(set)
  PROVE  /\ IsFiniteSet(Slots)
         /\ \A g \in Slots : IsGroup(g) /\ DefaultChoice(g) \in Choice
<1>1. IsFiniteSet(Range(set.groups))
  <2> DEFINE at == [i \in DOMAIN set.groups |-> set.groups[i]]
  <2>1. at \in Surjection(DOMAIN set.groups, Range(set.groups))
    BY DEF Surjection, Range
  <2> QED BY <2>1, FS_Surjection DEF IsSet
<1>2. Slots \subseteq Range(set.groups)
  BY DEF Slots
<1>3. \A g \in Slots : IsGroup(g) /\ DOMAIN g.choices # {}
  BY DEF Slots, Range, IsSet
<1> QED BY <1>1, <1>2, <1>3, FS_Subset, DefaultOK

LEMMA ChosenOK ==
  ASSUME IsSet(set), NEW pick
  PROVE  Chosen(pick) \in [Slots -> Choice]
<1> SUFFICES ASSUME NEW g \in Slots PROVE Chosen(pick)[g] \in Choice
  BY DEF Chosen
<1> DEFINE picked == {j \in DOMAIN g.choices : [group |-> g.id, product |-> g.choices[j].product] \in pick}
<1>1. Chosen(pick)[g] = IF picked # {} THEN g.choices[Min(picked)] ELSE DefaultChoice(g)
  BY DEF Chosen
<1>2. /\ IsGroup(g) /\ DefaultChoice(g) \in Choice
      /\ g.choices \in [DOMAIN g.choices -> Choice] /\ DOMAIN g.choices \subseteq Nat
  BY SlotsOK DEF IsGroup
<1>3. picked \in SUBSET Nat /\ picked \subseteq DOMAIN g.choices
  BY <1>2
<1> HIDE DEF picked
<1>4. picked # {} => Min(picked) \in DOMAIN g.choices
  BY <1>3, LeastNumber
<1> QED BY <1>1, <1>2, <1>4

LEMMA DeltaOK ==
  ASSUME IsSet(set), price \in [Products -> Nat], NEW c \in [Slots -> Choice]
  PROVE  OptionsDelta(c) \in Int
<1> DEFINE f == [g \in Slots |-> Delta(c[g], g)]
<1>1. \A g \in Slots : f[g] \in Int
  <2> SUFFICES ASSUME NEW g \in Slots PROVE Delta(c[g], g) \in Int
    OBVIOUS
  <2>1. c[g] \in Choice /\ DefaultChoice(g) \in Choice
    BY SlotsOK
  <2>2. \A x \in Choice : price[x.product] * x.qty \in Int /\ x.delta \in Int
    BY DEF Choice
  <2> QED BY <2>1, <2>2 DEF Delta
<1>2. IsFiniteSet(Slots) /\ DOMAIN f = Slots
  BY SlotsOK
<1>3. OptionsDelta(c) = SumFunctionOnSet(f, Slots)
  BY DEF OptionsDelta, SumFunction
<1> HIDE DEF f
<1> QED BY <1>1, <1>2, <1>3, SumOne

LEMMA ContentsOK ==
  ASSUME IsSet(set), NEW c \in [Slots -> Choice]
  PROVE  SetContents(c) \in Bag
<1>1. ASSUME NEW p \in Products PROVE Selected(c, p) \in Nat
  <2> DEFINE f == [g \in Slots |-> IF c[g].product = p THEN c[g].qty ELSE 0]
  <2>1. \A g \in Slots : f[g] \in Nat
    BY DEF Choice
  <2>2. IsFiniteSet(Slots)
    BY SlotsOK
  <2>3. Selected(c, p) = SumFunctionOnSet(f, Slots)
    BY DEF Selected, SumFunction
  <2> HIDE DEF f
  <2> QED BY <2>1, <2>2, <2>3, SumGrows
<1>2. \A p \in Products : set.items[p] \in Nat
  BY DEF IsSet, Bag
<1> QED BY <1>1, <1>2 DEF SetContents, Bag

LEMMA WorthOK ==
  ASSUME price \in [Products -> Nat], NEW bag \in Bag
  PROVE  Worth(bag) \in Nat
<1> DEFINE f == [p \in Products |-> price[p] * bag[p]]
<1>1. \A p \in Products : f[p] \in Nat
  BY DEF Bag
<1>2. Worth(bag) = SumFunctionOnSet(f, Products)
  BY DEF Worth, SumFunction
<1> HIDE DEF f
<1> QED BY <1>1, <1>2, CatalogueAssumption, SumGrows

-----------------------------------------------------------------------------
(* Lines and totals.                                                        *)

Typed ==
  price \in [Products -> Nat] /\ IsPromotion(promo) /\ IsSet(set)

LEMMA SnapshotOK ==
  ASSUME NEW l \in Item, NEW unit \in Nat, NEW was \in Nat, NEW contents \in Bag
  PROVE  Snapshot(l, unit, was, contents) \in Line /\ Snapshot(l, unit, was, contents).kind = l.kind
<1>1. l.qty \in Nat /\ l.kind \in Kinds /\ l.product \in Products /\ l.pick \in Picked
  BY DEF Item
<1>2. unit * l.qty \in Nat
  BY <1>1
<1>3. Times(contents, l.qty) \in Bag
  <2>1. \A p \in Products : contents[p] * l.qty \in Nat
    BY <1>1 DEF Bag
  <2> QED BY <2>1 DEF Times, Bag
<1> QED BY <1>1, <1>2, <1>3 DEF Snapshot, Line

LEMMA PricedOK ==
  ASSUME Typed, NEW l \in Item
  PROVE  Priced(l) \in Line /\ Priced(l).kind = l.kind
<1>1. l.kind \in Kinds /\ l.product \in Products
  BY DEF Item
<1>2. CASE l.kind = "product"
  <2>1. price[l.product] \in Nat /\ FreeItems(l.product) \in Bag
    BY <1>1, CatalogueAssumption DEF Typed, FreeItems, Bag
  <2>2. Priced(l) = Snapshot(l, price[l.product], 0, FreeItems(l.product))
    BY <1>2 DEF Priced, ProductLine
  <2> QED BY <2>1, <2>2, SnapshotOK
<1>3. CASE l.kind = "promotion"
  <2>1. promo.price \in Nat /\ promo.items \in Bag /\ promo.old \in Nat
    BY DEF Typed, IsPromotion
  <2>2. BundleOldPrice(promo, promo.items) \in Nat
    BY <2>1, WorthOK DEF BundleOldPrice, Typed
  <2>3. Priced(l) = Snapshot(l, promo.price, BundleOldPrice(promo, promo.items), promo.items)
    BY <1>3 DEF Priced, PromotionLine
  <2> QED BY <2>1, <2>2, <2>3, SnapshotOK
<1>4. CASE l.kind = "set"
  <2> DEFINE c == Chosen(l.pick)
  <2>1. c \in [Slots -> Choice] /\ set.price \in Nat /\ set.old \in Nat
    BY ChosenOK DEF Typed, IsSet
  <2>2. SetContents(c) \in Bag /\ OptionsDelta(c) \in Int
    BY <2>1, ContentsOK, DeltaOK DEF Typed
  <2>3. Max({set.price + OptionsDelta(c), 0}) \in Nat
    BY <2>1, <2>2, MaxOfTwo
  <2>4. BundleOldPrice(set, SetContents(c)) \in Nat
    BY <2>1, <2>2, WorthOK DEF BundleOldPrice, Typed
  <2>5. Priced(l) = Snapshot(l, Max({set.price + OptionsDelta(c), 0}), BundleOldPrice(set, SetContents(c)), SetContents(c))
    BY <1>4 DEF Priced, SetLine
  <2> HIDE DEF c
  <2> QED BY <2>2, <2>3, <2>4, <2>5, SnapshotOK
<1> QED BY <1>1, <1>2, <1>3, <1>4 DEF Kinds

LEMMA BuiltOK ==
  ASSUME Typed, NEW cart, IsCart(cart)
  PROVE  AreLines(BuildOrderLines(cart))
BY PricedOK DEF IsCart, AreLines, BuildOrderLines

(* What a discount may be taken off: the products among the lines, lines    *)
(* whose deal is gone as well, everything.                                  *)
LEMMA BasesOK ==
  ASSUME NEW lines, AreLines(lines)
  PROVE  /\ Discountable(lines) \in Nat /\ PersistedDiscountable(lines) \in Nat /\ SumOf(lines) \in Nat
         /\ Discountable(lines) <= PersistedDiscountable(lines)
         /\ PersistedDiscountable(lines) <= SumOf(lines)
<1> DEFINE f == Amounts(lines)
           all == DOMAIN lines
           kept == {i \in all : lines[i].kind = "product" \/ ~lines[i].linked}
           products == {i \in all : lines[i].kind = "product"}
<1>1. IsFiniteSet(all) /\ DOMAIN f = all /\ \A i \in all : f[i] \in Nat
  BY DEF AreLines, Line, Amounts
<1>2. products \in SUBSET kept /\ kept \in SUBSET all /\ IsFiniteSet(kept)
  BY <1>1, FS_Subset
<1>3. /\ Discountable(lines) = SumFunctionOnSet(f, products)
      /\ PersistedDiscountable(lines) = SumFunctionOnSet(f, kept)
      /\ SumOf(lines) = SumFunctionOnSet(f, all)
  BY <1>1 DEF Discountable, PersistedDiscountable, SumOf, SumFunction
<1>4. \A i \in kept : f[i] \in Nat
  BY <1>1, <1>2
<1> HIDE DEF f, all, kept, products
<1>5. /\ SumFunctionOnSet(f, products) \in Nat /\ SumFunctionOnSet(f, kept) \in Nat
      /\ SumFunctionOnSet(f, products) <= SumFunctionOnSet(f, kept)
  BY <1>2, <1>4, SumGrows
<1>6. /\ SumFunctionOnSet(f, kept) <= SumFunctionOnSet(f, all) /\ SumFunctionOnSet(f, all) \in Nat
  BY <1>1, <1>2, SumGrows
<1> QED BY <1>3, <1>5, <1>6

LEMMA DiscountOK ==
  ASSUME NEW type \in Types, NEW value \in Nat, ValidDiscount(type, value), NEW base \in Nat
  PROVE  /\ ComputeDiscount(type, value, base) \in Nat
         /\ ComputeDiscount(type, value, base) <= base * 10000
<1>1. CASE type = "percent"
  <2>1. value <= 10000
    BY <1>1 DEF ValidDiscount
  <2>2. base * value \in Nat /\ base * value <= base * 10000
    BY <2>1
  <2> QED BY <1>1, <2>2 DEF ComputeDiscount
<1>2. CASE type = "cash"
  <2>1. Min({value, base}) \in Nat /\ Min({value, base}) <= base
    BY MinOfTwo
  <2> QED BY <1>2, <2>1 DEF ComputeDiscount
<1> QED BY <1>1, <1>2 DEF Types

(* An order's figures: the subtotal is what its lines cost, and discount    *)
(* and total make it up to the cent both roundings may add.                 *)
Balanced(o) ==
  /\ o \in [lines : {o.lines}, type : Types, value : Nat, subtotal : Nat, discount : Nat, grand : Nat]
  /\ AreLines(o.lines)
  /\ o.subtotal = SumOf(o.lines)
  /\ o.discount + o.grand - o.subtotal \in {0, 1}

LEMMA TotalOK ==
  ASSUME NEW lines, AreLines(lines), NEW type \in Types, NEW value \in Nat, ValidDiscount(type, value),
         NEW base \in Nat, base <= SumOf(lines)
  PROVE  Balanced(Total(lines, type, value, base))
<1> DEFINE off == ComputeDiscount(type, value, base)
           sum == SumOf(lines)
<1>1. off \in Nat /\ off <= base * 10000
  BY DiscountOK
<1>2. sum \in Nat /\ base <= sum
  BY BasesOK
<1> HIDE DEF off, sum
<1>3. Max({0, sum * 10000 - off}) = sum * 10000 - off
  BY <1>1, <1>2, MaxOfTwo
<1>4. /\ Stored(off) \in Nat /\ Stored(off) <= base
      /\ Stored(sum * 10000 - off) \in Nat
      /\ Stored(off) + Stored(sum * 10000 - off) - sum \in {0, 1}
  BY <1>1, <1>2 DEF Stored
<1>5. Total(lines, type, value, base) =
        [lines |-> lines, type |-> type, value |-> value, subtotal |-> sum,
         discount |-> Stored(off), grand |-> Stored(sum * 10000 - off)]
  BY <1>3 DEF Total, off, sum
<1> QED BY <1>2, <1>4, <1>5 DEF Balanced, sum

-----------------------------------------------------------------------------
(* Carts.                                                                   *)

LEMMA PicksOK == ASSUME IsSet(set), NEW pick \in Picks PROVE pick \in Picked
<1>1. ASSUME NEW g \in Slots, NEW c \in Range(g.choices)
      PROVE  [group |-> g.id, product |-> c.product] \in [group : Nat \X Nat, product : Products]
  <2>1. g.id \in Nat \X Nat /\ g.choices \in [DOMAIN g.choices -> Choice]
    BY SlotsOK DEF IsGroup
  <2>2. c \in Choice
    BY <2>1 DEF Range
  <2> QED BY <2>1, <2>2 DEF Choice
<1> QED BY <1>1 DEF Picks, Picked

LEMMA CartsOK ==
  ASSUME IsSet(set), NEW cart \in Carts, NEW pick \in Picks
  PROVE  IsCart(Configured(cart, pick))
<1>1. IsCart(cart) /\ pick \in Picked
  BY SchemasAssumption, PicksOK
<1>2. ASSUME NEW i \in DOMAIN cart
      PROVE  [cart[i] EXCEPT !.pick = IF @ = {} /\ cart[i].kind = "set" THEN pick ELSE @] \in Item
  <2>1. cart[i] \in Item
    BY <1>1 DEF IsCart
  <2> QED BY <1>1, <2>1 DEF Item
<1> QED BY <1>1, <1>2 DEF IsCart, Configured

LEMMA ShownOK == ASSUME AreLines(order.lines) PROVE IsCart(AsShown)
BY DEF AreLines, IsCart, AsShown, Line, Item

-----------------------------------------------------------------------------
(* The inductive invariant: the order is balanced, and so is the checkout,  *)
(* which never has a discount.                                              *)

Parked(c) ==
  /\ c \in [lines : {c.lines}, subtotal : Nat, grand : Nat]
  /\ AreLines(c.lines)
  /\ c.subtotal = SumOf(c.lines) /\ c.grand = SumOf(c.lines)

Booked == Typed /\ changes \in Nat /\ Balanced(order) /\ Parked(checkout)

LEMMA BookedInit == Init => Booked
<1> SUFFICES ASSUME Init PROVE Booked
  OBVIOUS
<1>1. Typed /\ changes \in Nat
  BY CatalogueAssumption DEF Init, Typed
<1>2. AreLines(<<>>)
  BY FS_EmptySet DEF AreLines
<1>3. SumOf(<<>>) = 0
  <2>1. DOMAIN Amounts(<<>>) = {}
    BY DEF Amounts
  <2> QED BY <2>1, FS_EmptySet, SumOfZeros DEF SumOf, SumFunction
<1>4. Balanced(NoOrder)
  BY <1>2, <1>3 DEF Balanced, NoOrder, Types
<1>5. Parked(NoCheckout)
  BY <1>2, <1>3 DEF Parked, NoCheckout
<1> QED BY <1>1, <1>4, <1>5 DEF Booked, Init

LEMMA CreateOrderOK ==
  ASSUME Booked, NEW cart, IsCart(cart), NEW type \in Types, NEW value \in Nat,
         CreateOrder(cart, type, value)
  PROVE  Balanced(order')
<1> DEFINE lines == BuildOrderLines(cart)
<1>1. AreLines(lines)
  BY BuiltOK DEF Booked
<1>2. /\ ValidDiscount(type, value) /\ order' = Total(lines, type, value, Discountable(lines))
  BY DEF CreateOrder
<1> HIDE DEF lines
<1> QED BY <1>1, <1>2, BasesOK, TotalOK

LEMMA EditItemsOK ==
  ASSUME Booked, NEW cart, IsCart(cart), NEW type \in Types, NEW value \in Nat,
         EditItems(cart, type, value)
  PROVE  Balanced(order')
<1> DEFINE lines == BuildOrderLines(cart)
<1>1. AreLines(lines)
  BY BuiltOK DEF Booked
<1>2. /\ ValidDiscount(type, value) /\ order' = Total(lines, type, value, Discountable(lines))
  BY DEF EditItems, Edited
<1> HIDE DEF lines
<1> QED BY <1>1, <1>2, BasesOK, TotalOK

LEMMA EditDiscountOK ==
  ASSUME Booked, NEW type \in Types, NEW value \in Nat, EditDiscount(type, value)
  PROVE  Balanced(order')
<1>1. AreLines(order.lines)
  BY DEF Booked, Balanced
<1>2. /\ ValidDiscount(type, value)
      /\ order' = Total(order.lines, type, value, PersistedDiscountable(order.lines))
  BY DEF EditDiscount, Edited
<1> QED BY <1>1, <1>2, BasesOK, TotalOK

LEMMA CreateCheckoutOK ==
  ASSUME Booked, NEW cart, IsCart(cart), CreateCheckout(cart)
  PROVE  Parked(checkout')
<1> DEFINE lines == BuildOrderLines(cart)
           bare  == [i \in DOMAIN lines |-> [lines[i] EXCEPT !.pick = {}]]
<1>1. AreLines(lines)
  BY BuiltOK DEF Booked
<1>2. checkout' = [lines |-> bare, subtotal |-> SumOf(lines), grand |-> SumOf(lines)]
  BY DEF CreateCheckout
<1> HIDE DEF lines
<1>3. AreLines(bare)
  BY <1>1 DEF AreLines, Line, Picked
<1>4. Amounts(bare) = Amounts(lines)
  BY <1>1 DEF Amounts, AreLines, Line
<1>5. SumOf(bare) = SumOf(lines) /\ SumOf(lines) \in Nat
  BY <1>1, <1>4, BasesOK DEF SumOf
<1> HIDE DEF bare
<1> QED BY <1>2, <1>3, <1>5 DEF Parked

LEMMA MaterializeOK ==
  ASSUME Booked, Materialize
  PROVE  Balanced(order') /\ Parked(checkout') /\ order'.lines = checkout.lines /\ order'.grand = checkout.grand
<1>1. /\ order' = [lines |-> checkout.lines, type |-> "cash", value |-> 0, subtotal |-> checkout.subtotal,
                   discount |-> 0, grand |-> checkout.grand]
      /\ checkout' = NoCheckout
  BY DEF Materialize, NoOrder
<1>2. /\ AreLines(checkout.lines) /\ checkout.subtotal = SumOf(checkout.lines)
      /\ checkout.grand = SumOf(checkout.lines)
  BY DEF Booked, Parked
<1>3. SumOf(checkout.lines) \in Nat
  BY <1>2, BasesOK
<1>4. Balanced(order')
  BY <1>1, <1>2, <1>3 DEF Balanced, Types
<1>5. Parked(NoCheckout)
  <2>1. AreLines(<<>>)
    BY FS_EmptySet DEF AreLines
  <2>2. SumOf(<<>>) = 0
    <3>1. DOMAIN Amounts(<<>>) = {}
      BY DEF Amounts
    <3> QED BY <3>1, FS_EmptySet, SumOfZeros DEF SumOf, SumFunction
  <2> QED BY <2>1, <2>2 DEF Parked, NoCheckout
<1> QED BY <1>1, <1>4, <1>5

(* A deletion nulls keys, and no figure of an order depends on a key.       *)
LEMMA UnlinkOK == ASSUME Balanced(order), NEW gone, Unlink(gone) PROVE Balanced(order')
<1> DEFINE lines == order.lines
           after == Nulled(lines, gone)
<1>1. AreLines(lines)
  BY DEF Balanced
<1>2. order' = [order EXCEPT !.lines = after]
  BY DEF Unlink
<1>3. AreLines(after)
  BY <1>1 DEF AreLines, Line, Nulled
<1>4. Amounts(after) = Amounts(lines)
  BY <1>1 DEF Amounts, AreLines, Line, Nulled
<1>5. SumOf(after) = SumOf(lines)
  BY <1>4 DEF SumOf
<1> HIDE DEF after
<1> QED BY <1>2, <1>3, <1>5 DEF Balanced

-----------------------------------------------------------------------------
(* Changes of the catalogue.                                                *)

LEMMA FormsOK ==
  ASSUME changes \in Nat, NEW form \in GroupForms, ValidGroups(form)
  PROVE  /\ IsFiniteSet(DOMAIN NewGroups(form))
         /\ \A i \in DOMAIN NewGroups(form) : IsGroup(NewGroups(form)[i])
<1>1. form \in Seq(Seq(Choice)) /\ DOMAIN form = 1 .. Len(form) /\ Len(form) \in Nat
  BY CatalogueAssumption
<1>2. IsFiniteSet(DOMAIN NewGroups(form))
  BY <1>1, FS_Interval DEF NewGroups
<1>3. ASSUME NEW i \in DOMAIN form PROVE IsGroup([id |-> <<changes + 1, i>>, choices |-> Built(form[i])])
  <2>1. form[i] \in Seq(Choice) /\ i \in Nat
    BY <1>1
  <2>2. DOMAIN form[i] \subseteq Nat /\ \A j \in DOMAIN form[i] : form[i][j] \in Choice
    BY <2>1
  <2>3. PICK keep : Built(form[i]) = [j \in DOMAIN form[i] |-> [form[i][j] EXCEPT !.default = (j = keep)]]
    BY DEF Built
  <2>4. ASSUME NEW j \in DOMAIN form[i] PROVE [form[i][j] EXCEPT !.default = (j = keep)] \in Choice
    <3>1. \A c \in Choice, b \in BOOLEAN : [c EXCEPT !.default = b] \in Choice
      BY DEF Choice
    <3>2. (j = keep) \in BOOLEAN /\ form[i][j] \in Choice
      BY <2>2
    <3> QED BY ONLY <3>1, <3>2, Zenon
  <2>5. Built(form[i]) \in [DOMAIN form[i] -> Choice]
    BY <2>3, <2>4
  <2> QED BY <2>1, <2>2, <2>5 DEF IsGroup
<1> QED BY <1>1, <1>2, <1>3 DEF NewGroups

LEMMA WithoutOK == ASSUME NEW g, IsGroup(g), NEW p PROVE IsGroup(Without(g, p))
<1> DEFINE left == {j \in DOMAIN g.choices : g.choices[j].product # p}
<1>1. /\ g \in [id : Nat \X Nat, choices : [DOMAIN g.choices -> Choice]]
      /\ DOMAIN g.choices \subseteq Nat
  BY DEF IsGroup
<1>2. Without(g, p) = [g EXCEPT !.choices = Restrict(g.choices, left)]
  BY DEF Without
<1>3. /\ Restrict(g.choices, left) \in [left -> Choice]
      /\ DOMAIN Restrict(g.choices, left) = left /\ left \subseteq Nat
  BY <1>1 DEF Restrict
<1> HIDE DEF left
<1>4. Without(g, p).choices = Restrict(g.choices, left) /\ Without(g, p).id = g.id
  BY <1>1, <1>2
<1> QED BY <1>1, <1>2, <1>3, <1>4 DEF IsGroup

LEMMA DeleteProductOK ==
  ASSUME Booked, NEW p \in Products, DeleteProduct(p)
  PROVE  Typed' /\ changes' \in Nat /\ Balanced(order') /\ checkout' = checkout
<1>1. IsPromotion(promo) /\ IsSet(set) /\ price \in [Products -> Nat] /\ changes \in Nat /\ Balanced(order)
  BY DEF Booked, Typed
<1>2. /\ price' = [price EXCEPT ![p] = 0] /\ promo' = [promo EXCEPT !.items[p] = 0]
      /\ set' = [set EXCEPT !.items[p] = 0, !.groups = [i \in DOMAIN set.groups |-> Without(set.groups[i], p)]]
      /\ changes' = changes + 1 /\ checkout' = checkout
  BY DEF DeleteProduct, Change
<1>3. IsPromotion(promo)' /\ price' \in [Products -> Nat]
  BY <1>1, <1>2 DEF IsPromotion, Bag
<1>4. IsSet(set)'
  <2> DEFINE groups == [i \in DOMAIN set.groups |-> Without(set.groups[i], p)]
  <2>1. IsFiniteSet(DOMAIN groups) /\ \A i \in DOMAIN groups : IsGroup(groups[i])
    BY <1>1, WithoutOK DEF IsSet
  <2>2. set' = [set EXCEPT !.items[p] = 0, !.groups = groups]
    BY <1>2
  <2> HIDE DEF groups
  <2> QED BY <1>1, <2>1, <2>2 DEF IsSet, Bag
<1>5. Balanced(order')
  BY <1>1, UnlinkOK DEF DeleteProduct
<1> QED BY <1>1, <1>2, <1>3, <1>4, <1>5 DEF Typed

LEMMA UpdateSetOK ==
  ASSUME Booked, NEW cost \in Prices, NEW items \in Bundles \cup {set.items},
         NEW groups \in {set.groups} \cup {NewGroups(f) : f \in {form \in GroupForms : ValidGroups(form)}},
         UpdateSet(cost, items, groups)
  PROVE  Typed'
<1>1. IsPromotion(promo) /\ IsSet(set) /\ price \in [Products -> Nat] /\ changes \in Nat
  BY DEF Booked, Typed
<1>2. IsFiniteSet(DOMAIN groups) /\ \A i \in DOMAIN groups : IsGroup(groups[i])
  BY <1>1, FormsOK DEF IsSet
<1>3. cost \in Nat /\ items \in Bag
  BY <1>1, CatalogueAssumption DEF IsSet
<1>4. /\ set' = [set EXCEPT !.price = cost, !.items = items, !.groups = groups]
      /\ promo' = promo /\ price' = price
  BY DEF UpdateSet
<1>5. IsSet(set)'
  BY <1>1, <1>2, <1>3, <1>4 DEF IsSet
<1> QED BY <1>1, <1>4, <1>5 DEF Typed

LEMMA OrderingOK == ASSUME Booked, Ordering PROVE Booked'
<1>0. IsSet(set) /\ Typed /\ changes \in Nat /\ Balanced(order) /\ Parked(checkout)
  BY DEF Booked, Typed
<1>1. UNCHANGED catalogue => Typed' /\ changes' \in Nat
  BY <1>0 DEF catalogue, Typed, IsPromotion, IsSet
<1>2. ASSUME NEW cart \in Carts, NEW pick \in Picks, CreateCheckout(Configured(cart, pick)) PROVE Booked'
  <2>1. UNCHANGED <<catalogue, order>>
    BY <1>2 DEF CreateCheckout
  <2>2. Parked(checkout')
    BY <1>0, <1>2, CartsOK, CreateCheckoutOK
  <2> QED BY <1>0, <1>1, <2>1, <2>2 DEF Booked
<1>3. ASSUME NEW cart \in Carts, NEW pick \in Picks, NEW type \in Types, NEW value \in Values,
             CreateOrder(Configured(cart, pick), type, value) \/ EditItems(Configured(cart, pick), type, value)
      PROVE  Booked'
  <2>1. UNCHANGED <<catalogue, checkout>>
    BY <1>3 DEF CreateOrder, EditItems
  <2>2. IsCart(Configured(cart, pick)) /\ value \in Nat
    BY <1>0, CartsOK, SchemasAssumption
  <2>3. Balanced(order')
    BY <1>3, <2>2, CreateOrderOK, EditItemsOK
  <2> QED BY <1>0, <1>1, <2>1, <2>3 DEF Booked
<1>4. ASSUME NEW type \in Types, NEW value \in Values,
             EditDiscount(type, value) \/ EditItems(AsShown, type, value)
      PROVE  Booked'
  <2>1. UNCHANGED <<catalogue, checkout>>
    BY <1>4 DEF EditDiscount, EditItems
  <2>2. IsCart(AsShown) /\ value \in Nat
    BY <1>0, ShownOK, SchemasAssumption DEF Balanced
  <2>3. Balanced(order')
    BY <1>4, <2>2, EditDiscountOK, EditItemsOK
  <2> QED BY <1>0, <1>1, <2>1, <2>3 DEF Booked
<1>5. CASE Materialize
  <2>1. UNCHANGED catalogue
    BY <1>5 DEF Materialize
  <2> QED BY <1>1, <1>5, <2>1, MaterializeOK DEF Booked
<1> QED BY <1>2, <1>3, <1>4, <1>5 DEF Ordering

LEMMA SellingOK == ASSUME Booked, Selling PROVE Booked' /\ checkout' = checkout
<1>0. /\ IsSet(set) /\ IsPromotion(promo) /\ price \in [Products -> Nat]
      /\ changes \in Nat /\ Balanced(order) /\ Parked(checkout)
  BY DEF Booked, Typed
<1>1. ASSUME NEW p \in Products, DeleteProduct(p) PROVE Booked' /\ checkout' = checkout
  BY <1>0, <1>1, DeleteProductOK DEF Booked
<1>2. ASSUME NEW p \in Products, NEW cost \in Prices, Reprice(p, cost) PROVE Booked' /\ checkout' = checkout
  <2>1. cost \in Nat
    BY CatalogueAssumption
  <2> QED BY <1>0, <1>2, <2>1 DEF Reprice, Change, Booked, Typed, IsPromotion, IsSet
<1>3. ASSUME NEW cost \in Prices, NEW items \in Bundles \cup {promo.items}, UpdatePromotion(cost, items)
      PROVE  Booked' /\ checkout' = checkout
  <2>1. cost \in Nat /\ items \in Bag
    BY <1>0, CatalogueAssumption DEF IsPromotion
  <2>2. IsPromotion(promo)'
    BY <1>0, <1>3, <2>1 DEF UpdatePromotion, IsPromotion
  <2> QED BY <1>0, <1>3, <2>2 DEF UpdatePromotion, Change, Booked, Typed, IsSet
<1>4. ASSUME NEW cost \in Prices, NEW items \in Bundles \cup {set.items},
             NEW groups \in {set.groups} \cup {NewGroups(f) : f \in {form \in GroupForms : ValidGroups(form)}},
             UpdateSet(cost, items, groups)
      PROVE  Booked' /\ checkout' = checkout
  <2>1. Typed'
    BY <1>4, UpdateSetOK
  <2> QED BY <1>0, <1>4, <2>1 DEF UpdateSet, Change, Booked
<1>5. CASE PromotionMovesOn
  <2>1. IsPromotion(promo)'
    BY <1>0, <1>5 DEF PromotionMovesOn, IsPromotion, Phases
  <2> QED BY <1>0, <1>5, <2>1 DEF PromotionMovesOn, Booked, Typed, IsSet
<1>6. CASE DeletePromotion
  <2>1. IsPromotion(promo)'
    BY <1>0, <1>6 DEF DeletePromotion, IsPromotion
  <2>2. Balanced(order')
    BY <1>0, <1>6, UnlinkOK DEF DeletePromotion
  <2> QED BY <1>0, <1>6, <2>1, <2>2 DEF DeletePromotion, Change, Booked, Typed, IsSet
<1>7. CASE DeleteSet
  <2>1. IsSet(set)'
    BY <1>0, <1>7 DEF DeleteSet, IsSet
  <2>2. Balanced(order')
    BY <1>0, <1>7, UnlinkOK DEF DeleteSet
  <2> QED BY <1>0, <1>7, <2>1, <2>2 DEF DeleteSet, Change, Booked, Typed, IsPromotion
<1> QED BY <1>1, <1>2, <1>3, <1>4, <1>5, <1>6, <1>7 DEF Selling

LEMMA StepOK == ASSUME Booked, [Next]_vars PROVE Booked'
<1>1. CASE UNCHANGED vars
  BY <1>1 DEF vars, Booked, Typed, IsPromotion, IsSet
<1> QED BY <1>1, OrderingOK, SellingOK DEF Next

LEMMA AlwaysBooked == Spec => []Booked
BY BookedInit, StepOK, PTL DEF Spec

-----------------------------------------------------------------------------
(* Every reachable state is well typed, order and checkout included.        *)
THEOREM PricingTypeCorrect == Spec => []TypeOK
<1>1. Booked => TypeOK
  BY DEF Booked, Typed, Balanced, Parked, TypeOK
<1> QED BY <1>1, AlwaysBooked, PTL

(* However it was quoted, paid, edited and disowned, an order's subtotal is *)
(* the sum of its lines, and discount and total make it up again, to a cent.*)
THEOREM AlwaysAddsUp == Spec => []AddsUp
<1>1. Booked => AddsUp
  BY DEF Booked, Balanced, AddsUp
<1> QED BY <1>1, AlwaysBooked, PTL

-----------------------------------------------------------------------------
(* Deals and the order-level discount.                                      *)

(* The lines of an order are products and deals. *)
LEMMA DealsAreTheRest ==
  ASSUME NEW lines, AreLines(lines)
  PROVE  DealsCost(lines) \in Nat /\ SumOf(lines) = Discountable(lines) + DealsCost(lines)
<1> DEFINE f == Amounts(lines)
           all == DOMAIN lines
           products == {i \in all : lines[i].kind = "product"}
           deals == {i \in all : lines[i].kind # "product"}
<1>1. IsFiniteSet(all) /\ DOMAIN f = all /\ \A i \in all : f[i] \in Nat
  BY DEF AreLines, Line, Amounts
<1>2. products \in SUBSET all /\ deals \in SUBSET all /\ deals = all \ products
  OBVIOUS
<1>3. /\ Discountable(lines) = SumFunctionOnSet(f, products)
      /\ DealsCost(lines) = SumFunctionOnSet(f, deals)
      /\ SumOf(lines) = SumFunctionOnSet(f, all)
  BY <1>1 DEF Discountable, DealsCost, SumOf, SumFunction
<1> HIDE DEF f, all, products, deals
<1> QED BY <1>1, <1>2, <1>3, SumGrows, SumSplit

(* A total whose discount is taken off the products leaves the deals their  *)
(* price.                                                                   *)
LEMMA TotalLeavesDeals ==
  ASSUME NEW lines, AreLines(lines), NEW type \in Types, NEW value \in Nat, ValidDiscount(type, value)
  PROVE  /\ Total(lines, type, value, Discountable(lines)).lines = lines
         /\ Total(lines, type, value, Discountable(lines)).grand >= DealsCost(lines)
<1> DEFINE base == Discountable(lines)
           off == ComputeDiscount(type, value, base)
           sum == SumOf(lines)
           deals == DealsCost(lines)
<1>1. base \in Nat /\ sum \in Nat /\ deals \in Nat /\ sum = base + deals
  BY BasesOK, DealsAreTheRest
<1>2. off \in Nat /\ off <= base * 10000
  BY <1>1, DiscountOK
<1>3. Total(lines, type, value, base).grand = Stored(Max({0, sum * 10000 - off}))
      /\ Total(lines, type, value, base).lines = lines
  BY DEF Total
<1> HIDE DEF base, off, sum, deals
<1>4. sum * 10000 - off \in Nat /\ sum * 10000 - off >= deals * 10000
  BY <1>1, <1>2
<1>5. Max({0, sum * 10000 - off}) = sum * 10000 - off
  BY <1>4, MaxOfTwo
<1>6. Stored(sum * 10000 - off) >= deals
  BY <1>1, <1>4 DEF Stored
<1> QED BY <1>3, <1>5, <1>6 DEF base, deals

LEMMA EditLeavesDeals ==
  ASSUME Booked, NEW type \in Types, NEW value \in Nat, EditDiscount(type, value)
  PROVE  /\ order'.lines = order.lines
         /\ \/ DealsKeepTheirPrice'
            \/ \E i \in DOMAIN order.lines : order.lines[i].kind # "product" /\ ~order.lines[i].linked
<1>1. /\ ValidDiscount(type, value) /\ AreLines(order.lines)
      /\ order' = Total(order.lines, type, value, PersistedDiscountable(order.lines))
  BY DEF EditDiscount, Edited, Booked, Balanced
<1>2. order'.lines = order.lines
  BY <1>1 DEF Total
<1>3. SUFFICES ASSUME \A i \in DOMAIN order.lines : order.lines[i].kind # "product" => order.lines[i].linked
               PROVE  DealsKeepTheirPrice'
  BY <1>2
<1>4. {i \in DOMAIN order.lines : order.lines[i].kind = "product" \/ ~order.lines[i].linked}
        = {i \in DOMAIN order.lines : order.lines[i].kind = "product"}
  BY <1>3
<1>5. PersistedDiscountable(order.lines) = Discountable(order.lines)
  BY <1>4 DEF PersistedDiscountable, Discountable
<1>6. order'.grand >= DealsCost(order.lines)
  BY <1>1, <1>5, TotalLeavesDeals
<1> QED BY <1>2, <1>6 DEF DealsKeepTheirPrice

(* Lines that are priced, or priced again, leave the deals their price;     *)
(* and so does the order a payment becomes, which has no discount.          *)
LEMMA PricingLeavesDeals ==
  ASSUME Booked, NEW cart, IsCart(cart), NEW type \in Types, NEW value \in Nat,
         CreateOrder(cart, type, value) \/ EditItems(cart, type, value)
  PROVE  DealsKeepTheirPrice'
<1> DEFINE lines == BuildOrderLines(cart)
<1>1. AreLines(lines)
  BY BuiltOK DEF Booked
<1>2. ValidDiscount(type, value) /\ order' = Total(lines, type, value, Discountable(lines))
  BY DEF CreateOrder, EditItems, Edited
<1> HIDE DEF lines
<1> QED BY <1>1, <1>2, TotalLeavesDeals DEF DealsKeepTheirPrice

LEMMA MaterializeLeavesDeals == ASSUME Booked, Materialize PROVE DealsKeepTheirPrice'
<1>1. /\ AreLines(checkout.lines) /\ checkout.grand = SumOf(checkout.lines)
      /\ order'.lines = checkout.lines /\ order'.grand = checkout.grand
  BY MaterializeOK DEF Booked, Parked
<1>2. /\ DealsCost(checkout.lines) \in Nat /\ Discountable(checkout.lines) \in Nat
      /\ SumOf(checkout.lines) = Discountable(checkout.lines) + DealsCost(checkout.lines)
  BY <1>1, BasesOK, DealsAreTheRest
<1>3. SumOf(checkout.lines) >= DealsCost(checkout.lines)
  BY <1>2
<1> QED BY <1>1, <1>3 DEF DealsKeepTheirPrice

(* What is deleted or edited in the catalogue moves neither the total of an *)
(* order nor what its deals cost.                                           *)
LEMMA SellingLeavesDeals ==
  ASSUME Booked, Selling, DealsKeepTheirPrice PROVE DealsKeepTheirPrice'
<1>1. AreLines(order.lines) /\ order \in [lines : {order.lines}, type : Types, value : Nat,
                                         subtotal : Nat, discount : Nat, grand : Nat]
  BY DEF Booked, Balanced
<1>2. ASSUME NEW gone, Unlink(gone) PROVE DealsKeepTheirPrice'
  <2> DEFINE after == Nulled(order.lines, gone)
  <2>1. order'.lines = after /\ order'.grand = order.grand
    BY <1>1, <1>2 DEF Unlink
  <2>2. Amounts(after) = Amounts(order.lines)
    BY <1>1 DEF Amounts, AreLines, Line, Nulled
  <2>3. {i \in DOMAIN after : after[i].kind # "product"}
          = {i \in DOMAIN order.lines : order.lines[i].kind # "product"}
    BY <1>1 DEF AreLines, Line, Nulled
  <2>4. DealsCost(after) = DealsCost(order.lines)
    BY <2>2, <2>3 DEF DealsCost
  <2> HIDE DEF after
  <2> QED BY <2>1, <2>4 DEF DealsKeepTheirPrice
<1>3. ASSUME order' = order PROVE DealsKeepTheirPrice'
  BY <1>3 DEF DealsKeepTheirPrice
<1> QED
  BY <1>2, <1>3 DEF Selling, DeleteProduct, Reprice, UpdatePromotion, UpdateSet, PromotionMovesOn,
                    DeletePromotion, DeleteSet

(* An order that pays for its deals goes on doing so through every checkout,*)
(* payment, edit and deletion except one: an edit of the discount alone,    *)
(* once the promotion or the set of one of its lines is deleted.            *)
THEOREM OnlyOrphansAreEverDiscounted == Spec => OnlyOrphansAreDiscounted
<1>1. Booked /\ [Next]_vars =>
        [DealsKeepTheirPrice =>
           \/ DealsKeepTheirPrice'
           \/ /\ order'.lines = order.lines
              /\ \E i \in DOMAIN order.lines : order.lines[i].kind # "product" /\ ~order.lines[i].linked]_vars
  <2> DEFINE Orphan == \E i \in DOMAIN order.lines : order.lines[i].kind # "product" /\ ~order.lines[i].linked
  <2> SUFFICES ASSUME Booked, Next, DealsKeepTheirPrice
               PROVE  DealsKeepTheirPrice' \/ (order'.lines = order.lines /\ Orphan)
    BY DEF vars
  <2>0. IsSet(set) /\ AreLines(order.lines)
    BY DEF Booked, Typed, Balanced
  <2>1. CASE Selling
    BY <2>1, SellingLeavesDeals
  <2>2. ASSUME NEW cart \in Carts, NEW pick \in Picks, CreateCheckout(Configured(cart, pick))
        PROVE  DealsKeepTheirPrice'
    BY <2>2 DEF CreateCheckout, DealsKeepTheirPrice
  <2>3. ASSUME NEW cart \in Carts, NEW pick \in Picks, NEW type \in Types, NEW value \in Values,
               CreateOrder(Configured(cart, pick), type, value) \/ EditItems(Configured(cart, pick), type, value)
        PROVE  DealsKeepTheirPrice'
    <3>1. IsCart(Configured(cart, pick)) /\ value \in Nat
      BY <2>0, CartsOK, SchemasAssumption
    <3> QED BY <2>3, <3>1, PricingLeavesDeals
  <2>4. ASSUME NEW type \in Types, NEW value \in Values, EditDiscount(type, value)
        PROVE  DealsKeepTheirPrice' \/ (order'.lines = order.lines /\ Orphan)
    <3>1. value \in Nat
      BY SchemasAssumption
    <3> HIDE DEF Orphan
    <3> QED BY <2>4, <3>1, EditLeavesDeals DEF Orphan
  <2>5. ASSUME NEW type \in Types, NEW value \in Values, EditItems(AsShown, type, value)
        PROVE  DealsKeepTheirPrice'
    <3>1. IsCart(AsShown) /\ value \in Nat
      BY <2>0, ShownOK, SchemasAssumption
    <3> QED BY <2>5, <3>1, PricingLeavesDeals
  <2>6. CASE Materialize
    BY <2>6, MaterializeLeavesDeals
  <2> HIDE DEF Orphan
  <2> QED BY <2>1, <2>2, <2>3, <2>4, <2>5, <2>6 DEF Next, Ordering
<1> QED BY <1>1, AlwaysBooked, PTL DEF Spec, OnlyOrphansAreDiscounted

-----------------------------------------------------------------------------

(* The order a payment becomes has the lines and the total its QR asked     *)
(* for, whatever happened to the catalogue in between.                      *)
THEOREM AlwaysSoldAsPaid == Spec => SoldAsPaid
<1>1. Booked /\ [Next]_vars =>
        [checkout # NoCheckout /\ checkout' = NoCheckout =>
           order'.grand = checkout.grand /\ SumOf(order'.lines) = checkout.grand]_vars
  <2> SUFFICES ASSUME Booked, Next, checkout # NoCheckout, checkout' = NoCheckout
               PROVE  order'.grand = checkout.grand /\ SumOf(order'.lines) = checkout.grand
    BY DEF vars
  <2>1. ~ Selling
    BY SellingOK
  <2>2. Materialize
    BY <2>1 DEF Next, Ordering, CreateCheckout, NoPurchase, CreateOrder, EditItems, EditDiscount
  <2> QED BY <2>2, MaterializeOK DEF Booked, Parked
<1> QED BY <1>1, AlwaysBooked, PTL DEF Spec, SoldAsPaid

(* A set ordered as standard costs what it is advertised at, and is         *)
(* measured against the "was" price shown beside it.                        *)
THEOREM AdvertisedIsAlwaysCharged == Spec => []AdvertisedIsCharged
<1>1. Booked => AdvertisedIsCharged
  <2> SUFFICES ASSUME Booked PROVE AdvertisedIsCharged
    OBVIOUS
  <2> DEFINE p == CHOOSE p \in Products : TRUE
             f == [g \in Slots |-> Delta(Defaults[g], g)]
             was == BundleOldPrice(set, SetContents(Defaults))
  <2>1. Chosen({}) = Defaults
    BY DEF Chosen, Defaults
  <2>2. OptionsDelta(Defaults) = 0
    <3>1. \A g \in Slots : f[g] = 0
      BY DEF Defaults, Delta
    <3>2. IsFiniteSet(Slots) /\ OptionsDelta(Defaults) = SumFunctionOnSet(f, Slots)
      BY SlotsOK DEF OptionsDelta, SumFunction, Booked, Typed
    <3> HIDE DEF f
    <3> QED BY <3>1, <3>2, SumOfZeros
  <2>3. Max({set.price + 0, 0}) = set.price
    <3>1. set.price \in Nat
      BY DEF Booked, Typed, IsSet
    <3> QED BY <3>1, MaxOfTwo
  <2>4. SetLine([kind |-> "set", product |-> p, qty |-> 1, pick |-> {}])
          = Snapshot([kind |-> "set", product |-> p, qty |-> 1, pick |-> {}], set.price, was, SetContents(Defaults))
    BY <2>1, <2>2, <2>3 DEF SetLine
  <2> HIDE DEF was
  <2>5. /\ SetLine([kind |-> "set", product |-> p, qty |-> 1, pick |-> {}]).unit = set.price
        /\ SetLine([kind |-> "set", product |-> p, qty |-> 1, pick |-> {}]).was
             = IF was = 0 THEN set.price ELSE was
    BY <2>4 DEF Snapshot
  <2> QED BY <2>5 DEF AdvertisedIsCharged, was
<1> QED BY <1>1, AlwaysBooked, PTL

(* An upgrade replaces: what a slot comes with by default is not in a box   *)
(* none of whose slots ended up on it.                                      *)
THEOREM UpgradeAlwaysReplaces == Spec => []UpgradeReplaces
<1>1. Booked => UpgradeReplaces
  <2> SUFFICES ASSUME Booked, NEW pick \in Picks, NEW g \in Slots,
                      \A h \in Slots : Chosen(pick)[h].product # DefaultChoice(g).product
               PROVE  SetContents(Chosen(pick))[DefaultChoice(g).product] = 0
    BY DEF UpgradeReplaces
  <2> DEFINE standard == DefaultChoice(g).product
             f == [h \in Slots |-> IF Chosen(pick)[h].product = standard THEN Chosen(pick)[h].qty ELSE 0]
  <2>1. standard \in Products /\ standard \in Claimed /\ IsFiniteSet(Slots)
    BY SlotsOK DEF Booked, Typed, Claimed, Choice
  <2>2. \A h \in Slots : f[h] = 0
    OBVIOUS
  <2>3. Selected(Chosen(pick), standard) = SumFunctionOnSet(f, Slots)
    BY DEF Selected, SumFunction
  <2> HIDE DEF f
  <2>4. Selected(Chosen(pick), standard) = 0
    BY <2>1, <2>2, <2>3, SumOfZeros
  <2> HIDE DEF standard
  <2> QED BY <2>1, <2>4 DEF SetContents, standard
<1> QED BY <1>1, AlwaysBooked, PTL
=============================================================================
