----------------------------- MODULE MCPricing ------------------------------
(* Instances of Pricing for TLC: two products, of which the second is the  *)
(* upgrade of the first.                                                   *)
EXTENDS Pricing, TLC

CONSTANTS std, pro

NoGifts == [p \in Products |-> Nothing]
MCGifts == [NoGifts EXCEPT ![pro] = [Nothing EXCEPT ![std] = 1]]

Buy(kind, p, n) == [kind |-> kind, product |-> p, qty |-> n, pick |-> {}]
MCCarts == {<<Buy("product", pro, 1), Buy("promotion", std, 1)>>, <<Buy("set", std, 2), Buy("product", pro, 1)>>}

MCBundles == {Nothing, [Nothing EXCEPT ![std] = 1]}

Pick(p, fixed, delta, default) == [product |-> p, qty |-> 1, fixed |-> fixed, delta |-> delta, default |-> default]

(* Two defaults, none (and a fixed delta on the first), and no choice. *)
MCGroupForms == {
  <<<<Pick(std, FALSE, 0, TRUE), Pick(pro, FALSE, 0, TRUE)>>>>,
  <<<<Pick(std, TRUE, 2, FALSE), Pick(pro, TRUE, -2, FALSE)>>>>,
  <<<<>>>>}

MCOpenings ==
  LET one == [Nothing EXCEPT ![std] = 1] IN
  {[price |-> (std :> 1 @@ pro :> 3),
    promo |-> [exists |-> TRUE, phase |-> "soon", price |-> 1, old |-> 3, items |-> items],
    set   |-> [exists |-> TRUE, price |-> cost, old |-> 3, items |-> one, groups |-> <<>>]]
     : items \in {Nothing, one}, cost \in {1, 3}}
=============================================================================
