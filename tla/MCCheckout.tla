----------------------------- MODULE MCCheckout -----------------------------
(* Instances of Checkout for TLC. *)
EXTENDS Checkout, TLC

CONSTANTS c1, c2, b1, b2, t1, t2

(* Checkouts, browser sessions and staff requests are interchangeable. *)
Interchangeable ==
  Permutations(Checkouts) \cup Permutations(Browsers) \cup Permutations(Staff)
=============================================================================
