--------------------------- MODULE MCOrderPayment ---------------------------
(* An instance of OrderPayment for TLC, in two parts that a behaviour       *)
(* chooses between at the start: every actor over one total, or the staff   *)
(* who move QR and total - polls, refunds and the button write neither.     *)
EXTENDS OrderPayment, TLC

CONSTANTS b1, t1, t2, m1, low, high

VARIABLE part

(* Totals are only compared with each other; two clerks, or two admins, are *)
(* interchangeable.                                                         *)
Interchangeable ==
  Permutations(Totals) \cup Permutations(Staff \ Admins) \cup Permutations(Admins)

MCInit == Init /\ part \in {"payment", "sums"}

(* Bounds of the parts. *)
OneTotal == \A a \in Actors : at'[a].upd.total = Same
StaffOfSums == \A a \in Actors :
  at'[a] # Idle => /\ a \in Staff /\ at'[a].op \in {"edit", "issue", "delete"}
                   /\ at'[a].upd.status = Same

MCNext ==
  /\ Next /\ UNCHANGED part
  /\ part = "payment" => OneTotal
  /\ part = "sums" => StaffOfSums

MCSpec == MCInit /\ [][MCNext]_<<vars, part>>
=============================================================================
