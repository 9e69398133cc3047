------------------------------ MODULE Purchase ------------------------------
(***************************************************************************)
(* What a pay-by-QR purchase promises, with no word about who notices the  *)
(* payment or how: a checkout has no order or exactly one, an order is     *)
(* written only while there is none, and a checkout that has been dropped  *)
(* never gets one.                                                         *)
(***************************************************************************)
CONSTANTS Checkouts, Ids

VARIABLES
  live,     \* the ids of each checkout's orders that exist now
  dropped   \* checkouts that are no more

Init ==
  /\ live = [c \in Checkouts |-> {}]
  /\ dropped = {}

(* The one order of a checkout is written. *)
Sell(c, i) ==
  /\ c \notin dropped
  /\ live[c] = {}
  /\ live' = [live EXCEPT ![c] = {i}]
  /\ UNCHANGED dropped

(* Staff delete it. *)
Undo(c) ==
  /\ live[c] # {}
  /\ live' = [live EXCEPT ![c] = {}]
  /\ UNCHANGED dropped

(* Checkouts without an order are dropped, several at a time. *)
Drop(cs) ==
  /\ \A c \in cs : live[c] = {}
  /\ dropped' = dropped \cup cs
  /\ UNCHANGED live

Next ==
  \/ \E c \in Checkouts : Undo(c) \/ \E i \in Ids : Sell(c, i)
  \/ \E cs \in SUBSET Checkouts : Drop(cs)

Spec == Init /\ [][Next]_<<live, dropped>>
=============================================================================
