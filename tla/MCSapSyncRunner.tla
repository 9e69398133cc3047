-------------------------- MODULE MCSapSyncRunner ---------------------------
(* An instance of SapSyncRunner for TLC: three product codes. *)
EXTENDS SapSyncRunner

CONSTANTS a, b, c

SomeGroups == [k \in {a, b, c} |-> IF k = c THEN "spare_parts" ELSE "materials"]
=============================================================================
