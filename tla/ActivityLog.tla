----------------------------- MODULE ActivityLog -----------------------------
(***************************************************************************)
(* The listener that files an entry for every change of a row              *)
(* (app/core/activity.py), over the tables of the catalogue.  A row is     *)
(* named by its table and its id, and refers to other rows by such keys in *)
(* its columns parent, member, brand and category.                         *)
(*                                                                         *)
(* What a session is about to flush is a unit of work: the rows it adds,   *)
(* the columns it assigns, the rows it deletes and those dropped from a    *)
(* delete-orphan collection, beside the rows as the session loaded them.   *)
(* The audit columns are left out of rows: the listener ignores them.      *)
(***************************************************************************)
EXTENDS Integers, Sequences, FiniteSets, Functions

CONSTANT None    \* NULL

NoWork == [new |-> <<>>, dirty |-> <<>>, loaded |-> <<>>, deleted |-> {}, orphans |-> {}]

Table(k) == k[1]

\* CHILD_ROLLUP, and what a note calls such a row.
ChildTables == {"product_images", "product_free_items", "promotion_items",
                "set_items", "set_option_groups", "set_option_choices"}

ChildName(k, row) ==
  CASE Table(k) = "product_images" -> IF row.media_type = "video" THEN "video" ELSE "photo"
    [] Table(k) = "product_free_items" -> "free item"
    [] Table(k) \in {"promotion_items", "set_items"} -> "included product"
    [] Table(k) = "set_option_groups" -> "option group"
    [] Table(k) = "set_option_choices" -> "option choice"

-----------------------------------------------------------------------------
(* before_flush                                                            *)

\* The columns the flush rewrites.
ChangedColumns(u, k) ==
  {f \in DOMAIN u.dirty[k] : u.dirty[k][f] # u.loaded[k][f]}

Given(row) == {f \in DOMAIN row : row[f] # None}

Collected(u, action) ==
  CASE action = "create" -> {[key |-> k, row |-> u.new[k], action |-> action,
         changes |-> [f \in Given(u.new[k]) |-> <<None, u.new[k][f]>>]] :
           k \in DOMAIN u.new}
    [] action = "update" -> {[key |-> k, row |-> u.loaded[k], action |-> action,
         changes |-> [f \in ChangedColumns(u, k) |-> <<u.loaded[k][f], u.dirty[k][f]>>]] :
           k \in {d \in DOMAIN u.dirty : ChangedColumns(u, d) # {}}}
    [] action = "delete" -> {[key |-> k, row |-> u.loaded[k], action |-> action,
         changes |-> [f \in Given(u.loaded[k]) |-> <<u.loaded[k][f], None>>]] :
           k \in u.deleted \cup u.orphans}

\* Only what passed through session.new, dirty and deleted.
PendingWithoutOrphans(u) ==
  {c \in UNION {Collected(u, action) : action \in {"create", "update", "delete"}} :
     c.key \notin u.orphans}

Pending(u) == UNION {Collected(u, action) : action \in {"create", "update", "delete"}}

-----------------------------------------------------------------------------
(* after_flush                                                             *)

\* A parent's own create or delete already describes its children.
Structural(u) == {c.key : c \in {p \in Pending(u) : p.action \in {"create", "delete"}}}

\* An option choice reaches its set through its group.
RolledUpTo(u, c) ==
  IF Table(c.key) = "set_option_choices"
  THEN LET group == c.row.parent
       IN IF group \in DOMAIN u.new THEN u.new[group].parent ELSE u.loaded[group].parent
  ELSE c.row.parent

Verb == [create |-> "Added", update |-> "Edited", delete |-> "Removed"]

(* A note is not NULL.                                                      *)
ASSUME NotesAssumption ==
  \A verb \in Range(Verb) :
    \A name \in {"video", "photo", "free item", "included product", "option group", "option choice"} :
      <<verb, name>> # None

RowFor(u, c, actor) ==
  IF Table(c.key) \in ChildTables
  THEN [actor |-> actor, action |-> "update", entity |-> RolledUpTo(u, c),
        changes |-> c.changes, note |-> <<Verb[c.action], ChildName(c.key, c.row)>>]
  ELSE [actor |-> actor, action |-> c.action, entity |-> c.key,
        changes |-> c.changes, note |-> None]

\* The rows one flush adds to activity_log, in the same transaction.
Entries(u, actor) ==
  {RowFor(u, c, actor) :
     c \in {p \in Pending(u) :
              Table(p.key) \in ChildTables => RolledUpTo(u, p) \notin Structural(u)}}
=============================================================================
