--------------------------- MODULE CatalogueSync ----------------------------
(***************************************************************************)
(* scripts/sap_sync.py: a process that brings one or both SAP catalogues   *)
(* of the products table into line with an extract from SAP.  Each         *)
(* catalogue is read, decided on and committed in a transaction of its     *)
(* own, and more than one such process may be running: the admin's button  *)
(* starts one, the Windows task scheduler another.                         *)
(*                                                                         *)
(* Prices, names, brands and stock are left out: what is modelled is which *)
(* products exist, in which section, and which are hidden from the shop.   *)
(*                                                                         *)
(* The query reaches SQL Server as a file.  Run on the server it is a      *)
(* temporary file of the process; run from elsewhere it is copied over ssh *)
(* to ONE name on the server, and then executed there.                     *)
(***************************************************************************)
EXTENDS Naturals, FiniteSets

CONSTANTS
  Codes,        \* product codes, in SAP and here
  Jobs,         \* processes that may run the script
  Remote,       \* those of them that reach SQL Server over ssh
  Group,        \* the catalogue each code's item group belongs to in SAP
  Num, Den      \* DEFAULT_MAX_DELIST_RATIO, as a fraction

Sections == {"materials", "spare_parts"}
Homes    == Sections \cup {"machinery"}

ASSUME RatioAssumption == Num \in Nat /\ Den \in Nat \ {0} /\ Num <= Den
ASSUME SapAssumption == Remote \subseteq Jobs /\ Group \in [Codes -> Sections]

(* SAP's item table and ours hold finitely many codes: the rail counts them. *)
ASSUME CodesAssumption == IsFiniteSet(Codes)

VARIABLES
  home,     \* the section of each product row, "none" if there is no row
  hidden,   \* rows whose delisted_at is set
  script,   \* the catalogue the query file on the server asks for
  at        \* what each process is doing (Job)

shop == <<home, hidden>>

(* A process: catalogues still to do, the one at hand, what the session     *)
(* holds for it (rows to insert, to hide, to show again), and the           *)
(* catalogues it has committed.                                             *)
Job == [pc : {"off", "begin", "asked", "ready", "done", "failed"}, apply : BOOLEAN,
        left : SUBSET Sections, sec : Sections, wrote : SUBSET Sections,
        make : SUBSET Codes, hide : SUBSET Codes, show : SUBSET Codes]
Off == [pc |-> "off", apply |-> FALSE, left |-> {}, sec |-> "materials", wrote |-> {},
        make |-> {}, hide |-> {}, show |-> {}]

Alive(p) == at[p].pc \in {"begin", "asked", "ready"}

SyncTypeOK ==
  /\ home \in [Codes -> Homes \cup {"none"}]
  /\ hidden \subseteq Codes
  /\ script \in Sections
  /\ at \in [Jobs -> Job]

SyncInit ==
  /\ home \in [Codes -> Homes \cup {"none"}]
  /\ hidden = {}
  /\ script = "materials"
  /\ at = [p \in Jobs |-> Off]

-----------------------------------------------------------------------------
(* One catalogue.                                                           *)

(* What the extract of a catalogue says of a code: for sale in USD, for     *)
(* sale but without a usable price, or not offered (marked invalid, frozen, *)
(* or not there, as the codes of every other item group).                   *)
Extracts(s) ==
  {e \in [Codes -> {"sold", "unpriced", "out"}] : \A c \in Codes : Group[c] # s => e[c] = "out"}

(* An unpriced item is "a data gap, not a withdrawal" and must not hide: it *)
(* is still offered.                                                        *)
Offered(e) == {c \in Codes : e[c] # "out"}

(* Rows the extract adds; a code held by another section is left alone. *)
Made(e) == {c \in Codes : e[c] = "sold" /\ home[c] = "none"}

(* Mutant: rows of every section are this run's to hide. *)
OursAnywhere(s, e) == {c \in Codes : home[c] # "none"} \cup Made(e)

(* The rows this run has authority over, the new ones among them. *)
Ours(s, e) == {c \in Codes : home[c] = s} \cup Made(e)

Stale(s, e) == Ours(s, e) \ Offered(e)

(* Mutant: the share is taken of all products. *)
RailTripsOnAll(s, e) ==
  Cardinality(Stale(s, e)) * Den > Cardinality({c \in Codes : home[c] # "none"} \cup Made(e)) * Num

(* The safety rail counts every row SAP does not offer, hidden or not. *)
RailTrips(s, e) == Cardinality(Stale(s, e)) * Den > Cardinality(Ours(s, e)) * Num

-----------------------------------------------------------------------------
(* The process.                                                             *)

Launch(p, names, apply) ==
  at' = [at EXCEPT ![p] = [Off EXCEPT !.pc = "begin", !.apply = apply, !.left = names]]

Exit(p, code) == at' = [at EXCEPT ![p].pc = code]

(* sorted(CATALOGUES): materials first. *)
Turn(p, s) == at[p].pc = "begin" /\ s \in at[p].left
              /\ (s = "spare_parts" => "materials" \notin at[p].left)

(* Mutant: every transport goes through the file on the server. *)
SharesFileAlways(p) == TRUE

SharesFile(p) == p \in Remote

(* The query is written where sqlcmd will read it. *)
Ask(p, s) ==
  /\ Turn(p, s)
  /\ at' = [at EXCEPT ![p].pc = "asked", ![p].sec = s, ![p].left = @ \ {s}]
  /\ script' = IF SharesFile(p) THEN s ELSE script
  /\ UNCHANGED shop

(* No tool for the transport, or the query cannot be copied. *)
AskFails(p) ==
  /\ \E s \in Sections : Turn(p, s)
  /\ Exit(p, "failed")
  /\ UNCHANGED <<shop, script>>

(* What sqlcmd runs for p. *)
Query(p) == IF SharesFile(p) THEN script ELSE at[p].sec

(* SQL Server refuses, or the answer cannot be read, or has no rows. *)
ReadFails(p) ==
  /\ at[p].pc = "asked"
  /\ Exit(p, "failed")
  /\ UNCHANGED <<shop, script>>

(* The rail stops the process, the remaining catalogues included. *)
Refuse(p, e) ==
  /\ at[p].pc = "asked"
  /\ RailTrips(at[p].sec, e)
  /\ Exit(p, "failed")
  /\ UNCHANGED <<shop, script>>

(* The extract is read, the products are loaded, the changes are made in    *)
(* the session.                                                             *)
Decide(p, e) ==
  /\ at[p].pc = "asked"
  /\ ~RailTrips(at[p].sec, e)
  /\ at' = [at EXCEPT ![p] =
              [@ EXCEPT !.pc = "ready",
                        !.make = Made(e),
                        !.hide = Stale(at[p].sec, e) \ hidden,
                        !.show = (Ours(at[p].sec, e) \cap Offered(e)) \cap hidden]]
  /\ UNCHANGED <<shop, script>>

(* Back to the loop over the catalogues, or the end of it. *)
Proceed(p, written) ==
  at' = [at EXCEPT ![p] = [Off EXCEPT !.pc = IF at[p].left = {} THEN "done" ELSE "begin",
                                      !.apply = at[p].apply, !.left = at[p].left,
                                      !.wrote = at[p].wrote \cup written]]

Rollback(p) ==
  /\ at[p].pc = "ready" /\ ~at[p].apply
  /\ Proceed(p, {})
  /\ UNCHANGED <<shop, script>>

Commit(p) ==
  /\ at[p].pc = "ready" /\ at[p].apply
  /\ \A c \in at[p].make : home[c] = "none"
  /\ home' = [c \in Codes |-> IF c \in at[p].make THEN at[p].sec ELSE home[c]]
  /\ hidden' = (hidden \cup at[p].hide) \ at[p].show
  /\ Proceed(p, {at[p].sec})
  /\ UNCHANGED script

(* product_code is unique, and another process inserted it meanwhile. *)
CommitRefused(p) ==
  /\ at[p].pc = "ready" /\ at[p].apply
  /\ \E c \in at[p].make : home[c] # "none"
  /\ Exit(p, "failed")
  /\ UNCHANGED <<shop, script>>

Work(p) ==
  \/ AskFails(p) \/ ReadFails(p) \/ Rollback(p) \/ Commit(p) \/ CommitRefused(p)
  \/ \E s \in Sections : Ask(p, s)
  \/ \E e \in Extracts(Query(p)) : Refuse(p, e) \/ Decide(p, e)

-----------------------------------------------------------------------------
(* What a sync may do to the shop.                                          *)

(* "The largest share of one catalogue that a single run may hide": however *)
(* the rows changed between the decision and the commit, and whoever else   *)
(* is committing, no commit hides more of a section than the ratio allows.  *)
HidesFew ==
  [][\A s \in Sections :
       LET now == {c \in Codes : home[c] = s}
       IN  Cardinality({c \in now : c \in hidden' \ hidden}) * Den
             <= Cardinality({c \in Codes : home'[c] = s}) * Num]_shop

(* A product changes between shown and hidden only by a commit of its own   *)
(* section's catalogue: a machine never, a spare part never by a materials  *)
(* run - nor by the commit of a process that read an old table.             *)
OwnRowsOnly ==
  [][\A c \in Codes : (c \in hidden) # (c \in hidden') =>
       \E p \in Jobs : /\ at[p].pc = "ready" /\ at[p].sec = home[c]
                       /\ at'[p] # at[p]]_shop

(* "the sync's delisting hides everything in a section that is absent from  *)
(* the extract": a process must sync a catalogue against that catalogue's   *)
(* own extract, whatever other runs ask at the same time, so a new product  *)
(* always appears in the section of its item group.                         *)
GoodsGoToTheirGroup ==
  [][\A c \in Codes : home[c] = "none" /\ home'[c] # "none" => home'[c] = Group[c]]_shop

(* "The largest share of one catalogue that a single run may hide before it *)
(* stops and asks": a run that would hide no more than that share does not  *)
(* stop, whatever earlier runs have hidden.                                 *)
(* The code does not keep it (README, section 6).                           *)
OnlyManyRefused ==
  \A p \in Jobs : at[p].pc = "asked" =>
    \A e \in Extracts(Query(p)) : RailTrips(at[p].sec, e) =>
      Cardinality(Stale(at[p].sec, e) \ hidden) * Den > Cardinality(Ours(at[p].sec, e)) * Num
=============================================================================
