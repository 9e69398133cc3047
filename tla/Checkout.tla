------------------------------ MODULE Checkout ------------------------------
(***************************************************************************)
(* The life of a pay-by-QR purchase: a PendingCheckout row is issued a QR, *)
(* the customer pays at the bank, and one of three actors writes the real, *)
(* paid Order from the row's snapshot - the browser's poll, the background *)
(* reconciliation sweep, or a member of staff who confirms it by hand.     *)
(*                                                                         *)
(* Who runs where.  Polls and the sweep are coroutines of ONE event loop:  *)
(* a stretch of code between two awaits is not interleaved with another    *)
(* coroutine, but the wait for the provider's answer is.  Staff handlers   *)
(* are plain `def` functions on a thread pool, so they interleave with     *)
(* everything.  What all of them share is the database, at READ COMMITTED. *)
(*                                                                         *)
(* The identity map.  An ORM session returns the object it already holds   *)
(* for a row it has read before, with the values of that FIRST read: a     *)
(* later SELECT ... FOR UPDATE locks the row and leaves those values as    *)
(* they are, until a commit or a rollback of the session expires them.     *)
(* `seen` is the order_id an actor's session holds, `link` the one in the  *)
(* table.                                                                  *)
(***************************************************************************)
EXTENDS Naturals, FiniteSets

CONSTANTS
  Checkouts,    \* the pending_checkouts rows that may come to exist
  Browsers,     \* browser sessions that poll
  Staff,        \* back-office requests in flight (confirm, or place a quote)
  MaxId,        \* bound on the orders.id sequence
  MaxCrashes,   \* bound on the number of process restarts
  BankReports   \* can the provider's check API see payments? (FALSE: no token)

ASSUME BoundsAssumption == MaxId \in Nat /\ MaxCrashes \in Nat
ASSUME BankAssumption   == BankReports \in BOOLEAN

Sweep   == "sweep"                    \* the one reconciliation coroutine
Loop    == Browsers \cup {Sweep}      \* everything on the event loop
Actors  == Loop \cup Staff
Free    == "free"                     \* nobody holds the row lock
Quote   == "quote"                    \* an order that came from no checkout
NoOrder == 0                          \* order_id IS NULL
Ids     == 1..MaxId

ASSUME ActorsAssumption ==
  /\ Browsers \cap Staff = {}
  /\ {Sweep, Free} \cap (Browsers \cup Staff) = {}
  /\ Quote \notin Checkouts

(* Where `now` stands against expires_at: the QR can still be paid; expired *)
(* less than GRACE_MINUTES ago; longer ago than that; more than             *)
(* RETAIN_HOURS ago.                                                        *)
Payable == 0
Grace   == 1
Late    == 2
Dead    == 3

(* An actor's session: the step it is at, the checkout it is about, the     *)
(* order_id its identity map holds for that row, and the order_number it    *)
(* has picked (0: none yet).                                                *)
Session == [pc : {"idle", "pass", "asked", "writing"}, job : Checkouts \cup {Quote},
            seen : Ids \cup {NoOrder}, num : 0..(MaxId + 1)]
Idle         == [pc |-> "idle", job |-> Quote, seen |-> NoOrder, num |-> 0]
InPass       == [Idle EXCEPT !.pc = "pass"]
Asked(c, s)  == [pc |-> "asked", job |-> c, seen |-> s, num |-> 0]
Writing(c, n) == [pc |-> "writing", job |-> c, seen |-> NoOrder, num |-> n]

Order == [id : Ids, number : Ids, ref : Checkouts \cup {Quote}]

VARIABLES
  stage,    \* "new": not issued yet, "open": row exists, "gone": pruned
  age,      \* Payable .. Dead
  link,     \* pending_checkouts.order_id
  lock,     \* holder of the row lock
  paid,     \* checkouts whose payment the bank has settled
  vouched,  \* checkouts a member of staff confirmed by hand
  orders,   \* the orders table
  nextId,   \* the id sequence: never reused, and not given back on rollback
  written,  \* how many orders were ever written from each checkout (history)
  undone,   \* checkouts one of whose orders was deleted (history)
  at,       \* what each actor is in the middle of (Session)
  todo,     \* sweep: outstanding checkouts still to ask about in this pass
  doomed,   \* sweep: rows past RETAIN_HOURS when this pass began
  expired,  \* sweep: its loaded rows have been expired by a commit or rollback
  crashes

bank    == <<paid, vouched>>
table   == <<orders, nextId, written, undone>>
sweeper == <<todo, doomed, expired>>
vars    == <<stage, age, link, lock, bank, table, at, sweeper, crashes>>

TypeOK ==
  /\ stage \in [Checkouts -> {"new", "open", "gone"}]
  /\ age \in [Checkouts -> Payable..Dead]
  /\ link \in [Checkouts -> Ids \cup {NoOrder}]
  /\ lock \in [Checkouts -> Actors \cup {Free}]
  /\ paid \subseteq Checkouts
  /\ vouched \subseteq Checkouts
  /\ orders \subseteq Order
  /\ nextId \in 1..(MaxId + 1)
  /\ written \in [Checkouts -> Nat]
  /\ undone \subseteq Checkouts
  /\ at \in [Actors -> Session]
  /\ todo \subseteq Checkouts
  /\ doomed \subseteq Checkouts
  /\ expired \in BOOLEAN
  /\ crashes \in 0..MaxCrashes

Init ==
  /\ stage = [c \in Checkouts |-> "new"]
  /\ age = [c \in Checkouts |-> Payable]
  /\ link = [c \in Checkouts |-> NoOrder]
  /\ lock = [c \in Checkouts |-> Free]
  /\ paid = {} /\ vouched = {} /\ orders = {} /\ nextId = 1
  /\ written = [c \in Checkouts |-> 0]
  /\ undone = {}
  /\ at = [a \in Actors |-> Idle]
  /\ todo = {} /\ doomed = {} /\ expired = FALSE
  /\ crashes = 0

-----------------------------------------------------------------------------
(* The customer, the bank and the clock.                                   *)

(* POST /orders/checkout: prices the cart, issues the QR, parks both. *)
CreateCheckout(c) ==
  /\ stage[c] = "new"
  /\ stage' = [stage EXCEPT ![c] = "open"]
  /\ UNCHANGED <<age, link, lock, bank, table, at, sweeper, crashes>>

(* A payment made before the QR expired shows up at the bank, possibly      *)
(* after the expiry ("still be settling when it passes").                   *)
Settle(c) ==
  /\ stage[c] = "open" /\ c \notin paid
  /\ age[c] \in {Payable, Grace}
  /\ paid' = paid \cup {c}
  /\ UNCHANGED <<stage, age, link, lock, vouched, table, at, sweeper, crashes>>

TimePasses(c) ==
  /\ stage[c] = "open" /\ age[c] < Dead
  /\ age' = [age EXCEPT ![c] = @ + 1]
  /\ UNCHANGED <<stage, link, lock, bank, table, at, sweeper, crashes>>

-----------------------------------------------------------------------------
(* Writing an order.                                                       *)

(* No coroutine is between its FOR UPDATE and its COMMIT: there is no await *)
(* in that stretch, so no other coroutine runs.                             *)
LoopFree == \A a \in Loop : at[a].pc # "writing"

Available(c) == lock[c] = Free

(* The bound on the id sequence: a write begins only if every write in      *)
(* flight can still be given an id.                                         *)
HasRoom == nextId <= MaxId
RoomToBegin == nextId + Cardinality({a \in Actors : at[a].pc = "writing"}) <= MaxId

(* Mutant: count the rows instead of reading the last id. *)
IsNextNumberByCount(n) == n = Cardinality(orders) + 1

(* _next_order_number: the last row's id plus one, 1 for an empty table. *)
IsNextNumber(n) ==
  \/ orders = {} /\ n = 1
  \/ \E last \in orders :
       /\ \A o \in orders : o.id <= last.id
       /\ n = last.id + 1

NumberTaken(n) == \E o \in orders : o.number = n

(* The head of a write about job j: the next number is read. *)
BeginWrite(a, j) ==
  /\ RoomToBegin
  /\ \E n \in 1..(MaxId + 1) : IsNextNumber(n) /\ at' = [at EXCEPT ![a] = Writing(j, n)]

(* What an actor goes back to when a step of its work is over. *)
Resume(a) == at' = [at EXCEPT ![a] = IF a = Sweep THEN InPass ELSE Idle]

(* A transaction ends, committed or rolled back: its locks are released,    *)
(* its session's rows are expired, the sequence value is spent either way.  *)
EndWrite(a) ==
  /\ Resume(a)
  /\ lock' = [c \in Checkouts |-> IF lock[c] = a THEN Free ELSE lock[c]]
  /\ expired' = (expired \/ a = Sweep)
  /\ nextId' = nextId + 1

(* A checkout's order written by staff is marked as confirmed by hand. *)
Vouches(a) == a \in Staff /\ at[a].job # Quote

(* The INSERT, the link back and the COMMIT. *)
Insert(a) ==
  /\ at[a].pc = "writing" /\ HasRoom
  /\ ~NumberTaken(at[a].num)
  /\ orders' = orders \cup {[id |-> nextId, number |-> at[a].num, ref |-> at[a].job]}
  /\ link' = [c \in Checkouts |-> IF c = at[a].job THEN nextId ELSE link[c]]
  /\ written' = [c \in Checkouts |-> IF c = at[a].job THEN written[c] + 1 ELSE written[c]]
  /\ vouched' = IF Vouches(a) THEN vouched \cup {at[a].job} ELSE vouched
  /\ EndWrite(a)
  /\ UNCHANGED <<stage, age, paid, undone, todo, doomed, crashes>>

(* order_number is UNIQUE, and a concurrent writer committed the same one   *)
(* first: the transaction rolls back.                                       *)
InsertRefused(a) ==
  /\ at[a].pc = "writing" /\ HasRoom
  /\ NumberTaken(at[a].num)
  /\ EndWrite(a)
  /\ UNCHANGED <<stage, age, link, bank, orders, written, undone, todo, doomed, crashes>>

-----------------------------------------------------------------------------
(* GET /orders/checkout/{id}/payment-status.                                *)

(* First read.  A row that already has its order is answered from it, and   *)
(* changes nothing.                                                         *)
PollAsk(b, c) ==
  /\ LoopFree /\ at[b].pc = "idle"
  /\ stage[c] = "open" /\ link[c] = NoOrder
  /\ at' = [at EXCEPT ![b] = Asked(c, link[c])]
  /\ UNCHANGED <<stage, age, link, lock, bank, table, sweeper, crashes>>

(* The provider says no, or cannot be reached: "unpaid" or "expired". *)
PollNo(b) ==
  /\ LoopFree /\ at[b].pc = "asked"
  /\ Resume(b)
  /\ UNCHANGED <<stage, age, link, lock, bank, table, sweeper, crashes>>

(* Mutant: any answer of the provider is taken for a yes. *)
ProviderAnswers(c) == BankReports

ProviderConfirms(c) == BankReports /\ c \in paid

(* The provider says yes.  The row is re-read under its lock, but what is   *)
(* tested is the order_id of the session's own copy.                        *)
PollYes(b) ==
  /\ LoopFree /\ at[b].pc = "asked"
  /\ ProviderConfirms(at[b].job)
  /\ stage[at[b].job] = "open" /\ Available(at[b].job)
  /\ at[b].seen = NoOrder
  /\ BeginWrite(b, at[b].job)
  /\ lock' = [lock EXCEPT ![at[b].job] = b]
  /\ UNCHANGED <<stage, age, link, bank, table, sweeper, crashes>>

(* The row was pruned during the wait: first() returns None and the request *)
(* ends in an error.                                                        *)
PollRowGone(b) ==
  /\ LoopFree /\ at[b].pc = "asked"
  /\ ProviderConfirms(at[b].job)
  /\ stage[at[b].job] = "gone"
  /\ Resume(b)
  /\ UNCHANGED <<stage, age, link, lock, bank, table, sweeper, crashes>>

-----------------------------------------------------------------------------
(* The reconciliation sweep.                                                *)

(* Mutant: a checkout is given up the moment its QR expires. *)
OutstandingWhilePayable(c) == stage[c] = "open" /\ link[c] = NoOrder /\ age[c] = Payable

Outstanding(c) == stage[c] = "open" /\ link[c] = NoOrder /\ age[c] \in {Payable, Grace}

SweepStart ==
  /\ LoopFree /\ at[Sweep].pc = "idle"
  /\ Resume(Sweep)
  /\ todo' = {c \in Checkouts : Outstanding(c)}
  /\ doomed' = {c \in Checkouts : stage[c] = "open" /\ age[c] = Dead}
  /\ UNCHANGED <<stage, age, link, lock, bank, table, expired, crashes>>

(* One outstanding checkout after another, in whatever order the query gave *)
(* them.  Its row was loaded at the start of the pass with order_id NULL;   *)
(* once a commit or rollback of this pass has expired it, touching it reads *)
(* it afresh.                                                               *)
SweepAsk(c) ==
  /\ LoopFree /\ at[Sweep].pc = "pass" /\ c \in todo
  /\ at' = [at EXCEPT ![Sweep] = Asked(c, IF expired THEN link[c] ELSE NoOrder)]
  /\ todo' = todo \ {c}
  /\ UNCHANGED <<stage, age, link, lock, bank, table, doomed, expired, crashes>>

SweepNo ==
  /\ LoopFree /\ at[Sweep].pc = "asked"
  /\ Resume(Sweep)
  /\ UNCHANGED <<stage, age, link, lock, bank, table, sweeper, crashes>>

(* Confirmed, and the session's copy still shows no order. *)
SweepYes ==
  /\ LoopFree /\ at[Sweep].pc = "asked"
  /\ ProviderConfirms(at[Sweep].job)
  /\ Available(at[Sweep].job)
  /\ stage[at[Sweep].job] = "open" /\ at[Sweep].seen = NoOrder
  /\ BeginWrite(Sweep, at[Sweep].job)
  /\ lock' = [lock EXCEPT ![at[Sweep].job] = Sweep]
  /\ UNCHANGED <<stage, age, link, bank, table, sweeper, crashes>>

(* Confirmed, but there is no such row any more, or the copy shows somebody *)
(* else's order: commit, go on.                                             *)
SweepBeaten ==
  /\ LoopFree /\ at[Sweep].pc = "asked"
  /\ ProviderConfirms(at[Sweep].job)
  /\ Available(at[Sweep].job)
  /\ ~(stage[at[Sweep].job] = "open" /\ at[Sweep].seen = NoOrder)
  /\ Resume(Sweep)
  /\ expired' = TRUE
  /\ UNCHANGED <<stage, age, link, lock, bank, table, todo, doomed, crashes>>

(* One bulk DELETE: past RETAIN_HOURS by the clock of the pass's start, and *)
(* with order_id NULL now.  The pass is over, its session closed.           *)
SweepPrune ==
  /\ LoopFree /\ at[Sweep].pc = "pass" /\ todo = {}
  /\ \A c \in doomed : Available(c)
  /\ stage' = [c \in Checkouts |->
                IF c \in doomed /\ link[c] = NoOrder THEN "gone" ELSE stage[c]]
  /\ at' = [at EXCEPT ![Sweep] = Idle]
  /\ doomed' = {} /\ expired' = FALSE
  /\ UNCHANGED <<age, link, lock, bank, table, todo, crashes>>

-----------------------------------------------------------------------------
(* Staff.                                                                   *)

(* Mutant: order_id is not looked at. *)
ConfirmAgain(t, c) ==
  /\ at[t].pc = "idle"
  /\ stage[c] = "open" /\ Available(c)
  /\ BeginWrite(t, c)
  /\ lock' = [lock EXCEPT ![c] = t]
  /\ UNCHANGED <<stage, age, link, bank, table, sweeper, crashes>>

(* POST /orders/checkout/{id}/confirm.  The locked SELECT is this session's *)
(* first read of the row, so what it holds is what the table says.  A row   *)
(* that is missing (404) or already has its order changes nothing.          *)
Confirm(t, c) ==
  /\ at[t].pc = "idle"
  /\ stage[c] = "open" /\ Available(c)
  /\ link[c] = NoOrder
  /\ BeginWrite(t, c)
  /\ lock' = [lock EXCEPT ![c] = t]
  /\ UNCHANGED <<stage, age, link, bank, table, sweeper, crashes>>

(* POST /orders/: a quote takes an order number too, and locks nothing. *)
PlaceQuote(t) ==
  /\ at[t].pc = "idle"
  /\ BeginWrite(t, Quote)
  /\ UNCHANGED <<stage, age, link, lock, bank, table, sweeper, crashes>>

(* DELETE /orders/{id}.  The foreign key is ON DELETE SET NULL, so the      *)
(* checkout that points at the order is unlinked in the same transaction.   *)
DeleteOrder(o) ==
  /\ o \in orders
  /\ \A c \in Checkouts : link[c] = o.id => Available(c)
  /\ orders' = orders \ {o}
  /\ link' = [c \in Checkouts |-> IF link[c] = o.id THEN NoOrder ELSE link[c]]
  /\ undone' = IF o.ref = Quote THEN undone ELSE undone \cup {o.ref}
  /\ UNCHANGED <<stage, age, lock, bank, nextId, written, at, sweeper, crashes>>

(* The process dies and is started again: coroutines, threads and open      *)
(* transactions are gone, committed rows are not.                           *)
Crash ==
  /\ crashes < MaxCrashes
  /\ crashes' = crashes + 1
  /\ at' = [a \in Actors |-> Idle]
  /\ lock' = [c \in Checkouts |-> Free]
  /\ todo' = {} /\ doomed' = {} /\ expired' = FALSE
  /\ UNCHANGED <<stage, age, link, bank, table>>

-----------------------------------------------------------------------------
CustomerNext == \E c \in Checkouts : CreateCheckout(c) \/ Settle(c) \/ TimePasses(c)
PollNext  == \E b \in Browsers :
               \/ \E c \in Checkouts : PollAsk(b, c)
               \/ PollNo(b) \/ PollYes(b) \/ PollRowGone(b)
SweepNext == \/ SweepStart \/ SweepNo \/ SweepYes \/ SweepBeaten \/ SweepPrune
             \/ \E c \in Checkouts : SweepAsk(c)
StaffNext == \/ \E t \in Staff : PlaceQuote(t) \/ \E c \in Checkouts : Confirm(t, c)
             \/ \E o \in orders : DeleteOrder(o)
WriteNext == \E a \in Actors : Insert(a) \/ InsertRefused(a)

Next == CustomerNext \/ PollNext \/ SweepNext \/ StaffNext \/ WriteNext \/ Crash

Spec == Init /\ [][Next]_vars

(* The sweep loop never stops, threads and coroutines that hold a lock run  *)
(* on, and a provider that is asked again and again about a settled payment *)
(* answers yes in the end.                                                  *)
Fairness ==
  /\ WF_vars(SweepStart) /\ WF_vars(SweepNo) /\ WF_vars(SweepBeaten) /\ WF_vars(SweepPrune)
  /\ \A c \in Checkouts :
       /\ WF_vars(SweepAsk(c))
       /\ SF_vars(SweepYes /\ at[Sweep].job = c)
  /\ \A a \in Actors : WF_vars(Insert(a) \/ InsertRefused(a))

FairSpec == Spec /\ Fairness
-----------------------------------------------------------------------------
(* What the purchase path promises.                                        *)

(* No order is numbered above its own id: the fact that keeps the "last id  *)
(* plus one" rule of _next_order_number sound when rows have been deleted   *)
(* and sequence values lost to refused inserts.                             *)
NumberBelowId == \A o \in orders : o.number <= o.id

(* The number a writer would pick now is not in use, whatever was deleted   *)
(* or refused before: an insert is only ever refused because another writer *)
(* committed after the number was read.                                     *)
NextNumberIsFree == \A n \in 1..(MaxId + 1) : IsNextNumber(n) => ~NumberTaken(n)

(* "A customer never holds an order they have not paid for" (create_checkout):*)
(* every order written from a checkout has the bank's word or a staff       *)
(* member's behind it - through restarts, re-reads and deleted orders.      *)
OrderNeedsPayment == \A o \in orders : o.ref = Quote \/ o.ref \in paid \cup vouched

(* pending_checkouts.order_id never dangles and never names the order of    *)
(* another purchase, so a poll answers with the order of its own checkout.  *)
LinkSound ==
  \A c \in Checkouts : link[c] # NoOrder =>
    \E o \in orders : o.id = link[c] /\ o.ref = c

(* A member of staff who is about to write an order holds the row's lock,   *)
(* and the row still has no order in the TABLE: the manual confirmation is  *)
(* never based on a stale read.                                             *)
ConfirmIsExclusive ==
  \A t \in Staff : at[t].pc = "writing" /\ at[t].job # Quote =>
    /\ lock[at[t].job] = t
    /\ stage[at[t].job] = "open"
    /\ link[at[t].job] = NoOrder

(* One payment, one order: no two rows of the orders table were written     *)
(* from the same checkout.                                                  *)
OnePaymentOneOrder ==
  \A o, p \in orders : o.ref = p.ref /\ o.ref # Quote => o = p

(* The checkout points at every order written from it; with it, the row     *)
(* lock and order_id are enough for OnePaymentOneOrder.                     *)
LinkComplete == \A o \in orders : o.ref # Quote => link[o.ref] = o.id

(* The prune takes no row whose order exists.                               *)
GoneHasNoOrder == \A o \in orders : o.ref # Quote => stage[o.ref] # "gone"

(* Every poll after the first confirmed one "returns that same order rather *)
(* than making another" (check_checkout_payment): once staff have deleted   *)
(* the order, no other is written in its place.                             *)
DeletedStaysDeleted ==
  [][\A c \in Checkouts : c \in undone => written'[c] = written[c]]_vars

(* The safety net: a payment the bank has settled becomes an order though   *)
(* no browser ever asks again, unless the checkout is left behind by the    *)
(* clock (the server was down, or the provider silent, past the grace       *)
(* period).  What the cart refers to still exists: when a product of it is  *)
(* deleted, the order cannot be inserted (module Pricing).                  *)
PaidIsOrdered ==
  \A c \in Checkouts :
    (c \in paid) ~> (written[c] > 0 \/ age[c] \in {Late, Dead} \/ ~HasRoom)

(* The abstract purchase, seen in the tables: a checkout's live orders are  *)
(* the rows that were written from it, and it is dropped when it is pruned. *)
Live(c) == {o.id : o \in {p \in orders : p.ref = c}}
Gone    == {c \in Checkouts : stage[c] = "gone"}
Ledger  == INSTANCE Purchase WITH live <- [c \in Checkouts |-> Live(c)], dropped <- Gone

(* The tables go through the abstract purchase's steps and no others.       *)
KeepsPurchase == Ledger!Spec
=============================================================================
