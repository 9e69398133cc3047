--------------------------- MODULE CheckoutProofs ---------------------------
(***************************************************************************)
(* Theorems about Checkout, for every set of checkouts, browsers and staff *)
(* requests and every bound.  The inductive invariants come first, each    *)
(* with the reason it is needed, then one lemma per kind of step, then the *)
(* theorems.                                                               *)
(***************************************************************************)
EXTENDS Checkout, TLAPS

(* Ids in the table are below the sequence and name one row each; a number *)
(* that has been picked is at most the next id.  Deleting rows or losing   *)
(* sequence values keeps all of it.                                        *)
Numbered ==
  /\ NumberBelowId
  /\ \A o \in orders : o.id < nextId
  /\ \A o, p \in orders : o.id = p.id => o = p
  /\ \A a \in Actors : at[a].pc = "writing" => at[a].num \in 1..nextId

(* A writer about a checkout holds that row's lock, and the row is there.  *)
(* A member of staff among them read order_id under that lock, so it is    *)
(* still empty.                                                            *)
Locked ==
  \A a \in Actors : at[a].pc = "writing" /\ at[a].job # Quote =>
    /\ lock[at[a].job] = a
    /\ stage[at[a].job] = "open"
    /\ a \in Staff => link[at[a].job] = NoOrder

(* A coroutine that waits or writes is about a checkout, and one that      *)
(* writes was told by the provider that it is paid.                        *)
Told == \A a \in Loop :
  /\ at[a].pc = "asked" => at[a].job \in Checkouts
  /\ at[a].pc = "writing" => at[a].job \in paid

(* Without the provider's word no coroutine ever writes. *)
LoopSilent == \A a \in Loop : at[a].pc # "writing"

(* A step that begins no write and ends none: the tables stay, whoever was *)
(* writing still is, no open row disappears and no payment is forgotten.   *)
Quiet ==
  /\ UNCHANGED <<link, lock, vouched, orders, nextId>>
  /\ paid \subseteq paid'
  /\ \A c \in Checkouts : stage'[c] # stage[c] => stage[c] = "new" /\ stage'[c] = "open"
  /\ \A a \in Actors : at'[a].pc = "writing" => at'[a] = at[a]
  /\ \A a \in Loop : at'[a].pc = "asked" => at'[a].job \in Checkouts

(* A step that only takes the head of a write: `a` reads the next number   *)
(* for job j, and locks the row of j unless j is a quote.                  *)
Begin(a, j) ==
  /\ UNCHANGED <<stage, link, paid, vouched, orders, nextId>>
  /\ BeginWrite(a, j)
  /\ IF j = Quote THEN lock' = lock
     ELSE /\ lock[j] = Free /\ lock' = [lock EXCEPT ![j] = a]
          /\ stage[j] = "open"
  /\ a \in Loop => j \in paid /\ BankReports
  /\ a \in Staff => j = Quote \/ link[j] = NoOrder

USE DEF Payable, Grace, Late, Dead, NoOrder, Ids

LEMMA IdleOK ==
  /\ Idle \in Session /\ InPass \in Session
  /\ Idle.pc = "idle" /\ InPass.pc = "pass"
BY BoundsAssumption DEF Idle, InPass, Session

LEMMA AskedOK ==
  ASSUME NEW c \in Checkouts, NEW s \in Ids \cup {NoOrder}
  PROVE  Asked(c, s) \in Session /\ Asked(c, s).pc = "asked" /\ Asked(c, s).job = c
BY BoundsAssumption DEF Asked, Session

LEMMA WritingOK ==
  ASSUME NEW j \in Checkouts \cup {Quote}, NEW n \in 1..(MaxId + 1)
  PROVE  /\ Writing(j, n) \in Session /\ Writing(j, n).pc = "writing"
         /\ Writing(j, n).job = j /\ Writing(j, n).num = n
BY BoundsAssumption DEF Writing, Session

(* Everyone on the event loop is an actor, and no member of staff is. *)
LEMMA ActorsOK ==
  /\ Sweep \in Loop /\ Browsers \subseteq Loop /\ Loop \subseteq Actors
  /\ Staff \subseteq Actors /\ Loop \cap Staff = {} /\ Free \notin Actors
  /\ \A a \in Actors : a \in Loop \/ a \in Staff
BY ActorsAssumption DEF Loop, Actors, Sweep, Free

-----------------------------------------------------------------------------
(* The initial states.                                                     *)

LEMMA InitOK == Init => TypeOK /\ Numbered /\ Locked /\ Told /\ LoopSilent /\ LinkSound
<1> SUFFICES ASSUME Init
             PROVE  TypeOK /\ Numbered /\ Locked /\ Told /\ LoopSilent /\ LinkSound
  OBVIOUS
<1>1. \A a \in Actors : at[a] = Idle
  BY DEF Init
<1>2. TypeOK
  <2>1. at \in [Actors -> Session] /\ orders \subseteq Order
    BY IdleOK DEF Init
  <2>2. crashes \in 0..MaxCrashes /\ nextId \in 1..(MaxId + 1)
    BY BoundsAssumption DEF Init
  <2>3. lock \in [Checkouts -> Actors \cup {Free}]
    BY DEF Init
  <2>4. /\ stage \in [Checkouts -> {"new", "open", "gone"}]
        /\ age \in [Checkouts -> Payable..Dead]
        /\ link \in [Checkouts -> Ids \cup {NoOrder}]
        /\ written \in [Checkouts -> Nat]
    BY DEF Init
  <2>5. paid = {} /\ vouched = {} /\ undone = {} /\ todo = {} /\ doomed = {} /\ expired = FALSE
    BY DEF Init
  <2> QED BY <2>1, <2>2, <2>3, <2>4, <2>5 DEF TypeOK
<1>3. Numbered
  BY <1>1, IdleOK DEF Init, Numbered, NumberBelowId
<1>4. Locked /\ Told /\ LoopSilent
  BY <1>1, IdleOK, ActorsOK DEF Locked, Told, LoopSilent
<1>5. LinkSound
  BY DEF Init, LinkSound
<1> QED BY <1>2, <1>3, <1>4, <1>5

-----------------------------------------------------------------------------
(* The head of a write.                                                    *)

(* The number read by a writer is at least 1 and at most the next id. *)
LEMMA PickedNumber ==
  ASSUME TypeOK, Numbered, NEW n \in 1..(MaxId + 1), IsNextNumber(n)
  PROVE  n \in 1..nextId
<1>1. CASE orders = {} /\ n = 1
  BY <1>1, BoundsAssumption DEF TypeOK
<1>2. CASE \E last \in orders : n = last.id + 1
  <2>1. PICK last \in orders : n = last.id + 1
    BY <1>2
  <2>2. last.id < nextId /\ last.id \in Nat /\ nextId \in Nat
    BY BoundsAssumption DEF TypeOK, Numbered, Order
  <2> QED BY <2>1, <2>2
<1> QED BY <1>1, <1>2 DEF IsNextNumber

(* What BeginWrite does to the sessions, whoever calls it. *)
LEMMA BeginWriteOK ==
  ASSUME TypeOK, Numbered, NEW a \in Actors, NEW j \in Checkouts \cup {Quote},
         BeginWrite(a, j)
  PROVE  /\ at' \in [Actors -> Session]
         /\ at'[a].pc = "writing" /\ at'[a].job = j /\ at'[a].num \in 1..nextId
         /\ \A b \in Actors : b # a => at'[b] = at[b]
<1>1. PICK n \in 1..(MaxId + 1) : IsNextNumber(n) /\ at' = [at EXCEPT ![a] = Writing(j, n)]
  BY DEF BeginWrite
<1>2. n \in 1..nextId
  BY <1>1, PickedNumber
<1>3. Writing(j, n) \in Session /\ Writing(j, n).pc = "writing"
        /\ Writing(j, n).job = j /\ Writing(j, n).num = n
  BY <1>1, WritingOK
<1>4. at \in [Actors -> Session]
  BY DEF TypeOK
<1>5. at'[a] = Writing(j, n) /\ \A b \in Actors : b # a => at'[b] = at[b]
  BY <1>1, <1>4
<1>6. at' \in [Actors -> Session]
  BY <1>1, <1>3, <1>4
<1> QED BY <1>2, <1>3, <1>5, <1>6

-----------------------------------------------------------------------------
(* Which actions are quiet, and which begin a write.                       *)

(* A session that goes back to rest is not writing and not waiting. *)
LEMMA ResumeOK ==
  ASSUME TypeOK, NEW a \in Actors, Resume(a)
  PROVE  /\ at' \in [Actors -> Session]
         /\ at'[a].pc \notin {"writing", "asked"}
         /\ \A b \in Actors : b # a => at'[b] = at[b]
BY IdleOK DEF Resume, TypeOK

(* The same, in the words of Quiet. *)
LEMMA ResumeQuiet ==
  ASSUME TypeOK, Told, NEW a \in Loop, Resume(a),
         UNCHANGED <<stage, link, lock, paid, vouched, orders, nextId>>
  PROVE  Quiet /\ at' \in [Actors -> Session]
BY ResumeOK, ActorsOK DEF Quiet, Told

(* An actor of the loop puts its question about a checkout. *)
LEMMA AskQuiet ==
  ASSUME TypeOK, Told, NEW a \in Loop, NEW c \in Checkouts, NEW s \in Ids \cup {NoOrder},
         at' = [at EXCEPT ![a] = Asked(c, s)],
         UNCHANGED <<stage, link, lock, paid, vouched, orders, nextId>>
  PROVE  Quiet /\ at' \in [Actors -> Session]
<1>1. at'[a].pc = "asked" /\ at'[a].job = c /\ at' \in [Actors -> Session]
  BY AskedOK, ActorsOK DEF TypeOK
<1>2. \A b \in Actors : b # a => at'[b] = at[b]
  BY DEF TypeOK
<1> QED BY <1>1, <1>2, ActorsOK DEF Quiet, Told

(* Nothing but the customer's, the bank's and the clock's variables moves. *)
LEMMA CustomerQuiet ==
  ASSUME TypeOK, Told, NEW c \in Checkouts,
         CreateCheckout(c) \/ Settle(c) \/ TimePasses(c)
  PROVE  TypeOK' /\ Quiet
<1>1. CASE CreateCheckout(c)
  <2>1. stage' \in [Checkouts -> {"new", "open", "gone"}]
    BY <1>1 DEF CreateCheckout, TypeOK
  <2>2. TypeOK'
    BY <1>1, <2>1 DEF CreateCheckout, TypeOK, bank, table, sweeper
  <2>3. Quiet
    BY <1>1, ActorsOK DEF CreateCheckout, TypeOK, Quiet, Told, bank, table
  <2> QED BY <2>2, <2>3
<1>2. CASE Settle(c)
  <2>1. TypeOK'
    BY <1>2 DEF Settle, TypeOK, table, sweeper
  <2>2. Quiet
    BY <1>2, ActorsOK DEF Settle, Quiet, Told, table
  <2> QED BY <2>1, <2>2
<1>3. CASE TimePasses(c)
  <2>1. age' \in [Checkouts -> Payable..Dead]
    BY <1>3 DEF TimePasses, TypeOK
  <2>2. TypeOK'
    BY <1>3, <2>1 DEF TimePasses, TypeOK, bank, table, sweeper
  <2>3. Quiet
    BY <1>3, ActorsOK DEF TimePasses, Quiet, Told, bank, table
  <2> QED BY <2>2, <2>3
<1> QED BY <1>1, <1>2, <1>3

LEMMA PollQuiet ==
  ASSUME TypeOK, Told, NEW b \in Browsers,
         (\E c \in Checkouts : PollAsk(b, c)) \/ PollNo(b) \/ PollRowGone(b)
  PROVE  TypeOK' /\ Quiet
<1>0. b \in Loop
  BY ActorsOK
<1>1. CASE \E c \in Checkouts : PollAsk(b, c)
  <2>1. PICK c \in Checkouts : PollAsk(b, c)
    BY <1>1
  <2>2. link[c] \in Ids \cup {NoOrder}
    BY DEF TypeOK
  <2>3. Quiet /\ at' \in [Actors -> Session]
    BY <1>0, <2>1, <2>2, AskQuiet DEF PollAsk, bank, table
  <2> QED BY <2>1, <2>3 DEF PollAsk, TypeOK, bank, table, sweeper
<1>2. CASE PollNo(b) \/ PollRowGone(b)
  <2>1. Quiet /\ at' \in [Actors -> Session]
    BY <1>0, <1>2, ResumeQuiet DEF PollNo, PollRowGone, bank, table
  <2> QED BY <1>2, <2>1 DEF PollNo, PollRowGone, TypeOK, bank, table, sweeper
<1> QED BY <1>1, <1>2

LEMMA SweepQuiet ==
  ASSUME TypeOK, Told,
         SweepStart \/ SweepNo \/ SweepBeaten \/ \E c \in Checkouts : SweepAsk(c)
  PROVE  TypeOK' /\ Quiet
<1>1. CASE SweepStart
  <2>1. Quiet /\ at' \in [Actors -> Session]
    BY <1>1, ActorsOK, ResumeQuiet DEF SweepStart, bank, table
  <2>2. todo' \subseteq Checkouts /\ doomed' \subseteq Checkouts
    BY <1>1 DEF SweepStart
  <2> QED BY <1>1, <2>1, <2>2 DEF SweepStart, TypeOK, bank, table
<1>2. CASE SweepNo
  <2>1. Quiet /\ at' \in [Actors -> Session]
    BY <1>2, ActorsOK, ResumeQuiet DEF SweepNo, bank, table
  <2> QED BY <1>2, <2>1 DEF SweepNo, TypeOK, bank, table, sweeper
<1>3. CASE SweepBeaten
  <2>1. Quiet /\ at' \in [Actors -> Session]
    BY <1>3, ActorsOK, ResumeQuiet DEF SweepBeaten, bank, table
  <2> QED BY <1>3, <2>1 DEF SweepBeaten, TypeOK, bank, table
<1>4. CASE \E c \in Checkouts : SweepAsk(c)
  <2>1. PICK c \in Checkouts : SweepAsk(c)
    BY <1>4
  <2>2. (IF expired THEN link[c] ELSE NoOrder) \in Ids \cup {NoOrder}
    BY DEF TypeOK
  <2>3. Quiet /\ at' \in [Actors -> Session]
    BY <2>1, <2>2, AskQuiet, ActorsOK DEF SweepAsk, bank, table
  <2>4. todo' \subseteq Checkouts
    BY <2>1 DEF SweepAsk, TypeOK
  <2> QED BY <2>1, <2>3, <2>4 DEF SweepAsk, TypeOK, bank, table
<1> QED BY <1>1, <1>2, <1>3, <1>4

(* A poll or a pass that was told "paid", or a member of staff, begins. *)
LEMMA BeginSteps ==
  ASSUME TypeOK, Numbered, Told,
         NEW a \in Actors, NEW j \in Checkouts \cup {Quote},
         \/ a \in Browsers /\ PollYes(a) /\ j = at[a].job
         \/ a = Sweep /\ SweepYes /\ j = at[a].job
         \/ a \in Staff /\ j \in Checkouts /\ Confirm(a, j)
         \/ a \in Staff /\ j = Quote /\ PlaceQuote(a)
  PROVE  TypeOK' /\ Begin(a, j)
<1>1. Begin(a, j)
  <2>1. CASE a \in Browsers /\ PollYes(a) /\ j = at[a].job
    BY <2>1, ActorsOK, ActorsAssumption
       DEF Begin, PollYes, ProviderConfirms, Available, Told, bank, table
  <2>2. CASE a = Sweep /\ SweepYes /\ j = at[a].job
    BY <2>2, ActorsOK, ActorsAssumption
       DEF Begin, SweepYes, ProviderConfirms, Available, Told, bank, table
  <2>3. CASE a \in Staff /\ j \in Checkouts /\ Confirm(a, j)
    BY <2>3, ActorsOK, ActorsAssumption DEF Begin, Confirm, Available, bank, table
  <2>4. CASE a \in Staff /\ j = Quote /\ PlaceQuote(a)
    BY <2>4, ActorsOK, ActorsAssumption DEF Begin, PlaceQuote, bank, table
  <2> QED BY <2>1, <2>2, <2>3, <2>4
<1>2. at' \in [Actors -> Session]
  BY <1>1, BeginWriteOK DEF Begin
<1>3. lock' \in [Checkouts -> Actors \cup {Free}]
  BY <1>1 DEF Begin, TypeOK
<1>4. UNCHANGED <<age, written, undone, sweeper, crashes>>
  BY DEF PollYes, SweepYes, Confirm, PlaceQuote, table
<1> QED BY <1>1, <1>2, <1>3, <1>4 DEF Begin, TypeOK, sweeper

-----------------------------------------------------------------------------
(* What a quiet step and the head of a write keep.                         *)

LEMMA QuietKeeps ==
  ASSUME TypeOK, Numbered, Locked, Told, Quiet
  PROVE  Numbered' /\ Locked' /\ Told'
<1>1. Numbered'
  BY DEF Numbered, NumberBelowId, Quiet
<1>2. Locked'
  <2> SUFFICES ASSUME NEW a \in Actors, at'[a].pc = "writing", at'[a].job # Quote
               PROVE  /\ lock'[at'[a].job] = a /\ stage'[at'[a].job] = "open"
                      /\ a \in Staff => link'[at'[a].job] = NoOrder
    BY DEF Locked
  <2>1. at'[a] = at[a]
    BY DEF Quiet
  <2>2. at[a].job \in Checkouts
    BY <2>1 DEF TypeOK, Session
  <2>3. stage[at[a].job] = "open"
    BY <2>1 DEF Locked
  <2> QED BY <2>1, <2>2, <2>3 DEF Locked, Quiet
<1>3. Told'
  BY ActorsOK DEF Told, Quiet
<1> QED BY <1>1, <1>2, <1>3

LEMMA BeginKeeps ==
  ASSUME TypeOK, Numbered, Locked, Told,
         NEW a \in Actors, NEW j \in Checkouts \cup {Quote}, Begin(a, j)
  PROVE  Numbered' /\ Locked' /\ Told'
<1>0. /\ at'[a].pc = "writing" /\ at'[a].job = j /\ at'[a].num \in 1..nextId
      /\ \A b \in Actors : b # a => at'[b] = at[b]
  BY BeginWriteOK DEF Begin
<1>1. Numbered'
  BY <1>0 DEF Numbered, NumberBelowId, Begin
<1>2. Locked'
  <2> SUFFICES ASSUME NEW b \in Actors, at'[b].pc = "writing", at'[b].job # Quote
               PROVE  /\ lock'[at'[b].job] = b /\ stage'[at'[b].job] = "open"
                      /\ b \in Staff => link'[at'[b].job] = NoOrder
    BY DEF Locked
  <2>1. CASE b = a
    BY <1>0, <2>1 DEF Begin, TypeOK
  <2>2. CASE b # a
    <3>1. at'[b] = at[b]
      BY <1>0, <2>2
    <3>2. lock[at[b].job] = b /\ at[b].job \in Checkouts
      BY <3>1 DEF Locked, TypeOK, Session
    <3>3. lock'[at[b].job] = b
      BY <3>2, ActorsOK DEF Begin, TypeOK
    <3> QED BY <3>1, <3>3 DEF Locked, Begin
  <2> QED BY <2>1, <2>2
<1>3. Told'
  BY <1>0, ActorsOK DEF Told, Begin
<1> QED BY <1>1, <1>2, <1>3

-----------------------------------------------------------------------------
(* The end of a write.                                                     *)

(* The sessions and the locks after a write of `a`. *)
LEMMA EndWriteOK ==
  ASSUME TypeOK, NEW a \in Actors, HasRoom, EndWrite(a)
  PROVE  /\ at' \in [Actors -> Session]
         /\ at'[a].pc \notin {"writing", "asked"}
         /\ \A b \in Actors : b # a => at'[b] = at[b]
         /\ lock' \in [Checkouts -> Actors \cup {Free}]
         /\ \A c \in Checkouts : lock[c] # a => lock'[c] = lock[c]
         /\ expired' \in BOOLEAN
         /\ nextId' = nextId + 1 /\ nextId' \in 1..(MaxId + 1) /\ nextId \in Ids
<1>1. /\ at' \in [Actors -> Session]
      /\ at'[a].pc \notin {"writing", "asked"}
      /\ \A b \in Actors : b # a => at'[b] = at[b]
  BY ResumeOK DEF EndWrite
<1>2. /\ lock' \in [Checkouts -> Actors \cup {Free}]
      /\ \A c \in Checkouts : lock[c] # a => lock'[c] = lock[c]
  BY DEF EndWrite, TypeOK
<1>3. expired' \in BOOLEAN
  BY DEF EndWrite, TypeOK
<1>4. nextId' = nextId + 1 /\ nextId' \in 1..(MaxId + 1) /\ nextId \in Ids
  BY BoundsAssumption DEF EndWrite, HasRoom, TypeOK
<1> QED BY <1>1, <1>2, <1>3, <1>4

(* The row an Insert adds. *)
New(a) == [id |-> nextId, number |-> at[a].num, ref |-> at[a].job]

LEMMA NewOK ==
  ASSUME TypeOK, Numbered, NEW a \in Actors, HasRoom, at[a].pc = "writing"
  PROVE  /\ New(a) \in Order
         /\ New(a).id = nextId /\ New(a).number = at[a].num /\ New(a).ref = at[a].job
         /\ at[a].job \in Checkouts \cup {Quote}
         /\ at[a].num <= nextId
<1>1. at[a].num \in 1..nextId /\ nextId \in 1..MaxId
  BY BoundsAssumption DEF TypeOK, Numbered, HasRoom
<1>2. at[a].num \in Ids
  BY <1>1, BoundsAssumption
<1>3. at[a].job \in Checkouts \cup {Quote}
  BY DEF TypeOK, Session
<1> QED BY <1>1, <1>2, <1>3 DEF New, Order

(* After a write that leaves the other rows of the table alone, committed   *)
(* or not, the other writers are where they were.                           *)
LEMMA EndWriteKeeps ==
  ASSUME TypeOK, Numbered, Locked, Told, NEW a \in Actors, HasRoom, EndWrite(a),
         at[a].pc = "writing", UNCHANGED <<stage, paid>>,
         \A c \in Checkouts : c # at[a].job => link'[c] = link[c],
         \/ orders' = orders /\ link' = link
         \/ orders' = orders \cup {New(a)}
  PROVE  Numbered' /\ Locked' /\ Told'
<1>0. /\ at'[a].pc \notin {"writing", "asked"}
      /\ \A b \in Actors : b # a => at'[b] = at[b]
      /\ \A c \in Checkouts : lock[c] # a => lock'[c] = lock[c]
      /\ nextId' = nextId + 1 /\ nextId \in Nat /\ nextId' \in Nat
  BY EndWriteOK, BoundsAssumption DEF TypeOK
<1>1. Numbered'
  <2>1. \A o \in orders' : o.number <= o.id
    BY NewOK DEF Numbered, NumberBelowId
  <2>2. \A o \in orders : o.id \in Nat /\ o.id < nextId
    BY DEF TypeOK, Numbered, Order
  <2>3. \A o \in orders' : o.id < nextId'
    BY <1>0, <2>2, NewOK
  <2>4. \A o, p \in orders' : o.id = p.id => o = p
    BY <2>2, <1>0, NewOK DEF Numbered
  <2>5. \A b \in Actors : at'[b].pc = "writing" => at'[b].num \in 1..nextId'
    BY <1>0 DEF Numbered
  <2> QED BY <2>1, <2>3, <2>4, <2>5 DEF Numbered, NumberBelowId
<1>2. Locked'
  <2> SUFFICES ASSUME NEW b \in Actors, at'[b].pc = "writing", at'[b].job # Quote
               PROVE  /\ lock'[at'[b].job] = b /\ stage'[at'[b].job] = "open"
                      /\ b \in Staff => link'[at'[b].job] = NoOrder
    BY DEF Locked
  <2>1. b # a /\ at'[b] = at[b]
    BY <1>0
  <2>2. lock[at[b].job] = b /\ at[b].job \in Checkouts
    BY <2>1 DEF Locked, TypeOK, Session
  <2>3. at[b].job # at[a].job
    BY <2>1, <2>2 DEF Locked
  <2> QED BY <1>0, <2>1, <2>2, <2>3 DEF Locked
<1>3. Told'
  BY <1>0, ActorsOK DEF Told
<1> QED BY <1>1, <1>2, <1>3

LEMMA InsertKeeps ==
  ASSUME TypeOK, Numbered, Locked, Told, NEW a \in Actors, Insert(a)
  PROVE  TypeOK' /\ Numbered' /\ Locked' /\ Told'
<1>1. /\ EndWrite(a) /\ HasRoom /\ at[a].pc = "writing" /\ UNCHANGED <<stage, paid>>
      /\ orders' = orders \cup {New(a)}
      /\ \A c \in Checkouts : c # at[a].job => link'[c] = link[c]
  BY DEF Insert, Vouches, New
<1>2. orders' \subseteq Order
  BY <1>1, NewOK DEF TypeOK
<1>3. link' \in [Checkouts -> Ids \cup {NoOrder}]
  <2>1. nextId \in Ids
    BY <1>1, EndWriteOK
  <2> QED BY <2>1 DEF Insert, Vouches, TypeOK
<1>4. written' \in [Checkouts -> Nat]
  BY DEF Insert, Vouches, TypeOK
<1>5. vouched' \subseteq Checkouts
  BY <1>1, NewOK DEF Insert, Vouches, TypeOK
<1>6. TypeOK'
  BY <1>1, <1>2, <1>3, <1>4, <1>5, EndWriteOK DEF Insert, Vouches, TypeOK
<1> QED BY <1>1, <1>6, EndWriteKeeps

LEMMA RefusedKeeps ==
  ASSUME TypeOK, Numbered, Locked, Told, NEW a \in Actors, InsertRefused(a)
  PROVE  TypeOK' /\ Numbered' /\ Locked' /\ Told'
<1>1. /\ EndWrite(a) /\ HasRoom /\ at[a].pc = "writing"
      /\ UNCHANGED <<stage, age, link, bank, orders, written, undone, todo, doomed, crashes>>
  BY DEF InsertRefused
<1>2. TypeOK'
  BY <1>1, EndWriteOK DEF TypeOK, bank
<1>3. Numbered' /\ Locked' /\ Told'
  BY <1>1, EndWriteKeeps DEF bank
<1> QED BY <1>2, <1>3

-----------------------------------------------------------------------------
(* The prune, a deleted order, a restart.                                  *)

LEMMA PruneKeeps ==
  ASSUME TypeOK, Numbered, Locked, Told, SweepPrune
  PROVE  TypeOK' /\ Numbered' /\ Locked' /\ Told'
<1>1. /\ at' \in [Actors -> Session] /\ at'[Sweep].pc = "idle"
      /\ \A a \in Actors : a # Sweep => at'[a] = at[a]
  BY IdleOK, ActorsOK DEF SweepPrune, TypeOK
<1>2. stage' \in [Checkouts -> {"new", "open", "gone"}]
  BY DEF SweepPrune, TypeOK
<1>3. TypeOK'
  BY <1>1, <1>2 DEF SweepPrune, TypeOK, bank, table
<1>4. Numbered'
  BY <1>1 DEF Numbered, NumberBelowId, SweepPrune, table
<1>5. Locked'
  <2> SUFFICES ASSUME NEW a \in Actors, at'[a].pc = "writing", at'[a].job # Quote
               PROVE  /\ lock'[at'[a].job] = a /\ stage'[at'[a].job] = "open"
                      /\ a \in Staff => link'[at'[a].job] = NoOrder
    BY DEF Locked
  <2>1. a # Sweep /\ at'[a] = at[a]
    BY <1>1
  <2>2. lock[at[a].job] = a /\ at[a].job \in Checkouts
    BY <2>1 DEF Locked, TypeOK, Session
  <2>3. at[a].job \notin doomed
    BY <2>2, ActorsOK DEF SweepPrune, Available
  <2> QED BY <2>1, <2>2, <2>3 DEF Locked, SweepPrune
<1>6. Told'
  BY <1>1, ActorsOK DEF Told, SweepPrune, bank
<1> QED BY <1>3, <1>4, <1>5, <1>6

LEMMA DeleteKeeps ==
  ASSUME TypeOK, Numbered, Locked, Told, NEW o \in orders, DeleteOrder(o)
  PROVE  TypeOK' /\ Numbered' /\ Locked' /\ Told'
<1>1. link' \in [Checkouts -> Ids \cup {NoOrder}]
  BY DEF DeleteOrder, TypeOK
<1>2. undone' \subseteq Checkouts
  BY DEF DeleteOrder, TypeOK, Order
<1>3. TypeOK'
  BY <1>1, <1>2 DEF DeleteOrder, TypeOK, bank, sweeper
<1>4. Numbered'
  BY DEF Numbered, NumberBelowId, DeleteOrder
<1>5. Locked'
  <2>1. \A a \in Actors : at[a].pc = "writing" /\ at[a].job # Quote => at[a].job \in Checkouts
    BY DEF TypeOK, Session
  <2> QED BY <2>1 DEF Locked, DeleteOrder, TypeOK
<1>6. Told'
  BY DEF Told, DeleteOrder, bank
<1> QED BY <1>3, <1>4, <1>5, <1>6

LEMMA CrashKeeps ==
  ASSUME TypeOK, Numbered, Locked, Told, Crash
  PROVE  TypeOK' /\ Numbered' /\ Locked' /\ Told'
<1>1. \A a \in Actors : at'[a] = Idle
  BY DEF Crash
<1>2. at' \in [Actors -> Session]
  BY IdleOK DEF Crash
<1>3. crashes' \in 0..MaxCrashes /\ lock' \in [Checkouts -> Actors \cup {Free}]
  BY BoundsAssumption DEF Crash, TypeOK
<1>4. TypeOK'
  BY <1>2, <1>3 DEF Crash, TypeOK, bank, table
<1>5. Numbered'
  BY <1>1, IdleOK DEF Numbered, NumberBelowId, Crash, table
<1>6. Locked' /\ Told'
  BY <1>1, IdleOK, ActorsOK DEF Locked, Told
<1> QED BY <1>4, <1>5, <1>6

-----------------------------------------------------------------------------
(* Every step of Next is one of these.                                     *)

LEMMA StepCases ==
  ASSUME TypeOK, Numbered, Told, Next
  PROVE  \/ TypeOK' /\ Quiet
         \/ \E a \in Actors, j \in Checkouts \cup {Quote} : TypeOK' /\ Begin(a, j)
         \/ \E a \in Actors : Insert(a) \/ InsertRefused(a)
         \/ SweepPrune \/ Crash
         \/ \E o \in orders : DeleteOrder(o)
<1>1. CASE CustomerNext
  BY <1>1, CustomerQuiet DEF CustomerNext
<1>2. CASE PollNext
  <2>1. PICK b \in Browsers : \/ \E c \in Checkouts : PollAsk(b, c)
                              \/ PollNo(b) \/ PollYes(b) \/ PollRowGone(b)
    BY <1>2 DEF PollNext
  <2>2. CASE PollYes(b)
    <3>1. b \in Actors /\ at[b].job \in Checkouts \cup {Quote}
      BY ActorsOK DEF TypeOK, Session
    <3> QED BY <2>2, <3>1, BeginSteps
  <2> QED BY <2>1, <2>2, PollQuiet
<1>3. CASE SweepNext
  <2>1. CASE SweepYes
    <3>1. Sweep \in Actors /\ at[Sweep].job \in Checkouts \cup {Quote}
      BY ActorsOK DEF TypeOK, Session
    <3> QED BY <2>1, <3>1, BeginSteps
  <2> QED BY <1>3, <2>1, SweepQuiet DEF SweepNext
<1>4. CASE StaffNext
  <2>1. CASE \E t \in Staff : PlaceQuote(t) \/ \E c \in Checkouts : Confirm(t, c)
    BY <2>1, ActorsOK, BeginSteps
  <2> QED BY <1>4, <2>1 DEF StaffNext
<1> QED BY <1>1, <1>2, <1>3, <1>4 DEF Next, WriteNext

(* The inductive invariant. *)
Sound == TypeOK /\ Numbered /\ Locked /\ Told

LEMMA Stutter == ASSUME Sound, UNCHANGED vars PROVE Sound'
BY DEF Sound, TypeOK, Numbered, NumberBelowId, Locked, Told, vars, bank, table, sweeper

LEMMA SoundStep == Sound /\ [Next]_vars => Sound'
<1> SUFFICES ASSUME Sound, Next PROVE Sound'
  BY Stutter
<1>1. TypeOK /\ Numbered /\ Locked /\ Told
  BY DEF Sound
<1>2. CASE TypeOK' /\ Quiet
  BY <1>1, <1>2, QuietKeeps DEF Sound
<1>3. CASE \E a \in Actors, j \in Checkouts \cup {Quote} : TypeOK' /\ Begin(a, j)
  BY <1>1, <1>3, BeginKeeps DEF Sound
<1>4. CASE \E a \in Actors : Insert(a) \/ InsertRefused(a)
  BY <1>1, <1>4, InsertKeeps, RefusedKeeps DEF Sound
<1>5. CASE SweepPrune \/ Crash
  BY <1>1, <1>5, PruneKeeps, CrashKeeps DEF Sound
<1>6. CASE \E o \in orders : DeleteOrder(o)
  BY <1>1, <1>6, DeleteKeeps DEF Sound
<1> QED BY <1>1, <1>2, <1>3, <1>4, <1>5, <1>6, StepCases

LEMMA AlwaysSound == Spec => []Sound
<1>1. Init => Sound
  BY InitOK DEF Sound
<1> QED BY <1>1, SoundStep, PTL DEF Spec

-----------------------------------------------------------------------------
(* The theorems.                                                           *)

(* Every variable keeps its type, through every handler, pass and restart. *)
THEOREM TypeCorrect == Spec => []TypeOK
<1>1. Sound => TypeOK
  BY DEF Sound
<1> QED BY <1>1, AlwaysSound, PTL

(* _next_order_number never proposes a number that is already in the table, *)
(* though rows are deleted and sequence values are lost: when an insert is  *)
(* refused, another writer got in between.                                  *)
THEOREM NextNumberAlwaysFree == Spec => []NextNumberIsFree
<1>1. Sound => NextNumberIsFree
  <2> SUFFICES ASSUME Sound, NEW n \in 1..(MaxId + 1), IsNextNumber(n),
                      NEW o \in orders, o.number = n
               PROVE  FALSE
    BY DEF NextNumberIsFree, NumberTaken
  <2>1. PICK last \in orders : (\A p \in orders : p.id <= last.id) /\ n = last.id + 1
    BY DEF IsNextNumber
  <2>2. o.id \in Nat /\ last.id \in Nat /\ o.number \in Nat
    BY BoundsAssumption DEF Sound, TypeOK, Order
  <2>3. o.number <= o.id /\ o.id <= last.id
    BY <2>1 DEF Sound, Numbered, NumberBelowId
  <2> QED BY <2>1, <2>2, <2>3
<1> QED BY <1>1, AlwaysSound, PTL

(* confirm_checkout_manually never writes on a stale order_id: from the     *)
(* locked SELECT to the COMMIT the row is the staff member's and empty.     *)
THEOREM ConfirmAlwaysExclusive == Spec => []ConfirmIsExclusive
<1>1. Sound => ConfirmIsExclusive
  BY ActorsOK DEF Sound, Locked, ConfirmIsExclusive
<1> QED BY <1>1, AlwaysSound, PTL

(* No order comes out of a checkout that neither the bank nor a member of   *)
(* staff says is paid.                                                      *)
THEOREM OrdersArePaid == Spec => []OrderNeedsPayment
<1>1. Init => OrderNeedsPayment
  BY DEF Init, OrderNeedsPayment
<1>2. Sound /\ OrderNeedsPayment /\ [Next]_vars => OrderNeedsPayment'
  <2> SUFFICES ASSUME Sound, OrderNeedsPayment, Next PROVE OrderNeedsPayment'
    BY DEF OrderNeedsPayment, vars, bank, table
  <2>1. TypeOK /\ Numbered /\ Locked /\ Told
    BY DEF Sound
  <2>2. CASE Quiet
    BY <2>2 DEF Quiet, OrderNeedsPayment
  <2>3. CASE \E a \in Actors, j \in Checkouts \cup {Quote} : Begin(a, j)
    BY <2>3 DEF Begin, OrderNeedsPayment
  <2>4. ASSUME NEW a \in Actors, Insert(a) PROVE OrderNeedsPayment'
    <3>1. at[a].job = Quote \/ at[a].job \in paid' \cup vouched'
      BY <2>4, ActorsOK DEF Sound, Told, Insert, Vouches
    <3>2. vouched \subseteq vouched' /\ paid' = paid /\ orders' = orders \cup {New(a)}
      BY <2>4 DEF Insert, Vouches, New
    <3>3. New(a).ref = at[a].job
      BY DEF New
    <3> QED BY <3>1, <3>2, <3>3 DEF OrderNeedsPayment
  <2>5. CASE \E a \in Actors : InsertRefused(a)
    BY <2>5 DEF InsertRefused, OrderNeedsPayment, bank
  <2>6. CASE SweepPrune \/ Crash
    BY <2>6 DEF SweepPrune, Crash, OrderNeedsPayment, bank, table
  <2>7. CASE \E o \in orders : DeleteOrder(o)
    BY <2>7 DEF DeleteOrder, OrderNeedsPayment, bank
  <2> QED BY <2>1, <2>2, <2>3, <2>4, <2>5, <2>6, <2>7, StepCases
<1> QED BY <1>1, <1>2, AlwaysSound, PTL DEF Spec

(* pending_checkouts.order_id always names an order, and one written from   *)
(* that very checkout, whatever staff delete: a poll never answers with     *)
(* somebody else's order.                                                   *)
THEOREM LinkAlwaysSound == Spec => []LinkSound
<1>1. Sound /\ LinkSound /\ [Next]_vars => LinkSound'
  <2> SUFFICES ASSUME Sound, LinkSound, Next PROVE LinkSound'
    BY DEF LinkSound, vars, table
  <2>1. TypeOK /\ Numbered /\ Locked /\ Told
    BY DEF Sound
  <2>2. CASE Quiet
    BY <2>2 DEF Quiet, LinkSound
  <2>3. CASE \E a \in Actors, j \in Checkouts \cup {Quote} : Begin(a, j)
    BY <2>3 DEF Begin, LinkSound
  <2>4. ASSUME NEW a \in Actors, Insert(a) PROVE LinkSound'
    <3>1. /\ New(a).id = nextId /\ New(a).ref = at[a].job
          /\ orders' = orders \cup {New(a)}
      BY <2>4 DEF Insert, Vouches, New
    <3>2. \A c \in Checkouts : link'[c] = IF c = at[a].job THEN nextId ELSE link[c]
      BY <2>4 DEF Insert, Vouches
    <3> QED BY <3>1, <3>2 DEF LinkSound
  <2>5. CASE \E a \in Actors : InsertRefused(a)
    BY <2>5 DEF InsertRefused, LinkSound
  <2>6. CASE SweepPrune \/ Crash
    BY <2>6 DEF SweepPrune, Crash, LinkSound, table
  <2>7. ASSUME NEW o \in orders, DeleteOrder(o) PROVE LinkSound'
    <3>1. orders' = orders \ {o}
      BY <2>7 DEF DeleteOrder
    <3>2. \A c \in Checkouts : link'[c] # NoOrder => link'[c] = link[c] /\ link[c] # o.id
      BY <2>7 DEF DeleteOrder
    <3> QED BY <3>1, <3>2 DEF LinkSound
  <2> QED BY <2>1, <2>2, <2>3, <2>4, <2>5, <2>6, <2>7, StepCases
<1>2. Init => LinkSound
  BY InitOK
<1> QED BY <1>1, <1>2, AlwaysSound, PTL DEF Spec

-----------------------------------------------------------------------------
(* One payment, one order, where only staff write: the provider's API       *)
(* cannot see payments, so neither a poll nor the sweep is ever told "paid".*)

(* What the row lock and order_id guard, once no stale copy is trusted. *)
OneEach == LoopSilent /\ LinkComplete /\ GoneHasNoOrder

LEMMA OneEachStep ==
  ASSUME ~BankReports
  PROVE  Sound /\ OneEach /\ [Next]_vars => OneEach'
<1> SUFFICES ASSUME Sound, OneEach, Next PROVE OneEach'
  BY DEF OneEach, LoopSilent, LinkComplete, GoneHasNoOrder, vars, table
<1>1. TypeOK /\ Numbered /\ Locked /\ Told /\ LoopSilent /\ LinkComplete /\ GoneHasNoOrder
  BY DEF Sound, OneEach
<1>2. CASE TypeOK' /\ Quiet
  <2>1. LoopSilent'
    BY <1>1, <1>2, ActorsOK DEF LoopSilent, Quiet
  <2>2. \A o \in orders : o.ref # Quote => o.ref \in Checkouts
    BY <1>1 DEF TypeOK, Order
  <2>3. LinkComplete' /\ GoneHasNoOrder'
    BY <1>1, <1>2, <2>2 DEF LinkComplete, GoneHasNoOrder, Quiet
  <2> QED BY <2>1, <2>3 DEF OneEach
<1>3. ASSUME NEW a \in Actors, NEW j \in Checkouts \cup {Quote}, Begin(a, j) PROVE OneEach'
  <2>1. a \notin Loop
    BY <1>3 DEF Begin
  <2>2. \A b \in Actors : b # a => at'[b] = at[b]
    BY <1>1, <1>3, BeginWriteOK DEF Begin
  <2>3. LoopSilent'
    BY <1>1, <2>1, <2>2, ActorsOK DEF LoopSilent
  <2>4. LinkComplete' /\ GoneHasNoOrder'
    BY <1>1, <1>3 DEF LinkComplete, GoneHasNoOrder, Begin
  <2> QED BY <2>3, <2>4 DEF OneEach
<1>4. ASSUME NEW a \in Actors, Insert(a) PROVE OneEach'
  <2>1. a \in Staff /\ at[a].pc = "writing"
    BY <1>1, <1>4, ActorsOK DEF LoopSilent, Insert, Vouches
  <2>2. /\ New(a).id = nextId /\ New(a).ref = at[a].job
        /\ orders' = orders \cup {New(a)} /\ stage' = stage
        /\ \A c \in Checkouts : link'[c] = IF c = at[a].job THEN nextId ELSE link[c]
    BY <1>4 DEF Insert, Vouches, New
  <2>3. at[a].job # Quote => stage[at[a].job] = "open" /\ link[at[a].job] = NoOrder
                             /\ at[a].job \in Checkouts
    BY <1>1, <2>1, ActorsOK DEF Locked, TypeOK, Session
  <2>4. \A o \in orders : o.id # NoOrder /\ (o.ref # Quote => o.ref \in Checkouts)
    BY <1>1 DEF TypeOK, Order
  <2>5. \A o \in orders : o.ref # Quote => o.ref # at[a].job
    BY <1>1, <2>3, <2>4 DEF LinkComplete
  <2>6. LinkComplete' /\ GoneHasNoOrder'
    BY <1>1, <2>2, <2>3, <2>4, <2>5 DEF LinkComplete, GoneHasNoOrder
  <2>7. LoopSilent'
    BY <1>1, <1>4, EndWriteOK, ActorsOK DEF Insert, Vouches, LoopSilent
  <2> QED BY <2>6, <2>7 DEF OneEach
<1>5. ASSUME NEW a \in Actors, InsertRefused(a) PROVE OneEach'
  <2>1. LoopSilent'
    BY <1>1, <1>5, EndWriteOK, ActorsOK DEF InsertRefused, LoopSilent
  <2> QED BY <1>1, <1>5, <2>1 DEF OneEach, InsertRefused, LinkComplete, GoneHasNoOrder
<1>6. CASE SweepPrune
  <2>1. LoopSilent'
    BY <1>1, <1>6, IdleOK, ActorsOK DEF SweepPrune, LoopSilent, TypeOK
  <2>2. \A o \in orders : o.ref # Quote =>
          o.ref \in Checkouts /\ link[o.ref] # NoOrder
    BY <1>1 DEF TypeOK, Order, LinkComplete
  <2>3. LinkComplete' /\ GoneHasNoOrder'
    BY <1>1, <1>6, <2>2 DEF SweepPrune, LinkComplete, GoneHasNoOrder, table
  <2> QED BY <2>1, <2>3 DEF OneEach
<1>7. CASE Crash
  BY <1>1, <1>7, IdleOK, ActorsOK
     DEF Crash, OneEach, LoopSilent, LinkComplete, GoneHasNoOrder, table
<1>8. ASSUME NEW o \in orders, DeleteOrder(o) PROVE OneEach'
  <2>1. orders' = orders \ {o} /\ at' = at /\ stage' = stage
    BY <1>8 DEF DeleteOrder
  <2>2. \A p \in orders : p # o => p.id # o.id
    BY <1>1 DEF Numbered
  <2>3. \A p \in orders : p.ref # Quote => p.ref \in Checkouts
    BY <1>1 DEF TypeOK, Order
  <2>4. LinkComplete'
    BY <1>1, <1>8, <2>1, <2>2, <2>3 DEF LinkComplete, DeleteOrder
  <2> QED BY <1>1, <2>1, <2>4 DEF OneEach, LoopSilent, GoneHasNoOrder
<1> QED BY <1>1, <1>2, <1>3, <1>4, <1>5, <1>6, <1>7, <1>8, StepCases

LEMMA AlwaysOneEach == ASSUME ~BankReports PROVE Spec => []OneEach
<1>1. Init => OneEach
  BY InitOK DEF OneEach, Init, LinkComplete, GoneHasNoOrder
<1> QED BY <1>1, OneEachStep, AlwaysSound, PTL DEF Spec

(* Where staff confirm by hand, the checkout points at every order written  *)
(* from it, through any number of concurrent confirmations, deleted orders, *)
(* refused inserts and restarts.                                            *)
THEOREM ManualLinkComplete == ASSUME ~BankReports PROVE Spec => []LinkComplete
<1>1. OneEach => LinkComplete
  BY DEF OneEach
<1> QED BY <1>1, AlwaysOneEach, PTL

(* ... the sweep's prune takes no row whose order exists ... *)
THEOREM ManualPruneSafe == ASSUME ~BankReports PROVE Spec => []GoneHasNoOrder
<1>1. OneEach => GoneHasNoOrder
  BY DEF OneEach
<1> QED BY <1>1, AlwaysOneEach, PTL

(* ... and no two orders were written from one checkout. *)
THEOREM ManualOneOrder == ASSUME ~BankReports PROVE Spec => []OnePaymentOneOrder
<1>1. Sound /\ OneEach => OnePaymentOneOrder
  <2> SUFFICES ASSUME Sound, OneEach, NEW o \in orders, NEW p \in orders,
                      o.ref = p.ref, o.ref # Quote
               PROVE  o = p
    BY DEF OnePaymentOneOrder
  <2>1. link[o.ref] = o.id /\ link[p.ref] = p.id
    BY DEF OneEach, LinkComplete
  <2> QED BY <2>1 DEF Sound, Numbered
<1> QED BY <1>1, AlwaysSound, AlwaysOneEach, PTL

-----------------------------------------------------------------------------
(* The tables implement the abstract purchase.                             *)

(* The abstract steps, from what they do to single checkouts. *)
LEMMA SellOK ==
  ASSUME NEW c \in Checkouts, NEW i \in Ids, c \notin Gone, Gone' = Gone,
         Live(c) = {}, Live(c)' = {i},
         \A d \in Checkouts : d # c => Live(d)' = Live(d)
  PROVE  Ledger!Next
<1>1. Ledger!Sell(c, i)
  BY DEF Ledger!Sell
<1> QED BY <1>1 DEF Ledger!Next

LEMMA UndoOK ==
  ASSUME NEW c \in Checkouts, Gone' = Gone, Live(c) # {}, Live(c)' = {},
         \A d \in Checkouts : d # c => Live(d)' = Live(d)
  PROVE  Ledger!Next
<1>1. Ledger!Undo(c)
  BY DEF Ledger!Undo
<1> QED BY <1>1 DEF Ledger!Next

LEMMA DropOK ==
  ASSUME NEW cs \in SUBSET Checkouts, \A c \in cs : Live(c) = {}, Gone' = Gone \cup cs,
         \A d \in Checkouts : Live(d)' = Live(d)
  PROVE  Ledger!Next
<1>1. Ledger!Drop(cs)
  BY DEF Ledger!Drop
<1> QED BY <1>1 DEF Ledger!Next

(* What an abstract state does not see. *)
LEMMA SameLedger ==
  ASSUME \A c \in Checkouts : Live(c)' = Live(c), Gone' = Gone
  PROVE  UNCHANGED <<[c \in Checkouts |-> Live(c)], Gone>>
OBVIOUS

(* Where every row's checkout points at it, a checkout has an order exactly *)
(* when it points at one.                                                   *)
LEMMA LiveOK ==
  ASSUME Sound, LinkComplete, NEW c \in Checkouts
  PROVE  /\ link[c] = NoOrder => Live(c) = {}
         /\ \A o \in orders : o.ref = c => Live(c) = {o.id}
<1>1. c # Quote
  BY ActorsAssumption
<1>2. \A o \in orders : o.ref = c => link[c] = o.id /\ o.id # NoOrder
  BY <1>1 DEF Sound, TypeOK, Order, LinkComplete
<1> QED BY <1>2 DEF Live

(* The INSERT of a staff member's order is the abstract sale, and that of a *)
(* quote is no step of it.                                                  *)
LEMMA InsertSells ==
  ASSUME Sound, OneEach, NEW a \in Actors, Insert(a)
  PROVE  UNCHANGED <<[c \in Checkouts |-> Live(c)], Gone>> \/ Ledger!Next
<1>0. TypeOK /\ Locked /\ LoopSilent /\ LinkComplete
  BY DEF Sound, OneEach
<1>1. a \in Staff /\ at[a].pc = "writing"
  BY <1>0, ActorsOK DEF LoopSilent, Insert, Vouches
<1> DEFINE j == at[a].job
<1>2. PICK k : k = j
  OBVIOUS
<1>3. PICK n : n = New(a)
  OBVIOUS
<1>4. n.id = nextId /\ n.ref = k /\ orders' = orders \cup {n} /\ Gone' = Gone
  BY <1>2, <1>3 DEF Insert, Vouches, New, Gone
<1>5. \A c \in Checkouts : c # k => Live(c)' = Live(c)
  BY <1>4 DEF Live
<1>6. CASE k = Quote
  BY <1>4, <1>5, <1>6, SameLedger, ActorsAssumption
<1>7. CASE k # Quote
  <2>1. k \in Checkouts /\ stage[k] = "open" /\ link[k] = NoOrder
    BY <1>0, <1>1, <1>2, <1>7, ActorsOK DEF Locked, TypeOK, Session
  <2>2. Live(k) = {}
    BY <1>0, <2>1, LiveOK
  <2>3. Live(k)' = {n.id}
    BY <1>4, <2>2 DEF Live
  <2>4. n.id \in Ids
    BY <1>0, <1>4, EndWriteOK DEF Insert, Vouches
  <2>5. k \notin Gone
    BY <2>1 DEF Gone
  <2> QED BY <1>4, <1>5, <2>1, <2>2, <2>3, <2>4, <2>5, SellOK
<1> QED BY <1>6, <1>7

LEMMA DeleteUndoes ==
  ASSUME Sound, OneEach, NEW o \in orders, DeleteOrder(o)
  PROVE  UNCHANGED <<[c \in Checkouts |-> Live(c)], Gone>> \/ Ledger!Next
<1>1. orders' = orders \ {o} /\ Gone' = Gone
  BY DEF DeleteOrder, Gone
<1>2. \A c \in Checkouts : c # o.ref => Live(c)' = Live(c)
  BY <1>1 DEF Live
<1>3. CASE o.ref = Quote
  BY <1>1, <1>2, <1>3, SameLedger, ActorsAssumption
<1>4. CASE o.ref # Quote
  <2>1. o.ref \in Checkouts
    BY <1>4 DEF Sound, TypeOK, Order
  <2>2. \A p \in orders : p.ref = o.ref => p = o
    BY <1>4 DEF Sound, Numbered, OneEach, LinkComplete
  <2>3. Live(o.ref)' = {} /\ Live(o.ref) # {}
    BY <1>1, <2>2 DEF Live
  <2> QED BY <1>1, <1>2, <2>1, <2>3, UndoOK
<1> QED BY <1>3, <1>4

LEMMA PruneDrops ==
  ASSUME Sound, OneEach, SweepPrune
  PROVE  Ledger!Next
<1> DEFINE cs == {c \in doomed : link[c] = NoOrder}
<1>1. cs \in SUBSET Checkouts
  BY DEF Sound, TypeOK
<1>2. PICK ds \in SUBSET Checkouts : ds = cs
  BY <1>1
<1>3. Gone' = Gone \cup ds
  BY <1>2 DEF SweepPrune, Gone, Sound, TypeOK
<1>4. \A c \in ds : Live(c) = {}
  BY <1>2, LiveOK DEF OneEach
<1>5. \A c \in Checkouts : Live(c)' = Live(c)
  BY DEF Live, SweepPrune, table
<1> QED BY <1>3, <1>4, <1>5, DropOK

LEMMA LedgerStep ==
  ASSUME ~BankReports, Sound, OneEach, [Next]_vars
  PROVE  UNCHANGED <<[c \in Checkouts |-> Live(c)], Gone>> \/ Ledger!Next
<1>1. CASE orders' = orders /\ Gone' = Gone
  BY <1>1, SameLedger DEF Live
<1>2. CASE UNCHANGED vars
  BY <1>1, <1>2 DEF vars, table, Gone
<1>3. CASE Quiet
  BY <1>1, <1>3 DEF Quiet, Gone
<1>4. CASE \E a \in Actors, j \in Checkouts \cup {Quote} : Begin(a, j)
  BY <1>1, <1>4 DEF Begin, Gone
<1>5. CASE \E a \in Actors : Insert(a)
  BY <1>5, InsertSells
<1>6. CASE \E a \in Actors : InsertRefused(a)
  BY <1>1, <1>6 DEF InsertRefused, Gone
<1>7. CASE SweepPrune
  BY <1>7, PruneDrops
<1>8. CASE Crash
  BY <1>1, <1>8 DEF Crash, Gone, table
<1>9. CASE \E o \in orders : DeleteOrder(o)
  BY <1>9, DeleteUndoes
<1> QED BY <1>2, <1>3, <1>4, <1>5, <1>6, <1>7, <1>8, <1>9, StepCases DEF Sound

(* Staff-confirmed checkouts behave as the abstract purchase says: no order *)
(* or one, a sale only while there is none, none after the row was dropped. *)
THEOREM ManualKeepsPurchase == ASSUME ~BankReports PROVE Spec => KeepsPurchase
<1>1. Init => Ledger!Init
  BY DEF Init, Ledger!Init, Live, Gone
<1>2. Sound /\ OneEach /\ [Next]_vars
        => [Ledger!Next]_<<[c \in Checkouts |-> Live(c)], Gone>>
  BY LedgerStep
<1> QED BY <1>1, <1>2, AlwaysSound, AlwaysOneEach, PTL DEF Spec, KeepsPurchase, Ledger!Spec
=============================================================================
