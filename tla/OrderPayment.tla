---------------------------- MODULE OrderPayment ----------------------------
(***************************************************************************)
(* The payment columns of ONE orders row, and the requests that read and   *)
(* write them with no row lock: staff edits, refunds, deletes and counter  *)
(* QRs (threads), the browsers' payment polls and the Telegram button      *)
(* (coroutines of one event loop).                                         *)
(*                                                                         *)
(* Every request loads the row, decides on what it loaded, and commits     *)
(* later.  The ORM's UPDATE names only the columns whose value differs     *)
(* from the one that was LOADED, so two requests that overlap each keep    *)
(* their own columns: the row a commit leaves behind is a mixture nobody   *)
(* decided on.  That mixture is Merged below.                              *)
(*                                                                         *)
(* The provider is Bakong-direct, the configured one: a QR is known by its *)
(* md5, here a serial number.                                              *)
(***************************************************************************)
EXTENDS Naturals

CONSTANTS
  Tabs,     \* browsers that poll GET /orders/{id}/payment-status
  Staff,    \* back-office requests in flight
  Admins,   \* those of them made by a user with the `admin` permission
  Bot,      \* the Telegram webhook (a set: empty, or one coroutine)
  Totals,   \* grand totals an edit can arrive at
  Same,     \* stands for a column an UPDATE, or a field a body, leaves out
  MaxQr     \* bound on the QRs issued for this order

ASSUME SizesAssumption == MaxQr \in Nat \ {0} /\ Totals # {}
ASSUME ActorsAssumption ==
  /\ Admins \subseteq Staff
  /\ Tabs \cap Staff = {} /\ Tabs \cap Bot = {} /\ Staff \cap Bot = {}

NoQr == 0          \* khqr_string and khqr_md5 are NULL

Actors   == Tabs \cup Staff \cup Bot
Ladder   == {"pending", "confirmed", "delivered"}
Statuses == Ladder \cup {"cancelled"}
Pays     == {"none", "unpaid", "paid", "refunded"}
Settled  == {"paid", "refunded"}

ASSUME SameAssumption ==
  /\ Same \notin Totals /\ Same \notin 0..MaxQr /\ Same \notin BOOLEAN
  /\ Same \notin Statuses \cup Pays

(* _STATUS_LADDER and _status_rank. *)
Rank == [s \in Ladder |->
          CASE s = "pending" -> 0 [] s = "confirmed" -> 1 [] s = "delivered" -> 2]

(* The columns: workflow status, payment_status ("none" is NULL),           *)
(* payment_method is khqr, paid_at and refunded_at are set, grand_total,    *)
(* and the stored QR.                                                       *)
Columns == {"status", "pay", "khqr", "paidAt", "refundedAt", "total", "qr"}

Row == [status : Statuses, pay : Pays, khqr : BOOLEAN, paidAt : BOOLEAN,
        refundedAt : BOOLEAN, total : Totals, qr : 0..MaxQr]

(* What an UPDATE says: the columns it names, and Same for the others. *)
Update == [status : Statuses \cup {Same}, pay : Pays \cup {Same}, khqr : BOOLEAN \cup {Same},
           paidAt : BOOLEAN \cup {Same}, refundedAt : BOOLEAN \cup {Same},
           total : Totals \cup {Same}, qr : (0..MaxQr) \cup {Same}]

(* A request body of PUT /orders/{id}, as far as these columns go; an edit  *)
(* of lines or discount is the total it comes to.                           *)
Edits == [status : Statuses \cup {Same},
          pay    : {"none", "unpaid", "paid", Same},
          total  : Totals \cup {Same}]

VARIABLES
  row, live,  \* the row, and whether it still exists
  at,         \* what each request has loaded and is about to write
  issued,     \* QRs built so far
  amount,     \* the amount each of them was built for
  shown,      \* QRs a committed row has held: somebody may be scanning them
  lapsed,     \* QRs past their own expiry
  banked,     \* QRs the bank has settled
  vouched     \* a staff member recorded a payment by hand (history)

codes == <<issued, amount>>
bank  == <<lapsed, banked>>
vars  == <<row, live, at, codes, shown, bank, vouched>>

Nothing == [status |-> Same, pay |-> Same, khqr |-> Same, paidAt |-> Same,
            refundedAt |-> Same, total |-> Same, qr |-> Same]

(* `qr` is the QR a request found on the row, the one a poll asks about;    *)
(* `total` is the sum it read there.                                        *)
Idle    == [pc |-> "idle", op |-> "poll", upd |-> Nothing, qr |-> NoQr, total |-> Same]
Request == [pc : {"idle", "asked", "loaded"}, upd : Update, qr : 0..MaxQr,
            total : Totals \cup {Same},
            op : {"poll", "edit", "issue", "refund", "delete", "press"}]

TypeOK ==
  /\ row \in Row /\ live \in BOOLEAN
  /\ at \in [Actors -> Request]
  /\ issued \in 0..MaxQr
  /\ amount \in [1..MaxQr -> Totals]
  /\ shown \subseteq 1..MaxQr /\ lapsed \subseteq shown /\ banked \subseteq shown
  /\ vouched \in BOOLEAN

(* A quote (create_order), or a paid order a checkout became                *)
(* (_materialize_checkout), whose QR the bank has settled.                  *)
FreshQuote(t) == [status |-> "pending", pay |-> "none", khqr |-> FALSE, paidAt |-> FALSE,
                  refundedAt |-> FALSE, total |-> t, qr |-> NoQr]
PaidOrder(t)  == [status |-> "pending", pay |-> "paid", khqr |-> TRUE, paidAt |-> TRUE,
                  refundedAt |-> FALSE, total |-> t, qr |-> 1]

Init ==
  /\ live = TRUE /\ lapsed = {} /\ vouched = FALSE
  /\ \E t \in Totals :
       /\ amount = [q \in 1..MaxQr |-> t]
       /\ \/ row = FreshQuote(t) /\ issued = 0 /\ shown = {} /\ banked = {}
          \/ row = PaidOrder(t) /\ issued = 1 /\ shown = {1} /\ banked = {1}
  /\ at = [a \in Actors |-> Idle]

-----------------------------------------------------------------------------
(* The bank and the clock.                                                  *)

Settle(q) ==
  /\ q \in shown \ (lapsed \cup banked)
  /\ banked' = banked \cup {q}
  /\ UNCHANGED <<row, live, at, codes, shown, lapsed, vouched>>

Lapse(q) ==
  /\ q \in shown \ lapsed
  /\ lapsed' = lapsed \cup {q}
  /\ UNCHANGED <<row, live, at, codes, shown, banked, vouched>>

-----------------------------------------------------------------------------
(* Loading, and committing what was decided.                                *)

(* A column is in the UPDATE only when its value changed since the load. *)
Changes(old, new) == [f \in Columns |-> IF new[f] = old[f] THEN Same ELSE new[f]]

(* Mutant: a refund's date is written only if there was none. *)
LoadUnstamped(a, o, r) ==
  /\ at[a].pc = "idle" /\ live
  /\ at' = [at EXCEPT ![a] =
              [pc |-> "loaded", op |-> o, qr |-> row.qr, total |-> row.total,
               upd |-> Changes(row, r)]]

(* The first half of a request: the row is read, `r` is what the handler    *)
(* makes of it.  Time stamps are always new values, so a refund's is always *)
(* written; paid_at is never cleared, so for it that makes no difference.   *)
Load(a, o, r) ==
  /\ at[a].pc = "idle" /\ live
  /\ LET u == Changes(row, r)
     IN  at' = [at EXCEPT ![a] =
                 [pc |-> "loaded", op |-> o, qr |-> row.qr, total |-> row.total,
                  upd |-> IF o = "refund" THEN [u EXCEPT !.refundedAt = TRUE] ELSE u]]

Finish(a) == at' = [at EXCEPT ![a] = Idle]

(* What an UPDATE leaves behind: its own columns, and the others as they    *)
(* are now.                                                                 *)
Merged(u) == [f \in Columns |-> IF u[f] = Same THEN row[f] ELSE u[f]]

(* The UPDATE and the COMMIT.  The answer carries the refreshed row, so its *)
(* QR can be scanned from now on.                                           *)
Commit(a) ==
  /\ at[a].pc = "loaded" /\ at[a].op # "delete" /\ live
  /\ row' = Merged(at[a].upd)
  /\ shown' = shown \cup ({row'.qr} \ {NoQr})
  /\ vouched' = (vouched \/ (at[a].op = "edit" /\ at[a].upd.pay = "paid"))
  /\ Finish(a)
  /\ UNCHANGED <<live, codes, bank>>

(* The row was deleted in between: the UPDATE or DELETE matches nothing and *)
(* the request ends in an error.                                            *)
CommitLost(a) ==
  /\ at[a].pc = "loaded" /\ ~live
  /\ Finish(a)
  /\ UNCHANGED <<row, live, codes, shown, bank, vouched>>

CommitDelete(a) ==
  /\ at[a].pc = "loaded" /\ at[a].op = "delete" /\ live
  /\ live' = FALSE
  /\ Finish(a)
  /\ UNCHANGED <<row, codes, shown, bank, vouched>>

-----------------------------------------------------------------------------
(* GET /orders/{id}/payment-status, a coroutine.                            *)

(* The webhook has no await between its SELECT and its COMMIT. *)
LoopFree == \A a \in Bot : at[a].pc = "idle"

(* A row without a QR payment is refused; a settled one is only reported. *)
Askable == row.khqr /\ row.pay \notin Settled

PollAsk(b) ==
  /\ LoopFree /\ at[b].pc = "idle" /\ live /\ Askable
  /\ at' = [at EXCEPT ![b] = [Idle EXCEPT !.pc = "asked", !.qr = row.qr]]
  /\ UNCHANGED <<row, live, codes, shown, bank, vouched>>

(* Not confirmed, or no answer.  A row without md5 is asked about at the    *)
(* other provider, which has never heard of it.                             *)
PollNo(b) ==
  /\ LoopFree /\ at[b].pc = "asked"
  /\ Finish(b)
  /\ UNCHANGED <<row, live, codes, shown, bank, vouched>>

(* Mutant: the answer is not looked at. *)
AnyAnswer(q) == TRUE

Confirmed(q) == q \in banked

(* The row is written on the strength of what was loaded before the wait:   *)
(* payment_status and paid_at differ from that copy, nothing else does.     *)
PollYes(b) ==
  /\ LoopFree /\ at[b].pc = "asked" /\ Confirmed(at[b].qr)
  /\ row' = IF live THEN [row EXCEPT !.pay = "paid", !.paidAt = TRUE] ELSE row
  /\ Finish(b)
  /\ UNCHANGED <<live, codes, shown, bank, vouched>>

-----------------------------------------------------------------------------
(* Staff requests.                                                          *)

(* POST /orders/{id}/khqr.  A stored QR that is still payable is returned   *)
(* as it is, which changes nothing.                                         *)
IssueQr(t) ==
  /\ issued < MaxQr
  /\ row.pay \notin Settled
  /\ row.qr = NoQr \/ row.qr \in lapsed
  /\ issued' = issued + 1
  /\ amount' = [amount EXCEPT ![issued'] = row.total]
  /\ Load(t, "issue", [row EXCEPT !.qr = issued', !.khqr = TRUE, !.pay = "unpaid"])
  /\ UNCHANGED <<row, live, shown, bank, vouched>>

(* The value a body asks for, or the one there is. *)
Or(x, old) == IF x = Same THEN old ELSE x

Forward(s, r) == {s, r} \subseteq Ladder /\ Rank[s] <= Rank[r]

(* A paid order's status moves forward only, and no payment is recorded     *)
(* against a cancelled sale.                                                *)
Allowed(e) ==
  /\ row.pay = "paid" /\ e.status \notin {Same, row.status} => Forward(row.status, e.status)
  /\ ~(e.pay = "paid" /\ Or(e.status, row.status) = "cancelled")

(* Mutant: a stale QR survives an edit. *)
EditedKeepQr(e) ==
  [row EXCEPT !.status     = Or(e.status, @),
              !.pay        = Or(e.pay, @),
              !.paidAt     = @ \/ e.pay = "paid",
              !.refundedAt = @ /\ ~(row.pay = "refunded" /\ e.pay # Same),
              !.total      = Or(e.total, @)]

(* What update_order makes of the row: an undone refund loses its date, a   *)
(* recorded payment gets one, a moved total drops the QR.                   *)
Edited(e) ==
  [row EXCEPT !.status     = Or(e.status, @),
              !.pay        = Or(e.pay, @),
              !.paidAt     = @ \/ e.pay = "paid",
              !.refundedAt = @ /\ ~(row.pay = "refunded" /\ e.pay # Same),
              !.total      = Or(e.total, @),
              !.qr         = IF Or(e.total, row.total) = row.total THEN @ ELSE NoQr]

Edit(t, e) ==
  /\ Allowed(e)
  /\ Load(t, "edit", Edited(e))
  /\ UNCHANGED <<row, live, codes, shown, bank, vouched>>

(* POST /orders/{id}/refund: admins, paid orders. *)
Refund(t) ==
  /\ t \in Admins
  /\ row.pay = "paid"
  /\ Load(t, "refund", [row EXCEPT !.pay = "refunded", !.refundedAt = TRUE])
  /\ UNCHANGED <<row, live, codes, shown, bank, vouched>>

(* DELETE /orders/{id}: a settled order needs an admin. *)
Delete(t) ==
  /\ row.pay \in Settled => t \in Admins
  /\ Load(t, "delete", row)
  /\ UNCHANGED <<row, live, codes, shown, bank, vouched>>

(* The Delivered / Cancelled button in Telegram. *)
Press(a, s) ==
  /\ LoopFree
  /\ Load(a, "press", [row EXCEPT !.status = s])
  /\ UNCHANGED <<row, live, codes, shown, bank, vouched>>

-----------------------------------------------------------------------------
BankNext  == \E q \in 1..MaxQr : Settle(q) \/ Lapse(q)
PollNext  == \E b \in Tabs : PollAsk(b) \/ PollNo(b) \/ PollYes(b)
StaffNext == \E t \in Staff : \/ IssueQr(t) \/ Refund(t) \/ Delete(t)
                              \/ \E e \in Edits : Edit(t, e)
BotNext   == \E a \in Bot, s \in {"delivered", "cancelled"} : Press(a, s)
WriteNext == \E a \in Actors : Commit(a) \/ CommitLost(a) \/ CommitDelete(a)

Next == BankNext \/ PollNext \/ StaffNext \/ BotNext \/ WriteNext
Spec == Init /\ [][Next]_vars

-----------------------------------------------------------------------------
(* Columns that move together keep doing so under every overlap of          *)
(* requests: a settled row is dated, a refunded one twice, and a row with a *)
(* QR can be polled.                                                        *)
ColumnsAgree ==
  /\ row.pay \in Settled => row.paidAt
  /\ row.pay = "refunded" => row.refundedAt
  /\ row.qr # NoQr => row.khqr

(* "payment must never be confirmed on ambiguity": behind a settled row is  *)
(* a QR the bank settled or a member of staff, whoever wrote last.          *)
SettledHasEvidence == row.pay \in Settled => banked # {} \/ vouched

(* The QR on the row asks for the row's total: an edit that moves the total *)
(* drops the QR, so no customer scans the wrong sum.                        *)
(* The code does not keep it (README, section 6).                           *)
QrMatchesTotal == row.qr # NoQr => amount[row.qr] = row.total

(* A request writes a total or a QR over another one than it has read. *)
Crosses(a) ==
  /\ at[a].pc = "loaded" /\ at'[a].pc = "idle"
  /\ <<at[a].qr, at[a].total>> # <<row.qr, row.total>>

(* Whoever moves the QR or the total leaves the QR asking for the total,    *)
(* unless one of the two was moved by another since the row was read.       *)
QrFollowsTotal ==
  [][row'.qr # row.qr \/ row'.total # row.total
       => QrMatchesTotal' \/ \E a \in Staff : Crosses(a)]_vars

(* "The one thing a paid order restricts is its workflow status, which may  *)
(* only move forward" (routers/orders.py).                                  *)
(* The code does not keep it (README, section 6).                           *)
PaidMovesForward ==
  [][row.pay = "paid" /\ row'.pay = "paid" /\ row'.status # row.status
       => Forward(row.status, row'.status)]_vars

(* "money can't be recorded against a cancelled sale" (routers/orders.py,   *)
(* of the payments staff record).                                           *)
(* The code does not keep it (README, section 6).                           *)
NoMoneyAgainstCancelled ==
  [][\A t \in Staff : Commit(t) /\ at[t].upd.pay = "paid" => row'.status # "cancelled"]_vars

(* "Re-issuing a QR against it would let the customer pay a second time"    *)
(* (routers/orders.py): no QR, and no "unpaid", is put on a settled order.  *)
(* The code does not keep it (README, section 6).                           *)
NoQrOnceSettled ==
  [][\A t \in Staff : Commit(t) /\ at[t].op = "issue" => row.pay \notin Settled]_vars

(* "the payment poll must never flip it back" (routers/orders.py): only a   *)
(* staff edit leaves "refunded".                                            *)
RefundStands ==
  [][row.pay = "refunded" /\ row'.pay = "paid"
       => \E t \in Staff : at[t].op = "edit" /\ at[t].pc = "loaded" /\ at'[t].pc = "idle"]_vars
=============================================================================
