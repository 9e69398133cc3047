------------------------- MODULE OrderPaymentProofs -------------------------
(***************************************************************************)
(* Theorems about OrderPayment: what holds of the payment columns however  *)
(* many requests overlap, for every set of requests, totals and QRs.       *)
(*                                                                         *)
(* ColumnsAgree is about the row; what makes it inductive is a condition   *)
(* on every UPDATE that is still to come (Sane), which speaks of the row   *)
(* as it is now and leans on two columns that are only ever set.  The       *)
(* evidence behind a settled row needs the same of an UPDATE and of a       *)
(* question at the bank (Founded).  The QR and the total are compared by    *)
(* the request that read them; what it decides is right of what it read,    *)
(* and that is what the last of these theorems says (Following).            *)
(*                                                                         *)
(* Then the alerts of the order (OrderAlert), and the text of its QR       *)
(* (Khqr).                                                                 *)
(***************************************************************************)
EXTENDS OrderPayment, OrderAlert, Khqr, Sums, SequenceTheorems, TLAPS

(* An UPDATE that will leave the row agreeing with itself, whatever others  *)
(* commit first: a payment it records is dated, by itself or already; a     *)
(* refund is dated by itself, and the payment before it was; a refund's     *)
(* date is cleared only together with the refund.                           *)
Sane(u) ==
  /\ u.pay = "paid" => u.paidAt = TRUE \/ row.paidAt
  /\ u.pay = "refunded" => u.refundedAt = TRUE /\ row.paidAt
  /\ u.refundedAt = FALSE => u.pay \notin {Same, "refunded"}
  /\ u.paidAt # FALSE /\ u.khqr # FALSE
  /\ u.qr \notin {Same, NoQr} => u.khqr = TRUE \/ row.khqr

AllSane == \A a \in Actors : Sane(at[a].upd)

(* The inductive invariant. *)
Agreed == TypeOK /\ ColumnsAgree /\ AllSane

(* What a handler may make of the row it loaded. *)
Lawful(o, r) ==
  /\ row.paidAt => r.paidAt
  /\ row.khqr => r.khqr
  /\ r.pay = "paid" => r.paidAt
  /\ r.pay = "refunded" /\ r.pay # row.pay => o = "refund" /\ row.paidAt
  /\ row.refundedAt /\ ~r.refundedAt => r.pay # row.pay /\ r.pay # "refunded" /\ o # "refund"
  /\ r.qr # NoQr /\ r.qr # row.qr => r.khqr

Ops == {"poll", "edit", "issue", "refund", "delete", "press"}

USE DEF NoQr

-----------------------------------------------------------------------------
(* Updates, and the rows they leave behind.                                *)

LEMMA SameIsNothing ==
  /\ Same \notin {"paid", "refunded", "none", "unpaid"} /\ Same # TRUE /\ Same # FALSE /\ Same # NoQr
<1>1. Same \notin {"paid", "refunded", "none", "unpaid"}
  BY SameAssumption DEF Pays
<1>2. Same # TRUE /\ Same # FALSE
  BY SameAssumption
<1>3. Same # NoQr
  BY SameAssumption, SizesAssumption
<1> QED BY <1>1, <1>2, <1>3

LEMMA NothingOK == Nothing \in Update /\ Sane(Nothing) /\ Idle \in Request
<1>1. Nothing \in Update
  BY DEF Nothing, Update
<1>2. Sane(Nothing)
  BY SameIsNothing DEF Nothing, Sane
<1>3. Idle \in Request
  BY <1>1, SizesAssumption DEF Idle, Request
<1> QED BY <1>1, <1>2, <1>3

LEMMA MergedOK ==
  ASSUME NEW u \in Update, row \in Row
  PROVE  /\ Merged(u) \in Row
         /\ Merged(u).pay = IF u.pay = Same THEN row.pay ELSE u.pay
         /\ Merged(u).paidAt = IF u.paidAt = Same THEN row.paidAt ELSE u.paidAt
         /\ Merged(u).refundedAt = IF u.refundedAt = Same THEN row.refundedAt ELSE u.refundedAt
         /\ Merged(u).khqr = IF u.khqr = Same THEN row.khqr ELSE u.khqr
         /\ Merged(u).qr = IF u.qr = Same THEN row.qr ELSE u.qr
BY DEF Merged, Row, Update, Columns

LEMMA ChangesOK ==
  ASSUME NEW old \in Row, NEW new \in Row
  PROVE  /\ Changes(old, new) \in Update
         /\ Changes(old, new).pay = IF new.pay = old.pay THEN Same ELSE new.pay
         /\ Changes(old, new).paidAt = IF new.paidAt = old.paidAt THEN Same ELSE new.paidAt
         /\ Changes(old, new).refundedAt =
              IF new.refundedAt = old.refundedAt THEN Same ELSE new.refundedAt
         /\ Changes(old, new).khqr = IF new.khqr = old.khqr THEN Same ELSE new.khqr
         /\ Changes(old, new).qr = IF new.qr = old.qr THEN Same ELSE new.qr
BY DEF Changes, Row, Update, Columns

(* Loading keeps the invariant when the handler's decision is lawful. *)
LEMMA LoadOK ==
  ASSUME Agreed, NEW a \in Actors, NEW o \in Ops, NEW r \in Row, Lawful(o, r), Load(a, o, r),
         row' = row
  PROVE  at' \in [Actors -> Request] /\ AllSane'
<1> DEFINE c == Changes(row, r)
           u == IF o = "refund" THEN [c EXCEPT !.refundedAt = TRUE] ELSE c
           s == [pc |-> "loaded", op |-> o, qr |-> row.qr, total |-> row.total, upd |-> u]
<1>1. row \in Row /\ at \in [Actors -> Request]
  BY DEF Agreed, TypeOK
<1>2. at' = [at EXCEPT ![a] = s]
  BY DEF Load
<1>3. c \in Update
  BY <1>1, ChangesOK
<1>4. u \in Update /\ u.pay = c.pay /\ u.paidAt = c.paidAt /\ u.khqr = c.khqr /\ u.qr = c.qr
      /\ u.refundedAt = IF o = "refund" THEN TRUE ELSE c.refundedAt
  BY <1>3 DEF Update
<1>5. s \in Request
  BY <1>1, <1>4 DEF Request, Row, Ops
<1>6. Sane(u)
  <2>0. /\ row.paidAt \in BOOLEAN /\ row.refundedAt \in BOOLEAN /\ row.khqr \in BOOLEAN
        /\ r.paidAt \in BOOLEAN /\ r.refundedAt \in BOOLEAN /\ r.khqr \in BOOLEAN
    BY <1>1 DEF Row
  <2>1. u.pay = "paid" => u.paidAt = TRUE \/ row.paidAt
    BY <1>1, <1>4, <2>0, ChangesOK, SameIsNothing DEF Lawful
  <2>2. u.pay = "refunded" => u.refundedAt = TRUE /\ row.paidAt
    BY <1>1, <1>4, <2>0, ChangesOK, SameIsNothing DEF Lawful
  <2>3. u.refundedAt = FALSE => u.pay \notin {Same, "refunded"}
    <3>1. r.pay # Same
      BY SameAssumption DEF Row
    <3>2. SUFFICES ASSUME u.refundedAt = FALSE PROVE u.pay \notin {Same, "refunded"}
      OBVIOUS
    <3>3. o # "refund" /\ c.refundedAt = FALSE
      BY <1>4, <3>2
    <3>4. c.refundedAt = IF r.refundedAt = row.refundedAt THEN Same ELSE r.refundedAt
      BY <1>1, ChangesOK
    <3>5. r.refundedAt # row.refundedAt /\ r.refundedAt = FALSE
      BY <3>3, <3>4, SameIsNothing
    <3>6. row.refundedAt /\ ~r.refundedAt
      BY <2>0, <3>5
    <3>7. r.pay # row.pay /\ r.pay # "refunded"
      BY <3>6 DEF Lawful
    <3>8. u.pay = r.pay
      BY <1>1, <1>4, <3>7, ChangesOK
    <3> QED BY <3>1, <3>7, <3>8
  <2>4. u.paidAt # FALSE /\ u.khqr # FALSE
    <3>1. u.paidAt = IF r.paidAt = row.paidAt THEN Same ELSE r.paidAt
      BY <1>1, <1>4, ChangesOK
    <3>2. u.khqr = IF r.khqr = row.khqr THEN Same ELSE r.khqr
      BY <1>1, <1>4, ChangesOK
    <3>3. r.paidAt = FALSE => r.paidAt = row.paidAt
      BY <2>0 DEF Lawful
    <3>4. r.khqr = FALSE => r.khqr = row.khqr
      BY <2>0 DEF Lawful
    <3>5. ASSUME u.paidAt = FALSE PROVE FALSE
      BY <3>1, <3>3, <3>5, SameIsNothing
    <3>6. ASSUME u.khqr = FALSE PROVE FALSE
      BY <3>2, <3>4, <3>6, SameIsNothing
    <3> QED BY <3>5, <3>6
  <2>5. u.qr \notin {Same, NoQr} => u.khqr = TRUE \/ row.khqr
    BY <1>1, <1>4, <2>0, ChangesOK, SameIsNothing DEF Lawful
  <2> QED BY <2>1, <2>2, <2>3, <2>4, <2>5 DEF Sane
<1>7. at' \in [Actors -> Request]
  BY <1>1, <1>2, <1>5
<1>8. ASSUME NEW b \in Actors PROVE Sane(at[b].upd)'
  <2>1. CASE b = a
    <3>1. at'[b].upd = u
      BY <1>1, <1>2, <2>1
    <3> QED BY <1>6, <3>1 DEF Sane
  <2>2. CASE b # a
    <3>1. at'[b] = at[b] /\ Sane(at[b].upd)
      BY <1>1, <1>2, <2>2 DEF Agreed, AllSane
    <3> QED BY <3>1 DEF Sane
  <2> QED BY <2>1, <2>2
<1> QED BY <1>7, <1>8 DEF AllSane

(* A session that ends has nothing left to write, and the columns that are  *)
(* only ever set keep every other UPDATE sane.                              *)
LEMMA FinishOK ==
  ASSUME Agreed, NEW a \in Actors, Finish(a),
         row.paidAt => row'.paidAt, row.khqr => row'.khqr
  PROVE  at' \in [Actors -> Request] /\ AllSane'
<1>1. at \in [Actors -> Request]
  BY DEF Agreed, TypeOK
<1>2. at' = [at EXCEPT ![a] = Idle]
  BY DEF Finish
<1>3. ASSUME NEW b \in Actors PROVE Sane(at[b].upd)'
  <2>1. CASE b = a
    <3>1. at'[b].upd = Nothing
      BY <1>1, <1>2, <2>1 DEF Idle
    <3>2. Sane(Nothing)'
      BY SameIsNothing DEF Sane, Nothing
    <3> QED BY <3>1, <3>2 DEF Sane
  <2>2. CASE b # a
    <3>1. at'[b] = at[b] /\ Sane(at[b].upd)
      BY <1>1, <1>2, <2>2 DEF Agreed, AllSane
    <3> QED BY <3>1 DEF Sane
  <2> QED BY <2>1, <2>2
<1> QED BY <1>1, <1>2, <1>3, NothingOK DEF AllSane

-----------------------------------------------------------------------------
(* The initial states and the bank.                                        *)

LEMMA InitOK == Init => Agreed
<1> SUFFICES ASSUME Init PROVE Agreed
  OBVIOUS
<1>1. PICK t \in Totals :
        /\ amount = [q \in 1..MaxQr |-> t]
        /\ \/ row = FreshQuote(t) /\ issued = 0 /\ shown = {} /\ banked = {}
           \/ row = PaidOrder(t) /\ issued = 1 /\ shown = {1} /\ banked = {1}
  BY DEF Init
<1>2. 1 \in 1..MaxQr /\ 0 \in 0..MaxQr /\ 1 \in 0..MaxQr
  BY SizesAssumption
<1>3. FreshQuote(t) \in Row /\ PaidOrder(t) \in Row
  BY <1>2 DEF FreshQuote, PaidOrder, Row, Statuses, Ladder, Pays
<1>4. TypeOK
  <2>1. at \in [Actors -> Request]
    BY NothingOK DEF Init
  <2>2. row \in Row /\ issued \in 0..MaxQr /\ amount \in [1..MaxQr -> Totals]
    BY <1>1, <1>2, <1>3
  <2>3. shown \subseteq 1..MaxQr /\ banked \subseteq shown
    BY <1>1, <1>2
  <2> QED BY <2>1, <2>2, <2>3 DEF Init, TypeOK
<1>5. ColumnsAgree
  BY <1>1 DEF ColumnsAgree, Settled, FreshQuote, PaidOrder
<1>6. AllSane
  BY NothingOK DEF Init, AllSane, Idle
<1> QED BY <1>4, <1>5, <1>6 DEF Agreed

(* Steps that leave the row and the requests alone. *)
LEMMA AsideOK ==
  ASSUME Agreed, TypeOK', UNCHANGED <<row, at>>
  PROVE  Agreed'
BY DEF Agreed, ColumnsAgree, AllSane, Sane

LEMMA BankOK == ASSUME Agreed, BankNext PROVE Agreed'
<1>1. PICK q \in 1..MaxQr : Settle(q) \/ Lapse(q)
  BY DEF BankNext
<1>2. TypeOK'
  BY <1>1 DEF Agreed, TypeOK, Settle, Lapse, codes
<1> QED BY <1>1, <1>2, AsideOK DEF Settle, Lapse

-----------------------------------------------------------------------------
(* The polls.                                                              *)

LEMMA PollOK == ASSUME Agreed, NEW b \in Tabs, PollAsk(b) \/ PollNo(b) \/ PollYes(b) PROVE Agreed'
<1>0. b \in Actors /\ TypeOK /\ ColumnsAgree /\ AllSane
  BY DEF Actors, Agreed
<1>1. CASE PollAsk(b)
  <2> DEFINE s == [Idle EXCEPT !.pc = "asked", !.qr = row.qr]
  <2>1. s \in Request /\ s.upd = Nothing
    BY <1>0, NothingOK DEF TypeOK, Row, Request, Idle
  <2>2. at' = [at EXCEPT ![b] = s] /\ row' = row
    BY <1>1 DEF PollAsk
  <2>3. at' \in [Actors -> Request]
    BY <1>0, <2>1, <2>2 DEF TypeOK
  <2>4. ASSUME NEW a \in Actors PROVE at'[a].upd = at[a].upd \/ at'[a].upd = Nothing
    BY <1>0, <2>1, <2>2 DEF TypeOK
  <2>5. Sane(Nothing)'
    BY SameIsNothing DEF Sane, Nothing
  <2>6. AllSane'
    BY <1>0, <2>2, <2>4, <2>5 DEF AllSane, Sane
  <2>7. TypeOK'
    BY <1>0, <1>1, <2>3 DEF TypeOK, PollAsk, codes, bank
  <2> QED BY <1>0, <2>2, <2>6, <2>7 DEF Agreed, ColumnsAgree
<1>2. CASE PollNo(b)
  <2>1. at' \in [Actors -> Request] /\ AllSane'
    BY <1>0, <1>2, FinishOK DEF PollNo
  <2>2. TypeOK'
    BY <1>0, <1>2, <2>1 DEF TypeOK, PollNo, codes, bank
  <2> QED BY <1>0, <1>2, <2>1, <2>2 DEF Agreed, ColumnsAgree, PollNo
<1>3. CASE PollYes(b)
  <2> DEFINE r == [row EXCEPT !.pay = "paid", !.paidAt = TRUE]
  <2>1. row \in Row /\ (row' = r \/ row' = row)
    BY <1>0, <1>3 DEF PollYes, TypeOK
  <2>2. r \in Row /\ r.pay = "paid" /\ r.paidAt = TRUE /\ r.khqr = row.khqr /\ r.qr = row.qr
    BY <2>1 DEF Row, Pays
  <2>3. row' \in Row
    BY <2>1, <2>2
  <2>4. /\ row.paidAt => row'.paidAt
        /\ row.khqr => row'.khqr
    BY <2>1, <2>2
  <2>5. at' \in [Actors -> Request] /\ AllSane'
    BY <1>0, <1>3, <2>4, FinishOK DEF PollYes
  <2>6. UNCHANGED <<live, issued, amount, shown, lapsed, banked, vouched>>
    BY <1>3 DEF PollYes, codes, bank
  <2>7. TypeOK'
    BY <1>0, <2>3, <2>5, <2>6 DEF TypeOK
  <2>8. ColumnsAgree'
    <3>1. CASE row' = row
      BY <1>0, <3>1 DEF ColumnsAgree
    <3>2. CASE row' = r
      <4>1. row'.pay = "paid" /\ row'.paidAt = TRUE /\ row'.khqr = row.khqr /\ row'.qr = row.qr
        BY <2>2, <3>2
      <4> QED BY <1>0, <4>1 DEF ColumnsAgree
    <3> QED BY <2>1, <3>1, <3>2
  <2> QED BY <2>5, <2>7, <2>8 DEF Agreed
<1> QED BY <1>1, <1>2, <1>3

-----------------------------------------------------------------------------
(* Requests that load.                                                     *)

LEMMA LoadedOK ==
  ASSUME Agreed, NEW a \in Actors, NEW o \in Ops, NEW r \in Row, Lawful(o, r), Load(a, o, r),
         issued' \in 0..MaxQr, amount' \in [1..MaxQr -> Totals],
         UNCHANGED <<row, live, shown, bank, vouched>>
  PROVE  Agreed'
<1>1. at' \in [Actors -> Request] /\ AllSane'
  BY LoadOK
<1>2. TypeOK'
  BY <1>1 DEF Agreed, TypeOK, bank
<1> QED BY <1>1, <1>2 DEF Agreed, ColumnsAgree

LEMMA IssueOK == ASSUME Agreed, NEW t \in Staff, IssueQr(t) PROVE Agreed'
<1> DEFINE n == issued + 1
           r == [row EXCEPT !.qr = n, !.khqr = TRUE, !.pay = "unpaid"]
<1>1. row \in Row /\ n \in 1..MaxQr /\ t \in Actors
  BY SizesAssumption DEF Agreed, TypeOK, IssueQr, Actors
<1>2. r \in Row
  <2>1. n \in 0..MaxQr
    BY <1>1, SizesAssumption
  <2> HIDE DEF n
  <2> QED BY <1>1, <2>1 DEF Row, Pays
<1>3. Lawful("issue", r)
  BY <1>1 DEF Lawful, Row, IssueQr, Settled, Agreed, ColumnsAgree
<1>4. issued' = n /\ amount' \in [1..MaxQr -> Totals] /\ Load(t, "issue", r)
  BY <1>1 DEF IssueQr, Agreed, TypeOK, Row
<1> QED BY <1>1, <1>2, <1>3, <1>4, LoadedOK DEF IssueQr, Ops

LEMMA EditedTyped == ASSUME row \in Row, NEW e \in Edits PROVE Edited(e) \in Row
<1>1. /\ Or(e.status, row.status) \in Statuses /\ Or(e.pay, row.pay) \in Pays
      /\ Or(e.total, row.total) \in Totals
      /\ (IF Or(e.total, row.total) = row.total THEN row.qr ELSE NoQr) \in 0..MaxQr
  BY SizesAssumption DEF Edits, Row, Or, Pays
<1> QED BY <1>1 DEF Edited, Row

LEMMA EditOK == ASSUME Agreed, NEW t \in Staff, NEW e \in Edits, Edit(t, e) PROVE Agreed'
<1> DEFINE r == Edited(e)
<1>1. row \in Row /\ t \in Actors /\ ColumnsAgree
  BY DEF Agreed, TypeOK, Actors
<1>2. /\ r.pay = Or(e.pay, row.pay) /\ r.paidAt = (row.paidAt \/ e.pay = "paid")
      /\ r.refundedAt = (row.refundedAt /\ ~(row.pay = "refunded" /\ e.pay # Same))
      /\ r.khqr = row.khqr
      /\ r.qr = IF Or(e.total, row.total) = row.total THEN row.qr ELSE NoQr
  BY <1>1 DEF Edited, Row
<1>3. r \in Row
  BY <1>1, EditedTyped
<1>4. Lawful("edit", r)
  <2>1. row.paidAt => r.paidAt
    BY <1>2
  <2>2. r.pay = "paid" => r.paidAt
    BY <1>1, <1>2 DEF ColumnsAgree, Settled, Or
  <2>3. ~(r.pay = "refunded" /\ r.pay # row.pay)
    BY <1>2 DEF Or, Edits
  <2>4. row.refundedAt /\ ~r.refundedAt => r.pay # row.pay /\ r.pay # "refunded"
    BY <1>1, <1>2 DEF Or, Edits
  <2>5. ~(r.qr # NoQr /\ r.qr # row.qr)
    BY <1>2
  <2> QED BY <1>2, <2>1, <2>2, <2>3, <2>4, <2>5 DEF Lawful
<1>5. Load(t, "edit", r) /\ UNCHANGED <<row, live, issued, amount, shown, bank, vouched>>
  BY DEF Edit, codes
<1> HIDE DEF r
<1>6. issued' \in 0..MaxQr /\ amount' \in [1..MaxQr -> Totals]
  BY <1>5 DEF Agreed, TypeOK
<1> QED BY <1>1, <1>3, <1>4, <1>5, <1>6, LoadedOK DEF Ops

LEMMA RefundOK == ASSUME Agreed, NEW t \in Staff, Refund(t) PROVE Agreed'
<1> DEFINE r == [row EXCEPT !.pay = "refunded", !.refundedAt = TRUE]
<1>1. row \in Row /\ t \in Actors /\ row.pay = "paid" /\ row.paidAt
  BY DEF Agreed, TypeOK, Actors, Refund, ColumnsAgree, Settled
<1>2. r \in Row /\ r.pay = "refunded" /\ r.refundedAt /\ r.paidAt = row.paidAt
      /\ r.khqr = row.khqr /\ r.qr = row.qr
  BY <1>1 DEF Row, Pays
<1>3. Lawful("refund", r)
  BY <1>1, <1>2 DEF Lawful
<1>4. Load(t, "refund", r) /\ UNCHANGED <<row, live, issued, amount, shown, bank, vouched>>
  BY DEF Refund, codes
<1>5. issued' \in 0..MaxQr /\ amount' \in [1..MaxQr -> Totals]
  BY <1>4 DEF Agreed, TypeOK
<1> QED BY <1>1, <1>2, <1>3, <1>4, <1>5, LoadedOK DEF Ops

LEMMA DeleteOK == ASSUME Agreed, NEW t \in Staff, Delete(t) PROVE Agreed'
<1>1. row \in Row /\ t \in Actors /\ Lawful("delete", row)
  BY DEF Agreed, TypeOK, Actors, ColumnsAgree, Settled, Lawful
<1>2. Load(t, "delete", row) /\ UNCHANGED <<row, live, issued, amount, shown, bank, vouched>>
  BY DEF Delete, codes
<1>3. issued' \in 0..MaxQr /\ amount' \in [1..MaxQr -> Totals]
  BY <1>2 DEF Agreed, TypeOK
<1> QED BY <1>1, <1>2, <1>3, LoadedOK DEF Ops

LEMMA PressOK ==
  ASSUME Agreed, NEW a \in Bot, NEW s \in {"delivered", "cancelled"}, Press(a, s) PROVE Agreed'
<1> DEFINE r == [row EXCEPT !.status = s]
<1>1. row \in Row /\ a \in Actors /\ ColumnsAgree
  BY DEF Agreed, TypeOK, Actors
<1>2. r \in Row /\ r.pay = row.pay /\ r.paidAt = row.paidAt /\ r.refundedAt = row.refundedAt
      /\ r.khqr = row.khqr /\ r.qr = row.qr
  BY <1>1 DEF Row, Statuses, Ladder
<1>3. Lawful("press", r)
  BY <1>1, <1>2 DEF Lawful, ColumnsAgree, Settled
<1>4. Load(a, "press", r) /\ UNCHANGED <<row, live, issued, amount, shown, bank, vouched>>
  BY DEF Press, codes
<1>5. issued' \in 0..MaxQr /\ amount' \in [1..MaxQr -> Totals]
  BY <1>4 DEF Agreed, TypeOK
<1> QED BY <1>1, <1>2, <1>3, <1>4, <1>5, LoadedOK DEF Ops

-----------------------------------------------------------------------------
(* Commits.                                                                *)

LEMMA CommitOK == ASSUME Agreed, NEW a \in Actors, Commit(a) PROVE Agreed'
<1> DEFINE u == at[a].upd
<1>1. row \in Row /\ u \in Update /\ Sane(u) /\ ColumnsAgree
  BY DEF Agreed, TypeOK, Request, AllSane
<1>2. row' = Merged(u)
  BY DEF Commit
<1> HIDE DEF u
<1>3. /\ row' \in Row
      /\ row'.pay = IF u.pay = Same THEN row.pay ELSE u.pay
      /\ row'.paidAt = IF u.paidAt = Same THEN row.paidAt ELSE u.paidAt
      /\ row'.refundedAt = IF u.refundedAt = Same THEN row.refundedAt ELSE u.refundedAt
      /\ row'.khqr = IF u.khqr = Same THEN row.khqr ELSE u.khqr
      /\ row'.qr = IF u.qr = Same THEN row.qr ELSE u.qr
  BY <1>1, <1>2, MergedOK
<1>4. u.paidAt \in {TRUE, Same} /\ u.khqr \in {TRUE, Same}
  BY <1>1 DEF Sane, Update
<1>5. row.paidAt => row'.paidAt
  BY <1>3, <1>4, SameIsNothing
<1>6. row.khqr => row'.khqr
  BY <1>3, <1>4, SameIsNothing
<1>7. at' \in [Actors -> Request] /\ AllSane'
  BY <1>5, <1>6, FinishOK DEF Commit
<1>8. ColumnsAgree'
  <2>1. row'.pay = "paid" => row'.paidAt
    BY <1>1, <1>3, <1>4, <1>5, SameIsNothing DEF Sane, ColumnsAgree, Settled
  <2>2. row'.pay = "refunded" => row'.paidAt
    BY <1>1, <1>3, <1>5, SameIsNothing DEF Sane, ColumnsAgree, Settled
  <2>3. row'.pay = "refunded" => row'.refundedAt
    <3>1. CASE u.pay = Same
      <4>1. u.refundedAt \in {TRUE, Same}
        BY <1>1, <3>1 DEF Sane, Update
      <4> QED BY <1>1, <1>3, <3>1, <4>1 DEF ColumnsAgree
    <3>2. CASE u.pay # Same
      BY <1>1, <1>3, <3>2, SameIsNothing DEF Sane
    <3> QED BY <3>1, <3>2
  <2>4. row'.qr # NoQr => row'.khqr
    BY <1>1, <1>3, <1>4, <1>6, SameIsNothing DEF Sane, ColumnsAgree
  <2> QED BY <2>1, <2>2, <2>3, <2>4 DEF ColumnsAgree, Settled
<1>9. TypeOK'
  <2>1. shown' \subseteq 1..MaxQr /\ shown \subseteq shown'
    <3>1. row'.qr \in 0..MaxQr /\ shown' = shown \cup ({row'.qr} \ {NoQr})
      BY <1>3 DEF Commit, Row
    <3>2. shown \subseteq 1..MaxQr /\ {row'.qr} \ {NoQr} \subseteq 1..MaxQr
      BY <3>1, SizesAssumption DEF Agreed, TypeOK
    <3> QED BY <3>1, <3>2
  <2>2. vouched' \in BOOLEAN
    BY DEF Commit, Agreed, TypeOK
  <2>3. UNCHANGED <<live, issued, amount, lapsed, banked>>
    BY DEF Commit, codes, bank
  <2> QED BY <1>3, <1>7, <2>1, <2>2, <2>3 DEF Agreed, TypeOK
<1> QED BY <1>7, <1>8, <1>9 DEF Agreed

LEMMA GoneOK == ASSUME Agreed, NEW a \in Actors, CommitLost(a) \/ CommitDelete(a) PROVE Agreed'
<1>1. Finish(a) /\ UNCHANGED <<row, codes, shown, bank, vouched>> /\ live' \in BOOLEAN
  BY DEF CommitLost, CommitDelete, Agreed, TypeOK
<1>2. at' \in [Actors -> Request] /\ AllSane'
  BY <1>1, FinishOK
<1>3. TypeOK'
  BY <1>1, <1>2 DEF Agreed, TypeOK, codes, bank
<1> QED BY <1>1, <1>2, <1>3 DEF Agreed, ColumnsAgree

-----------------------------------------------------------------------------
(* The theorems.                                                           *)

LEMMA AgreedStep == Agreed /\ [Next]_vars => Agreed'
<1> SUFFICES ASSUME Agreed, [Next]_vars PROVE Agreed'
  OBVIOUS
<1>1. CASE BankNext
  BY <1>1, BankOK
<1>2. CASE PollNext
  BY <1>2, PollOK DEF PollNext
<1>3. CASE StaffNext
  BY <1>3, IssueOK, RefundOK, DeleteOK, EditOK DEF StaffNext
<1>4. CASE BotNext
  BY <1>4, PressOK DEF BotNext
<1>5. CASE WriteNext
  BY <1>5, CommitOK, GoneOK DEF WriteNext
<1>6. CASE UNCHANGED vars
  <2>1. TypeOK'
    BY <1>6 DEF vars, codes, bank, Agreed, TypeOK
  <2> QED BY <1>6, <2>1, AsideOK DEF vars
<1> QED BY <1>1, <1>2, <1>3, <1>4, <1>5, <1>6 DEF Next

LEMMA AlwaysAgreed == Spec => []Agreed
BY InitOK, AgreedStep, PTL DEF Spec

(* Every column, UPDATE and bank record keeps its type. *)
THEOREM TypeCorrect == Spec => []TypeOK
<1>1. Agreed => TypeOK
  BY DEF Agreed
<1> QED BY <1>1, AlwaysAgreed, PTL

(* However many edits, refunds, QR requests, polls and button presses       *)
(* overlap, each writing only the columns it changed, a settled row is      *)
(* dated, a refunded one carries its refund date, and a row with a QR can   *)
(* be polled.                                                               *)
THEOREM ColumnsAlwaysAgree == Spec => []ColumnsAgree
<1>1. Agreed => ColumnsAgree
  BY DEF Agreed
<1> QED BY <1>1, AlwaysAgreed, PTL

-----------------------------------------------------------------------------
(* Evidence.                                                               *)

Evidence == banked # {} \/ vouched

(* Only an edit records a payment by hand, and a refund that is still to be *)
(* written was decided on a row that had evidence already.                  *)
Founded ==
  \A a \in Actors :
    /\ at[a].upd.pay = "paid" => at[a].op = "edit"
    /\ at[a].upd.pay = "refunded" => Evidence

Proven == Agreed /\ SettledHasEvidence /\ Founded

(* Evidence is not taken away, and requests that end write nothing.         *)
LEMMA EvidenceStays == ASSUME Agreed, [Next]_vars, Evidence PROVE Evidence'
<1>1. CASE BankNext
  BY <1>1 DEF BankNext, Settle, Lapse, Evidence
<1>2. CASE PollNext
  BY <1>2 DEF PollNext, PollAsk, PollNo, PollYes, Evidence, bank
<1>3. CASE StaffNext
  BY <1>3 DEF StaffNext, IssueQr, Edit, Refund, Delete, Evidence, bank
<1>4. CASE BotNext
  BY <1>4 DEF BotNext, Press, Evidence, bank
<1>5. CASE WriteNext
  <2>1. PICK a \in Actors : Commit(a) \/ CommitLost(a) \/ CommitDelete(a)
    BY <1>5 DEF WriteNext
  <2>2. banked' = banked
    BY <2>1 DEF Commit, CommitLost, CommitDelete, bank
  <2>3. CASE Commit(a)
    <3>1. vouched => vouched'
      BY <2>3, Zenon DEF Commit
    <3> QED BY <2>2, <3>1 DEF Evidence
  <2>4. CASE CommitLost(a) \/ CommitDelete(a)
    BY <2>2, <2>4 DEF CommitLost, CommitDelete, Evidence
  <2> QED BY <2>1, <2>3, <2>4
<1>6. CASE UNCHANGED vars
  BY <1>6 DEF vars, bank, Evidence
<1> QED BY <1>1, <1>2, <1>3, <1>4, <1>5, <1>6 DEF Next

LEMMA FinishFounded ==
  ASSUME Proven, [Next]_vars, NEW a \in Actors, Finish(a) PROVE Founded'
<1>1. at \in [Actors -> Request] /\ at' = [at EXCEPT ![a] = Idle]
  BY DEF Proven, Agreed, TypeOK, Finish
<1>2. Idle.upd.pay = Same
  BY DEF Idle, Nothing
<1>3. ASSUME NEW b \in Actors
      PROVE  /\ at'[b].upd.pay = "paid" => at'[b].op = "edit"
             /\ at'[b].upd.pay = "refunded" => Evidence'
  BY <1>1, <1>2, <1>3, SameIsNothing, EvidenceStays DEF Proven, Founded
<1> QED BY <1>3 DEF Founded

LEMMA LoadFounded ==
  ASSUME Proven, [Next]_vars, NEW a \in Actors, NEW o \in Ops, NEW r \in Row, Load(a, o, r),
         r.pay = "paid" /\ r.pay # row.pay => o = "edit",
         r.pay = "refunded" => row.pay \in Settled
  PROVE  Founded'
<1> DEFINE c == Changes(row, r)
           u == IF o = "refund" THEN [c EXCEPT !.refundedAt = TRUE] ELSE c
<1>1. row \in Row /\ at \in [Actors -> Request]
  BY DEF Proven, Agreed, TypeOK
<1>2. c \in Update /\ c.pay = IF r.pay = row.pay THEN Same ELSE r.pay
  BY <1>1, ChangesOK
<1> HIDE DEF c
<1>3. u.pay = c.pay
  BY <1>2 DEF Update
<1>4. at' = [at EXCEPT ![a] = [pc |-> "loaded", op |-> o, qr |-> row.qr, total |-> row.total, upd |-> u]]
  BY DEF Load, c
<1> HIDE DEF u
<1>5. u.pay = "refunded" => Evidence
  BY <1>2, <1>3, SameIsNothing DEF Proven, SettledHasEvidence, Evidence
<1>6. ASSUME NEW b \in Actors
      PROVE  /\ at'[b].upd.pay = "paid" => at'[b].op = "edit"
             /\ at'[b].upd.pay = "refunded" => Evidence'
  <2>1. CASE b = a
    <3>1. at'[b].upd = u /\ at'[b].op = o
      BY <1>1, <1>4, <2>1
    <3>2. u.pay = "paid" => o = "edit"
      BY <1>2, <1>3, SameIsNothing
    <3> QED BY <1>5, <3>1, <3>2, EvidenceStays DEF Proven
  <2>2. CASE b # a
    BY <1>1, <1>4, <2>2, EvidenceStays DEF Proven, Founded
  <2> QED BY <2>1, <2>2
<1> QED BY <1>6 DEF Founded

LEMMA CommitProven ==
  ASSUME Proven, [Next]_vars, NEW a \in Actors, Commit(a)
  PROVE  SettledHasEvidence' /\ Founded'
<1> DEFINE u == at[a].upd
<1>1. row \in Row /\ u \in Update /\ row' = Merged(u)
  BY DEF Proven, Agreed, TypeOK, Request, Commit
<1>2. row'.pay = IF u.pay = Same THEN row.pay ELSE u.pay
  BY <1>1, MergedOK
<1>3. u.pay = "paid" => vouched'
  BY DEF Proven, Founded, Commit
<1>4. u.pay = "refunded" => Evidence'
  BY EvidenceStays DEF Proven, Founded
<1>5. row.pay \in Settled => Evidence'
  BY EvidenceStays DEF Proven, SettledHasEvidence, Evidence
<1>6. SettledHasEvidence'
  BY <1>2, <1>3, <1>4, <1>5 DEF SettledHasEvidence, Settled, Evidence
<1> QED BY <1>6, FinishFounded DEF Commit

LEMMA ProvenStep == Proven /\ [Next]_vars => Proven'
<1> SUFFICES ASSUME Proven, [Next]_vars PROVE SettledHasEvidence' /\ Founded'
  BY AgreedStep DEF Proven
<1> DEFINE Kept == SettledHasEvidence' /\ Founded'
<1>0. row' = row => SettledHasEvidence'
  BY EvidenceStays DEF Proven, SettledHasEvidence, Evidence
<1>1. at' = at => Founded'
  BY EvidenceStays DEF Proven, Founded
<1>2. row \in Row /\ Actors = Tabs \cup Staff \cup Bot
  BY DEF Proven, Agreed, TypeOK, Actors
<1>3. CASE BankNext
  BY <1>0, <1>1, <1>3 DEF BankNext, Settle, Lapse
<1>4. ASSUME NEW b \in Tabs, PollAsk(b) PROVE Kept
  <2>1. at \in [Actors -> Request]
    BY DEF Proven, Agreed, TypeOK
  <2>2. at' = [at EXCEPT ![b] = [Idle EXCEPT !.pc = "asked", !.qr = row.qr]]
    BY <1>4 DEF PollAsk
  <2>3. at'[b].upd.pay = Same
    BY <1>2, <2>1, <2>2 DEF Idle, Nothing
  <2>4. Founded'
    BY <1>2, <2>1, <2>2, <2>3, SameIsNothing, EvidenceStays DEF Proven, Founded
  <2> QED BY <1>0, <1>4, <2>4 DEF PollAsk
<1>5. ASSUME NEW b \in Tabs, PollNo(b) \/ PollYes(b) PROVE Kept
  <2>1. Founded'
    BY <1>2, <1>5, FinishFounded DEF PollNo, PollYes
  <2>2. CASE PollYes(b)
    <3>1. banked' # {}
      BY <2>2 DEF PollYes, Confirmed, bank
    <3> QED BY <2>1, <3>1 DEF SettledHasEvidence
  <2> QED BY <1>0, <1>5, <2>1, <2>2 DEF PollNo
<1>6. ASSUME NEW t \in Staff, IssueQr(t) PROVE Kept
  <2> DEFINE r == [row EXCEPT !.qr = issued', !.khqr = TRUE, !.pay = "unpaid"]
  <2>1. r \in Row /\ r.pay = "unpaid"
    <3>1. issued' \in 0..MaxQr
      BY AgreedStep DEF Proven, Agreed, TypeOK
    <3> QED BY <1>2, <3>1 DEF Row, Pays
  <2> QED BY <1>0, <1>2, <1>6, <2>1, LoadFounded DEF IssueQr, Ops
<1>7. ASSUME NEW t \in Staff, NEW e \in Edits, Edit(t, e) PROVE Kept
  <2>1. Edited(e) \in Row
    BY <1>2, EditedTyped
  <2>2. Edited(e).pay = Or(e.pay, row.pay)
    BY <1>2 DEF Edited, Row
  <2>3. Edited(e).pay = "refunded" => row.pay \in Settled
    BY <2>2 DEF Or, Edits, Settled
  <2> HIDE DEF Edited
  <2> QED BY <1>0, <1>2, <1>7, <2>1, <2>3, LoadFounded DEF Edit, Ops
<1>8. ASSUME NEW t \in Staff, Refund(t) PROVE Kept
  <2> DEFINE r == [row EXCEPT !.pay = "refunded", !.refundedAt = TRUE]
  <2>1. r \in Row /\ r.pay = "refunded" /\ row.pay \in Settled
    BY <1>2, <1>8 DEF Row, Pays, Refund, Settled
  <2> QED BY <1>0, <1>2, <1>8, <2>1, LoadFounded DEF Refund, Ops
<1>9. ASSUME NEW t \in Staff, Delete(t) PROVE Kept
  BY <1>0, <1>2, <1>9, LoadFounded DEF Delete, Ops, Settled
<1>10. ASSUME NEW a \in Bot, NEW s \in {"delivered", "cancelled"}, Press(a, s) PROVE Kept
  <2> DEFINE r == [row EXCEPT !.status = s]
  <2>1. r \in Row /\ r.pay = row.pay
    BY <1>2 DEF Row, Statuses, Ladder
  <2> QED BY <1>0, <1>2, <1>10, <2>1, LoadFounded DEF Press, Ops, Settled
<1>11. ASSUME NEW a \in Actors, CommitLost(a) \/ CommitDelete(a) PROVE Kept
  BY <1>0, <1>11, FinishFounded DEF CommitLost, CommitDelete
<1>12. CASE UNCHANGED vars
  BY <1>0, <1>1, <1>12 DEF vars
<1> QED
  BY <1>3, <1>4, <1>5, <1>6, <1>7, <1>8, <1>9, <1>10, <1>11, <1>12, CommitProven
     DEF Next, PollNext, StaffNext, BotNext, WriteNext

(* Whoever overlaps with whom, a row that says paid or refunded has the     *)
(* bank's settlement of one of its QRs behind it, or a member of staff.     *)
THEOREM SettledAlwaysHasEvidence == Spec => []SettledHasEvidence
<1>1. Init => Proven
  <2>1. Init => Agreed
    BY InitOK
  <2>2. Init => SettledHasEvidence
    BY DEF Init, FreshQuote, PaidOrder, SettledHasEvidence, Settled
  <2>3. Init => Founded
    BY SameIsNothing DEF Init, Founded, Idle, Nothing
  <2> QED BY <2>1, <2>2, <2>3 DEF Proven
<1>2. Proven => SettledHasEvidence
  BY DEF Proven
<1> QED BY <1>1, <1>2, ProvenStep, PTL DEF Spec

-----------------------------------------------------------------------------
(* The QR and the total.  What makes an UPDATE right is what its request     *)
(* read: a QR it puts on the row was built for the total it read and leaves *)
(* the total alone, and a total it moves takes the QR it read with it.      *)

FollowsRead(s) ==
  /\ s.upd.qr \notin {Same, NoQr} =>
       s.upd.qr \in 1..issued /\ amount[s.upd.qr] = s.total /\ s.upd.total = Same
  /\ s.upd.total # Same => s.upd.qr = NoQr \/ (s.upd.qr = Same /\ s.qr = NoQr)

(* Polls and buttons have no part in either.                                *)
Following ==
  /\ Agreed
  /\ \A a \in Actors :
       /\ FollowsRead(at[a])
       /\ a \notin Staff => at[a].upd.qr = Same /\ at[a].upd.total = Same

LEMMA QrOfChanges ==
  ASSUME row \in Row, NEW r \in Row
  PROVE  /\ Changes(row, r) \in Update
         /\ Changes(row, r).qr = IF r.qr = row.qr THEN Same ELSE r.qr
         /\ Changes(row, r).total = IF r.total = row.total THEN Same ELSE r.total
BY DEF Changes, Row, Update, Columns

(* A request loads the row and decides on it.                               *)
LEMMA LoadFollows ==
  ASSUME Following, Agreed', NEW a \in Actors, NEW o \in Ops, NEW r \in Row, Load(a, o, r),
         row' = row,
         \/ issued' = issued /\ amount' = amount
         \/ issued' = issued + 1 /\ amount' = [amount EXCEPT ![issued'] = row.total],
         \/ r.qr = row.qr /\ r.total = row.total
         \/ r.qr = NoQr
         \/ r.qr \in 1..issued' /\ amount'[r.qr] = row.total /\ r.total = row.total,
         a \notin Staff => r.qr = row.qr /\ r.total = row.total
  PROVE  Following'
<1> DEFINE c == Changes(row, r)
           u == IF o = "refund" THEN [c EXCEPT !.refundedAt = TRUE] ELSE c
           s == [pc |-> "loaded", op |-> o, qr |-> row.qr, total |-> row.total, upd |-> u]
<1>1. row \in Row /\ at \in [Actors -> Request]
  BY DEF Following, Agreed, TypeOK
<1>2. /\ c \in Update
      /\ c.qr = IF r.qr = row.qr THEN Same ELSE r.qr
      /\ c.total = IF r.total = row.total THEN Same ELSE r.total
  BY <1>1, QrOfChanges
<1> HIDE DEF c
<1>3. u.qr = c.qr /\ u.total = c.total
  BY <1>2 DEF Update
<1>4. at' = [at EXCEPT ![a] = s]
  BY DEF Load, c
<1> HIDE DEF u
<1>5. s.upd = u /\ s.qr = row.qr /\ s.total = row.total
  OBVIOUS
<1> HIDE DEF s
<1>6. /\ s.upd.qr \notin {Same, NoQr} =>
           s.upd.qr \in 1..issued' /\ amount'[s.upd.qr] = s.total /\ s.upd.total = Same
      /\ s.upd.total # Same => s.upd.qr = NoQr \/ (s.upd.qr = Same /\ s.qr = NoQr)
  BY <1>2, <1>3, <1>5, SameIsNothing
<1>7. ASSUME NEW b \in Actors
      PROVE  /\ FollowsRead(at[b])'
             /\ b \notin Staff => at'[b].upd.qr = Same /\ at'[b].upd.total = Same
  <2>1. CASE b = a
    <3>1. at'[b] = s
      BY <1>1, <1>4, <2>1
    <3> QED BY <1>2, <1>3, <1>5, <1>6, <2>1, <3>1 DEF FollowsRead
  <2>2. CASE b # a
    <3>1. at'[b] = at[b]
      BY <1>1, <1>4, <2>2
    <3>2. FollowsRead(at[b]) /\ Agreed
      BY DEF Following
    <3>3. \/ issued' = issued /\ amount' = amount
          \/ issued' = issued + 1 /\ amount' = [amount EXCEPT ![issued'] = row.total]
      OBVIOUS
    <3>4. FollowsRead(at[b])'
      <4> DEFINE x == at[b]
      <4>1. FollowsRead(x)
        BY <3>2
      <4>2. x' = x
        BY <3>1
      <4> HIDE DEF x
      <4>3. /\ x.upd.qr \notin {Same, NoQr} =>
                 x.upd.qr \in 1..issued' /\ amount'[x.upd.qr] = x.total /\ x.upd.total = Same
            /\ x.upd.total # Same => x.upd.qr = NoQr \/ (x.upd.qr = Same /\ x.qr = NoQr)
        BY <3>2, <3>3, <4>1, SizesAssumption DEF FollowsRead, Agreed, TypeOK
      <4>4. FollowsRead(x)'
        BY <4>2, <4>3 DEF FollowsRead
      <4> QED BY <4>4 DEF x
    <3> QED BY <3>1, <3>4 DEF Following
  <2> QED BY <2>1, <2>2
<1> QED BY <1>7 DEF Following

(* A request that ends, or a poll that asks, has nothing to write. *)
LEMMA QuietFollows ==
  ASSUME Following, Agreed', NEW a \in Actors, NEW s, at' = [at EXCEPT ![a] = s],
         s.upd = Nothing, issued' = issued, amount' = amount
  PROVE  Following'
<1>1. at \in [Actors -> Request]
  BY DEF Following, Agreed, TypeOK
<1>2. ASSUME NEW b \in Actors
      PROVE  /\ FollowsRead(at[b])'
             /\ b \notin Staff => at'[b].upd.qr = Same /\ at'[b].upd.total = Same
  <2>1. CASE b = a
    <3>1. at'[b].upd.qr = Same /\ at'[b].upd.total = Same
      BY <1>1, <2>1 DEF Nothing
    <3> QED BY <3>1 DEF FollowsRead
  <2>2. CASE b # a
    <3>1. at'[b] = at[b]
      BY <1>1, <2>2
    <3> QED BY <3>1 DEF Following, FollowsRead
  <2> QED BY <2>1, <2>2
<1> QED BY <1>2 DEF Following

LEMMA FollowingStep == Following /\ [Next]_vars => Following'
<1> SUFFICES ASSUME Following, [Next]_vars PROVE Following'
  OBVIOUS
<1>0. Agreed' /\ row \in Row /\ at \in [Actors -> Request]
  BY AgreedStep DEF Following, Agreed, TypeOK
<1>1. UNCHANGED <<at, issued, amount>> => Following'
  BY <1>0 DEF Following, FollowsRead
<1>2. Actors = Tabs \cup Staff \cup Bot /\ Idle.upd = Nothing
  BY DEF Actors, Idle
<1>3. CASE BankNext
  BY <1>1, <1>3 DEF BankNext, Settle, Lapse, codes
<1>4. ASSUME NEW b \in Tabs, PollAsk(b) PROVE Following'
  <2> DEFINE s == [Idle EXCEPT !.pc = "asked", !.qr = row.qr]
  <2>1. s.upd = Nothing /\ at' = [at EXCEPT ![b] = s] /\ UNCHANGED <<issued, amount>>
    BY <1>4 DEF PollAsk, Idle, codes
  <2> HIDE DEF s
  <2> QED BY <1>0, <1>2, <2>1, QuietFollows
<1>5. ASSUME NEW a \in Actors, Finish(a), UNCHANGED codes PROVE Following'
  BY <1>0, <1>2, <1>5, QuietFollows DEF Finish, codes
<1>6. ASSUME NEW t \in Staff, IssueQr(t) PROVE Following'
  <2> DEFINE r == [row EXCEPT !.qr = issued', !.khqr = TRUE, !.pay = "unpaid"]
  <2>1. /\ issued' \in 1..issued' /\ issued' = issued + 1
        /\ amount' = [amount EXCEPT ![issued'] = row.total] /\ issued' \in 1..MaxQr
    BY <1>6, SizesAssumption DEF IssueQr, Following, Agreed, TypeOK
  <2>2. issued' \in 0..MaxQr
    BY <1>0 DEF Agreed, TypeOK
  <2>3. r \in Row /\ r.qr = issued' /\ r.total = row.total
    BY <1>0, <2>2 DEF Row, Pays
  <2>4. amount'[r.qr] = row.total
    <3>1. amount \in [1..MaxQr -> Totals]
      BY DEF Following, Agreed, TypeOK
    <3> QED BY <2>1, <2>3, <3>1
  <2>5. Load(t, "issue", r) /\ row' = row /\ t \in Actors /\ "issue" \in Ops
    BY <1>2, <1>6 DEF IssueQr, Ops
  <2> HIDE DEF r
  <2> QED BY <1>0, <1>6, <2>1, <2>3, <2>4, <2>5, LoadFollows
<1>7. ASSUME NEW t \in Staff, NEW e \in Edits, Edit(t, e) PROVE Following'
  <2>1. Edited(e) \in Row
    BY <1>0, EditedTyped
  <2>2. /\ Edited(e).total = Or(e.total, row.total)
        /\ Edited(e).qr = IF Or(e.total, row.total) = row.total THEN row.qr ELSE NoQr
    BY <1>0 DEF Edited, Row
  <2>3. Load(t, "edit", Edited(e)) /\ UNCHANGED <<row, issued, amount>>
    BY <1>7 DEF Edit, codes
  <2>4. t \in Actors /\ "edit" \in Ops
    BY <1>2 DEF Ops
  <2> HIDE DEF Edited
  <2> QED BY <1>0, <1>7, <2>1, <2>2, <2>3, <2>4, LoadFollows
<1>8. ASSUME NEW t \in Staff, Refund(t) PROVE Following'
  <2> DEFINE r == [row EXCEPT !.pay = "refunded", !.refundedAt = TRUE]
  <2>1. r \in Row /\ r.qr = row.qr /\ r.total = row.total
    BY <1>0 DEF Row, Pays
  <2>2. Load(t, "refund", r) /\ UNCHANGED <<row, issued, amount>>
    BY <1>8 DEF Refund, codes
  <2>3. t \in Actors /\ "refund" \in Ops
    BY <1>2 DEF Ops
  <2> HIDE DEF r
  <2> QED BY <1>0, <2>1, <2>2, <2>3, LoadFollows
<1>9. ASSUME NEW t \in Staff, Delete(t) PROVE Following'
  <2>1. Load(t, "delete", row) /\ UNCHANGED <<row, issued, amount>>
    BY <1>9 DEF Delete, codes
  <2>2. t \in Actors /\ "delete" \in Ops
    BY <1>2 DEF Ops
  <2> QED BY <1>0, <2>1, <2>2, LoadFollows
<1>10. ASSUME NEW a \in Bot, NEW s \in {"delivered", "cancelled"}, Press(a, s) PROVE Following'
  <2> DEFINE r == [row EXCEPT !.status = s]
  <2>1. r \in Row /\ r.qr = row.qr /\ r.total = row.total
    BY <1>0 DEF Row, Statuses, Ladder
  <2>2. Load(a, "press", r) /\ UNCHANGED <<row, issued, amount>>
    BY <1>10 DEF Press, codes
  <2>3. a \in Actors /\ "press" \in Ops
    BY <1>2 DEF Ops
  <2> HIDE DEF r
  <2> QED BY <1>0, <2>1, <2>2, <2>3, LoadFollows
<1>11. CASE UNCHANGED vars
  BY <1>1, <1>11 DEF vars, codes
<1>12. CASE PollNext
  BY <1>2, <1>4, <1>5, <1>12 DEF PollNext, PollNo, PollYes
<1>13. CASE WriteNext
  BY <1>5, <1>13 DEF WriteNext, Commit, CommitLost, CommitDelete
<1>14. CASE StaffNext
  BY <1>6, <1>7, <1>8, <1>9, <1>14 DEF StaffNext
<1>15. CASE BotNext
  BY <1>10, <1>15 DEF BotNext
<1> QED BY <1>3, <1>11, <1>12, <1>13, <1>14, <1>15 DEF Next

(* Only a commit moves the QR or the total.                                 *)
LEMMA CommitFollows ==
  ASSUME Following, NEW a \in Actors, Commit(a),
         row'.qr # row.qr \/ row'.total # row.total
  PROVE  QrMatchesTotal' \/ \E b \in Staff : Crosses(b)
<1> DEFINE u == at[a].upd
<1>1. row \in Row /\ u \in Update /\ row' = Merged(u) /\ at[a].pc = "loaded"
  BY DEF Following, Agreed, TypeOK, Request, Commit
<1>2. /\ row'.qr = IF u.qr = Same THEN row.qr ELSE u.qr
      /\ row'.total = IF u.total = Same THEN row.total ELSE u.total
  BY <1>1 DEF Merged, Columns
<1>3. a \in Staff /\ at'[a].pc = "idle"
  <2>1. a \in Staff
    BY <1>2 DEF Following
  <2>2. at \in [Actors -> Request] /\ at' = [at EXCEPT ![a] = Idle]
    BY DEF Following, Agreed, TypeOK, Commit, Finish
  <2> QED BY <2>1, <2>2 DEF Idle
<1>4. FollowsRead(at[a]) /\ amount' = amount
  BY DEF Following, Commit, codes
<1>5. SUFFICES ASSUME at[a].qr = row.qr, at[a].total = row.total PROVE QrMatchesTotal'
  BY <1>1, <1>3 DEF Crosses
<1>6. CASE u.qr \notin {Same, NoQr}
  BY <1>2, <1>4, <1>5, <1>6 DEF FollowsRead, QrMatchesTotal
<1>7. CASE u.qr = NoQr
  BY <1>2, <1>7, SameIsNothing DEF QrMatchesTotal
<1>8. CASE u.qr = Same
  BY <1>2, <1>4, <1>5, <1>8, SameIsNothing DEF FollowsRead, QrMatchesTotal
<1> QED BY <1>6, <1>7, <1>8

(* However many requests overlap, a QR that does not ask for the order's     *)
(* total is the work of one that had read an older QR or total: no request  *)
(* brings the two apart by what it decided itself.                          *)
THEOREM QrAlwaysFollowsTotal == Spec => QrFollowsTotal
<1>1. Init => Following
  <2> SUFFICES ASSUME Init PROVE Following
    OBVIOUS
  <2>1. Agreed
    BY InitOK
  <2>2. \A a \in Actors : at[a].upd.qr = Same /\ at[a].upd.total = Same
    BY DEF Init, Idle, Nothing
  <2> QED BY <2>1, <2>2 DEF Following, FollowsRead
<1>2. Following /\ [Next]_vars
        => [row'.qr # row.qr \/ row'.total # row.total
              => QrMatchesTotal' \/ \E a \in Staff : Crosses(a)]_vars
  <2> SUFFICES ASSUME Following, [Next]_vars, row'.qr # row.qr \/ row'.total # row.total
               PROVE  QrMatchesTotal' \/ \E a \in Staff : Crosses(a)
    OBVIOUS
  <2>1. \E a \in Actors : Commit(a)
    <3>1. row \in Row /\ row' # row
      BY DEF Following, Agreed, TypeOK
    <3>2. ASSUME NEW b \in Tabs, PollYes(b) PROVE FALSE
      <4>1. row'.qr = row.qr /\ row'.total = row.total
        BY <3>1, <3>2 DEF PollYes, Row
      <4> QED BY <4>1
    <3> QED
      BY <3>1, <3>2 DEF Next, BankNext, PollNext, StaffNext, BotNext, WriteNext, vars, Settle,
           Lapse, PollAsk, PollNo, IssueQr, Edit, Refund, Delete, Press, CommitLost, CommitDelete
  <2> QED BY <2>1, CommitFollows
<1> QED BY <1>1, <1>2, FollowingStep, PTL DEF Spec, QrFollowsTotal

-----------------------------------------------------------------------------
(* The alerts: the counters of an alert say where it is.  Counted ties them *)
(* to its pc, which is what makes the statements about the chat inductive.  *)

(* Before the first call nothing was sent; while an alert may still be      *)
(* repeated, all of it in the chat went unanswered.                         *)
Counted(t) ==
  /\ unheard[t] <= tries[t]
  /\ posted[t] <= 1 + unheard[t]
  /\ pc[t] \in {"due", "waiting"} => tries[t] = 0
  /\ pc[t] = "sending" => tries[t] < Attempts
  /\ pc[t] # "over" => posted[t] = unheard[t]

(* The inductive invariant. *)
Alerting ==
  /\ AlertTypeOK /\ SlotIsWaiting
  /\ \A t \in Alerts : Counted(t)

-----------------------------------------------------------------------------
LEMMA AlertInitOK == AlertInit => Alerting
BY DEF AlertInit, Alerting, AlertTypeOK, SlotIsWaiting, Counted, Attempts

(* A step of one alert leaves what is said of the others as it was.         *)
LEMMA OthersKeep ==
  ASSUME Alerting, NEW t \in Alerts, NEW u \in Alerts, u # t,
         pc'[u] = pc[u], tries'[u] = tries[u], posted'[u] = posted[u],
         unheard'[u] = unheard[u]
  PROVE  Counted(u)'
BY DEF Alerting, Counted

LEMMA UploadOK == ASSUME Alerting, Upload PROVE Alerting'
BY DEF Alerting, Upload, AlertTypeOK, SlotIsWaiting, Counted, chat

-----------------------------------------------------------------------------
(* The wait for the PDF.                                                   *)

LEMMA WaitOK ==
  ASSUME Alerting, NEW t \in Alerts, RegisterPdf(t) \/ TakePdf(t) \/ TimeOut(t)
  PROVE  Alerting'
<1>0. AlertTypeOK /\ SlotIsWaiting /\ UNCHANGED <<tries, posted, unheard, texted>>
  BY DEF Alerting, RegisterPdf, TakePdf, TimeOut, StopWaiting, chat
<1>1. PICK w \in {"waiting", "sending"} : pc' = [pc EXCEPT ![t] = w] /\ pc[t] \in {"due", "waiting"}
  BY DEF RegisterPdf, TakePdf, TimeOut, StopWaiting
<1>2. AlertTypeOK'
  BY <1>0, <1>1, AlertsAssumption
     DEF AlertTypeOK, RegisterPdf, TakePdf, TimeOut, StopWaiting
<1>3. SlotIsWaiting'
  BY <1>0, AlertsAssumption
     DEF AlertTypeOK, SlotIsWaiting, RegisterPdf, TakePdf, TimeOut, StopWaiting
<1>4. Counted(t)'
  BY <1>0, <1>1 DEF Alerting, AlertTypeOK, Counted, Attempts
<1>5. ASSUME NEW u \in Alerts, u # t PROVE Counted(u)'
  BY <1>0, <1>1, <1>5, OthersKeep DEF AlertTypeOK
<1> QED BY <1>2, <1>3, <1>4, <1>5 DEF Alerting

-----------------------------------------------------------------------------
(* The calls to Telegram.                                                  *)

LEMMA SendOKs ==
  ASSUME Alerting, NEW t \in Alerts,
         SendOk(t) \/ SendFails(t) \/ SendUnheard(t) \/ SendRefused(t)
  PROVE  Alerting'
<1>0. AlertTypeOK /\ SlotIsWaiting /\ Counted(t) /\ pc[t] = "sending"
  BY DEF Alerting, SendOk, SendFails, SendUnheard, SendRefused
<1>1. UNCHANGED <<slot, handed, client, texted>> /\ tries' = [tries EXCEPT ![t] = @ + 1]
  BY DEF SendOk, SendFails, SendUnheard, SendRefused, handoff
<1>2. PICK w \in {"over", "sending", "text"} : pc' = [pc EXCEPT ![t] = w]
  <2>1. pc = [pc EXCEPT ![t] = "sending"]
    BY <1>0 DEF AlertTypeOK
  <2>2. \/ pc' = pc
        \/ pc' = [pc EXCEPT ![t] = "over"]
        \/ pc' = [pc EXCEPT ![t] = "text"]
    BY DEF SendOk, SendFails, SendUnheard, SendRefused, Retry, GiveUp
  <2>3. CASE pc' = pc
    BY <2>1, <2>3
  <2> QED BY <2>2, <2>3
<1>3. /\ tries[t] \in 0..2 /\ posted[t] = unheard[t] /\ unheard[t] \in 0..2
      /\ tries'[t] = tries[t] + 1
  BY <1>0, <1>1 DEF AlertTypeOK, Counted, Attempts
<1>4. /\ posted' = posted \/ posted' = [posted EXCEPT ![t] = @ + 1]
      /\ unheard' = unheard \/ unheard' = [unheard EXCEPT ![t] = @ + 1]
  BY DEF SendOk, SendFails, SendUnheard, SendRefused, Post, chat
<1>5. AlertTypeOK'
  BY <1>0, <1>1, <1>2, <1>3, <1>4 DEF AlertTypeOK, Attempts
<1>6. SlotIsWaiting'
  BY <1>0, <1>1, <1>2 DEF AlertTypeOK, SlotIsWaiting
<1>7. Counted(t)'
  <2>1. CASE SendOk(t)
    BY <1>0, <1>3, <2>1 DEF AlertTypeOK, SendOk, Post, Counted, Attempts
  <2>2. CASE SendFails(t)
    BY <1>0, <1>3, <2>2 DEF AlertTypeOK, SendFails, Retry, GiveUp, chat, Counted, Attempts
  <2>3. CASE SendUnheard(t)
    BY <1>0, <1>3, <2>3 DEF AlertTypeOK, SendUnheard, Retry, GiveUp, Post, Counted, Attempts
  <2>4. CASE SendRefused(t)
    BY <1>0, <1>3, <2>4 DEF AlertTypeOK, SendRefused, chat, Counted, Attempts
  <2> QED BY <2>1, <2>2, <2>3, <2>4
<1>8. ASSUME NEW u \in Alerts, u # t PROVE Counted(u)'
  BY <1>0, <1>1, <1>2, <1>4, <1>8, OthersKeep DEF AlertTypeOK
<1> QED BY <1>5, <1>6, <1>7, <1>8 DEF Alerting

LEMMA BuildOK == ASSUME Alerting, NEW t \in Alerts, BuildFails(t) PROVE Alerting'
<1>0. /\ AlertTypeOK /\ SlotIsWaiting /\ Counted(t) /\ pc[t] = "sending"
      /\ UNCHANGED <<slot, handed, client, tries, posted, unheard, texted>>
      /\ pc' = [pc EXCEPT ![t] = "over"]
  BY DEF Alerting, BuildFails, GiveUp, handoff, chat
<1>1. AlertTypeOK' /\ SlotIsWaiting' /\ Counted(t)'
  BY <1>0 DEF AlertTypeOK, SlotIsWaiting, Counted, Attempts
<1>2. ASSUME NEW u \in Alerts, u # t PROVE Counted(u)'
  BY <1>0, <1>2, OthersKeep DEF AlertTypeOK
<1> QED BY <1>1, <1>2 DEF Alerting

LEMMA TextOK == ASSUME Alerting, NEW t \in Alerts, TextOk(t) \/ TextFails(t) PROVE Alerting'
<1>0. /\ AlertTypeOK /\ SlotIsWaiting /\ Counted(t) /\ pc[t] = "text"
      /\ UNCHANGED <<slot, handed, client, tries, unheard>>
      /\ texted' = texted \cup {t} /\ pc' = [pc EXCEPT ![t] = "over"]
      /\ posted' = posted \/ posted' = [posted EXCEPT ![t] = @ + 1]
  BY DEF Alerting, TextOk, TextFails, TextOver, Post, handoff, chat
<1>1. posted[t] = unheard[t] /\ unheard[t] \in 0..3
  BY <1>0 DEF AlertTypeOK, Counted, Attempts
<1>2. AlertTypeOK' /\ SlotIsWaiting'
  BY <1>0, <1>1 DEF AlertTypeOK, SlotIsWaiting, Attempts
<1>3. Counted(t)'
  BY <1>0, <1>1 DEF AlertTypeOK, Counted, Attempts
<1>4. ASSUME NEW u \in Alerts, u # t PROVE Counted(u)'
  BY <1>0, <1>4, OthersKeep DEF AlertTypeOK
<1> QED BY <1>2, <1>3, <1>4 DEF Alerting

-----------------------------------------------------------------------------
(* The theorems.                                                           *)

LEMMA AlwaysAlerting == AlertSpec => []Alerting
<1>1. Alerting /\ [AlertNext]_alertVars => Alerting'
  <2> SUFFICES ASSUME Alerting, [AlertNext]_alertVars PROVE Alerting'
    OBVIOUS
  <2>1. CASE Upload
    BY <2>1, UploadOK
  <2>2. ASSUME NEW t \in Alerts, Step(t) PROVE Alerting'
    BY <2>2, WaitOK, BuildOK, SendOKs, TextOK DEF Step
  <2>3. CASE UNCHANGED alertVars
    BY <2>3 DEF alertVars, handoff, chat, Alerting, AlertTypeOK, SlotIsWaiting, Counted
  <2> QED BY <2>1, <2>2, <2>3 DEF AlertNext
<1> QED BY <1>1, AlertInitOK, PTL DEF AlertSpec

(* Every counter of an alert stays within the calls it may make. *)
THEOREM AlertTypeCorrect == AlertSpec => []AlertTypeOK
<1>1. Alerting => AlertTypeOK
  BY DEF Alerting
<1> QED BY <1>1, AlwaysAlerting, PTL

(* However many alerts of an order register, time out and finish around     *)
(* each other, the future in the order's slot is that of one that still     *)
(* waits for it.                                                            *)
THEOREM SlotAlwaysWaiting == AlertSpec => []SlotIsWaiting
<1>1. Alerting => SlotIsWaiting
  BY DEF Alerting
<1> QED BY <1>1, AlwaysAlerting, PTL

(* An alert is in the chat again only as often as Telegram's answer to it   *)
(* was lost.                                                                *)
THEOREM RepeatsAlwaysUnheard == AlertSpec => []RepeatsWereUnheard
<1>1. Alerting => RepeatsWereUnheard
  BY DEF Alerting, Counted, RepeatsWereUnheard
<1> QED BY <1>1, AlwaysAlerting, PTL

-----------------------------------------------------------------------------
(* The QR.  Texts are made and read by recursion - over the digits of a     *)
(* number, the fields of a text, the tags of a payee.  That each recursion  *)
(* has a value for every text is shown by counting (Climb), the fields from *)
(* the end, as a field says how far the next one is.  A text is Whole when  *)
(* what follows it is read as if it stood alone, so that a QR is read a     *)
(* field at a time, as it was built (Adds).                                 *)

Texts == Seq(Nat)

(* Numbers.                                                                 *)

IsValue(v, text) ==
  v = [k \in 0 .. Len(text) |-> IF k = 0 THEN 0 ELSE 10 * v[k - 1] + (text[k] - 48)]

Value(text) == CHOOSE v : IsValue(v, text)

LEMMA NumberDef == ASSUME NEW text PROVE Number(text) = Value(text)[Len(text)]
BY DEF Number, Value, IsValue

LEMMA ValueExists == ASSUME NEW text \in Texts PROVE IsValue(Value(text), text)
<1> DEFINE B(v, k) == IF k = 0 THEN 0 ELSE 10 * v[k - 1] + (text[k] - 48)
           N == Len(text)
           H == {n \in 0 .. N : \E v : \A k \in 0 .. n : v[k] = B(v, k)}
<1>0. N \in Nat
  BY DEF Texts
<1>1. 0 \in H
  <2> DEFINE v == [k \in {0} |-> 0]
  <2>1. \A k \in 0 .. 0 : v[k] = B(v, k)
    OBVIOUS
  <2>2. \E u : \A k \in 0 .. 0 : u[k] = B(u, k)
    <3> HIDE DEF v
    <3> QED BY <2>1
  <2> QED BY <2>2, <1>0
<1>2. ASSUME NEW n \in 0 .. N - 1, n \in H PROVE n + 1 \in H
  <2>1. PICK v : \A k \in 0 .. n : v[k] = B(v, k)
    BY <1>2
  <2> DEFINE w == [k \in 0 .. n + 1 |-> IF k <= n THEN v[k] ELSE B(v, k)]
  <2>2. ASSUME NEW k \in 0 .. n + 1 PROVE w[k] = B(w, k)
    <3>1. k # 0 => k - 1 \in 0 .. n /\ w[k - 1] = v[k - 1]
      BY <1>0
    <3>2. B(w, k) = B(v, k)
      BY <3>1
    <3>3. CASE k <= n
      BY <2>1, <3>2, <3>3, <1>0
    <3>4. CASE k = n + 1
      BY <3>2, <3>4, <1>0
    <3> QED BY <3>3, <3>4, <1>0
  <2>3. \E u : \A k \in 0 .. n + 1 : u[k] = B(u, k)
    <3> HIDE DEF w
    <3> QED BY <2>2
  <2> QED BY <2>3, <1>0
<1>3. N \in H
  <2> HIDE DEF H, N
  <2> QED BY <1>0, <1>1, <1>2, Climb
<1>4. PICK v : \A k \in 0 .. N : v[k] = B(v, k)
  BY <1>3
<1> DEFINE w == [k \in 0 .. N |-> B(v, k)]
<1>5. \A k \in 0 .. N : k # 0 => k - 1 \in 0 .. N /\ w[k - 1] = v[k - 1]
  BY <1>0, <1>4
<1>6. \A k \in 0 .. N : B(w, k) = B(v, k)
  BY <1>5
<1>7. w = [k \in 0 .. N |-> B(w, k)]
  <2> HIDE DEF N
  <2> QED BY <1>6
<1>8. IsValue(w, text)
  BY <1>7 DEF IsValue
<1> QED BY <1>8 DEF Value

LEMMA ValueIs ==
  ASSUME NEW text \in Texts, NEW k \in 0 .. Len(text)
  PROVE  Value(text)[k] = IF k = 0 THEN 0 ELSE 10 * Value(text)[k - 1] + (text[k] - 48)
<1> DEFINE v == Value(text)
<1>1. v = [i \in 0 .. Len(text) |-> IF i = 0 THEN 0 ELSE 10 * v[i - 1] + (text[i] - 48)]
  <2> HIDE DEF v
  <2>1. IsValue(v, text)
    BY ValueExists DEF v
  <2> QED BY <2>1 DEF IsValue
<1> HIDE DEF v
<1>2. v[k] = IF k = 0 THEN 0 ELSE 10 * v[k - 1] + (text[k] - 48)
  BY <1>1
<1> QED BY <1>2 DEF v

LEMMA ValueNext ==
  ASSUME NEW text \in Texts, NEW k \in Nat, NEW j \in 1 .. Len(text), j = k + 1
  PROVE  Value(text)[j] = 10 * Value(text)[k] + (text[j] - 48)
<1>1. j \in 0 .. Len(text) /\ j # 0
  BY DEF Texts
<1>2. Value(text)[j] = 10 * Value(text)[j - 1] + (text[j] - 48)
  BY <1>1, ValueIs
<1> QED BY <1>2

LEMMA ValueZero == ASSUME NEW text \in Texts PROVE Value(text)[0] = 0
BY ValueIs DEF Texts

LEMMA NumberOfOne == ASSUME NEW d \in Nat PROVE Number(<<d>>) = d - 48
<1> DEFINE text == <<d>>
<1>1. text \in Texts /\ Len(text) = 1 /\ text[1] = d
  BY DEF Texts
<1> HIDE DEF text
<1>2. 1 \in 1 .. Len(text)
  BY <1>1
<1>3. Value(text)[0] = 0
  BY <1>1, ValueZero
<1>4. Value(text)[1] = 10 * Value(text)[0] + (text[1] - 48)
  <2>1. 0 \in Nat /\ 1 = 0 + 1
    OBVIOUS
  <2> QED BY <1>1, <1>2, <2>1, ValueNext
<1>5. Value(text)[1] = d - 48
  BY <1>1, <1>3, <1>4
<1>6. Number(text) = Value(text)[1]
  BY <1>1, NumberDef
<1> QED BY <1>5, <1>6 DEF text

(* Two digits are read as a number below 100 would be written.              *)
LEMMA NumberOfTwo ==
  ASSUME NEW text \in Texts, Len(text) = 2
  PROVE  Number(text) = 10 * (text[1] - 48) + (text[2] - 48)
<1>1. 1 \in 1 .. Len(text) /\ 2 \in 1 .. Len(text)
  OBVIOUS
<1>2. text[1] \in Nat /\ text[2] \in Nat
  BY <1>1, ElementOfSeq DEF Texts
<1>3. Value(text)[0] = 0
  BY ValueZero
<1>4. Value(text)[1] = 10 * Value(text)[0] + (text[1] - 48)
  <2>1. 0 \in Nat /\ 1 = 0 + 1
    OBVIOUS
  <2> QED BY <1>1, <2>1, ValueNext
<1>5. Value(text)[2] = 10 * Value(text)[1] + (text[2] - 48)
  <2>1. 1 \in Nat /\ 2 = 1 + 1
    OBVIOUS
  <2> QED BY <1>1, <2>1, ValueNext
<1>6. Value(text)[2] = 10 * (text[1] - 48) + (text[2] - 48)
  BY <1>2, <1>3, <1>4, <1>5
<1>7. Number(text) = Value(text)[2]
  BY NumberDef
<1> QED BY <1>6, <1>7

LEMMA NumberIsInt == ASSUME NEW text \in Texts PROVE Number(text) \in Int
<1> DEFINE H == {k \in 0 .. Len(text) : Value(text)[k] \in Int}
<1>0. Len(text) \in Nat
  BY DEF Texts
<1>1. 0 \in H
  BY <1>0, ValueIs
<1>2. ASSUME NEW n \in 0 .. Len(text) - 1, n \in H PROVE n + 1 \in H
  <2>1. n + 1 \in 0 .. Len(text) /\ n + 1 # 0 /\ (n + 1) - 1 = n /\ text[n + 1] \in Nat
    BY <1>0 DEF Texts
  <2>2. Value(text)[n + 1] = 10 * Value(text)[n] + (text[n + 1] - 48)
    BY <2>1, ValueIs
  <2> QED BY <1>2, <2>1, <2>2
<1>3. Len(text) \in H
  <2> HIDE DEF H
  <2> QED BY <1>0, <1>1, <1>2, Climb
<1> QED BY <1>3, NumberDef

(* One more digit at the end makes ten times as much of the others.         *)
LEMMA NumberGrows ==
  ASSUME NEW text \in Texts, NEW d \in Nat
  PROVE  Number(Append(text, d)) = 10 * Number(text) + (d - 48)
<1> DEFINE more == Append(text, d)
           N == Len(text)
           H == {k \in 0 .. N : Value(more)[k] = Value(text)[k]}
<1>0. /\ N \in Nat /\ more \in Texts /\ Len(more) = N + 1
      /\ more[N + 1] = d /\ \A k \in 1 .. N : more[k] = text[k]
  BY AppendProperties DEF Texts
<1>1. 0 \in H
  <2>1. Value(more)[0] = 0 /\ Value(text)[0] = 0
    <3> HIDE DEF more
    <3> QED BY <1>0, ValueIs
  <2> QED BY <2>1, <1>0
<1>2. ASSUME NEW n \in 0 .. N - 1, n \in H PROVE n + 1 \in H
  <2>1. n + 1 \in 0 .. N /\ n + 1 \in 0 .. N + 1 /\ n + 1 # 0 /\ (n + 1) - 1 = n
    BY <1>0
  <2>2. Value(text)[n + 1] = 10 * Value(text)[n] + (text[n + 1] - 48)
    BY <2>1, ValueIs
  <2>3. Value(more)[n + 1] = 10 * Value(more)[n] + (more[n + 1] - 48)
    <3> HIDE DEF more
    <3> QED BY <2>1, <1>0, ValueIs
  <2> QED BY <1>0, <1>2, <2>1, <2>2, <2>3
<1>3. Value(more)[N] = Value(text)[N]
  <2>1. N \in H
    <3> HIDE DEF H, N
    <3> QED BY <1>0, <1>1, <1>2, Climb
  <2> QED BY <2>1
<1>4. Value(more)[N + 1] = 10 * Value(more)[N] + (more[N + 1] - 48)
  <2>1. N + 1 \in 0 .. Len(more) /\ N + 1 # 0 /\ (N + 1) - 1 = N
    BY <1>0
  <2> HIDE DEF more, N
  <2> QED BY <1>0, <2>1, ValueIs
<1> QED BY <1>0, <1>3, <1>4, NumberDef

-----------------------------------------------------------------------------
(* Decimals.                                                                *)

Digits == 48 .. 57

IsDecimal(v, n) ==
  v = [k \in 0 .. n |-> IF k < 10 THEN <<Digit(k)>> ELSE Append(v[k \div 10], Digit(k % 10))]

Decimals(n) == CHOOSE v : IsDecimal(v, n)

LEMMA DecimalDef == ASSUME NEW n PROVE Decimal(n) = Decimals(n)[n]
BY DEF Decimal, Decimals, IsDecimal

LEMMA Tenth == ASSUME NEW k \in Nat, k >= 10 PROVE k \div 10 \in 1 .. k - 1 /\ k % 10 \in 0 .. 9 /\ k = 10 * (k \div 10) + (k % 10)
OBVIOUS

LEMMA DecimalExists == ASSUME NEW N \in Nat PROVE IsDecimal(Decimals(N), N)
<1> DEFINE B(v, k) == IF k < 10 THEN <<Digit(k)>> ELSE Append(v[k \div 10], Digit(k % 10))
           H == {n \in 0 .. N : \E v : \A k \in 0 .. n : v[k] = B(v, k)}
<1>1. 0 \in H
  <2> DEFINE v == [k \in {0} |-> <<Digit(0)>>]
  <2>1. \A k \in 0 .. 0 : v[k] = B(v, k)
    OBVIOUS
  <2>2. \E u : \A k \in 0 .. 0 : u[k] = B(u, k)
    <3> HIDE DEF v
    <3> QED BY <2>1
  <2> QED BY <2>2
<1>2. ASSUME NEW n \in 0 .. N - 1, n \in H PROVE n + 1 \in H
  <2>1. PICK v : \A k \in 0 .. n : v[k] = B(v, k)
    BY <1>2
  <2> DEFINE w == [k \in 0 .. n + 1 |-> IF k <= n THEN v[k] ELSE B(v, k)]
  <2>2. ASSUME NEW k \in 0 .. n + 1 PROVE w[k] = B(w, k)
    <3>1. k >= 10 => k \div 10 \in 0 .. n
      BY Tenth
    <3>2. k >= 10 => w[k \div 10] = v[k \div 10]
      BY <3>1
    <3>3. B(w, k) = B(v, k)
      BY <3>2
    <3>4. CASE k <= n
      BY <2>1, <3>3, <3>4
    <3>5. CASE k = n + 1
      BY <3>3, <3>5
    <3> QED BY <3>4, <3>5
  <2>3. \E u : \A k \in 0 .. n + 1 : u[k] = B(u, k)
    <3> HIDE DEF w
    <3> QED BY <2>2
  <2> QED BY <2>3
<1>3. N \in H
  <2> HIDE DEF H
  <2> QED BY <1>1, <1>2, Climb
<1>4. PICK v : \A k \in 0 .. N : v[k] = B(v, k)
  BY <1>3
<1> DEFINE w == [k \in 0 .. N |-> B(v, k)]
<1>5. \A k \in 0 .. N : k >= 10 => k \div 10 \in 0 .. N /\ w[k \div 10] = v[k \div 10]
  <2>1. \A k \in 0 .. N : k >= 10 => k \div 10 \in 0 .. N
    BY Tenth
  <2> QED BY <1>4, <2>1
<1>6. ASSUME NEW k \in 0 .. N PROVE B(w, k) = B(v, k)
  <2> HIDE DEF w
  <2>1. k >= 10 => w[k \div 10] = v[k \div 10]
    BY <1>5
  <2>2. k < 10 \/ k >= 10
    OBVIOUS
  <2> QED BY <2>1, <2>2
<1>7. w = [k \in 0 .. N |-> B(w, k)]
  BY <1>6
<1>8. IsDecimal(w, N)
  BY <1>7 DEF IsDecimal
<1> QED BY <1>8 DEF Decimals

LEMMA DecimalsIs ==
  ASSUME NEW n \in Nat, NEW k \in 0 .. n
  PROVE  Decimals(n)[k] = IF k < 10 THEN <<Digit(k)>> ELSE Append(Decimals(n)[k \div 10], Digit(k % 10))
<1> DEFINE v == Decimals(n)
<1>1. v = [i \in 0 .. n |-> IF i < 10 THEN <<Digit(i)>> ELSE Append(v[i \div 10], Digit(i % 10))]
  <2> HIDE DEF v
  <2>1. IsDecimal(v, n)
    BY DecimalExists DEF v
  <2> QED BY <2>1 DEF IsDecimal
<1> HIDE DEF v
<1>2. v[k] = IF k < 10 THEN <<Digit(k)>> ELSE Append(v[k \div 10], Digit(k % 10))
  BY <1>1
<1> QED BY <1>2 DEF v

LEMMA DecimalsNext ==
  ASSUME NEW n \in Nat, NEW k \in 0 .. n
  PROVE  /\ k < 10 => Decimals(n)[k] = <<Digit(k)>>
         /\ k >= 10 => Decimals(n)[k] = Append(Decimals(n)[k \div 10], Digit(k % 10))
<1>1. Decimals(n)[k] = IF k < 10 THEN <<Digit(k)>> ELSE Append(Decimals(n)[k \div 10], Digit(k % 10))
  BY DecimalsIs
<1>2. k >= 10 => ~ (k < 10)
  OBVIOUS
<1> QED BY <1>1, <1>2

(* A number is written in digits, and they read as that number.             *)
LEMMA DecimalReadsBack ==
  ASSUME NEW n \in Nat
  PROVE  /\ Decimal(n) \in Seq(Digits) /\ Decimal(n) \in Texts /\ Decimal(n) # <<>>
         /\ Number(Decimal(n)) = n
<1> DEFINE v == Decimals(n)
           OK(k) == v[k] \in Seq(Digits) /\ v[k] # <<>> /\ Number(v[k]) = k
           H == {m \in 0 .. n : \A k \in 0 .. m : OK(k)}
<1>1. ASSUME NEW k \in 0 .. n, k < 10 PROVE OK(k)
  <2>1. v[k] = <<k + 48>>
    <3>1. v[k] = <<Digit(k)>>
      BY <1>1, DecimalsIs
    <3> QED BY <3>1 DEF Digit
  <2>2. k + 48 \in Digits /\ k + 48 \in Nat
    BY <1>1 DEF Digits
  <2> QED BY <2>1, <2>2, NumberOfOne
<1>2. ASSUME NEW k \in 0 .. n, k >= 10, OK(k \div 10) PROVE OK(k)
  <2> DEFINE t == v[k \div 10]
             d == Digit(k % 10)
  <2>1. k % 10 \in 0 .. 9 /\ k = 10 * (k \div 10) + (k % 10) /\ k \div 10 \in Nat
    BY <1>2, Tenth
  <2>2. d \in Digits /\ d \in Nat /\ d - 48 = k % 10
    BY <2>1 DEF Digits, Digit
  <2>3. v[k] = Append(t, d)
    BY <1>2, DecimalsNext
  <2>4. t \in Seq(Digits) /\ t \in Texts /\ Number(t) = k \div 10
    BY <1>2, SeqMonotonic DEF Texts, Digits
  <2> HIDE DEF t, d, v
  <2>5. Append(t, d) \in Seq(Digits) /\ Append(t, d) # <<>>
    BY <2>2, <2>4, AppendProperties
  <2>6. Number(Append(t, d)) = 10 * Number(t) + (d - 48)
    BY <2>2, <2>4, NumberGrows
  <2> QED BY <2>1, <2>2, <2>3, <2>4, <2>5, <2>6
<1> HIDE DEF OK
<1>3. 0 \in H
  <2>1. OK(0)
    BY <1>1
  <2> QED BY <2>1
<1>4. ASSUME NEW m \in 0 .. n - 1, m \in H PROVE m + 1 \in H
  <2>1. m + 1 \in 0 .. n /\ \A k \in 0 .. m : OK(k)
    BY <1>4
  <2>2. m + 1 >= 10 => (m + 1) \div 10 \in 0 .. m
    BY Tenth
  <2>3. OK(m + 1)
    BY <2>1, <2>2, <1>1, <1>2
  <2> QED BY <2>1, <2>3
<1>5. n \in H
  <2> HIDE DEF H
  <2> QED BY <1>3, <1>4, Climb
<1>6. OK(n)
  <2>1. n \in 0 .. n /\ \A k \in 0 .. n : OK(k)
    BY <1>5
  <2> QED BY <2>1
<1> QED BY <1>6, DecimalDef, SeqMonotonic DEF OK, Texts, Digits

LEMMA TwoDigitsAre ==
  ASSUME NEW n \in 0 .. 99
  PROVE  TwoDigits(n) = <<48 + (n \div 10), 48 + (n % 10)>>
<1>1. CASE n < 10
  BY <1>1 DEF TwoDigits, Digit
<1>2. CASE n >= 10
  <2>1. n \div 10 \in 1 .. 9 /\ n \div 10 \in 0 .. n
    BY <1>2
  <2>2. Decimals(n)[n \div 10] = <<Digit(n \div 10)>>
    <3>1. n \in Nat /\ n \div 10 < 10
      BY <2>1
    <3> QED BY <2>1, <3>1, DecimalsNext
  <2>3. n \in Nat /\ n \in 0 .. n
    OBVIOUS
  <2>4. Decimals(n)[n] = Append(<<Digit(n \div 10)>>, Digit(n % 10))
    BY <1>2, <2>2, <2>3, DecimalsNext
  <2> QED BY <1>2, <2>4, DecimalDef DEF TwoDigits, Digit
<1> QED BY <1>1, <1>2

(* So is one below 100 in two of them, with a zero in front if need be.     *)
LEMMA TwoDigitsReadBack ==
  ASSUME NEW n \in 0 .. 99
  PROVE  /\ TwoDigits(n) \in Texts /\ Len(TwoDigits(n)) = 2
         /\ IsDigit(TwoDigits(n)[1]) /\ IsDigit(TwoDigits(n)[2])
         /\ Number(TwoDigits(n)) = n
<1>1. TwoDigits(n) = <<48 + (n \div 10), 48 + (n % 10)>>
  BY TwoDigitsAre
<1>2. n \div 10 \in 0 .. 9 /\ n % 10 \in 0 .. 9 /\ n = 10 * (n \div 10) + (n % 10)
  OBVIOUS
<1>3. TwoDigits(n) \in Texts /\ Len(TwoDigits(n)) = 2
  BY <1>1, <1>2 DEF Texts
<1>4. TwoDigits(n)[1] = 48 + (n \div 10) /\ TwoDigits(n)[2] = 48 + (n % 10)
  BY <1>1
<1>5. Number(TwoDigits(n)) = 10 * (TwoDigits(n)[1] - 48) + (TwoDigits(n)[2] - 48)
  BY <1>3, NumberOfTwo
<1> QED BY <1>2, <1>3, <1>4, <1>5 DEF IsDigit

-----------------------------------------------------------------------------
(* Reading a text of any length.                                            *)

Length(text, i) == Number(SubSeq(text, i + 2, i + 3))

Piece(text, i) ==
  <<SubSeq(text, i, i + 1), Cut(SubSeq(text, i + 4, Len(text)), Length(text, i))>>

HasLength(text, i) == IsDigit(text[i + 2]) /\ IsDigit(text[i + 3])

(* What is read from i on, if h is what is read from each later place on.   *)
Reading(text, h, i) ==
  IF i + 3 > Len(text) THEN <<>>
  ELSE IF ~ HasLength(text, i) THEN <<Broken>>
  ELSE <<Piece(text, i)>> \o h[i + 4 + Length(text, i)]

IsReading(h, text) == h = [i \in Nat |-> Reading(text, h, i)]

From(text) == CHOOSE h : IsReading(h, text)

LEMMA ParseDef == ASSUME NEW text PROVE ParseTlv(text) = From(text)[1]
BY DEF ParseTlv, From, IsReading, Reading, Piece, Length, HasLength

LEMMA LengthIs ==
  ASSUME NEW text \in Texts, NEW i \in Nat, i + 3 <= Len(text), HasLength(text, i)
  PROVE  Length(text, i) \in 0 .. 99
<1> DEFINE t == SubSeq(text, i + 2, i + 3)
<1>1. Len(text) \in Nat /\ i + 2 \in 1 .. Len(text) /\ i + 3 \in 1 .. Len(text)
  BY DEF Texts
<1>2. /\ t \in Seq(Nat) /\ Len(t) = IF i + 2 <= i + 3 THEN (i + 3) - (i + 2) + 1 ELSE 0
      /\ \A k \in 1 .. (i + 3) - (i + 2) + 1 : t[k] = text[(i + 2) + k - 1]
  <2>1. i + 2 \in Int /\ i + 3 \in Int /\ \A j \in i + 2 .. i + 3 : text[j] \in Nat
    BY <1>1, ElementOfSeq DEF Texts
  <2> HIDE DEF t
  <2> QED BY <2>1, SubSeqProperties DEF t
<1>3. t \in Texts /\ Len(t) = 2 /\ t[1] = text[i + 2] /\ t[2] = text[i + 3]
  <2> HIDE DEF t
  <2> QED BY <1>2 DEF Texts
<1>4. Number(t) = 10 * (t[1] - 48) + (t[2] - 48)
  <2> HIDE DEF t
  <2> QED BY <1>3, NumberOfTwo
<1>5. t[1] \in 48 .. 57 /\ t[2] \in 48 .. 57
  <2> HIDE DEF t
  <2> QED BY <1>3 DEF HasLength, IsDigit
<1>6. \A a, b \in 48 .. 57 : 10 * (a - 48) + (b - 48) \in 0 .. 99
  OBVIOUS
<1>7. Number(t) \in 0 .. 99
  <2> HIDE DEF t
  <2> QED BY <1>4, <1>5, <1>6
<1> QED BY <1>7 DEF Length


LEMMA ReadingAgrees ==
  ASSUME NEW text \in Texts, NEW g, NEW h, NEW i \in Nat,
         i + 3 <= Len(text) /\ HasLength(text, i) => g[i + 4 + Length(text, i)] = h[i + 4 + Length(text, i)]
  PROVE  Reading(text, g, i) = Reading(text, h, i)
<1>0. Len(text) \in Nat
  BY DEF Texts
<1>1. CASE i + 3 > Len(text)
  BY <1>1 DEF Reading
<1>2. CASE i + 3 <= Len(text) /\ ~ HasLength(text, i)
  <2>1. ~ (i + 3 > Len(text))
    BY <1>0, <1>2
  <2> QED BY <1>2, <2>1 DEF Reading
<1>3. CASE i + 3 <= Len(text) /\ HasLength(text, i)
  <2>1. ~ (i + 3 > Len(text))
    BY <1>0, <1>3
  <2>2. g[i + 4 + Length(text, i)] = h[i + 4 + Length(text, i)]
    BY <1>3
  <2> QED BY <1>3, <2>1, <2>2, Zenon DEF Reading
<1> QED BY <1>0, <1>1, <1>2, <1>3

(* Whatever the text, the reader comes to an end of it.                     *)
LEMMA FromExists == ASSUME NEW text \in Texts PROVE IsReading(From(text), text)
<1> DEFINE N == Len(text)
           H == {n \in 0 .. N : \E h : \A i \in Nat : i + n >= N => h[i] = Reading(text, h, i)}
<1>0. N \in Nat
  BY DEF Texts
<1>1. 0 \in H
  <2> DEFINE h == [i \in Nat |-> <<>>]
  <2>1. \A i \in Nat : i + 0 >= N => h[i] = Reading(text, h, i)
    BY <1>0 DEF Reading
  <2>2. \E g : \A i \in Nat : i + 0 >= N => g[i] = Reading(text, g, i)
    <3> HIDE DEF h
    <3> QED BY <2>1
  <2> QED BY <2>2, <1>0
<1>2. ASSUME NEW n \in 0 .. N - 1, n \in H PROVE n + 1 \in H
  <2>1. PICK h : \A i \in Nat : i + n >= N => h[i] = Reading(text, h, i)
    BY <1>2
  <2> DEFINE g == [i \in Nat |-> IF i + n >= N THEN h[i] ELSE Reading(text, h, i)]
  <2>2. ASSUME NEW i \in Nat, i + (n + 1) >= N PROVE g[i] = Reading(text, g, i)
    <3>1. ASSUME i + 3 <= N, HasLength(text, i)
          PROVE  g[i + 4 + Length(text, i)] = h[i + 4 + Length(text, i)]
      <4>1. Length(text, i) \in 0 .. 99
        BY <3>1, LengthIs
      <4>2. ASSUME NEW l \in 0 .. 99 PROVE i + 4 + l \in Nat /\ i + 4 + l + n >= N
        BY <1>0, <2>2
      <4>3. i + 4 + Length(text, i) \in Nat /\ i + 4 + Length(text, i) + n >= N
        BY <4>1, <4>2
      <4> QED BY <4>3
    <3>2. Reading(text, g, i) = Reading(text, h, i)
      <4> HIDE DEF g
      <4> QED BY <3>1, ReadingAgrees
    <3>3. g[i] = Reading(text, h, i)
      BY <2>1, <2>2
    <3> QED BY <3>2, <3>3
  <2>3. \E f : \A i \in Nat : i + (n + 1) >= N => f[i] = Reading(text, f, i)
    <3> HIDE DEF g
    <3> QED BY <2>2
  <2> QED BY <2>3, <1>0
<1>3. N \in H
  <2> HIDE DEF H, N
  <2> QED BY <1>0, <1>1, <1>2, Climb
<1>4. PICK h : \A i \in Nat : i + N >= N => h[i] = Reading(text, h, i)
  BY <1>3
<1> DEFINE g == [i \in Nat |-> Reading(text, h, i)]
<1>5. \A i \in Nat : g[i] = h[i]
  BY <1>4, <1>0
<1>6. ASSUME NEW i \in Nat PROVE Reading(text, g, i) = Reading(text, h, i)
  <2>1. ASSUME i + 3 <= N, HasLength(text, i) PROVE i + 4 + Length(text, i) \in Nat
    <3>1. Length(text, i) \in 0 .. 99
      BY <2>1, LengthIs
    <3>2. \A l \in 0 .. 99 : i + 4 + l \in Nat
      OBVIOUS
    <3> QED BY <3>1, <3>2
  <2> HIDE DEF g
  <2> QED BY <1>5, <2>1, ReadingAgrees
<1>7. g = [i \in Nat |-> Reading(text, g, i)]
  BY <1>6
<1>8. IsReading(g, text)
  BY <1>7 DEF IsReading
<1> QED BY <1>8 DEF From

LEMMA FromIs ==
  ASSUME NEW text \in Texts, NEW i \in Nat
  PROVE  /\ i + 3 > Len(text) => From(text)[i] = <<>>
         /\ i + 3 <= Len(text) /\ ~ HasLength(text, i) => From(text)[i] = <<Broken>>
         /\ i + 3 <= Len(text) /\ HasLength(text, i) =>
              From(text)[i] = <<Piece(text, i)>> \o From(text)[i + 4 + Length(text, i)]
<1> DEFINE h == From(text)
<1>0. Len(text) \in Nat
  BY DEF Texts
<1>1. h = [k \in Nat |-> Reading(text, h, k)]
  <2> HIDE DEF h
  <2>1. IsReading(h, text)
    BY FromExists DEF h
  <2> QED BY <2>1 DEF IsReading
<1>2. h[i] = Reading(text, h, i)
  <2> HIDE DEF h
  <2> QED BY <1>1
<1>3. i + 3 <= Len(text) => ~ (i + 3 > Len(text))
  BY <1>0
<1> HIDE DEF h
<1>4. /\ i + 3 > Len(text) => h[i] = <<>>
      /\ i + 3 <= Len(text) /\ ~ HasLength(text, i) => h[i] = <<Broken>>
      /\ i + 3 <= Len(text) /\ HasLength(text, i) => h[i] = <<Piece(text, i)>> \o h[i + 4 + Length(text, i)]
  BY <1>2, <1>3, Zenon DEF Reading
<1> QED BY <1>4 DEF h

Fields == Texts \X {value \in Texts : Len(value) <= 99}

LEMMA PieceIs ==
  ASSUME NEW text \in Texts, NEW i \in Nat \ {0}, i + 3 <= Len(text), HasLength(text, i)
  PROVE  Piece(text, i) \in Fields /\ Len(Piece(text, i)[1]) = 2
<1> DEFINE t == SubSeq(text, i, i + 1)
           v == SubSeq(text, i + 4, Len(text))
           l == Length(text, i)
<1>0. Len(text) \in Nat /\ l \in 0 .. 99
  BY LengthIs DEF Texts
<1> HIDE DEF l
<1>1. \A j \in 1 .. Len(text) : text[j] \in Nat
  BY ElementOfSeq DEF Texts
<1>2. t \in Texts /\ Len(t) = 2
  <2>1. i \in Int /\ i + 1 \in Int /\ \A j \in i .. i + 1 : text[j] \in Nat
    BY <1>0, <1>1
  <2>2. t \in Seq(Nat) /\ Len(t) = IF i <= i + 1 THEN (i + 1) - i + 1 ELSE 0
    <3> HIDE DEF t
    <3> QED BY <2>1, SubSeqProperties DEF t
  <2> HIDE DEF t
  <2> QED BY <2>2 DEF Texts
<1>3. v \in Texts
  <2>1. i + 4 \in Int /\ Len(text) \in Int /\ \A j \in i + 4 .. Len(text) : text[j] \in Nat
    BY <1>0, <1>1
  <2> HIDE DEF v
  <2> QED BY <2>1, SubSeqProperties DEF v, Texts
<1>4. Cut(v, l) \in Texts /\ Len(Cut(v, l)) <= 99
  <2> HIDE DEF v
  <2> DEFINE n == IF Len(v) < l THEN Len(v) ELSE l
  <2>1. n \in 0 .. Len(v) /\ n <= 99 /\ Len(v) \in Nat
    BY <1>0, <1>3 DEF Texts
  <2>2. 1 \in Int /\ n \in Int /\ \A j \in 1 .. n : v[j] \in Nat
    BY <2>1, <1>3, ElementOfSeq DEF Texts
  <2> HIDE DEF n
  <2>3. SubSeq(v, 1, n) \in Seq(Nat) /\ Len(SubSeq(v, 1, n)) = IF 1 <= n THEN n - 1 + 1 ELSE 0
    BY <2>2, SubSeqProperties
  <2>4. Len(SubSeq(v, 1, n)) <= 99
    BY <2>1, <2>3
  <2> QED BY <2>3, <2>4 DEF Cut, n, Texts
<1>5. Piece(text, i) = <<t, Cut(v, l)>>
  BY DEF Piece, l
<1> HIDE DEF t, v
<1> QED BY <1>2, <1>4, <1>5 DEF Fields

(* The rest of the text is read as if nothing stood before it.              *)
LEMMA ReadingMoves ==
  ASSUME NEW a \in Texts, NEW b \in Texts, NEW j \in Nat \ {0}
  PROVE  From(a \o b)[Len(a) + j] = From(b)[j]
<1> DEFINE t == a \o b
           A == Len(a)
           N == Len(b)
           H == {n \in 0 .. N : \A k \in Nat \ {0} : k + n >= N => From(t)[A + k] = From(b)[k]}
<1>0. /\ A \in Nat /\ N \in Nat /\ t \in Texts /\ Len(t) = A + N
      /\ \A k \in 1 .. N : A + k \in 1 .. A + N /\ t[A + k] = b[k]
  <2>1. A \in Nat /\ N \in Nat
    BY DEF Texts
  <2>2. t \in Seq(Nat) /\ Len(t) = A + N /\ \A i \in 1 .. A + N : t[i] = IF i <= A THEN a[i] ELSE b[i - A]
    BY ConcatProperties DEF Texts
  <2> HIDE DEF t, A, N
  <2>3. ASSUME NEW k \in 1 .. N PROVE A + k \in 1 .. A + N /\ t[A + k] = b[k]
    <3>1. A + k \in 1 .. A + N /\ ~ (A + k <= A) /\ (A + k) - A = k
      BY <2>1
    <3> QED BY <2>2, <3>1
  <2> QED BY <2>1, <2>2, <2>3 DEF Texts
<1>1. ASSUME NEW m \in 1 .. N, NEW n \in 1 .. N PROVE SubSeq(t, A + m, A + n) = SubSeq(b, m, n)
  <2>1. A + m \in A + 1 .. A + N /\ A + n \in A + 1 .. A + N /\ (A + m) - A = m /\ (A + n) - A = n
    BY <1>0
  <2>2. SubSeq(a \o b, A + m, A + n) = SubSeq(b, (A + m) - A, (A + n) - A)
    BY <2>1, SubSeqOfConcat2 DEF Texts
  <2> HIDE DEF A, t
  <2> QED BY <2>1, <2>2, Zenon DEF t
<1> HIDE DEF t, A, N
<1>2. ASSUME NEW k \in Nat \ {0}, k + 3 <= N
      PROVE  /\ HasLength(t, A + k) = HasLength(b, k)
             /\ Length(t, A + k) = Length(b, k)
             /\ Piece(t, A + k) = Piece(b, k)
  <2>1. /\ k \in 1 .. N /\ k + 1 \in 1 .. N /\ k + 2 \in 1 .. N /\ k + 3 \in 1 .. N /\ N \in 1 .. N
        /\ (A + k) + 1 = A + (k + 1) /\ (A + k) + 2 = A + (k + 2) /\ (A + k) + 3 = A + (k + 3)
        /\ (A + k) + 4 = A + (k + 4)
    BY <1>0, <1>2
  <2>2. t[(A + k) + 2] = b[k + 2] /\ t[(A + k) + 3] = b[k + 3]
    BY <1>0, <2>1
  <2>3. SubSeq(t, (A + k) + 2, (A + k) + 3) = SubSeq(b, k + 2, k + 3)
    BY <1>1, <2>1
  <2>4. SubSeq(t, A + k, (A + k) + 1) = SubSeq(b, k, k + 1)
    BY <1>1, <2>1
  <2>5. SubSeq(t, (A + k) + 4, Len(t)) = SubSeq(b, k + 4, N)
    <3>1. CASE k + 4 <= N
      <4>1. k + 4 \in 1 .. N
        BY <1>0, <3>1
      <4> QED BY <1>0, <1>1, <2>1, <4>1
    <3>2. CASE k + 4 > N
      <4>1. /\ (A + k) + 4 \in Int /\ Len(t) \in Int /\ Len(t) < (A + k) + 4
            /\ k + 4 \in Int /\ N \in Int /\ N < k + 4
        BY <1>0, <3>2
      <4>2. SubSeq(t, (A + k) + 4, Len(t)) = <<>> /\ SubSeq(b, k + 4, N) = <<>>
        BY <4>1, SubSeqEmpty
      <4> QED BY <4>2
    <3> QED BY <1>0, <3>1, <3>2
  <2>6. HasLength(t, A + k) = HasLength(b, k)
    BY <2>2, Zenon DEF HasLength
  <2>7. Length(t, A + k) = Length(b, k)
    BY <2>3, Zenon DEF Length
  <2>8. Piece(t, A + k) = Piece(b, k)
    BY <2>4, <2>5, <2>7, Zenon DEF Piece, N
  <2> QED BY <2>6, <2>7, <2>8
<1>3. ASSUME NEW k \in Nat \ {0}, k + 3 > N PROVE From(t)[A + k] = From(b)[k]
  <2>1. A + k \in Nat /\ A + k + 3 > Len(t)
    BY <1>0, <1>3
  <2>2. From(t)[A + k] = <<>>
    BY <1>0, <2>1, FromIs
  <2>3. From(b)[k] = <<>>
    BY <1>3, FromIs DEF N
  <2> QED BY <2>2, <2>3
<1>4. ASSUME NEW k \in Nat \ {0}, k + 3 <= N,
             HasLength(b, k) => From(t)[A + (k + 4 + Length(b, k))] = From(b)[k + 4 + Length(b, k)]
      PROVE  From(t)[A + k] = From(b)[k]
  <2>1. A + k \in Nat /\ A + k + 3 <= Len(t)
    BY <1>0, <1>4
  <2>2. CASE ~ HasLength(b, k)
    <3>1. From(t)[A + k] = <<Broken>>
      BY <1>0, <1>2, <1>4, <2>1, <2>2, FromIs
    <3>2. From(b)[k] = <<Broken>>
      BY <1>4, <2>2, FromIs DEF N
    <3> QED BY <3>1, <3>2
  <2>3. CASE HasLength(b, k)
    <3>1. HasLength(t, A + k) /\ Length(t, A + k) = Length(b, k) /\ Piece(t, A + k) = Piece(b, k)
      BY <1>2, <1>4, <2>3
    <3>2. From(t)[A + k] = <<Piece(t, A + k)>> \o From(t)[A + k + 4 + Length(t, A + k)]
      BY <1>0, <2>1, <3>1, FromIs
    <3>3. From(b)[k] = <<Piece(b, k)>> \o From(b)[k + 4 + Length(b, k)]
      BY <1>4, <2>3, FromIs DEF N
    <3>4. A + k + 4 + Length(b, k) = A + (k + 4 + Length(b, k))
      <4>1. Length(b, k) \in 0 .. 99
        BY <1>4, <2>3, LengthIs DEF N
      <4>2. \A l \in 0 .. 99 : A + k + 4 + l = A + (k + 4 + l)
        BY <1>0
      <4> QED BY <4>1, <4>2
    <3>5. From(t)[A + k + 4 + Length(t, A + k)] = From(b)[k + 4 + Length(b, k)]
      BY <1>4, <2>3, <3>1, <3>4
    <3> QED BY <3>1, <3>2, <3>3, <3>5
  <2> QED BY <2>2, <2>3
<1>5. 0 \in H
  <2>1. \A k \in Nat \ {0} : k + 0 >= N => k + 3 > N
    BY <1>0
  <2> QED BY <1>0, <1>3, <2>1
<1>6. ASSUME NEW n \in 0 .. N - 1, n \in H PROVE n + 1 \in H
  <2>1. \A k \in Nat \ {0} : k + n >= N => From(t)[A + k] = From(b)[k]
    BY <1>6
  <2>2. ASSUME NEW k \in Nat \ {0}, k + (n + 1) >= N PROVE From(t)[A + k] = From(b)[k]
    <3>1. CASE k + 3 > N
      BY <1>3, <3>1
    <3>2. CASE k + 3 <= N
      <4>1. ASSUME HasLength(b, k)
            PROVE  From(t)[A + (k + 4 + Length(b, k))] = From(b)[k + 4 + Length(b, k)]
        <5>1. Length(b, k) \in 0 .. 99
          BY <3>2, <4>1, LengthIs DEF N
        <5>2. \A l \in 0 .. 99 : k + 4 + l \in Nat \ {0} /\ k + 4 + l + n >= N
          BY <1>0, <2>2
        <5>3. k + 4 + Length(b, k) \in Nat \ {0} /\ k + 4 + Length(b, k) + n >= N
          BY <5>1, <5>2
        <5> QED BY <2>1, <5>3
      <4> QED BY <1>4, <3>2, <4>1
    <3> QED BY <1>0, <3>1, <3>2
  <2> QED BY <1>0, <2>2
<1>7. N \in H
  <2> HIDE DEF H
  <2> QED BY <1>0, <1>5, <1>6, Climb
<1>8. j + N >= N
  BY <1>0
<1> QED BY <1>7, <1>8 DEF t, A

(* It finds values no longer than two digits can say.                       *)
LEMMA ParseTyped ==
  ASSUME NEW text \in Texts
  PROVE  /\ ParseTlv(text) \in Seq(Fields)
         /\ \A k \in 1 .. Len(ParseTlv(text)) :
              ParseTlv(text)[k] = Broken \/ Len(ParseTlv(text)[k][1]) = 2
<1> DEFINE N == Len(text)
           Read == {f \in Fields : f = Broken \/ Len(f[1]) = 2}
           H == {n \in 0 .. N : \A k \in Nat \ {0} : k + n >= N => From(text)[k] \in Seq(Read)}
<1>0. N \in Nat /\ Broken \in Read
  <2>1. N \in Nat /\ <<>> \in Texts /\ Len(<<>>) = 0
    BY EmptySeq DEF Texts
  <2>2. Broken \in Fields
    BY <2>1 DEF Broken, Fields
  <2> QED BY <2>1, <2>2
<1> HIDE DEF N, Read
<1>1. ASSUME NEW k \in Nat \ {0}, k + 3 > N PROVE From(text)[k] \in Seq(Read)
  <2>1. From(text)[k] = <<>>
    BY <1>1, FromIs DEF N
  <2> QED BY <2>1
<1>2. ASSUME NEW k \in Nat \ {0}, k + 3 <= N,
             HasLength(text, k) => From(text)[k + 4 + Length(text, k)] \in Seq(Read)
      PROVE  From(text)[k] \in Seq(Read)
  <2>1. CASE ~ HasLength(text, k)
    <3>1. From(text)[k] = <<Broken>>
      BY <1>2, <2>1, FromIs DEF N
    <3> QED BY <1>0, <3>1
  <2>2. CASE HasLength(text, k)
    <3>1. From(text)[k] = <<Piece(text, k)>> \o From(text)[k + 4 + Length(text, k)]
      BY <1>2, <2>2, FromIs DEF N
    <3>2. Piece(text, k) \in Read
      BY <1>2, <2>2, PieceIs DEF N, Read
    <3>3. <<Piece(text, k)>> \in Seq(Read)
      BY <3>2
    <3> QED BY <1>2, <2>2, <3>1, <3>3, ConcatProperties
  <2> QED BY <2>1, <2>2
<1>3. 0 \in H
  <2>1. \A k \in Nat \ {0} : k + 0 >= N => k + 3 > N
    BY <1>0
  <2> QED BY <1>0, <1>1, <2>1
<1>4. ASSUME NEW n \in 0 .. N - 1, n \in H PROVE n + 1 \in H
  <2>1. \A k \in Nat \ {0} : k + n >= N => From(text)[k] \in Seq(Read)
    BY <1>4
  <2>2. ASSUME NEW k \in Nat \ {0}, k + (n + 1) >= N PROVE From(text)[k] \in Seq(Read)
    <3>1. CASE k + 3 > N
      BY <1>1, <3>1
    <3>2. CASE k + 3 <= N
      <4>1. ASSUME HasLength(text, k) PROVE From(text)[k + 4 + Length(text, k)] \in Seq(Read)
        <5>1. Length(text, k) \in 0 .. 99
          BY <3>2, <4>1, LengthIs DEF N
        <5>2. \A l \in 0 .. 99 : k + 4 + l \in Nat \ {0} /\ k + 4 + l + n >= N
          BY <1>0, <2>2
        <5>3. k + 4 + Length(text, k) \in Nat \ {0} /\ k + 4 + Length(text, k) + n >= N
          BY <5>1, <5>2
        <5> QED BY <2>1, <5>3
      <4> QED BY <1>2, <3>2, <4>1
    <3> QED BY <1>0, <3>1, <3>2
  <2> QED BY <1>0, <2>2
<1>5. N \in H
  <2> HIDE DEF H
  <2> QED BY <1>0, <1>3, <1>4, Climb
<1>6. 1 \in Nat \ {0} /\ 1 + N >= N
  BY <1>0
<1>7. ParseTlv(text) \in Seq(Read)
  BY <1>5, <1>6, ParseDef
<1>8. Read \subseteq Fields
  BY DEF Read
<1>9. ParseTlv(text) \in Seq(Fields)
  BY <1>7, <1>8, SeqMonotonic
<1>10. \A k \in 1 .. Len(ParseTlv(text)) : ParseTlv(text)[k] \in Read
  BY <1>7, ElementOfSeq
<1> QED BY <1>9, <1>10 DEF Read

-----------------------------------------------------------------------------
(* Fields one after another.                                                *)

(* Each half of a text can be cut out again.                                *)
LEMMA Halves ==
  ASSUME NEW a \in Texts, NEW b \in Texts
  PROVE  /\ a \o b \in Texts /\ Len(a \o b) = Len(a) + Len(b)
         /\ SubSeq(a \o b, 1, Len(a)) = a
         /\ SubSeq(a \o b, Len(a) + 1, Len(a) + Len(b)) = b
<1> DEFINE A == Len(a)
           N == Len(b)
           t == a \o b
<1>1. A \in Nat /\ N \in Nat /\ a \in Seq(Nat) /\ b \in Seq(Nat)
  BY DEF Texts
<1>2. t \in Texts /\ Len(t) = A + N
  BY ConcatProperties DEF Texts
<1> HIDE DEF A, N
<1>3. SubSeq(t, 1, A) = a
  <2>1. CASE A = 0
    <3>1. a = <<>>
      BY <1>1, <2>1, EmptySeq DEF A
    <3>2. SubSeq(t, 1, A) = <<>>
      <4>1. 1 \in Int /\ A \in Int /\ A < 1
        BY <1>1, <2>1
      <4> HIDE DEF t
      <4> QED BY <4>1, SubSeqEmpty
    <3> QED BY <3>1, <3>2
  <2>2. CASE A # 0
    <3>1. 1 \in 1 .. Len(a) /\ A \in 1 .. Len(a)
      BY <1>1, <2>2 DEF A
    <3>2. SubSeq(t, 1, A) = SubSeq(a, 1, A)
      BY <1>1, <3>1, SubSeqOfConcat1
    <3>3. SubSeq(a, 1, A) = a
      BY <1>1, SubSeqFull DEF A
    <3> QED BY <3>2, <3>3
  <2> QED BY <2>1, <2>2
<1>4. SubSeq(t, A + 1, A + N) = b
  <2>1. CASE N = 0
    <3>1. b = <<>>
      BY <1>1, <2>1, EmptySeq DEF N
    <3>2. SubSeq(t, A + 1, A + N) = <<>>
      <4>1. A + 1 \in Int /\ A + N \in Int /\ A + N < A + 1
        BY <1>1, <2>1
      <4> HIDE DEF t
      <4> QED BY <4>1, SubSeqEmpty
    <3> QED BY <3>1, <3>2
  <2>2. CASE N # 0
    <3>1. /\ A + 1 \in A + 1 .. A + N /\ A + N \in A + 1 .. A + N
          /\ (A + 1) - A = 1 /\ (A + N) - A = N
      BY <1>1, <2>2
    <3>2. SubSeq(t, A + 1, A + N) = SubSeq(b, (A + 1) - A, (A + N) - A)
      BY <1>1, <3>1, SubSeqOfConcat2 DEF A, N
    <3>3. SubSeq(b, 1, N) = b
      BY <1>1, SubSeqFull DEF N
    <3> HIDE DEF t
    <3> QED BY <3>1, <3>2, <3>3, Zenon
  <2> QED BY <2>1, <2>2
<1> QED BY <1>2, <1>3, <1>4 DEF A, N

LEMMA ShortLength == ASSUME NEW value \in Texts, Len(value) <= 99 PROVE Len(value) \in 0 .. 99
<1>1. Len(value) \in Nat
  BY LenProperties DEF Texts
<1>2. \A n \in Nat : n <= 99 => n \in 0 .. 99
  OBVIOUS
<1> QED BY <1>1, <1>2

LEMMA TlvIs ==
  ASSUME NEW tag \in 0 .. 99, NEW value \in Texts, Len(value) <= 99
  PROVE  Tlv(tag, value) \in Texts /\ Len(Tlv(tag, value)) = 4 + Len(value)
<1> DEFINE x == TwoDigits(tag)
           y == TwoDigits(Len(value))
<1>1. Len(value) \in 0 .. 99
  BY ShortLength
<1>2. x \in Texts /\ Len(x) = 2 /\ y \in Texts /\ Len(y) = 2
  BY <1>1, TwoDigitsReadBack
<1>3. Tlv(tag, value) = (x \o y) \o value
  BY DEF Tlv
<1> HIDE DEF x, y
<1>4. x \o y \in Texts /\ Len(x \o y) = 4
  <2>1. x \o y \in Texts /\ Len(x \o y) = Len(x) + Len(y)
    BY <1>2, Halves
  <2> QED BY <1>2, <2>1
<1>5. (x \o y) \o value \in Texts /\ Len((x \o y) \o value) = 4 + Len(value)
  BY <1>4, Halves
<1> QED BY <1>3, <1>5

(* A field is read as it was built, and then the rest is.                   *)
LEMMA ParseField ==
  ASSUME NEW tag \in 0 .. 99, NEW value \in Texts, Len(value) <= 99, NEW rest \in Texts
  PROVE  ParseTlv(Tlv(tag, value) \o rest) = <<<<TwoDigits(tag), value>>>> \o ParseTlv(rest)
<1> DEFINE x == TwoDigits(tag)
           y == TwoDigits(Len(value))
           a == Tlv(tag, value)
           t == a \o rest
           w == value \o rest
           L == Len(value)
           R == Len(rest)
<1>0. L \in 0 .. 99 /\ R \in Nat /\ value \in Seq(Nat) /\ rest \in Seq(Nat)
  <2>1. value \in Seq(Nat) /\ rest \in Seq(Nat)
    BY DEF Texts
  <2>2. L \in 0 .. 99 /\ R \in Nat
    BY <2>1, ShortLength, LenProperties
  <2> QED BY <2>1, <2>2
<1>1. /\ x \in Texts /\ Len(x) = 2
      /\ y \in Texts /\ Len(y) = 2 /\ Number(y) = L /\ IsDigit(y[1]) /\ IsDigit(y[2])
  BY <1>0, TwoDigitsReadBack
<1>2. a = (x \o y) \o value /\ a \in Texts /\ Len(a) = 4 + L
  BY TlvIs DEF Tlv
<1> HIDE DEF x, y, a, L, R
<1>3. w \in Texts /\ Len(w) = L + R /\ SubSeq(w, 1, L) = value
  BY Halves DEF L, R
<1>4. t \in Texts /\ Len(t) = 4 + L + R
  BY <1>2, Halves DEF R
<1>5. t = (x \o y) \o w /\ t = x \o (y \o w)
  <2>1. x \o y \in Seq(Nat) /\ x \in Seq(Nat) /\ y \in Seq(Nat) /\ w \in Seq(Nat)
    BY <1>1, <1>3, ConcatProperties DEF Texts
  <2>2. t = (x \o y) \o w
    <3>1. ((x \o y) \o value) \o rest = (x \o y) \o (value \o rest)
      <4> DEFINE xy == x \o y
      <4>1. xy \in Seq(Nat)
        BY <2>1
      <4> HIDE DEF xy, w
      <4>2. (xy \o value) \o rest = xy \o (value \o rest)
        <5>1. value \in Seq(Nat) /\ rest \in Seq(Nat)
          BY <1>0
        <5> QED BY <4>1, <5>1, ConcatAssociative
      <4> QED BY <4>2 DEF xy
    <3> QED BY <1>2, <3>1
  <2>3. (x \o y) \o w = x \o (y \o w)
    <3> HIDE DEF w
    <3> QED BY <2>1, ConcatAssociative
  <2> QED BY <2>2, <2>3
<1> HIDE DEF t, w
<1>6. x \o y \in Texts /\ Len(x \o y) = 4
  <2>1. x \o y \in Texts /\ Len(x \o y) = Len(x) + Len(y)
    BY <1>1, Halves
  <2> QED BY <1>1, <2>1
<1>7. SubSeq(t, 5, Len(t)) = w
  <2>1. SubSeq((x \o y) \o w, Len(x \o y) + 1, Len(x \o y) + Len(w)) = w
    BY <1>3, <1>6, Halves
  <2>2. Len(x \o y) + 1 = 5 /\ Len(x \o y) + Len(w) = Len(t)
    BY <1>0, <1>3, <1>4, <1>6
  <2> QED BY <1>5, <2>1, <2>2, Zenon
<1>8. SubSeq(t, 1, 2) = x
  <2>1. y \o w \in Texts
    BY <1>1, <1>3, Halves
  <2>2. SubSeq(x \o (y \o w), 1, Len(x)) = x
    BY <1>1, <2>1, Halves
  <2> QED BY <1>1, <1>5, <2>2, Zenon
<1>9. SubSeq(t, 3, 4) = y /\ t[3] = y[1] /\ t[4] = y[2]
  <2>1. SubSeq(t, 1, 4) = x \o y
    <3>1. SubSeq((x \o y) \o w, 1, Len(x \o y)) = x \o y
      BY <1>3, <1>6, Halves
    <3> QED BY <1>5, <1>6, <3>1, Zenon
  <2>2. SubSeq(x \o y, 3, 4) = y
    <3>1. SubSeq(x \o y, Len(x) + 1, Len(x) + Len(y)) = y
      BY <1>1, Halves
    <3>2. Len(x) + 1 = 3 /\ Len(x) + Len(y) = 4
      BY <1>1
    <3> QED BY <3>1, <3>2, Zenon
  <2>3. SubSeq((x \o y) \o w, 3, 4) = SubSeq(x \o y, 3, 4)
    <3>1. 3 \in 1 .. Len(x \o y) /\ 4 \in 1 .. Len(x \o y) /\ x \o y \in Seq(Nat) /\ w \in Seq(Nat)
      BY <1>3, <1>6 DEF Texts
    <3> QED BY <3>1, SubSeqOfConcat1
  <2>4. t[3] = (x \o y)[3] /\ t[4] = (x \o y)[4]
    <3>1. /\ x \o y \in Seq(Nat) /\ w \in Seq(Nat)
          /\ 3 \in 1 .. Len(x \o y) + Len(w) /\ 3 <= Len(x \o y)
          /\ 4 \in 1 .. Len(x \o y) + Len(w) /\ 4 <= Len(x \o y)
      BY <1>0, <1>3, <1>6 DEF Texts
    <3>2. ((x \o y) \o w)[3] = (x \o y)[3] /\ ((x \o y) \o w)[4] = (x \o y)[4]
      BY <3>1, ConcatProperties
    <3> QED BY <1>5, <3>2
  <2>5. (x \o y)[3] = y[1] /\ (x \o y)[4] = y[2]
    <3>1. /\ x \in Seq(Nat) /\ y \in Seq(Nat)
          /\ 3 \in 1 .. Len(x) + Len(y) /\ ~ (3 <= Len(x)) /\ 3 - Len(x) = 1
          /\ 4 \in 1 .. Len(x) + Len(y) /\ ~ (4 <= Len(x)) /\ 4 - Len(x) = 2
      BY <1>1 DEF Texts
    <3> QED BY <3>1, ConcatProperties
  <2> QED BY <1>5, <2>2, <2>3, <2>4, <2>5
<1>10. 1 \in Nat /\ 1 + 1 = 2 /\ 1 + 2 = 3 /\ 1 + 3 = 4 /\ 1 + 4 = 5 /\ 1 + 3 <= Len(t)
  BY <1>0, <1>4
<1>11. HasLength(t, 1) /\ Length(t, 1) = L
  <2>1. HasLength(t, 1)
    BY <1>1, <1>9, <1>10, Zenon DEF HasLength
  <2>2. Length(t, 1) = L
    BY <1>1, <1>9, <1>10, Zenon DEF Length
  <2> QED BY <2>1, <2>2
<1>12. Cut(w, L) = value
  <2>1. ~ (Len(w) < L)
    BY <1>0, <1>3
  <2> QED BY <1>3, <2>1 DEF Cut
<1>13. Piece(t, 1) = <<x, value>>
  BY <1>7, <1>8, <1>10, <1>11, <1>12, Zenon DEF Piece
<1>14. From(t)[1] = <<<<x, value>>>> \o From(t)[1 + 4 + L]
  BY <1>4, <1>10, <1>11, <1>13, FromIs
<1>15. From(t)[Len(a) + 1] = From(rest)[1]
  <2>1. 1 \in Nat \ {0}
    OBVIOUS
  <2>2. From(a \o rest)[Len(a) + 1] = From(rest)[1]
    BY <1>2, <2>1, ReadingMoves
  <2> QED BY <2>2 DEF t
<1>16. Len(a) + 1 = 1 + 4 + L
  BY <1>0, <1>2
<1> QED BY <1>14, <1>15, <1>16, ParseDef DEF t, a, x

(* A text that ends where its last field ends.                              *)
Whole(a) ==
  /\ a \in Texts /\ ~ Malformed(a)
  /\ \A b \in Texts : ParseTlv(a \o b) = ParseTlv(a) \o ParseTlv(b)

Has(text, tag) == \E k \in DOMAIN ParseTlv(text) : ParseTlv(text)[k][1] = TwoDigits(tag)

(* Nothing is whole, and says nothing.                                      *)
LEMMA NothingIsWhole ==
  /\ Whole(<<>>) /\ ParseTlv(<<>>) = <<>>
  /\ \A tag : ~ Has(<<>>, tag) /\ Field(<<>>, tag) = <<>>
<1>1. <<>> \in Texts /\ Len(<<>>) = 0
  BY EmptySeq DEF Texts
<1>2. From(<<>>)[1] = <<>>
  <2> DEFINE t == <<>>
  <2>1. t \in Texts /\ 1 + 3 > Len(t)
    BY <1>1
  <2> HIDE DEF t
  <2>2. 1 \in Nat
    OBVIOUS
  <2>3. From(t)[1] = <<>>
    BY <2>1, <2>2, FromIs
  <2> QED BY <2>3 DEF t
<1>3. ParseTlv(<<>>) = <<>>
  BY <1>2, ParseDef
<1>4. ASSUME NEW b \in Texts PROVE ParseTlv(<<>> \o b) = ParseTlv(<<>>) \o ParseTlv(b)
  <2>1. ParseTlv(b) \in Seq(Fields)
    BY ParseTyped
  <2>2. <<>> \o b = b /\ <<>> \o ParseTlv(b) = ParseTlv(b)
    BY <2>1, ConcatEmptySeq DEF Texts
  <2> QED BY <1>3, <2>2
<1>5. ~ Malformed(<<>>)
  <2>1. \A i \in 1 .. 0 : FALSE
    OBVIOUS
  <2> QED BY <1>1, <1>3, <2>1 DEF Malformed, Contains
<1>6. DOMAIN ParseTlv(<<>>) = {}
  BY <1>3
<1>7. \A tag : ~ Has(<<>>, tag) /\ Field(<<>>, tag) = <<>>
  BY <1>6, Zenon DEF Has, Field
<1> QED BY <1>1, <1>3, <1>4, <1>5, <1>7 DEF Whole

(* Of two fields with one tag the later counts.                             *)
LEMMA LastHit ==
  ASSUME NEW text \in Texts, NEW tag, NEW k \in 1 .. Len(ParseTlv(text)),
         ParseTlv(text)[k][1] = TwoDigits(tag),
         \A j \in 1 .. Len(ParseTlv(text)) : ParseTlv(text)[j][1] = TwoDigits(tag) => j <= k
  PROVE  Has(text, tag) /\ Field(text, tag) = ParseTlv(text)[k][2]
<1> DEFINE P == ParseTlv(text)
           hits == {j \in DOMAIN P : P[j][1] = TwoDigits(tag)}
<1>1. P \in Seq(Fields) /\ Len(P) \in Nat /\ DOMAIN P = 1 .. Len(P)
  BY ParseTyped, LenProperties
<1>2. k \in hits /\ \A j \in hits : k >= j
  BY <1>1
<1>3. \A m \in hits : (\A j \in hits : m >= j) => m = k
  <2>1. hits \subseteq Nat
    BY <1>1
  <2> HIDE DEF hits
  <2> QED BY <1>2, <2>1
<1>4. Max(hits) = k
  <2> HIDE DEF hits
  <2> QED BY <1>2, <1>3 DEF Max
<1>5. Field(text, tag) = IF hits = {} THEN <<>> ELSE P[Max(hits)][2]
  BY DEF Field
<1> HIDE DEF hits
<1>6. Field(text, tag) = P[k][2]
  BY <1>2, <1>4, <1>5, Zenon
<1>7. Has(text, tag)
  BY <1>1 DEF Has
<1> QED BY <1>6, <1>7

LEMMA NoHit ==
  ASSUME NEW text, NEW tag, ~ Has(text, tag)
  PROVE  Field(text, tag) = <<>>
<1>1. {k \in DOMAIN ParseTlv(text) : ParseTlv(text)[k][1] = TwoDigits(tag)} = {}
  BY DEF Has
<1> QED BY <1>1, Zenon DEF Field

(* A field that is there is there a last time.                              *)
LEMMA HitIsLast ==
  ASSUME NEW text \in Texts, NEW tag, Has(text, tag)
  PROVE  \E k \in 1 .. Len(ParseTlv(text)) :
           /\ ParseTlv(text)[k][1] = TwoDigits(tag)
           /\ \A j \in 1 .. Len(ParseTlv(text)) : ParseTlv(text)[j][1] = TwoDigits(tag) => j <= k
<1> DEFINE P == ParseTlv(text)
           hits == {j \in 1 .. Len(P) : P[j][1] = TwoDigits(tag)}
<1>1. P \in Seq(Fields) /\ Len(P) \in Nat /\ DOMAIN P = 1 .. Len(P)
  BY ParseTyped, LenProperties
<1>2. hits # {} /\ hits \in SUBSET Nat
  BY <1>1 DEF Has
<1>3. IsFiniteSet(hits)
  <2>1. hits \subseteq 1 .. Len(P)
    OBVIOUS
  <2>2. IsFiniteSet(1 .. Len(P))
    BY <1>1, FS_Interval
  <2> HIDE DEF hits
  <2> QED BY <2>1, <2>2, FS_Subset
<1>4. Max(hits) \in hits /\ \A n \in hits : n <= Max(hits)
  <2> HIDE DEF hits
  <2> QED BY <1>2, <1>3, GreatestNumber
<1> QED BY <1>4

LEMMA FieldIs ==
  ASSUME NEW text \in Texts, NEW tag
  PROVE  Field(text, tag) \in Texts /\ Len(Field(text, tag)) <= 99
<1> DEFINE P == ParseTlv(text)
<1>1. CASE Has(text, tag)
  <2>1. PICK k \in 1 .. Len(P) :
           P[k][1] = TwoDigits(tag) /\ \A j \in 1 .. Len(P) : P[j][1] = TwoDigits(tag) => j <= k
    BY <1>1, HitIsLast
  <2>2. Field(text, tag) = P[k][2]
    BY <2>1, LastHit
  <2>3. P[k] \in Fields
    BY ParseTyped, ElementOfSeq
  <2>4. P[k][2] \in {value \in Texts : Len(value) <= 99}
    BY <2>3 DEF Fields
  <2> QED BY <2>2, <2>4
<1>2. CASE ~ Has(text, tag)
  <2>1. Field(text, tag) = <<>>
    BY <1>2, NoHit
  <2> QED BY <2>1, EmptySeq DEF Texts
<1> QED BY <1>1, <1>2

(* A field is whole,                                                        *)
LEMMA OneField ==
  ASSUME NEW tag \in 0 .. 99, NEW value \in Texts, Len(value) <= 99
  PROVE  Whole(Tlv(tag, value)) /\ ParseTlv(Tlv(tag, value)) = <<<<TwoDigits(tag), value>>>>
<1> DEFINE a == Tlv(tag, value)
           f == <<TwoDigits(tag), value>>
<1>1. a \in Texts
  BY TlvIs
<1>2. <<>> \in Texts /\ a \o <<>> = a
  BY <1>1, EmptySeq, ConcatEmptySeq DEF Texts
<1>3. \A b \in Texts : ParseTlv(a \o b) = <<f>> \o ParseTlv(b)
  BY ParseField
<1> HIDE DEF a
<1>4. ParseTlv(a) = <<f>>
  <2>1. ParseTlv(a \o <<>>) = <<f>> \o ParseTlv(<<>>)
    BY <1>2, <1>3
  <2>2. <<f>> \in Seq({f})
    OBVIOUS
  <2>3. <<f>> \o <<>> = <<f>>
    <3> HIDE DEF f
    <3> QED BY <2>2, ConcatEmptySeq
  <2> QED BY <1>2, <2>1, <2>3, NothingIsWhole
<1>5. ~ Malformed(a)
  <2>1. f # Broken
    <3>1. Len(TwoDigits(tag)) = 2 /\ Len(<<>>) = 0
      BY TwoDigitsReadBack
    <3>2. f[1] = TwoDigits(tag) /\ Broken[1] = <<>>
      BY DEF Broken
    <3> QED BY <3>1, <3>2
  <2>2. Len(<<f>>) = 1 /\ <<f>>[1] = f
    OBVIOUS
  <2> HIDE DEF f
  <2> QED BY <1>4, <2>1, <2>2 DEF Malformed, Contains
<1>6. \A b \in Texts : ParseTlv(a \o b) = ParseTlv(a) \o ParseTlv(b)
  BY <1>3, <1>4
<1>7. Whole(a)
  BY <1>1, <1>5, <1>6 DEF Whole
<1> QED BY <1>4, <1>7 DEF a

(* and so is one whole text after another.                                  *)
LEMMA BothWhole ==
  ASSUME NEW a, NEW b, Whole(a), Whole(b)
  PROVE  Whole(a \o b) /\ ParseTlv(a \o b) = ParseTlv(a) \o ParseTlv(b)
<1> DEFINE F == ParseTlv(a)
           G == ParseTlv(b)
           t == a \o b
<1>1. a \in Texts /\ b \in Texts /\ F \in Seq(Fields) /\ G \in Seq(Fields)
  BY ParseTyped DEF Whole
<1>2. t \in Texts /\ ParseTlv(t) = F \o G
  BY <1>1, Halves DEF Whole
<1>3. ASSUME NEW c \in Texts PROVE ParseTlv(t \o c) = ParseTlv(t) \o ParseTlv(c)
  <2>1. t \o c = a \o (b \o c)
    <3>1. a \in Seq(Nat) /\ b \in Seq(Nat) /\ c \in Seq(Nat)
      BY <1>1 DEF Texts
    <3> QED BY <3>1, ConcatAssociative
  <2>2. b \o c \in Texts /\ ParseTlv(c) \in Seq(Fields)
    BY <1>1, Halves, ParseTyped
  <2>3. ParseTlv(a \o (b \o c)) = F \o ParseTlv(b \o c)
    BY <2>2 DEF Whole
  <2>4. ParseTlv(b \o c) = G \o ParseTlv(c)
    BY DEF Whole
  <2>5. F \o (G \o ParseTlv(c)) = (F \o G) \o ParseTlv(c)
    <3> HIDE DEF F, G
    <3> QED BY <1>1, <2>2, ConcatAssociative
  <2> HIDE DEF F, G, t
  <2> QED BY <1>2, <2>1, <2>3, <2>4, <2>5
<1>4. ~ Malformed(t)
  <2> SUFFICES ASSUME Malformed(t) PROVE FALSE
    OBVIOUS
  <2> HIDE DEF t, F, G
  <2>1. PICK i \in 1 .. Len(F \o G) : (F \o G)[i] = Broken
    BY <1>2 DEF Malformed, Contains
  <2>2. Len(F \o G) = Len(F) + Len(G) /\ Len(F) \in Nat /\ Len(G) \in Nat
    BY <1>1, ConcatProperties, LenProperties
  <2>3. CASE i <= Len(F)
    <3>1. i \in 1 .. Len(F) + Len(G)
      BY <2>2
    <3>2. F[i] = Broken
      BY <1>1, <2>1, <2>3, <3>1, ConcatProperties
    <3>3. i \in 1 .. Len(F)
      BY <2>2, <2>3
    <3> QED BY <3>2, <3>3 DEF Whole, Malformed, Contains, F
  <2>4. CASE ~ (i <= Len(F))
    <3>1. i \in 1 .. Len(F) + Len(G)
      BY <2>2
    <3>2. G[i - Len(F)] = Broken
      BY <1>1, <2>1, <2>4, <3>1, ConcatProperties
    <3>3. i - Len(F) \in 1 .. Len(G)
      BY <2>2, <2>4
    <3> QED BY <3>2, <3>3 DEF Whole, Malformed, Contains, G
  <2> QED BY <2>3, <2>4
<1> QED BY <1>2, <1>3, <1>4 DEF Whole

(* q says what p says, and of the tag it says value.                        *)
Adds(q, p, tag, value) ==
  /\ Whole(q)
  /\ \A t \in 0 .. 99 : /\ Has(q, t) => t = tag \/ Has(p, t)
                        /\ Field(q, t) = IF t = tag THEN value ELSE Field(p, t)

LEMMA FieldAdded ==
  ASSUME NEW p, Whole(p), NEW tag \in 0 .. 99, NEW value \in Texts, Len(value) <= 99,
         NEW q, q = p \o Tlv(tag, value)
  PROVE  Adds(q, p, tag, value) /\ Whole(q)
<1> DEFINE P == ParseTlv(p)
           n == Len(P)
           f == <<TwoDigits(tag), value>>
<1>1. Whole(q) /\ ParseTlv(q) = P \o <<f>>
  <2>1. Whole(Tlv(tag, value)) /\ ParseTlv(Tlv(tag, value)) = <<f>>
    BY OneField
  <2> QED BY <2>1, BothWhole
<1>2. /\ p \in Texts /\ q \in Texts /\ P \in Seq(Fields) /\ n \in Nat /\ DOMAIN P = 1 .. n
  BY <1>1, ParseTyped, LenProperties DEF Whole
<1>3. f \in Fields /\ f[1] = TwoDigits(tag) /\ f[2] = value
  <2>1. TwoDigits(tag) \in Texts
    BY TwoDigitsReadBack
  <2> QED BY <2>1 DEF Fields
<1> HIDE DEF f, P, n
<1>4. /\ ParseTlv(q) \in Seq(Fields) /\ Len(ParseTlv(q)) = n + 1 /\ DOMAIN ParseTlv(q) = 1 .. n + 1
      /\ \A k \in 1 .. n : ParseTlv(q)[k] = P[k]
      /\ ParseTlv(q)[n + 1] = f
  <2>1. <<f>> \in Seq(Fields) /\ Len(<<f>>) = 1 /\ <<f>>[1] = f
    BY <1>3
  <2> DEFINE one == <<f>>
  <2> HIDE DEF one
  <2>2. one \in Seq(Fields) /\ Len(one) = 1 /\ one[1] = f
    BY <2>1 DEF one
  <2>3. /\ P \o one \in Seq(Fields) /\ Len(P \o one) = n + 1
        /\ \A k \in 1 .. n + 1 : (P \o one)[k] = IF k <= n THEN P[k] ELSE one[k - n]
    <3>1. /\ P \o one \in Seq(Fields) /\ Len(P \o one) = Len(P) + Len(one)
          /\ \A k \in 1 .. Len(P) + Len(one) : (P \o one)[k] = IF k <= Len(P) THEN P[k] ELSE one[k - Len(P)]
      BY <1>2, <2>2, ConcatProperties
    <3>2. Len(P) = n /\ Len(P) + Len(one) = n + 1
      BY <2>2 DEF n
    <3> QED BY <3>1, <3>2
  <2>4. /\ \A k \in 1 .. n : (P \o one)[k] = P[k]
        /\ (P \o one)[n + 1] = f
    <3>1. n + 1 \in 1 .. n + 1 /\ ~ (n + 1 <= n) /\ (n + 1) - n = 1
      BY <1>2
    <3>2. \A k \in 1 .. n : k \in 1 .. n + 1 /\ k <= n
      BY <1>2
    <3> QED BY <2>2, <2>3, <3>1, <3>2
  <2>5. ParseTlv(q) = P \o one
    BY <1>1 DEF one
  <2>6. DOMAIN (P \o one) = 1 .. n + 1
    BY <2>3, LenProperties
  <2> QED BY <2>3, <2>4, <2>5, <2>6
<1>5. ASSUME NEW t \in 0 .. 99, TwoDigits(t) = TwoDigits(tag) PROVE t = tag
  <2>1. Number(TwoDigits(t)) = t /\ Number(TwoDigits(tag)) = tag
    BY TwoDigitsReadBack
  <2> QED BY <1>5, <2>1
<1>6. Has(q, tag) /\ Field(q, tag) = value
  <2>1. n + 1 \in 1 .. Len(ParseTlv(q)) /\ ParseTlv(q)[n + 1][1] = TwoDigits(tag)
        /\ \A j \in 1 .. Len(ParseTlv(q)) : j <= n + 1
    BY <1>2, <1>3, <1>4
  <2>2. Has(q, tag) /\ Field(q, tag) = ParseTlv(q)[n + 1][2]
    BY <1>2, <2>1, LastHit
  <2> QED BY <1>3, <1>4, <2>2
<1>7. ASSUME NEW t \in 0 .. 99, t # tag
      PROVE  (Has(q, t) <=> Has(p, t)) /\ Field(q, t) = Field(p, t)
  <2>0. ParseTlv(q)[n + 1][1] # TwoDigits(t)
    BY <1>3, <1>4, <1>5, <1>7
  <2>1. CASE Has(p, t)
    <3>1. PICK k \in 1 .. n :
             P[k][1] = TwoDigits(t) /\ \A j \in 1 .. n : P[j][1] = TwoDigits(t) => j <= k
      BY <1>2, <2>1, HitIsLast DEF P, n
    <3>2. /\ k \in 1 .. Len(ParseTlv(q)) /\ ParseTlv(q)[k] = P[k]
          /\ \A j \in 1 .. Len(ParseTlv(q)) : j \in 1 .. n \/ j = n + 1
      BY <1>2, <1>4
    <3>3. \A j \in 1 .. Len(ParseTlv(q)) : ParseTlv(q)[j][1] = TwoDigits(t) => j <= k
      BY <1>4, <2>0, <3>1, <3>2
    <3>4. Has(q, t) /\ Field(q, t) = ParseTlv(q)[k][2]
      BY <1>2, <3>1, <3>2, <3>3, LastHit
    <3>5. Field(p, t) = P[k][2]
      BY <1>2, <3>1, LastHit DEF P, n
    <3> QED BY <2>1, <3>2, <3>4, <3>5
  <2>2. CASE ~ Has(p, t)
    <3>1. ~ Has(q, t)
      <4>1. \A j \in 1 .. n + 1 : j \in 1 .. n \/ j = n + 1
        BY <1>2
      <4>2. \A j \in 1 .. n : P[j][1] # TwoDigits(t)
        BY <1>2, <2>2 DEF Has, P
      <4> QED BY <1>4, <2>0, <4>1, <4>2 DEF Has
    <3> QED BY <2>2, <3>1, NoHit
  <2> QED BY <2>1, <2>2
<1>8. \A t \in 0 .. 99 : /\ Has(q, t) => t = tag \/ Has(p, t)
                         /\ Field(q, t) = IF t = tag THEN value ELSE Field(p, t)
  BY <1>6, <1>7
<1> QED BY <1>1, <1>8 DEF Adds

LEMMA CutIs ==
  ASSUME NEW text \in Texts, NEW n \in Nat
  PROVE  Cut(text, n) \in Texts /\ Len(Cut(text, n)) <= n
<1> DEFINE m == IF Len(text) < n THEN Len(text) ELSE n
<1>1. Len(text) \in Nat
  BY LenProperties DEF Texts
<1>2. m \in 0 .. Len(text) /\ m <= n
  BY <1>1
<1>3. 1 \in Int /\ m \in Int /\ \A j \in 1 .. m : text[j] \in Nat
  BY <1>1, <1>2, ElementOfSeq DEF Texts
<1>4. Cut(text, n) = SubSeq(text, 1, m)
  BY DEF Cut
<1> HIDE DEF m
<1>5. SubSeq(text, 1, m) \in Seq(Nat) /\ Len(SubSeq(text, 1, m)) = IF 1 <= m THEN m - 1 + 1 ELSE 0
  BY <1>3, SubSeqProperties
<1>6. Len(SubSeq(text, 1, m)) <= n
  BY <1>1, <1>2, <1>5
<1> QED BY <1>4, <1>5, <1>6 DEF Texts

LEMMA CutNothing == ASSUME NEW n \in Nat PROVE Cut(<<>>, n) = <<>>
<1>1. Cut(<<>>, n) \in Texts /\ Cut(<<>>, n) = SubSeq(<<>>, 1, IF Len(<<>>) < n THEN Len(<<>>) ELSE n)
  BY CutIs, EmptySeq DEF Cut, Texts
<1>2. Len(<<>>) = 0 /\ (IF Len(<<>>) < n THEN Len(<<>>) ELSE n) = 0
  OBVIOUS
<1>3. 1 \in Int /\ 0 \in Int /\ 0 < 1
  OBVIOUS
<1>4. SubSeq(<<>>, 1, 0) = <<>>
  <2> DEFINE t == <<>>
  <2> HIDE DEF t
  <2>1. SubSeq(t, 1, 0) = <<>>
    BY <1>3, SubSeqEmpty
  <2> QED BY <2>1 DEF t
<1> QED BY <1>1, <1>2, <1>4

(* A part of an account that is left out says nothing, as an empty one.     *)
LEMMA OptionalAdded ==
  ASSUME NEW p, Whole(p), NEW tag \in 0 .. 99, NEW text \in Texts, ~ Has(p, tag),
         NEW q, q = p \o Optional(tag, text)
  PROVE  Adds(q, p, tag, Cut(text, 32))
<1>1. CASE text = <<>>
  <2>1. q = p
    <3>1. Optional(tag, text) = <<>>
      BY <1>1 DEF Optional
    <3> QED BY <3>1, ConcatEmptySeq DEF Whole, Texts
  <2>2. Field(p, tag) = Cut(text, 32)
    BY <1>1, NoHit, CutNothing
  <2>3. \A t \in 0 .. 99 : /\ Has(q, t) => t = tag \/ Has(p, t)
                           /\ Field(q, t) = IF t = tag THEN Cut(text, 32) ELSE Field(p, t)
    BY <2>1, <2>2
  <2> QED BY <2>1, <2>3 DEF Adds
<1>2. CASE text # <<>>
  <2>1. Cut(text, 32) \in Texts /\ Len(Cut(text, 32)) <= 99
    <3>1. Cut(text, 32) \in Texts /\ Len(Cut(text, 32)) <= 32 /\ Len(Cut(text, 32)) \in Nat
      BY CutIs, LenProperties DEF Texts
    <3> QED BY <3>1
  <2>2. Optional(tag, text) = Tlv(tag, Cut(text, 32))
    BY <1>2 DEF Optional
  <2>3. q = p \o Tlv(tag, Cut(text, 32))
    BY <2>2
  <2> QED BY <2>1, <2>3, FieldAdded
<1> QED BY <1>1, <1>2

LEMMA Short == ASSUME NEW text \in Texts, NEW n \in 0 .. 99, Len(text) <= n PROVE Len(text) <= 99
<1>1. Len(text) \in Nat
  BY LenProperties DEF Texts
<1> QED BY <1>1

-----------------------------------------------------------------------------
(* The parts of a code.                                                     *)

(* A single field says its value and nothing else.                          *)
LEMMA Alone ==
  ASSUME NEW tag \in 0 .. 99, NEW value \in Texts, Len(value) <= 99
  PROVE  LET q == Tlv(tag, value)
         IN  Whole(q) /\ \A t \in 0 .. 99 : /\ Has(q, t) => t = tag
                                            /\ Field(q, t) = IF t = tag THEN value ELSE <<>>
<1>1. PICK q : q = Tlv(tag, value)
  OBVIOUS
<1>2. q = <<>> \o Tlv(tag, value)
  BY <1>1, TlvIs, ConcatEmptySeq DEF Texts
<1>3. Whole(<<>>)
  BY NothingIsWhole
<1>4. Adds(q, <<>>, tag, value)
  BY <1>2, <1>3, FieldAdded, Zenon
<1>5. Whole(q) /\ \A t \in 0 .. 99 : /\ Has(q, t) => t = tag
                                     /\ Field(q, t) = IF t = tag THEN value ELSE <<>>
  BY <1>4, NothingIsWhole DEF Adds
<1> QED BY <1>1, <1>5

(* The parts of an account are read back, the optional ones too.            *)
LEMMA AccountReadsBack ==
  ASSUME NEW s \in Setups
  PROVE  /\ Whole(Account(s))
         /\ Field(Account(s), 0) = Cut(s.account, 32)
         /\ Field(Account(s), 1) = Cut(s.information, 32)
         /\ Field(Account(s), 2) = Cut(s.bank, 32)
<1>1. s.account \in Texts /\ s.information \in Texts /\ s.bank \in Texts
  BY QrAssumption DEF Texts
<1>2. PICK a : a = Tlv(0, Cut(s.account, 32))
  OBVIOUS
<1>3. Whole(a) /\ \A t \in 0 .. 99 : /\ Has(a, t) => t = 0
                                     /\ Field(a, t) = IF t = 0 THEN Cut(s.account, 32) ELSE <<>>
  <2>1. PICK v : v = Cut(s.account, 32)
    OBVIOUS
  <2>2. 0 \in 0 .. 99 /\ v \in Texts /\ Len(v) <= 99
    BY <1>1, <2>1, CutIs, Short
  <2>3. a = Tlv(0, v)
    BY <1>2, <2>1
  <2>4. Whole(a) /\ \A t \in 0 .. 99 : (Has(a, t) => t = 0) /\ Field(a, t) = IF t = 0 THEN v ELSE <<>>
    BY <2>2, <2>3, Alone, ZenonT(40)
  <2> QED BY <2>1, <2>4
<1>4. PICK b : b = a \o Optional(1, s.information)
  OBVIOUS
<1>5. Adds(b, a, 1, Cut(s.information, 32))
  <2>1. 1 \in 0 .. 99 /\ Whole(a) /\ ~ Has(a, 1)
    BY <1>3
  <2> QED BY <1>1, <1>4, <2>1, OptionalAdded, Zenon
<1>6. PICK c : c = b \o Optional(2, s.bank)
  OBVIOUS
<1>7. Adds(c, b, 2, Cut(s.bank, 32))
  <2>1. 2 \in 0 .. 99 /\ Whole(b) /\ ~ Has(b, 2)
    BY <1>3, <1>5 DEF Adds
  <2> QED BY <1>1, <1>6, <2>1, OptionalAdded, Zenon
<1>8. Account(s) = c
  BY <1>2, <1>4, <1>6 DEF Account
<1> QED BY <1>3, <1>5, <1>7, <1>8 DEF Adds

(* When a code was made, and with an account when it ends.                  *)
LEMMA StampReadsBack ==
  ASSUME NEW now \in Moments
  PROVE  LET q == Tlv(0, Decimal(now))
         IN  Whole(q) /\ Len(q) <= 99 /\ Field(q, 1) = <<>> /\ ~ Has(q, 1)
<1>1. PICK v : v = Decimal(now)
  OBVIOUS
<1>2. 0 \in 0 .. 99 /\ v \in Texts /\ Len(v) <= 13 /\ Len(v) <= 99
  BY <1>1, QrAssumption, DecimalReadsBack, Short
<1>3. PICK q : q = Tlv(0, v)
  OBVIOUS
<1>4. Whole(q) /\ \A t \in 0 .. 99 : /\ Has(q, t) => t = 0
                                     /\ Field(q, t) = IF t = 0 THEN v ELSE <<>>
  BY <1>2, <1>3, Alone, ZenonT(40)
<1>5. Field(q, 1) = <<>> /\ ~ Has(q, 1)
  BY <1>4
<1>6. Len(q) <= 99
  <2>1. Len(q) = 4 + Len(v)
    BY <1>2, <1>3, TlvIs
  <2>2. Len(v) \in Nat
    BY <1>2, LenProperties DEF Texts
  <2> QED BY <1>2, <2>1, <2>2
<1> QED BY <1>1, <1>3, <1>4, <1>5, <1>6, Zenon

LEMMA StampsReadBack ==
  ASSUME NEW now \in Moments, NEW s \in Setups
  PROVE  LET q == Tlv(0, Decimal(now)) \o Tlv(1, Decimal(Expiry(s, now)))
         IN  Whole(q) /\ Len(q) <= 99 /\ Field(q, 1) = Decimal(Expiry(s, now))
<1> DEFINE d == Decimal(Expiry(s, now))
<1>1. now \in Nat /\ Expiry(s, now) \in Nat /\ Len(Decimal(now)) <= 13 /\ Len(d) <= 13
  BY QrAssumption DEF Expiry
<1>2. Decimal(now) \in Texts /\ d \in Texts
  BY <1>1, DecimalReadsBack
<1> HIDE DEF d
<1>3. PICK a : a = Tlv(0, Decimal(now))
  OBVIOUS
<1>4. PICK q : q = a \o Tlv(1, d)
  OBVIOUS
<1>5. Whole(a)
  BY <1>3, StampReadsBack
<1>6. Adds(q, a, 1, d)
  <2>1. 1 \in 0 .. 99 /\ Len(d) <= 99
    BY <1>1, <1>2, Short
  <2> QED BY <1>2, <1>4, <1>5, <2>1, FieldAdded, Zenon
<1>7. Len(q) <= 99
  <2>1. 0 \in 0 .. 99 /\ 1 \in 0 .. 99 /\ Len(Decimal(now)) <= 99 /\ Len(d) <= 99
    BY <1>1, <1>2, Short
  <2>2. /\ a \in Texts /\ Len(a) = 4 + Len(Decimal(now))
        /\ Tlv(1, d) \in Texts /\ Len(Tlv(1, d)) = 4 + Len(d)
    BY <1>2, <1>3, <2>1, TlvIs
  <2>3. Len(q) = Len(a) + Len(Tlv(1, d))
    BY <1>4, <2>2, Halves
  <2>4. Len(Decimal(now)) \in Nat /\ Len(d) \in Nat
    BY <1>2, LenProperties DEF Texts
  <2> QED BY <1>1, <2>2, <2>3, <2>4
<1>8. Whole(q) /\ Field(q, 1) = d
  BY <1>6 DEF Adds
<1> QED BY <1>3, <1>4, <1>7, <1>8, Zenon DEF d

(* The fields from 52 on, and the checksum after them.                      *)
LEMMA Joins ==
  ASSUME NEW a \in Texts, NEW b \in Texts, NEW c \in Texts
  PROVE  (a \o b) \o c = a \o (b \o c)
<1>1. a \in Seq(Nat) /\ b \in Seq(Nat) /\ c \in Seq(Nat)
  BY DEF Texts
<1> QED BY <1>1, ConcatAssociative

LEMMA PairsJoin == ASSUME NEW u, NEW v, NEW x, NEW y PROVE <<u, v>> \o <<x, y>> = <<u, v, x, y>>
<1> DEFINE S == {u, v, x, y}
           a == <<u, v>>
           b == <<x, y>>
           c == <<u, v, x, y>>
<1>1. /\ a \in Seq(S) /\ Len(a) = 2 /\ a[1] = u /\ a[2] = v
      /\ b \in Seq(S) /\ Len(b) = 2 /\ b[1] = x /\ b[2] = y
      /\ c \in Seq(S) /\ Len(c) = 4 /\ c[1] = u /\ c[2] = v /\ c[3] = x /\ c[4] = y
  OBVIOUS
<1> HIDE DEF a, b, c, S
<1>2. /\ a \o b \in Seq(S) /\ Len(a \o b) = Len(a) + Len(b)
      /\ \A i \in 1 .. Len(a) + Len(b) : (a \o b)[i] = IF i <= Len(a) THEN a[i] ELSE b[i - Len(a)]
  BY <1>1, ConcatProperties
<1>3. Len(a \o b) = Len(c)
  BY <1>1, <1>2
<1>4. ASSUME NEW i \in 1 .. Len(a \o b) PROVE (a \o b)[i] = c[i]
  <2>1. i \in {1, 2, 3, 4} /\ i \in 1 .. Len(a) + Len(b)
    BY <1>1, <1>2
  <2>2. (a \o b)[i] = IF i <= 2 THEN a[i] ELSE b[i - 2]
    BY <1>1, <1>2, <2>1
  <2> QED BY <1>1, <2>1, <2>2
<1>5. a \o b = c
  BY <1>1, <1>2, <1>3, <1>4, SeqEqual
<1> QED BY <1>5 DEF a, b, c

(* What the two digits of a length can hold. *)
Held == {value \in Texts : Len(value) <= 99}

(* A QR after its payee. *)
Details == [category : Held, money : Held, country : Held, name : Held, city : Held,
            bill : Held, stamps : Held]

Detailed(p, all) ==
  Sealed(p \o Tlv(52, all.category) \o Tlv(53, UsDollar) \o Tlv(54, all.money)
         \o Tlv(58, all.country) \o Tlv(59, all.name) \o Tlv(60, all.city)
         \o Tlv(62, all.bill) \o Tlv(99, all.stamps))

(* They are added to what the payee's fields say.                           *)
LEMMA DetailsAdded ==
  ASSUME NEW p, Whole(p), NEW all \in Details, NEW q, q = Detailed(p, all)
  PROVE  /\ Whole(q)
         /\ Field(q, 54) = all.money /\ Field(q, 62) = all.bill /\ Field(q, 99) = all.stamps
         /\ \A t \in AccountTags : Field(q, t) = Field(p, t)
<1>0. /\ 52 \in 0 .. 99 /\ 53 \in 0 .. 99 /\ 54 \in 0 .. 99 /\ 58 \in 0 .. 99 /\ 59 \in 0 .. 99
      /\ 60 \in 0 .. 99 /\ 62 \in 0 .. 99 /\ 63 \in 0 .. 99 /\ 99 \in 0 .. 99
  OBVIOUS
<1>a. PICK category, money, country, name, city, bill, stamps :
        /\ category = all.category /\ money = all.money /\ country = all.country
        /\ name = all.name /\ city = all.city /\ bill = all.bill /\ stamps = all.stamps
  OBVIOUS
<1>b. /\ category \in Texts /\ Len(category) <= 99 /\ money \in Texts /\ Len(money) <= 99
      /\ country \in Texts /\ Len(country) <= 99 /\ name \in Texts /\ Len(name) <= 99
      /\ city \in Texts /\ Len(city) <= 99 /\ bill \in Texts /\ Len(bill) <= 99
      /\ stamps \in Texts /\ Len(stamps) <= 99
  BY <1>a DEF Details, Held
<1>1. PICK a : a = p \o Tlv(52, category)
  OBVIOUS
<1>2. PICK b : b = a \o Tlv(53, UsDollar)
  OBVIOUS
<1>3. PICK c : c = b \o Tlv(54, money)
  OBVIOUS
<1>4. PICK d : d = c \o Tlv(58, country)
  OBVIOUS
<1>5. PICK e : e = d \o Tlv(59, name)
  OBVIOUS
<1>6. PICK f : f = e \o Tlv(60, city)
  OBVIOUS
<1>7. PICK g : g = f \o Tlv(62, bill)
  OBVIOUS
<1>8. PICK h : h = g \o Tlv(99, stamps)
  OBVIOUS
<1>9. UsDollar \in Texts /\ Len(UsDollar) <= 99
  BY DEF UsDollar, Texts
<1>10. Adds(a, p, 52, category) /\ Whole(a)
  BY <1>0, <1>b, <1>1, FieldAdded, Zenon
<1>11. Adds(b, a, 53, UsDollar) /\ Whole(b)
  BY <1>0, <1>b, <1>2, <1>9, <1>10, FieldAdded, Zenon
<1>12. Adds(c, b, 54, money) /\ Whole(c)
  BY <1>0, <1>b, <1>3, <1>11, FieldAdded, Zenon
<1>13. Adds(d, c, 58, country) /\ Whole(d)
  BY <1>0, <1>b, <1>4, <1>12, FieldAdded, Zenon
<1>14. Adds(e, d, 59, name) /\ Whole(e)
  BY <1>0, <1>b, <1>5, <1>13, FieldAdded, Zenon
<1>15. Adds(f, e, 60, city) /\ Whole(f)
  BY <1>0, <1>b, <1>6, <1>14, FieldAdded, Zenon
<1>16. Adds(g, f, 62, bill) /\ Whole(g)
  BY <1>0, <1>b, <1>7, <1>15, FieldAdded, Zenon
<1>17. Adds(h, g, 99, stamps) /\ Whole(h)
  BY <1>0, <1>b, <1>8, <1>16, FieldAdded, Zenon
<1>18. q = h \o Tlv(63, <<32, 32, 32, 32>>)
  <2> DEFINE blank == <<32, 32, 32, 32>>
             tag == <<54, 51, 48, 52>>
  <2>1. q = (h \o tag) \o blank
    BY <1>a, <1>1, <1>2, <1>3, <1>4, <1>5, <1>6, <1>7, <1>8, Zenon DEF Detailed, Sealed
  <2>2. Tlv(63, blank) = tag \o blank
    <3>1. TwoDigits(63) = <<54, 51>> /\ TwoDigits(4) = <<48, 52>>
      <4>1. /\ 48 + (63 \div 10) = 54 /\ 48 + (63 % 10) = 51
            /\ 48 + (4 \div 10) = 48 /\ 48 + (4 % 10) = 52
        OBVIOUS
      <4>2. /\ TwoDigits(63) = <<48 + (63 \div 10), 48 + (63 % 10)>>
            /\ TwoDigits(4) = <<48 + (4 \div 10), 48 + (4 % 10)>>
        <5>1. 63 \in 0 .. 99 /\ 4 \in 0 .. 99
          OBVIOUS
        <5> QED BY <5>1, TwoDigitsAre, Zenon
      <4> QED BY <4>1, <4>2, Zenon
    <3>2. Len(blank) = 4
      OBVIOUS
    <3>3. <<54, 51>> \o <<48, 52>> = tag
      BY PairsJoin, Zenon
    <3> QED BY <3>1, <3>2, <3>3, Zenon DEF Tlv
  <2>3. h \in Texts /\ tag \in Texts /\ blank \in Texts
    BY <1>17 DEF Whole, Texts
  <2> HIDE DEF tag, blank
  <2>4. \A u, v \in Texts : (h \o u) \o v = h \o (u \o v)
    BY <2>3, Joins
  <2>5. (h \o tag) \o blank = h \o (tag \o blank)
    BY <2>3, <2>4
  <2> QED BY <2>1, <2>2, <2>5, Zenon DEF blank
<1>19. Adds(q, h, 63, <<32, 32, 32, 32>>)
  <2>1. <<32, 32, 32, 32>> \in Texts /\ Len(<<32, 32, 32, 32>>) <= 99
    BY DEF Texts
  <2> QED BY <1>0, <1>17, <1>18, <2>1, FieldAdded, Zenon
<1>20. \A t \in 0 .. 99 :
         Field(q, t) = IF t = 63 THEN <<32, 32, 32, 32>> ELSE IF t = 99 THEN stamps
                       ELSE IF t = 62 THEN bill ELSE Field(f, t)
  <2> TAKE t \in 0 .. 99
  <2>1. Field(q, t) = IF t = 63 THEN <<32, 32, 32, 32>> ELSE Field(h, t)
    BY <1>19, Zenon DEF Adds
  <2>2. Field(h, t) = IF t = 99 THEN stamps ELSE Field(g, t)
    BY <1>17, Zenon DEF Adds
  <2>3. Field(g, t) = IF t = 62 THEN bill ELSE Field(f, t)
    BY <1>16, Zenon DEF Adds
  <2> QED BY <2>1, <2>2, <2>3
<1>21. \A t \in 0 .. 99 : t \notin {52, 53, 58, 59, 60} =>
         Field(f, t) = IF t = 54 THEN money ELSE Field(p, t)
  <2>1. \A t \in 0 .. 99 : t \notin {52, 53, 58, 59, 60} => Field(f, t) = Field(c, t)
    BY <1>13, <1>14, <1>15 DEF Adds
  <2>2. \A t \in 0 .. 99 : t \notin {52, 53, 58, 59, 60} =>
          Field(c, t) = IF t = 54 THEN money ELSE Field(p, t)
    BY <1>10, <1>11, <1>12 DEF Adds
  <2> QED BY <2>1, <2>2
<1>22. Field(q, 54) = money /\ Field(q, 62) = bill /\ Field(q, 99) = stamps
  BY <1>20, <1>21
<1>23. \A t \in AccountTags : Field(q, t) = Field(p, t)
  <2>1. \A t \in AccountTags : t \in 0 .. 99 /\ t \notin {52, 53, 54, 58, 59, 60, 62, 63, 99}
    BY DEF AccountTags
  <2> TAKE t \in AccountTags
  <2>2. Field(q, t) = Field(f, t)
    BY <1>20, <2>1
  <2>3. Field(f, t) = Field(p, t)
    BY <1>21, <2>1
  <2> QED BY <2>2, <2>3
<1>24. Whole(q)
  BY <1>19 DEF Adds
<1> QED BY <1>a, <1>22, <1>23, <1>24

(* FlattenSeq, a part at a time.                                            *)
IsFlat(v, seqs) ==
  v = [i \in 1 .. Len(seqs) |-> IF i = 1 THEN seqs[i] ELSE v[i - 1] \o seqs[i]]

Flat(seqs) == CHOOSE v : IsFlat(v, seqs)

LEMMA FlattenDef ==
  ASSUME NEW seqs, Len(seqs) # 0
  PROVE  FlattenSeq(seqs) = Flat(seqs)[Len(seqs)]
BY DEF FlattenSeq, Flat, IsFlat

LEMMA FlatExists == ASSUME NEW seqs, Len(seqs) \in Nat PROVE IsFlat(Flat(seqs), seqs)
<1> DEFINE N == Len(seqs)
           B(v, i) == IF i = 1 THEN seqs[i] ELSE v[i - 1] \o seqs[i]
           H == {n \in 0 .. N : \E v : \A i \in 1 .. n : v[i] = B(v, i)}
<1>1. 0 \in H
  <2>1. \A v : \A i \in 1 .. 0 : v[i] = B(v, i)
    OBVIOUS
  <2> QED BY <2>1
<1>2. ASSUME NEW n \in 0 .. N - 1, n \in H PROVE n + 1 \in H
  <2>1. PICK v : \A i \in 1 .. n : v[i] = B(v, i)
    BY <1>2
  <2> DEFINE w == [i \in 1 .. n + 1 |-> IF i <= n THEN v[i] ELSE B(v, i)]
  <2>2. ASSUME NEW i \in 1 .. n + 1 PROVE w[i] = B(w, i)
    <3>1. i # 1 => i - 1 \in 1 .. n /\ w[i - 1] = v[i - 1]
      OBVIOUS
    <3>2. B(w, i) = B(v, i)
      <4> HIDE DEF w
      <4> QED BY <3>1
    <3>3. CASE i <= n
      <4>1. w[i] = v[i] /\ i \in 1 .. n
        BY <3>3
      <4> QED BY <2>1, <3>2, <4>1
    <3>4. CASE ~ (i <= n)
      <4>1. w[i] = B(v, i)
        BY <3>4
      <4> QED BY <3>2, <4>1
    <3> QED BY <3>3, <3>4
  <2>3. \E u : \A i \in 1 .. n + 1 : u[i] = B(u, i)
    <3> HIDE DEF w
    <3> QED BY <2>2
  <2> QED BY <2>3
<1>3. N \in H
  <2> HIDE DEF H, N
  <2>1. N \in Nat
    BY DEF N
  <2> QED BY <1>1, <1>2, <2>1, Climb
<1>4. PICK v : \A i \in 1 .. N : v[i] = B(v, i)
  BY <1>3
<1> DEFINE w == [i \in 1 .. N |-> B(v, i)]
<1>5. ASSUME NEW i \in 1 .. N PROVE B(w, i) = B(v, i)
  <2>1. i # 1 => i - 1 \in 1 .. N
    OBVIOUS
  <2>2. i # 1 => w[i - 1] = v[i - 1]
    BY <1>4, <2>1
  <2> HIDE DEF w
  <2> QED BY <2>2
<1>6. w = [i \in 1 .. N |-> B(w, i)]
  BY <1>5
<1>7. IsFlat(w, seqs)
  BY <1>6 DEF IsFlat
<1> QED BY <1>7 DEF Flat

LEMMA FlatIs ==
  ASSUME NEW seqs, Len(seqs) \in Nat, NEW i \in 1 .. Len(seqs)
  PROVE  Flat(seqs)[i] = IF i = 1 THEN seqs[i] ELSE Flat(seqs)[i - 1] \o seqs[i]
<1> DEFINE v == Flat(seqs)
<1>1. v = [k \in 1 .. Len(seqs) |-> IF k = 1 THEN seqs[k] ELSE v[k - 1] \o seqs[k]]
  <2> HIDE DEF v
  <2>1. IsFlat(v, seqs)
    BY FlatExists DEF v
  <2> QED BY <2>1 DEF IsFlat
<1> HIDE DEF v
<1>2. v[i] = IF i = 1 THEN seqs[i] ELSE v[i - 1] \o seqs[i]
  BY <1>1
<1> QED BY <1>2 DEF v

(* The payee's own tags are said as the template says them.                 *)
LEMMA PayeeCopied ==
  ASSUME NEW template \in Texts, NEW p, Whole(p), \A t \in AccountTags : ~ Has(p, t)
  PROVE  /\ Whole(p \o Copied(template))
         /\ \A t \in AccountTags : Field(p \o Copied(template), t) = Field(template, t)
<1> DEFINE seqs == [k \in 1 .. 26 |-> IF \E f \in ToSet(ParseTlv(template)) : f[1] = TwoDigits(25 + k)
                                     THEN Tlv(25 + k, Field(template, 25 + k)) ELSE <<>>]
           F(n) == IF n = 0 THEN <<>> ELSE Flat(seqs)[n]
           Holds(q, n) ==
             /\ Whole(q)
             /\ \A t \in AccountTags : /\ t > 25 + n => ~ Has(q, t)
                                       /\ t <= 25 + n => Field(q, t) = Field(template, t)
           H == {n \in 0 .. 26 : F(n) \in Texts /\ Holds(p \o F(n), n)}
<1>1. Len(seqs) = 26 /\ Copied(template) = FlattenSeq(seqs)
  <2>1. Copied(template) = FlattenSeq(seqs)
    BY DEF Copied
  <2>2. DOMAIN seqs = 1 .. 26
    OBVIOUS
  <2>3. Len(seqs) = 26
    OBVIOUS
  <2> QED BY <2>1, <2>3
<1>2. ASSUME NEW k \in 1 .. 26
      PROVE  seqs[k] = IF Has(template, 25 + k) THEN Tlv(25 + k, Field(template, 25 + k)) ELSE <<>>
  BY DEF Has, ToSet
<1> HIDE DEF seqs
<1>3. p \in Texts /\ <<>> \in Texts
  BY EmptySeq DEF Whole, Texts
<1>4. 0 \in H
  <2>1. p \o <<>> = p
    BY <1>3, ConcatEmptySeq DEF Texts
  <2>2. Holds(p, 0)
    BY DEF AccountTags
  <2>3. F(0) = <<>>
    OBVIOUS
  <2>4. 0 \in 0 .. 26
    OBVIOUS
  <2> HIDE DEF Holds, F
  <2>5. F(0) \in Texts /\ Holds(p \o F(0), 0)
    BY <1>3, <2>1, <2>2, <2>3, Zenon
  <2> QED BY <2>4, <2>5, Zenon
<1>5. ASSUME NEW n \in 0 .. 26 - 1, n \in H PROVE n + 1 \in H
  <2>1. PICK k \in 1 .. 26 : k = n + 1
    OBVIOUS
  <2>2. PICK tag \in 0 .. 99 : tag = 25 + k /\ tag \in AccountTags
    BY DEF AccountTags
  <2>3. PICK q : q = p \o F(n)
    OBVIOUS
  <2>4. F(n) \in Texts /\ Holds(q, n)
    BY <1>5, <2>3
  <2>5. F(k) = F(n) \o seqs[k] /\ seqs[k] \in Texts
    <3>1. seqs[k] \in Texts
      <4>1. Field(template, tag) \in Texts /\ Len(Field(template, tag)) <= 99
        BY FieldIs
      <4>2. Tlv(tag, Field(template, tag)) \in Texts
        BY <4>1, TlvIs
      <4> QED BY <1>2, <1>3, <2>2, <4>2
    <3>2. k \in 1 .. Len(seqs) /\ Len(seqs) \in Nat
      BY <1>1
    <3>3. Flat(seqs)[k] = IF k = 1 THEN seqs[k] ELSE Flat(seqs)[k - 1] \o seqs[k]
      BY <3>2, FlatIs
    <3>4. CASE n = 0
      <4>1. F(k) = seqs[k]
        BY <2>1, <3>3, <3>4
      <4>2. F(n) = <<>>
        BY <3>4
      <4>3. <<>> \o seqs[k] = seqs[k]
        BY <3>1, ConcatEmptySeq DEF Texts
      <4> QED BY <3>1, <4>1, <4>2, <4>3
    <3>5. CASE n # 0
      <4>1. k # 0 /\ k # 1 /\ k - 1 = n
        BY <2>1, <3>5
      <4> QED BY <3>1, <3>3, <3>5, <4>1
    <3> QED BY <3>4, <3>5
  <2>6. F(k) \in Texts /\ p \o F(k) = q \o seqs[k]
    <3> HIDE DEF F
    <3>1. F(n) \o seqs[k] \in Texts
      BY <2>4, <2>5, Halves
    <3>2. (p \o F(n)) \o seqs[k] = p \o (F(n) \o seqs[k])
      BY <1>3, <2>4, <2>5, Joins, Zenon
    <3> QED BY <2>3, <2>5, <3>1, <3>2, Zenon
  <2>7. Holds(q \o seqs[k], k)
    <3>1. CASE Has(template, tag)
      <4>1. PICK r : r = q \o Tlv(tag, Field(template, tag))
        OBVIOUS
      <4>2. seqs[k] = Tlv(tag, Field(template, tag))
        BY <1>2, <2>2, <3>1
      <4>3. Adds(r, q, tag, Field(template, tag))
        BY <2>4, <4>1, FieldIs, FieldAdded
      <4>4. Holds(r, k)
        <5>1. ASSUME NEW t \in AccountTags
              PROVE  /\ t > 25 + k => ~ Has(r, t)
                     /\ t <= 25 + k => Field(r, t) = Field(template, t)
          <6>1. t \in 0 .. 99 /\ t \in Nat
            BY DEF AccountTags
          <6>2. (Has(r, t) => t = tag \/ Has(q, t)) /\ Field(r, t) = IF t = tag THEN Field(template, tag) ELSE Field(q, t)
            BY <4>3, <6>1 DEF Adds
          <6>3. /\ t > 25 + k => t > 25 + n /\ t # tag
                /\ t <= 25 + k => t = tag \/ t <= 25 + n
            BY <2>1, <2>2, <6>1
          <6> QED BY <2>4, <6>2, <6>3
        <5> QED BY <4>3, <5>1 DEF Adds
      <4> HIDE DEF Holds
      <4> QED BY <4>1, <4>2, <4>4
    <3>2. CASE ~ Has(template, tag)
      <4>1. seqs[k] = <<>>
        BY <1>2, <2>2, <3>2
      <4>2. q \o <<>> = q
        BY <2>4, ConcatEmptySeq DEF Whole, Texts
      <4>3. Field(template, tag) = <<>>
        BY <3>2, NoHit
      <4>4. Field(q, tag) = <<>>
        <5>1. ~ Has(q, tag)
          BY <2>1, <2>2, <2>4
        <5> QED BY <5>1, NoHit
      <4>5. Holds(q, k)
        <5>1. ASSUME NEW t \in AccountTags
              PROVE  /\ t > 25 + k => ~ Has(q, t)
                     /\ t <= 25 + k => Field(q, t) = Field(template, t)
          <6>1. t \in Nat
            BY DEF AccountTags
          <6>2. /\ t > 25 + k => t > 25 + n
                /\ t <= 25 + k => t = tag \/ t <= 25 + n
            BY <2>1, <2>2, <6>1
          <6> QED BY <2>4, <4>3, <4>4, <6>2
        <5> QED BY <2>4, <5>1
      <4> HIDE DEF Holds
      <4> QED BY <4>1, <4>2, <4>5
    <3> QED BY <3>1, <3>2
  <2>8. k \in H
    <3> HIDE DEF Holds, F
    <3>1. k \in 0 .. 26 /\ F(k) \in Texts /\ Holds(p \o F(k), k)
      BY <2>6, <2>7
    <3> QED BY <3>1, Zenon
  <2> QED BY <2>1, <2>8
<1>6. 26 \in H
  <2> HIDE DEF H
  <2>1. 26 \in Nat
    OBVIOUS
  <2> QED BY <1>4, <1>5, <2>1, Climb
<1>7. Copied(template) = F(26)
  <2>1. Len(seqs) # 0
    BY <1>1
  <2>2. FlattenSeq(seqs) = Flat(seqs)[Len(seqs)]
    BY <2>1, FlattenDef, Zenon
  <2>3. F(26) = Flat(seqs)[26]
    OBVIOUS
  <2> HIDE DEF F
  <2> QED BY <1>1, <2>2, <2>3, Zenon
<1>8. Holds(p \o Copied(template), 26)
  <2> HIDE DEF Holds, F
  <2> QED BY <1>6, <1>7
<1>9. \A t \in AccountTags : t <= 25 + 26
  BY DEF AccountTags
<1> QED BY <1>8, <1>9

LEMMA MoneyIs == ASSUME NEW cents \in Amounts PROVE Money(cents) \in Held
<1>1. PICK c \in Nat : c = cents
  BY QrAssumption
<1>2. c \div 100 \in Nat /\ c % 100 \in 0 .. 99
  BY SMT
<1>3. Decimal(c \div 100) \in Texts
  BY <1>2, DecimalReadsBack
<1>4. TwoDigits(c % 100) \in Texts
  BY <1>2, TwoDigitsReadBack
<1>5. <<46>> \in Texts
  BY DEF Texts
<1>6. Money(c) \in Texts
  BY <1>3, <1>4, <1>5, Halves DEF Money
<1>7. Len(Money(c)) \in Nat /\ Len(Money(c)) <= 11
  BY <1>1, <1>6, QrAssumption DEF Texts
<1> QED BY <1>1, <1>6, <1>7 DEF Held

LEMMA Fixed == Retail \in Held /\ Cambodia \in Held
BY DEF Retail, Cambodia, Texts, Held

(* The two fields every QR starts with name no account.                     *)
LEMMA Opening ==
  LET p == Tlv(0, TwoDigits(1)) \o Tlv(1, TwoDigits(12))
  IN  Whole(p) /\ \A t \in AccountTags : ~ Has(p, t)
<1>1. 0 \in 0 .. 99 /\ 1 \in 0 .. 99 /\ 12 \in 0 .. 99 /\ 2 <= 99
  OBVIOUS
<1>2. PICK a, b : a = TwoDigits(1) /\ b = TwoDigits(12)
  OBVIOUS
<1>3. /\ a \in Texts /\ Len(a) <= 99
      /\ b \in Texts /\ Len(b) <= 99
  BY <1>1, <1>2, TwoDigitsReadBack, Zenon
<1>4. PICK o : o = Tlv(0, a)
  OBVIOUS
<1>5. Whole(o) /\ \A t \in 0 .. 99 : Has(o, t) => t = 0
  BY <1>1, <1>3, <1>4, Alone, Zenon
<1>6. PICK p : p = o \o Tlv(1, b)
  OBVIOUS
<1>7. Adds(p, o, 1, b) /\ Whole(p)
  BY <1>1, <1>3, <1>5, <1>6, FieldAdded, Zenon
<1>8. ASSUME NEW t \in AccountTags PROVE ~ Has(p, t)
  <2>1. t \in 0 .. 99 /\ t # 0 /\ t # 1
    BY DEF AccountTags
  <2> QED BY <1>5, <1>7, <2>1 DEF Adds
<1> QED BY <1>2, <1>4, <1>6, <1>7, <1>8

(* The number staff look for is the one field within field 62.              *)
LEMMA BillReadsBack ==
  ASSUME NEW bill \in Bills
  PROVE  LET q == Tlv(1, Cut(bill, 25))
         IN  q \in Held /\ Field(q, 1) = Cut(bill, 25)
<1>1. PICK b : b = Cut(bill, 25)
  OBVIOUS
<1>2. b \in Texts /\ Len(b) <= 25
  BY <1>1, CutIs, QrAssumption DEF Texts
<1>3. 1 \in 0 .. 99 /\ Len(b) \in Nat /\ Len(b) <= 99 /\ 4 + Len(b) <= 99
  BY <1>2 DEF Texts
<1>4. PICK q : q = Tlv(1, b)
  OBVIOUS
<1>5. q \in Texts /\ Len(q) = 4 + Len(b)
  BY <1>2, <1>3, <1>4, TlvIs, Zenon
<1>6. Field(q, 1) = b
  BY <1>2, <1>3, <1>4, Alone, Zenon
<1> QED BY <1>1, <1>3, <1>4, <1>5, <1>6 DEF Held

(* What both builders say alike.                                            *)
Tells(q, cents, bill, stamps) ==
  /\ Whole(q)
  /\ Field(q, 54) = Money(cents) /\ Field(Field(q, 62), 1) = Cut(bill, 25)
  /\ Field(q, 99) = stamps

(* A QR of an account that fits says it,                                    *)
LEMMA AccountQr ==
  ASSUME NEW s \in Setups, NEW cents \in Amounts, NEW bill \in Bills, NEW now \in Moments,
         Len(Account(s)) <= 99,
         NEW q, q = FromAccountId(s, cents, bill, now)
  PROVE  /\ Tells(q, cents, bill, Tlv(0, Decimal(now)) \o Tlv(1, Decimal(Expiry(s, now))))
         /\ Field(q, 29) = Account(s)
<1>1. PICK o : o = Tlv(0, TwoDigits(1)) \o Tlv(1, TwoDigits(12))
  OBVIOUS
<1>2. Whole(o) /\ \A t \in AccountTags : ~ Has(o, t)
  BY <1>1, Opening
<1>3. PICK a : a = Account(s)
  OBVIOUS
<1>4. a \in Texts /\ Len(a) <= 99 /\ 29 \in 0 .. 99 /\ 29 \in AccountTags
  BY <1>3, AccountReadsBack DEF Whole, AccountTags
<1>5. PICK p : p = o \o Tlv(29, a)
  OBVIOUS
<1>6. Adds(p, o, 29, a) /\ Whole(p)
  BY <1>2, <1>4, <1>5, FieldAdded, Zenon
<1>7. Field(p, 29) = a
  BY <1>4, <1>6, Zenon DEF Adds
<1>8. PICK name, city : name = Cut(s.name, 25) /\ city = Cut(s.city, 15)
  OBVIOUS
<1>9. name \in Texts /\ Len(name) <= 25 /\ city \in Texts /\ Len(city) <= 15
  BY <1>8, CutIs, QrAssumption DEF Texts
<1>10. name \in Held /\ city \in Held
  BY <1>9 DEF Texts, Held
<1>11. PICK number, stamps : /\ number = Tlv(1, Cut(bill, 25))
                             /\ stamps = Tlv(0, Decimal(now)) \o Tlv(1, Decimal(Expiry(s, now)))
  OBVIOUS
<1>12. number \in Held /\ Field(number, 1) = Cut(bill, 25)
  BY <1>11, BillReadsBack
<1>13. stamps \in Held
  BY <1>11, StampsReadBack DEF Whole, Held
<1>14. PICK money : money = Money(cents)
  OBVIOUS
<1>15. money \in Held
  BY <1>14, MoneyIs
<1>16. PICK all : all = [category |-> Retail, money |-> money, country |-> Cambodia, name |-> name,
                          city |-> city, bill |-> number, stamps |-> stamps]
  OBVIOUS
<1>17. /\ all \in Details
       /\ all.money = money /\ all.bill = number /\ all.stamps = stamps
  BY <1>10, <1>12, <1>13, <1>15, <1>16, Fixed DEF Details
<1>18. q = Detailed(p, all)
  BY <1>1, <1>3, <1>5, <1>8, <1>11, <1>14, <1>16 DEF FromAccountId, Detailed
<1>19. /\ Whole(q)
       /\ Field(q, 54) = all.money /\ Field(q, 62) = all.bill /\ Field(q, 99) = all.stamps
       /\ \A t \in AccountTags : Field(q, t) = Field(p, t)
  BY <1>6, <1>17, <1>18, DetailsAdded, ZenonT(40)
<1> QED BY <1>3, <1>4, <1>7, <1>11, <1>12, <1>14, <1>17, <1>19, Zenon DEF Tells

(* and one made from a template what the template says of the payee.        *)
LEMMA TemplateQr ==
  ASSUME NEW s \in Setups, NEW cents \in Amounts, NEW bill \in Bills, NEW now \in Moments,
         NEW q, q = FromTemplate(s, cents, bill, now)
  PROVE  /\ Tells(q, cents, bill, Tlv(0, Decimal(now)))
         /\ \A t \in AccountTags : Field(q, t) = Field(s.template, t)
<1>1. PICK o : o = Tlv(0, TwoDigits(1)) \o Tlv(1, TwoDigits(12))
  OBVIOUS
<1>2. Whole(o) /\ \A t \in AccountTags : ~ Has(o, t)
  BY <1>1, Opening
<1>3. s.template \in Texts /\ s.name \in Texts /\ s.city \in Texts
  BY QrAssumption DEF Texts
<1>4. PICK p : p = o \o Copied(s.template)
  OBVIOUS
<1>5. Whole(p) /\ \A t \in AccountTags : Field(p, t) = Field(s.template, t)
  BY <1>2, <1>3, <1>4, PayeeCopied
<1>6. PICK category, country : /\ category = OrElse(Field(s.template, 52), Retail)
                               /\ country = OrElse(Field(s.template, 58), Cambodia)
  OBVIOUS
<1>7. category \in Held /\ country \in Held
  BY <1>3, <1>6, Fixed, FieldIs DEF OrElse, Held
<1>8. PICK name, city : /\ name = Cut(OrElse(Field(s.template, 59), s.name), 25)
                        /\ city = Cut(OrElse(Field(s.template, 60), s.city), 15)
  OBVIOUS
<1>9. name \in Texts /\ Len(name) <= 25 /\ city \in Texts /\ Len(city) <= 15
  <2>1. OrElse(Field(s.template, 59), s.name) \in Texts /\ OrElse(Field(s.template, 60), s.city) \in Texts
    BY <1>3, FieldIs DEF OrElse
  <2> QED BY <1>8, <2>1, CutIs
<1>10. name \in Held /\ city \in Held
  BY <1>9 DEF Texts, Held
<1>11. PICK number, stamp : number = Tlv(1, Cut(bill, 25)) /\ stamp = Tlv(0, Decimal(now))
  OBVIOUS
<1>12. number \in Held /\ Field(number, 1) = Cut(bill, 25)
  BY <1>11, BillReadsBack
<1>13. stamp \in Held
  BY <1>11, StampReadsBack DEF Whole, Held
<1>14. PICK money : money = Money(cents)
  OBVIOUS
<1>15. money \in Held
  BY <1>14, MoneyIs
<1>16. PICK all : all = [category |-> category, money |-> money, country |-> country, name |-> name,
                          city |-> city, bill |-> number, stamps |-> stamp]
  OBVIOUS
<1>17. /\ all \in Details
       /\ all.money = money /\ all.bill = number /\ all.stamps = stamp
  BY <1>7, <1>10, <1>12, <1>13, <1>15, <1>16 DEF Details
<1>18. q = Detailed(p, all)
  BY <1>1, <1>4, <1>6, <1>8, <1>11, <1>14, <1>16 DEF FromTemplate, Detailed
<1>19. /\ Whole(q)
       /\ Field(q, 54) = all.money /\ Field(q, 62) = all.bill /\ Field(q, 99) = all.stamps
       /\ \A t \in AccountTags : Field(q, t) = Field(p, t)
  BY <1>5, <1>17, <1>18, DetailsAdded, ZenonT(40)
<1> QED BY <1>5, <1>11, <1>12, <1>14, <1>17, <1>19, Zenon DEF Tells

(* khqr_expired, of a text and stamps it can read.                          *)
LEMMA ExpiredWhen ==
  ASSUME NEW q, Whole(q), NEW stamps, Field(q, 99) = stamps, Whole(stamps), NEW later
  PROVE  /\ Field(stamps, 1) = <<>> => ~ KhqrExpired(q, later)
         /\ \A expiry \in Nat : Field(stamps, 1) = Decimal(expiry) =>
              (KhqrExpired(q, later) <=> expiry < later)
<1>1. Field(stamps, 1) = <<>> => ~ KhqrExpired(q, later)
  BY DEF KhqrExpired
<1>2. ASSUME NEW expiry \in Nat, Field(stamps, 1) = Decimal(expiry)
      PROVE  KhqrExpired(q, later) <=> expiry < later
  <2>1. PICK text : text = Decimal(expiry)
    OBVIOUS
  <2>2. text \in Seq(Digits) /\ text # <<>> /\ Number(text) = expiry
    BY <2>1, DecimalReadsBack
  <2>3. \A k \in DOMAIN text : IsDigit(text[k])
    BY <2>2 DEF IsDigit, Digits
  <2>4. ~ Malformed(q) /\ ~ Malformed(stamps)
    BY DEF Whole
  <2> QED BY <1>2, <2>1, <2>2, <2>3, <2>4, Zenon DEF KhqrExpired
<1> QED BY <1>1, <1>2

-----------------------------------------------------------------------------
(* The QR, if any, is one that was built.                                   *)
Issued ==
  \/ qr = <<>>
  \/ \E s \in Setups, cents \in Amounts, bill \in Bills, now \in Moments :
       /\ BuildKhqr(s, cents, bill, now) # <<>>
       /\ qr = [setup |-> s, cents |-> cents, bill |-> bill, now |-> now,
                payload |-> BuildKhqr(s, cents, bill, now)]

LEMMA IssuedReadsBack == Issued => QrReadsBack
<1>1. CASE qr = <<>>
  BY <1>1 DEF QrReadsBack
<1>2. ASSUME NEW s \in Setups, NEW cents \in Amounts, NEW bill \in Bills, NEW now \in Moments,
             BuildKhqr(s, cents, bill, now) # <<>>,
             qr = [setup |-> s, cents |-> cents, bill |-> bill, now |-> now,
                   payload |-> BuildKhqr(s, cents, bill, now)],
             s.account # <<>> => Len(Account(s)) <= 99
      PROVE  QrReadsBack
  <2>1. PICK q : q = BuildKhqr(s, cents, bill, now)
    OBVIOUS
  <2>2. qr.setup = s /\ qr.cents = cents /\ qr.bill = bill /\ qr.now = now /\ qr.payload = q
    BY <1>2, <2>1
  <2>3. Expiry(s, now) \in Nat
    BY QrAssumption DEF Expiry
  <2>4. PICK expiry \in Nat : expiry = Expiry(s, now)
    BY <2>3
  <2>5. CASE s.account # <<>>
    <3>1. q = FromAccountId(s, cents, bill, now)
      BY <2>1, <2>5 DEF BuildKhqr
    <3>2. PICK stamps : stamps = Tlv(0, Decimal(now)) \o Tlv(1, Decimal(expiry))
      OBVIOUS
    <3>3. Tells(q, cents, bill, stamps) /\ Field(q, 29) = Account(s)
      BY <1>2, <2>4, <2>5, <3>1, <3>2, AccountQr
    <3>4. Whole(stamps) /\ Field(stamps, 1) = Decimal(expiry)
      BY <2>4, <3>2, StampsReadBack
    <3>5. \A later : KhqrExpired(q, later) <=> expiry < later
      BY <3>3, <3>4, ExpiredWhen DEF Tells
    <3>6. \A later \in {expiry, expiry + 1} : KhqrExpired(q, later) <=> s.account # <<>> /\ later > expiry
      <4>1. \A later \in {expiry, expiry + 1} : later > expiry <=> expiry < later
        OBVIOUS
      <4> QED BY <2>5, <3>5, <4>1, Zenon
    <3>7. /\ Field(Field(q, 29), 0) = Cut(s.account, 32)
          /\ Field(Field(q, 29), 1) = Cut(s.information, 32)
          /\ Field(Field(q, 29), 2) = Cut(s.bank, 32)
      BY <3>3, AccountReadsBack
    <3>8. Field(q, 54) = Money(cents) /\ Field(Field(q, 62), 1) = Cut(bill, 25)
      BY <3>3 DEF Tells
    <3> QED BY <2>2, <2>4, <2>5, <3>6, <3>7, <3>8, Zenon DEF QrReadsBack
  <2>6. CASE s.account = <<>>
    <3>1. q = FromTemplate(s, cents, bill, now)
      BY <1>2, <2>1, <2>6 DEF BuildKhqr
    <3>2. PICK stamp : stamp = Tlv(0, Decimal(now))
      OBVIOUS
    <3>3. Tells(q, cents, bill, stamp) /\ \A t \in AccountTags : Field(q, t) = Field(s.template, t)
      BY <3>1, <3>2, TemplateQr
    <3>4. Whole(stamp) /\ Field(stamp, 1) = <<>>
      BY <3>2, StampReadsBack
    <3>5. \A later : ~ KhqrExpired(q, later)
      BY <3>3, <3>4, ExpiredWhen DEF Tells
    <3>6. Field(q, 54) = Money(cents) /\ Field(Field(q, 62), 1) = Cut(bill, 25)
      BY <3>3 DEF Tells
    <3> QED BY <2>2, <2>6, <3>3, <3>5, <3>6, Zenon DEF QrReadsBack
  <2> QED BY <2>5, <2>6
<1> QED BY <1>1, <1>2 DEF Issued, QrReadsBack

(* build_khqr and its readers: a QR says to whoever reads it the amount,    *)
(* the number staff look for, the payee, and the moment it expires.         *)
THEOREM QrAlwaysReadsBack == KhqrSpec => []QrReadsBack
<1>1. KhqrInit => Issued
  BY DEF KhqrInit, Issued
<1>2. Issued /\ [NewQr]_qr => Issued'
  <2>1. ASSUME Issued, NewQr PROVE Issued'
    BY <2>1, Zenon DEF NewQr, Issued
  <2>2. ASSUME Issued, UNCHANGED qr PROVE Issued'
    BY <2>2 DEF Issued
  <2> QED BY <2>1, <2>2
<1> QED BY <1>1, <1>2, IssuedReadsBack, PTL DEF KhqrSpec
=============================================================================
