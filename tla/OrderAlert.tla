----------------------------- MODULE OrderAlert -----------------------------
(***************************************************************************)
(* The Telegram alerts about ONE order: a new quote raises one, recording  *)
(* its payment another.  Each is a task on the event loop that waits a     *)
(* while for the browser's PDF, handed over through one slot per order in  *)
(* a module-level dict, and then posts the document to Telegram with       *)
(* retries and a text-only last resort.                                    *)
(***************************************************************************)
EXTENDS Naturals

CONSTANTS
  Alerts,   \* the alert tasks of this order
  NoEntry   \* the dict has no entry for it

(* _UPLOAD_ATTEMPTS *)
Attempts == 3

ASSUME AlertsAssumption == NoEntry \notin Alerts

VARIABLES
  pc,       \* "due", "waiting", "sending", "text", "over"
  slot,     \* whose future is in _pending_quotation_pdfs
  handed,   \* alerts whose future has been given the browser's PDF
  client,   \* alerts that go out with the browser's PDF
  tries,    \* sendDocument calls made
  posted,   \* alert messages of each task that reached the chat (history)
  unheard,  \* of those, the ones whose answer never came back (history)
  texted    \* alerts whose text-only message was tried (history)

handoff == <<slot, handed, client>>
chat    == <<posted, unheard>>
alertVars == <<pc, handoff, tries, chat, texted>>

AlertTypeOK ==
  /\ pc \in [Alerts -> {"due", "waiting", "sending", "text", "over"}]
  /\ slot \in Alerts \cup {NoEntry}
  /\ handed \subseteq Alerts /\ client \subseteq handed
  /\ tries \in [Alerts -> 0..Attempts]
  /\ posted \in [Alerts -> 0..(Attempts + 1)]
  /\ unheard \in [Alerts -> 0..(Attempts + 1)]
  /\ texted \subseteq Alerts

AlertInit ==
  /\ pc = [t \in Alerts |-> "due"]
  /\ slot = NoEntry /\ handed = {} /\ client = {}
  /\ tries = [t \in Alerts |-> 0]
  /\ posted = [t \in Alerts |-> 0] /\ unheard = [t \in Alerts |-> 0]
  /\ texted = {}

-----------------------------------------------------------------------------
(* The wait for the browser's PDF.                                          *)

(* register_pending_quotation_pdf: a new future, over any that is there. *)
RegisterPdf(t) ==
  /\ pc[t] = "due"
  /\ pc' = [pc EXCEPT ![t] = "waiting"]
  /\ slot' = t
  /\ UNCHANGED <<handed, client, tries, chat, texted>>

(* POST /orders/{id}/quotation-pdf: a no-op when nobody waits, or when the  *)
(* one in the slot has its PDF.                                             *)
Upload ==
  /\ slot # NoEntry /\ slot \notin handed
  /\ handed' = handed \cup {slot}
  /\ UNCHANGED <<pc, slot, client, tries, chat, texted>>

(* Mutant: the dict entry is left behind. *)
StopWaitingKeepSlot(t) ==
  /\ pc' = [pc EXCEPT ![t] = "sending"]
  /\ UNCHANGED <<slot, handed, tries, chat, texted>>

(* The wait is over, one way or the other: the order's entry is popped,     *)
(* whichever task's it is.                                                  *)
StopWaiting(t) ==
  /\ pc' = [pc EXCEPT ![t] = "sending"]
  /\ slot' = NoEntry
  /\ UNCHANGED <<handed, tries, chat, texted>>

TakePdf(t) ==
  /\ pc[t] = "waiting" /\ t \in handed
  /\ client' = client \cup {t}
  /\ StopWaiting(t)

TimeOut(t) ==
  /\ pc[t] = "waiting" /\ t \notin handed
  /\ UNCHANGED client
  /\ StopWaiting(t)

-----------------------------------------------------------------------------
(* sendDocument, up to three times.                                         *)

Post(t) == posted' = [posted EXCEPT ![t] = @ + 1]

(* Mutant: no return after success. *)
SendOkThenText(t) ==
  /\ pc[t] = "sending"
  /\ tries' = [tries EXCEPT ![t] = @ + 1]
  /\ Post(t)
  /\ pc' = [pc EXCEPT ![t] = "text"]
  /\ UNCHANGED <<handoff, unheard, texted>>

(* Telegram takes the document and its answer arrives. *)
SendOk(t) ==
  /\ pc[t] = "sending"
  /\ tries' = [tries EXCEPT ![t] = @ + 1]
  /\ Post(t)
  /\ pc' = [pc EXCEPT ![t] = "over"]
  /\ UNCHANGED <<handoff, unheard, texted>>

(* The last resort of the outer `except`: the text-only alert is handed the *)
(* caption in place of the alert it renders from, and dies on it before     *)
(* anything is sent.                                                        *)
GiveUp(t) == pc' = [pc EXCEPT ![t] = "over"]

(* Without the browser's PDF the server makes one, and that may fail.       *)
BuildFails(t) ==
  /\ pc[t] = "sending" /\ t \notin client /\ tries[t] = 0
  /\ GiveUp(t)
  /\ UNCHANGED <<handoff, tries, chat, texted>>

(* After a transport failure: again, or never.                              *)
Retry(t) == IF tries[t] + 1 = Attempts THEN GiveUp(t) ELSE UNCHANGED pc

(* The document never arrives. *)
SendFails(t) ==
  /\ pc[t] = "sending"
  /\ tries' = [tries EXCEPT ![t] = @ + 1]
  /\ Retry(t)
  /\ UNCHANGED <<handoff, chat, texted>>

(* The document arrives, the answer does not: to the sender, the same. *)
SendUnheard(t) ==
  /\ pc[t] = "sending"
  /\ tries' = [tries EXCEPT ![t] = @ + 1]
  /\ Post(t)
  /\ unheard' = [unheard EXCEPT ![t] = @ + 1]
  /\ Retry(t)
  /\ UNCHANGED <<handoff, texted>>

(* Telegram says no: not retried, the text-only alert goes out instead. *)
SendRefused(t) ==
  /\ pc[t] = "sending"
  /\ tries' = [tries EXCEPT ![t] = @ + 1]
  /\ pc' = [pc EXCEPT ![t] = "text"]
  /\ UNCHANGED <<handoff, chat, texted>>

(* _send_order_alert_without_pdf: one try, whatever comes of it. *)
TextOver(t) ==
  /\ pc[t] = "text"
  /\ texted' = texted \cup {t}
  /\ pc' = [pc EXCEPT ![t] = "over"]

TextOk(t) ==
  /\ TextOver(t)
  /\ Post(t)
  /\ UNCHANGED <<handoff, tries, unheard>>

TextFails(t) ==
  /\ TextOver(t)
  /\ UNCHANGED <<handoff, tries, chat>>

-----------------------------------------------------------------------------
Step(t) ==
  \/ RegisterPdf(t) \/ TakePdf(t) \/ TimeOut(t)
  \/ BuildFails(t) \/ SendOk(t) \/ SendFails(t) \/ SendUnheard(t) \/ SendRefused(t)
  \/ TextOk(t) \/ TextFails(t)

AlertNext == Upload \/ \E t \in Alerts : Step(t)
AlertSpec == AlertInit /\ [][AlertNext]_alertVars

-----------------------------------------------------------------------------
(* The dict entry of an order is that of an alert still waiting, so an      *)
(* upload never disappears into a finished one, whatever order two alerts   *)
(* registered and stopped in.                                               *)
SlotIsWaiting == slot # NoEntry => pc[slot] = "waiting"

(* An alert is in the chat more than once only as often as an answer was    *)
(* lost: neither the text after a rejection nor a retry after an answered   *)
(* call ever repeats it.                                                    *)
RepeatsWereUnheard == \A t \in Alerts : posted[t] <= 1 + unheard[t]

(* "a placed order is never silently invisible": an alert that never showed *)
(* was at least tried as text (telegram.py, _send_order_alert_without_pdf). *)
NeverSilent == \A t \in Alerts : pc[t] = "over" /\ posted[t] = 0 => t \in texted

(* "exactly one message per order is actionable" (telegram.py,              *)
(* _send_items_followup): an alert, which carries the buttons, is in the    *)
(* chat once.                                                               *)
(* The code does not keep it (README, section 6).                           *)
OneActionable == \A t \in Alerts : posted[t] <= 1

(* An upload is "a no-op if nothing is waiting" (telegram.py,               *)
(* resolve_pending_quotation_pdf), and only then: while an alert waits for  *)
(* the browser's PDF, the slot leads to one that does.                      *)
(* The code does not keep it (README, section 6).                           *)
UploadFindsTheWaiting ==
  (\E t \in Alerts : pc[t] = "waiting" /\ t \notin handed) => slot # NoEntry
=============================================================================
