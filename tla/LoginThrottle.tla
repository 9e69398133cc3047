---------------------------- MODULE LoginThrottle ----------------------------
(***************************************************************************)
(* The in-memory throttle in front of POST /auth/login and POST            *)
(* /auth/customer/login (app/core/ratelimit.py).  Both handlers are async  *)
(* and never await between the check and the record, so one attempt is one *)
(* step.  Instants are kept as ages: how long ago a failure was, how long  *)
(* a lockout still lasts.  A list of timestamps is how many failures there *)
(* are of each age: it is only filtered, counted, and asked for its last.  *)
(***************************************************************************)
EXTENDS Integers, FiniteSets, Functions

CONSTANTS
  Sources,         \* client addresses
  Names,           \* identifiers as they are typed
  Lower,           \* typed identifier |-> its lower case
  MAX_ATTEMPTS,
  WINDOW,          \* WINDOW_SECONDS in ticks
  LOCKOUT,         \* LOCKOUT_SECONDS in ticks
  PRUNE_THRESHOLD

ASSUME ThrottleAssumption ==
  /\ {MAX_ATTEMPTS, WINDOW, LOCKOUT, PRUNE_THRESHOLD} \subseteq Nat \ {0}
  /\ LOCKOUT >= WINDOW
  /\ Lower \in [Names -> Names]

VARIABLES
  attempts,  \* _attempts: key |-> its timestamps and the rest of its lockout
  wrong      \* history: per key, the wrong passwords since the last right one

throttleVars == <<attempts, wrong>>

Keys == Sources \X Range(Lower)
Key(source, name) == <<source, Lower[name]>>

(* A failure older than any test distinguishes is the same as none.         *)
Horizon == LOCKOUT + WINDOW
Ages == 0 .. Horizon - 1
Failures == [Ages -> Nat]

NoFailures == [a \in Ages |-> 0]
Older(failures) == [a \in Ages |-> IF a = 0 THEN 0 ELSE failures[a - 1]]
AndNow(failures) == [failures EXCEPT ![0] = @ + 1]
CountIn(failures, from, to) == SumFunctionOnSet(failures, from .. to - 1)

NewRecord == [timestamps |-> NoFailures, locked |-> -1]   \* locked_until = 0.0

ThrottleInit ==
  /\ attempts = <<>>
  /\ wrong = [k \in Keys |-> NoFailures]

LoginAllowed(k) == k \in DOMAIN attempts => attempts[k].locked <= 0

InWindow(failures) == [a \in Ages |-> IF a < WINDOW THEN failures[a] ELSE 0]

Recorded(record, kept) ==
  IF CountIn(kept, 0, Horizon) >= MAX_ATTEMPTS
  THEN [timestamps |-> NoFailures, locked |-> LOCKOUT]
  ELSE [record EXCEPT !.timestamps = kept]

\* Failures are counted without a window.
FailedEver(record) == Recorded(record, AndNow(record.timestamps))

\* One more failure in the record of a key; the tenth locks it.
Failed(record) == Recorded(record, AndNow(InWindow(record.timestamps)))

\* No failure, or the last one is past the window.
Past(failures) == \A a \in Ages : failures[a] > 0 => a > WINDOW

\* The lockout is not looked at when records are pruned.
StaleByTimestamps(record) == Past(record.timestamps)

Stale(record) == record.locked < 0 /\ Past(record.timestamps)

Pruned(records) ==
  IF Cardinality(DOMAIN records) < PRUNE_THRESHOLD
  THEN records
  ELSE Restrict(records, {k \in DOMAIN records : ~ Stale(records[k])})

WrongPassword(source, name) ==
  LET k == Key(source, name)
      before == IF k \in DOMAIN attempts THEN attempts[k] ELSE NewRecord
  IN
  /\ LoginAllowed(k)
  /\ attempts' = Pruned([j \in DOMAIN attempts \cup {k} |->
                           IF j = k THEN Failed(before) ELSE attempts[j]])
  /\ wrong' = [wrong EXCEPT ![k] = AndNow(@)]

RightPassword(source, name) ==
  LET k == Key(source, name) IN
  /\ LoginAllowed(k)
  /\ attempts' = Restrict(attempts, DOMAIN attempts \ {k})
  /\ wrong' = [wrong EXCEPT ![k] = NoFailures]

ThrottleTick ==
  /\ attempts' = [k \in DOMAIN attempts |->
       [timestamps |-> Older(attempts[k].timestamps),
        locked |-> IF attempts[k].locked < 0 THEN -1 ELSE attempts[k].locked - 1]]
  /\ wrong' = [k \in Keys |-> Older(wrong[k])]

ThrottleNext ==
  \/ ThrottleTick
  \/ \E source \in Sources, name \in Names :
       WrongPassword(source, name) \/ RightPassword(source, name)

ThrottleSpec == ThrottleInit /\ [][ThrottleNext]_throttleVars

-----------------------------------------------------------------------------
(* Properties                                                              *)

(* However attempts are spread over time, and whatever else the map is     *)
(* pruned of, no window of WINDOW ticks holds more than MAX_ATTEMPTS wrong *)
(* passwords of one address against one identifier in any spelling, unless *)
(* a right one came between.                                               *)
GuessesAreBounded ==
  \A k \in Keys : CountIn(wrong[k], 0, WINDOW) <= MAX_ATTEMPTS

(* Nobody is locked out early: a running lockout began when MAX_ATTEMPTS   *)
(* wrong passwords lay inside one window, with no right one since.         *)
LockoutIsEarned ==
  \A k \in DOMAIN attempts :
    LET began == LOCKOUT - attempts[k].locked IN
    attempts[k].locked > 0 =>
      CountIn(wrong[k], began, began + WINDOW) >= MAX_ATTEMPTS
=============================================================================
