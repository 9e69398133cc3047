---------------------------- MODULE SettingsCache ----------------------------
(***************************************************************************)
(* The site-wide settings: override rows in app_settings, merged with the  *)
(* defaults of the specification table and memoised in each process for    *)
(* TTL ticks (app/services/app_settings.py).  The handlers are synchronous *)
(* and run on a thread pool, so get_all, save, reset and invalidate of     *)
(* several requests interleave at every read and write of the two module   *)
(* globals; only the writes take the lock.                                 *)
(*                                                                         *)
(* Time is kept as ages: what is left of a cached copy, how long a request *)
(* has been running, how long ago a saved state was superseded.            *)
(***************************************************************************)
EXTENDS Integers, Sequences, SequencesExt, FiniteSets

CONSTANTS
  Procs,      \* the processes that serve requests, each with its own cache
  Requests,   \* request threads
  SETTINGS,   \* key |-> [type, default, minimum, maximum]
  Forms,      \* the {key: raw value} bodies PUT / may carry
  Groups,     \* the sets of keys POST /reset may name
  TTL,        \* _CACHE_TTL
  Span,       \* bound: how long one request may run
  MaxSaves    \* bound: commits in one behaviour

ASSUME TTLAssumption == TTL \in Nat \ {0}
ASSUME SpanAssumption == Span \in Nat
ASSUME MaxSavesAssumption == MaxSaves \in Nat

VARIABLES
  log,    \* the states of app_settings, oldest first; the last is current
  since,  \* for each, how long ago it was superseded (0 for the current one)
  cache,  \* per process: _cache and what is left until _cache_expires_at
  lock,   \* per process: the request that holds _lock
  req     \* what each request is doing

vars == <<log, since, cache, lock, req>>

-----------------------------------------------------------------------------
(* Values and their validation.                                            *)

Keys == DOMAIN SETTINGS
DEFAULTS == [k \in Keys |-> SETTINGS[k].default]

NoRow == [none |-> "row"]         \* the key has no override row
Rejected == [none |-> "value"]    \* coerce raised SettingError
Nothing == [none |-> "values"]    \* _cache is None; a request without answer
Refused == [none |-> "refused"]   \* the 400 answer
Failed == [none |-> "failed"]     \* the 500 answer of a failed commit
Nobody == "nobody"

ASSUME RequestsAssumption == Nobody \notin Requests

\* A raw value is a record with one field saying what JSON it is.  Texts are
\* kept as the classes coerce tells apart, after strip().
Truthy == {"1", "true", "on", "yes"}
Http == {"https://shop"}
Dial == {"tel:1", "mailto:a@b"}
Site == {"/static/pic", "/static/pic2"}
WithAt == {"a@b", "mailto:a@b"}
TooLong == {"4001 characters"}

Text(raw) == IF "text" \in DOMAIN raw THEN raw.text ELSE ""

Coerced(key, raw) ==
  LET s == SETTINGS[key] IN
  CASE s.type = "bool" ->
         [bool |-> \/ "bool" \in DOMAIN raw /\ raw.bool
                   \/ "text" \in DOMAIN raw /\ raw.text \in Truthy
                   \/ "number" \in DOMAIN raw /\ raw.number # 0]
    [] s.type = "number" ->
         IF "number" \in DOMAIN raw /\ raw.number \in s.minimum .. s.maximum
         THEN raw ELSE Rejected
    [] OTHER ->
         LET accepts == CASE s.type = "url" -> Http \cup Dial
                          [] s.type = "image" -> Http \cup Site
                          [] s.type = "email" -> WithAt
                          [] OTHER -> {Text(raw)} \ TooLong
         IN IF Text(raw) \in accepts \cup {""} THEN [text |-> Text(raw)] ELSE Rejected

\* The whole form is coerced before anything is read or written.
Acceptable(form) ==
  \A k \in DOMAIN form : k \in Keys /\ Coerced(k, form[k]) # Rejected

Merged(rows) ==
  [k \in Keys |-> IF rows[k] = NoRow THEN DEFAULTS[k] ELSE rows[k]]

\* The row save leaves for a key: none when the value is the default.
RowFor(key, raw) ==
  IF Coerced(key, raw) = DEFAULTS[key] THEN NoRow ELSE Coerced(key, raw)

Rows == Last(log)
Current == Merged(Rows)

-----------------------------------------------------------------------------
Idle == [at |-> "idle"]
NoCopy == [values |-> Nothing, left |-> -Span]   \* None and 0.0: long expired

Init ==
  /\ log = <<[k \in Keys |-> NoRow]>>
  /\ since = <<0>>
  /\ cache = [p \in Procs |-> NoCopy]
  /\ lock = [p \in Procs |-> Nobody]
  /\ req = [r \in Requests |-> Idle]

Commit(rows) ==
  IF rows = Rows
  THEN UNCHANGED <<log, since>>
  ELSE /\ log' = Append(log, rows)
       /\ since' = Append(since, 0)

Start(r, begun) ==
  /\ req[r].at = "idle"
  /\ req' = [req EXCEPT ![r] = begun]

Answer(r, values) ==
  req' = [req EXCEPT ![r] = [at |-> "done", answer |-> values, writes |-> @.writes,
                             torn |-> @.torn, mine |-> @.mine]]

-----------------------------------------------------------------------------
(* get_all                                                                 *)

\* GET / and /public, app_settings.get: `cached = _cache`, with the clock
\* read just before.
ReadCache(r, p) ==
  LET got == cache[p].values IN
  /\ Start(r, [at |-> IF got = Nothing THEN "load" ELSE "check", got |-> got,
               writes |-> FALSE, proc |-> p, age |-> 0, torn |-> FALSE, mine |-> 1])
  /\ UNCHANGED <<log, since, cache, lock>>

\* A hit renews the copy.
CheckAndRenew(r) ==
  /\ req[r].at = "check"
  /\ IF cache[req[r].proc].left + req[r].age > 0
     THEN /\ Answer(r, req[r].got)
          /\ cache' = [cache EXCEPT ![req[r].proc].left = TTL]
     ELSE /\ req' = [req EXCEPT ![r].at = "load"]
          /\ UNCHANGED cache
  /\ UNCHANGED <<log, since, lock>>

\* The expiry is not looked at.
CheckNothing(r) ==
  /\ req[r].at = "check"
  /\ Answer(r, req[r].got)
  /\ UNCHANGED <<log, since, cache, lock>>

\* `_cache_expires_at > now`, where now is as old as the request.
CheckExpiry(r) ==
  /\ req[r].at = "check"
  /\ IF cache[req[r].proc].left + req[r].age > 0
     THEN Answer(r, req[r].got)
     ELSE req' = [req EXCEPT ![r].at = "load"]
  /\ UNCHANGED <<log, since, cache, lock>>

\* get_all after a write without fresh=True.
LoadOrCached(r) ==
  LET copy == cache[req[r].proc].values IN
  /\ req[r].at = "load"
  /\ req' = [req EXCEPT ![r].at = "store",
        ![r].got = IF req[r].writes /\ copy # Nothing THEN copy ELSE Current]
  /\ UNCHANGED <<log, since, cache, lock>>

\* _load: one statement, so one committed state.
Load(r) ==
  /\ req[r].at = "load"
  /\ req' = [req EXCEPT ![r].at = "store", ![r].got = Current]
  /\ UNCHANGED <<log, since, cache, lock>>

\* The two assignments under the lock.  Readers do not take it.
StoreValues(r) ==
  LET p == req[r].proc IN
  /\ req[r].at = "store"
  /\ lock[p] = Nobody
  /\ lock' = [lock EXCEPT ![p] = r]
  /\ cache' = [cache EXCEPT ![p].values = req[r].got]
  /\ req' = [req EXCEPT ![r].at = "stored"]
  /\ UNCHANGED <<log, since>>

\* A request between its two reads now tests the expiry of another copy.
StoreExpiry(r) ==
  LET p == req[r].proc IN
  /\ req[r].at = "stored"
  /\ cache' = [cache EXCEPT ![p].left = TTL]
  /\ lock' = [lock EXCEPT ![p] = Nobody]
  /\ req' = [s \in Requests |->
       IF s = r THEN [at |-> "done", answer |-> req[r].got, writes |-> req[r].writes,
                      torn |-> FALSE, mine |-> req[r].mine]
       ELSE IF req[s].at = "check" /\ req[s].proc = p
            THEN [req[s] EXCEPT !.torn = TRUE]
            ELSE req[s]]
  /\ UNCHANGED <<log, since>>

-----------------------------------------------------------------------------
(* save and reset                                                          *)

RoomForASave ==
  Len(log) + Cardinality({r \in Requests : req[r].at = "commit"}) <= MaxSaves

Refuse(r, p, form) ==
  /\ ~ Acceptable(form)
  /\ req[r].at = "idle"
  /\ req' = [req EXCEPT ![r] = [at |-> "done", answer |-> Refused, writes |-> FALSE,
                                torn |-> FALSE, mine |-> 1]]
  /\ UNCHANGED <<log, since, cache, lock>>

\* PUT / and POST /image/{key}: the rows that exist are read first.
ReadExisting(r, p, form) ==
  /\ Acceptable(form)
  /\ RoomForASave
  /\ Start(r, [at |-> "commit", form |-> form, existing |-> Rows, writes |-> TRUE,
               proc |-> p, age |-> 0, torn |-> FALSE, mine |-> 1])
  /\ UNCHANGED <<log, since, cache, lock>>

\* What the flush does for one key: an INSERT, an UPDATE of a row whose
\* value changes or that somebody else wrote last, or a DELETE.
Inserts(r, k) == req[r].existing[k] = NoRow /\ RowFor(k, req[r].form[k]) # NoRow
Updates(r, k) ==
  /\ NoRow \notin {req[r].existing[k], RowFor(k, req[r].form[k])}
  /\ req[r].existing[k] # RowFor(k, req[r].form[k])
Deletes(r, k) == req[r].existing[k] # NoRow /\ RowFor(k, req[r].form[k]) = NoRow

\* An INSERT of a key that has a row by now, or an UPDATE of a row that has
\* gone, fails the whole commit; a DELETE of nothing does not.
Collides(r) ==
  \E k \in DOMAIN req[r].form :
    \/ Inserts(r, k) /\ Rows[k] # NoRow
    \/ Updates(r, k) /\ Rows[k] = NoRow

SaveCommit(r) ==
  LET form == req[r].form
      written == {k \in DOMAIN form : Inserts(r, k) \/ Updates(r, k) \/ Deletes(r, k)}
  IN
  /\ req[r].at = "commit"
  /\ ~ Collides(r)
  /\ Commit([k \in Keys |-> IF k \in written THEN RowFor(k, form[k]) ELSE Rows[k]])
  /\ req' = [req EXCEPT ![r] = [at |-> "invalidate", proc |-> @.proc, age |-> @.age,
                                got |-> Nothing, writes |-> TRUE, torn |-> FALSE,
                                mine |-> Len(log')]]
  /\ UNCHANGED <<cache, lock>>

SaveFails(r) ==
  /\ req[r].at = "commit"
  /\ Collides(r)
  /\ Answer(r, Failed)
  /\ UNCHANGED <<log, since, cache, lock>>

\* POST /reset: one bulk DELETE, whatever rows there are.
ResetCommit(r, p, keys) ==
  /\ RoomForASave
  /\ Commit([k \in Keys |-> IF k \in keys THEN NoRow ELSE Rows[k]])
  /\ req[r].at = "idle"
  /\ req' = [req EXCEPT ![r] = [at |-> "invalidate", proc |-> p, age |-> 0, got |-> Nothing,
                                writes |-> TRUE, torn |-> FALSE, mine |-> Len(log')]]
  /\ UNCHANGED <<cache, lock>>

\* invalidate(), then get_all(fresh=True): straight to the load.
ForgetValues(r) ==
  LET p == req[r].proc IN
  /\ req[r].at = "invalidate"
  /\ lock[p] = Nobody
  /\ lock' = [lock EXCEPT ![p] = r]
  /\ cache' = [cache EXCEPT ![p].values = Nothing]
  /\ req' = [req EXCEPT ![r].at = "invalidated"]
  /\ UNCHANGED <<log, since>>

ForgetExpiry(r) ==
  LET p == req[r].proc IN
  /\ req[r].at = "invalidated"
  /\ cache' = [cache EXCEPT ![p].left = -Span]
  /\ lock' = [lock EXCEPT ![p] = Nobody]
  /\ req' = [req EXCEPT ![r].at = "load"]
  /\ UNCHANGED <<log, since>>

-----------------------------------------------------------------------------
Oldest == TTL + 2 * Span         \* ages are not told apart beyond this
Up(age) == IF age < Oldest THEN age + 1 ELSE age
Running(r) == req[r].at \notin {"idle", "done"}

Tick ==
  /\ \A r \in Requests : Running(r) => req[r].age < Span
  /\ cache' = [p \in Procs |->
       [cache[p] EXCEPT !.left = IF @ > -Span THEN @ - 1 ELSE @]]
  /\ since' = [i \in DOMAIN since |-> IF i < Len(log) THEN Up(since[i]) ELSE 0]
  /\ req' = [r \in Requests |->
       IF Running(r) THEN [req[r] EXCEPT !.age = @ + 1] ELSE Idle]
  /\ UNCHANGED <<log, lock>>

Steps(r) ==
  \/ CheckExpiry(r)
  \/ Load(r)
  \/ StoreValues(r)
  \/ StoreExpiry(r)
  \/ SaveCommit(r)
  \/ SaveFails(r)
  \/ ForgetValues(r)
  \/ ForgetExpiry(r)

Next ==
  \/ Tick
  \/ \E r \in Requests : Steps(r)
  \/ \E r \in Requests, p \in Procs :
       \/ ReadCache(r, p)
       \/ \E form \in Forms : Refuse(r, p, form) \/ ReadExisting(r, p, form)
       \/ \E keys \in Groups : ResetCommit(r, p, keys)

Fairness == WF_vars(Tick) /\ \A r \in Requests : WF_vars(Steps(r))

Spec == Init /\ [][Next]_vars /\ Fairness

-----------------------------------------------------------------------------
(* Properties                                                              *)

Answered(r) == req[r].at = "done" /\ req[r].answer \notin {Refused, Failed}

(* Every answer of the settings store is the merge of one state that was   *)
(* really committed, never a mixture of two saves; and the answer to a save *)
(* or a reset shows that save or a later state, whatever readers store in  *)
(* the cache meanwhile (get_all(fresh=True) after invalidate).             *)
AnswersAreSaves ==
  \A r \in Requests : Answered(r) =>
    \E i \in req[r].mine .. Len(log) : req[r].answer = Merged(log[i])

(* A reader is never shown settings that were superseded TTL and two       *)
(* request times ago or earlier - unless another thread refilled the copy between  *)
(* its reads of _cache and _cache_expires_at, which no lock protects.      *)
AnswersAreRecent ==
  \A r \in Requests : Answered(r) /\ ~ req[r].torn =>
    \E i \in DOMAIN log :
      req[r].answer = Merged(log[i]) /\ since[i] < TTL + 2 * Span

(* Once nobody changes the settings any more, every process comes to answer *)
(* with the current ones and stays with them, the process that did not see *)
(* the save and the late store of an old load included.                    *)
EveryProcessCatchesUp ==
  <>[](\A r \in Requests : Answered(r) => req[r].answer = Current)

(* "Writes invalidate immediately, so an admin who saves a change sees it   *)
(* on the next page load": when no request is under way, what a process     *)
(* would answer from its copy is what is saved.  Stated for one process;    *)
(* the others have until the TTL.                                           *)
(* The code does not keep it (README, section 6).                           *)
SavedIsShown ==
  (\A r \in Requests : ~ Running(r)) =>
    \A p \in Procs : cache[p].values # Nothing /\ cache[p].left > 0 => cache[p].values = Current

(* "Other worker processes / the second container pick it up within the     *)
(* TTL": AnswersAreRecent for every reader, also one whose two reads of     *)
(* _cache and _cache_expires_at another thread's refill came between.       *)
(* The code does not keep it (README, section 6).                           *)
PickedUpWithinTheTtl ==
  \A r \in Requests : Answered(r) =>
    \E i \in DOMAIN log :
      req[r].answer = Merged(log[i]) /\ since[i] < TTL + 2 * Span
=============================================================================
