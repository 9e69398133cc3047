------------------------ MODULE SettingsCacheProofs -------------------------
(***************************************************************************)
(* Theorems about SettingsCache, for every settings table, every set of    *)
(* processes, requests and forms, and every lifetime of a copy.            *)
(*                                                                         *)
(* Every copy of the settings, cached or in the hands of a request, is the *)
(* merge of one state that was committed, and each is kept with how long   *)
(* ago that state can have been superseded: a loaded one no longer than    *)
(* its request has run, a cached one no longer than the part of TTL that   *)
(* is used up and one request more.                                        *)
(***************************************************************************)
EXTENDS SettingsCache, SequenceTheorems, TLAPS

(* What a key's override row can hold, and a copy of the settings.          *)
Stored == {NoRow} \cup UNION {{RowFor(k, form[k]) : k \in DOMAIN form} : form \in Forms}
Table  == [Keys -> Stored]
Copies == {Nothing} \cup {Merged(rows) : rows \in Table}

(* The records a request goes through. *)
Reading == [at : {"check", "load", "store", "stored", "invalidate", "invalidated"},
            got : Copies, writes : BOOLEAN, proc : Procs, age : 0..Span, torn : BOOLEAN, mine : Nat]
Saving  == [at : {"commit"}, form : Forms, existing : Table,
            writes : BOOLEAN, proc : Procs, age : 0..Span, torn : BOOLEAN, mine : Nat]
Over    == [at : {"done"}, answer : Copies \cup {Refused, Failed},
            writes : BOOLEAN, torn : BOOLEAN, mine : Nat]

TypeOK ==
  /\ log \in Seq(Table) /\ since \in Seq(0..Oldest)
  /\ Len(log) \in Nat \ {0} /\ Len(since) = Len(log) /\ since[Len(log)] = 0
  /\ cache \in [Procs -> [values : Copies, left : (-Span)..TTL]]
  /\ lock \in [Procs -> Requests \cup {Nobody}]
  /\ req \in [Requests -> {Idle} \cup Reading \cup Saving \cup Over]

(* The copy v is one of the states L from number lo on, superseded no       *)
(* longer ago than `old`.                                                   *)
Of(L, S, v, lo, old) == \E i \in lo..Len(L) : v = Merged(L[i]) /\ S[i] <= old

(* How long ago the cached copy of a process can have been superseded.      *)
Reach(c, p) == Span + TTL - c[p].left

Cached(L, S, c, p) == c[p].values # Nothing => Of(L, S, c[p].values, 1, Reach(c, p))

(* Request r, whose record is q, with the states L, the caches c and the    *)
(* locks l.  One that stores holds the lock, so the copy whose expiry it is *)
(* about to write is its own.                                               *)
Fine(L, S, c, l, q, r) ==
  /\ q.at # "idle" => q.mine \in 1..Len(L)
  /\ q.at = "check" =>
       /\ q.mine = 1
       /\ Of(L, S, q.got, 1, Oldest)
       /\ ~q.torn => Of(L, S, q.got, 1, Reach(c, q.proc))
  /\ q.at \in {"store", "stored"} => Of(L, S, q.got, q.mine, q.age)
  /\ q.at \in {"stored", "invalidated"} => l[q.proc] = r
  /\ q.at = "stored" => c[q.proc].values = q.got
  /\ q.at = "done" /\ q.answer \notin {Refused, Failed} =>
       Of(L, S, q.answer, q.mine, IF q.torn THEN Oldest ELSE Oldest - 1)

(* The inductive invariant. *)
Sound ==
  /\ TypeOK
  /\ \A p \in Procs : Cached(log, since, cache, p)
  /\ \A r \in Requests : Fine(log, since, cache, lock, req[r], r)

USE TTLAssumption, SpanAssumption DEF Oldest

-----------------------------------------------------------------------------
(* What survives when states are added, and what a bystander keeps.         *)

Grown(L, S, M, T) ==
  /\ L \in Seq(Table) /\ M \in Seq(Table) /\ S \in Seq(0..Oldest) /\ T \in Seq(0..Oldest)
  /\ Len(L) <= Len(M) /\ Len(S) = Len(L) /\ Len(T) = Len(M)
  /\ \A i \in 1..Len(L) : M[i] = L[i] /\ T[i] = S[i]

LEMMA OfStays ==
  ASSUME NEW L, NEW S, NEW M, NEW T, Grown(L, S, M, T),
         NEW v, NEW lo \in Nat \ {0}, NEW old \in Int, NEW more \in Int, old <= more,
         Of(L, S, v, lo, old)
  PROVE  Of(M, T, v, lo, more)
<1>1. PICK i \in lo..Len(L) : v = Merged(L[i]) /\ S[i] <= old
  BY DEF Of
<1>2. i \in 1..Len(L) /\ i \in lo..Len(M) /\ S[i] \in 0..Oldest
  BY <1>1 DEF Grown
<1>3. M[i] = L[i] /\ T[i] = S[i]
  BY <1>2 DEF Grown
<1>4. v = Merged(M[i]) /\ T[i] <= more
  BY <1>1, <1>2, <1>3
<1> QED BY <1>2, <1>4 DEF Of

(* Nobody waits: what a request or a cache holds is not younger than it     *)
(* was, unless the request was told to tear.                                *)
LEMMA FineStays ==
  ASSUME NEW L, NEW S, NEW M, NEW T, Grown(L, S, M, T),
         NEW c \in [Procs -> [values : Copies, left : (-Span)..TTL]],
         NEW d \in [Procs -> [values : Copies, left : (-Span)..TTL]],
         NEW l, NEW m,
         NEW q \in {Idle} \cup Reading \cup Saving \cup Over, NEW r,
         Fine(L, S, c, l, q, r),
         q.at = "check" /\ ~q.torn => Reach(d, q.proc) = Reach(c, q.proc) \/ Reach(d, q.proc) = Oldest,
         q.at \in {"stored", "invalidated"} => m[q.proc] = r,
         q.at = "stored" => d[q.proc].values = c[q.proc].values
  PROVE  Fine(M, T, d, m, q, r)
<1>1. q.at # "idle" => q.mine \in 1..Len(M) /\ q.mine \in Nat \ {0}
  BY DEF Fine, Grown
<1>2. ASSUME q.at = "check"
      PROVE  /\ q.mine = 1
             /\ Of(M, T, q.got, 1, Oldest)
             /\ ~q.torn => Of(M, T, q.got, 1, Reach(d, q.proc))
  <2>1. q \in Reading
    BY <1>2 DEF Idle, Saving, Over, Reading
  <2>2. q.proc \in Procs /\ Oldest \in Int /\ Reach(c, q.proc) \in Int
    BY <2>1 DEF Reading, Reach
  <2>3. Of(M, T, q.got, 1, Oldest)
    BY <1>2, <2>2, OfStays DEF Fine
  <2>4. ~q.torn => Of(M, T, q.got, 1, Reach(c, q.proc))
    BY <1>2, <2>2, OfStays DEF Fine
  <2> QED BY <1>2, <2>3, <2>4 DEF Fine
<1>3. ASSUME q.at \in {"store", "stored"} PROVE Of(M, T, q.got, q.mine, q.age)
  <2>1. q \in Reading
    BY <1>3 DEF Idle, Saving, Over, Reading
  <2>2. q.age \in Int
    BY <2>1 DEF Reading
  <2> QED BY <1>1, <1>3, <2>2, OfStays DEF Fine
<1>4. ASSUME q.at = "done", q.answer \notin {Refused, Failed}
      PROVE  Of(M, T, q.answer, q.mine, IF q.torn THEN Oldest ELSE Oldest - 1)
  BY <1>1, <1>4, OfStays DEF Fine
<1> QED BY <1>1, <1>2, <1>3, <1>4 DEF Fine

LEMMA CachedStays ==
  ASSUME NEW L, NEW S, NEW M, NEW T, Grown(L, S, M, T),
         NEW c, NEW d, NEW p, Reach(c, p) \in Int, Reach(d, p) \in Int,
         Cached(L, S, c, p),
         \/ d[p].values = c[p].values /\ Reach(c, p) <= Reach(d, p)
         \/ d[p].values = Nothing
  PROVE  Cached(M, T, d, p)
BY OfStays DEF Cached

LEMMA CommitGrows ==
  ASSUME TypeOK, NEW rows \in Table, Commit(rows)
  PROVE  /\ Grown(log, since, log', since')
         /\ Len(log') \in Nat \ {0} /\ Len(log) <= Len(log') /\ since'[Len(log')] = 0
<1>1. /\ log \in Seq(Table) /\ since \in Seq(0..Oldest)
      /\ Len(log) \in Nat \ {0} /\ Len(since) = Len(log) /\ since[Len(log)] = 0
  BY DEF TypeOK
<1>2. CASE UNCHANGED <<log, since>>
  BY <1>1, <1>2 DEF Grown
<1>3. CASE log' = Append(log, rows) /\ since' = Append(since, 0)
  <2>1. 0 \in 0..Oldest
    OBVIOUS
  <2>2. /\ log' \in Seq(Table) /\ Len(log') = Len(log) + 1 /\ log'[Len(log')] = rows
        /\ \A i \in 1..Len(log) : log'[i] = log[i]
    BY <1>1, <1>3
  <2>3. /\ since' \in Seq(0..Oldest) /\ Len(since') = Len(since) + 1 /\ since'[Len(since')] = 0
        /\ \A i \in 1..Len(since) : since'[i] = since[i]
    BY <1>1, <1>3, <2>1
  <2> QED BY <1>1, <2>2, <2>3 DEF Grown
<1> QED BY <1>2, <1>3 DEF Commit

(* What is loaded now is the newest state, which nothing has superseded.    *)
LEMMA CurrentIsNewest ==
  ASSUME TypeOK
  PROVE  /\ Current \in Copies /\ Rows \in Table
         /\ \A n \in 1..Len(log) : Of(log, since, Current, n, 0)
<1>1. /\ log \in Seq(Table) /\ since \in Seq(0..Oldest)
      /\ Len(log) \in Nat \ {0} /\ Len(since) = Len(log) /\ since[Len(log)] = 0
  BY DEF TypeOK
<1>2. Rows = log[Len(log)] /\ Len(log) \in 1..Len(log)
  BY <1>1 DEF Rows, Last
<1>3. Rows \in Table /\ since[Len(log)] \in 0..Oldest
  BY <1>1, <1>2
<1>4. Current = Merged(log[Len(log)])
  BY <1>2 DEF Current
<1>5. ASSUME NEW n \in 1..Len(log) PROVE Of(log, since, Current, n, 0)
  BY <1>1, <1>3, <1>4 DEF Of
<1> QED BY <1>3, <1>5 DEF Current, Copies

-----------------------------------------------------------------------------
(* Steps of one request that leave the caches and the table alone.          *)

LEMMA Itself == ASSUME TypeOK PROVE Grown(log, since, log, since)
BY DEF TypeOK, Grown

LEMMA OneMoved ==
  ASSUME Sound, NEW r \in Requests, NEW q \in {Idle} \cup Reading \cup Saving \cup Over,
         req' = [req EXCEPT ![r] = q], UNCHANGED <<log, since, cache, lock>>,
         Fine(log, since, cache, lock, q, r)
  PROVE  Sound'
<1>1. req \in [Requests -> {Idle} \cup Reading \cup Saving \cup Over]
  BY DEF Sound, TypeOK
<1>2. req' \in [Requests -> {Idle} \cup Reading \cup Saving \cup Over]
      /\ req'[r] = q /\ \A s \in Requests : s # r => req'[s] = req[s]
  BY <1>1
<1>3. \A s \in Requests : Fine(log, since, cache, lock, req'[s], s)
  BY <1>2 DEF Sound
<1>4. TypeOK'
  BY <1>2 DEF Sound, TypeOK
<1> QED BY <1>3, <1>4 DEF Sound

(* The record a request has at each of its steps. *)
LEMMA RecordOf ==
  ASSUME TypeOK, NEW r \in Requests
  PROVE  /\ req[r].at \in {"check", "load", "store", "stored", "invalidate", "invalidated"} => req[r] \in Reading
         /\ req[r].at = "commit" => req[r] \in Saving
         /\ req[r].at = "done" => req[r] \in Over
         /\ req[r] \in {Idle} \cup Reading \cup Saving \cup Over
         /\ req[r].at \in {"idle", "check", "load", "store", "stored", "invalidate", "invalidated",
                           "commit", "done"}
BY DEF TypeOK, Idle, Reading, Saving, Over

LEMMA ReadCacheOK ==
  ASSUME Sound, NEW r \in Requests, NEW p \in Procs, ReadCache(r, p) PROVE Sound'
<1> DEFINE got == cache[p].values
           q == [at |-> IF got = Nothing THEN "load" ELSE "check", got |-> got, writes |-> FALSE,
                 proc |-> p, age |-> 0, torn |-> FALSE, mine |-> 1]
<1>1. /\ cache[p] \in [values : Copies, left : (-Span)..TTL] /\ Cached(log, since, cache, p)
      /\ Len(log) \in Nat \ {0} /\ TypeOK
  BY DEF Sound, TypeOK
<1>2. q \in Reading
  BY <1>1 DEF Reading
<1>3. req' = [req EXCEPT ![r] = q] /\ UNCHANGED <<log, since, cache, lock>>
  BY DEF ReadCache, Start
<1>4. Fine(log, since, cache, lock, q, r)
  <2>1. got # Nothing => Of(log, since, got, 1, Reach(cache, p))
    BY <1>1 DEF Cached
  <2>2. Reach(cache, p) \in Int /\ Reach(cache, p) <= Oldest
    BY <1>1 DEF Reach
  <2>3. got # Nothing => Of(log, since, got, 1, Oldest)
    BY <1>1, <2>1, <2>2, Itself, OfStays
  <2> QED BY <1>1, <2>1, <2>3 DEF Fine
<1> HIDE DEF q
<1> QED BY <1>2, <1>3, <1>4, OneMoved

(* A copy that is still within its lifetime, by a clock as old as the       *)
(* request, is recent.                                                      *)
LEMMA CheckOK == ASSUME Sound, NEW r \in Requests, CheckExpiry(r) PROVE Sound'
<1>1. /\ req[r] \in Reading /\ req[r].at = "check" /\ Fine(log, since, cache, lock, req[r], r)
      /\ TypeOK /\ UNCHANGED <<log, since, cache, lock>>
  BY RecordOf DEF CheckExpiry, Sound
<1>2. req[r].proc \in Procs /\ cache[req[r].proc].left \in (-Span)..TTL /\ req[r].age \in 0..Span
  BY <1>1 DEF Reading, TypeOK
<1>3. CASE cache[req[r].proc].left + req[r].age > 0
  <2> DEFINE q == [at |-> "done", answer |-> req[r].got, writes |-> req[r].writes,
                   torn |-> req[r].torn, mine |-> req[r].mine]
  <2>1. q \in Over
    BY <1>1 DEF Reading, Over
  <2>2. req' = [req EXCEPT ![r] = q]
    BY <1>1, <1>3 DEF CheckExpiry, Answer, TypeOK
  <2>3. Reach(cache, req[r].proc) \in Int /\ Reach(cache, req[r].proc) <= Oldest - 1
    BY <1>2, <1>3 DEF Reach
  <2>4. ~req[r].torn => Of(log, since, req[r].got, 1, Oldest - 1)
    BY <1>1, <2>3, Itself, OfStays DEF Fine
  <2>5. Fine(log, since, cache, lock, q, r)
    BY <1>1, <2>4 DEF Fine
  <2> HIDE DEF q
  <2> QED BY <1>1, <2>1, <2>2, <2>5, OneMoved
<1>4. CASE ~(cache[req[r].proc].left + req[r].age > 0)
  <2> DEFINE q == [req[r] EXCEPT !.at = "load"]
  <2>1. q \in Reading /\ q.at = "load" /\ q.mine = req[r].mine
    BY <1>1 DEF Reading
  <2>2. req' = [req EXCEPT ![r] = q]
    BY <1>1, <1>4 DEF CheckExpiry
  <2> HIDE DEF q
  <2>3. Fine(log, since, cache, lock, q, r)
    BY <1>1, <2>1 DEF Fine
  <2> QED BY <1>1, <2>1, <2>2, <2>3, OneMoved
<1> QED BY <1>3, <1>4

LEMMA LoadOK == ASSUME Sound, NEW r \in Requests, Load(r) PROVE Sound'
<1>1. /\ req[r] \in Reading /\ req[r].at = "load" /\ Fine(log, since, cache, lock, req[r], r)
      /\ TypeOK /\ UNCHANGED <<log, since, cache, lock>>
  BY RecordOf DEF Load, Sound
<1>2. Current \in Copies /\ Of(log, since, Current, req[r].mine, 0)
  BY <1>1, CurrentIsNewest DEF Fine
<1> DEFINE q == [req[r] EXCEPT !.at = "store", !.got = Current]
<1>3. /\ q \in Reading /\ q.at = "store" /\ q.got = Current /\ q.mine = req[r].mine
      /\ q.age = req[r].age /\ q.age \in 0..Span
  BY <1>1, <1>2 DEF Reading
<1>4. req' = [req EXCEPT ![r] = q]
  BY <1>1 DEF Load
<1> HIDE DEF q
<1>5. q.mine \in 1..Len(log)
  BY <1>1, <1>3 DEF Fine
<1>6. Of(log, since, q.got, q.mine, q.age)
  BY <1>1, <1>2, <1>3, <1>5, Itself, OfStays
<1>7. Fine(log, since, cache, lock, q, r)
  BY <1>3, <1>5, <1>6 DEF Fine
<1> QED BY <1>1, <1>3, <1>4, <1>7, OneMoved

LEMMA RefuseOK ==
  ASSUME Sound, NEW r \in Requests, NEW p \in Procs, NEW form \in Forms, Refuse(r, p, form) PROVE Sound'
<1> DEFINE q == [at |-> "done", answer |-> Refused, writes |-> FALSE, torn |-> FALSE, mine |-> 1]
<1>1. q \in Over
  BY DEF Over
<1>2. req' = [req EXCEPT ![r] = q] /\ UNCHANGED <<log, since, cache, lock>>
  BY DEF Refuse
<1>3. Fine(log, since, cache, lock, q, r)
  BY DEF Fine, Sound, TypeOK
<1> HIDE DEF q
<1> QED BY <1>1, <1>2, <1>3, OneMoved

LEMMA ReadExistingOK ==
  ASSUME Sound, NEW r \in Requests, NEW p \in Procs, NEW form \in Forms, ReadExisting(r, p, form)
  PROVE  Sound'
<1> DEFINE q == [at |-> "commit", form |-> form, existing |-> Rows, writes |-> TRUE,
                 proc |-> p, age |-> 0, torn |-> FALSE, mine |-> 1]
<1>1. q \in Saving
  BY CurrentIsNewest DEF Saving, Sound
<1>2. req' = [req EXCEPT ![r] = q] /\ UNCHANGED <<log, since, cache, lock>>
  BY DEF ReadExisting, Start
<1>3. Fine(log, since, cache, lock, q, r)
  BY DEF Fine, Sound, TypeOK
<1> HIDE DEF q
<1> QED BY <1>1, <1>2, <1>3, OneMoved

LEMMA SaveFailsOK == ASSUME Sound, NEW r \in Requests, SaveFails(r) PROVE Sound'
<1>1. /\ req[r] \in Saving /\ Fine(log, since, cache, lock, req[r], r)
      /\ UNCHANGED <<log, since, cache, lock>>
  BY RecordOf DEF SaveFails, Sound
<1> DEFINE q == [at |-> "done", answer |-> Failed, writes |-> req[r].writes,
                 torn |-> req[r].torn, mine |-> req[r].mine]
<1>2. q \in Over
  BY <1>1 DEF Saving, Over
<1>3. req' = [req EXCEPT ![r] = q]
  BY DEF SaveFails, Answer, Sound, TypeOK
<1>4. Fine(log, since, cache, lock, q, r)
  BY <1>1 DEF Fine, Saving
<1> HIDE DEF q
<1> QED BY <1>1, <1>2, <1>3, <1>4, OneMoved

-----------------------------------------------------------------------------
(* Saves and resets.                                                        *)

LEMMA CommitMoved ==
  ASSUME Sound, NEW r \in Requests, NEW rows \in Table, Commit(rows), NEW q \in Reading,
         q.at = "invalidate", q.mine = Len(log'),
         req' = [req EXCEPT ![r] = q], UNCHANGED <<cache, lock>>
  PROVE  Sound'
<1>1. /\ Grown(log, since, log', since')
      /\ Len(log') \in Nat \ {0} /\ Len(log) <= Len(log') /\ since'[Len(log')] = 0
      /\ TypeOK
  BY CommitGrows DEF Sound
<1>2. req' \in [Requests -> {Idle} \cup Reading \cup Saving \cup Over]
      /\ req'[r] = q /\ \A s \in Requests : s # r => req'[s] = req[s]
  BY <1>1 DEF TypeOK
<1>3. TypeOK'
  BY <1>1, <1>2 DEF TypeOK, Grown
<1>4. ASSUME NEW s \in Requests PROVE Fine(log', since', cache, lock, req'[s], s)
  <2>1. CASE s = r
    BY <1>1, <1>2, <2>1 DEF Fine
  <2>2. CASE s # r
    <3>1. Fine(log, since, cache, lock, req[s], s)
          /\ req[s] \in {Idle} \cup Reading \cup Saving \cup Over
          /\ cache \in [Procs -> [values : Copies, left : (-Span)..TTL]]
      BY DEF Sound, TypeOK
    <3>2. req[s].at \in {"stored", "invalidated"} => lock[req[s].proc] = s
      BY <3>1 DEF Fine
    <3>3. Fine(log', since', cache, lock, req[s], s)
      BY <1>1, <3>1, <3>2, FineStays
    <3> QED BY <1>2, <2>2, <3>3
  <2> QED BY <2>1, <2>2
<1>5. ASSUME NEW p \in Procs PROVE Cached(log', since', cache, p)
  <2>1. Reach(cache, p) \in Int
    BY <1>1 DEF TypeOK, Reach
  <2>2. Cached(log, since, cache, p)
    BY DEF Sound
  <2> QED BY <1>1, <2>1, <2>2, CachedStays
<1> QED BY <1>3, <1>4, <1>5 DEF Sound

LEMMA SaveCommitOK == ASSUME Sound, NEW r \in Requests, SaveCommit(r) PROVE Sound'
<1> DEFINE form == req[r].form
           written == {k \in DOMAIN form : Inserts(r, k) \/ Updates(r, k) \/ Deletes(r, k)}
           rows == [k \in Keys |-> IF k \in written THEN RowFor(k, form[k]) ELSE Rows[k]]
           q == [at |-> "invalidate", proc |-> req[r].proc, age |-> req[r].age,
                 got |-> Nothing, writes |-> TRUE, torn |-> FALSE, mine |-> Len(log')]
<1>1. req[r] \in Saving /\ TypeOK /\ Rows \in Table
  BY RecordOf, CurrentIsNewest DEF SaveCommit, Sound
<1>2. form \in Forms /\ \A k \in written : RowFor(k, form[k]) \in Stored
  BY <1>1 DEF Saving, Stored
<1>3. rows \in Table
  <2> HIDE DEF written, form
  <2> QED BY <1>1, <1>2 DEF Table
<1>4. Commit(rows) /\ UNCHANGED <<cache, lock>>
  BY DEF SaveCommit
<1>5. req' = [req EXCEPT ![r] = q]
  BY <1>1 DEF SaveCommit, TypeOK
<1> HIDE DEF rows
<1>6. Len(log') \in Nat
  BY <1>1, <1>3, <1>4, CommitGrows
<1>7. q \in Reading /\ q.at = "invalidate" /\ q.mine = Len(log')
  BY <1>1, <1>6 DEF Saving, Reading, Copies
<1> HIDE DEF q
<1> QED BY <1>3, <1>4, <1>5, <1>7, CommitMoved

LEMMA ResetCommitOK ==
  ASSUME Sound, NEW r \in Requests, NEW p \in Procs, NEW keys \in Groups, ResetCommit(r, p, keys)
  PROVE  Sound'
<1> DEFINE rows == [k \in Keys |-> IF k \in keys THEN NoRow ELSE Rows[k]]
           q == [at |-> "invalidate", proc |-> p, age |-> 0, got |-> Nothing,
                 writes |-> TRUE, torn |-> FALSE, mine |-> Len(log')]
<1>1. rows \in Table /\ TypeOK
  BY CurrentIsNewest DEF Sound, Table, Stored
<1>2. Commit(rows) /\ req' = [req EXCEPT ![r] = q] /\ UNCHANGED <<cache, lock>>
  BY DEF ResetCommit
<1> HIDE DEF rows
<1>3. Len(log') \in Nat
  BY <1>1, <1>2, CommitGrows
<1>4. q \in Reading /\ q.at = "invalidate" /\ q.mine = Len(log')
  BY <1>3 DEF Reading, Copies
<1> HIDE DEF q
<1> QED BY <1>1, <1>2, <1>4, CommitMoved

-----------------------------------------------------------------------------
(* Writing the two globals.  Only the holder of the lock writes, so nobody  *)
(* else is between its two writes; readers between their two reads keep     *)
(* their copy, or are told to tear.                                         *)

Torn(q) == [q EXCEPT !.torn = TRUE]

LeftAlone(r, p, left) ==
  \A s \in Requests \ {r} :
    \/ req'[s] = req[s] /\ (req[s].at = "check" /\ req[s].proc = p => left \in {cache[p].left, -Span})
    \/ req[s].at = "check" /\ req'[s] = Torn(req[s])

LEMMA CacheMoved ==
  ASSUME Sound, NEW r \in Requests, NEW p \in Procs, lock[p] \in {Nobody, r},
         NEW entry \in [values : Copies, left : (-Span)..TTL], NEW holder \in Requests \cup {Nobody},
         cache' = [cache EXCEPT ![p] = entry], lock' = [lock EXCEPT ![p] = holder],
         UNCHANGED <<log, since>>,
         req' \in [Requests -> {Idle} \cup Reading \cup Saving \cup Over],
         LeftAlone(r, p, entry.left),
         Cached(log, since, cache', p), Fine(log, since, cache', lock', req'[r], r)
  PROVE  Sound'
<1>1. TypeOK /\ Grown(log, since, log, since)
      /\ cache \in [Procs -> [values : Copies, left : (-Span)..TTL]]
      /\ lock \in [Procs -> Requests \cup {Nobody}]
  BY Itself DEF Sound, TypeOK
<1>2. /\ cache' \in [Procs -> [values : Copies, left : (-Span)..TTL]]
      /\ cache'[p] = entry /\ \A o \in Procs : o # p => cache'[o] = cache[o]
      /\ lock' \in [Procs -> Requests \cup {Nobody}]
      /\ \A o \in Procs : o # p => lock'[o] = lock[o]
  BY <1>1
<1>3. TypeOK'
  BY <1>1, <1>2 DEF TypeOK
<1>4. ASSUME NEW o \in Procs PROVE Cached(log, since, cache', o)
  BY <1>2 DEF Sound, Cached, Reach
<1>5. ASSUME NEW s \in Requests, s # r PROVE Fine(log, since, cache', lock', req'[s], s)
  <2>1. /\ Fine(log, since, cache, lock, req[s], s)
        /\ req[s] \in {Idle} \cup Reading \cup Saving \cup Over
    BY DEF Sound, TypeOK
  <2>2. CASE req[s].at = "check" /\ req'[s] = Torn(req[s])
    <3>1. req[s] \in Reading
      BY <1>1, <2>2, RecordOf
    <3>2. /\ req'[s].at = "check" /\ req'[s].torn = TRUE /\ req'[s].got = req[s].got
          /\ req'[s].mine = req[s].mine
      BY <2>2, <3>1 DEF Reading, Torn
    <3> QED BY <2>1, <2>2, <3>2 DEF Fine
  <2>3. CASE req'[s] = req[s] /\ (req[s].at = "check" /\ req[s].proc = p =>
                                    entry.left \in {cache[p].left, -Span})
    <3>1. req[s].at = "check" =>
            Reach(cache', req[s].proc) \in {Reach(cache, req[s].proc), Oldest}
      <4>1. ASSUME req[s].at = "check" PROVE req[s].proc \in Procs
        BY <1>1, <4>1, RecordOf DEF Reading
      <4> QED BY <1>1, <1>2, <2>3, <4>1 DEF Reach
    <3>2. ASSUME req[s].at \in {"stored", "invalidated"}
          PROVE  /\ lock'[req[s].proc] = s
                 /\ req[s].at = "stored" => cache'[req[s].proc].values = cache[req[s].proc].values
      <4>1. req[s].proc \in Procs /\ lock[req[s].proc] = s
        BY <1>1, <2>1, <3>2, RecordOf DEF Reading, Fine
      <4>2. req[s].proc # p
        BY <1>5, <4>1, RequestsAssumption
      <4> QED BY <1>2, <4>1, <4>2
    <3>3. Fine(log, since, cache', lock', req[s], s)
      BY <1>1, <1>2, <2>1, <3>1, <3>2, FineStays
    <3> QED BY <2>3, <3>3
  <2> QED BY <1>5, <2>2, <2>3 DEF LeftAlone
<1> QED BY <1>3, <1>4, <1>5 DEF Sound

(* The fresh copy goes in while the old expiry still stands: it is younger  *)
(* than any expiry allows.                                                  *)
LEMMA StoreValuesOK == ASSUME Sound, NEW r \in Requests, StoreValues(r) PROVE Sound'
<1> DEFINE p == req[r].proc
           entry == [cache[p] EXCEPT !.values = req[r].got]
           q == [req[r] EXCEPT !.at = "stored"]
<1>1. /\ req[r] \in Reading /\ req[r].at = "store" /\ TypeOK
      /\ Fine(log, since, cache, lock, req[r], r) /\ p \in Procs
  BY RecordOf DEF StoreValues, Sound, Reading
<1>2. cache[p] \in [values : Copies, left : (-Span)..TTL]
  BY <1>1 DEF TypeOK
<1>3. entry \in [values : Copies, left : (-Span)..TTL] /\ entry.values = req[r].got
      /\ entry.left = cache[p].left
  BY <1>1, <1>2 DEF Reading
<1>4. /\ q \in Reading /\ q.at = "stored" /\ q.proc = p /\ q.got = req[r].got
      /\ q.mine = req[r].mine /\ q.age = req[r].age /\ req[r].age \in 0..Span /\ req[r].mine \in 1..Len(log)
  BY <1>1 DEF Reading, Fine
<1>5. /\ cache' = [cache EXCEPT ![p] = entry] /\ lock' = [lock EXCEPT ![p] = r]
      /\ req' = [req EXCEPT ![r] = q] /\ UNCHANGED <<log, since>> /\ lock[p] = Nobody
  BY <1>1 DEF StoreValues, TypeOK
<1> HIDE DEF p, entry, q
<1>6. /\ req' \in [Requests -> {Idle} \cup Reading \cup Saving \cup Over] /\ req'[r] = q
      /\ \A s \in Requests \ {r} : req'[s] = req[s]
      /\ cache'[p] = entry /\ lock'[p] = r /\ Len(log) \in Nat
  BY <1>1, <1>4, <1>5 DEF TypeOK
<1>7. Of(log, since, q.got, q.mine, q.age)
  BY <1>1, <1>4 DEF Fine
<1>8. Cached(log, since, cache', p)
  <2>1. Reach(cache', p) \in Int /\ q.age <= Reach(cache', p)
    BY <1>2, <1>3, <1>4, <1>6 DEF Reach
  <2>2. Of(log, since, q.got, q.mine, Reach(cache', p))
    BY <1>1, <1>4, <1>7, <2>1, Itself, OfStays
  <2>3. Of(log, since, entry.values, 1, Reach(cache', p))
    BY <1>3, <1>4, <1>6, <2>2 DEF Of
  <2> QED BY <1>6, <2>3 DEF Cached
<1>9. Fine(log, since, cache', lock', req'[r], r)
  BY <1>3, <1>4, <1>6, <1>7 DEF Fine
<1>10. LeftAlone(r, p, entry.left)
  BY <1>3, <1>6 DEF LeftAlone
<1>11. lock[p] \in {Nobody, r} /\ r \in Requests \cup {Nobody} /\ Nobody \in Requests \cup {Nobody}
  BY <1>5
<1> QED BY <1>1, <1>3, <1>5, <1>6, <1>8, <1>9, <1>10, <1>11, CacheMoved

LEMMA StoreExpiryOK == ASSUME Sound, NEW r \in Requests, StoreExpiry(r) PROVE Sound'
<1> DEFINE p == req[r].proc
           entry == [cache[p] EXCEPT !.left = TTL]
           q == [at |-> "done", answer |-> req[r].got, writes |-> req[r].writes,
                 torn |-> FALSE, mine |-> req[r].mine]
<1>1. /\ req[r] \in Reading /\ req[r].at = "stored" /\ TypeOK
      /\ Fine(log, since, cache, lock, req[r], r) /\ p \in Procs
  BY RecordOf DEF StoreExpiry, Sound, Reading
<1>2. cache[p] \in [values : Copies, left : (-Span)..TTL]
  BY <1>1 DEF TypeOK
<1>3. entry \in [values : Copies, left : (-Span)..TTL] /\ entry.values = cache[p].values
      /\ entry.left = TTL
  BY <1>1, <1>2
<1>4. /\ q \in Over /\ q.at = "done" /\ q.answer = req[r].got /\ q.mine = req[r].mine
      /\ q.torn = FALSE /\ req[r].age \in 0..Span /\ req[r].mine \in 1..Len(log)
  BY <1>1 DEF Reading, Over, Fine
<1>5. /\ cache' = [cache EXCEPT ![p] = entry] /\ lock' = [lock EXCEPT ![p] = Nobody]
      /\ UNCHANGED <<log, since>> /\ lock[p] = r /\ cache[p].values = req[r].got
  BY <1>1 DEF StoreExpiry, Fine
<1>6. /\ req' = [s \in Requests |-> IF s = r THEN q
                                    ELSE IF req[s].at = "check" /\ req[s].proc = p
                                         THEN Torn(req[s]) ELSE req[s]]
  BY DEF StoreExpiry, Torn
<1> HIDE DEF p, entry, q
<1>7. /\ req'[r] = q /\ cache'[p] = entry /\ Len(log) \in Nat
      /\ \A s \in Requests \ {r} :
           \/ req'[s] = req[s] /\ ~(req[s].at = "check" /\ req[s].proc = p)
           \/ req[s].at = "check" /\ req'[s] = Torn(req[s])
  BY <1>1, <1>5, <1>6 DEF TypeOK
<1>8. req' \in [Requests -> {Idle} \cup Reading \cup Saving \cup Over]
  <2>1. ASSUME NEW s \in Requests PROVE req'[s] \in {Idle} \cup Reading \cup Saving \cup Over
    <3>1. CASE s = r
      BY <1>4, <1>7, <3>1
    <3>2. CASE s # r /\ req'[s] = req[s]
      BY <1>1, <3>2 DEF TypeOK
    <3>3. CASE s # r /\ req[s].at = "check" /\ req'[s] = Torn(req[s])
      <4>1. req[s] \in Reading
        BY <1>1, <3>3, RecordOf
      <4> QED BY <3>3, <4>1 DEF Reading, Torn
    <3> QED BY <1>7, <3>1, <3>2, <3>3
  <2> QED BY <1>6, <2>1
<1>9. Of(log, since, req[r].got, req[r].mine, req[r].age)
  BY <1>1 DEF Fine
<1>10. Cached(log, since, cache', p)
  <2>1. Reach(cache', p) = Span
    BY <1>3, <1>7 DEF Reach
  <2>2. Of(log, since, req[r].got, req[r].mine, Span)
    BY <1>1, <1>4, <1>9, Itself, OfStays
  <2>3. Of(log, since, req[r].got, 1, Span)
    BY <1>4, <2>2, <1>7 DEF Of
  <2> QED BY <1>3, <1>5, <1>7, <2>1, <2>3 DEF Cached
<1>11. Fine(log, since, cache', lock', req'[r], r)
  <2>1. Of(log, since, req[r].got, req[r].mine, Oldest - 1)
    BY <1>1, <1>4, <1>9, Itself, OfStays
  <2> QED BY <1>4, <1>7, <2>1 DEF Fine
<1>12. LeftAlone(r, p, entry.left)
  BY <1>7 DEF LeftAlone
<1>13. lock[p] \in {Nobody, r} /\ r \in Requests \cup {Nobody} /\ Nobody \in Requests \cup {Nobody}
  BY <1>5
<1>14. /\ p \in Procs /\ entry \in [values : Copies, left : (-Span)..TTL]
       /\ cache' = [cache EXCEPT ![p] = entry] /\ lock' = [lock EXCEPT ![p] = Nobody]
       /\ UNCHANGED <<log, since>>
  BY <1>1, <1>3, <1>5
<1> QED BY <1>8, <1>10, <1>11, <1>12, <1>13, <1>14, CacheMoved

LEMMA ForgetValuesOK == ASSUME Sound, NEW r \in Requests, ForgetValues(r) PROVE Sound'
<1> DEFINE p == req[r].proc
           entry == [cache[p] EXCEPT !.values = Nothing]
           q == [req[r] EXCEPT !.at = "invalidated"]
<1>1. /\ req[r] \in Reading /\ req[r].at = "invalidate" /\ TypeOK
      /\ Fine(log, since, cache, lock, req[r], r) /\ p \in Procs
  BY RecordOf DEF ForgetValues, Sound, Reading
<1>2. cache[p] \in [values : Copies, left : (-Span)..TTL]
  BY <1>1 DEF TypeOK
<1>3. entry \in [values : Copies, left : (-Span)..TTL] /\ entry.values = Nothing
      /\ entry.left = cache[p].left
  BY <1>1, <1>2 DEF Copies
<1>4. q \in Reading /\ q.at = "invalidated" /\ q.proc = p /\ q.mine = req[r].mine
      /\ req[r].mine \in 1..Len(log)
  BY <1>1 DEF Reading, Fine
<1>5. /\ cache' = [cache EXCEPT ![p] = entry] /\ lock' = [lock EXCEPT ![p] = r]
      /\ req' = [req EXCEPT ![r] = q] /\ UNCHANGED <<log, since>> /\ lock[p] = Nobody
  BY <1>1 DEF ForgetValues, TypeOK
<1> HIDE DEF p, entry, q
<1>6. /\ req' \in [Requests -> {Idle} \cup Reading \cup Saving \cup Over] /\ req'[r] = q
      /\ \A s \in Requests \ {r} : req'[s] = req[s]
      /\ cache'[p] = entry /\ lock'[p] = r
  BY <1>1, <1>4, <1>5 DEF TypeOK
<1>7. Cached(log, since, cache', p)
  BY <1>3, <1>6 DEF Cached
<1>8. Fine(log, since, cache', lock', req'[r], r)
  BY <1>4, <1>6 DEF Fine
<1>9. LeftAlone(r, p, entry.left)
  BY <1>3, <1>6 DEF LeftAlone
<1>10. lock[p] \in {Nobody, r} /\ r \in Requests \cup {Nobody} /\ Nobody \in Requests \cup {Nobody}
  BY <1>5
<1> QED BY <1>1, <1>3, <1>5, <1>6, <1>7, <1>8, <1>9, <1>10, CacheMoved

LEMMA ForgetExpiryOK == ASSUME Sound, NEW r \in Requests, ForgetExpiry(r) PROVE Sound'
<1> DEFINE p == req[r].proc
           entry == [cache[p] EXCEPT !.left = -Span]
           q == [req[r] EXCEPT !.at = "load"]
<1>1. /\ req[r] \in Reading /\ req[r].at = "invalidated" /\ TypeOK
      /\ Fine(log, since, cache, lock, req[r], r) /\ p \in Procs
  BY RecordOf DEF ForgetExpiry, Sound, Reading
<1>2. cache[p] \in [values : Copies, left : (-Span)..TTL] /\ Cached(log, since, cache, p)
  BY <1>1 DEF TypeOK, Sound
<1>3. entry \in [values : Copies, left : (-Span)..TTL] /\ entry.values = cache[p].values
      /\ entry.left = -Span
  BY <1>1, <1>2
<1>4. q \in Reading /\ q.at = "load" /\ q.mine = req[r].mine /\ req[r].mine \in 1..Len(log)
  BY <1>1 DEF Reading, Fine
<1>5. /\ cache' = [cache EXCEPT ![p] = entry] /\ lock' = [lock EXCEPT ![p] = Nobody]
      /\ req' = [req EXCEPT ![r] = q] /\ UNCHANGED <<log, since>> /\ lock[p] = r
  BY <1>1 DEF ForgetExpiry, TypeOK, Fine
<1> HIDE DEF p, entry, q
<1>6. /\ req' \in [Requests -> {Idle} \cup Reading \cup Saving \cup Over] /\ req'[r] = q
      /\ \A s \in Requests \ {r} : req'[s] = req[s]
      /\ cache'[p] = entry
  BY <1>1, <1>4, <1>5 DEF TypeOK
<1>7. Cached(log, since, cache', p)
  <2>1. Reach(cache, p) \in Int /\ Reach(cache', p) \in Int /\ Reach(cache, p) <= Reach(cache', p)
    BY <1>2, <1>3, <1>6 DEF Reach
  <2> QED BY <1>1, <1>2, <1>3, <1>6, <2>1, Itself, CachedStays
<1>8. Fine(log, since, cache', lock', req'[r], r)
  BY <1>4, <1>6 DEF Fine
<1>9. LeftAlone(r, p, entry.left)
  BY <1>3, <1>6 DEF LeftAlone
<1> QED BY <1>1, <1>3, <1>5, <1>6, <1>7, <1>8, <1>9, CacheMoved

-----------------------------------------------------------------------------
(* A tick: what is superseded ages by one, and so does every request and    *)
(* every cached copy, as far as ages are told apart.                        *)

(* A function on 1..n is a sequence of length n. *)
LEMMA IsASequence ==
  ASSUME NEW n \in Nat, NEW S, NEW f \in [1..n -> S] PROVE f \in Seq(S) /\ Len(f) = n
  OBVIOUS

LEMMA TickOK == ASSUME Sound, Tick PROVE Sound'
<1>1. /\ TypeOK /\ log' = log /\ lock' = lock /\ Len(log) \in Nat \ {0}
      /\ log \in Seq(Table) /\ since \in Seq(0..Oldest) /\ Len(since) = Len(log)
      /\ cache \in [Procs -> [values : Copies, left : (-Span)..TTL]]
      /\ req \in [Requests -> {Idle} \cup Reading \cup Saving \cup Over]
  BY DEF Sound, TypeOK, Tick
<1>2. /\ since' = [i \in 1..Len(log) |-> IF i < Len(log) THEN Up(since[i]) ELSE 0]
      /\ since \in [1..Len(log) -> 0..Oldest]
  <2>1. since \in [1..Len(log) -> 0..Oldest] /\ DOMAIN since = 1..Len(log)
    BY <1>1, LenProperties
  <2> QED BY <2>1 DEF Tick
<1>3. \A n \in 0..Oldest : Up(n) \in 0..Oldest /\ Up(n) <= n + 1
  BY DEF Up
<1>4. /\ since' \in [1..Len(log) -> 0..Oldest] /\ since'[Len(log)] = 0
      /\ \A i \in 1..Len(log) : since'[i] <= since[i] + 1
  <2>1. ASSUME NEW i \in 1..Len(log)
        PROVE  since'[i] \in 0..Oldest /\ since'[i] <= since[i] + 1
    <3>1. since[i] \in 0..Oldest /\ since'[i] = IF i < Len(log) THEN Up(since[i]) ELSE 0
      BY <1>2
    <3>2. Up(since[i]) \in 0..Oldest /\ Up(since[i]) <= since[i] + 1
      BY <1>3, <3>1
    <3> QED BY <3>1, <3>2
  <2>2. since'[Len(log)] = 0
    BY <1>1, <1>2
  <2> QED BY <1>2, <2>1, <2>2
<1>5. since' \in Seq(0..Oldest) /\ Len(since') = Len(log)
  BY <1>1, <1>4, IsASequence
<1>6. ASSUME NEW v, NEW lo \in Nat \ {0}, NEW old \in Int, NEW more \in Int,
             more >= old + 1 \/ more >= Oldest, Of(log, since, v, lo, old)
      PROVE  Of(log, since', v, lo, more)
  <2>1. PICK i \in lo..Len(log) : v = Merged(log[i]) /\ since[i] <= old
    BY <1>6 DEF Of
  <2> i \in 1..Len(log)
    BY <1>1, <2>1
  <2>2. since'[i] \in 0..Oldest /\ since[i] \in 0..Oldest /\ since'[i] <= since[i] + 1
    BY <1>2, <1>4
  <2>3. since'[i] <= more
    BY <1>6, <2>1, <2>2
  <2> QED BY <2>1, <2>3 DEF Of
<1>7. ASSUME NEW p \in Procs
      PROVE  /\ cache'[p] \in [values : Copies, left : (-Span)..TTL]
             /\ cache'[p].values = cache[p].values
             /\ Reach(cache', p) \in Int /\ Reach(cache, p) \in Int
             /\ Reach(cache', p) >= Reach(cache, p) + 1 \/ Reach(cache', p) >= Oldest
  <2>1. /\ cache[p] \in [values : Copies, left : (-Span)..TTL]
        /\ cache'[p] = [cache[p] EXCEPT !.left = IF cache[p].left > -Span THEN cache[p].left - 1
                                                 ELSE cache[p].left]
    BY <1>1 DEF Tick
  <2>2. /\ cache[p].left \in (-Span)..TTL /\ cache'[p].values = cache[p].values
        /\ cache'[p].left = IF cache[p].left > -Span THEN cache[p].left - 1 ELSE cache[p].left
    BY <2>1
  <2>3. cache'[p].left \in (-Span)..TTL
    BY <2>2
  <2>4. cache'[p] \in [values : Copies, left : (-Span)..TTL]
    BY <2>1, <2>3
  <2> QED BY <2>2, <2>3, <2>4 DEF Reach
<1>8. cache' \in [Procs -> [values : Copies, left : (-Span)..TTL]]
  BY <1>7 DEF Tick
<1>9. ASSUME NEW r \in Requests
      PROVE  /\ req'[r] \in {Idle} \cup Reading \cup Saving \cup Over
             /\ Fine(log, since', cache', lock, req'[r], r)
  <2>1. CASE ~Running(r)
    BY <1>1, <2>1 DEF Tick, Fine, Idle
  <2>2. CASE Running(r)
    <3>1. /\ req[r].at \notin {"idle", "done"} /\ req'[r] = [req[r] EXCEPT !.age = req[r].age + 1]
          /\ req[r].age < Span /\ Fine(log, since, cache, lock, req[r], r)
      BY <1>1, <2>2 DEF Running, Tick, Sound
    <3>2. req[r] \in Reading \cup Saving
      BY <1>1, <3>1 DEF Idle, Over
    <3>3. /\ req'[r] \in Reading \cup Saving /\ req'[r].at = req[r].at /\ req'[r].mine = req[r].mine
          /\ req[r].age \in Int /\ req'[r].age = req[r].age + 1
          /\ req[r].at # "commit" =>
               /\ req[r] \in Reading /\ req'[r].got = req[r].got /\ req'[r].torn = req[r].torn
               /\ req'[r].proc = req[r].proc /\ req[r].proc \in Procs
      BY <3>1, <3>2 DEF Reading, Saving
    <3>4. req[r].mine \in 1..Len(log)
      BY <3>1 DEF Fine
    <3>5. req'[r].at = "check" =>
            /\ req'[r].mine = 1
            /\ Of(log, since', req'[r].got, 1, Oldest)
            /\ ~req'[r].torn => Of(log, since', req'[r].got, 1, Reach(cache', req'[r].proc))
      <4> SUFFICES ASSUME req[r].at = "check" PROVE
            /\ Of(log, since', req[r].got, 1, Oldest)
            /\ ~req[r].torn => Of(log, since', req[r].got, 1, Reach(cache', req[r].proc))
            /\ req[r].mine = 1
        BY <3>3
      <4>1. /\ req[r].mine = 1 /\ Of(log, since, req[r].got, 1, Oldest)
            /\ ~req[r].torn => Of(log, since, req[r].got, 1, Reach(cache, req[r].proc))
        BY <3>1 DEF Fine
      <4>2. Of(log, since', req[r].got, 1, Oldest)
        BY <1>6, <4>1
      <4>3. /\ req[r].proc \in Procs /\ Reach(cache', req[r].proc) \in Int
            /\ Reach(cache, req[r].proc) \in Int
            /\ \/ Reach(cache', req[r].proc) >= Reach(cache, req[r].proc) + 1
               \/ Reach(cache', req[r].proc) >= Oldest
        BY <1>7, <3>3
      <4> QED BY <1>6, <4>1, <4>2, <4>3
    <3>6. req'[r].at \in {"store", "stored"} => Of(log, since', req'[r].got, req'[r].mine, req'[r].age)
      BY <1>6, <3>1, <3>3, <3>4 DEF Fine
    <3>7. req'[r].at = "stored" => cache'[req'[r].proc].values = req'[r].got
      BY <1>7, <3>1, <3>3 DEF Fine
    <3>8. req'[r].at \in {"stored", "invalidated"} => lock[req'[r].proc] = r
      BY <3>1, <3>3 DEF Fine
    <3> QED BY <3>1, <3>3, <3>4, <3>5, <3>6, <3>7, <3>8 DEF Fine
  <2> QED BY <2>1, <2>2
<1>10. ASSUME NEW p \in Procs PROVE Cached(log, since', cache', p)
  BY <1>6, <1>7 DEF Sound, Cached
<1>11. req' \in [Requests -> {Idle} \cup Reading \cup Saving \cup Over]
  BY <1>9 DEF Tick
<1>12. TypeOK'
  BY <1>1, <1>4, <1>5, <1>8, <1>11 DEF TypeOK
<1> QED BY <1>1, <1>9, <1>10, <1>12 DEF Sound

LEMMA SoundStep == Sound /\ [Next]_vars => Sound'
<1> SUFFICES ASSUME Sound, [Next]_vars PROVE Sound'
  OBVIOUS
<1>1. CASE UNCHANGED vars
  BY <1>1 DEF vars, Sound, TypeOK
<1> QED
  BY <1>1, TickOK, CheckOK, LoadOK, StoreValuesOK, StoreExpiryOK, SaveCommitOK, SaveFailsOK,
     ForgetValuesOK, ForgetExpiryOK, ReadCacheOK, RefuseOK, ReadExistingOK, ResetCommitOK
     DEF Next, Steps

LEMMA AlwaysSound == Spec => []Sound
<1>1. Init => Sound
  <2> SUFFICES ASSUME Init PROVE Sound
    OBVIOUS
  <2>1. [k \in Keys |-> NoRow] \in Table /\ 0 \in 0..Oldest
    BY DEF Table, Stored
  <2>2. /\ log \in Seq(Table) /\ since \in Seq(0..Oldest) /\ Len(log) = 1 /\ Len(since) = 1
        /\ since[1] = 0
    BY <2>1 DEF Init
  <2>3. NoCopy \in [values : Copies, left : (-Span)..TTL] /\ NoCopy.values = Nothing
    BY DEF NoCopy, Copies
  <2>4. TypeOK
    BY <2>2, <2>3 DEF Init, TypeOK
  <2> QED BY <2>3, <2>4 DEF Init, Sound, Cached, Fine, Idle
<1>2. Sound /\ [Next]_vars => Sound'
  BY SoundStep
<1> QED BY <1>1, <1>2, PTL DEF Spec

(* Types hold for every settings table and every set of requests.           *)
THEOREM SettingsTypeCorrect == Spec => []TypeOK
<1>1. Sound => TypeOK
  BY DEF Sound
<1> QED BY <1>1, AlwaysSound, PTL

(* No answer mixes two saves, and who saved sees his own save or a later    *)
(* one, whatever old copies other threads store in the cache meanwhile.     *)
THEOREM AnswersAreAlwaysSaves == Spec => []AnswersAreSaves
<1>1. Sound => AnswersAreSaves
  <2> SUFFICES ASSUME Sound, NEW r \in Requests, Answered(r)
               PROVE  \E i \in req[r].mine .. Len(log) : req[r].answer = Merged(log[i])
    BY DEF AnswersAreSaves
  <2>1. Fine(log, since, cache, lock, req[r], r)
    BY DEF Sound
  <2> QED BY <2>1 DEF Fine, Of, Answered
<1> QED BY <1>1, AlwaysSound, PTL

(* A reader whose copy was not refilled under its hands is never shown      *)
(* settings superseded longer ago than the lifetime of a copy and two       *)
(* requests.                                                                *)
THEOREM AnswersAreAlwaysRecent == Spec => []AnswersAreRecent
<1>1. Sound => AnswersAreRecent
  <2> SUFFICES ASSUME Sound, NEW r \in Requests, Answered(r), ~req[r].torn
               PROVE  \E i \in DOMAIN log : req[r].answer = Merged(log[i]) /\ since[i] < TTL + 2 * Span
    BY DEF AnswersAreRecent
  <2>1. /\ Fine(log, since, cache, lock, req[r], r)
        /\ log \in Seq(Table) /\ since \in Seq(0..Oldest) /\ Len(since) = Len(log)
    BY DEF Sound, TypeOK
  <2>2. req[r].mine \in 1..Len(log) /\ Of(log, since, req[r].answer, req[r].mine, Oldest - 1)
    BY <2>1 DEF Fine, Answered
  <2>3. PICK i \in req[r].mine..Len(log) : req[r].answer = Merged(log[i]) /\ since[i] <= Oldest - 1
    BY <2>2 DEF Of
  <2>4. i \in DOMAIN log /\ since[i] \in 0..Oldest
    BY <2>1, <2>2, <2>3
  <2> QED BY <2>3, <2>4
<1> QED BY <1>1, AlwaysSound, PTL
=============================================================================
