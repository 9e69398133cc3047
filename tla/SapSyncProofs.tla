--------------------------- MODULE SapSyncProofs ----------------------------
(***************************************************************************)
(* Theorems about SapSyncRunner and the CatalogueSync it composes, for     *)
(* every finite set of product codes, every assignment of item groups and  *)
(* every delisting ratio.                                                  *)
(*                                                                         *)
(* What a process holds between its decision and its commit stays about    *)
(* its own section's rows, because no sync ever moves a row: that, and not *)
(* any lock, is why runs that overlap do no more harm than one.            *)
(***************************************************************************)
EXTENDS SapSyncRunner, FiniteSetTheorems, TLAPS

-----------------------------------------------------------------------------
(* Types.                                                                   *)

LEMMA OffOK == Off \in Job /\ Off.pc = "off"
BY DEF Off, Job, Sections

(* A process that is started has all its catalogues before it.              *)
LEMMA LaunchOK ==
  ASSUME TypeOK, NEW p \in Jobs, NEW r \in Run, Launch(p, r.asked, r.apply)
  PROVE  /\ at' \in [Jobs -> Job]
         /\ \A q \in Jobs : q # p => at'[q] = at[q]
         /\ at'[p].pc = "begin" /\ at'[p].apply = r.apply /\ at'[p].left = r.asked
         /\ at'[p].wrote = {}
<1> DEFINE j == [Off EXCEPT !.pc = "begin", !.apply = r.apply, !.left = r.asked]
<1>1. j \in Job /\ j.pc = "begin" /\ j.apply = r.apply /\ j.left = r.asked /\ j.wrote = {}
  BY DEF Off, Job, Sections, Run
<1>2. at' = [at EXCEPT ![p] = j] /\ at \in [Jobs -> Job]
  BY DEF Launch, TypeOK, SyncTypeOK
<1> HIDE DEF j
<1>3. at' \in [Jobs -> Job] /\ at'[p] = j /\ \A q \in Jobs : q # p => at'[q] = at[q]
  BY <1>1, <1>2
<1> QED BY <1>1, <1>3

LEMMA ExitOK ==
  ASSUME TypeOK, NEW p \in Jobs, NEW code \in {"done", "failed"}, Exit(p, code)
  PROVE  /\ at' \in [Jobs -> Job]
         /\ \A q \in Jobs : q # p => at'[q] = at[q]
         /\ at'[p] = [at[p] EXCEPT !.pc = code] /\ at'[p].pc = code
<1>1. at \in [Jobs -> Job] /\ at[p] \in Job
  BY DEF TypeOK, SyncTypeOK
<1> DEFINE j == [at[p] EXCEPT !.pc = code]
<1>2. j \in Job /\ j.pc = code
  BY <1>1 DEF Job
<1>3. at' = [at EXCEPT ![p] = j]
  BY DEF Exit
<1> HIDE DEF j
<1>4. at' \in [Jobs -> Job] /\ at'[p] = j /\ \A q \in Jobs : q # p => at'[q] = at[q]
  BY <1>1, <1>2, <1>3
<1> QED BY <1>2, <1>4 DEF j

LEMMA ProceedOK ==
  ASSUME TypeOK, NEW p \in Jobs, NEW written \in SUBSET Sections, Proceed(p, written)
  PROVE  /\ at' \in [Jobs -> Job]
         /\ \A q \in Jobs : q # p => at'[q] = at[q]
         /\ at'[p].pc = IF at[p].left = {} THEN "done" ELSE "begin"
         /\ at'[p].apply = at[p].apply /\ at'[p].left = at[p].left
         /\ at'[p].wrote = at[p].wrote \cup written
<1>1. at \in [Jobs -> Job] /\ at[p] \in Job
  BY DEF TypeOK, SyncTypeOK
<1> DEFINE j == [Off EXCEPT !.pc = IF at[p].left = {} THEN "done" ELSE "begin",
                            !.apply = at[p].apply, !.left = at[p].left,
                            !.wrote = at[p].wrote \cup written]
<1>2. /\ j \in Job /\ j.pc = IF at[p].left = {} THEN "done" ELSE "begin"
      /\ j.apply = at[p].apply /\ j.left = at[p].left /\ j.wrote = at[p].wrote \cup written
  BY <1>1 DEF Off, Job, Sections
<1>3. at' = [at EXCEPT ![p] = j]
  BY DEF Proceed
<1> HIDE DEF j
<1>4. at' \in [Jobs -> Job] /\ at'[p] = j /\ \A q \in Jobs : q # p => at'[q] = at[q]
  BY <1>1, <1>2, <1>3
<1> QED BY <1>2, <1>4

LEMMA AskOK ==
  ASSUME TypeOK, NEW p \in Jobs, NEW s \in Sections, Ask(p, s)
  PROVE  /\ at' \in [Jobs -> Job]
         /\ \A q \in Jobs : q # p => at'[q] = at[q]
         /\ at'[p].pc = "asked" /\ at'[p].sec = s /\ at'[p].left = at[p].left \ {s}
         /\ at'[p].apply = at[p].apply /\ at'[p].wrote = at[p].wrote
         /\ at[p].pc = "begin" /\ s \in at[p].left
<1>1. at \in [Jobs -> Job] /\ at[p] \in Job
  BY DEF TypeOK, SyncTypeOK
<1> DEFINE j == [at[p] EXCEPT !.pc = "asked", !.sec = s, !.left = at[p].left \ {s}]
<1>2. /\ j \in Job /\ j.pc = "asked" /\ j.sec = s /\ j.left = at[p].left \ {s}
      /\ j.apply = at[p].apply /\ j.wrote = at[p].wrote
  BY <1>1 DEF Job
<1>3. at' = [at EXCEPT ![p] = j]
  BY <1>1 DEF Ask
<1> HIDE DEF j
<1>4. at' \in [Jobs -> Job] /\ at'[p] = j /\ \A q \in Jobs : q # p => at'[q] = at[q]
  BY <1>1, <1>2, <1>3
<1> QED BY <1>2, <1>4 DEF Ask, Turn

LEMMA DecideOK ==
  ASSUME TypeOK, NEW p \in Jobs, NEW e \in Extracts(Query(p)), Decide(p, e)
  PROVE  /\ at' \in [Jobs -> Job]
         /\ \A q \in Jobs : q # p => at'[q] = at[q]
         /\ at[p].pc = "asked" /\ at'[p].pc = "ready"
         /\ at'[p].sec = at[p].sec /\ at'[p].left = at[p].left
         /\ at'[p].apply = at[p].apply /\ at'[p].wrote = at[p].wrote
         /\ at'[p].make = Made(e)
         /\ at'[p].hide = Stale(at[p].sec, e) \ hidden
         /\ at'[p].show = (Ours(at[p].sec, e) \cap Offered(e)) \cap hidden
<1>1. at \in [Jobs -> Job] /\ at[p] \in Job
  BY DEF TypeOK, SyncTypeOK
<1> DEFINE m == Made(e)
           h == Stale(at[p].sec, e) \ hidden
           w == (Ours(at[p].sec, e) \cap Offered(e)) \cap hidden
           j == [at[p] EXCEPT !.pc = "ready", !.make = m, !.hide = h, !.show = w]
<1>2. m \subseteq Codes /\ h \subseteq Codes /\ w \subseteq Codes
  BY DEF Made, Stale, Ours
<1>3. at' = [at EXCEPT ![p] = j] /\ at[p].pc = "asked"
  BY <1>1 DEF Decide
<1> HIDE DEF m, h, w
<1>4. /\ j \in Job /\ j.pc = "ready" /\ j.make = m /\ j.hide = h /\ j.show = w
      /\ j.sec = at[p].sec /\ j.left = at[p].left /\ j.apply = at[p].apply /\ j.wrote = at[p].wrote
  BY <1>1, <1>2 DEF Job
<1> HIDE DEF j
<1>5. at' \in [Jobs -> Job] /\ at'[p] = j /\ \A q \in Jobs : q # p => at'[q] = at[q]
  BY <1>1, <1>3, <1>4
<1> QED BY <1>3, <1>4, <1>5 DEF m, h, w

LEMMA KillOK ==
  ASSUME TypeOK, NEW p \in Jobs, Kill(p)
  PROVE  /\ at' \in [Jobs -> Job]
         /\ \A q \in Jobs : q # p => at'[q] = at[q]
         /\ at'[p] = at[p] \/ at'[p].pc = "failed"
         /\ ~Alive(p) => at'[p] = at[p]
         /\ ~Alive(p)'
<1>1. at \in [Jobs -> Job] /\ at[p] \in Job
  BY DEF TypeOK, SyncTypeOK
<1>2. CASE Alive(p)
  <2> DEFINE j == [at[p] EXCEPT !.pc = "failed"]
  <2>1. j \in Job /\ j.pc = "failed"
    BY <1>1 DEF Job
  <2>2. at' = [at EXCEPT ![p] = j]
    BY <1>2 DEF Kill
  <2> HIDE DEF j
  <2>3. at' \in [Jobs -> Job] /\ at'[p] = j /\ \A q \in Jobs : q # p => at'[q] = at[q]
    BY <1>1, <2>1, <2>2
  <2> QED BY <1>2, <2>1, <2>3 DEF Alive
<1>3. CASE ~Alive(p)
  BY <1>1, <1>3 DEF Kill, Alive
<1> QED BY <1>2, <1>3

LEMMA OffAgainOK ==
  ASSUME TypeOK, at' = [at EXCEPT ![Button] = Off]
  PROVE  /\ at' \in [Jobs -> Job]
         /\ \A q \in Jobs : q # Button => at'[q] = at[q]
         /\ at'[Button] = Off
BY OffOK, JobsAssumption DEF TypeOK, SyncTypeOK

(* What a step is to the shop: it leaves the rows, the query file and what  *)
(* is in hand as they are; or a process asks, decides or commits.           *)
Calm ==
  /\ UNCHANGED <<shop, script>>
  /\ \A p \in Jobs : at'[p].pc \in {"asked", "ready"} => at'[p] = at[p]
Asks    == \E p \in Jobs : \E s \in Sections : Ask(p, s)
Decides == \E p \in Jobs : \E e \in Extracts(Query(p)) : Decide(p, e)
Commits == \E p \in Jobs : Commit(p)
Kinds   == Calm \/ Asks \/ Decides \/ Commits

LEMMA WorkOK ==
  ASSUME TypeOK, NEW p \in Jobs, Work(p)
  PROVE  SyncTypeOK' /\ Kinds
<1>0. home \in [Codes -> Homes \cup {"none"}] /\ hidden \subseteq Codes /\ script \in Sections
      /\ at[p] \in Job
  BY DEF TypeOK, SyncTypeOK
<1>1. CASE AskFails(p) \/ ReadFails(p) \/ CommitRefused(p) \/ \E e \in Extracts(Query(p)) : Refuse(p, e)
  <2>1. Exit(p, "failed") /\ UNCHANGED <<shop, script>>
    BY <1>1 DEF AskFails, ReadFails, CommitRefused, Refuse
  <2>2. /\ at' \in [Jobs -> Job] /\ at'[p].pc = "failed"
        /\ \A q \in Jobs : q # p => at'[q] = at[q]
    BY <2>1, ExitOK
  <2> QED BY <1>0, <2>1, <2>2 DEF SyncTypeOK, shop, Calm, Kinds
<1>2. CASE Rollback(p)
  <2>1. Proceed(p, {}) /\ UNCHANGED <<shop, script>>
    BY <1>2 DEF Rollback
  <2>2. /\ at' \in [Jobs -> Job] /\ at'[p].pc \notin {"asked", "ready"}
        /\ \A q \in Jobs : q # p => at'[q] = at[q]
    BY <2>1, ProceedOK
  <2> QED BY <1>0, <2>1, <2>2 DEF SyncTypeOK, shop, Calm, Kinds
<1>3. CASE Commit(p)
  <2>1. at' \in [Jobs -> Job]
    BY <1>0, <1>3, ProceedOK DEF Commit, Job
  <2>2. home' \in [Codes -> Homes \cup {"none"}]
    BY <1>0, <1>3 DEF Commit, Job, Homes
  <2>3. hidden' \subseteq Codes /\ script' \in Sections
    BY <1>0, <1>3 DEF Commit, Job
  <2> QED BY <1>3, <2>1, <2>2, <2>3 DEF SyncTypeOK, Commits, Kinds
<1>4. ASSUME NEW s \in Sections, Ask(p, s)
      PROVE  SyncTypeOK'
  <2>1. UNCHANGED shop /\ script' \in Sections
    BY <1>0, <1>4 DEF Ask
  <2> QED BY <1>0, <1>4, <2>1, AskOK DEF SyncTypeOK, shop
<1>5. ASSUME NEW e \in Extracts(Query(p)), Decide(p, e)
      PROVE  SyncTypeOK'
  BY <1>0, <1>5, DecideOK DEF SyncTypeOK, Decide, shop
<1> QED BY <1>1, <1>2, <1>3, <1>4, <1>5 DEF Work, Kinds, Asks, Decides, Commits

LEMMA StepOK == ASSUME TypeOK, [Next]_vars PROVE TypeOK' /\ Kinds
<1>0. /\ home \in [Codes -> Homes \cup {"none"}] /\ hidden \subseteq Codes /\ script \in Sections
      /\ at \in [Jobs -> Job] /\ run \in Run /\ Button \in Jobs /\ Nightly \in Jobs
      /\ thread \in {"off", "starting", "streaming", "reaped"} /\ timer \in {"off", "armed", "fired"}
  BY JobsAssumption DEF TypeOK, SyncTypeOK
<1>1. ASSUME UNCHANGED <<shop, script>>, at' \in [Jobs -> Job], run' \in Run,
             thread' \in {"off", "starting", "streaming", "reaped"},
             timer' \in {"off", "armed", "fired"},
             \A p \in Jobs : at'[p].pc \in {"asked", "ready"} => at'[p] = at[p]
      PROVE  TypeOK' /\ Kinds
  BY <1>0, <1>1 DEF TypeOK, SyncTypeOK, shop, Calm, Kinds
<1>2. ASSUME NEW names \in SUBSET Sections, NEW apply \in BOOLEAN, Start(names, apply)
      PROVE  TypeOK' /\ Kinds
  <2>1. run' \in Run
    BY <1>2 DEF Start, NoRun, Run
  <2>2. /\ at' \in [Jobs -> Job] /\ \A q \in Jobs : q # Button => at'[q] = at[q]
        /\ at'[Button].pc = "off"
    BY <1>2, OffAgainOK, OffOK DEF Start
  <2> QED BY <1>1, <1>2, <2>1, <2>2 DEF Start
<1>3. ASSUME NEW state \in {"succeeded", "failed"}, NEW why \in {"", "start", "lost", "time", "exit"},
             Finish(state, why)
      PROVE  run' \in Run /\ thread' = "off"
  BY <1>0, <1>3 DEF Finish, Run
<1>4. CASE Spawn
  <2>1. Launch(Button, run.asked, run.apply) /\ UNCHANGED <<shop, script, run>>
    BY <1>4 DEF Spawn
  <2>2. /\ at' \in [Jobs -> Job] /\ at'[Button].pc = "begin"
        /\ \A q \in Jobs : q # Button => at'[q] = at[q]
    BY <1>0, <2>1, LaunchOK
  <2> QED BY <1>0, <1>1, <1>4, <2>1, <2>2 DEF Spawn
<1>5. CASE SpawnFails
  BY <1>0, <1>1, <1>3, <1>5 DEF SpawnFails
<1>6. CASE TimeOut
  <2>1. at' \in [Jobs -> Job] /\ \A q \in Jobs : at'[q].pc \in {"asked", "ready"} => at'[q] = at[q]
    BY <1>0, <1>6, KillOK DEF TimeOut
  <2> QED BY <1>0, <1>1, <1>6, <2>1 DEF TimeOut
<1>7. CASE Reap
  BY <1>0, <1>1, <1>7 DEF Reap
<1>8. CASE LoseTrack
  <2>1. at' \in [Jobs -> Job] /\ \A q \in Jobs : at'[q].pc \in {"asked", "ready"} => at'[q] = at[q]
    BY <1>0, <1>8, KillOK DEF LoseTrack
  <2> QED BY <1>0, <1>1, <1>3, <1>8, <2>1 DEF LoseTrack
<1>9. CASE Conclude
  <2>1. run' \in Run /\ thread' = "off"
    BY <1>3, <1>9 DEF Conclude
  <2> QED BY <1>0, <1>1, <1>9, <2>1 DEF Conclude
<1>10. CASE Restart
  <2>1. run' \in Run
    BY <1>10 DEF Restart, NoRun, Run
  <2>2. /\ at' \in [Jobs -> Job] /\ \A q \in Jobs : q # Button => at'[q] = at[q]
        /\ at'[Button].pc = "off"
    BY <1>10, OffAgainOK, OffOK DEF Restart
  <2> QED BY <1>1, <1>10, <2>1, <2>2 DEF Restart
<1>11. CASE Schedule
  <2> DEFINE j == [Off EXCEPT !.pc = "begin", !.apply = TRUE, !.left = Sections]
  <2>1. j \in Job /\ j.pc = "begin"
    BY DEF Off, Job, Sections
  <2>2. at' = [at EXCEPT ![Nightly] = j] /\ UNCHANGED <<shop, script, run, thread, timer>>
    BY <1>11 DEF Schedule, Launch
  <2> HIDE DEF j
  <2>3. /\ at' \in [Jobs -> Job] /\ at'[Nightly].pc = "begin"
        /\ \A q \in Jobs : q # Nightly => at'[q] = at[q]
    BY <1>0, <2>1, <2>2
  <2> QED BY <1>0, <1>1, <2>2, <2>3
<1>12. ASSUME NEW p \in Jobs, Work(p), UNCHANGED <<run, thread, timer>>
       PROVE  TypeOK' /\ Kinds
  BY <1>0, <1>12, WorkOK DEF TypeOK
<1>13. CASE UNCHANGED vars
  BY <1>0, <1>1, <1>13 DEF vars, shop
<1> QED
  BY <1>2, <1>4, <1>5, <1>6, <1>7, <1>8, <1>9, <1>10, <1>11, <1>12, <1>13
     DEF Next, Supervise

LEMMA InitOK == Init => TypeOK
<1>1. Init => SyncTypeOK
  BY OffOK DEF Init, SyncInit, SyncTypeOK, Sections
<1>2. NoRun \in Run
  BY DEF NoRun, Run
<1> QED BY <1>1, <1>2 DEF Init, TypeOK

(* Types hold for every set of codes, section assignment and ratio.         *)
THEOREM SyncTypeCorrect == Spec => []TypeOK
<1>1. Init => TypeOK
  BY InitOK
<1>2. TypeOK /\ [Next]_vars => TypeOK'
  BY StepOK
<1> QED BY <1>1, <1>2, PTL DEF Spec

-----------------------------------------------------------------------------
(* What a commit may hide.                                                  *)

In(s) == {c \in Codes : home[c] = s}

(* What a process is about to hide or show are rows of its own catalogue,   *)
(* and few of them: measured when it decided, and rows have only come since.*)
Railed(p) ==
  at[p].pc = "ready" =>
    /\ at[p].hide \cup at[p].show \subseteq In(at[p].sec)
    /\ Cardinality(at[p].hide) * Den <= Cardinality(In(at[p].sec) \cup at[p].make) * Num

Pending ==
  /\ TypeOK
  /\ hidden \cap In("none") = {}
  /\ \A p \in Jobs : Railed(p)

LEMMA Fewer ==
  ASSUME NEW A \in SUBSET Codes, NEW B \in SUBSET A
  PROVE  /\ Cardinality(A) \in Nat /\ Cardinality(B) \in Nat
         /\ Cardinality(B) <= Cardinality(A)
<1>1. IsFiniteSet(A)
  BY CodesAssumption, FS_Subset
<1>2. IsFiniteSet(B)
  BY <1>1, FS_Subset
<1> QED BY <1>1, <1>2, FS_Subset, FS_CardinalityType

(* A smaller part of a larger whole keeps within the ratio. *)
LEMMA Within ==
  ASSUME NEW A \in SUBSET Codes, NEW B \in SUBSET A,
         NEW D \in SUBSET Codes, NEW C \in SUBSET D,
         Cardinality(A) * Den <= Cardinality(C) * Num
  PROVE  Cardinality(B) * Den <= Cardinality(D) * Num
<1>1. ASSUME NEW x \in Nat, NEW y \in Nat, NEW k \in Nat, x <= y PROVE x * k <= y * k
  BY <1>1
<1> DEFINE a == Cardinality(A)  b == Cardinality(B)  c == Cardinality(C)  d == Cardinality(D)
<1>2. a \in Nat /\ b \in Nat /\ c \in Nat /\ d \in Nat /\ b <= a /\ c <= d
  BY Fewer
<1>3. a * Den <= c * Num
  OBVIOUS
<1> HIDE DEF a, b, c, d
<1>4. b * Den <= a * Den /\ c * Num <= d * Num
  BY <1>1, <1>2, RatioAssumption
<1>5. b * Den \in Nat /\ a * Den \in Nat /\ c * Num \in Nat /\ d * Num \in Nat
  BY <1>2, RatioAssumption
<1>6. b * Den <= d * Num
  BY <1>3, <1>4, <1>5
<1> QED BY <1>6 DEF b, d

(* A row that exists keeps its section, whoever commits. *)
LEMMA RowsStay ==
  ASSUME TypeOK, Kinds
  PROVE  \A c \in Codes : home[c] # "none" => home'[c] = home[c]
<1>1. CASE Calm \/ Asks \/ Decides
  BY <1>1 DEF Calm, Asks, Ask, Decides, Decide, shop
<1>2. ASSUME NEW p \in Jobs, Commit(p)
      PROVE  \A c \in Codes : home[c] # "none" => home'[c] = home[c]
  BY <1>2 DEF Commit
<1> QED BY <1>1, <1>2 DEF Kinds, Commits

LEMMA RailedStays ==
  ASSUME Pending, Kinds, NEW p \in Jobs, at'[p] = at[p], TypeOK'
  PROVE  Railed(p)'
<1> SUFFICES ASSUME at[p].pc = "ready" PROVE Railed(p)'
  BY DEF Railed
<1> DEFINE sec == at[p].sec  hide == at[p].hide  make == at[p].make
<1>1. at[p] \in Job
  BY DEF Pending, TypeOK, SyncTypeOK
<1>2. sec # "none" /\ hide \in SUBSET Codes /\ make \in SUBSET Codes
  BY <1>1 DEF Job, Sections
<1>3. In(sec) \subseteq In(sec)'
  BY <1>2, RowsStay DEF In, Pending
<1>4. hide \cup at[p].show \subseteq In(sec)
      /\ Cardinality(hide) * Den <= Cardinality(In(sec) \cup make) * Num
  BY DEF Pending, Railed
<1>5. In(sec)' = {c \in Codes : home'[c] = sec}
  BY DEF In
<1> HIDE DEF sec, hide, make
<1>6. In(sec) \cup make \subseteq {c \in Codes : home'[c] = sec} \cup make
  BY <1>3, <1>5
<1>7. Cardinality(hide) * Den <= Cardinality({c \in Codes : home'[c] = sec} \cup make) * Num
  BY <1>2, <1>4, <1>6, Within
<1> QED BY <1>3, <1>4, <1>5, <1>7 DEF Railed, In, sec, hide, make

LEMMA DecideRailed ==
  ASSUME Pending, NEW p \in Jobs, NEW e \in Extracts(Query(p)), Decide(p, e)
  PROVE  Railed(p)'
<1> DEFINE s == at[p].sec
<1>1. /\ at'[p].sec = s /\ at'[p].make = Made(e)
      /\ at'[p].hide = Stale(s, e) \ hidden
      /\ at'[p].show = (Ours(s, e) \cap Offered(e)) \cap hidden
  BY DecideOK DEF Pending
<1>2. UNCHANGED <<home, hidden>> /\ ~RailTrips(s, e)
  BY DEF Decide, shop
<1>3. Made(e) \subseteq Offered(e) /\ Made(e) \subseteq In("none")
  BY DEF Made, Offered, In
<1>4. Ours(s, e) = In(s) \cup Made(e)
  BY DEF Ours, In
<1>5. Stale(s, e) \subseteq In(s) /\ Ours(s, e) \cap hidden \subseteq In(s)
  BY <1>3, <1>4 DEF Stale, Pending
<1>6. Stale(s, e) \in SUBSET Codes /\ Ours(s, e) \in SUBSET Codes
  BY DEF Stale, Ours, Made
<1>7. Cardinality(Stale(s, e)) * Den <= Cardinality(Ours(s, e)) * Num
  <2>1. /\ Cardinality(Stale(s, e)) \in Nat /\ Cardinality(Ours(s, e)) \in Nat
    BY <1>6, Fewer
  <2> QED BY <1>2, <2>1, RatioAssumption DEF RailTrips
<1>8. Cardinality(Stale(s, e) \ hidden) * Den <= Cardinality(In(s) \cup Made(e)) * Num
  BY <1>4, <1>6, <1>7, Within
<1>9. In(at[p].sec)' = In(s)
  BY <1>1, <1>2 DEF In
<1> HIDE DEF s
<1>10. at'[p].hide \cup at'[p].show \subseteq In(s)
  BY <1>1, <1>5
<1> QED BY <1>1, <1>8, <1>9, <1>10 DEF Railed

LEMMA PendingStep == Pending /\ [Next]_vars => Pending'
<1> SUFFICES ASSUME Pending, [Next]_vars PROVE Pending'
  OBVIOUS
<1>1. TypeOK' /\ Kinds /\ TypeOK
  BY StepOK DEF Pending
<1>2. CASE Calm
  <2>1. ASSUME NEW p \in Jobs PROVE Railed(p)'
    <3>1. CASE at'[p] = at[p]
      BY <1>1, <3>1, RailedStays
    <3>2. CASE at'[p] # at[p]
      BY <1>2, <3>2 DEF Calm, Railed
    <3> QED BY <3>1, <3>2
  <2> QED BY <1>1, <1>2, <2>1 DEF Pending, Calm, shop, In
<1>3. ASSUME NEW p \in Jobs, NEW s \in Sections, Ask(p, s) PROVE Pending'
  <2>1. at'[p].pc = "asked" /\ \A q \in Jobs : q # p => at'[q] = at[q]
    BY <1>1, <1>3, AskOK
  <2>2. ASSUME NEW q \in Jobs PROVE Railed(q)'
    <3>1. CASE q = p
      BY <2>1, <3>1 DEF Railed
    <3>2. CASE q # p
      BY <1>1, <2>1, <3>2, RailedStays
    <3> QED BY <3>1, <3>2
  <2> QED BY <1>1, <1>3, <2>2 DEF Pending, Ask, shop, In
<1>4. ASSUME NEW p \in Jobs, NEW e \in Extracts(Query(p)), Decide(p, e) PROVE Pending'
  <2>1. ASSUME NEW q \in Jobs PROVE Railed(q)'
    <3>1. CASE q = p
      BY <1>4, <3>1, DecideRailed
    <3>2. CASE q # p
      BY <1>1, <1>4, <3>2, DecideOK, RailedStays
    <3> QED BY <3>1, <3>2
  <2> QED BY <1>1, <1>4, <2>1 DEF Pending, Decide, shop, In
<1>5. ASSUME NEW p \in Jobs, Commit(p) PROVE Pending'
  <2>1. at[p] \in Job /\ at[p].sec # "none" /\ at[p].sec \in Sections /\ Proceed(p, {at[p].sec})
    BY <1>1, <1>5 DEF TypeOK, SyncTypeOK, Job, Sections, Commit
  <2>2. at'[p].pc # "ready" /\ \A q \in Jobs : q # p => at'[q] = at[q]
    BY <1>1, <2>1, ProceedOK
  <2>3. ASSUME NEW q \in Jobs PROVE Railed(q)'
    <3>1. CASE q = p
      BY <2>2, <3>1 DEF Railed
    <3>2. CASE q # p
      BY <1>1, <2>2, <3>2, RailedStays
    <3> QED BY <3>1, <3>2
  <2>4. (hidden \cap In("none") = {})'
    <3>1. at[p].pc = "ready" /\ hidden' \subseteq hidden \cup at[p].hide
      BY <1>5 DEF Commit
    <3>2. hidden' \cap In("none") = {}
      BY <2>1, <3>1 DEF Pending, Railed, In
    <3>3. In("none")' \subseteq In("none")
      BY <1>1, RowsStay DEF In
    <3> QED BY <3>2, <3>3
  <2> QED BY <1>1, <2>3, <2>4 DEF Pending
<1> QED BY <1>1, <1>2, <1>3, <1>4, <1>5 DEF Kinds, Asks, Decides, Commits

LEMMA AlwaysPending == Spec => []Pending
<1>1. Init => Pending
  <2>1. Init => TypeOK
    BY InitOK
  <2> QED BY <2>1, OffOK DEF Init, SyncInit, Pending, Railed
<1>2. Pending /\ [Next]_vars => Pending'
  BY PendingStep
<1> QED BY <1>1, <1>2, PTL DEF Spec

(* What a commit does to the shop, said of one process. *)
LEMMA CommitShop ==
  ASSUME Pending, NEW p \in Jobs, Commit(p)
  PROVE  /\ at[p] \in Job /\ at[p].pc = "ready" /\ at'[p].pc # "ready"
         /\ at[p].hide \cup at[p].show \subseteq In(at[p].sec)
         /\ Cardinality(at[p].hide) * Den <= Cardinality(In(at[p].sec) \cup at[p].make) * Num
         /\ In(at[p].sec) \cup at[p].make \subseteq {c \in Codes : home'[c] = at[p].sec}
         /\ hidden' = (hidden \cup at[p].hide) \ at[p].show
<1>1. at[p] \in Job /\ home \in [Codes -> Homes \cup {"none"}]
  BY DEF Pending, TypeOK, SyncTypeOK
<1>2. Proceed(p, {at[p].sec}) /\ {at[p].sec} \in SUBSET Sections
  BY <1>1 DEF Commit, Job
<1>3. at'[p].pc # "ready"
  BY <1>2, ProceedOK DEF Pending
<1>4. home' = [c \in Codes |-> IF c \in at[p].make THEN at[p].sec ELSE home[c]]
      /\ at[p].make \subseteq Codes /\ at[p].sec \in Sections
  BY <1>1 DEF Commit, Job
<1>5. In(at[p].sec) \cup at[p].make \subseteq {c \in Codes : home'[c] = at[p].sec}
  BY <1>4 DEF In
<1> QED BY <1>1, <1>3, <1>5 DEF Commit, Pending, Railed

(* A commit hides no larger share of any section than the ratio. *)
LEMMA CommitHidesFew ==
  ASSUME Pending, NEW p \in Jobs, Commit(p), NEW s \in Sections
  PROVE  Cardinality({c \in In(s) : c \in hidden' \ hidden}) * Den
           <= Cardinality({c \in Codes : home'[c] = s}) * Num
<1> DEFINE now  == {c \in In(s) : c \in hidden' \ hidden}
           then == {c \in Codes : home'[c] = s}
<1>1. /\ at[p] \in Job
      /\ at[p].hide \subseteq In(at[p].sec)
      /\ Cardinality(at[p].hide) * Den <= Cardinality(In(at[p].sec) \cup at[p].make) * Num
      /\ In(at[p].sec) \cup at[p].make \subseteq {c \in Codes : home'[c] = at[p].sec}
      /\ hidden' = (hidden \cup at[p].hide) \ at[p].show
  BY CommitShop
<1>2. now \subseteq at[p].hide /\ now \in SUBSET Codes /\ then \in SUBSET Codes
  BY <1>1 DEF In
<1>3. CASE s = at[p].sec
  <2>1. at[p].hide \in SUBSET Codes
    BY <1>1 DEF Job
  <2>2. In(at[p].sec) \cup at[p].make \subseteq then
    BY <1>1, <1>3
  <2> HIDE DEF now, then
  <2>3. Cardinality(now) * Den <= Cardinality(then) * Num
    BY <1>1, <1>2, <2>1, <2>2, Within
  <2> QED BY <2>3 DEF now, then
<1>4. CASE s # at[p].sec
  <2>1. now = {}
    BY <1>1, <1>2, <1>4 DEF In
  <2>2. Cardinality(then) \in Nat
    BY <1>2, Fewer
  <2> HIDE DEF now, then
  <2>3. Cardinality(now) = 0
    BY <2>1, FS_EmptySet
  <2>4. 0 * Den = 0 /\ Cardinality(then) * Num \in Nat
    BY <2>2, RatioAssumption
  <2>5. Cardinality(now) * Den <= Cardinality(then) * Num
    BY <2>3, <2>4
  <2> QED BY <2>5 DEF now, then
<1> QED BY <1>3, <1>4

(* DEFAULT_MAX_DELIST_RATIO holds at the commit, though it was checked at   *)
(* the decision: no step hides more of a section, however many processes    *)
(* are between the two.                                                     *)
THEOREM NeverHidesMany == Spec => HidesFew
<1>1. Pending /\ [Next]_vars =>
        [\A s \in Sections :
           LET now == {c \in Codes : home[c] = s}
           IN  Cardinality({c \in now : c \in hidden' \ hidden}) * Den
                 <= Cardinality({c \in Codes : home'[c] = s}) * Num]_shop
  <2> SUFFICES ASSUME Pending, [Next]_vars, UNCHANGED shop => FALSE, NEW s \in Sections
               PROVE  Cardinality({c \in {c \in Codes : home[c] = s} : c \in hidden' \ hidden}) * Den
                        <= Cardinality({c \in Codes : home'[c] = s}) * Num
    OBVIOUS
  <2>1. Commits
    BY StepOK DEF Pending, Kinds, Calm, Asks, Ask, Decides, Decide
  <2> QED BY <2>1, CommitHidesFew DEF Commits, In
<1> QED BY <1>1, AlwaysPending, PTL DEF Spec, HidesFew

(* Only the commit of a section's own catalogue hides or shows its rows.    *)
THEOREM HidesOwnRowsOnly == Spec => OwnRowsOnly
<1>1. Pending /\ [Next]_vars =>
        [\A c \in Codes : (c \in hidden) # (c \in hidden') =>
           \E p \in Jobs : /\ at[p].pc = "ready" /\ at[p].sec = home[c]
                           /\ at'[p] # at[p]]_shop
  <2> SUFFICES ASSUME Pending, [Next]_vars, UNCHANGED shop => FALSE,
                      NEW c \in Codes, (c \in hidden) # (c \in hidden')
               PROVE  \E p \in Jobs : at[p].pc = "ready" /\ at[p].sec = home[c] /\ at'[p] # at[p]
    OBVIOUS
  <2>1. PICK p \in Jobs : Commit(p)
    BY StepOK DEF Pending, Kinds, Calm, Asks, Ask, Decides, Decide, Commits
  <2>2. /\ at[p].pc = "ready" /\ at'[p].pc # "ready"
        /\ at[p].hide \cup at[p].show \subseteq In(at[p].sec)
        /\ hidden' = (hidden \cup at[p].hide) \ at[p].show
    BY <2>1, CommitShop
  <2>3. c \in at[p].hide \cup at[p].show
    BY <2>2
  <2> QED BY <2>2, <2>3 DEF In
<1> QED BY <1>1, AlwaysPending, PTL DEF Spec, OwnRowsOnly

-----------------------------------------------------------------------------
(* Where new goods go.  The query file has one name on the server, so this  *)
(* holds of one process at a time over ssh; local ones have their own.      *)

OneRemote == \A p, q \in Remote : p = q

(* The file asks for the catalogue of the one who wrote it, and what is     *)
(* about to be inserted came from that catalogue's extract.                 *)
Sourced ==
  /\ TypeOK
  /\ \A p \in Remote : at[p].pc = "asked" => script = at[p].sec
  /\ \A p \in Jobs : at[p].pc = "ready" => \A c \in at[p].make : Group[c] = at[p].sec

LEMMA SourcedStep == ASSUME OneRemote, Sourced, [Next]_vars PROVE Sourced'
<1>1. TypeOK' /\ Kinds /\ TypeOK /\ Remote \subseteq Jobs
  BY StepOK, SapAssumption DEF Sourced
<1>2. CASE Calm
  BY <1>1, <1>2 DEF Sourced, Calm
<1>3. ASSUME NEW p \in Jobs, NEW s \in Sections, Ask(p, s) PROVE Sourced'
  <2>1. /\ at'[p].pc = "asked" /\ at'[p].sec = s
        /\ \A q \in Jobs : q # p => at'[q] = at[q]
        /\ script' = IF p \in Remote THEN s ELSE script
    BY <1>1, <1>3, AskOK DEF Ask, SharesFile
  <2> QED BY <1>1, <2>1 DEF Sourced, OneRemote
<1>4. ASSUME NEW p \in Jobs, NEW e \in Extracts(Query(p)), Decide(p, e) PROVE Sourced'
  <2>1. /\ at[p].pc = "asked" /\ at'[p].pc = "ready" /\ at'[p].sec = at[p].sec
        /\ at'[p].make = Made(e) /\ \A q \in Jobs : q # p => at'[q] = at[q]
    BY <1>1, <1>4, DecideOK
  <2>2. Query(p) = at[p].sec
    BY <2>1 DEF Sourced, Query, SharesFile
  <2>3. \A c \in Made(e) : Group[c] = at[p].sec
    BY <2>2 DEF Made, Extracts
  <2>4. script' = script
    BY <1>4 DEF Decide
  <2> QED BY <1>1, <2>1, <2>3, <2>4 DEF Sourced
<1>5. ASSUME NEW p \in Jobs, Commit(p) PROVE Sourced'
  <2>1. Proceed(p, {at[p].sec}) /\ {at[p].sec} \in SUBSET Sections /\ script' = script
    BY <1>1, <1>5 DEF Commit, TypeOK, SyncTypeOK, Job
  <2>2. at'[p].pc \notin {"asked", "ready"} /\ \A q \in Jobs : q # p => at'[q] = at[q]
    BY <1>1, <2>1, ProceedOK
  <2> QED BY <1>1, <2>1, <2>2 DEF Sourced
<1> QED BY <1>1, <1>2, <1>3, <1>4, <1>5 DEF Kinds, Asks, Decides, Commits

(* A product SAP has that the shop had not appears in the section of its    *)
(* own item group, whatever other processes sync beside, as long as one at  *)
(* a time goes over ssh.                                                    *)
THEOREM GoodsAlwaysGoToTheirGroup == ASSUME OneRemote PROVE Spec => GoodsGoToTheirGroup
<1>1. Init => Sourced
  <2>1. Init => \A p \in Jobs : at[p].pc = "off"
    BY OffOK DEF Init, SyncInit
  <2> QED BY <2>1, InitOK, SapAssumption DEF Sourced
<1>2. Sourced /\ [Next]_vars => Sourced'
  BY SourcedStep
<1>3. Sourced /\ [Next]_vars =>
        [\A c \in Codes : home[c] = "none" /\ home'[c] # "none" => home'[c] = Group[c]]_shop
  <2> SUFFICES ASSUME Sourced, [Next]_vars, UNCHANGED shop => FALSE,
                      NEW c \in Codes, home[c] = "none", home'[c] # "none"
               PROVE  home'[c] = Group[c]
    OBVIOUS
  <2>1. PICK p \in Jobs : Commit(p)
    BY StepOK DEF Sourced, Kinds, Calm, Asks, Ask, Decides, Decide, Commits
  <2>2. at[p].pc = "ready" /\ home'[c] = IF c \in at[p].make THEN at[p].sec ELSE home[c]
    BY <2>1 DEF Commit
  <2> QED BY <2>2 DEF Sourced
<1> QED BY <1>1, <1>2, <1>3, PTL DEF Spec, GoodsGoToTheirGroup

-----------------------------------------------------------------------------
(* The record of the run in flight.                                         *)

(* A child of the button has its thread, and a thread its record.           *)
Watched ==
  /\ thread # "off" <=> run.state = "running"
  /\ Alive(Button) => thread = "streaming"

(* What the child has to do is what was asked for: left, at hand or done.   *)
Account ==
  at[Button].left \cup at[Button].wrote
    \cup IF at[Button].pc \in {"asked", "ready"} THEN {at[Button].sec} ELSE {}

Started == thread \in {"streaming", "reaped"} \/ run.state = "succeeded"

Recorded ==
  /\ TypeOK /\ Watched
  /\ Started /\ at[Button].pc # "failed" =>
       /\ at[Button].apply = run.apply
       /\ IF run.apply THEN Account = run.asked ELSE at[Button].wrote = {}
       /\ at[Button].pc = "done" => at[Button].left = {}
  /\ run.state = "succeeded" => at[Button].pc = "done"

LEMMA ChildRecorded ==
  ASSUME Recorded, Work(Button), UNCHANGED <<run, thread, timer>>, TypeOK' PROVE Recorded'
<1>0. Button \in Jobs /\ at[Button] \in Job /\ TypeOK
  BY JobsAssumption DEF Recorded, TypeOK, SyncTypeOK
<1>1. Alive(Button)
  BY DEF Work, AskFails, Turn, ReadFails, Rollback, Commit, CommitRefused, Ask, Refuse, Decide, Alive
<1>2. /\ thread = "streaming" /\ run.state = "running"
      /\ at[Button].apply = run.apply
      /\ IF run.apply THEN Account = run.asked ELSE at[Button].wrote = {}
  BY <1>1 DEF Recorded, Watched, Started, Alive
<1>3. SUFFICES /\ at'[Button].pc # "failed" =>
                    /\ at'[Button].apply = run.apply
                    /\ IF run.apply THEN Account' = run.asked ELSE at'[Button].wrote = {}
                    /\ at'[Button].pc = "done" => at'[Button].left = {}
  BY <1>2 DEF Recorded, Watched, Started
<1>4. CASE \/ AskFails(Button) \/ ReadFails(Button) \/ CommitRefused(Button)
           \/ \E e \in Extracts(Query(Button)) : Refuse(Button, e)
  <2>1. Exit(Button, "failed")
    BY <1>4 DEF AskFails, ReadFails, CommitRefused, Refuse
  <2> QED BY <1>0, <2>1, ExitOK
<1>5. ASSUME NEW s \in Sections, Ask(Button, s)
      PROVE  /\ at'[Button].apply = run.apply /\ at'[Button].pc = "asked"
             /\ IF run.apply THEN Account' = run.asked ELSE at'[Button].wrote = {}
  BY <1>0, <1>2, <1>5, AskOK DEF Account
<1>6. ASSUME NEW e \in Extracts(Query(Button)), Decide(Button, e)
      PROVE  /\ at'[Button].apply = run.apply /\ at'[Button].pc = "ready"
             /\ IF run.apply THEN Account' = run.asked ELSE at'[Button].wrote = {}
  BY <1>0, <1>2, <1>6, DecideOK DEF Account
<1>7. CASE Rollback(Button)
  <2>1. Proceed(Button, {}) /\ at[Button].apply = FALSE
    BY <1>0, <1>7 DEF Rollback, Job
  <2> QED BY <1>0, <1>2, <2>1, ProceedOK
<1>8. CASE Commit(Button)
  <2>1. /\ Proceed(Button, {at[Button].sec}) /\ {at[Button].sec} \in SUBSET Sections
        /\ at[Button].pc = "ready" /\ at[Button].apply = TRUE
    BY <1>0, <1>8 DEF Commit, Job
  <2>2. /\ at'[Button].pc = IF at[Button].left = {} THEN "done" ELSE "begin"
        /\ at'[Button].left = at[Button].left /\ at'[Button].apply = at[Button].apply
        /\ at'[Button].wrote = at[Button].wrote \cup {at[Button].sec}
    BY <1>0, <2>1, ProceedOK
  <2> QED BY <1>2, <2>1, <2>2 DEF Account
<1> QED BY <1>4, <1>5, <1>6, <1>7, <1>8 DEF Work

LEMMA AloneRecorded ==
  ASSUME Recorded, UNCHANGED <<run, thread>>, at'[Button] = at[Button], TypeOK'
  PROVE  Recorded'
BY DEF Recorded, Watched, Started, Account, Alive

LEMMA RecordedStep == Recorded /\ [Next]_vars => Recorded'
<1> SUFFICES ASSUME Recorded, [Next]_vars PROVE Recorded'
  OBVIOUS
<1>0. /\ TypeOK /\ TypeOK' /\ run \in Run /\ at[Button] \in Job
      /\ Button \in Jobs /\ Nightly \in Jobs /\ Button # Nightly
  BY StepOK, JobsAssumption DEF Recorded, TypeOK, SyncTypeOK
<1>1. ASSUME NEW names \in SUBSET Sections, NEW apply \in BOOLEAN, Start(names, apply)
      PROVE  Recorded'
  <2>1. run'.state = "running" /\ thread' = "starting"
    BY <1>1 DEF Start, NoRun
  <2>2. at'[Button].pc = "off"
    BY <1>0, <1>1, OffAgainOK, OffOK DEF Start
  <2> QED BY <1>0, <2>1, <2>2 DEF Recorded, Watched, Started, Alive
<1>2. CASE Spawn
  <2>1. Launch(Button, run.asked, run.apply) /\ run' = run /\ thread = "starting" /\ thread' = "streaming"
    BY <1>2 DEF Spawn
  <2>2. /\ at'[Button].pc = "begin" /\ at'[Button].apply = run.apply
        /\ at'[Button].left = run.asked /\ at'[Button].wrote = {}
    BY <1>0, <2>1, LaunchOK
  <2> QED BY <1>0, <2>1, <2>2 DEF Recorded, Watched, Account
<1>3. CASE SpawnFails
  <2>1. run'.state = "failed" /\ thread' = "off" /\ thread = "starting" /\ at' = at
    BY <1>0, <1>3 DEF SpawnFails, Finish, Run
  <2> QED BY <1>0, <2>1 DEF Recorded, Watched, Started, Alive
<1>4. CASE TimeOut
  <2>1. Kill(Button) /\ UNCHANGED <<run, thread>>
    BY <1>4 DEF TimeOut
  <2>2. /\ ~Alive(Button)'
        /\ ~Alive(Button) => at'[Button] = at[Button]
        /\ at'[Button] = at[Button] \/ at'[Button].pc = "failed"
    BY <1>0, <2>1, KillOK
  <2>3. CASE at'[Button] = at[Button]
    BY <1>0, <2>1, <2>3, AloneRecorded
  <2>4. CASE at'[Button].pc = "failed" /\ Alive(Button)
    BY <1>0, <2>1, <2>4 DEF Recorded, Watched, Alive
  <2> QED BY <2>2, <2>3, <2>4
<1>5. CASE Reap
  BY <1>0, <1>5 DEF Reap, Recorded, Watched, Started, Account, Alive
<1>6. CASE LoseTrack
  <2>1. run'.state = "failed" /\ thread' = "off" /\ ~Alive(Button)'
    BY <1>0, <1>6, KillOK DEF LoseTrack, Finish, Run
  <2> QED BY <1>0, <2>1 DEF Recorded, Watched, Started
<1>7. CASE Conclude
  <2>1. /\ thread = "reaped" /\ thread' = "off" /\ at' = at
        /\ run'.state \in {"succeeded", "failed"}
        /\ run'.asked = run.asked /\ run'.apply = run.apply
        /\ run'.state = "succeeded" => at[Button].pc = "done"
    BY <1>0, <1>7 DEF Conclude, Finish, Run
  <2> QED BY <1>0, <2>1 DEF Recorded, Watched, Started, Account, Alive
<1>8. CASE Restart
  <2>1. run'.state = "none" /\ thread' = "off"
    BY <1>8 DEF Restart, NoRun
  <2>2. at'[Button].pc = "off"
    BY <1>0, <1>8, OffAgainOK, OffOK DEF Restart
  <2> QED BY <1>0, <2>1, <2>2 DEF Recorded, Watched, Started, Alive
<1>9. CASE Schedule
  <2>1. at'[Button] = at[Button] /\ UNCHANGED <<run, thread>>
    BY <1>0, <1>9 DEF Schedule, Launch, TypeOK, SyncTypeOK
  <2> QED BY <1>0, <2>1, AloneRecorded
<1>10. ASSUME NEW p \in Jobs, Work(p), UNCHANGED <<run, thread, timer>> PROVE Recorded'
  <2>1. CASE p = Button
    BY <1>0, <1>10, <2>1, ChildRecorded
  <2>2. CASE p # Button
    <3>1. at'[Button] = at[Button]
      BY <1>0, <1>10, <2>2
         DEF TypeOK, SyncTypeOK, Work, AskFails, ReadFails, Rollback, Commit, CommitRefused, Ask,
             Refuse, Decide, Exit, Proceed
    <3> QED BY <1>0, <1>10, <3>1, AloneRecorded
  <2> QED BY <2>1, <2>2
<1>11. CASE UNCHANGED vars
  BY <1>0, <1>11, AloneRecorded DEF vars
<1> QED
  BY <1>1, <1>2, <1>3, <1>4, <1>5, <1>6, <1>7, <1>8, <1>9, <1>10, <1>11 DEF Next, Supervise

LEMMA AlwaysRecorded == Spec => []Recorded
<1>1. Init => Recorded
  <2>1. Init => at[Button].pc = "off"
    BY OffOK, JobsAssumption DEF Init, SyncInit
  <2>2. NoRun.state = "none"
    BY DEF NoRun
  <2>3. Init => run.state = "none" /\ thread = "off"
    BY <2>2 DEF Init
  <2> QED BY <2>1, <2>3, InitOK DEF Recorded, Watched, Started, Alive
<1>2. Recorded /\ [Next]_vars => Recorded'
  BY RecordedStep
<1> QED BY <1>1, <1>2, PTL DEF Spec

(* While a child of the button lives, the record refuses another click.     *)
THEOREM AlwaysBusyWhileAlive == Spec => []BusyWhileAlive
<1>1. Recorded => BusyWhileAlive
  BY DEF Recorded, Watched, BusyWhileAlive
<1> QED BY <1>1, AlwaysRecorded, PTL

(* A run the record calls succeeded wrote all it was asked for, or - a      *)
(* preview - nothing.                                                       *)
THEOREM SuccessIsAlwaysComplete == Spec => []SuccessIsComplete
<1>1. Recorded => SuccessIsComplete
  <2> SUFFICES ASSUME Recorded, run.state = "succeeded"
               PROVE  at[Button].wrote = IF run.apply THEN run.asked ELSE {}
    BY DEF SuccessIsComplete
  <2>1. at[Button].pc = "done" /\ at[Button].left = {}
        /\ IF run.apply THEN Account = run.asked ELSE at[Button].wrote = {}
    BY DEF Recorded, Started
  <2> QED BY <2>1 DEF Account
<1> QED BY <1>1, AlwaysRecorded, PTL
=============================================================================
