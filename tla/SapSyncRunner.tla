--------------------------- MODULE SapSyncRunner ----------------------------
(***************************************************************************)
(* services/sap_sync_runner.py: the admin's button that runs the sync      *)
(* script as a child process, one thread that supervises it, and a         *)
(* watchdog timer that kills it.  The record of the run in flight lives in *)
(* a module variable, under one lock; a second click is refused while it   *)
(* says "running".  The nightly task runs the same script beside it and    *)
(* knows nothing of the record.                                            *)
(***************************************************************************)
EXTENDS CatalogueSync

CONSTANTS Button, Nightly

ASSUME JobsAssumption == Jobs = {Button, Nightly} /\ Button # Nightly

VARIABLES
  run,      \* _run: its state, what was asked for, and why it failed
  thread,   \* the supervising thread
  timer     \* the watchdog; "fired" also stands for timed_out

vars == <<home, hidden, script, at, run, thread, timer>>

Run == [state : {"none", "running", "succeeded", "failed"}, apply : BOOLEAN,
        asked : SUBSET Sections, why : {"", "start", "lost", "time", "exit"}]
NoRun == [state |-> "none", apply |-> FALSE, asked |-> {}, why |-> ""]

TypeOK ==
  /\ SyncTypeOK
  /\ run \in Run
  /\ thread \in {"off", "starting", "streaming", "reaped"}
  /\ timer \in {"off", "armed", "fired"}

Init ==
  /\ SyncInit
  /\ run = NoRun /\ thread = "off" /\ timer = "off"

-----------------------------------------------------------------------------
(* POST /sap-sync/run.  While a run is in flight it is refused, which       *)
(* changes nothing.                                                         *)
Start(names, apply) ==
  /\ run.state # "running"
  /\ run' = [NoRun EXCEPT !.state = "running", !.apply = apply, !.asked = names]
  /\ thread' = "starting"
  /\ at' = [at EXCEPT ![Button] = Off]
  /\ timer' = "off"
  /\ UNCHANGED <<shop, script>>

Finish(state, why) ==
  /\ run' = [run EXCEPT !.state = state, !.why = why]
  /\ thread' = "off"

(* The child is spawned and the watchdog armed. *)
Spawn ==
  /\ thread = "starting"
  /\ Launch(Button, run.asked, run.apply)
  /\ thread' = "streaming" /\ timer' = "armed"
  /\ UNCHANGED <<shop, script, run>>

SpawnFails ==
  /\ thread = "starting"
  /\ Finish("failed", "start")
  /\ UNCHANGED <<shop, script, at, timer>>

Kill(p) == at' = IF Alive(p) THEN [at EXCEPT ![p].pc = "failed"] ELSE at

(* Mutant: the flag is set, the process lives. *)
TimeOutSpares ==
  /\ timer = "armed"
  /\ timer' = "fired"
  /\ UNCHANGED <<shop, script, at, run, thread>>

(* The watchdog fires at any moment before it is cancelled - also when the  *)
(* child has just ended by itself.                                          *)
TimeOut ==
  /\ timer = "armed"
  /\ timer' = "fired"
  /\ Kill(Button)
  /\ UNCHANGED <<shop, script, run, thread>>

(* The pipe closes and the child is waited for. *)
Reap ==
  /\ thread = "streaming" /\ ~Alive(Button)
  /\ thread' = "reaped"
  /\ UNCHANGED <<shop, script, at, run, timer>>

(* Mutant: the child is left to itself. *)
LoseTrackSpares ==
  /\ thread = "streaming"
  /\ timer' = "off"
  /\ Finish("failed", "lost")
  /\ UNCHANGED <<shop, script, at>>

(* Reading the pipe fails: the child is killed, the run given up. *)
LoseTrack ==
  /\ thread = "streaming"
  /\ Kill(Button)
  /\ timer' = "off"
  /\ Finish("failed", "lost")
  /\ UNCHANGED <<shop, script>>

(* Mutant: the exit code is not looked at. *)
ConcludeBlind ==
  /\ thread = "reaped"
  /\ timer' = "off"
  /\ IF timer = "fired" THEN Finish("failed", "time") ELSE Finish("succeeded", "")
  /\ UNCHANGED <<shop, script, at>>

(* The watchdog is cancelled and the run concluded. *)
Conclude ==
  /\ thread = "reaped"
  /\ timer' = "off"
  /\ \/ timer = "fired" /\ Finish("failed", "time")
     \/ timer # "fired" /\ at[Button].pc = "done" /\ Finish("succeeded", "")
     \/ timer # "fired" /\ at[Button].pc # "done" /\ Finish("failed", "exit")
  /\ UNCHANGED <<shop, script, at>>

(* The service restarts, which kills the child and forgets the run. *)
Restart ==
  /\ at' = [at EXCEPT ![Button] = Off]
  /\ run' = NoRun /\ thread' = "off" /\ timer' = "off"
  /\ UNCHANGED <<shop, script>>

(* sap_sync_scheduled.cmd: both catalogues, for real. *)
Schedule ==
  /\ ~Alive(Nightly)
  /\ Launch(Nightly, Sections, TRUE)
  /\ UNCHANGED <<shop, script, run, thread, timer>>

-----------------------------------------------------------------------------
Supervise == Spawn \/ SpawnFails \/ TimeOut \/ Reap \/ LoseTrack \/ Conclude

Next ==
  \/ \E names \in SUBSET Sections \ {{}}, apply \in BOOLEAN : Start(names, apply)
  \/ Supervise \/ Restart \/ Schedule
  \/ \E p \in Jobs : Work(p) /\ UNCHANGED <<run, thread, timer>>

Spec == Init /\ [][Next]_vars

(* Threads run and timers fire.  The child itself may hang for ever. *)
Fairness == WF_vars(Spawn \/ SpawnFails) /\ WF_vars(TimeOut) /\ WF_vars(Reap) /\ WF_vars(Conclude)

FairSpec == Spec /\ Fairness

-----------------------------------------------------------------------------
(* "Two syncs writing the same rows at once is the one thing this must not  *)
(* do": while a child of the button lives, the record says so, and another  *)
(* click is refused.                                                        *)
BusyWhileAlive == Alive(Button) => run.state = "running"

(* A run that is shown as succeeded wrote every catalogue it was asked for  *)
(* - none, if it was a preview - and nothing was cut short.                 *)
SuccessIsComplete ==
  run.state = "succeeded" => at[Button].wrote = IF run.apply THEN run.asked ELSE {}

(* No job that never comes back: a run that is in flight ends, though the   *)
(* child may hang.                                                          *)
RunEnds == (run.state = "running") ~> (run.state # "running")
=============================================================================
