----------------------------- MODULE Supervisor -----------------------------
(***************************************************************************)
(* The nginx supervisor, internal/nginxctl in supervise mode: Restart,     *)
(* Reload and Shutdown serialised by the mutex op, the supervise loop that *)
(* respawns a master that died (and takes no part in op), the goroutine    *)
(* that waits for each master, and the masters themselves.                 *)
(*                                                                         *)
(* A critical section of c.mu is one action: nothing in it can block.      *)
(* A master is named by the ordinal of the startChild that launched it;    *)
(* the same number stands for its exec.Cmd, its pid and its done channel,  *)
(* which startChild assigns together.                                      *)
(***************************************************************************)
EXTENDS Naturals, FiniteSets

CONSTANTS
  Requests,   \* goroutines serving POST /api/nginx/{restart,reload} and the reloads of edits
  Main,       \* the goroutine of main(), which boots and shuts down
  NoOne,      \* nobody holds op
  MaxStarts   \* bound on the number of masters ever launched

ASSUME SupervisorAssumption ==
  /\ Main \notin Requests
  /\ NoOne \notin Requests \cup {Main}
  /\ MaxStarts \in Nat

VARIABLES
  op,         \* c.op: who holds it
  child,      \* c.child and c.childDone
  stopping,   \* c.stopping
  shutdown,   \* c.shutdown
  closed,     \* c.shutdownCh is closed
  starts,     \* number of masters launched so far
  live,       \* masters that have not exited
  done,       \* masters whose done channel is closed
  pc,         \* what each operation does next
  job,        \* which operation it is
  target,     \* stopChild's local child/done, Reload's local pid
  loop,       \* what the supervise loop does next
  watched     \* the supervise loop's local done

vars == <<op, child, stopping, shutdown, closed, starts, live, done, pc, job,
          target, loop, watched>>

Procs  == Requests \cup {Main}
Master == 1 .. MaxStarts
NoMaster == 0    \* c.child = nil

\* Steps of an operation that run with op held, and those of stopChild.
Stopping == {"signal", "await", "kill", "unstop"}
Holding  == Stopping \cup {"test", "stop", "start", "pid", "hup"}
Steps    == Holding \cup {"boot", "serving", "closing", "idle", "lock", "exited"}
LoopSteps == {"off", "top", "wait", "check", "backoff", "compare", "respawn", "returned"}

TypeOK ==
  /\ op \in Procs \cup {NoOne}
  /\ child \in Master \cup {NoMaster}
  /\ stopping \in BOOLEAN /\ shutdown \in BOOLEAN /\ closed \in BOOLEAN
  /\ starts \in 0 .. MaxStarts
  /\ live \in SUBSET Master
  /\ done \in SUBSET Master
  /\ pc \in [Procs -> Steps]
  /\ job \in [Procs -> {"none", "restart", "reload", "shutdown"}]
  /\ target \in [Procs -> Master \cup {NoMaster}]
  /\ loop \in LoopSteps
  /\ watched \in Master \cup {NoMaster}

Init ==
  /\ op = NoOne
  /\ child = NoMaster
  /\ stopping = FALSE /\ shutdown = FALSE /\ closed = FALSE
  /\ starts = 0 /\ live = {} /\ done = {}
  /\ pc = [p \in Procs |-> IF p = Main THEN "boot" ELSE "idle"]
  /\ job = [p \in Procs |-> IF p = Main THEN "shutdown" ELSE "none"]
  /\ target = [p \in Procs |-> NoMaster]
  /\ loop = "off" /\ watched = NoMaster

Running == pc[Main] # "exited"   \* lightngx itself has not exited

Goto(p, from, to) == pc[p] = from /\ pc' = [pc EXCEPT ![p] = to]

-----------------------------------------------------------------------------
(* startChild, one critical section of mu. It is refused once shutdown is  *)
(* set, and the exec may fail.                                             *)

\* Fault: startChild does not look at c.shutdown.
SpawnIgnoresShutdown ==
  /\ starts < MaxStarts
  /\ starts' = starts + 1
  /\ child' = starts + 1
  /\ live' = live \cup {starts + 1}

Spawn ==
  /\ ~shutdown
  /\ starts < MaxStarts
  /\ starts' = starts + 1
  /\ child' = starts + 1
  /\ live' = live \cup {starts + 1}

SpawnFails == UNCHANGED <<starts, child, live>>

(* StartSupervised: the loop is launched only when the first start works;  *)
(* main goes on serving either way.                                        *)
Boot ==
  /\ Goto(Main, "boot", "serving")
  /\ \/ Spawn /\ loop' = "top"
     \/ SpawnFails /\ loop' = loop
  /\ UNCHANGED <<op, stopping, shutdown, closed, done, job, target, watched>>

-----------------------------------------------------------------------------
(* Restart, Reload and Shutdown.                                           *)

(* A request arrives. It may still arrive during Shutdown, on a connection *)
(* that was open when the listener failed.                                 *)
Arrive(r, what) ==
  /\ Running
  /\ pc[Main] # "boot"
  /\ Goto(r, "idle", "lock")
  /\ job' = [job EXCEPT ![r] = what]
  /\ UNCHANGED <<op, child, stopping, shutdown, closed, starts, live, done,
                 target, loop, watched>>

(* Shutdown's first critical section, then close(shutdownCh).              *)
SetShutdown ==
  /\ Goto(Main, "serving", "closing")
  /\ shutdown' = TRUE
  /\ UNCHANGED <<op, child, stopping, closed, starts, live, done, job, target,
                 loop, watched>>

CloseShutdownCh ==
  /\ Goto(Main, "closing", "lock")
  /\ closed' = TRUE
  /\ UNCHANGED <<op, child, stopping, shutdown, starts, live, done, job,
                 target, loop, watched>>

\* Fault: the operation does not take op.
LockOpIgnored(p) ==
  /\ Running
  /\ op' = p
  /\ Goto(p, "lock", IF job[p] = "shutdown" THEN "stop" ELSE "test")
  /\ UNCHANGED <<child, stopping, shutdown, closed, starts, live, done, job,
                 target, loop, watched>>

LockOp(p) ==
  /\ Running
  /\ op = NoOne
  /\ op' = p
  /\ Goto(p, "lock", IF job[p] = "shutdown" THEN "stop" ELSE "test")
  /\ UNCHANGED <<child, stopping, shutdown, closed, starts, live, done, job,
                 target, loop, watched>>

(* The deferred op.Unlock of an operation that returns.                    *)
Return(p) == op' = NoOne

(* nginx -t: rejected configuration, timeout or a client that went away    *)
(* abort the operation.                                                    *)
TestFails(r) ==
  /\ Running
  /\ Goto(r, "test", "idle")
  /\ Return(r)
  /\ UNCHANGED <<child, stopping, shutdown, closed, starts, live, done, job,
                 target, loop, watched>>

TestPasses(r) ==
  /\ Running
  /\ Goto(r, "test", IF job[r] = "restart" THEN "stop" ELSE "pid")
  /\ UNCHANGED <<op, child, stopping, shutdown, closed, starts, live, done,
                 job, target, loop, watched>>

(* Reload: masterPID, which returns the pid of a reaped child too, then    *)
(* kill(2). Without a child it falls back on the pidfile: an error here,   *)
(* where nginx was never launched.                                         *)
MasterPID(r) ==
  /\ Running
  /\ \/ /\ child # NoMaster
        /\ Goto(r, "pid", "hup")
        /\ target' = [target EXCEPT ![r] = child]
        /\ UNCHANGED op
     \/ /\ child = NoMaster
        /\ Goto(r, "pid", "idle")
        /\ Return(r)
        /\ UNCHANGED target
  /\ UNCHANGED <<child, stopping, shutdown, closed, starts, live, done, job,
                 loop, watched>>

SendHup(r) ==
  /\ Running
  /\ Goto(r, "hup", "idle")
  /\ Return(r)
  /\ UNCHANGED <<child, stopping, shutdown, closed, starts, live, done, job,
                 target, loop, watched>>

-----------------------------------------------------------------------------
(* stopChild, called by Restart and by Shutdown.                           *)

BeginStop(p) ==
  /\ Running
  /\ Goto(p, "stop", "signal")
  /\ target' = [target EXCEPT ![p] = child]
  /\ stopping' = TRUE
  /\ UNCHANGED <<op, child, shutdown, closed, starts, live, done, job, loop,
                 watched>>

(* SIGQUIT. With no child stopChild returns; os.ErrProcessDone is not an   *)
(* error, and the master may take its time or ignore the signal.           *)
SignalQuit(p) ==
  /\ Running
  /\ Goto(p, "signal", IF target[p] = NoMaster THEN "unstop" ELSE "await")
  /\ UNCHANGED <<op, child, stopping, shutdown, closed, starts, live, done,
                 job, target, loop, watched>>

(* <-done, first in the select and then after the kill.                    *)
SeeDone(p) ==
  /\ Running
  /\ target[p] \in done
  /\ \/ Goto(p, "await", "unstop")
     \/ Goto(p, "kill", "unstop")
  /\ UNCHANGED <<op, child, stopping, shutdown, closed, starts, live, done,
                 job, target, loop, watched>>

\* Fault: stopChild gives up on its timeout and does not kill.
TimeoutGivesUp(p) ==
  /\ Running
  /\ Goto(p, "await", "unstop")
  /\ UNCHANGED <<op, child, stopping, shutdown, closed, starts, live, done,
                 job, target, loop, watched>>

\* Fault: stopChild sends SIGQUIT again on its timeout, and waits.
TimeoutSignalsAgain(p) ==
  /\ Running
  /\ Goto(p, "await", "signal")
  /\ UNCHANGED <<op, child, stopping, shutdown, closed, starts, live, done,
                 job, target, loop, watched>>

KillOnTimeout(p) ==
  /\ Running
  /\ Goto(p, "await", "kill")
  /\ live' = live \ {target[p]}
  /\ UNCHANGED <<op, child, stopping, shutdown, closed, starts, done, job,
                 target, loop, watched>>

\* Fault: stopping is not reset.
EndStopKeepsFlag(p) ==
  /\ Running
  /\ \/ /\ job[p] = "restart"
        /\ Goto(p, "unstop", "start")
        /\ UNCHANGED op
     \/ /\ job[p] = "shutdown"
        /\ Goto(p, "unstop", "exited")
        /\ Return(p)
  /\ UNCHANGED <<child, stopping, shutdown, closed, starts, live, done, job,
                 target, loop, watched>>

(* The deferred reset of stopping. Restart goes on to startChild, Shutdown *)
(* unlocks op and main returns: every goroutine of lightngx ends.          *)
EndStop(p) ==
  /\ Running
  /\ stopping' = FALSE
  /\ \/ /\ job[p] = "restart"
        /\ Goto(p, "unstop", "start")
        /\ UNCHANGED op
     \/ /\ job[p] = "shutdown"
        /\ Goto(p, "unstop", "exited")
        /\ Return(p)
  /\ UNCHANGED <<child, shutdown, closed, starts, live, done, job, target,
                 loop, watched>>

RestartSpawns(r) ==
  /\ Running
  /\ Goto(r, "start", "idle")
  /\ Return(r)
  /\ Spawn
  /\ UNCHANGED <<stopping, shutdown, closed, done, job, target, loop, watched>>

RestartSpawnFails(r) ==
  /\ Running
  /\ Goto(r, "start", "idle")
  /\ Return(r)
  /\ SpawnFails
  /\ UNCHANGED <<stopping, shutdown, closed, done, job, target, loop, watched>>

-----------------------------------------------------------------------------
(* superviseLoop. Its delays (200ms, the doubling backoff) only take time. *)

LoopGoto(from, to) == Running /\ loop = from /\ loop' = to

LoopTop ==
  /\ LoopGoto("top", "wait")
  /\ watched' = child
  /\ UNCHANGED <<op, child, stopping, shutdown, closed, starts, live, done, pc,
                 job, target>>

LoopUnchanged == UNCHANGED <<op, child, stopping, shutdown, closed, starts,
                             live, done, pc, job, target, watched>>

LoopSeesDone == watched \in done /\ LoopGoto("wait", "check") /\ LoopUnchanged

LoopSeesShutdown ==
  /\ closed
  /\ LoopGoto("wait", "returned") \/ LoopGoto("backoff", "returned")
  /\ LoopUnchanged

LoopCheckStopping ==
  /\ LoopGoto("check", IF stopping THEN "top" ELSE "backoff")
  /\ LoopUnchanged

LoopBackoffOver == LoopGoto("backoff", "compare") /\ LoopUnchanged

LoopCompare ==
  /\ LoopGoto("compare", IF child # watched THEN "top" ELSE "respawn")
  /\ LoopUnchanged

LoopRespawn ==
  /\ LoopGoto("respawn", "top")
  /\ Spawn
  /\ UNCHANGED <<op, stopping, shutdown, closed, done, pc, job, target, watched>>

\* Fault: the loop waits for the master startChild failed to start.
LoopWatchesNone ==
  /\ LoopGoto("respawn", "wait")
  /\ SpawnFails
  /\ watched' = starts + 1
  /\ UNCHANGED <<op, stopping, shutdown, closed, done, pc, job, target>>

\* Fault: the loop returns when startChild fails.
LoopGivesUp ==
  /\ LoopGoto("respawn", "returned")
  /\ SpawnFails
  /\ UNCHANGED <<op, stopping, shutdown, closed, done, pc, job, target, watched>>

LoopRespawnFails ==
  /\ LoopGoto("respawn", "top")
  /\ SpawnFails
  /\ UNCHANGED <<op, stopping, shutdown, closed, done, pc, job, target, watched>>

-----------------------------------------------------------------------------
(* The masters. Any of them may exit at any time: a crash, a SIGQUIT       *)
(* honoured, the listen sockets taken. A waiter goroutine then closes done.*)

Exit(m) ==
  /\ m \in live
  /\ live' = live \ {m}
  /\ UNCHANGED <<op, child, stopping, shutdown, closed, starts, done, pc, job,
                 target, loop, watched>>

Reap(m) ==
  /\ Running
  /\ m <= starts /\ m \notin live /\ m \notin done
  /\ done' = done \cup {m}
  /\ UNCHANGED <<op, child, stopping, shutdown, closed, starts, live, pc, job,
                 target, loop, watched>>

(* lightngx has exited; nothing of it runs any more.                       *)
Over == ~Running /\ UNCHANGED vars

-----------------------------------------------------------------------------
RequestStep(r) ==
  \/ TestFails(r) \/ TestPasses(r) \/ MasterPID(r) \/ SendHup(r)
  \/ RestartSpawns(r) \/ RestartSpawnFails(r)

StopStep(p) ==
  BeginStop(p) \/ SignalQuit(p) \/ SeeDone(p) \/ KillOnTimeout(p) \/ EndStop(p)

LoopStep ==
  \/ LoopTop \/ LoopSeesDone \/ LoopSeesShutdown \/ LoopCheckStopping
  \/ LoopBackoffOver \/ LoopCompare \/ LoopRespawn \/ LoopRespawnFails

Next ==
  \/ Boot \/ SetShutdown \/ CloseShutdownCh
  \/ \E r \in Requests, what \in {"restart", "reload"} : Arrive(r, what)
  \/ \E p \in Procs : LockOp(p) \/ StopStep(p)
  \/ \E r \in Requests : RequestStep(r)
  \/ LoopStep
  \/ \E m \in Master : Exit(m) \/ Reap(m)
  \/ Over

Spec == Init /\ [][Next]_vars

(***************************************************************************)
(* Fairness. Goroutines that can run do run; nginx -t ends (its context    *)
(* has a 30s deadline); stopChild's timer fires; a blocked Go mutex is     *)
(* handed over within a millisecond of starvation mode, so op.Lock is      *)
(* strongly fair; a select with two ready cases picks at random, so        *)
(* neither is passed over for ever; and exec does not fail for ever.       *)
(* Nothing is assumed of nginx (Exit), of clients (Arrive) or of signals.  *)
(***************************************************************************)
Fairness ==
  /\ WF_vars(Boot) /\ WF_vars(CloseShutdownCh)
  /\ \A p \in Procs : SF_vars(LockOp(p)) /\ WF_vars(StopStep(p))
  /\ \A r \in Requests : WF_vars(RequestStep(r)) /\ SF_vars(RestartSpawns(r))
  /\ WF_vars(LoopStep)
  /\ SF_vars(LoopSeesShutdown) /\ SF_vars(LoopRespawn)
  /\ \A m \in Master : WF_vars(Reap(m))

FairSpec == Spec /\ Fairness

-----------------------------------------------------------------------------
(* Safety.                                                                 *)

(* The stopping flag tells the loop of a deliberate stop: it is up exactly *)
(* while one operation is inside stopChild past its first critical         *)
(* section. A flag left up stops respawning for good; one cleared by       *)
(* another operation makes the loop fight a restart in progress.           *)
StoppingTracksStop ==
  /\ stopping <=> \E p \in Procs : pc[p] \in Stopping
  /\ \A p, q \in Procs : pc[p] \in Stopping /\ pc[q] \in Holding => p = q

(* Restart launches a master only after the one it stopped is gone, and    *)
(* the loop decides to respawn only in place of a master that is gone: a   *)
(* start over a live master is possible only when child changed after the  *)
(* starter took its snapshot.                                              *)
StartsOverDeadMaster ==
  /\ \A r \in Requests :
       pc[r] = "start" => target[r] \notin live
  /\ loop = "respawn" => watched \notin live

(* What op is there for: without the supervise loop, whatever restarts,    *)
(* reloads and shutdown overlap, no master but the tracked one is alive.   *)
NoOrphanFromRestarts == loop = "off" => live \subseteq {child}

(* Shutdown returns with the tracked master gone, and no master is started *)
(* behind its back ("A respawn racing Shutdown", startChild).              *)
ShutdownStopsTracked == pc[Main] = "exited" => child \notin live

(* Once shutdown is set no step starts a master, whatever operation was    *)
(* under way when it was set.                                              *)
NoStartAfterShutdown == [][shutdown => starts' = starts]_vars

(* The comment on op: reload, restart and shutdown are serialised so as    *)
(* not to "leave an orphaned master fighting the tracked one".             *)
AtMostOneMaster == \A m, n \in live : m = n

(* Liveness.                                                               *)

(* A respawn is never lost: when the loop runs, a dead tracked master is   *)
(* replaced, unless lightngx shuts down or the bound is reached.           *)
DeadMasterRespawned ==
  (loop # "off" /\ child \notin live)
    ~> (child \in live \/ shutdown \/ starts = MaxStarts)

(* StartSupervised's promise without the condition on the loop:            *)
(* "unexpected exits are respawned", so a master a Restart launched and    *)
(* that died comes back.                                                   *)
UnexpectedExitRespawned ==
  (starts > 0 /\ child \notin live)
    ~> (child \in live \/ shutdown \/ starts = MaxStarts)

(* Shutdown ends: op is obtained behind any number of restarts, and the    *)
(* kill after 20s makes a master that ignores SIGQUIT exit.                *)
ShutdownCompletes == shutdown ~> pc[Main] = "exited"

(* Every request is answered, or lightngx exits first.                     *)
RequestsComplete ==
  \A r \in Requests : pc[r] = "lock" ~> (pc[r] = "idle" \/ ~Running)
=============================================================================
