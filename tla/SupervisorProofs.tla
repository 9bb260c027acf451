-------------------------- MODULE SupervisorProofs --------------------------
(***************************************************************************)
(* Proofs about Supervisor, for any number of concurrent requests and of   *)
(* masters launched: the inductive invariant IInv, and from it the safety  *)
(* properties the Supervisor run checks.                                   *)
(***************************************************************************)
EXTENDS Supervisor, TLAPS

(* op is held by exactly the operation that is inside its critical section,*)
(* and only a Restart can reach startChild.                                *)
LockInv ==
  /\ \A p \in Procs : op = p <=> pc[p] \in Holding
  /\ job[Main] = "shutdown" /\ \A r \in Requests : job[r] # "shutdown"
  /\ pc[Main] \notin {"idle", "test", "start", "pid", "hup"}
  /\ \A r \in Requests : pc[r] \notin {"boot", "serving", "closing", "exited"}

FlagInv == stopping <=> \E p \in Procs : pc[p] \in Stopping

(* Only masters already launched are known, and a closed done channel      *)
(* belongs to a dead master.                                               *)
MasterInv ==
  /\ child <= starts /\ watched <= starts
  /\ \A p \in Procs : target[p] <= starts
  /\ \A m \in live : m <= starts
  /\ \A m \in done : m <= starts /\ m \notin live

DeadInv ==
  /\ \A p \in Procs : pc[p] \in {"kill", "unstop", "start", "exited"} => target[p] \notin live
  /\ loop \in {"check", "backoff", "compare", "respawn"} => watched \in done

(* Until the loop runs only the holder of op changes child.                *)
OffInv ==
  /\ pc[Main] = "boot" => /\ loop = "off" /\ live = {} /\ ~shutdown
                          /\ \A r \in Requests : pc[r] = "idle"
  /\ loop = "off" => /\ live \subseteq {child}
                     /\ \A p \in Procs : pc[p] \in Stopping \cup {"start"} => target[p] = child

ShutdownInv ==
  /\ shutdown <=> pc[Main] \notin {"boot", "serving"}
  /\ pc[Main] \in Stopping \cup {"exited"} => target[Main] = child

IInv == TypeOK /\ LockInv /\ FlagInv /\ MasterInv /\ DeadInv /\ OffInv /\ ShutdownInv

(* Every initial state satisfies the inductive invariant.                  *)
LEMMA InitInv == Init => IInv
<1> SUFFICES ASSUME Init PROVE IInv
  OBVIOUS
<1> USE SupervisorAssumption DEF Init, Procs, Master, NoMaster, Steps, Holding, Stopping, LoopSteps
<1>1. TypeOK
  <2>1. pc \in [Procs -> Steps]
    OBVIOUS
  <2>2. job \in [Procs -> {"none", "restart", "reload", "shutdown"}]
    OBVIOUS
  <2>3. target \in [Procs -> Master \cup {NoMaster}]
    OBVIOUS
  <2>4. starts \in 0 .. MaxStarts /\ child \in Master \cup {NoMaster} /\ watched \in Master \cup {NoMaster}
    OBVIOUS
  <2>5. stopping \in BOOLEAN /\ shutdown \in BOOLEAN /\ closed \in BOOLEAN
    OBVIOUS
  <2>6. loop \in LoopSteps /\ op \in Procs \cup {NoOne} /\ live \in SUBSET Master /\ done \in SUBSET Master
    OBVIOUS
  <2> QED
    BY ONLY <2>1, <2>2, <2>3, <2>4, <2>5, <2>6 DEF TypeOK
<1>2. LockInv
  BY DEF LockInv
<1>3. FlagInv
  BY DEF FlagInv
<1>4. MasterInv
  BY DEF MasterInv
<1>5. DeadInv
  BY DEF DeadInv
<1>6. OffInv
  BY DEF OffInv
<1>7. ShutdownInv
  BY DEF ShutdownInv
<1> QED
  BY <1>1, <1>2, <1>3, <1>4, <1>5, <1>6, <1>7 DEF IInv

(* Every step of every operation, of the loop and of the masters keeps it. *)
LEMMA StepInv == IInv /\ [Next]_vars => IInv'
<1> SUFFICES ASSUME IInv, [Next]_vars PROVE IInv'
  OBVIOUS
<1> USE DEF IInv, TypeOK, LockInv, FlagInv, MasterInv, DeadInv, OffInv, ShutdownInv,
            Procs, Master, NoMaster, Steps, Holding, Stopping, LoopSteps
<1>1. CASE Boot
  <2> USE <1>1, SupervisorAssumption DEF Boot, Goto
  <2>1. CASE Spawn /\ loop' = "top"
    BY <2>1 DEF Spawn
  <2>2. CASE SpawnFails /\ loop' = loop
    BY <2>2 DEF SpawnFails
  <2> QED
    BY <2>1, <2>2
<1>2. CASE SetShutdown
  BY <1>2, SupervisorAssumption DEF SetShutdown, Goto
<1>3. CASE CloseShutdownCh
  BY <1>3, SupervisorAssumption DEF CloseShutdownCh, Goto
<1>4. ASSUME NEW r \in Requests, NEW what \in {"restart", "reload"}, Arrive(r, what) PROVE IInv'
  BY <1>4, SupervisorAssumption DEF Arrive, Goto, Running
<1>5. ASSUME NEW p \in Procs, LockOp(p) PROVE IInv'
  BY <1>5, SupervisorAssumption DEF LockOp, Goto, Running
<1>6. ASSUME NEW p \in Procs, BeginStop(p) PROVE IInv'
  BY <1>6, SupervisorAssumption DEF BeginStop, Goto, Running
<1>7. ASSUME NEW p \in Procs, SignalQuit(p) PROVE IInv'
  BY <1>7, SupervisorAssumption DEF SignalQuit, Goto, Running
<1>8. ASSUME NEW p \in Procs, SeeDone(p) PROVE IInv'
  BY <1>8, SupervisorAssumption DEF SeeDone, Goto, Running
<1>9. ASSUME NEW p \in Procs, KillOnTimeout(p) PROVE IInv'
  <2>1. TypeOK'
    BY <1>9, SupervisorAssumption DEF KillOnTimeout, Goto, Running
  <2>2. LockInv'
    BY <1>9, SupervisorAssumption DEF KillOnTimeout, Goto, Running
  <2>3. FlagInv'
    BY <1>9, SupervisorAssumption DEF KillOnTimeout, Goto, Running
  <2>4. MasterInv'
    BY <1>9, SupervisorAssumption DEF KillOnTimeout, Goto, Running
  <2>5. DeadInv'
    BY <1>9, SupervisorAssumption DEF KillOnTimeout, Goto, Running
  <2>6. OffInv'
    BY <1>9, SupervisorAssumption DEF KillOnTimeout, Goto, Running
  <2>7. ShutdownInv'
    BY <1>9, SupervisorAssumption DEF KillOnTimeout, Goto, Running
  <2> QED
    BY <2>1, <2>2, <2>3, <2>4, <2>5, <2>6, <2>7
<1>10. ASSUME NEW p \in Procs, EndStop(p) PROVE IInv'
  <2>1. TypeOK'
    BY <1>10, SupervisorAssumption DEF EndStop, Goto, Running, Return
  <2>2. LockInv'
    BY <1>10, SupervisorAssumption DEF EndStop, Goto, Running, Return
  <2>3. FlagInv'
    BY <1>10, SupervisorAssumption DEF EndStop, Goto, Running, Return
  <2>4. MasterInv'
    BY <1>10, SupervisorAssumption DEF EndStop, Goto, Running, Return
  <2>5. DeadInv'
    BY <1>10, SupervisorAssumption DEF EndStop, Goto, Running, Return
  <2>6. OffInv'
    BY <1>10, SupervisorAssumption DEF EndStop, Goto, Running, Return
  <2>7. ShutdownInv'
    BY <1>10, SupervisorAssumption DEF EndStop, Goto, Running, Return
  <2> QED
    BY <2>1, <2>2, <2>3, <2>4, <2>5, <2>6, <2>7
<1>11. ASSUME NEW r \in Requests, TestFails(r) PROVE IInv'
  BY <1>11, SupervisorAssumption DEF TestFails, Goto, Running, Return
<1>12. ASSUME NEW r \in Requests, TestPasses(r) PROVE IInv'
  BY <1>12, SupervisorAssumption DEF TestPasses, Goto, Running
<1>13. ASSUME NEW r \in Requests, MasterPID(r) PROVE IInv'
  BY <1>13, SupervisorAssumption DEF MasterPID, Goto, Running, Return
<1>14. ASSUME NEW r \in Requests, SendHup(r) PROVE IInv'
  BY <1>14, SupervisorAssumption DEF SendHup, Goto, Running, Return
<1>15. ASSUME NEW r \in Requests, RestartSpawns(r) PROVE IInv'
  BY <1>15, SupervisorAssumption DEF RestartSpawns, Goto, Running, Return, Spawn
<1>16. ASSUME NEW r \in Requests, RestartSpawnFails(r) PROVE IInv'
  BY <1>16, SupervisorAssumption DEF RestartSpawnFails, Goto, Running, Return, SpawnFails
<1>17. CASE LoopTop
  BY <1>17, SupervisorAssumption DEF LoopTop, LoopGoto, Running
<1>18. CASE LoopSeesDone
  BY <1>18, SupervisorAssumption DEF LoopSeesDone, LoopGoto, LoopUnchanged, Running
<1>19. CASE LoopSeesShutdown
  BY <1>19, SupervisorAssumption DEF LoopSeesShutdown, LoopGoto, LoopUnchanged, Running
<1>20. CASE LoopCheckStopping
  BY <1>20, SupervisorAssumption DEF LoopCheckStopping, LoopGoto, LoopUnchanged, Running
<1>21. CASE LoopBackoffOver
  BY <1>21, SupervisorAssumption DEF LoopBackoffOver, LoopGoto, LoopUnchanged, Running
<1>22. CASE LoopCompare
  BY <1>22, SupervisorAssumption DEF LoopCompare, LoopGoto, LoopUnchanged, Running
<1>23. CASE LoopRespawn
  BY <1>23, SupervisorAssumption DEF LoopRespawn, LoopGoto, Spawn, Running
<1>24. CASE LoopRespawnFails
  BY <1>24, SupervisorAssumption DEF LoopRespawnFails, LoopGoto, SpawnFails, Running
<1>25. ASSUME NEW m \in Master, Exit(m) PROVE IInv'
  BY <1>25, SupervisorAssumption DEF Exit, Running
<1>26. ASSUME NEW m \in Master, Reap(m) PROVE IInv'
  BY <1>26, SupervisorAssumption DEF Reap, Running
<1>27. CASE UNCHANGED vars
  BY <1>27 DEF vars
<1> QED
  BY <1>1, <1>2, <1>3, <1>4, <1>5, <1>6, <1>7, <1>8, <1>9, <1>10, <1>11, <1>12, <1>13, <1>14, <1>15, <1>16, <1>17, <1>18, <1>19, <1>20, <1>21, <1>22, <1>23, <1>24, <1>25, <1>26, <1>27 DEF Next, StopStep, RequestStep, LoopStep, Over

(* The inductive invariant holds in every reachable state.                 *)
LEMMA Invariance == Spec => []IInv
<1> QED
  BY InitInv, StepInv, PTL DEF Spec

(* Types: the variables of the controller keep their ranges.               *)
THEOREM TypeCorrect == Spec => []TypeOK
<1>1. IInv => TypeOK
  BY DEF IInv
<1> QED
  BY <1>1, Invariance, PTL

(* c.stopping is up exactly while the holder of op is inside stopChild.    *)
THEOREM StoppingFlag == Spec => []StoppingTracksStop
<1>1. IInv => StoppingTracksStop
  BY DEF IInv, LockInv, FlagInv, StoppingTracksStop, Holding
<1> QED
  BY <1>1, Invariance, PTL

(* Restart and respawn decide to start a master only over a dead one.      *)
THEOREM OverDeadMaster == Spec => []StartsOverDeadMaster
<1>1. IInv => StartsOverDeadMaster
  BY DEF IInv, MasterInv, DeadInv, StartsOverDeadMaster, Procs
<1> QED
  BY <1>1, Invariance, PTL

(* Whatever restarts, reloads and shutdown overlap, op keeps the tracked   *)
(* master the only one as long as the supervise loop does not run.         *)
THEOREM NoOrphan == Spec => []NoOrphanFromRestarts
<1>1. IInv => NoOrphanFromRestarts
  BY DEF IInv, OffInv, NoOrphanFromRestarts
<1> QED
  BY <1>1, Invariance, PTL

(* Once Shutdown has returned the tracked master is not running.           *)
THEOREM ShutdownStops == Spec => []ShutdownStopsTracked
<1>1. IInv => ShutdownStopsTracked
  BY DEF IInv, DeadInv, ShutdownInv, ShutdownStopsTracked, Procs
<1> QED
  BY <1>1, Invariance, PTL

(* No operation starts a master once shutdown is set.                      *)
THEOREM NoLateStart == Spec => NoStartAfterShutdown
<1>1. [Next]_vars => [shutdown => starts' = starts]_vars
  <2> SUFFICES ASSUME Next, shutdown PROVE starts' = starts
    BY DEF vars
  <2> QED
    BY DEF Next, StopStep, RequestStep, LoopStep, Over, vars, Boot, SetShutdown,
       CloseShutdownCh, Arrive, LockOp, BeginStop, SignalQuit, SeeDone,
       KillOnTimeout, EndStop, TestFails, TestPasses, MasterPID, SendHup,
       RestartSpawns, RestartSpawnFails, LoopTop, LoopSeesDone,
       LoopSeesShutdown, LoopCheckStopping, LoopBackoffOver, LoopCompare,
       LoopRespawn, LoopRespawnFails, LoopUnchanged, Exit, Reap, Spawn, SpawnFails
<1> QED
  BY <1>1, PTL DEF Spec, NoStartAfterShutdown
=============================================================================
