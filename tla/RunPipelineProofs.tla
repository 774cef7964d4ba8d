------------------------- MODULE RunPipelineProofs -------------------------
(***************************************************************************)
(* Theorems about RunPipeline, for every value of its constants.           *)
(***************************************************************************)
EXTENDS RunPipeline, FiniteSetTheorems, TLAPS

\* The names of the stages, of the task states and of the run states.
USE DEF Header, Kinds, Stages, NoReq, NoStage

\* Every action of the specification keeps each variable in its type: no
\* handler writes a status, a stage or a counter the columns cannot hold.
LEMMA TypeStep == TypeOK /\ [Next]_vars => TypeOK'
<1> SUFFICES ASSUME TypeOK, [Next]_vars PROVE TypeOK'
  OBVIOUS
<1> USE BoundsAssumption, LimitBelowCutoff, NoReqAssumption
<1> USE DEF TypeOK
<1>1. ASSUME NEW r \in Requests, RequestStep(r) PROVE TypeOK'
  <2>1. CASE ExecuteLock(r)
    BY <2>1 DEF ExecuteLock, rowVars, resultVars, taskVars
  <2>2. CASE ExecuteCommit(r)
    BY <2>2 DEF ExecuteCommit, QueuedProgress, NoProgress, StageStatus, RunStatus, taskVars
  <2>3. CASE Dispatch(r)
    BY <2>3 DEF Dispatch, rowVars, resultVars, PCs, Executing
  <2>4. CASE DispatchFail(r)
    BY <2>4 DEF DispatchFail, rowVars, resultVars, PCs, Executing
  <2>5. CASE RevertDispatch(r)
    BY <2>5 DEF RevertDispatch, NoProgress, StageStatus, RunStatus, resultVars, taskVars
  <2>6. CASE ApiCrash(r)
    BY <2>6 DEF ApiCrash, rowVars, resultVars, taskVars
  <2>7. QED BY <1>1, <2>1, <2>2, <2>3, <2>4, <2>5, <2>6 DEF RequestStep
<1>2. ASSUME NEW t \in Tasks, TaskStep(t) PROVE TypeOK'
  <2> USE DEF Goto, EndProcess, AtomicStageUpdate, PCs, Executing, StageStatus, RunStatus,
              rowVars, resultVars, reqVars
  <2>0. t = <<t[1], t[2]>> /\ t[1] \in Gens /\ t[2] \in Kinds
    BY DEF Tasks
  <2>1. CASE StartTask(t)
    BY <2>1 DEF StartTask
  <2>2. CASE LoadRun(t)
    BY <2>2 DEF LoadRun
  <2>3. CASE MarkStageRunning(t)
    BY <2>0, <2>3 DEF MarkStageRunning, RunningStatus
  <2>4. CASE SaveResults(t)
    BY <2>0, <2>4 DEF SaveResults
  <2>5. CASE JoinResults(t)
    BY <2>5 DEF JoinResults
  <2>6. CASE InsertBatch(t)
    BY <2>6 DEF InsertBatch, LastBatch
  <2>7. CASE StartEcl(t)
    BY <2>7 DEF StartEcl
  <2>8. CASE UploadWorkbooks(t)
    BY <2>8 DEF UploadWorkbooks
  <2>9. CASE MarkStageComplete(t)
    BY <2>0, <2>9 DEF MarkStageComplete
  <2>10. CASE CompleteRun(t)
    BY <2>10 DEF CompleteRun, StoredTotal
  <2>11. CASE Notify(t)
    BY <2>11 DEF Notify
  <2>12. CASE Ack(t)
    BY <2>12 DEF Ack
  <2>13. CASE MarkRunFailed(t)
    BY <2>0, <2>13 DEF MarkRunFailed, FailRun
  <2>14. CASE MarkRunFailedStandalone(t)
    BY <2>0, <2>14 DEF MarkRunFailedStandalone, FailRun
  <2>15. CASE LoseFailureMark(t)
    BY <2>15 DEF LoseFailureMark
  <2>16. QED
    BY <1>2, <2>1, <2>2, <2>3, <2>4, <2>5, <2>6, <2>7, <2>8, <2>9, <2>10,
       <2>11, <2>12, <2>13, <2>14, <2>15 DEF TaskStep
<1>3. ASSUME NEW t \in Tasks, FaultStep(t) PROVE TypeOK'
  BY <1>3 DEF FaultStep, Raise, WorkerLost, HardKill, Goto, EndProcess, PCs, Executing,
              rowVars, resultVars, reqVars
<1>4. CASE DeleteRun
  BY <1>4 DEF DeleteRun, UpdateRow, RunStatus, resultVars, reqVars, taskVars
<1>5. CASE RecoverStuckRuns
  BY <1>5 DEF RecoverStuckRuns, UpdateRow, StuckStage, RunStatus, resultVars, reqVars, taskVars
<1>6. CASE Tick
  BY <1>6 DEF Tick, resultVars, reqVars
<1>7. CASE UNCHANGED vars
  BY <1>7 DEF vars, rowVars, resultVars, reqVars, taskVars
<1>8. QED BY <1>1, <1>2, <1>3, <1>4, <1>5, <1>6, <1>7 DEF Next

\* Type correctness of the row, the result tables, the requests and the tasks.
THEOREM TypeCorrect == Spec => []TypeOK
<1>1. Init => TypeOK
  <2> SUFFICES ASSUME Init PROVE TypeOK
    OBVIOUS
  <2>1. /\ status \in RunStatus /\ deleted \in BOOLEAN /\ overlapped \in BOOLEAN
        /\ progress \in [Stages -> StageStatus]
        /\ failStage \in Stages \cup {"queued", "timeout", NoStage}
        /\ lock \in Requests \cup {NoReq}
        /\ results \in [Header -> BOOLEAN]
        /\ req \in [Requests -> {"idle", "locked", "committed", "reverting"}]
    BY DEF Init, NoProgress, RunStatus, StageStatus
  <2>2. /\ total \in Nat /\ eadRows \in Nat /\ artifacts \in Nat
        /\ rowAge \in 0 .. StuckRunning /\ execNo \in 0 .. MaxExec
        /\ losses \in 0 .. MaxLoss
        /\ reqGen \in [Requests -> 0 .. MaxExec]
    BY BoundsAssumption DEF Init
  <2>3. /\ pc \in [Tasks -> PCs]
        /\ age \in [Tasks -> Nat] /\ batch \in [Tasks -> Nat] /\ sum \in [Tasks -> Nat]
    BY DEF Init, PCs
  <2>4. QED BY <2>1, <2>2, <2>3 DEF TypeOK
<1>2. QED BY <1>1, TypeStep, PTL DEF Spec

-----------------------------------------------------------------------------
(* Timeouts and time limits                                                *)

\* A task under time limits is never older than the hard limit, and since its
\* first update of the row the row is not older than the task.
StageAgeInv ==
  TimeLimits =>
    \A t \in Tasks :
      /\ age[t] <= HardLimit
      /\ pc[t] \in Computing => rowAge <= age[t]

\* The ages keep this relation: every update of the row by anyone resets the
\* row's age, time moves both, and a dead process leaves the computing states.
LEMMA StageAgeStep == TypeOK /\ StageAgeInv /\ [Next]_vars => StageAgeInv'
<1> SUFFICES ASSUME TypeOK, StageAgeInv, [Next]_vars, TimeLimits,
                    NEW u \in Tasks
             PROVE  /\ age'[u] <= HardLimit
                    /\ pc'[u] \in Computing => rowAge' <= age'[u]
  BY DEF StageAgeInv
<1> USE BoundsAssumption, LimitBelowCutoff
<1>0. /\ age[u] \in Nat /\ rowAge \in Nat /\ pc \in [Tasks -> PCs]
      /\ age \in [Tasks -> Nat]
      /\ Computing \subseteq Executing
      /\ age[u] <= HardLimit
      /\ pc[u] \in Computing => rowAge <= age[u]
  BY DEF TypeOK, StageAgeInv, Computing, Executing
<1> USE <1>0
<1>1. ASSUME NEW r \in Requests, RequestStep(r)
      PROVE  /\ age'[u] <= HardLimit
             /\ pc'[u] \in Computing => rowAge' <= age'[u]
  <2>1. /\ age' = age
        /\ pc'[u] = pc[u] \/ pc'[u] = "ready"
        /\ rowAge' = rowAge \/ rowAge' = 0
    BY <1>1 DEF RequestStep, ExecuteLock, ExecuteCommit, Dispatch, DispatchFail,
                RevertDispatch, ApiCrash, rowVars, taskVars
  <2>2. QED BY <2>1 DEF Computing
<1>2. ASSUME NEW t \in Tasks, TaskStep(t) \/ FaultStep(t)
      PROVE  /\ age'[u] <= HardLimit
             /\ pc'[u] \in Computing => rowAge' <= age'[u]
  <2>1. CASE u # t
    <3>1. /\ age'[u] = age[u]
          /\ pc'[u] = pc[u] \/ pc'[u] = "ready"
          /\ rowAge' = rowAge \/ rowAge' = 0
      BY <1>2, <2>1 DEF TaskStep, FaultStep, StartTask, LoadRun, MarkStageRunning,
        SaveResults, JoinResults, InsertBatch, StartEcl, UploadWorkbooks,
        MarkStageComplete, CompleteRun, Notify, Ack, MarkRunFailed,
        MarkRunFailedStandalone, LoseFailureMark, Raise, WorkerLost, HardKill,
        FailRun, AtomicStageUpdate, Goto, EndProcess, rowVars
    <3>2. QED BY <3>1 DEF Computing
  <2>2. CASE u = t
    <3>1. CASE StartTask(t)
      <4>1. age'[u] = age[u] /\ pc'[u] = "started"
        BY <2>2, <3>1 DEF StartTask, Goto
      <4>2. QED BY <4>1 DEF Computing
    <3>2. CASE LoadRun(t) \/ Notify(t)
      BY <2>2, <3>2 DEF LoadRun, Notify, Goto, Executing, Computing, rowVars
    <3>3. CASE \/ MarkStageRunning(t) \/ StartEcl(t) \/ MarkStageComplete(t)
               \/ CompleteRun(t) \/ MarkRunFailed(t)
      <4>1. age' = age /\ rowAge' = 0 /\ pc[t] \in Executing
        BY <3>3 DEF MarkStageRunning, StartEcl, MarkStageComplete, CompleteRun,
                    MarkRunFailed, FailRun, AtomicStageUpdate, Executing
      <4>2. QED BY <4>1, <2>2
    <3>4. CASE SaveResults(t) \/ JoinResults(t) \/ InsertBatch(t) \/ UploadWorkbooks(t)
               \/ Raise(t)
      <4>1. /\ age' = age /\ rowAge' = rowAge
            /\ pc[t] \in Computing \/ pc'[t] = "escaped"
        BY <3>4 DEF SaveResults, JoinResults, InsertBatch, UploadWorkbooks, Raise,
                    Goto, Computing, rowVars
      <4>2. QED BY <4>1, <2>2 DEF Computing
    <3>5. CASE \/ Ack(t) \/ MarkRunFailedStandalone(t) \/ WorkerLost(t) \/ HardKill(t)
      <4>1. pc'[t] \in {"succeeded", "dead", "ready"} /\ age'[t] = 0
        BY <3>5 DEF Ack, MarkRunFailedStandalone, WorkerLost, HardKill, Goto, EndProcess
      <4>2. QED BY <4>1, <2>2 DEF Computing
    <3>6. CASE LoseFailureMark(t)
      BY <2>2, <3>6 DEF LoseFailureMark, Goto, EndProcess, Computing, rowVars
    <3>7. QED BY <1>2, <3>1, <3>2, <3>3, <3>4, <3>5, <3>6 DEF TaskStep, FaultStep
  <2>3. QED BY <2>1, <2>2
<1>3. CASE DeleteRun \/ RecoverStuckRuns
  BY <1>3 DEF DeleteRun, RecoverStuckRuns, UpdateRow, taskVars
<1>4. CASE Tick
  BY <1>4 DEF Tick, ExecutingTasks
<1>5. CASE UNCHANGED vars
  BY <1>5 DEF vars, rowVars, taskVars
<1>6. QED BY <1>1, <1>2, <1>3, <1>4, <1>5 DEF Next

\* One solo worker: a free slot means that nothing executes.
LEMMA SoloIdle == Slots = 1 /\ FreeSlot => ExecutingTasks = {}
<1>1. IsFiniteSet(Gens) /\ IsFiniteSet(Kinds)
  <2>1. IsFiniteSet(Gens)
    BY FS_Interval, BoundsAssumption DEF Gens
  <2>2. IsFiniteSet({"pd"}) /\ IsFiniteSet({"pd"} \cup {"lgd"})
    BY FS_Singleton, FS_AddElement
  <2>3. IsFiniteSet(({"pd"} \cup {"lgd"}) \cup {"ead"})
    BY <2>2, FS_AddElement
  <2>4. Kinds = ({"pd"} \cup {"lgd"}) \cup {"ead"}
    OBVIOUS
  <2>5. QED BY <2>1, <2>3, <2>4
<1>2. IsFiniteSet(Tasks)
  BY <1>1, FS_Product DEF Tasks
<1>3. IsFiniteSet(ExecutingTasks) /\ Cardinality(ExecutingTasks) \in Nat
  BY <1>2, FS_Subset, FS_CardinalityType DEF ExecutingTasks
<1>4. QED
  BY <1>3, FS_EmptySet DEF FreeSlot

\* recover_stuck_runs never declares a timeout over a stage that still computes,
\* when the pool enforces a hard limit below the cutoff (the development worker)
\* or when a single solo worker executes everything (the production Procfile).
THEOREM RecoveryIsSafe ==
  ASSUME TimeLimits \/ Slots = 1
  PROVE  Spec => []RecoveryAfterStagesStopped
<1>1. Init => StageAgeInv
  BY BoundsAssumption DEF Init, StageAgeInv, Computing
<1>2. TypeOK /\ StageAgeInv => RecoveryAfterStagesStopped
  <2> SUFFICES ASSUME TypeOK, StageAgeInv, rowAge >= StuckRunning, FreeSlot,
                      NEW t \in Tasks, pc[t] \in Computing
               PROVE  FALSE
    BY DEF RecoveryAfterStagesStopped
  <2>1. CASE TimeLimits
    BY <2>1, BoundsAssumption, LimitBelowCutoff DEF StageAgeInv, TypeOK
  <2>2. CASE Slots = 1
    BY <2>2, SoloIdle DEF ExecutingTasks, Computing, Executing
  <2>3. QED BY <2>1, <2>2
<1>3. QED BY <1>1, <1>2, StageAgeStep, TypeCorrect, PTL DEF Spec

-----------------------------------------------------------------------------
(* The row lock                                                            *)

\* A request between SELECT ... FOR UPDATE and its commit owns the lock, and
\* what it read of the row is still so.
LockInv ==
  \A r \in Requests : req[r] = "locked" =>
    lock = r /\ ~deleted /\ status \in {"draft", "failed"}

\* The lock is respected: everyone else's update of the row waits for it.
LEMMA LockStep == TypeOK /\ LockInv /\ [Next]_vars => LockInv'
<1> SUFFICES ASSUME TypeOK, LockInv, [Next]_vars, NEW q \in Requests, req'[q] = "locked"
             PROVE  (lock = q /\ ~deleted /\ status \in {"draft", "failed"})'
  BY DEF LockInv
<1> USE NoReqAssumption
<1>0. req \in [Requests -> {"idle", "locked", "committed", "reverting"}]
  BY DEF TypeOK
<1> USE <1>0
<1>1. ASSUME NEW r \in Requests, RequestStep(r)
      PROVE  (lock = q /\ ~deleted /\ status \in {"draft", "failed"})'
  <2>1. CASE ExecuteLock(r)
    BY <2>1 DEF LockInv, ExecuteLock, rowVars
  <2>2. CASE ExecuteCommit(r)
    \* r owned the lock, so q, which is still locked, is not r.
    BY <2>2 DEF LockInv, ExecuteCommit
  <2>3. CASE Dispatch(r) \/ DispatchFail(r)
    BY <2>3 DEF LockInv, Dispatch, DispatchFail, rowVars
  <2>4. CASE RevertDispatch(r)
    BY <2>4 DEF LockInv, RevertDispatch
  <2>5. CASE ApiCrash(r)
    BY <2>5 DEF LockInv, ApiCrash, rowVars
  <2>6. QED BY <1>1, <2>1, <2>2, <2>3, <2>4, <2>5 DEF RequestStep
<1>2. ASSUME NEW t \in Tasks, TaskStep(t) \/ FaultStep(t)
      PROVE  (lock = q /\ ~deleted /\ status \in {"draft", "failed"})'
  <2>1. /\ req' = req /\ lock' = lock /\ deleted' = deleted
        /\ lock # NoReq => status' = status
    BY <1>2 DEF TaskStep, FaultStep, StartTask, LoadRun, MarkStageRunning,
        SaveResults, JoinResults, InsertBatch, StartEcl, UploadWorkbooks,
        MarkStageComplete, CompleteRun, Notify, Ack, MarkRunFailed,
        MarkRunFailedStandalone, LoseFailureMark, Raise, WorkerLost, HardKill,
        FailRun, AtomicStageUpdate, rowVars, reqVars
  <2>2. QED BY <2>1 DEF LockInv
<1>3. CASE DeleteRun \/ RecoverStuckRuns
  BY <1>3 DEF LockInv, DeleteRun, RecoverStuckRuns, UpdateRow, reqVars
<1>4. CASE Tick
  BY <1>4 DEF LockInv, Tick, reqVars
<1>5. CASE UNCHANGED vars
  BY <1>5 DEF LockInv, vars, rowVars, reqVars
<1>6. QED BY <1>1, <1>2, <1>3, <1>4, <1>5 DEF Next

\* Execute clicked twice queues a run once: whenever an execution is counted,
\* the row was draft or failed at that moment.
THEOREM QueuesOnlyIdleRuns == Spec => QueuedOnlyWhenIdle
<1>1. Init => LockInv
  BY DEF Init, LockInv
<1>2. TypeOK /\ LockInv /\ [Next]_vars
        => [execNo' # execNo => status \in {"draft", "failed"}]_vars
  <2> SUFFICES ASSUME TypeOK, LockInv, Next, execNo' # execNo
               PROVE  status \in {"draft", "failed"}
    OBVIOUS
  <2>1. \A t \in Tasks : TaskStep(t) \/ FaultStep(t) => execNo' = execNo
    BY DEF TaskStep, FaultStep, StartTask, LoadRun, MarkStageRunning,
        SaveResults, JoinResults, InsertBatch, StartEcl, UploadWorkbooks,
        MarkStageComplete, CompleteRun, Notify, Ack, MarkRunFailed,
        MarkRunFailedStandalone, LoseFailureMark, Raise, WorkerLost, HardKill, reqVars
  <2>2. ~DeleteRun /\ ~RecoverStuckRuns /\ ~Tick
    BY DEF DeleteRun, RecoverStuckRuns, Tick, reqVars
  <2>3. PICK r \in Requests : RequestStep(r)
    BY <2>1, <2>2 DEF Next
  <2>4. ExecuteCommit(r)
    BY <2>3 DEF RequestStep, ExecuteLock, Dispatch, DispatchFail, RevertDispatch, ApiCrash
  <2>5. QED BY <2>4 DEF ExecuteCommit, LockInv
<1>3. QED BY <1>1, <1>2, LockStep, TypeCorrect, PTL DEF Spec, QueuedOnlyWhenIdle

-----------------------------------------------------------------------------
(* What a complete run holds                                               *)

\* The task of kind k of the current execution.
Cur(k) == <<execNo, k>>

InFlight(r) == req[r] \in {"committed", "reverting"}

\* Control states in which the EAD task has not started to compute (again),
\* or has left the computation.
Outside == {"ready", "started", "loaded", "notifying", "returned", "succeeded",
            "raised_ecl", "escaped", "dead"}

\* Only the current execution has live tasks, and at most one request is
\* between its commit and the end of its dispatch.
OneExecution ==
  /\ \A t \in Tasks : t[1] # execNo => ~Live(t)
  /\ \A t \in Tasks : t[1] > execNo => pc[t] = "none" /\ batch[t] = 0
  /\ \A r \in Requests : InFlight(r) => execNo > 0 /\ reqGen[r] = execNo
  /\ \A r1, r2 \in Requests : InFlight(r1) /\ InFlight(r2) => r1 = r2

\* How far the current chord can be: the EAD task is published only after both
\* header tasks succeeded, and nothing is computed while the run is still queued or
\* already a draft again.
ChordOrder ==
  execNo > 0 =>
    /\ pc[Cur("ead")] # "none" => \A k \in Header : pc[Cur(k)] = "succeeded"
    /\ \A r \in Requests : req[r] = "committed" =>
         status # "draft" /\ \A k \in Kinds : pc[Cur(k)] = "none"
    /\ status \in {"queued", "draft"} =>
         /\ \A s \in Stages : progress[s] = "pending"
         /\ \A k \in Kinds : pc[Cur(k)] \in {"none", "ready", "started", "loaded",
                                              "escaped", "dead"}

\* What a header task has stored at each point.
HeaderStored ==
  \A k \in Header :
    /\ progress[k] = "complete" => results[k]
    /\ execNo > 0 =>
         /\ pc[Cur(k)] = "saved" => results[k]
         /\ pc[Cur(k)] \in {"returned", "succeeded"} => progress[k] = "complete"
         /\ pc[Cur(k)] \in PCs \ {"inserting", "inserted", "totalled", "uploaded",
                                  "ead_done", "notifying", "raised_ecl"}

\* What the EAD task has stored at each point, and what it remembers.
EadStored ==
  /\ execNo = 0 => eadRows = 0 /\ artifacts = 0 /\ status \in {"draft", "deleted"}
  /\ execNo > 0 =>
     LET t == Cur("ead") IN
     /\ pc[t] # "saved"
     /\ pc[t] = "none" => eadRows = 0 /\ artifacts = 0
     /\ pc[t] \notin {"inserting", "inserted", "totalled", "uploaded", "ead_done",
                      "notifying", "returned", "raised", "raised_ecl", "escaped"}
          => batch[t] = 0
     /\ pc[t] = "inserting" => batch[t] < Batches /\ eadRows >= batch[t]
     /\ pc[t] = "inserted" => eadRows > 0
     /\ pc[t] \in {"totalled", "uploaded", "ead_done"} => sum[t] = eadRows /\ eadRows > 0
     /\ pc[t] = "ead_done" => progress["ead"] = "complete"
     /\ status = "complete" => pc[t] \in Outside
     /\ losses = 0 =>
          /\ pc[t] \in {"ready", "started", "loaded", "running"} =>
               status # "complete" /\ eadRows = 0 /\ artifacts = 0
          /\ pc[t] = "inserting" => eadRows = batch[t] /\ artifacts = 0
          /\ pc[t] \in {"inserted", "totalled"} => eadRows = Batches /\ artifacts = 0
          /\ pc[t] \in {"uploaded", "ead_done"} => eadRows = Batches /\ artifacts = 1

PipelineInv ==
  ~overlapped =>
    /\ OneExecution /\ ChordOrder /\ HeaderStored /\ EadStored
    /\ CompleteRunIsWhole /\ OneComputation

\* Steps of the tasks.  Only the tasks of the current execution are live, so
\* the step is one of Cur("pd"), Cur("lgd") and Cur("ead").
LEMMA PipelineTaskStep ==
  ASSUME TypeOK, PipelineInv, ~overlapped, NEW t \in Tasks, TaskStep(t) \/ FaultStep(t)
  PROVE  PipelineInv'
<1> USE BoundsAssumption
<1>1. /\ Live(t)
      /\ execNo' = execNo /\ req' = req /\ reqGen' = reqGen /\ overlapped' = overlapped
  BY DEF TaskStep, FaultStep, StartTask, LoadRun, MarkStageRunning,
     SaveResults, JoinResults, InsertBatch, StartEcl, UploadWorkbooks,
     MarkStageComplete, CompleteRun, Notify, Ack, MarkRunFailed,
     MarkRunFailedStandalone, LoseFailureMark, Raise, WorkerLost, HardKill, reqVars,
     Live, Executing
<1>2. /\ OneExecution /\ ChordOrder /\ HeaderStored /\ EadStored
      /\ CompleteRunIsWhole /\ OneComputation
  BY DEF PipelineInv
<1>3. /\ execNo \in Nat /\ execNo > 0 /\ t[2] \in Kinds /\ t = <<execNo, t[2]>>
      /\ \A k \in Kinds : <<execNo, k>> \in Tasks
  BY <1>1, <1>2 DEF OneExecution, TypeOK, Tasks, Gens
<1>4. OneExecution'
  <2>1. \A u \in Tasks : u[1] # execNo => pc'[u] = pc[u] /\ batch'[u] = batch[u]
    BY <1>3 DEF TypeOK, TaskStep, FaultStep, StartTask, LoadRun, MarkStageRunning,
     SaveResults, JoinResults, InsertBatch, StartEcl, UploadWorkbooks,
     MarkStageComplete, CompleteRun, Notify, Ack, MarkRunFailed,
     MarkRunFailedStandalone, LoseFailureMark, Raise, WorkerLost, HardKill, Goto, EndProcess
  <2>2. QED BY <1>1, <1>2, <1>3, <2>1 DEF OneExecution, InFlight, Live, TypeOK, Tasks, Gens
<1> SUFFICES (ChordOrder /\ HeaderStored /\ EadStored /\ CompleteRunIsWhole /\ OneComputation)'
  BY <1>4 DEF PipelineInv
<1> USE <1>1, <1>2, <1>3 DEF TypeOK, ChordOrder, HeaderStored, EadStored,
        CompleteRunIsWhole, OneComputation, Cur, Outside, Goto, rowVars, resultVars, reqVars
<1>5. CASE StartTask(t)
  <2>1. ChordOrder'
    BY <1>5 DEF StartTask
  <2>2. HeaderStored'
    BY <1>5 DEF StartTask, PCs, Executing
  <2>3. EadStored'
    BY <1>5 DEF StartTask
  <2>4. (CompleteRunIsWhole /\ OneComputation)'
    BY <1>5 DEF StartTask
  <2>5. QED BY <2>1, <2>2, <2>3, <2>4
<1>6. CASE LoadRun(t)
  <2>1. ChordOrder'
    BY <1>6 DEF LoadRun, SkipStage
  <2>2. HeaderStored'
    BY <1>6 DEF LoadRun, SkipStage, PCs, Executing
  <2>3. EadStored'
    BY <1>6 DEF LoadRun, SkipStage
  <2>4. (CompleteRunIsWhole /\ OneComputation)'
    BY <1>6 DEF LoadRun, SkipStage
  <2>5. QED BY <2>1, <2>2, <2>3, <2>4
<1>7. CASE MarkStageRunning(t)
  <2>1. ChordOrder'
    BY <1>7 DEF MarkStageRunning, AtomicStageUpdate, RunningStatus
  <2>2. HeaderStored'
    BY <1>7 DEF MarkStageRunning, AtomicStageUpdate, RunningStatus, PCs, Executing
  <2>3. EadStored'
    BY <1>7 DEF MarkStageRunning, AtomicStageUpdate, RunningStatus
  <2>4. (CompleteRunIsWhole /\ OneComputation)'
    BY <1>7 DEF MarkStageRunning, AtomicStageUpdate, RunningStatus
  <2>5. QED BY <2>1, <2>2, <2>3, <2>4
<1>8. CASE SaveResults(t)
  <2>1. ChordOrder'
    BY <1>8 DEF SaveResults
  <2>2. HeaderStored'
    BY <1>8 DEF SaveResults, PCs, Executing
  <2>3. EadStored'
    BY <1>8 DEF SaveResults
  <2>4. (CompleteRunIsWhole /\ OneComputation)'
    BY <1>8 DEF SaveResults
  <2>5. QED BY <2>1, <2>2, <2>3, <2>4
<1>9. CASE JoinResults(t)
  BY <1>9 DEF JoinResults, PCs
<1>10. CASE InsertBatch(t)
  BY <1>10 DEF InsertBatch, LastBatch, PCs
<1>11. CASE StartEcl(t)
  BY <1>11 DEF StartEcl, AtomicStageUpdate, PCs
<1>12. CASE UploadWorkbooks(t)
  BY <1>12 DEF UploadWorkbooks, PCs
<1>13. CASE MarkStageComplete(t)
  <2>1. ChordOrder'
    BY <1>13 DEF MarkStageComplete, AtomicStageUpdate
  <2>2. HeaderStored'
    BY <1>13 DEF MarkStageComplete, AtomicStageUpdate, PCs, Executing
  <2>3. EadStored'
    BY <1>13 DEF MarkStageComplete, AtomicStageUpdate
  <2>4. (CompleteRunIsWhole /\ OneComputation)'
    BY <1>13 DEF MarkStageComplete, AtomicStageUpdate
  <2>5. QED BY <2>1, <2>2, <2>3, <2>4
<1>14. CASE CompleteRun(t)
  BY <1>14 DEF CompleteRun, AtomicStageUpdate, StoredTotal, PCs
<1>15. CASE Notify(t)
  BY <1>15 DEF Notify, PCs
<1>16. CASE Ack(t)
  <2>0. status # "queued" /\ (\A r \in Requests : req[r] # "committed")
    BY <1>16 DEF Ack
  <2>1. ChordOrder'
    BY <1>16, <2>0, SMTT(40) DEF Ack, EndProcess
  <2>2. (HeaderStored /\ EadStored)'
    BY <1>16 DEF Ack, EndProcess, PCs
  <2>3. (CompleteRunIsWhole /\ OneComputation)'
    BY <1>16 DEF Ack, EndProcess
  <2>4. QED BY <2>1, <2>2, <2>3
<1>17. CASE MarkRunFailed(t)
  <2>1. ChordOrder'
    BY <1>17 DEF MarkRunFailed, FailRun, AtomicStageUpdate
  <2>2. HeaderStored'
    BY <1>17 DEF MarkRunFailed, FailRun, AtomicStageUpdate, PCs, Executing
  <2>3. EadStored'
    BY <1>17 DEF MarkRunFailed, FailRun, AtomicStageUpdate
  <2>4. (CompleteRunIsWhole /\ OneComputation)'
    BY <1>17 DEF MarkRunFailed, FailRun, AtomicStageUpdate
  <2>5. QED BY <2>1, <2>2, <2>3, <2>4
<1>18. CASE MarkRunFailedStandalone(t)
  BY <1>18 DEF MarkRunFailedStandalone, FailRun, AtomicStageUpdate, EndProcess, PCs
<1>19. CASE LoseFailureMark(t)
  <2>1. ChordOrder'
    BY <1>19 DEF LoseFailureMark, EndProcess
  <2>2. HeaderStored'
    BY <1>19 DEF LoseFailureMark, EndProcess, PCs, Executing
  <2>3. EadStored'
    BY <1>19 DEF LoseFailureMark, EndProcess
  <2>4. (CompleteRunIsWhole /\ OneComputation)'
    BY <1>19 DEF LoseFailureMark, EndProcess
  <2>5. QED BY <2>1, <2>2, <2>3, <2>4
<1>20. CASE Raise(t)
  <2>1. ChordOrder'
    BY <1>20 DEF Raise
  <2>2. HeaderStored'
    BY <1>20 DEF Raise, PCs, Executing
  <2>3. EadStored'
    BY <1>20 DEF Raise
  <2>4. (CompleteRunIsWhole /\ OneComputation)'
    BY <1>20 DEF Raise
  <2>5. QED BY <2>1, <2>2, <2>3, <2>4
<1>21. CASE WorkerLost(t)
  BY <1>21 DEF WorkerLost, EndProcess, Executing, PCs
<1>22. CASE HardKill(t)
  BY <1>22 DEF HardKill, EndProcess, Executing, PCs
<1>23. QED
  BY <1>5, <1>6, <1>7, <1>8, <1>9, <1>10, <1>11, <1>12, <1>13, <1>14, <1>15, <1>16, <1>17, <1>18, <1>19, <1>20, <1>21, <1>22 DEF TaskStep, FaultStep

\* Steps of the requests, of the recovery and of time.
LEMMA PipelineStep ==
  TypeOK /\ LockInv /\ PipelineInv /\ [Next]_vars => PipelineInv'
<1> SUFFICES ASSUME TypeOK, LockInv, PipelineInv, [Next]_vars, ~overlapped'
             PROVE  PipelineInv'
  BY DEF PipelineInv
<1> USE BoundsAssumption
<1>0. ~overlapped
  <2>1. \A t \in Tasks : TaskStep(t) \/ FaultStep(t) => overlapped' = overlapped
    BY DEF TaskStep, FaultStep, StartTask, LoadRun, MarkStageRunning,
     SaveResults, JoinResults, InsertBatch, StartEcl, UploadWorkbooks,
     MarkStageComplete, CompleteRun, Notify, Ack, MarkRunFailed,
     MarkRunFailedStandalone, LoseFailureMark, Raise, WorkerLost, HardKill, reqVars
  <2>2. \A r \in Requests : RequestStep(r) => overlapped' = overlapped \/ ~overlapped
    BY DEF RequestStep, ExecuteLock, ExecuteCommit, Dispatch, DispatchFail,
           RevertDispatch, ApiCrash
  <2>3. QED
    BY <2>1, <2>2 DEF Next, DeleteRun, RecoverStuckRuns, Tick, vars, reqVars
<1>1. /\ OneExecution /\ ChordOrder /\ HeaderStored /\ EadStored
      /\ CompleteRunIsWhole /\ OneComputation
  BY <1>0 DEF PipelineInv
<1>2. /\ execNo \in Nat
      /\ execNo > 0 => \A k \in Kinds : <<execNo, k>> \in Tasks
  BY DEF TypeOK, Tasks, Gens
<1>3. ASSUME NEW t \in Tasks, TaskStep(t) \/ FaultStep(t) PROVE PipelineInv'
  BY <1>0, <1>3, PipelineTaskStep
<1>4. ASSUME NEW r \in Requests, ExecuteCommit(r) PROVE PipelineInv'
  \* The new execution starts from nothing: no old task is live, its own tasks
  \* are unpublished, and the results were cleared or never existed.
  <2>1. /\ status \in {"draft", "failed"}
        /\ \A t \in Tasks : ~Live(t)
        /\ \A q \in Requests : req'[q] \in {"committed", "reverting"} => q = r
        /\ execNo' = execNo + 1 /\ execNo + 1 \in Gens
        /\ pc' = pc /\ batch' = batch
        /\ reqGen'[r] = execNo + 1 /\ req'[r] = "committed"
    BY <1>0, <1>2, <1>4 DEF ExecuteCommit, LockInv, TypeOK, Gens, taskVars
  <2>2. \A k \in Kinds : <<execNo + 1, k>> \in Tasks /\ pc[<<execNo + 1, k>>] = "none"
    BY <1>1, <1>2, <2>1 DEF OneExecution, Tasks
  <2>3. status = "draft" => eadRows = 0 /\ artifacts = 0
    BY <1>1, <1>2 DEF ChordOrder, EadStored, Cur
  <2>4. OneExecution'
    BY <1>1, <1>2, <2>1 DEF OneExecution, InFlight, Live, Tasks, Gens
  <2>5. ChordOrder'
    BY <1>4, <1>2, <2>1, <2>2 DEF ChordOrder, Cur, ExecuteCommit, QueuedProgress, NoProgress
  <2>6. HeaderStored'
    BY <1>4, <1>2, <2>1, <2>2
       DEF HeaderStored, Cur, ExecuteCommit, QueuedProgress, NoProgress, PCs
  <2>7. EadStored'
    <3>1. eadRows' = 0 /\ artifacts' = 0 /\ status' = "queued" /\ batch' = batch
      BY <1>4, <2>1, <2>3 DEF ExecuteCommit, ClearsResults, taskVars
    <3>2. batch[<<execNo + 1, "ead">>] = 0
      BY <1>1, <1>2, <2>1, <2>2 DEF OneExecution, Tasks
    <3>3. QED BY <1>2, <2>1, <2>2, <3>1, <3>2 DEF EadStored, Cur
  <2>8. (CompleteRunIsWhole /\ OneComputation)'
    BY <1>4 DEF ExecuteCommit, CompleteRunIsWhole, OneComputation
  <2>9. QED BY <2>4, <2>5, <2>6, <2>7, <2>8 DEF PipelineInv
<1>5. ASSUME NEW r \in Requests, Dispatch(r) \/ DispatchFail(r) PROVE PipelineInv'
  <2>1. /\ reqGen[r] = execNo /\ execNo > 0
        /\ status # "draft" /\ \A k \in Kinds : pc[<<execNo, k>>] = "none"
        /\ \A q \in Requests : InFlight(q) => q = r
    BY <1>1, <1>5 DEF Dispatch, DispatchFail, OneExecution, InFlight, ChordOrder, Cur
  <2>2. PICK sent \in SUBSET Header :
          pc' = [t \in Tasks |-> IF t[1] = execNo /\ t[2] \in sent THEN "ready" ELSE pc[t]]
    <3>1. CASE Dispatch(r)
      BY <2>1, <3>1 DEF Dispatch
    <3>2. CASE DispatchFail(r)
      BY <2>1, <3>2 DEF DispatchFail
    <3>3. QED BY <1>5, <3>1, <3>2
  <2>3. /\ UNCHANGED <<rowVars, resultVars, execNo, reqGen, batch, sum, losses>>
        /\ \A q \in Requests \ {r} : req'[q] = req[q]
        /\ req'[r] = IF Dispatch(r) THEN "idle" ELSE "reverting"
    BY <1>5 DEF Dispatch, DispatchFail, TypeOK
  <2>4. OneExecution'
    <3>1. \A t \in Tasks : t[1] # execNo => pc'[t] = pc[t]
      BY <2>2
    <3>2. \A t \in Tasks : t[1] > execNo => t[1] # execNo
      BY <1>2 DEF Tasks, Gens
    <3>3. QED BY <1>1, <2>1, <2>3, <3>1, <3>2 DEF OneExecution, InFlight, Live
  <2>5. ChordOrder'
    BY <1>1, <1>2, <2>1, <2>2, <2>3 DEF ChordOrder, Cur, InFlight, rowVars
  <2>6. (HeaderStored /\ EadStored)'
    BY <1>1, <1>2, <2>1, <2>2, <2>3
       DEF HeaderStored, EadStored, Cur, PCs, rowVars, resultVars
  <2>7. (CompleteRunIsWhole /\ OneComputation)'
    BY <1>0, <1>1, <2>3 DEF CompleteRunIsWhole, OneComputation, rowVars, resultVars
  <2>8. QED BY <2>4, <2>5, <2>6, <2>7 DEF PipelineInv
<1>6. ASSUME NEW r \in Requests, RevertDispatch(r) PROVE PipelineInv'
  \* A queued run has no task that has computed anything, so the progress that
  \* is reset was pending everywhere.
  <2>1. /\ UNCHANGED <<resultVars, taskVars, execNo, reqGen>>
        /\ req[r] = "reverting" /\ req' = [req EXCEPT ![r] = "idle"]
        /\ InFlight(r) /\ execNo > 0
        /\ \A s \in Stages : progress'[s] = progress[s]
        /\ status' = status \/ (status = "queued" /\ status' = "draft")
    BY <1>1, <1>6 DEF RevertDispatch, ChordOrder, OneExecution, InFlight, NoProgress
  <2>2. OneExecution'
    BY <1>1, <2>1 DEF OneExecution, InFlight, Live, taskVars, TypeOK
  <2>3. ChordOrder'
    <3>1. \A q \in Requests : req'[q] # "committed"
      BY <1>1, <2>1 DEF OneExecution, InFlight, TypeOK
    <3>2. QED BY <1>1, <2>1, <3>1 DEF ChordOrder, Cur, taskVars, TypeOK
  <2>4. (HeaderStored /\ EadStored)'
    BY <1>1, <1>2, <2>1 DEF HeaderStored, EadStored, Cur, resultVars, taskVars
  <2>5. (CompleteRunIsWhole /\ OneComputation)'
    BY <1>0, <1>1, <1>6, <2>1 DEF RevertDispatch, CompleteRunIsWhole, OneComputation, resultVars, taskVars
  <2>6. QED BY <2>2, <2>3, <2>4, <2>5 DEF PipelineInv
<1>7. ASSUME NEW r \in Requests, ExecuteLock(r) \/ ApiCrash(r) PROVE PipelineInv'
  <2>1. /\ UNCHANGED <<rowVars, resultVars, taskVars, execNo, reqGen, overlapped>>
        /\ \A q \in Requests \ {r} : req'[q] = req[q]
        /\ req'[r] \in {"idle", "locked"}
    BY <1>7 DEF ExecuteLock, ApiCrash, TypeOK
  <2>2. QED
    BY <1>0, <1>1, <1>2, <2>1 DEF PipelineInv, OneExecution, ChordOrder, HeaderStored, EadStored,
      CompleteRunIsWhole, OneComputation, InFlight, Live, Cur, rowVars, resultVars, taskVars
<1>8. CASE DeleteRun \/ RecoverStuckRuns
  <2>1. /\ UNCHANGED <<progress, resultVars, reqVars, taskVars>>
        /\ status' \in {"failed", "deleted"}
        /\ status \in Active \/ status' = "deleted"
    BY <1>8 DEF DeleteRun, RecoverStuckRuns, UpdateRow, StuckStage, Active
  <2>2. QED
    BY <1>0, <1>1, <1>2, <2>1 DEF PipelineInv, OneExecution, ChordOrder, HeaderStored,
      EadStored, CompleteRunIsWhole, OneComputation, InFlight, Live, Cur, Active, Running,
      resultVars, reqVars, taskVars
<1>9. CASE Tick \/ UNCHANGED vars
  BY <1>0, <1>1, <1>2, <1>9 DEF Tick, vars, PipelineInv,
     OneExecution, ChordOrder, HeaderStored, EadStored, CompleteRunIsWhole,
     OneComputation, InFlight, Live, Cur, rowVars, resultVars, reqVars, taskVars
<1>10. QED
  BY <1>3, <1>4, <1>5, <1>6, <1>7, <1>8, <1>9 DEF Next, RequestStep

LEMMA PipelineInvariant == Spec => [](TypeOK /\ LockInv /\ PipelineInv)
<1>1. Init => LockInv /\ PipelineInv
  BY DEF Init, LockInv, PipelineInv, OneExecution, ChordOrder, HeaderStored, EadStored,
         CompleteRunIsWhole, OneComputation, InFlight, Live, Executing, NoProgress, Tasks
<1>2. QED BY <1>1, TypeCorrect, LockStep, PipelineStep, PTL DEF Spec

\* engine_progress says complete only where the stage's result rows exist, so
\* that a redelivered task may skip its stage.
THEOREM CompleteStagesAreStored == Spec => []StageCompleteHasResults
<1>1. PipelineInv => StageCompleteHasResults
  BY DEF PipelineInv, HeaderStored, StageCompleteHasResults
<1>2. QED BY <1>1, PipelineInvariant, PTL

\* The EAD task joins rows of both header stages.
THEOREM JoinIsSound == Spec => []EadJoinsBothStages
<1>1. TypeOK /\ PipelineInv => EadJoinsBothStages
  <2> SUFFICES ASSUME TypeOK, PipelineInv, ~overlapped,
                      NEW t \in Tasks, t[2] = "ead", Live(t), NEW k \in Header
               PROVE  results[k] /\ progress[k] = "complete"
    BY DEF EadJoinsBothStages
  <2>1. t = Cur("ead") /\ execNo > 0
    BY BoundsAssumption DEF PipelineInv, OneExecution, Tasks, Gens, Cur, TypeOK
  <2>2. pc[Cur(k)] = "succeeded"
    BY <2>1 DEF PipelineInv, ChordOrder, Live, Executing
  <2>3. QED BY <2>1, <2>2 DEF PipelineInv, HeaderStored
<1>2. QED BY <1>1, PipelineInvariant, PTL

\* A complete run has four complete stages and the total of its stored rows.
THEOREM CompleteRunsAreSound == Spec => []CompleteRunIsWhole
<1>1. PipelineInv => CompleteRunIsWhole
  BY DEF PipelineInv, CompleteRunIsWhole
<1>2. QED BY <1>1, PipelineInvariant, PTL

\* Without lost workers a complete run holds the rows and workbooks of exactly
\* one computation.
THEOREM CompleteRunsComputeOnce == Spec => []OneComputation
<1>1. PipelineInv => OneComputation
  BY DEF PipelineInv, OneComputation
<1>2. QED BY <1>1, PipelineInvariant, PTL

=============================================================================
