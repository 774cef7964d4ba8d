---------------------------- MODULE RunPipeline ----------------------------
(***************************************************************************)
(* The life of ONE run: the row of table `runs`, the result tables, the    *)
(* Celery chord  group(pd_task, lgd_task) | ead_ecl_task  that computes    *)
(* it, the API requests that execute and delete it, and the beat job that  *)
(* recovers it when it is stuck.                                           *)
(*                                                                         *)
(*   execute_run / router      lock the row, queue the run, commit, then   *)
(*                             publish the chord (or revert to draft)      *)
(*   pd_task, lgd_task         header of the chord, may run concurrently   *)
(*   ead_ecl_task              callback, published when both succeeded     *)
(*   recover_stuck_runs        marks queued / running runs failed by age   *)
(*                                                                         *)
(* Every committed statement on the database is one step.  A worker may be *)
(* lost between any two of them: tasks are acknowledged late, so the broker*)
(* delivers the message again.                                             *)
(*                                                                         *)
(* Constants                                                               *)
(*   Requests      API requests that may call the execute endpoint         *)
(*   MaxExec       bound: how often the run may be queued                  *)
(*   MaxLoss       bound: how many workers may be lost                     *)
(*   Faulty        the stages whose computation may raise                  *)
(*   Batches       how many 5000-row batches the EAD insert takes          *)
(*   Slots         tasks that execute at the same time, over all workers   *)
(*   TimeLimits    does the worker pool enforce task time limits (the      *)
(*                 prefork pool does, the solo pool does not)              *)
(*   HardLimit, StuckQueued, StuckRunning                                  *)
(*                 task_time_limit and the two cutoffs of the recovery     *)
(*                 job, in clock ticks (2400 s, 10 min and 45 min)         *)
(***************************************************************************)
EXTENDS Naturals, FiniteSets

CONSTANTS Requests, MaxExec, MaxLoss, Faulty, Batches, Slots, TimeLimits,
          HardLimit, StuckQueued, StuckRunning

Header == {"pd", "lgd"}
Kinds  == {"pd", "lgd", "ead"}
Stages == {"pd", "lgd", "ead", "ecl"}

ASSUME BoundsAssumption ==
  /\ MaxExec \in Nat /\ MaxLoss \in Nat
  /\ Batches \in Nat \ {0} /\ Slots \in Nat \ {0}
  /\ HardLimit \in Nat /\ StuckQueued \in Nat /\ StuckRunning \in Nat
  /\ TimeLimits \in BOOLEAN
  /\ Faulty \subseteq Stages

\* config.py and cleanup_tasks.py: 2400 s is less than 45 minutes.
ASSUME LimitBelowCutoff == HardLimit < StuckRunning /\ StuckQueued <= StuckRunning

Gens  == 1 .. MaxExec
Tasks == Gens \X Kinds

NoReq  == "none"
NoStage == "none"

ASSUME NoReqAssumption == NoReq \notin Requests

RunStatus == {"draft", "queued", "pd_running", "lgd_running", "ead_running",
              "complete", "failed", "deleted"}

Running == {"pd_running", "lgd_running", "ead_running"}
Active  == {"queued"} \cup Running

\* _mark_stage_running: the run status that goes with each stage.
RunningStatus == [k \in Kinds |-> CASE k = "pd"  -> "pd_running"
                                    [] k = "lgd" -> "lgd_running"
                                    [] k = "ead" -> "ead_running"]

StageStatus == {"pending", "running", "complete", "error"}

VARIABLES
  status,       \* runs.status
  deleted,      \* runs.deleted_at IS NOT NULL
  progress,     \* runs.engine_progress, one entry per stage
  failStage,    \* runs.failure_stage
  total,        \* runs.total_ecl: 0 is NULL, else counts EAD batches summed
  rowAge,       \* time since runs.updated_at
  lock,         \* the request holding SELECT ... FOR UPDATE on the row
  results,      \* are there pd_results / lgd_results rows of the run
  eadRows,      \* batches stored in ead_results
  artifacts,    \* sets of workbooks in output_artifacts
  req,          \* control state of the execute requests
  reqGen,       \* the execution a request has queued
  execNo,       \* executions so far
  pc,           \* control state of every task of every execution
  age,          \* how long the task has been executing
  batch,        \* EAD task: batches it has inserted
  sum,          \* EAD task: the SUM it has read back
  losses,       \* workers lost so far
  overlapped    \* history: was an execution queued while a task of an
                \* earlier one could still run

rowVars    == <<status, deleted, progress, failStage, total, rowAge>>
resultVars == <<results, eadRows, artifacts>>
reqVars    == <<lock, req, reqGen, execNo, overlapped>>
taskVars   == <<pc, age, batch, sum, losses>>
vars == <<rowVars, resultVars, reqVars, taskVars>>

-----------------------------------------------------------------------------
(* Control states of a task.  "ready": its message is in the broker.  The  *)
(* executing states name what the task has just done.                      *)

Executing == {"started", "loaded", "running", "inserting", "inserted",
              "totalled", "uploaded", "ead_done", "notifying",
              "saved", "returned", "raised", "raised_ecl", "escaped"}

\* The task has passed _mark_stage_running.
Computing == {"running", "inserting", "inserted", "totalled", "uploaded",
              "ead_done", "notifying", "saved", "raised", "raised_ecl"}

PCs == Executing \cup {"none", "ready", "succeeded", "dead"}

Live(t) == pc[t] \in Executing \cup {"ready"}

ExecutingTasks == {t \in Tasks : pc[t] \in Executing}

FreeSlot == Cardinality(ExecutingTasks) < Slots

NoProgress == [s \in Stages |-> "pending"]

TypeOK ==
  /\ status \in RunStatus /\ deleted \in BOOLEAN
  /\ progress \in [Stages -> StageStatus]
  /\ failStage \in Stages \cup {"queued", "timeout", NoStage}
  /\ total \in Nat /\ rowAge \in 0 .. StuckRunning
  /\ lock \in Requests \cup {NoReq}
  /\ results \in [Header -> BOOLEAN]
  /\ eadRows \in Nat /\ artifacts \in Nat
  /\ req \in [Requests -> {"idle", "locked", "committed", "reverting"}]
  /\ reqGen \in [Requests -> 0 .. MaxExec]
  /\ execNo \in 0 .. MaxExec
  /\ pc \in [Tasks -> PCs]
  /\ age \in [Tasks -> Nat]
  /\ batch \in [Tasks -> Nat]
  /\ sum \in [Tasks -> Nat]
  /\ losses \in 0 .. MaxLoss
  /\ overlapped \in BOOLEAN

Init ==
  /\ status = "draft" /\ deleted = FALSE
  /\ progress = NoProgress /\ failStage = NoStage /\ total = 0
  /\ rowAge = 0 /\ lock = NoReq
  /\ results = [k \in Header |-> FALSE] /\ eadRows = 0 /\ artifacts = 0
  /\ req = [r \in Requests |-> "idle"] /\ reqGen = [r \in Requests |-> 0]
  /\ execNo = 0
  /\ pc = [t \in Tasks |-> "none"] /\ age = [t \in Tasks |-> 0]
  /\ batch = [t \in Tasks |-> 0] /\ sum = [t \in Tasks |-> 0]
  /\ losses = 0 /\ overlapped = FALSE

-----------------------------------------------------------------------------
(* Statements on the row.  Each takes the row lock, so it waits while a    *)
(* request holds it, and each moves updated_at (trigger of migration 0004).*)

\* Mutant: updated_at is moved by the ORM's onupdate only, which the raw
\* UPDATE of the tasks bypasses.
AtomicStageUpdateKeepsAge(stage, value) ==
  /\ lock = NoReq
  /\ progress' = [progress EXCEPT ![stage] = value]
  /\ UNCHANGED rowAge

AtomicStageUpdate(stage, value) ==
  /\ lock = NoReq
  /\ progress' = [progress EXCEPT ![stage] = value]
  /\ rowAge' = 0

UpdateRow ==
  /\ lock = NoReq
  /\ rowAge' = 0

\* Celery acknowledges the message when the task ends; until then the task
\* only moves its control state.
Goto(t, label) == pc' = [pc EXCEPT ![t] = label]

\* The process that executes the task ends, and its local variables with it.
EndProcess(t) ==
  /\ age' = [age EXCEPT ![t] = 0]
  /\ batch' = [batch EXCEPT ![t] = 0]
  /\ sum' = [sum EXCEPT ![t] = 0]

-----------------------------------------------------------------------------
(* API requests                                                            *)

\* Mutant: a plain SELECT instead of SELECT ... FOR UPDATE.
ExecuteLockWithoutLock(r) ==
  /\ req[r] = "idle" /\ lock = NoReq
  /\ ~deleted /\ status \in {"draft", "failed"}
  /\ execNo < MaxExec
  /\ req' = [req EXCEPT ![r] = "locked"]
  /\ UNCHANGED <<rowVars, resultVars, taskVars, lock, reqGen, execNo, overlapped>>

\* execute_run up to its checks: SELECT ... FOR UPDATE; every other status
\* returns or raises without a change.
ExecuteLock(r) ==
  /\ req[r] = "idle" /\ lock = NoReq
  /\ ~deleted /\ status \in {"draft", "failed"}
  /\ execNo < MaxExec
  /\ lock' = r
  /\ req' = [req EXCEPT ![r] = "locked"]
  /\ UNCHANGED <<rowVars, resultVars, taskVars, reqGen, execNo, overlapped>>

\* Mutant: engine_progress is not reset when a run is queued again.
QueuedProgressKept == progress

\* Mutant: the default progress lacks the ecl entry.
QueuedProgressPartial == [s \in Stages \ {"ecl"} |-> "pending"]

\* execute_run: engine_progress = _default_engine_progress().
QueuedProgress == NoProgress

\* Mutant: _clear_run_results is never called.
NeverClearsResults == FALSE

\* Only a failed run has its previous results removed.
ClearsResults == status = "failed"

\* The rest of execute_run and the router's db.commit(), which releases the
\* lock.
ExecuteCommit(r) ==
  /\ req[r] = "locked" /\ execNo < MaxExec
  /\ status' = "queued" /\ progress' = QueuedProgress
  /\ failStage' = NoStage /\ total' = 0 /\ rowAge' = 0
  /\ results' = IF ClearsResults THEN [k \in Header |-> FALSE] ELSE results
  /\ eadRows' = IF ClearsResults THEN 0 ELSE eadRows
  /\ artifacts' = IF ClearsResults THEN 0 ELSE artifacts
  /\ lock' = IF lock = r THEN NoReq ELSE lock
  /\ req' = [req EXCEPT ![r] = "committed"]
  /\ execNo' = execNo + 1 /\ reqGen' = [reqGen EXCEPT ![r] = execNo + 1]
  /\ overlapped' = (\/ overlapped
                    \/ \E t \in Tasks : Live(t)
                    \/ \E r2 \in Requests \ {r} :
                          req[r2] \in {"committed", "reverting"})
  /\ UNCHANGED <<deleted, taskVars>>

\* chord(group(pd_task, lgd_task))(ead_ecl_task) publishes the header.
Dispatch(r) ==
  /\ req[r] = "committed"
  /\ pc' = [t \in Tasks |-> IF t[1] = reqGen[r] /\ t[2] \in Header
                             THEN "ready" ELSE pc[t]]
  /\ req' = [req EXCEPT ![r] = "idle"]
  /\ UNCHANGED <<rowVars, resultVars, lock, reqGen, execNo, overlapped,
                 age, batch, sum, losses>>

\* The publication raises, with any part of the header published: all of it when only the
\* broker's last answer is lost.
DispatchFail(r) ==
  /\ req[r] = "committed"
  /\ \E sent \in SUBSET Header :
       pc' = [t \in Tasks |-> IF t[1] = reqGen[r] /\ t[2] \in sent
                              THEN "ready" ELSE pc[t]]
  /\ req' = [req EXCEPT ![r] = "reverting"]
  /\ UNCHANGED <<rowVars, resultVars, lock, reqGen, execNo, overlapped,
                 age, batch, sum, losses>>

\* revert_run_after_dispatch_failure: only a run that is still queued.
RevertDispatch(r) ==
  /\ req[r] = "reverting" /\ lock = NoReq
  /\ IF status = "queued" /\ ~deleted
       THEN /\ status' = "draft" /\ progress' = NoProgress /\ rowAge' = 0
       ELSE UNCHANGED <<status, progress, rowAge>>
  /\ req' = [req EXCEPT ![r] = "idle"]
  /\ UNCHANGED <<deleted, failStage, total, resultVars, taskVars,
                 lock, reqGen, execNo, overlapped>>

\* The API process dies inside the endpoint; an open transaction is undone.
ApiCrash(r) ==
  /\ req[r] # "idle"
  /\ req' = [req EXCEPT ![r] = "idle"]
  /\ lock' = IF lock = r THEN NoReq ELSE lock
  /\ UNCHANGED <<rowVars, resultVars, taskVars, reqGen, execNo, overlapped>>

\* delete_run has no guard on the status: a running run can be deleted.
DeleteRun ==
  /\ ~deleted
  /\ UpdateRow
  /\ deleted' = TRUE /\ status' = "deleted"
  /\ UNCHANGED <<progress, failStage, total, resultVars, reqVars, taskVars>>

-----------------------------------------------------------------------------
(* Tasks                                                                   *)

\* A worker takes the message.
StartTask(t) ==
  /\ pc[t] = "ready" /\ FreeSlot
  /\ Goto(t, "started")
  /\ UNCHANGED <<rowVars, resultVars, reqVars, age, batch, sum, losses>>

\* Mutant: a stage that has started counts as done.
SkipStageStarted(t) ==
  IF t[2] = "ead" THEN status = "failed" ELSE progress[t[2]] # "pending"

\* pd and lgd return early when their stage is complete, ead when the run
\* has failed.
SkipStage(t) ==
  IF t[2] = "ead" THEN status = "failed" ELSE progress[t[2]] = "complete"

\* _load_run raises for a deleted run, outside the stage's own handler.
LoadRun(t) ==
  /\ pc[t] = "started"
  /\ \/ deleted /\ Goto(t, "escaped")
     \/ ~deleted /\ SkipStage(t) /\ Goto(t, "returned")
     \/ ~deleted /\ ~SkipStage(t) /\ Goto(t, "loaded")
  /\ UNCHANGED <<rowVars, resultVars, reqVars, age, batch, sum, losses>>

\* Neither the status nor deleted_at is looked at again.
MarkStageRunning(t) ==
  /\ pc[t] = "loaded"
  /\ AtomicStageUpdate(t[2], "running")
  /\ status' = RunningStatus[t[2]]
  /\ Goto(t, "running")
  /\ UNCHANGED <<deleted, failStage, total, resultVars, reqVars,
                 age, batch, sum, losses>>

\* pd, lgd: one transaction deletes the old rows and inserts the new ones.
SaveResults(t) ==
  /\ pc[t] = "running" /\ t[2] \in Header
  /\ results' = [results EXCEPT ![t[2]] = TRUE]
  /\ Goto(t, "saved")
  /\ UNCHANGED <<rowVars, eadRows, artifacts, reqVars, age, batch, sum, losses>>

\* ead: joins the stored pd and lgd rows; without pd rows compute_ead raises
\* EC-08, without lgd rows it goes on with a recovery of zero.
JoinResults(t) ==
  /\ pc[t] = "running" /\ t[2] = "ead"
  /\ Goto(t, IF results["pd"] THEN "inserting" ELSE "raised")
  /\ UNCHANGED <<rowVars, resultVars, reqVars, age, batch, sum, losses>>

\* _chunks has no slice left after this one.
LastBatch(t) == batch[t] + 1 = Batches

\* bulk_insert_ead_results: rows are added, nothing is deleted first, and
\* every batch is durable by itself.
InsertBatch(t) ==
  /\ pc[t] = "inserting"
  /\ eadRows' = eadRows + 1
  /\ batch' = [batch EXCEPT ![t] = @ + 1]
  /\ Goto(t, IF LastBatch(t) THEN "inserted" ELSE "inserting")
  /\ UNCHANGED <<rowVars, results, artifacts, reqVars, age, sum, losses>>

\* The ecl entry becomes running; _compute_run_totals sums the stored rows.
StartEcl(t) ==
  /\ pc[t] = "inserted"
  /\ AtomicStageUpdate("ecl", "running")
  /\ sum' = [sum EXCEPT ![t] = eadRows]
  /\ Goto(t, "totalled")
  /\ UNCHANGED <<status, deleted, failStage, total, resultVars, reqVars,
                 age, batch, losses>>

UploadWorkbooks(t) ==
  /\ pc[t] = "totalled"
  /\ artifacts' = artifacts + 1
  /\ Goto(t, "uploaded")
  /\ UNCHANGED <<rowVars, results, eadRows, reqVars, age, batch, sum, losses>>

MarkStageComplete(t) ==
  /\ pc[t] \in {"saved", "uploaded"}
  /\ AtomicStageUpdate(t[2], "complete")
  /\ Goto(t, IF pc[t] = "saved" THEN "returned" ELSE "ead_done")
  /\ UNCHANGED <<status, deleted, failStage, total, resultVars, reqVars,
                 age, batch, sum, losses>>

\* Mutant: the totals of the in-memory frame are stored.
StoredTotalInMemory(t) == batch[t]

\* total_ecl is the sum read back from the database.
StoredTotal(t) == sum[t]

\* The last update of _ead_ecl_main; failure_stage is left as it is.
CompleteRun(t) ==
  /\ pc[t] = "ead_done"
  /\ AtomicStageUpdate("ecl", "complete")
  /\ status' = "complete" /\ total' = StoredTotal(t)
  /\ Goto(t, "notifying")
  /\ UNCHANGED <<deleted, failStage, resultVars, reqVars, age, batch, sum, losses>>

\* notify_run_completed and log_event are flushed, never committed.
Notify(t) ==
  /\ pc[t] = "notifying"
  /\ Goto(t, "returned")
  /\ UNCHANGED <<rowVars, resultVars, reqVars, age, batch, sum, losses>>

\* The task ends well and is acknowledged; the second header task of a
\* chord to do so publishes the callback.
Ack(t) ==
  /\ pc[t] = "returned"
  /\ LET both == \A k \in Header : k = t[2] \/ pc[<<t[1], k>>] = "succeeded"
     IN  pc' = [u \in Tasks |->
                  CASE u = t -> "succeeded"
                    [] u # t /\ t[2] \in Header /\ both /\ u = <<t[1], "ead">>
                         -> "ready"
                    [] OTHER -> pc[u]]
  /\ EndProcess(t)
  /\ UNCHANGED <<rowVars, resultVars, reqVars, losses>>

-----------------------------------------------------------------------------
(* Failures                                                                *)

\* A second task of the same stage in the same transaction window runs into
\* the unique constraints of pd_results and lgd_results.
Contended(t) ==
  \E u \in Tasks \ {t} : u[2] = t[2] /\ pc[u] \in {"running", "saved"}

\* _prepare_task, the session or the first two statements raise outside the
\* stage's own handler; anything in its try block raises (the soft time limit
\* too).
Raise(t) ==
  /\ \/ pc[t] \in {"started", "loaded"} /\ t[2] \in Faulty /\ Goto(t, "escaped")
     \/ /\ pc[t] \in {"running", "saved", "inserting"}
        /\ t[2] \in Faulty \/ (pc[t] = "running" /\ t[2] \in Header /\ Contended(t))
        /\ Goto(t, "raised")
     \/ /\ pc[t] \in {"inserted", "totalled", "uploaded", "ead_done", "notifying"}
        /\ "ecl" \in Faulty
        /\ Goto(t, "raised_ecl")
  /\ UNCHANGED <<rowVars, resultVars, reqVars, age, batch, sum, losses>>

\* The update of _mark_run_failed; its notification is never committed.
FailRun(stage) ==
  /\ AtomicStageUpdate(stage, "error")
  /\ status' = "failed" /\ failStage' = stage
  /\ UNCHANGED <<deleted, total>>

MarkRunFailed(t) ==
  /\ pc[t] \in {"raised", "raised_ecl"}
  /\ FailRun(IF pc[t] = "raised_ecl" THEN "ecl" ELSE t[2])
  /\ Goto(t, "escaped")
  /\ UNCHANGED <<resultVars, reqVars, age, batch, sum, losses>>

\* The task wrapper marks the run failed a second time, then re-raises; the
\* failed task is acknowledged and its chord never fires.
MarkRunFailedStandalone(t) ==
  /\ pc[t] = "escaped"
  /\ FailRun(t[2])
  /\ Goto(t, "dead") /\ EndProcess(t)
  /\ UNCHANGED <<resultVars, reqVars, losses>>

\* The database refuses the update that marks the failure.
LoseFailureMark(t) ==
  /\ \/ /\ pc[t] \in {"raised", "raised_ecl"}
        /\ Goto(t, "escaped") /\ UNCHANGED <<age, batch, sum>>
     \/ /\ pc[t] = "escaped"
        /\ Goto(t, "dead") /\ EndProcess(t)
  /\ UNCHANGED <<rowVars, resultVars, reqVars, losses>>

\* task_acks_late, task_reject_on_worker_lost: delivered again.
WorkerLost(t) ==
  /\ pc[t] \in Executing /\ losses < MaxLoss
  /\ Goto(t, "ready") /\ EndProcess(t)
  /\ losses' = losses + 1
  /\ UNCHANGED <<rowVars, resultVars, reqVars>>

\* The hard time limit kills the process; the message is acknowledged and
\* the row is not touched.
HardKill(t) ==
  /\ TimeLimits /\ pc[t] \in Executing /\ age[t] >= HardLimit
  /\ Goto(t, "dead") /\ EndProcess(t)
  /\ UNCHANGED <<rowVars, resultVars, reqVars, losses>>

-----------------------------------------------------------------------------
(* Recovery and time                                                       *)

\* Mutant: runs whose task was killed are not recovered.
StuckStageQueuedOnly ==
  IF status = "queued" /\ rowAge >= StuckQueued THEN "queued" ELSE NoStage

StuckStage ==
  CASE status = "queued"   /\ rowAge >= StuckQueued  -> "queued"
    [] status \in Running /\ rowAge >= StuckRunning -> "timeout"
    [] OTHER -> NoStage

\* recover_stuck_runs is itself a task and needs a worker.
RecoverStuckRuns ==
  /\ FreeSlot
  /\ ~deleted /\ StuckStage # NoStage
  /\ UpdateRow
  /\ status' = "failed" /\ failStage' = StuckStage
  /\ UNCHANGED <<deleted, progress, total, resultVars, reqVars, taskVars>>

\* A process under time limits does not outlive its limit.
Tick ==
  /\ TimeLimits => \A t \in ExecutingTasks : age[t] < HardLimit
  /\ rowAge' = IF rowAge < StuckRunning THEN rowAge + 1 ELSE rowAge
  /\ age' = [t \in Tasks |-> IF pc[t] \in Executing /\ age[t] < HardLimit
                              THEN age[t] + 1 ELSE age[t]]
  /\ UNCHANGED <<status, deleted, progress, failStage, total, resultVars,
                 reqVars, pc, batch, sum, losses>>

-----------------------------------------------------------------------------
RequestStep(r) ==
  \/ ExecuteLock(r) \/ ExecuteCommit(r) \/ Dispatch(r) \/ DispatchFail(r)
  \/ RevertDispatch(r) \/ ApiCrash(r)

\* What a task does as long as its worker runs.
TaskStep(t) ==
  \/ StartTask(t) \/ LoadRun(t) \/ MarkStageRunning(t)
  \/ SaveResults(t) \/ JoinResults(t) \/ InsertBatch(t) \/ StartEcl(t)
  \/ UploadWorkbooks(t) \/ MarkStageComplete(t) \/ CompleteRun(t)
  \/ Notify(t) \/ Ack(t)
  \/ MarkRunFailed(t) \/ MarkRunFailedStandalone(t) \/ LoseFailureMark(t)

FaultStep(t) == Raise(t) \/ WorkerLost(t) \/ HardKill(t)

Next ==
  \/ \E r \in Requests : RequestStep(r)
  \/ \E t \in Tasks : TaskStep(t) \/ FaultStep(t)
  \/ DeleteRun \/ RecoverStuckRuns \/ Tick

Spec == Init /\ [][Next]_vars

\* Users, faults and crashes are never forced; a request in flight ends, a
\* worker goes on with its task, beat runs the recovery, time passes.
Fairness ==
  /\ \A r \in Requests : WF_vars(ExecuteCommit(r) \/ Dispatch(r) \/ RevertDispatch(r))
  /\ \A t \in Tasks : WF_vars(TaskStep(t) \/ HardKill(t))
  /\ WF_vars(RecoverStuckRuns)
  /\ WF_vars(Tick)

FairSpec == Spec /\ Fairness

-----------------------------------------------------------------------------
(* Properties                                                              *)

\* engine_progress never promises rows that are not there: a pd or lgd entry
\* is complete only while the run has pd_results or lgd_results rows, across
\* redelivery of a half-done task, recovery and re-execution (which clears
\* both).  A re-execution that overlaps an old pipeline is excluded: then a
\* late _mark_stage_complete can land after the clearing.
StageCompleteHasResults ==
  ~overlapped => \A k \in Header : progress[k] = "complete" => results[k]

\* _ead_ecl_main joins what both header stages stored.  Missing lgd rows would
\* go unnoticed: compute_ead replaces them by zero and only warns.
EadJoinsBothStages ==
  ~overlapped =>
    \A t \in Tasks : t[2] = "ead" /\ Live(t) =>
      \A k \in Header : results[k] /\ progress[k] = "complete"

\* A complete run is whole: all four stages are complete and total_ecl is
\* the sum of the ead_results rows stored for it, even after the EAD task was
\* delivered twice.
CompleteRunIsWhole ==
  ~overlapped /\ status = "complete" =>
    /\ \A s \in Stages : progress[s] = "complete"
    /\ total = eadRows /\ total # 0

\* While no worker is lost, a complete run holds the rows and the workbooks of
\* exactly one computation, whatever failed and was executed again before.
OneComputation ==
  ~overlapped /\ losses = 0 /\ status = "complete" =>
    eadRows = Batches /\ artifacts = 1

\* recover_stuck_runs never declares a timeout over a stage that is still
\* computing: the hard limit ends a task before the cutoff measured from its
\* last update of the row (or, with one solo worker, the recovery task itself
\* has to wait for the stage).
RecoveryAfterStagesStopped ==
  status \in Running /\ rowAge >= StuckRunning /\ FreeSlot =>
    \A t \in Tasks : pc[t] \notin Computing

\* Two clicks on Execute never queue the same run twice: the row lock makes
\* the check of the status and the change to queued one step.
QueuedOnlyWhenIdle ==
  [][execNo' # execNo => status \in {"draft", "failed"}]_vars

\* No run stays queued or running for ever: not when the API dies before the
\* dispatch, not when a task is killed, loses its failure mark, or is waiting
\* for a chord that will never fire.
ActiveRunSettles ==
  (status \in Active /\ ~deleted) ~> (status \notin Active \/ deleted)

-----------------------------------------------------------------------------
(* Claims the code does not keep: TLC refutes them on runs of this module. *)

\* _atomic_stage_update "prevents the race condition where concurrent PD and
\* LGD stages overwrite each other's status update": the failure one stage has
\* recorded is not replaced by the other stage's start.
FailureNotOverwritten ==
  [][status = "failed" /\ failStage \in Header /\ ~deleted
       => status' \notin Running]_vars

\* _engine_info reports deterministic=True: a complete run's total is the one
\* of a single computation over its inputs.
DeterministicTotal ==
  ~overlapped /\ status = "complete" => total = Batches

=============================================================================
