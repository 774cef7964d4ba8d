# ECL-Server: specification and verification

ECL-Server computes expected credit losses. A tenant uploads three workbooks to
a *run*, executes it, and three Celery tasks compute PD, LGD and EAD/ECL, store
the results and produce workbooks. Around that core there are accounts,
sessions, tenants, invitations, notifications and e-mail.

This directory holds TLA+ modules translated from the code, TLC configurations
that check them on small instances, and TLAPS proofs of the most important
properties for every value of the constants. `PROJECT.json` says for each
definition which lines it stands for.

## 1. Inventory

| Component | State | Operations | What is hard, and what makes it correct |
|---|---|---|---|
| Run execution (`modules/runs/service.py`, `router.py`) | row of `runs`: `status`, `engine_progress`, `failure_stage`, `total_ecl`, `updated_at`, `deleted_at` | `execute_run`, dispatch in the router, `revert_run_after_dispatch_failure`, `delete_run` | two requests at once; the broker fails, or the process dies, between commit and dispatch. A run is queued only when idle, and never stays active for ever |
| Compute tasks (`tasks/compute_tasks.py`, `engine/bulk_insert.py`) | `pd_results`, `lgd_results`, `ead_results`, `output_artifacts`, the row above | `pd_task`, `lgd_task`, chord callback `ead_ecl_task`, `_mark_stage_*`, `_mark_run_failed` | PD and LGD are concurrent on one row; late acknowledgement and redelivery; batches that are durable one by one. EAD joins what both stages stored; a complete run is whole |
| Stuck-run recovery (`tasks/cleanup_tasks.py`) | `updated_at` against two cutoffs | `recover_stuck_runs` | a timeout racing a live task |
| Celery, broker, workers (`tasks/celery_app.py`) | queues, slots, time limits | delivery, acknowledgement, hard limits, chords | lost workers, redelivery |
| E-mail outbox (`core/email_dispatch.py`, `tasks/cleanup_tasks.py`) | `email_outbox` | `queue_email_in_outbox`, `process_email_outbox` | overlapping polls, a poll that dies halfway, a broker that is down. No committed mail is forgotten, none is published by a transaction that rolled back |
| E-mail tasks (`tasks/email_tasks.py`, `core/email_task_utils.py`) | messages | `send_*_email`, retry or drop | retries, redelivery |
| Run inputs (`modules/runs/service.py`) | `uploads`, objects in storage | create, upload, remove, validate, rerun | storage calls between a status check and the commit, which a rollback does not undo; objects that two runs share. What is computed was validated; the files of a complete run stay |
| Validators (`engine/validators`) | verdict of each upload, accepted warnings | per-file and cross-file checks, `validate_files`, the gate of `execute_run` | combinations that every single check lets through; a cap on the issues. What passes is provisioned, and what is reported ready executes |
| Engines (`engine/pd_engine.py`, `lgd_engine.py`, `ead_engine.py`) | none | transition matrix, collateral shares, snapshots, balances, the PD join | dates at the ends of months, zero totals, missing rows. Each is compared with a reference definition |
| Results (`modules/results`, `engine/excel_writer.py`) | none | portfolio, segment and loan views, run totals, summary workbook | several aggregations of the same rows must agree |
| Accounts and sessions (`modules/auth`, `modules/sessions`, `core/cache.py`, `core/deps.py`) | users, refresh-token families, sessions, links, blacklist, Redis | register, login, MFA, refresh, logout, revoke, reset, TOTP, nightly purges | rotation and revocation by concurrent requests; writes that an error rolls back; Redis losing its keys. What was signed out stays out, what can be refreshed is listed |
| Members and invitations (`modules/tenants`, `modules/invites`, `modules/notifications`, `modules/settings`) | memberships, invitations, notifications, preferences | change role, remove, invite, accept, cancel, resend, expire | check-then-act over several rows: the last administrator, one membership per invitation |
| Catalogue and onboarding (`modules/segments`, `modules/collateral`, `modules/onboarding`) | segments, collateral types, wizard columns of the tenant | create, rename, delete, provision, complete the wizard | check first, insert later, by three different writers |
| Platform (`modules/platform`) | tenants, impersonations, engine versions, cached health report | create, suspend, reactivate, close, impersonate, promote, probe | each request clears what it has seen |

How they interact: the API and the workers share PostgreSQL and Redis. A request
ends with a commit (`get_db`), the execute endpoint commits itself and then
publishes the chord. Tasks open their own sessions and commit every statement on
their own. Beat publishes the recovery job and the outbox poll, which need a
worker like any other task. Everything that sends mail writes an outbox row in
its own transaction. Validation provisions segments and collateral types of the
workspace and decides what the engines may read.

`PROJECT.json` lists under `hazards` what in this code is hard to reach with a
test, at the line where it bites, and which property would notice.

## 2. Modules

| Module | Content |
|---|---|
| `RunPipeline` | the life of one run: API requests, chord, tasks, faults, recovery, clock |
| `MCRunPipeline` | symmetry of requests; the constraint `NoOverlap` |
| `RunPipelineProofs` | its theorems |
| `MailPromise` | abstract specification of the outbox: what callers may rely on |
| `EmailOutbox` | the outbox table, its polls, broker and mail tasks; implements `MailPromise` |
| `MCEmailOutbox` | symmetry of polls |
| `EmailOutboxProofs` | its theorems, including the refinement |
| `RunInputs` | the input files of several runs: rows, objects, upload, validation, rerun |
| `RunInputsProofs` | its theorems |
| `MCRunInputs` | symmetry of requests and of runs; the constraint `Undisturbed` |
| `Sessions` | accounts, sign-in, MFA, refresh-token rotation, sessions, blacklist, nightly purges |
| `SessionsProofs` | its theorems |
| `MCSessions` | symmetry of requests and of tokens |
| `Members` | members and invitations of one workspace, preferences, notices |
| `Workspace` | extends `Members` by segments, collateral types, provisioning and onboarding |
| `WorkspaceProofs` | theorems about `Members` and `Workspace` |
| `MCWorkspace` | two names that differ by case, two wizards, symmetry |
| `Platform` | tenants, impersonation, engine versions, health report |
| `PlatformProofs` | its theorems |
| `MCPlatform` | symmetry |
| `Arithmetic` | what the engines compute with besides integers: sums over sets (from the community modules) and powers |
| `ArithmeticLaws` | lemmas about sums, powers, minima and maxima, with the induction they need |
| `Calendar` | dates and months as the engines count them |
| `PdEngine`, `MCPdEngine` | `compute_pd` of one segment, and its instances |
| `Validators` | the checks of the three workbooks and across them |
| `EadEngine` | extends `Validators`: validation, the gate, `compute_lgd`, `compute_ead` |
| `Results` | extends `EadEngine`: the aggregations shown by the API and the summary workbook |
| `EngineProofs` | theorems about `PdEngine`, `Validators`, `EadEngine` and `Results` |
| `MCEadEngine` | the families of workbooks that `Results` is checked on |

Definitions whose comment begins with *Mutant* are deliberately wrong variants
of the definition that follows them. They are used by no specification; each
shows that some property notices a plausible mistake.

### 2.1 RunPipeline

*State.* The columns of the row that decide something (`status`, `deleted`,
`progress`, `failStage`, `total`, and `rowAge`, the time since `updated_at`);
whether `pd_results` and `lgd_results` rows exist; how many 5000-row batches
`ead_results` holds and how many sets of workbooks there are; the control state
of every execute request and of every task of every execution. A total is the
number of batches it sums: enough to tell "the sum of what is stored" from "the
sum of one computation". Risk figures, names and formatting are left out.

*Atomicity.* One step per committed statement. `execute_run` takes
`SELECT ... FOR UPDATE`, so `ExecuteLock` and `ExecuteCommit` are two steps with
the lock between them, and every other statement on the row waits for it. The
tasks commit each `_atomic_stage_update` on its own. PD and LGD delete and insert
in one transaction; `bulk_insert_ead_results` runs `executemany` on the raw
asyncpg connection, outside SQLAlchemy's transaction, so every batch is durable
by itself (`InsertBatch`). The trigger of migration 0004 moves `updated_at` with
every update (`rowAge' = 0`).

*Actions.* Requests: `ExecuteLock`, `ExecuteCommit`, `Dispatch`, `DispatchFail`
(any part of the header was published, all of it when only the last answer was lost), `RevertDispatch`, `ApiCrash`,
`DeleteRun`. Tasks: `StartTask`, `LoadRun`, `MarkStageRunning`, `SaveResults`,
`JoinResults`, `InsertBatch`, `StartEcl`, `UploadWorkbooks`, `MarkStageComplete`,
`CompleteRun`, `Notify`, `Ack`. Failures: `Raise`, `MarkRunFailed` (the handler in
the stage), `MarkRunFailedStandalone` (the wrapper, which marks the run a second
time), `LoseFailureMark`, `WorkerLost`, `HardKill`. Others: `RecoverStuckRuns`,
`Tick`.

Two details are easy to miss. `_load_run` is outside the stage's own handler, so
its error reaches the wrapper only. And the notification and audit rows of a
finished run are flushed but the session is closed without a commit, so `Notify`
changes nothing.

*Environment.* A message of a lost worker returns to the broker
(`task_acks_late`, `task_reject_on_worker_lost`). A prefork worker enforces
`task_time_limit`; the solo pool of the production command does not
(`TimeLimits = FALSE`, `Slots = 1`, covered by the theorem `RecoveryIsSafe`). `recover_stuck_runs` needs a free slot.

*The history variable* `overlapped` becomes true when a run is queued although a
task of an earlier execution, or a request that has queued it, is still alive.
That can happen (a recovered run is executed again while its old messages wait
in the broker), and then tasks of two executions write the same rows. The
properties about results are stated for runs without overlap; the property of
the recovery job has no such restriction.

### 2.2 EmailOutbox

*State.* For every mail the status, attempts and age rank of its row and the poll
that has locked it; for every poll the rows it selected, those still to do, and
the outcomes it holds in memory until its single commit; messages in the broker
by number of retries; what was published, sent and given up. The statuses
`absent`, `open` and `rolled_back` are rows that other transactions cannot see.

*Actions.* `QueueEmail` and `EndRequest` (commit or rollback by `get_db`);
`BeginPoll` (oldest `Limit` unlocked pending rows), `RejectRow`, `DispatchRow`,
`FailRow` (the broker is down, or took the message and its answer was lost),
`CommitPoll`, `CrashPoll`; `SendEmail`, `RetryEmail`, `DropEmail`, `SendAndLose`.

*Abstract specification.* `MailPromise`: a mail is owed from the commit of the
transaction that asked for it, only owed mails are published, and an owed mail
is settled once, as handed over (then the broker has had it at least once) or as
given up. `KeepsPromise` is that specification under the mapping `Intent`.

### 2.3 RunInputs

*State.* The status of each run, with queued and running as one `active`; the
committed rows of `uploads` (kind, storage path, verdict, warnings accepted); the
storage as a content per path, a path being run, kind and file name; which kinds
an active run has read, and what. Per request its control state, target, the file
and the bytes it received, the rows it has loaded and what it has downloaded.
A content is a class: what the validator of its kind says (clean, warnings,
blocking), whether it has macros, whether it is too large. What the checks across
files say is any outcome they can have: they blame the LGD or the EAD file, with
an error or, on a row that is `ok`, a warning.

*Atomicity.* One step per storage call and one for the commit at the end of the
request (`get_db`). Rows change at the commit only; objects change at once, and no
rollback brings them back. Nothing but `execute_run` takes a lock, and that is on
the row of the run, not on its uploads. `AbortRequest` ends a request between any two steps.
Two places are coarser than that. `UploadBegin` reads status and old rows at once
(runs/service.py:767, 777): what another request does between the two reads either
executes the run, which is then `raced`, or uploads a file of the same kind, and it is
`crowded`. `DeleteObjects` deletes the objects of all old rows at once (780-784): outside
crowded runs there is at most one.

*Actions.* `CreateRun`, `DeleteRun`, `Rerun`; an upload is `UploadBegin` (status and
old rows are read), `DeleteObjects`, `PutObject`, then `RefuseOversize` or
`InspectObject`, and `InsertUpload`; a removal is `RemoveBegin`, `DeleteObjects`,
`RemoveUpload`; a validation is `ValidateBegin`, one `Download` per row, and
`StoreVerdicts`, which writes only the columns that differ from what the session
had loaded and fails when such a row is gone. `ExecuteRun` is the gate of
`execute_run`; `ReadInput` and `EndRun` stand for the pipeline. A stage reads its
rows and objects in one step: while a run is active nobody writes its objects
(except an upload in flight, see `raced`), they can only disappear, and then the
stage fails either way.

*History variables.* `checked`, on a row, collects the contents that a validation of
the row found not blocking. `abandoned`, `raced` and `crowded` are the runs with an
upload that changed the storage and did not commit, with an upload or a removal in
flight when they were executed, and with two uploads of one kind other than PD in
flight; a rerun inherits them. They mark where a guarantee ends; section 3.2 and the
first remark of 3.3 show what happens beyond.

*Left out.* `combine_pd_files` (when it is off, the PD stage downloads all files and
uses the first, so the properties, which speak of every file read, cover it),
`run_warnings`, names and periods. The rules behind a verdict are in `Validators`, the
segments and collateral types that `validate_files` provisions in `Workspace`.

### 2.4 Sessions, Members, Workspace, Platform

*Atomicity.* These four modules share one view of a request. It reads when it begins
and writes when it commits (`get_db`: one transaction per request, READ COMMITTED, no
row locks), and every other request may read or commit in between. Each operation is
therefore an action that reads (`UpdateMember`) and one that commits
(`UpdateMemberCommit`). Where a second read decides something that a commit in between
changes, it is an action too: `Refresh` reads the token and `RefreshSession` the session
row, `PromoteEngineVersion` the target and `ReadOldCurrent` the current version. A handler that
raises changes nothing, whatever it had assigned before, so a refusal is the guard of
the first action. A commit that a unique index refuses is not enabled and leaves
`Abort`. `Flushed` (for engine versions `Promoted`) says what SQLAlchemy writes: an attribute that
differs from the value that was loaded, and nothing otherwise, so a commit does not
restore what it had merely read. Redis is written at once.

*Sessions.* Rows of `users` (with the active membership as a flag), `refresh_tokens`,
`sessions`, links, MFA challenges, the blacklist in Redis and in its table. A token's
family is named by its first token. Tokens, sessions and links expire at any time
(`FaultStep`), Redis may restart, and the four nightly jobs run at any time (`JobStep`).
A wrong password is one step that counts nothing: the raise that follows the increment
rolls it back (see `LockoutTakesEffect`).

A refresh whose session row is gone at its second read skips what is done to the row
(`if sess:`) and still makes its new token (`RefreshSession`).

*Members* and *Workspace.* Memberships with role and status (active, disabled, or any
other string, which the request body may hold and the last-administrator check lets
through), invitations with their
state, expiry and whether the link they hold was mailed, the catalogue rows with soft
deletion and the partial unique index over live names, the onboarding columns. The case
of a name is folded where the code folds it (`Fold`). `UpdateMember` includes the
last-administrator rule of `assert_not_last_admin`.

*Platform.* Tenants with slug and status, impersonation rows, the set of versions flagged
current, services, the cached report. A health report probes one service per step.

*History variables.* `raced`, `overran`, `stale` note a write by a request that another
one had overtaken; `ended`, `reused`, `attempts`, `loggedOut`, `origin`, `grants`, `removed`,
`setups`, `unlisted` keep what the tables forget. They mark where a guarantee ends.

### 2.5 PdEngine, Validators, EadEngine, Results

*Data.* Amounts and probabilities are exact. The entries of the m-th power of the
transition matrix are integers over `scale^m`, `scale` being the product of the row
totals; a marginal probability is a pair. An interest rate is `k / RateUnit` per year, and
the unit of the amounts is so small that every instalment and balance of a monthly loan is
whole (`WholeInstalments`, asserted for the books of `MCEadEngine`; only
`PaidOffAtMaturity` depends on it).
Floating-point rounding is not modelled. A date is a month and a day, and a month has
its real length. A cell is a value the validators tell apart: right, empty, padded with
blanks, no number, empty or no date. `NotANumber` is what pandas computes from an empty
date. A Loan ID or a segment may be a number (`Numbers`), whose text is `Bare`: results of
LGD and PD are stored as text, and numbers and texts are neither joined nor sorted.

*PdEngine* goes through `compute_pd` step by step: `Combine` (the first file wins),
`BuildMatrix` (self join on dates moved back a month), `Normalize`, one `PowerMonth` per
month, `Marginals`. Its specification is `PdSpec` over `pdVars`, so that one module of
proofs can speak of both engines.

*EadEngine* takes a triple of workbooks from `ValidateFiles` and `ExecuteRun` through
`ComputeLgd` (collateral shared among a customer's loans), `ExpandSnapshots`, `WalkRow`
(instalments, missed payments, balances, one row of every loan per step) to `JoinPd`. The exposure
that the probability, the cure rate and the discount factor only scale is the loss of
the model. Every way in which the computation of files that passed can fail is there: mixed
identifiers in `compute_lgd`, numeric ones in the merge (`ExpandSnapshots`), a segment
without PD (EC-08), and rows that the insertion or the totals refuse because a date is empty
(`Storable`, in `JoinPd`). EAD sheets without rows, and columns of segments that are numbers
in some rows and texts in others, are left out (`BooksAssumption`).

*Results* defines the totals stored with a run (`_compute_run_totals`), the portfolio,
segment and loan views with their filters, and the sheets of the ECL Summary workbook,
each the way its own code aggregates.

## 3. Runs

All of them set `CHECK_DEADLOCK FALSE`: a run that is complete, mails that are all
settled, a book that is computed and bounds that are used up leave nothing to do.

### 3.1 What is checked

| Run | Checks | Bounds |
|---|---|---|
| `pipeline_redelivery` | `TypeOK`, `CompleteRunIsWhole`, `EadJoinsBothStages`, `RecoveryAfterStagesStopped`, `ActiveRunSettles` | one execution, two lost workers, every stage may fail, two batches, two slots |
| `pipeline_reexecute` | `StageCompleteHasResults`, `OneComputation`, `QueuedOnlyWhenIdle` | two requests, two executions, one lost worker, failures before and after the insert; executions that overlap are cut off by `NoOverlap` |
| `outbox_delivery` | `TypeOK`, `DuplicatesOnlyByFaults`, `DeadLetterHasReason`, `DispatchedIsAccountedFor`, `KeepsPromise`, `CommittedMailEnds` | two mails, one of them unknown, behind a `LIMIT` of 1, two polls, three attempts, two retries, two faults |
| `inputs_race` | `ComputedInputsWereValidated`, `SingleFileKinds`, `CompletedInputsKept` | one run, two requests, PD and LGD files, good and bad contents, three rows ever inserted; states after an abandoned or racing upload are cut off by `Undisturbed` |
| `inputs_rerun` | `TypeOK`, `ComputedInputsWereValidated` | a run and its rerun, one request, all classes of contents, verdicts across files, four rows; the same constraint |
| `sessions_race` | `LiveTokenIsListed`, `SignOutIsFinal`, `OneSessionPerChallenge`, `LoggedOutIsRefused` | one user, three tokens, one challenge, link and backup code, two requests in flight, four in all, one step of time, fault or administration |
| `workspace_race` | `KeepsAnAdmin`, `InviteGrantsOnce`, `AcceptedNamesAreListed`, `OnboardsOnce` | two users, one invitation that may lapse, two requests in flight, three in all, two names that differ by case, two catalogue rows |
| `platform_race` | `OneImpersonation`, `OneCurrentVersion`, `OutageIsReported` | one administrator, three tenants of one name, three impersonations, three versions, two requests in flight, four in all, one outage |
| `pd_table` | `MatrixCountsTransitions`, `MarginalsRebuildCumulative` | every history of two loans over three months, a second file with every row of one loan, three months of powers |
| `loan_book` | `ValidatedLoansAreProvisioned`, `SnapshotsReachMaturity`, `PaidOffAtMaturity`, `CollateralIsSharedOut`, `ReadyRunsExecute`, `ViewsAgree`, `SummaryAgrees` | 59,138 triples of workbooks in seven families, rates of 0, 50, 100 and 150 percent, months of half a year, four snapshots of a Stage 1 loan, four PD months, a cap of two issues |

Violations, each a disagreement between the code and what it says of itself:

| Run | Shows |
|---|---|
| `total_after_redelivery` | a worker is lost between EAD batches; the redelivered task inserts all rows again without deleting, and `total_ecl` counts part of the portfolio twice, in a run reported as `deterministic` |
| `month_end` | reporting months written as the last day, as the template asks: the row of 28 February is looked for at 28 January, not at the 31st, so the transition counts as off-books and is dropped |

The type invariants of `Sessions`, `Workspace` and `Platform` document their variables;
they hold on the runs above (add `INVARIANT TypeOK` to the cfg). Their proofs use weaker
shapes of the variables (`SnapshotsOK`, `RowsOK`, `FamiliesOK`).

### 3.2 Claims the code does not keep

Each of these is defined in its module and refuted by TLC when it is added to the cfg
named here (for `RunInputs` without the `CONSTRAINT`, which cuts off exactly these cases).

| Claim | Module, cfg | What happens |
|---|---|---|
| `FailureNotOverwritten` (property) | `RunPipeline`, `PipelineRedelivery.cfg` | PD fails, then LGD starts: `_mark_stage_running` (compute_tasks.py:146) turns `failed` back into `lgd_running`, although lines 107-109 say that concurrent stages do not overwrite each other's status |
| `UploadsOnlyToIdleRuns` (property) | `RunInputs`, `InputsRace.cfg` | an upload passes its status check (runs/service.py:768), the run is executed with the old rows, the upload inserts its row: "Files can only be uploaded to draft or failed runs." |
| `RefusedFileNotComputed` (invariant) | `RunInputs`, `InputsRerun.cfg` | a workbook with macros has the name of an accepted file: it is refused, but has already replaced the object (line 789), which is validated and computed |
| `RerunHasItsFiles` (property) | `RunInputs`; three runs, one request, one LGD name, clean contents only, four uploads | a rerun names the objects of its source (line 1463); replacing one of its files deletes the source's, and the next rerun of the source, "seeded with the same input files" (line 1429), has none |
| `LockoutTakesEffect` (invariant) | `Sessions`, `SessionsRace.cfg` | the failed-login counter (auth/service.py:196-207) is rolled back with the request by the error raised at the end, so no account is ever locked |
| `ReuseRevokesFamily` (invariant) | `Sessions`, `SessionsRace.cfg` | `TOKEN_REUSE` is raised after `_revoke_family` (455-460) and rolls it back: the other tokens of the family stay usable |
| `AllSessionsRevoked` (invariant) | `Sessions`, `SessionsRace.cfg` | a refresh reads its token (auth/service.py:446), logout-all (582-592) or a reset (660-667) commits, and the session row read at 490 is gone: `if sess:` skips it, and the new token is committed live. logout-all answers "All sessions revoked." (auth/router.py:101) |
| `NeverWithoutAdmin` (invariant) | `Members`, `WorkspaceRace.cfg` | the status "inactive" for the only administrator passes, since `update_member` looks for "disabled" only (tenants/service.py:167-172) and the body takes any string (schemas.py:51-53); or two administrators demote each other at once, and each count still sees the other. `assert_not_last_admin` (59): "Raises LastAdminError if removing/demoting this user would leave zero active administrators." |
| `SomeVersionIsCurrent` (invariant) | `Platform`, `PlatformRace.cfg` | a promotion of the current version has read its target (platform/service.py:638), another version is promoted, and the first one clears that version's flag (649-650) without writing its own, which it had loaded as set: no version is current |
| `PendingLinkWasMailed` (invariant) | `Members`, `WorkspaceRace.cfg` | `resend_invite` replaces the hash of the token and queues no mail (invites/router.py:88-109): no link in circulation opens the invitation |
| `AcceptedWarningsLetRunExecute` (invariant) | `EadEngine`, `LoanBook.cfg` | warnings across files are accepted and the files are "ready for computation" (runs/service.py:507), but `execute_run` (1190-1193) refuses the run |
| `ReadyFilesAreComputed` (invariant) | `EadEngine`, `LoanBook.cfg` | "files are ready for computation" (runs/service.py:507), but an empty First Payment or Adjusted Maturity date, which passes (validators/base.py:205), fails the insertion (bulk_insert.py:121) or the totals, and numeric Loan IDs fail the merge with the texts of `lgd_results` (bulk_insert.py:98, ead_engine.py:245) |
| `SnapshotsAreLimited` (invariant) | `EadEngine`, `LoanBook.cfg` with `MaxPdMonth = 3` and `Offsets = 2` | "The rundown produces up to 299 monthly EAD snapshots per loan." (generate_templates.py:638): nothing limits a Stage 2 loan (ead_engine.py:178); 299 (`MaxPdMonth`) is the length of the PD table only. `SnapshotsReachMaturity` states what the code does instead |
| `Stage3AccruesInterest` (invariant) | `EadEngine`, `LoanBook.cfg` | "Stage 3 loans accrue missed-payment interest into the balance at each forward step." (generate_templates.py:637): they have one snapshot (ead_engine.py:154-157) and accrue nothing; theorem `MissedPaymentsAreFree` shows that no loan ever does |
| `UnknownStagingIsCaught` (invariant) | `EadEngine`, `LoanBook.cfg` | an empty or padded staging passes the validator and reaches the branch of ead_engine.py:191 that says "the validator catches this" |
| `SummaryHasEveryLoss` (invariant) | `Results`, `LoanBook.cfg` | an empty customer passes validation, and `groupby` (excel_writer.py:340) leaves the loan out of the workbook |
| `OneTotalOutstanding` (invariant) | `Results`, `LoanBook.cfg` | the workbook's total is the outstanding amount of the file, the run's the largest modelled balance of each loan (compute_tasks.py:340-353) |

### 3.3 Remarks

Seen while modelling or proving, without a property of their own:

* Two uploads of the LGD file of one run overlap and leave two rows for it (each has seen
  the rows before the other's, runs/service.py:777-784). `validate_cross_files` then blames
  one of the two. A validation that began before the second upload, and read the first
  object through the other row, may commit last and pass a row whose object has been
  replaced by a blocking one. The proof of `ComputedInputsWereValidated` came to a halt
  there and TLC finds it with three requests, so the property excepts `crowded` runs.
* `RecoveryAfterStagesStopped` says only that no stage computes when `recover_stuck_runs`
  declares a timeout: the task may just wait in the broker, while the docstring says
  that Celery killed it. `DeadLetterHasReason` counts polls that cannot reach the broker
  as attempts, so five of them make a mail a dead letter, while `queue_email_in_outbox`
  says that the row stays pending.
* Notification and audit rows of a finished run are flushed, but the task's session is
  closed without a commit (compute_tasks.py:751). A deleted run's tasks go on writing
  its status; `deleted_at` stays set and hides it.
* `UpdateMemberRequest` takes any string as role and status (tenants/schemas.py:51).
  `update_segment` fails with a NameError when `is_active` is given (segments/service.py:162).
* Two pending invitations for one address can be created at once (invites/service.py:187).
* A soft-deleted name counts as known and is not provisioned again. A collateral type
  deleted between validation and computation is ignored (compute_tasks.py:253-269).
* An empty maturity date passes validation, and a Stage 1 or Stage 2 loan without one gets
  no snapshot. A padded segment passes, and the loan finds no PD (EC-08) at computation.
  Uniqueness of loans is checked per sheet.
* With `combine_pd_files` off all PD files are validated and only the first is computed
  (compute_tasks.py:424).
* A quarterly loan whose term is unknown pays everything in one instalment: `max(1, NaN // 3)`
  is 1 (ead_engine.py:37-62).
* A redelivered EAD task doubles the losses of the views but not their outstanding
  amounts, which are maxima. Pages ordered by ECL alone (results/service.py:415) may
  repeat or skip loans of equal ECL.

### 3.4 Bounds, symmetry, fairness

*Why the bounds are enough.* Two requests, two polls or two executions suffice for
every race of two actors; a second lost worker lets a task be redelivered after a
redelivery; two batches separate "between batches" from "after the last one".
Time is in ticks: `HardLimit` 1, `StuckQueued` 1, `StuckRunning` 2 keep the order of
2400 s, 10 min and 45 min (the limit below the cutoff of running runs) with the
fewest values. Two attempts separate the first, a repeated and the last failed
dispatch. One file name suffices, because only equal names collide. LGD and EAD files
are treated alike by everything in `RunInputs`, so `inputs_race` has PD (files add
up) and one other kind (a file replaces its predecessor). Three rows allow a file
to be replaced beside one of another kind, four allow it in a run and in its rerun.
A `LIMIT` below the number of rows leaves rows behind the batch. Three tokens are a
login and two rotations, two requests in flight every overlap of two handlers, and the
third or fourth request shows what the overlap has left behind; one clock step or fault
at a time keeps each of them combined with every interleaving. Three versions let two
promotions of different versions overlap while a third is current. Three months hold two
transitions, one into a shorter month; four snapshots end before, at and after maturity.
The families of workbooks vary the columns that one rule or one step reads together, and
leave the others plain. Half-year rates tell the annuity from its interest-free case and
from a rate of a whole year; instalments over at most two months, and walks of three rows,
stay within the integers of TLC, and longer ones repeat the same step. The proofs do not depend on any of these values.

*Symmetry* is used only where safety is checked, over identities that no
definition distinguishes.

*Fairness.* `RunPipeline`: a request past its checks ends, a worker goes on with the
task it has (or its hard limit kills it), beat runs the recovery job, time
passes. No user action and no fault is forced. Whether a waiting message gets a
slot is weakly fair only: `Slots` can be taken by other tasks again and again, but
the recovery job does not depend on that task. `EmailOutbox`: beat goes on
polling, a poll that has begun goes on, and each message in the broker is taken
by some worker, with any outcome; nothing says that the broker or the SMTP
server ever answers.

## 4. Proofs

Everything below holds for every number of requests, executions, lost workers,
batches, slots, mails, polls, attempts, runs, files, accounts, tokens, members, names,
tenants and versions.

`RunPipelineProofs`

* `TypeCorrect`: `TypeOK` is inductive.
* `RecoveryIsSafe`: with time limits, or one slot, `RecoveryAfterStagesStopped`. The
  argument is about two clocks. `StageAgeInv` says that a task is never older than
  the limit and that the row is not older than any task that computes, because
  such a task has written the row since it started. A row past the cutoff is
  older than the limit (`LimitBelowCutoff`), so no task computes. With one slot
  the recovery job itself proves the slot empty (`SoloIdle`).
* `QueuesOnlyIdleRuns`: `QueuedOnlyWhenIdle`. `LockInv`: a request that has passed its
  check holds the lock, and while it is held the status stays as it was read.
* `CompleteStagesAreStored`, `JoinIsSound`, `CompleteRunsAreSound` and
  `CompleteRunsComputeOnce`: the properties about results. None of
  them is inductive. `PipelineInv` adds what they rest on: without overlap all live
  tasks belong to the latest execution; the callback exists only after both
  header tasks have succeeded, and a succeeded or returned header task has a
  complete stage with rows; while EAD inserts, the stored rows are at least (and
  without lost workers exactly) the batches it has counted, and the sum it has
  read is what is stored.

`EmailOutboxProofs`

* `OutboxTypeCorrect`, `NoFreeDuplicates`, `DeadLettersAreJustified`: `OutboxInv` says who
  owns which row (a locked row is pending and in exactly the batch of its poll),
  that every copy published so far is the poll's own or paid for by a fault, that
  a row held as dispatched has been published, and that a row held as dead letter
  is unknown or has used up its attempts.
* `OutboxKeepsPromise`: every step is a step of `MailPromise` or leaves `Intent` and
  `published` unchanged; a commit is one `Settle`.
* `DispatchedMailIsTraceable`: a published message is in the broker, sent or given up
  (`MessagesKept`), so a dispatched row can be traced.

`RunInputsProofs`

* `InputsTyped`, `OneFilePerKind`, `InputsWereValidated`, `CompletedRunsKeepInputs`. `Inv` ties
  three things together that no lock does: the rows, the objects they name, and what
  requests in flight have read. A validation has loaded every row older than one it has
  loaded (`SeenOK`); an upload of a single-file kind has loaded every row it replaces
  (`ReplacesAll`), unless the run is crowded; an executed run that no upload raced has
  none in flight (`ExecutedKept`); a row copied by a rerun names an object that nobody
  replaces (`CopiesKept`). The heart is `RowsGuarded`. "The object behind a row is one that a
  validation of the row has seen" is not inductive, since the object changes long before
  the rows. So a row is *guarded*: its object is vouched for, or was put by an upload
  that has not committed, or the row has no passing verdict and nobody is about to give
  it one on old evidence (`Pending`), or a later row of the same path is pending and
  will not be deleted. A gate that needs every row passed is then closed until a
  validation has read the new object. `UsedOK` carries this through `ReadInput`.

`SessionsProofs`

* `LogoutHolds`: a token that was logged out is in the table, or has lapsed; the purge
  only removes what has lapsed.
* `ChallengeIsUsedOnce`: a challenge that has made a session is in the table until it lapses
  (`OriginListed`), so the primary key refuses the second commit.
* `LiveTokensAreListed` and `SignOutHolds` share `SessionInv`: in a family no race has touched
  at most one token is live and the session row names it, and once it is signed out it
  has neither (`Untouched`); a refresh past its second read has found the session row of its
  family, or the family is raced (`RequestsOK`). A sign-out removes the row: a refresh that
  has read it finds no row to update and fails, one that has not finds none at all.

`WorkspaceProofs` and `PlatformProofs`

* A commit marks what it wrote as stale in every other request. The invariants say what
  a request still knows about a table that is not stale for it, one predicate per
  table: `TakesNoLastAdmin`, `KnowsInvite`, `KnowsItems`, `KnowsNames`, `KnowsTenant`;
  `StartsSawAll`, `PromotionsSawCurrent`, `ReportsKnow`. From these follow
  `WorkspaceKeepsAnAdmin`, `InvitationsGrantOnce` (with `GrantsOK`: who has been
  granted a membership still has it or was removed), `ProvisioningListsNames` (with `ItemsOK`: catalogue rows are
  filled from the first on), `WizardRunsOnce`, `PromotionKeepsOneVersion`,
  `ImpersonatesOneTenant` and `ReportsShowOutages`.

`ArithmeticLaws` has what the engines' proofs share. The induction theorems of the library
take an operator as a parameter and cannot be used; here the induction is over a set: a set of
numbers that holds 0 and with each number the next holds them all (`Successors`, from the
well-foundedness of `<`), and a set of subsets of a finite set that holds the empty one and
grows by single elements holds the whole (`Insertions`). A sum over a finite set is a fold
that picks elements with CHOOSE. `SumAdds` says that the function the fold picks exists,
`SumTakes` that the order does not matter, and from there `SumOfRest` (what is zero can be
left out), `SumBounded`, `SumMoves` (renaming the elements) and `SumGrouped` (a sum by groups)
follow. `Power` is a recursive function whose equations (`PowerZero`, `PowerNext`) are proved
in the same way.

`EngineProofs`, for every staging history, workbook, calendar, cap and size of the PD table

* `TransitionsCountedOnce`: `MoveIs` says which rows the self join yields; in a book that is
  `OnceAMonth` they correspond one to one to the pairs of a loan and a month, so the two sums
  are one (`SumMoves`). `OnceAMonth` asks for one date per month, which is the next one moved
  back a month. A fixed day up to the 28th is one such book (`FixedDayCountsOnce`), the dates
  of `pd_table` another; ends of months are none, which is what `month_end` shows.
* `MarginalsRebuild`: every power of the normalized matrix has rows that add up to at most
  `scale^m` and a third row that stays (`PowerMonthKeeps`), so a cumulative probability never
  falls and never exceeds one.
* `ReadyMeansExecutable`: `GateInv`, the verdicts are a function of the files (`Judged`), nothing
  sets `accepted`, and what has been executed has passed the gate.
* `SnapshotsToMaturity`: `SnapsOK`, and the lemma `MonthSets`: a month that ends by maturity is
  not further away than the whole months between the dates.
* `ValidatedMeansProvisioned`: `PassedEad` follows a sheet through all checks of
  `validate_ead`. No issue under the cap means that every check found none, so a date is one
  of the calendar or empty (`ValidatedDates`), and a maturity that is there is not before the
  reporting date; `FirstSnapshot` takes this through the gate to `_expand_snapshots`, `EndsOK`
  to the ways a computation can end: with exact cells only at EC-08. A row that a completed
  run stores has its dates, so its loss is a number.
* `MissedPaymentsAreFree`: `Walked` says of a balance walk that each row follows from the one
  before and that a balance of zero stays zero. A missed payment needs an earlier payment
  row that opened below the instalment, and such a row ends at zero (`OneMoreRow`). Rates
  are `k / RateUnit` between 0 and 1 because validation let them through (`ValidatedRates`), for
  any `RateUnit`, and an instalment is a number because a debt with interest grows
  (`PowerGrows`): the annuity divides by that growth.
* `MonthlyLoansArePaidOff`: the closed form of the annuity. With `y = 12 RateUnit`
  and a rate `e / RateUnit`, a loan of `y ((y+e)^n - y^n) q` owes
  `y q ((y+e)^n - y^(n-k) (y+e)^k)` after `k` of `n` instalments (`WithInterest`), and without
  interest one of `y n q` owes `y q (n-k)` (`WithoutInterest`); `WalkPaysOff` shows
  that the walk follows these amounts, never clamped at zero before the end. It assumes
  `WholeInstalments`, since the model divides without remainder.
* `CollateralOnce`: `SharedOut`. Each loan gets at most `pledged * outstanding / total`, the sum
  over the customer's loans is then at most the largest pledge, and haircut and discount
  only take away (`DiscountedAtMost`). That amounts are not negative comes from `PassedLgd`,
  also for pledges, which are validated only when the sheet has a collateral column.
* `ViewsAreOne` and `WorkbookAgrees`: `StoredRows`. There are finitely many rows, none has a negative
  loss, and the rows of one loan agree on segment and stage, because validation lets no loan
  occur twice (`LoansAreListedOnce`). Filters then keep or drop whole loans (`FiltersKeepLoans`), so
  filtering the run and taking a segment is the same as filtering the segment
  (`FilteredSegment`); each view adds up the same losses grouped differently (`EclByLoan`,
  `EclBySegments`, `LoansBySegments`). The rows the workbook leaves out have an empty stage or
  segment, so the PD join found nothing and their loss is zero (`EclOfRest`).

Assumptions: the named `ASSUME`s of the modules. Constants have the obvious types, and
`None` or `NoPoller` is not one of the identities; there are finitely many rows and names;
`HardLimit < StuckRunning` and `StuckQueued <= StuckRunning` (config.py: 2400 s;
cleanup_tasks.py: 45 and 10 minutes); only LGD and EAD files are blamed across files, and
the classes of contents are disjoint (`InputAssumption`); a wizard names users and kinds
that exist (`WorkspaceAssumption`); months have 28 to 31 days (`MonthDaysAssumption`);
workbooks have finitely many rows and columns, EAD sheets at least one row, segments that are
all texts or all numbers, and in the other cells, dates included, anything of their column's
type or nothing (`BooksAssumption`).

Two theorems have a hypothesis besides: `OnceAMonth` and `WholeInstalments`, above. TLC has
evaluated both as true for the constants of `pd_table` and `loan_book`.

Only model-checked: `ActiveRunSettles` and `CommittedMailEnds`. They are liveness properties, and
the proof system handles neither fairness nor ENABLED. Every invariant and every action property
of the runs that pass is a theorem.

## 5. Not modelled

* Run queries and visibility, lists, paging, downloads, trend and percentages, profile
  and avatar, `switch_tenant`, `update_tenant`: they read, or change columns that no other
  decision reads. `extend_trial` only logs.
* The layout of workbooks, templates, seeds and test data.
* Floating point: the discount factor, the cure rate and the probability that scale an
  exposure, and rounding.
* More than one sheet per LGD and EAD file, columns of segments that mix numbers and texts,
  the wording of issues.
* `run_compute_pipeline_async`, an inline variant that no caller uses.
* Broker TLS, worker start-up, rate limits and middleware.

Inside the modelled components, three things are abstracted: which of several
statements between two commits raises (all behave alike), the contents of
results and workbooks in `RunPipeline` and `RunInputs`, and other runs (they only compete
for slots and locks of other rows).

## 6. Plan

1. `RunPipeline`: what remains true of results when executions overlap.
2. `Validators`: what a PD sheet that passed has, and what the checks across files add, as it was
   done for the LGD and EAD sheets.
3. Composition of `RunInputs` with `RunPipeline` (`RunInputs` as the abstraction of what the
   pipeline does to a run's status).
4. Quarterly loans: a closed form like that of `MonthlyLoansArePaidOff`.
