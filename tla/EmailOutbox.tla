---------------------------- MODULE EmailOutbox ----------------------------
(***************************************************************************)
(* The transactional e-mail outbox.                                        *)
(*                                                                         *)
(*   queue_email_in_outbox   a row is written in the caller's transaction  *)
(*   process_email_outbox    beat task, every 30 s: locks up to 100 pending*)
(*                           rows (SKIP LOCKED), publishes them one by one *)
(*                           and commits all outcomes at the end           *)
(*   send_*_email            Celery tasks that talk to the SMTP server     *)
(*                                                                         *)
(* Polls may overlap: beat starts one every 30 s whether or not the last   *)
(* one has ended.  A poll may die between two rows; its transaction is then*)
(* undone, what it has published is not.                                   *)
(*                                                                         *)
(* Constants                                                               *)
(*   Rows         the mails asked for                                      *)
(*   Unknown      rows whose task_name this release does not know          *)
(*   Pollers      executions of process_email_outbox at the same time      *)
(*   Limit        LIMIT of the SELECT (100)                                *)
(*   MaxAttempts  dispatch attempts before dead_letter (5)                 *)
(*   MaxRetries   max_retries of the mail tasks (3)                        *)
(*   MaxFaults    bound: polls and mail workers lost, and publications that*)
(*                reached the broker although .delay() raised              *)
(***************************************************************************)
EXTENDS Naturals, FiniteSets

CONSTANTS Rows, Unknown, Pollers, Limit, MaxAttempts, MaxRetries, MaxFaults

NoPoller == "none"

ASSUME OutboxAssumption ==
  /\ IsFiniteSet(Rows) /\ Unknown \subseteq Rows /\ NoPoller \notin Pollers
  /\ Limit \in Nat \ {0} /\ MaxAttempts \in Nat \ {0}
  /\ MaxRetries \in Nat /\ MaxFaults \in Nat

VARIABLES
  status,      \* email_outbox.status; "absent", "open" (in a transaction not
               \* yet committed) and "rolled_back" are rows nobody can see
  attempts,    \* email_outbox.dispatch_attempts
  created,     \* rank of email_outbox.created_at, 0 before the row exists
  lockedBy,    \* the poll that holds the row lock
  batch,       \* rows a poll has selected
  todo,        \* those it has not handled yet
  outcome,     \* what a poll will write into status at its commit
  counted,     \* what it will write into dispatch_attempts
  queue,       \* mails in the broker, per row and number of retries
  published,   \* history: messages put into the broker
  delivered,   \* history: mails the SMTP server has accepted
  dropped,     \* history: messages given up by a mail task
  faults       \* crashes and ambiguous publications so far

rowVars  == <<status, attempts, created, lockedBy>>
pollVars == <<batch, todo, outcome, counted>>
mailVars == <<queue, published, delivered, dropped>>
vars == <<rowVars, pollVars, mailVars, faults>>

OutboxStatus == {"absent", "open", "rolled_back", "pending", "dispatched", "dead_letter"}
Settled == {"dispatched", "dead_letter"}

Retries == 0 .. MaxRetries

TypeOK ==
  /\ status \in [Rows -> OutboxStatus]
  /\ attempts \in [Rows -> Nat] /\ created \in [Rows -> Nat]
  /\ lockedBy \in [Rows -> Pollers \cup {NoPoller}]
  /\ batch \in [Pollers -> SUBSET Rows] /\ todo \in [Pollers -> SUBSET Rows]
  /\ outcome \in [Pollers -> [Rows -> {"pending"} \cup Settled]]
  /\ counted \in [Pollers -> [Rows -> Nat]]
  /\ queue \in [Rows -> [Retries -> Nat]]
  /\ published \in [Rows -> Nat] /\ delivered \in [Rows -> Nat]
  /\ dropped \in [Rows -> Nat]
  /\ faults \in 0 .. MaxFaults

Init ==
  /\ status = [r \in Rows |-> "absent"] /\ attempts = [r \in Rows |-> 0]
  /\ created = [r \in Rows |-> 0] /\ lockedBy = [r \in Rows |-> NoPoller]
  /\ batch = [p \in Pollers |-> {}] /\ todo = [p \in Pollers |-> {}]
  /\ outcome = [p \in Pollers |-> [r \in Rows |-> "pending"]]
  /\ counted = [p \in Pollers |-> [r \in Rows |-> 0]]
  /\ queue = [r \in Rows |-> [k \in Retries |-> 0]]
  /\ published = [r \in Rows |-> 0] /\ delivered = [r \in Rows |-> 0]
  /\ dropped = [r \in Rows |-> 0] /\ faults = 0

-----------------------------------------------------------------------------
(* The caller's transaction                                                *)

\* queue_email_in_outbox adds the row to the session; created_at is the time
\* at which the transaction began.
QueueEmail(r) ==
  /\ status[r] = "absent"
  /\ status' = [status EXCEPT ![r] = "open"]
  /\ created' = [created EXCEPT ![r] = 1 + Cardinality({q \in Rows : created[q] # 0})]
  /\ UNCHANGED <<attempts, lockedBy, pollVars, mailVars, faults>>

\* get_db commits when the endpoint returns, and rolls back when it raises.
EndRequest(r) ==
  /\ status[r] = "open"
  /\ \E s \in {"pending", "rolled_back"} : status' = [status EXCEPT ![r] = s]
  /\ UNCHANGED <<attempts, created, lockedBy, pollVars, mailVars, faults>>

-----------------------------------------------------------------------------
(* process_email_outbox                                                    *)

\* Mutant: a plain SELECT, without FOR UPDATE SKIP LOCKED.
SelectableUnlocked(r) == status[r] = "pending"

\* Mutant: the SELECT sees rows of transactions that have not committed.
SelectableDirty(r) == status[r] \in {"open", "pending"} /\ lockedBy[r] = NoPoller

\* Mutant: a row whose dispatch has failed before is not selected again.
SelectableFresh(r) ==
  status[r] = "pending" /\ lockedBy[r] = NoPoller /\ attempts[r] = 0

Selectable(r) == status[r] = "pending" /\ lockedBy[r] = NoPoller

\* ORDER BY created_at LIMIT Limit over the selectable rows.
Selection(S) ==
  LET free == {r \in Rows : Selectable(r)}
  IN  /\ S \subseteq free
      /\ S = free \/ Cardinality(S) = Limit
      /\ Cardinality(S) <= Limit
      /\ \A r \in S, q \in free \ S : created[r] < created[q]

BeginPoll(p) ==
  /\ batch[p] = {}
  /\ \E S \in (SUBSET Rows) \ {{}} :
       /\ Selection(S)
       /\ batch' = [batch EXCEPT ![p] = S] /\ todo' = [todo EXCEPT ![p] = S]
       /\ lockedBy' = [r \in Rows |-> IF r \in S THEN p ELSE lockedBy[r]]
       /\ counted' = [counted EXCEPT ![p] =
                        [r \in Rows |-> IF r \in S THEN attempts[r] ELSE 0]]
  /\ UNCHANGED <<status, attempts, created, outcome, mailVars, faults>>

\* Rows are handled in the order of created_at.
IsNext(p, r) ==
  r \in todo[p] /\ \A q \in todo[p] : created[r] <= created[q]

\* dispatch_attempts += 1, and what the row will become at the commit.
Handle(p, r, s) ==
  /\ todo' = [todo EXCEPT ![p] = @ \ {r}]
  /\ counted' = [counted EXCEPT ![p][r] = @ + 1]
  /\ outcome' = [outcome EXCEPT ![p][r] = s]

Put(r) ==
  /\ queue' = [queue EXCEPT ![r][0] = @ + 1]
  /\ published' = [published EXCEPT ![r] = @ + 1]

\* The task_name is not in DISPATCH.
RejectRow(p, r) ==
  /\ IsNext(p, r) /\ r \in Unknown
  /\ Handle(p, r, "dead_letter")
  /\ UNCHANGED <<rowVars, batch, mailVars, faults>>

\* .delay() returns.
DispatchRow(p, r) ==
  /\ IsNext(p, r) /\ r \notin Unknown
  /\ Put(r)
  /\ Handle(p, r, "dispatched")
  /\ UNCHANGED <<rowVars, batch, delivered, dropped, faults>>

\* Mutant: the row gets a status no other part of the system knows.
AfterFailureUnknown(p, r) ==
  IF counted[p][r] + 1 >= MaxAttempts THEN "failed" ELSE "pending"

\* Mutant: the attempt that has just failed is counted twice.
AfterFailureEarly(p, r) ==
  IF counted[p][r] + 2 >= MaxAttempts THEN "dead_letter" ELSE "pending"

\* Mutant: a row whose dispatch raised is settled like any other.
AfterFailureSettled(p, r) == "dispatched"

AfterFailure(p, r) ==
  IF counted[p][r] + 1 >= MaxAttempts THEN "dead_letter" ELSE "pending"

\* .delay() raises: the broker is down, or it took the message and its answer
\* was lost.
FailRow(p, r) ==
  /\ IsNext(p, r) /\ r \notin Unknown
  /\ Handle(p, r, AfterFailure(p, r))
  /\ \/ UNCHANGED <<mailVars, faults>>
     \/ /\ faults < MaxFaults /\ faults' = faults + 1
        /\ Put(r) /\ UNCHANGED <<delivered, dropped>>
  /\ UNCHANGED <<rowVars, batch>>

\* The transaction and the process of the poll end.
EndPoll(p) ==
  /\ batch' = [batch EXCEPT ![p] = {}]
  /\ todo' = [todo EXCEPT ![p] = {}]
  /\ lockedBy' = [r \in Rows |-> IF lockedBy[r] = p THEN NoPoller ELSE lockedBy[r]]
  /\ outcome' = [outcome EXCEPT ![p] = [r \in Rows |-> "pending"]]
  /\ counted' = [counted EXCEPT ![p] = [r \in Rows |-> 0]]

\* The one commit at the end; the ORM writes the columns that have changed.
CommitPoll(p) ==
  /\ batch[p] # {} /\ todo[p] = {}
  /\ status' = [r \in Rows |-> IF r \in batch[p] /\ outcome[p][r] # "pending"
                                 THEN outcome[p][r] ELSE status[r]]
  /\ attempts' = [r \in Rows |-> IF r \in batch[p] THEN counted[p][r] ELSE attempts[r]]
  /\ EndPoll(p)
  /\ UNCHANGED <<created, mailVars, faults>>

\* The worker is lost, or a time limit stops the poll.
CrashPoll(p) ==
  /\ batch[p] # {} /\ faults < MaxFaults
  /\ EndPoll(p)
  /\ faults' = faults + 1
  /\ UNCHANGED <<status, attempts, created, mailVars>>

-----------------------------------------------------------------------------
(* send_*_email                                                            *)

InQueue(r, k) == queue[r][k] > 0

Deliver(r) == delivered' = [delivered EXCEPT ![r] = @ + 1]

\* The SMTP server takes the mail, and the task is acknowledged.
SendEmail(r, k) ==
  /\ InQueue(r, k)
  /\ Deliver(r)
  /\ queue' = [queue EXCEPT ![r][k] = @ - 1]
  /\ UNCHANGED <<rowVars, pollVars, published, dropped, faults>>

\* task.retry raises the error itself once max_retries is reached.
MayRetry(k) == k < MaxRetries

\* A transient error, or an entity that is not there: again in 30 or 2 s.
RetryEmail(r, k) ==
  /\ InQueue(r, k) /\ MayRetry(k)
  /\ queue' = [queue EXCEPT ![r] = [j \in Retries |->
                  IF j = k THEN queue[r][j] - 1
                  ELSE IF j = k + 1 THEN queue[r][j] + 1 ELSE queue[r][j]]]
  /\ UNCHANGED <<rowVars, pollVars, published, delivered, dropped, faults>>

\* A template error, a refused login, any other error, or one retry too many:
\* the message is acknowledged and gone.
DropEmail(r, k) ==
  /\ InQueue(r, k)
  /\ queue' = [queue EXCEPT ![r][k] = @ - 1]
  /\ dropped' = [dropped EXCEPT ![r] = @ + 1]
  /\ UNCHANGED <<rowVars, pollVars, published, delivered, faults>>

\* The worker is lost after the SMTP server took the mail: acknowledged late,
\* so the message is delivered again.
SendAndLose(r, k) ==
  /\ InQueue(r, k) /\ faults < MaxFaults
  /\ Deliver(r)
  /\ faults' = faults + 1
  /\ UNCHANGED <<rowVars, pollVars, queue, published, dropped>>

-----------------------------------------------------------------------------
RowStep(r) == QueueEmail(r) \/ EndRequest(r)

PollStep(p) ==
  \/ BeginPoll(p)
  \/ \E r \in Rows : RejectRow(p, r) \/ DispatchRow(p, r) \/ FailRow(p, r)
  \/ CommitPoll(p)

MailStep(r, k) == SendEmail(r, k) \/ RetryEmail(r, k) \/ DropEmail(r, k)

Next ==
  \/ \E r \in Rows : RowStep(r)
  \/ \E p \in Pollers : PollStep(p) \/ CrashPoll(p)
  \/ \E r \in Rows, k \in Retries : MailStep(r, k) \/ SendAndLose(r, k)

Spec == Init /\ [][Next]_vars

\* Beat keeps polling and a worker finishes what it has taken, with whatever
\* outcome; callers and faults are never forced.
Fairness ==
  /\ \A p \in Pollers : WF_vars(PollStep(p))
  /\ \A r \in Rows, k \in Retries : WF_vars(MailStep(r, k))

FairSpec == Spec /\ Fairness

-----------------------------------------------------------------------------
(* Properties                                                              *)

\* A committed row is a mail owed until the commit of a poll settles it.
Intent == [r \in Rows |->
  IF status[r] = "pending" THEN "owed"
  ELSE IF status[r] = "dispatched" THEN "handed"
  ELSE IF status[r] = "dead_letter" THEN "given_up" ELSE "none"]

Promised == INSTANCE MailPromise WITH intent <- Intent

\* process_email_outbox implements that promise: mails of a transaction that
\* rolled back are never published, a committed one is handed over only once
\* the broker has it, and a settled row is never touched again, whatever polls
\* overlap or die halfway.
KeepsPromise == Promised!Spec

\* Overlapping polls never publish the same row twice: SKIP LOCKED gives each
\* row to one poll, and only a lost poll or a lost answer of the broker can
\* lead to another copy.
DuplicatesOnlyByFaults == \A r \in Rows : published[r] <= 1 + faults

\* A row is given up only for a reason: an unknown task_name, or MaxAttempts
\* dispatches that raised.
DeadLetterHasReason ==
  \A r \in Rows : status[r] = "dead_letter" => r \in Unknown \/ attempts[r] >= MaxAttempts

\* Every message is accounted for: a mail that is marked dispatched has been
\* sent, is waiting in the broker, or was given up by its task.
DispatchedIsAccountedFor ==
  \A r \in Rows : status[r] = "dispatched" =>
    delivered[r] > 0 \/ dropped[r] > 0 \/ \E k \in Retries : InQueue(r, k)

\* Every committed mail comes to an end: it is sent, given up by its task, or a
\* dead letter.  Failing rows at the head of the batch do not starve the ones
\* behind them, and no message is retried for ever.
CommittedMailEnds ==
  \A r \in Rows : (status[r] = "pending") ~>
    (delivered[r] > 0 \/ dropped[r] > 0 \/ status[r] = "dead_letter")

=============================================================================
