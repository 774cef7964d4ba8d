------------------------- MODULE EmailOutboxProofs -------------------------
(***************************************************************************)
(* Proofs about EmailOutbox, for every set of rows and of overlapping polls*)
(* and every value of the limits.                                          *)
(***************************************************************************)
EXTENDS EmailOutbox, FiniteSetTheorems, TLAPS

USE OutboxAssumption

\* What the steps of a poll on one row keep: the types of its memory.
LEMMA HandleType ==
  ASSUME TypeOK, NEW p \in Pollers, NEW r \in Rows,
         NEW s \in {"pending"} \cup Settled, Handle(p, r, s)
  PROVE  /\ todo' \in [Pollers -> SUBSET Rows]
         /\ counted' \in [Pollers -> [Rows -> Nat]]
         /\ outcome' \in [Pollers -> [Rows -> {"pending"} \cup Settled]]
<1>1. todo' \in [Pollers -> SUBSET Rows]
  BY DEF TypeOK, Handle
<1>2. counted' \in [Pollers -> [Rows -> Nat]]
  <2>1. [counted[p] EXCEPT ![r] = @ + 1] \in [Rows -> Nat]
    BY DEF TypeOK
  <2>2. QED BY <2>1 DEF TypeOK, Handle
<1>3. outcome' \in [Pollers -> [Rows -> {"pending"} \cup Settled]]
  <2>1. [outcome[p] EXCEPT ![r] = s] \in [Rows -> {"pending"} \cup Settled]
    BY DEF TypeOK
  <2>2. QED BY <2>1 DEF TypeOK, Handle
<1>4. QED BY <1>1, <1>2, <1>3

\* The same for the broker when a message is put into it or moved.
LEMMA QueueType ==
  ASSUME TypeOK, NEW r \in Rows, NEW f \in [Retries -> Nat]
  PROVE  [queue EXCEPT ![r] = f] \in [Rows -> [Retries -> Nat]]
BY DEF TypeOK

LEMMA PutType ==
  ASSUME TypeOK, NEW r \in Rows, Put(r)
  PROVE  queue' \in [Rows -> [Retries -> Nat]] /\ published' \in [Rows -> Nat]
<1>1. [queue[r] EXCEPT ![0] = @ + 1] \in [Retries -> Nat]
  BY DEF TypeOK, Retries
<1>2. queue' = [queue EXCEPT ![r] = [queue[r] EXCEPT ![0] = @ + 1]]
  BY DEF Put, TypeOK
<1>3. QED BY <1>1, <1>2, QueueType DEF Put, TypeOK

\* The type invariant is preserved by every step.
LEMMA OutboxTypeStep == TypeOK /\ [Next]_vars => TypeOK'
<1> SUFFICES ASSUME TypeOK, [Next]_vars PROVE TypeOK'
  OBVIOUS
<1>1. ASSUME NEW r \in Rows, QueueEmail(r) PROVE TypeOK'
  <2>1. Cardinality({q \in Rows : created[q] # 0}) \in Nat
    BY FS_Subset, FS_CardinalityType
  <2>2. QED BY <1>1, <2>1 DEF TypeOK, OutboxStatus, QueueEmail, pollVars, mailVars
<1>2. ASSUME NEW r \in Rows, EndRequest(r) PROVE TypeOK'
  BY <1>2 DEF TypeOK, OutboxStatus, EndRequest, pollVars, mailVars
<1>3. ASSUME NEW p \in Pollers, BeginPoll(p) PROVE TypeOK'
  <2>1. PICK S \in SUBSET Rows :
          /\ batch' = [batch EXCEPT ![p] = S] /\ todo' = [todo EXCEPT ![p] = S]
          /\ lockedBy' = [r \in Rows |-> IF r \in S THEN p ELSE lockedBy[r]]
          /\ counted' = [counted EXCEPT ![p] =
                           [r \in Rows |-> IF r \in S THEN attempts[r] ELSE 0]]
    BY <1>3 DEF BeginPoll
  <2>2. [r \in Rows |-> IF r \in S THEN attempts[r] ELSE 0] \in [Rows -> Nat]
    BY DEF TypeOK
  <2>3. counted' \in [Pollers -> [Rows -> Nat]]
    BY <2>1, <2>2 DEF TypeOK
  <2>4. /\ batch' \in [Pollers -> SUBSET Rows] /\ todo' \in [Pollers -> SUBSET Rows]
        /\ lockedBy' \in [Rows -> Pollers \cup {NoPoller}]
    BY <2>1 DEF TypeOK
  <2>5. QED BY <1>3, <2>3, <2>4 DEF TypeOK, BeginPoll, mailVars
<1>4. ASSUME NEW p \in Pollers, NEW r \in Rows, RejectRow(p, r) PROVE TypeOK'
  <2>1. Handle(p, r, "dead_letter") /\ "dead_letter" \in {"pending"} \cup Settled
    BY <1>4 DEF RejectRow, Settled
  <2>2. QED BY <1>4, <2>1, HandleType DEF TypeOK, RejectRow, rowVars, mailVars
<1>5. ASSUME NEW p \in Pollers, NEW r \in Rows, DispatchRow(p, r) PROVE TypeOK'
  <2>1. Handle(p, r, "dispatched") /\ "dispatched" \in {"pending"} \cup Settled /\ Put(r)
    BY <1>5 DEF DispatchRow, Settled
  <2>2. QED BY <1>5, <2>1, HandleType, PutType DEF TypeOK, DispatchRow, rowVars
<1>6. ASSUME NEW p \in Pollers, NEW r \in Rows, FailRow(p, r) PROVE TypeOK'
  <2>1. /\ Handle(p, r, AfterFailure(p, r))
        /\ AfterFailure(p, r) \in {"pending"} \cup Settled
    BY <1>6 DEF FailRow, AfterFailure, Settled
  <2>2. CASE UNCHANGED <<mailVars, faults>>
    BY <1>6, <2>1, <2>2, HandleType DEF TypeOK, FailRow, rowVars, mailVars
  <2>3. CASE faults < MaxFaults /\ faults' = faults + 1 /\ Put(r)
             /\ UNCHANGED <<delivered, dropped>>
    <3>1. /\ queue' \in [Rows -> [Retries -> Nat]] /\ published' \in [Rows -> Nat]
          /\ faults' \in 0 .. MaxFaults
      BY <2>3, PutType DEF TypeOK
    <3>2. QED BY <1>6, <2>1, <2>3, <3>1, HandleType DEF TypeOK, FailRow, rowVars
  <2>4. QED BY <1>6, <2>2, <2>3 DEF FailRow
<1>7. ASSUME NEW p \in Pollers, CommitPoll(p) \/ CrashPoll(p) PROVE TypeOK'
  <2>1. EndPoll(p)
    BY <1>7 DEF CommitPoll, CrashPoll
  <2>2. /\ [r \in Rows |-> "pending"] \in [Rows -> {"pending"} \cup Settled]
        /\ [r \in Rows |-> 0] \in [Rows -> Nat]
    OBVIOUS
  <2>3. /\ batch' \in [Pollers -> SUBSET Rows] /\ todo' \in [Pollers -> SUBSET Rows]
        /\ lockedBy' \in [Rows -> Pollers \cup {NoPoller}]
    BY <2>1 DEF TypeOK, EndPoll
  <2>4. /\ counted' \in [Pollers -> [Rows -> Nat]]
        /\ outcome' \in [Pollers -> [Rows -> {"pending"} \cup Settled]]
    BY <2>1, <2>2 DEF TypeOK, EndPoll
  <2>5. status' \in [Rows -> OutboxStatus]
    <3>1. CASE CrashPoll(p)
      BY <3>1 DEF TypeOK, CrashPoll
    <3>2. CASE CommitPoll(p)
      <4>1. \A r \in Rows : outcome[p][r] \in OutboxStatus /\ status[r] \in OutboxStatus
        BY DEF TypeOK, OutboxStatus, Settled
      <4>2. QED BY <3>2, <4>1 DEF CommitPoll
    <3>3. QED BY <1>7, <3>1, <3>2
  <2>6. attempts' \in [Rows -> Nat]
    BY <1>7 DEF TypeOK, CommitPoll, CrashPoll
  <2>7. QED
    BY <1>7, <2>3, <2>4, <2>5, <2>6 DEF TypeOK, CommitPoll, CrashPoll, mailVars
<1>8. ASSUME NEW r \in Rows, NEW k \in Retries, SendEmail(r, k) \/ DropEmail(r, k)
      PROVE  TypeOK'
  <2>1. [queue[r] EXCEPT ![k] = @ - 1] \in [Retries -> Nat]
    BY <1>8 DEF SendEmail, DropEmail, InQueue, TypeOK
  <2>2. queue' = [queue EXCEPT ![r] = [queue[r] EXCEPT ![k] = @ - 1]]
    BY <1>8 DEF SendEmail, DropEmail, TypeOK
  <2>3. queue' \in [Rows -> [Retries -> Nat]]
    BY <2>1, <2>2, QueueType
  <2>4. delivered' \in [Rows -> Nat] /\ dropped' \in [Rows -> Nat]
    <3>1. CASE SendEmail(r, k)
      BY <3>1 DEF TypeOK, SendEmail, Deliver
    <3>2. CASE DropEmail(r, k)
      BY <3>2 DEF TypeOK, DropEmail
    <3>3. QED BY <1>8, <3>1, <3>2
  <2>5. QED
    BY <1>8, <2>3, <2>4 DEF TypeOK, SendEmail, DropEmail, rowVars, pollVars
<1>9. ASSUME NEW r \in Rows, NEW k \in Retries, RetryEmail(r, k) PROVE TypeOK'
  <2> DEFINE f == [j \in Retries |-> IF j = k THEN queue[r][j] - 1
                     ELSE IF j = k + 1 THEN queue[r][j] + 1 ELSE queue[r][j]]
  <2>1. f \in [Retries -> Nat]
    BY <1>9 DEF RetryEmail, InQueue, TypeOK
  <2>2. queue' = [queue EXCEPT ![r] = f]
    BY <1>9 DEF RetryEmail
  <2>3. queue' \in [Rows -> [Retries -> Nat]]
    BY <2>1, <2>2, QueueType
  <2>4. QED BY <1>9, <2>3 DEF TypeOK, RetryEmail, rowVars, pollVars
<1>10. ASSUME NEW r \in Rows, NEW k \in Retries, SendAndLose(r, k) PROVE TypeOK'
  BY <1>10 DEF TypeOK, SendAndLose, Deliver, rowVars, pollVars
<1>11. CASE UNCHANGED vars
  BY <1>11 DEF TypeOK, vars, rowVars, pollVars, mailVars
<1>12. QED
  BY <1>1, <1>2, <1>3, <1>4, <1>5, <1>6, <1>7, <1>8, <1>9, <1>10, <1>11
     DEF Next, RowStep, PollStep, MailStep

\* The table, the polls and the broker always hold values of their types, and
\* the number of faults stays within its bound.
THEOREM OutboxTypeCorrect == Spec => []TypeOK
<1>1. Init => TypeOK
  BY DEF Init, TypeOK, OutboxStatus
<1>2. QED BY <1>1, OutboxTypeStep, PTL DEF Spec

-----------------------------------------------------------------------------
(* The invariant.  A row is held by exactly the poll that locked it, stays *)
(* pending while it is held, and is settled by what that poll decided.     *)

\* Locks, batches and the rows still to do agree, and a held row is pending.
Ownership ==
  /\ \A p \in Pollers, r \in Rows : r \in batch[p] <=> lockedBy[r] = p
  /\ \A p \in Pollers : todo[p] \subseteq batch[p]
  /\ \A p \in Pollers, r \in Rows :
       (r \in batch[p] => status[r] = "pending")
       /\ (r \notin batch[p] \/ r \in todo[p] => outcome[p][r] = "pending")

\* Every copy but one is paid for by a fault; the free one is spent by the
\* dispatch that settles the row.
CopiesPaid ==
  \A r \in Rows :
    /\ published[r] <= 1 + faults
    /\ \/ published[r] <= faults
       \/ status[r] = "dispatched"
       \/ \E p \in Pollers : outcome[p][r] = "dispatched"

\* Only committed rows are published, and dispatched means published.
PublishedOk ==
  \A r \in Rows :
    /\ published[r] > 0 => status[r] \in {"pending"} \cup Settled
    /\ status[r] = "dispatched" => published[r] > 0
    /\ \A p \in Pollers : outcome[p][r] = "dispatched" => published[r] > 0

\* The reason of a dead letter is known when the poll decides on it.
ReasonKnown ==
  \A r \in Rows :
    /\ status[r] = "dead_letter" => r \in Unknown \/ attempts[r] >= MaxAttempts
    /\ \A p \in Pollers : outcome[p][r] = "dead_letter" =>
                            r \in Unknown \/ counted[p][r] >= MaxAttempts

OutboxInv == Ownership /\ CopiesPaid /\ PublishedOk /\ ReasonKnown

\* One row is handled by the poll that owns it.
LEMMA HandleStep ==
  ASSUME TypeOK, OutboxInv, NEW p \in Pollers, NEW r \in Rows,
         RejectRow(p, r) \/ DispatchRow(p, r) \/ FailRow(p, r)
  PROVE  OutboxInv'
<1>1. /\ r \in todo[p] /\ r \in batch[p] /\ status[r] = "pending"
      /\ \A q \in Pollers : r \in batch[q] => q = p
      /\ \A q \in Pollers : outcome[q][r] = "pending"
  BY DEF RejectRow, DispatchRow, FailRow, IsNext, OutboxInv, Ownership
<1>2. PICK s \in {"pending"} \cup Settled :
        /\ Handle(p, r, s) /\ UNCHANGED <<rowVars, batch>>
        /\ s = "dispatched" => DispatchRow(p, r)
        /\ DispatchRow(p, r) => s = "dispatched"
        /\ s = "dead_letter" => r \in Unknown \/ counted[p][r] + 1 >= MaxAttempts
  <2>1. CASE RejectRow(p, r)
    BY <2>1 DEF RejectRow, DispatchRow, Settled
  <2>2. CASE DispatchRow(p, r)
    BY <2>2 DEF DispatchRow, Settled
  <2>3. CASE FailRow(p, r) /\ ~DispatchRow(p, r)
    BY <2>3 DEF FailRow, AfterFailure, Settled
  <2>4. QED BY <2>1, <2>2, <2>3
<1>3. /\ todo' = [todo EXCEPT ![p] = @ \ {r}]
      /\ \A q \in Pollers, x \in Rows :
           /\ outcome'[q][x] = IF q = p /\ x = r THEN s ELSE outcome[q][x]
           /\ counted'[q][x] = IF q = p /\ x = r THEN counted[p][r] + 1 ELSE counted[q][x]
  BY <1>2 DEF Handle, TypeOK
<1>4. /\ \A x \in Rows : x # r => published'[x] = published[x]
      /\ faults' \in Nat /\ faults \in Nat
      /\ \/ published'[r] = published[r] /\ faults' = faults /\ s # "dispatched"
         \/ published'[r] = published[r] + 1 /\ faults' = faults + 1 /\ s # "dispatched"
         \/ published'[r] = published[r] + 1 /\ faults' = faults /\ s = "dispatched"
  <2>1. CASE RejectRow(p, r)
    BY <1>2, <2>1 DEF RejectRow, DispatchRow, mailVars, TypeOK
  <2>2. CASE DispatchRow(p, r)
    BY <1>2, <2>2 DEF DispatchRow, Put, TypeOK
  <2>3. CASE FailRow(p, r) /\ s # "dispatched"
    BY <1>2, <2>3 DEF FailRow, Put, mailVars, TypeOK
  <2>4. QED BY <1>2, <2>1, <2>2, <2>3
<1>5. Ownership'
  BY <1>1, <1>2, <1>3 DEF OutboxInv, Ownership, rowVars, TypeOK
<1>6. CopiesPaid'
  <2> SUFFICES ASSUME NEW x \in Rows
               PROVE  /\ published'[x] <= 1 + faults'
                      /\ \/ published'[x] <= faults'
                         \/ status'[x] = "dispatched"
                         \/ \E q \in Pollers : outcome'[q][x] = "dispatched"
    BY DEF CopiesPaid
  <2>1. /\ published[x] \in Nat /\ published[r] \in Nat /\ status' = status
        /\ published[x] <= 1 + faults
        /\ \/ published[x] <= faults
           \/ status[x] = "dispatched"
           \/ \E q \in Pollers : outcome[q][x] = "dispatched"
    BY <1>2 DEF OutboxInv, CopiesPaid, rowVars, TypeOK
  <2>2. CASE x = r
    BY <1>1, <1>3, <1>4, <2>1, <2>2
  <2>3. CASE x # r
    BY <1>3, <1>4, <2>1, <2>3
  <2>4. QED BY <2>2, <2>3
<1>7. PublishedOk'
  <2> SUFFICES ASSUME NEW x \in Rows
               PROVE  /\ published'[x] > 0 => status'[x] \in {"pending"} \cup Settled
                      /\ status'[x] = "dispatched" => published'[x] > 0
                      /\ \A q \in Pollers : outcome'[q][x] = "dispatched" => published'[x] > 0
    BY DEF PublishedOk
  <2>1. /\ published[x] \in Nat /\ published[r] \in Nat /\ status' = status
        /\ published[x] > 0 => status[x] \in {"pending"} \cup Settled
        /\ status[x] = "dispatched" => published[x] > 0
        /\ \A q \in Pollers : outcome[q][x] = "dispatched" => published[x] > 0
    BY <1>2 DEF OutboxInv, PublishedOk, rowVars, TypeOK
  <2>2. CASE x = r
    BY <1>1, <1>3, <1>4, <2>1, <2>2
  <2>3. CASE x # r
    BY <1>3, <1>4, <2>1, <2>3
  <2>4. QED BY <2>2, <2>3
<1>8. ReasonKnown'
  BY <1>1, <1>2, <1>3 DEF OutboxInv, ReasonKnown, rowVars, TypeOK
<1>9. QED BY <1>5, <1>6, <1>7, <1>8 DEF OutboxInv

\* A poll ends, by its commit or by a crash.
LEMMA EndStep ==
  ASSUME TypeOK, OutboxInv, NEW p \in Pollers, CommitPoll(p) \/ CrashPoll(p)
  PROVE  OutboxInv'
<1>1. EndPoll(p) /\ published' = published
  BY DEF CommitPoll, CrashPoll, mailVars
<1>2. \A q \in Pollers :
        /\ batch'[q] = IF q = p THEN {} ELSE batch[q]
        /\ todo'[q] = IF q = p THEN {} ELSE todo[q]
        /\ q # p => outcome'[q] = outcome[q] /\ counted'[q] = counted[q]
  BY <1>1 DEF EndPoll, TypeOK
<1>3. \A r \in Rows :
        /\ outcome'[p][r] = "pending"
        /\ lockedBy'[r] = IF lockedBy[r] = p THEN NoPoller ELSE lockedBy[r]
  BY <1>1 DEF EndPoll, TypeOK
<1>4. \A r \in Rows :
        \/ CrashPoll(p) /\ status'[r] = status[r] /\ attempts'[r] = attempts[r]
        \/ /\ CommitPoll(p) /\ r \notin batch[p]
           /\ status'[r] = status[r] /\ attempts'[r] = attempts[r]
        \/ /\ CommitPoll(p) /\ r \in batch[p] /\ status[r] = "pending"
           /\ status'[r] = outcome[p][r] /\ attempts'[r] = counted[p][r]
  BY DEF CommitPoll, CrashPoll, OutboxInv, Ownership, TypeOK
<1>5. Ownership'
  <2>1. \A q \in Pollers, r \in Rows : r \in batch'[q] <=> lockedBy'[r] = q
    BY <1>2, <1>3 DEF OutboxInv, Ownership
  <2>2. \A q \in Pollers : todo'[q] \subseteq batch'[q]
    BY <1>2 DEF OutboxInv, Ownership
  <2>3. \A q \in Pollers, r \in Rows : r \in batch'[q] => status'[r] = "pending"
    <3>1. \A q \in Pollers, r \in Rows : r \in batch'[q] => q # p /\ r \in batch[q] /\ r \notin batch[p]
      BY <1>2 DEF OutboxInv, Ownership
    <3>2. QED BY <1>4, <3>1 DEF OutboxInv, Ownership
  <2>4. \A q \in Pollers, r \in Rows :
          r \notin batch'[q] \/ r \in todo'[q] => outcome'[q][r] = "pending"
    BY <1>2, <1>3 DEF OutboxInv, Ownership
  <2>5. QED BY <2>1, <2>2, <2>3, <2>4 DEF Ownership
<1>6. CopiesPaid'
  <2> SUFFICES ASSUME NEW r \in Rows
               PROVE  /\ published'[r] <= 1 + faults'
                      /\ \/ published'[r] <= faults'
                         \/ status'[r] = "dispatched"
                         \/ \E q \in Pollers : outcome'[q][r] = "dispatched"
    BY DEF CopiesPaid
  <2>1. /\ published[r] \in Nat /\ faults \in Nat /\ published[r] <= 1 + faults
        /\ \/ published[r] <= faults
           \/ status[r] = "dispatched"
           \/ \E q \in Pollers : outcome[q][r] = "dispatched"
    BY DEF OutboxInv, CopiesPaid, TypeOK
  <2>2. CASE CrashPoll(p)
    BY <1>1, <2>1, <2>2 DEF CrashPoll
  <2>3. CASE CommitPoll(p) /\ ~CrashPoll(p)
    <3>1. faults' = faults
      BY <2>3 DEF CommitPoll
    <3>2. status[r] = "dispatched" => status'[r] = "dispatched"
      BY <1>4, <2>3
    <3>3. outcome[p][r] = "dispatched" => status'[r] = "dispatched"
      BY <1>4, <2>3 DEF OutboxInv, Ownership
    <3>4. QED BY <1>1, <1>2, <2>1, <3>1, <3>2, <3>3
  <2>4. QED BY <2>2, <2>3
<1>7. PublishedOk'
  <2> SUFFICES ASSUME NEW r \in Rows
               PROVE  /\ published[r] > 0 => status'[r] \in {"pending"} \cup Settled
                      /\ status'[r] = "dispatched" => published[r] > 0
                      /\ \A q \in Pollers : outcome'[q][r] = "dispatched" => published[r] > 0
    BY <1>1 DEF PublishedOk
  <2>1. outcome[p][r] \in {"pending"} \cup Settled
    BY DEF TypeOK
  <2>2. QED BY <1>2, <1>3, <1>4, <2>1 DEF OutboxInv, PublishedOk
<1>8. ReasonKnown'
  BY <1>2, <1>3, <1>4 DEF OutboxInv, ReasonKnown
<1>9. QED BY <1>5, <1>6, <1>7, <1>8 DEF OutboxInv

LEMMA OutboxStep == TypeOK /\ OutboxInv /\ [Next]_vars => OutboxInv'
<1> SUFFICES ASSUME TypeOK, OutboxInv, [Next]_vars PROVE OutboxInv'
  OBVIOUS
<1>1. ASSUME NEW r \in Rows, RowStep(r) PROVE OutboxInv'
  <2>1. /\ UNCHANGED <<attempts, lockedBy, pollVars, mailVars, faults>>
        /\ status[r] \in {"absent", "open"}
        /\ status'[r] \notin Settled
        /\ \A q \in Rows : q # r => status'[q] = status[q]
    BY <1>1 DEF RowStep, QueueEmail, EndRequest, TypeOK, Settled
  <2>2. published[r] = 0 /\ \A p \in Pollers : r \notin batch[p]
    <3>1. published[r] \in Nat /\ ~(published[r] > 0)
      BY <2>1 DEF OutboxInv, PublishedOk, Settled, TypeOK
    <3>2. QED BY <2>1, <3>1 DEF OutboxInv, Ownership
  <2>3. QED
    BY <2>1, <2>2, ZenonT(60) DEF OutboxInv, Ownership, CopiesPaid, PublishedOk, ReasonKnown,
       Settled, pollVars, mailVars, TypeOK
<1>2. ASSUME NEW p \in Pollers, BeginPoll(p) PROVE OutboxInv'
  <2>1. PICK S \in SUBSET Rows :
          /\ \A r \in S : status[r] = "pending" /\ lockedBy[r] = NoPoller
          /\ batch' = [batch EXCEPT ![p] = S] /\ todo' = [todo EXCEPT ![p] = S]
          /\ lockedBy' = [r \in Rows |-> IF r \in S THEN p ELSE lockedBy[r]]
          /\ counted' = [counted EXCEPT ![p] =
                           [r \in Rows |-> IF r \in S THEN attempts[r] ELSE 0]]
    BY <1>2 DEF BeginPoll, Selection, Selectable
  <2>2. /\ UNCHANGED <<status, attempts, outcome, published, faults>>
        /\ batch[p] = {}
    BY <1>2 DEF BeginPoll, mailVars
  <2>3. \A r \in Rows : outcome[p][r] = "pending"
    BY <2>2 DEF OutboxInv, Ownership
  <2>4. Ownership'
    BY <2>1, <2>2, <2>3 DEF OutboxInv, Ownership, TypeOK
  <2>5. (CopiesPaid /\ PublishedOk)'
    BY <2>2 DEF OutboxInv, CopiesPaid, PublishedOk
  <2>6. ReasonKnown'
    BY <2>1, <2>2, <2>3 DEF OutboxInv, ReasonKnown, TypeOK
  <2>7. QED BY <2>4, <2>5, <2>6 DEF OutboxInv
<1>3. ASSUME NEW p \in Pollers, NEW r \in Rows,
             RejectRow(p, r) \/ DispatchRow(p, r) \/ FailRow(p, r)
      PROVE  OutboxInv'
  BY <1>3, HandleStep
<1>4. ASSUME NEW p \in Pollers, CommitPoll(p) \/ CrashPoll(p) PROVE OutboxInv'
  BY <1>4, EndStep
<1>5. ASSUME NEW r \in Rows, NEW k \in Retries, MailStep(r, k) \/ SendAndLose(r, k)
      PROVE  OutboxInv'
  <2>1. /\ UNCHANGED <<rowVars, pollVars, published>>
        /\ faults' \in {faults, faults + 1}
    BY <1>5 DEF MailStep, SendEmail, RetryEmail, DropEmail, SendAndLose
  <2>2. QED
    BY <2>1 DEF OutboxInv, Ownership, CopiesPaid, PublishedOk, ReasonKnown,
       rowVars, pollVars, TypeOK
<1>6. CASE UNCHANGED vars
  BY <1>6 DEF OutboxInv, Ownership, CopiesPaid, PublishedOk, ReasonKnown,
     vars, rowVars, pollVars, mailVars
<1>7. QED BY <1>1, <1>2, <1>3, <1>4, <1>5, <1>6 DEF Next, PollStep

LEMMA OutboxInvariant == Spec => [](TypeOK /\ OutboxInv)
<1>1. Init => OutboxInv
  BY DEF Init, OutboxInv, Ownership, CopiesPaid, PublishedOk, ReasonKnown
<1>2. QED BY <1>1, OutboxTypeCorrect, OutboxStep, PTL DEF Spec

\* Overlapping polls never publish a row twice; every further copy is paid for
\* by a lost poll or a lost answer of the broker.
THEOREM NoFreeDuplicates == Spec => []DuplicatesOnlyByFaults
<1>1. OutboxInv => DuplicatesOnlyByFaults
  BY DEF OutboxInv, CopiesPaid, DuplicatesOnlyByFaults
<1>2. QED BY <1>1, OutboxInvariant, PTL

\* No row is given up before its attempts are used up, also when polls that
\* counted them have crashed.
THEOREM DeadLettersAreJustified == Spec => []DeadLetterHasReason
<1>1. OutboxInv => DeadLetterHasReason
  BY DEF OutboxInv, ReasonKnown, DeadLetterHasReason
<1>2. QED BY <1>1, OutboxInvariant, PTL

-----------------------------------------------------------------------------
(* Refinement: every step of the outbox is a step of MailPromise, or none. *)

LEMMA IntentOf ==
  ASSUME TypeOK
  PROVE  /\ Intent \in [Rows -> {"none", "owed", "handed", "given_up"}]
         /\ \A r \in Rows :
              /\ status[r] = "pending" <=> Intent[r] = "owed"
              /\ status[r] = "dispatched" <=> Intent[r] = "handed"
              /\ status[r] = "dead_letter" <=> Intent[r] = "given_up"
              /\ status[r] \in {"absent", "open", "rolled_back"} <=> Intent[r] = "none"
BY DEF TypeOK, OutboxStatus, Intent

LEMMA PublishIsPromised ==
  ASSUME TypeOK, NEW r \in Rows, status[r] = "pending", Put(r), status' = status
  PROVE  Promised!Publish(r)
BY IntentOf DEF Put, Intent, Promised!Publish

LEMMA CommitIsPromised ==
  ASSUME TypeOK, TypeOK', OutboxInv, NEW p \in Pollers, CommitPoll(p)
  PROVE  Promised!Settle
<1>1. \A r \in Rows : status'[r] # status[r] =>
        /\ status[r] = "pending" /\ status'[r] \in Settled
        /\ status'[r] = "dispatched" => published[r] > 0
  BY DEF CommitPoll, OutboxInv, Ownership, PublishedOk, TypeOK, Settled
<1>2. Intent' \in [Rows -> {"none", "owed", "handed", "given_up"}]
  BY DEF TypeOK, OutboxStatus, Intent
<1>3. \A r \in Rows : Intent'[r] # Intent[r] =>
        /\ Intent[r] = "owed" /\ Intent'[r] \in {"handed", "given_up"}
        /\ Intent'[r] = "handed" => published[r] > 0
  BY <1>1 DEF Intent, Settled
<1>4. published' = published
  BY DEF CommitPoll, mailVars
<1>5. QED BY <1>2, <1>3, <1>4 DEF Promised!Settle

\* The outbox keeps its promise: nothing is published for a transaction that
\* did not commit, a mail is marked dispatched only when the broker has it, and
\* settled mails stay settled.
THEOREM OutboxKeepsPromise == Spec => KeepsPromise
<1>1. Init => Promised!Init
  BY DEF Init, Intent, Promised!Init
<1>2. ASSUME TypeOK, TypeOK', OutboxInv, [Next]_vars
      PROVE  [Promised!Next]_(Promised!vars)
  <2>1. ASSUME NEW r \in Rows, RowStep(r) PROVE [Promised!Next]_(Promised!vars)
    <3>1. CASE QueueEmail(r)
      <4>1. Intent' = Intent /\ published' = published
        BY <1>2, <3>1 DEF QueueEmail, Intent, mailVars, TypeOK
      <4>2. QED BY <4>1 DEF Promised!vars
    <3>2. CASE EndRequest(r) /\ status'[r] = "pending"
      <4>1. Intent[r] = "none" /\ Intent' = [Intent EXCEPT ![r] = "owed"]
            /\ published' = published
        BY <1>2, <3>2, ZenonT(60) DEF EndRequest, Intent, mailVars, TypeOK
      <4>2. QED BY <4>1 DEF Promised!Next, Promised!Promise
    <3>3. CASE EndRequest(r) /\ status'[r] # "pending"
      <4>1. Intent' = Intent /\ published' = published
        BY <1>2, <3>3 DEF EndRequest, Intent, mailVars, TypeOK
      <4>2. QED BY <4>1 DEF Promised!vars
    <3>4. QED BY <2>1, <3>1, <3>2, <3>3 DEF RowStep
  <2>2. ASSUME NEW p \in Pollers, NEW r \in Rows, DispatchRow(p, r) \/ FailRow(p, r)
        PROVE  [Promised!Next]_(Promised!vars)
    <3>1. status[r] = "pending" /\ status' = status
      BY <1>2, <2>2 DEF DispatchRow, FailRow, IsNext, OutboxInv, Ownership, rowVars
    <3>2. CASE Put(r)
      BY <1>2, <3>1, <3>2, PublishIsPromised DEF Promised!Next
    <3>3. CASE UNCHANGED mailVars
      BY <3>1, <3>3 DEF mailVars, Intent, Promised!vars
    <3>4. QED BY <2>2, <3>2, <3>3 DEF DispatchRow, FailRow
  <2>3. ASSUME NEW p \in Pollers, CommitPoll(p) PROVE [Promised!Next]_(Promised!vars)
    BY <1>2, <2>3, CommitIsPromised DEF Promised!Next
  <2>4. ASSUME \/ \E p \in Pollers : BeginPoll(p) \/ CrashPoll(p)
               \/ \E p \in Pollers, r \in Rows : RejectRow(p, r)
               \/ \E r \in Rows, k \in Retries : MailStep(r, k) \/ SendAndLose(r, k)
               \/ UNCHANGED vars
        PROVE  [Promised!Next]_(Promised!vars)
    <3>1. status' = status /\ published' = published
      BY <2>4 DEF BeginPoll, CrashPoll, RejectRow, MailStep, SendEmail, RetryEmail,
         DropEmail, SendAndLose, vars, rowVars, mailVars
    <3>2. QED BY <3>1 DEF Intent, Promised!vars
  <2>5. QED BY <1>2, <2>1, <2>2, <2>3, <2>4 DEF Next, PollStep
<1>3. QED
  BY <1>1, <1>2, OutboxInvariant, PTL DEF Spec, KeepsPromise, Promised!Spec

-----------------------------------------------------------------------------
(* Messages do not vanish between the broker and the mail tasks.           *)

\* Some copy of a published mail is in the broker, was sent or was given up.
MessagesKept ==
  \A r \in Rows : published[r] > 0 =>
    delivered[r] > 0 \/ dropped[r] > 0 \/ \E k \in Retries : InQueue(r, k)

LEMMA MessagesKeptStep == TypeOK /\ MessagesKept /\ [Next]_vars => MessagesKept'
<1> SUFFICES ASSUME TypeOK, MessagesKept, [Next]_vars, NEW x \in Rows, published'[x] > 0
             PROVE  \/ delivered'[x] > 0 \/ dropped'[x] > 0
                    \/ \E k \in Retries : queue'[x][k] > 0
  BY DEF MessagesKept, InQueue
<1>0. /\ published[x] \in Nat /\ delivered[x] \in Nat /\ dropped[x] \in Nat
      /\ queue[x] \in [Retries -> Nat] /\ 0 \in Retries
      /\ published[x] > 0 => \/ delivered[x] > 0 \/ dropped[x] > 0
                             \/ \E k \in Retries : queue[x][k] > 0
  BY DEF TypeOK, MessagesKept, InQueue, Retries
<1>1. CASE UNCHANGED mailVars
  BY <1>0, <1>1 DEF mailVars
<1>2. ASSUME NEW r \in Rows, Put(r), UNCHANGED <<delivered, dropped>>
      PROVE  \/ delivered'[x] > 0 \/ dropped'[x] > 0
             \/ \E k \in Retries : queue'[x][k] > 0
  <2>1. CASE x = r
    <3>1. queue'[x][0] = queue[x][0] + 1 /\ queue[x][0] \in Nat
      BY <1>0, <1>2, <2>1 DEF Put, TypeOK
    <3>2. QED BY <1>0, <3>1
  <2>2. CASE x # r
    <3>1. queue'[x] = queue[x] /\ published'[x] = published[x]
      BY <1>2, <2>2 DEF Put, TypeOK
    <3>2. QED BY <1>0, <1>2, <3>1
  <2>3. QED BY <2>1, <2>2
<1>3. ASSUME NEW r \in Rows, NEW k \in Retries, MailStep(r, k) \/ SendAndLose(r, k)
      PROVE  \/ delivered'[x] > 0 \/ dropped'[x] > 0
             \/ \E j \in Retries : queue'[x][j] > 0
  <2>1. published' = published
    BY <1>3 DEF MailStep, SendEmail, RetryEmail, DropEmail, SendAndLose
  <2>2. CASE x # r
    <3>1. queue'[x] = queue[x] /\ delivered'[x] = delivered[x] /\ dropped'[x] = dropped[x]
      BY <1>3, <2>2 DEF MailStep, SendEmail, RetryEmail, DropEmail, SendAndLose,
                        Deliver, TypeOK
    <3>2. QED BY <1>0, <2>1, <3>1
  <2>3. CASE x = r /\ (SendEmail(r, k) \/ SendAndLose(r, k))
    <3>1. delivered'[x] = delivered[x] + 1
      BY <2>3 DEF SendEmail, SendAndLose, Deliver, TypeOK
    <3>2. QED BY <1>0, <3>1
  <2>4. CASE x = r /\ DropEmail(r, k)
    <3>1. dropped'[x] = dropped[x] + 1
      BY <2>4 DEF DropEmail, TypeOK
    <3>2. QED BY <1>0, <3>1
  <2>5. CASE x = r /\ RetryEmail(r, k)
    <3>1. k + 1 \in Retries
      BY <2>5 DEF RetryEmail, MayRetry, Retries
    <3>2. queue'[x][k + 1] = queue[x][k + 1] + 1 /\ queue[x][k + 1] \in Nat
      <4>1. k + 1 # k
        BY DEF Retries
      <4>2. QED BY <1>0, <2>5, <3>1, <4>1 DEF RetryEmail, TypeOK
    <3>3. QED BY <3>1, <3>2
  <2>6. QED BY <1>3, <2>2, <2>3, <2>4, <2>5 DEF MailStep
<1>4. QED
  BY <1>1, <1>2, <1>3 DEF Next, RowStep, PollStep, QueueEmail, EndRequest, BeginPoll,
     RejectRow, DispatchRow, FailRow, CommitPoll, CrashPoll, vars

\* A row marked dispatched has a mail that was sent, that waits in the broker,
\* or that its task gave up: no retry loses the message.
THEOREM DispatchedMailIsTraceable == Spec => []DispatchedIsAccountedFor
<1>1. Init => MessagesKept
  BY DEF Init, MessagesKept
<1>2. OutboxInv /\ MessagesKept => DispatchedIsAccountedFor
  BY DEF OutboxInv, PublishedOk, MessagesKept, DispatchedIsAccountedFor
<1>3. QED
  BY <1>1, <1>2, OutboxInvariant, MessagesKeptStep, PTL DEF Spec

=============================================================================
