-------------------------- MODULE PlatformProofs ---------------------------
(***************************************************************************)
(* Theorems about Platform, for every number of administrators, tenants,   *)
(* engine versions and requests in flight.                                 *)
(*                                                                         *)
(* The argument is the same for impersonation and for engine versions: a   *)
(* request that nobody has overtaken still knows the rows that it read, so *)
(* what it writes replaces exactly those.                                  *)
(***************************************************************************)
EXTENDS Platform, FiniteSetTheorems, TLAPS

USE PlatformAssumption

-----------------------------------------------------------------------------
(* What a request in flight remembers.                                     *)

Ops == {"create", "status", "start", "end", "promote", "health"}

\* The fields of a snapshot, by the operation.
Fields(op) ==
  CASE op = "create"  -> {"op", "tenant", "slug", "status", "stale"}
    [] op = "status"  -> {"op", "tenant", "status", "close", "read", "stale"}
    [] op = "start"   -> {"op", "admin", "tenant", "seen", "stale"}
    [] op = "end"     -> {"op", "seen", "stale"}
    [] op = "promote" -> {"op", "version", "was", "read", "old", "stale"}
    [] op = "health"  -> {"op", "next", "states", "down", "stale"}

Snapshot(q) == q.op \in Ops /\ DOMAIN q = Fields(q.op) /\ q.stale \in BOOLEAN

SnapshotsOK ==
  /\ DOMAIN req = Requests
  /\ \A r \in Requests : req[r] = Idle \/ Snapshot(req[r])

\* A session that is active belongs to its administrator and no start in flight has missed it.
RowsOK ==
  /\ DOMAIN imp = Rows
  /\ \A i \in Rows : DOMAIN imp[i] = {"admin", "tenant", "active"} /\ imp[i].active \in BOOLEAN

\* The sessions that a start in flight has read are all the active ones of its administrator,
\* while no other start has been committed.
StartsSawAll ==
  \A r \in Requests :
    req[r].op = "start" /\ ~req[r].stale => ActiveRows(req[r].admin) \subseteq req[r].seen

\* Two active sessions of one administrator are the same row.
ActiveAlone ==
  "start" \in overran \/
    \A i, j \in Rows : imp[i].active /\ imp[j].active /\ imp[i].admin = imp[j].admin => i = j

\* What a promotion in flight has read is what is current, while no other has been committed.
PromotionsSawCurrent ==
  \A r \in Requests : req[r].op = "promote" /\ ~req[r].stale =>
    /\ req[r].was <=> req[r].version \in current
    /\ req[r].read => req[r].old = current

CurrentAlone ==
  /\ "again" \in overran \/ current # {}
  /\ "promote" \in overran \/ \E v \in current : current = {v}

\* A service that has been down since the report began does not answer, and if it has been
\* probed the report knows a degraded state.
ReportsKnow ==
  \A r \in Requests : req[r].op = "health" =>
    /\ req[r].next \in 1 .. 4
    /\ req[r].down \subseteq Services \ up
    /\ \A n \in 1 .. 3 : n < req[r].next /\ Probes[n] \in req[r].down
                           => req[r].states \cap DegradedStates # {}

-----------------------------------------------------------------------------
\* A request that begins: the others are as before.
LEMMA BeginOthers ==
  ASSUME SnapshotsOK, NEW r \in Requests, NEW s, Begin(r, s)
  PROVE  req' = [q \in Requests |-> IF q = r THEN s ELSE req[q]]
BY DEF SnapshotsOK, Begin

\* A request that ends: it is idle, and the others keep what they have read; those of its
\* kind are marked as overtaken.
LEMMA DoneOthers ==
  ASSUME SnapshotsOK, NEW r \in Requests, req[r] # Idle, Done(r)
  PROVE  /\ SnapshotsOK'
         /\ \A q \in Requests : req'[q] # Idle =>
              /\ q # r /\ req[q] # Idle /\ req'[q].op = req[q].op
              /\ ~req'[q].stale => ~req[q].stale /\ req[q].op # req[r].op
              /\ \A f \in Fields(req[q].op) \ {"stale"} : req'[q][f] = req[q][f]
<1>1. \A q \in Requests : req[q] # Idle => Snapshot(req[q])
  BY DEF SnapshotsOK
<1>2. \A q \in Requests : \/ "op" \in Fields(req[q].op) /\ "stale" \in Fields(req[q].op)
                          \/ req[q] = Idle
  BY <1>1 DEF Snapshot, Ops, Fields
<1>3. req' = [q \in Requests |-> IF q = r \/ req[q] = Idle THEN Idle
                ELSE [req[q] EXCEPT !.stale = @ \/ req[q].op = req[r].op]]
  BY DEF Done
<1>4. ASSUME NEW q \in Requests, req'[q] # Idle
      PROVE  /\ q # r /\ req[q] # Idle
             /\ req'[q] = [req[q] EXCEPT !.stale = @ \/ req[q].op = req[r].op]
  BY <1>3, <1>4
<1>5. ASSUME NEW q \in Requests, req'[q] # Idle
      PROVE  /\ DOMAIN req'[q] = DOMAIN req[q]
             /\ req'[q].op = req[q].op
             /\ req'[q].stale = (req[q].stale \/ req[q].op = req[r].op)
             /\ \A f \in Fields(req[q].op) \ {"stale"} : req'[q][f] = req[q][f]
  <2>1. /\ DOMAIN req[q] = Fields(req[q].op) /\ "op" \in DOMAIN req[q]
        /\ "stale" \in DOMAIN req[q]
    BY <1>1, <1>2, <1>4, <1>5 DEF Snapshot
  <2>2. QED BY <1>4, <1>5, <2>1
<1>6. \A q \in Requests : req'[q] = Idle \/ Snapshot(req'[q])
  <2>1. SUFFICES ASSUME NEW q \in Requests, req'[q] # Idle PROVE Snapshot(req'[q])
    OBVIOUS
  <2>2. Snapshot(req[q])
    BY <1>1, <1>4, <2>1
  <2>3. req'[q].stale \in BOOLEAN
    BY <1>5, <2>1
  <2>4. QED BY <1>5, <2>1, <2>2, <2>3 DEF Snapshot
<1>7. SnapshotsOK'
  BY <1>3, <1>6 DEF SnapshotsOK, Snapshot
<1>8. QED BY <1>4, <1>5, <1>7

\* What a request reads when it begins: a snapshot that nobody has overtaken, and one whose
\* reading agrees with the tables.
BeginStep ==
  \E r \in Requests : \E s :
    /\ Begin(r, s) /\ Snapshot(s) /\ ~s.stale
    /\ s.op = "start" => ActiveRows(s.admin) \subseteq s.seen
    /\ s.op = "promote" => (s.was <=> s.version \in current) /\ ~s.read
    /\ s.op = "health" => s.next = 1 /\ s.down = Services \ up /\ s.states = {}
    /\ UNCHANGED <<tables, health, overran>>

\* The handlers of the console only read before they commit.
LEMMA BeginsRead ==
  ASSUME NEW r \in Requests,
         \/ \E t \in Tenants :
              \/ SuspendTenant(r, t) \/ ReactivateTenant(r, t) \/ CloseTenant(r, t)
              \/ \E s \in Statuses : PatchPlatformTenant(r, t, s)
              \/ \E a \in Admins : StartImpersonation(r, a, t) \/ EndImpersonation(r, a, t)
              \/ \E b \in Bases, trial \in BOOLEAN : CreatePlatformTenant(r, t, b, trial)
         \/ \E v \in Versions : PromoteEngineVersion(r, v)
         \/ GetSystemHealth(r)
  PROVE  BeginStep
<1>1. ASSUME NEW t \in Tenants, NEW status, NEW close, SetStatus(r, t, status, close)
      PROVE  BeginStep
  <2> DEFINE s == [op |-> "status", tenant |-> t, status |-> status, close |-> close,
                   read |-> tenant[t].status, stale |-> FALSE]
  <2>1. Snapshot(s) /\ ~s.stale /\ s.op = "status"
    BY DEF Snapshot, Ops, Fields
  <2>2. Begin(r, s) /\ UNCHANGED <<tables, health, overran>>
    BY <1>1 DEF SetStatus
  <2>3. QED BY <2>1, <2>2 DEF BeginStep
<1>2. ASSUME NEW t \in Tenants, NEW a \in Admins, StartImpersonation(r, a, t) PROVE BeginStep
  <2> DEFINE s == [op |-> "start", admin |-> a, tenant |-> t, seen |-> Superseded(a, t), stale |-> FALSE]
  <2>1. Snapshot(s) /\ ~s.stale /\ s.op = "start"
    BY DEF Snapshot, Ops, Fields
  <2>2. ActiveRows(s.admin) \subseteq s.seen
    BY DEF Superseded
  <2>3. Begin(r, s) /\ UNCHANGED <<tables, health, overran>>
    BY <1>2 DEF StartImpersonation
  <2>4. QED BY <2>1, <2>2, <2>3 DEF BeginStep
<1>3. ASSUME NEW t \in Tenants, NEW a \in Admins, EndImpersonation(r, a, t) PROVE BeginStep
  <2> DEFINE s == [op |-> "end", seen |-> {i \in ActiveRows(a) : imp[i].tenant = t}, stale |-> FALSE]
  <2>1. Snapshot(s) /\ ~s.stale /\ s.op = "end"
    BY DEF Snapshot, Ops, Fields
  <2>2. Begin(r, s) /\ UNCHANGED <<tables, health, overran>>
    BY <1>3 DEF EndImpersonation
  <2>3. QED BY <2>1, <2>2 DEF BeginStep
<1>4. ASSUME NEW t \in Tenants, NEW b \in Bases, NEW trial \in BOOLEAN,
             CreatePlatformTenant(r, t, b, trial)
      PROVE  BeginStep
  <2> DEFINE s == [op |-> "create", tenant |-> t, slug |-> UniqueSlug(b, Slugs, t),
                   status |-> IF trial THEN "trial" ELSE "active", stale |-> FALSE]
  <2>1. Snapshot(s) /\ ~s.stale /\ s.op = "create"
    BY DEF Snapshot, Ops, Fields
  <2>2. Begin(r, s) /\ UNCHANGED <<tables, health, overran>>
    BY <1>4 DEF CreatePlatformTenant
  <2>3. QED BY <2>1, <2>2 DEF BeginStep
<1>5. ASSUME NEW v \in Versions, PromoteEngineVersion(r, v) PROVE BeginStep
  <2> DEFINE s == [op |-> "promote", version |-> v, was |-> v \in current, read |-> FALSE,
                   old |-> {}, stale |-> FALSE]
  <2>1. /\ Snapshot(s) /\ ~s.stale /\ s.op = "promote"
        /\ (s.was <=> s.version \in current) /\ ~s.read
    BY DEF Snapshot, Ops, Fields
  <2>2. Begin(r, s) /\ UNCHANGED <<tables, health, overran>>
    BY <1>5 DEF PromoteEngineVersion
  <2>3. QED BY <2>1, <2>2 DEF BeginStep
<1>6. ASSUME GetSystemHealth(r) PROVE BeginStep
  <2> DEFINE s == [op |-> "health", next |-> 1, states |-> {}, down |-> Services \ up, stale |-> FALSE]
  <2>1. /\ Snapshot(s) /\ ~s.stale /\ s.op = "health"
        /\ s.next = 1 /\ s.down = Services \ up /\ s.states = {}
    BY DEF Snapshot, Ops, Fields
  <2>2. Begin(r, s) /\ UNCHANGED <<tables, health, overran>>
    BY <1>6 DEF GetSystemHealth
  <2>3. QED BY <2>1, <2>2 DEF BeginStep
<1>7. QED
  BY <1>1, <1>2, <1>3, <1>4, <1>5, <1>6
     DEF SuspendTenant, ReactivateTenant, CloseTenant, PatchPlatformTenant

\* What ends a request.
CommitStep(r) ==
  /\ req[r] # Idle
  /\ \/ CreateCommit(r) \/ StatusCommit(r) \/ EndCommit(r) \/ PromoteCommit(r)
     \/ \E i \in Rows : StartCommit(r, i)
     \/ ReportCommit(r)

\* The steps of the console: a request begins, commits, reads on, probes a service or is
\* abandoned; the cached report expires; services come and go.
LEMMA PlatformSteps ==
  Next => \/ BeginStep
          \/ \E r \in Requests : CommitStep(r) \/ ReadOldCurrent(r) \/ Probe(r) \/ Abort(r)
          \/ CacheExpires
          \/ \E s \in Services : ServiceFails(s) \/ ServiceRecovers(s)
BY BeginsRead DEF Next, CommitStep

LEMMA CommitIsDone ==
  ASSUME NEW r \in Requests, CommitStep(r)
  PROVE  Done(r) /\ req[r] # Idle
BY DEF CommitStep, CreateCommit, StatusCommit, EndCommit, PromoteCommit, StartCommit, ReportCommit

\* A probe changes its own request, in the fields next and states.
LEMMA ProbeOthers ==
  ASSUME SnapshotsOK, NEW r \in Requests, Probe(r)
  PROVE  /\ SnapshotsOK' /\ req[r].op = "health" /\ req'[r].op = "health"
         /\ req[r].next <= 3
         /\ req'[r].next = req[r].next + 1 /\ req'[r].down = req[r].down
         /\ req'[r].states = req[r].states \cup
              {IF Probes[req[r].next] \in up THEN "ok" ELSE StateWhenDown(Probes[req[r].next])}
         /\ \A q \in Requests \ {r} : req'[q] = req[q]
<1> DEFINE new == {IF Probes[req[r].next] \in up THEN "ok" ELSE StateWhenDown(Probes[req[r].next])}
<1>1. Snapshot(req[r]) /\ req[r].op = "health" /\ req[r].next <= 3
  BY DEF SnapshotsOK, Probe, Idle
<1>2. DOMAIN req[r] = {"op", "next", "states", "down", "stale"}
  BY <1>1 DEF Snapshot, Fields
<1>3. /\ \A q \in Requests \ {r} : req'[q] = req[q]
      /\ req'[r] = [req[r] EXCEPT !.next = @ + 1, !.states = @ \cup new]
      /\ DOMAIN req' = Requests
  BY DEF Probe, SnapshotsOK
<1>4. /\ DOMAIN req'[r] = DOMAIN req[r] /\ req'[r].op = req[r].op
      /\ req'[r].stale = req[r].stale /\ req'[r].down = req[r].down
      /\ req'[r].next = req[r].next + 1 /\ req'[r].states = req[r].states \cup new
  BY <1>2, <1>3
<1>5. Snapshot(req'[r])
  BY <1>1, <1>4 DEF Snapshot
<1>6. SnapshotsOK'
  BY <1>3, <1>5 DEF SnapshotsOK, Snapshot
<1>7. QED BY <1>1, <1>3, <1>4, <1>6

\* The second read of a promotion changes its own request, in the fields read and old.
LEMMA ReadOthers ==
  ASSUME SnapshotsOK, NEW r \in Requests, ReadOldCurrent(r)
  PROVE  /\ SnapshotsOK' /\ req[r].op = "promote" /\ req'[r].op = "promote"
         /\ req'[r].version = req[r].version /\ req'[r].was = req[r].was
         /\ req'[r].stale = req[r].stale /\ req'[r].old = current
         /\ \A q \in Requests \ {r} : req'[q] = req[q]
<1>1. Snapshot(req[r]) /\ req[r].op = "promote"
  BY DEF SnapshotsOK, ReadOldCurrent, Idle
<1>2. DOMAIN req[r] = {"op", "version", "was", "read", "old", "stale"}
  BY <1>1 DEF Snapshot, Fields
<1>3. /\ \A q \in Requests \ {r} : req'[q] = req[q]
      /\ req'[r] = [req[r] EXCEPT !.read = TRUE, !.old = current]
      /\ DOMAIN req' = Requests
  BY DEF ReadOldCurrent, SnapshotsOK
<1>4. /\ DOMAIN req'[r] = DOMAIN req[r] /\ req'[r].op = req[r].op
      /\ req'[r].stale = req[r].stale /\ req'[r].version = req[r].version
      /\ req'[r].was = req[r].was /\ req'[r].old = current
  BY <1>2, <1>3
<1>5. Snapshot(req'[r])
  BY <1>1, <1>4 DEF Snapshot
<1>6. SnapshotsOK'
  BY <1>3, <1>5 DEF SnapshotsOK, Snapshot
<1>7. QED BY <1>1, <1>3, <1>4, <1>6

\* A recovery takes the service out of what the reports in flight call down, and changes
\* nothing else.
LEMMA RecoverOthers ==
  ASSUME SnapshotsOK, NEW s \in Services, ServiceRecovers(s)
  PROVE  /\ SnapshotsOK'
         /\ \A q \in Requests :
              /\ req'[q].op = req[q].op
              /\ req[q].op # "health" => req'[q] = req[q]
              /\ req[q].op = "health" => /\ req'[q].next = req[q].next
                                         /\ req'[q].states = req[q].states
                                         /\ req'[q].down = req[q].down \ {s}
<1>1. req' = [r \in Requests |-> IF req[r].op = "health" THEN [req[r] EXCEPT !.down = @ \ {s}] ELSE req[r]]
  BY DEF ServiceRecovers
<1>2. ASSUME NEW q \in Requests, req[q].op = "health"
      PROVE  /\ req'[q].op = req[q].op /\ Snapshot(req'[q])
             /\ req'[q].next = req[q].next /\ req'[q].states = req[q].states
             /\ req'[q].down = req[q].down \ {s}
  <2>1. Snapshot(req[q])
    BY <1>2 DEF SnapshotsOK, Idle
  <2>2. DOMAIN req[q] = {"op", "next", "states", "down", "stale"}
    BY <1>2, <2>1 DEF Snapshot, Fields
  <2>3. req'[q] = [req[q] EXCEPT !.down = @ \ {s}]
    BY <1>1, <1>2
  <2>4. /\ DOMAIN req'[q] = DOMAIN req[q] /\ req'[q].op = req[q].op
        /\ req'[q].stale = req[q].stale /\ req'[q].next = req[q].next
        /\ req'[q].states = req[q].states /\ req'[q].down = req[q].down \ {s}
    BY <2>2, <2>3
  <2>5. QED BY <2>1, <2>4 DEF Snapshot
<1>3. \A q \in Requests : req[q].op # "health" => req'[q] = req[q]
  BY <1>1
<1>4. SnapshotsOK'
  BY <1>1, <1>2, <1>3 DEF SnapshotsOK, Snapshot
<1>5. QED BY <1>2, <1>3, <1>4

\* Every step leaves snapshots in flight.
LEMMA SnapshotsStep == SnapshotsOK /\ [Next]_vars => SnapshotsOK'
<1> SUFFICES ASSUME SnapshotsOK, [Next]_vars PROVE SnapshotsOK'
  OBVIOUS
<1>1. CASE BeginStep
  <2>1. PICK r, s : r \in Requests /\ Begin(r, s) /\ Snapshot(s)
    BY <1>1 DEF BeginStep
  <2>2. QED BY <2>1, BeginOthers DEF SnapshotsOK, Snapshot
<1>2. ASSUME NEW r \in Requests, CommitStep(r) PROVE SnapshotsOK'
  BY <1>2, CommitIsDone, DoneOthers
<1>3. ASSUME NEW r \in Requests, ReadOldCurrent(r) \/ Probe(r) PROVE SnapshotsOK'
  BY <1>3, ReadOthers, ProbeOthers
<1>4. ASSUME NEW r \in Requests, Abort(r) PROVE SnapshotsOK'
  BY <1>4 DEF Abort, SnapshotsOK, Snapshot
<1>5. ASSUME NEW s \in Services, ServiceRecovers(s) PROVE SnapshotsOK'
  BY <1>5, RecoverOthers
<1>6. CASE UNCHANGED req
  BY <1>6 DEF SnapshotsOK, Snapshot
<1>7. QED
  BY <1>1, <1>2, <1>3, <1>4, <1>5, <1>6, PlatformSteps DEF CacheExpires, ServiceFails, vars

-----------------------------------------------------------------------------
(* Engine versions.                                                        *)

\* A promotion that nobody overtook replaces exactly the version that is current.
LEMMA PromotionStep ==
  SnapshotsOK /\ PromotionsSawCurrent /\ CurrentAlone /\ [Next]_vars
    => (PromotionsSawCurrent /\ CurrentAlone)'
<1> SUFFICES ASSUME SnapshotsOK, PromotionsSawCurrent, CurrentAlone, [Next]_vars
             PROVE  (PromotionsSawCurrent /\ CurrentAlone)'
  OBVIOUS
<1> USE DEF PromotionsSawCurrent, CurrentAlone
<1>1. CASE BeginStep
  <2>1. PICK r, s : /\ r \in Requests /\ Begin(r, s)
                    /\ s.op = "promote" => (s.was <=> s.version \in current) /\ ~s.read
                    /\ UNCHANGED <<tables, health, overran>>
    BY <1>1 DEF BeginStep
  <2>2. QED BY <2>1, BeginOthers DEF tables
<1>2. ASSUME NEW r \in Requests, CommitStep(r) PROVE (PromotionsSawCurrent /\ CurrentAlone)'
  <2>1. ASSUME NEW q \in Requests, req'[q].op = "promote", ~req'[q].stale
        PROVE  /\ req[q].op = "promote" /\ ~req[q].stale /\ req[r].op # "promote"
               /\ \A f \in {"version", "was", "read", "old"} : req'[q][f] = req[q][f]
    <3>1. req'[q] # Idle
      BY <2>1 DEF Idle
    <3>2. {"version", "was", "read", "old"} \subseteq Fields("promote")
      BY DEF Fields
    <3>3. QED
      <4>1. Done(r) /\ req[r] # Idle
        BY <1>2, CommitIsDone
      <4>2. /\ req'[q].op = req[q].op
            /\ ~req'[q].stale => ~req[q].stale /\ req[q].op # req[r].op
            /\ \A f \in Fields(req[q].op) \ {"stale"} : req'[q][f] = req[q][f]
        BY <3>1, <4>1, DoneOthers
      <4>3. QED BY <2>1, <3>2, <4>2
  <2>2. CASE PromoteCommit(r)
    <3>1. CurrentAlone'
      <4>1. /\ current' = Promoted(req[r]) /\ req[r].op = "promote" /\ req[r].read
            /\ overran \subseteq overran'
            /\ req[r].stale => "promote" \in overran' /\ (req[r].was => "again" \in overran')
        BY <2>2 DEF PromoteCommit
      <4>2. CASE req[r].stale
        BY <4>1, <4>2 DEF Promoted
      <4>3. CASE ~req[r].stale
        <5>1. /\ req[r].old = current
              /\ req[r].was <=> req[r].version \in current
          BY <4>1, <4>3
        <5>2. current' = IF req[r].version \in current THEN current \cap {req[r].version}
                                                        ELSE {req[r].version}
          BY <4>1, <5>1 DEF Promoted
        <5>3. QED BY <4>1, <5>2
      <4>4. QED BY <4>2, <4>3
    <3>2. PromotionsSawCurrent'
      BY <2>1, <2>2 DEF PromoteCommit
    <3>3. QED BY <3>1, <3>2
  <2>3. CASE ~PromoteCommit(r)
    <3>1. current' = current /\ overran \subseteq overran'
      BY <1>2, <2>3 DEF CommitStep, CreateCommit, StatusCommit, EndCommit, StartCommit,
                        ReportCommit, Overran, tables
    <3>2. PromotionsSawCurrent'
      BY <2>1, <3>1
    <3>3. CurrentAlone'
      BY <1>2, <2>3, <3>1 
    <3>4. QED BY <3>2, <3>3
  <2>4. QED BY <2>2, <2>3
<1>3. ASSUME NEW r \in Requests, ReadOldCurrent(r) \/ Probe(r)
      PROVE  (PromotionsSawCurrent /\ CurrentAlone)'
  <2>1. CASE ReadOldCurrent(r)
    <3>1. current' = current /\ overran' = overran
      BY <2>1 DEF ReadOldCurrent, tables
    <3>2. QED BY <2>1, <3>1, ReadOthers
  <2>2. CASE Probe(r)
    <3>1. current' = current /\ overran' = overran
      BY <2>2 DEF Probe, tables
    <3>2. req'[r].op # "promote" /\ \A q \in Requests \ {r} : req'[q] = req[q]
      BY <2>2, ProbeOthers
    <3>3. QED BY <3>1, <3>2
  <2>3. QED BY <1>3, <2>1, <2>2
<1>4. ASSUME NEW r \in Requests, Abort(r) PROVE (PromotionsSawCurrent /\ CurrentAlone)'
  BY <1>4 DEF Abort, SnapshotsOK, Idle, tables
<1>5. ASSUME NEW s \in Services, ServiceRecovers(s) PROVE (PromotionsSawCurrent /\ CurrentAlone)'
  BY <1>5, RecoverOthers DEF ServiceRecovers, tables
<1>6. CASE UNCHANGED <<req, tables, overran>>
  BY <1>6 DEF tables
<1>7. QED
  BY <1>1, <1>2, <1>3, <1>4, <1>5, <1>6, PlatformSteps DEF CacheExpires, ServiceFails, vars

\* promote_engine_version leaves exactly one current version unless two promotions overlapped,
\* and one at least unless such a promotion was of the version that was current already,
\* whatever the versions and the requests.
THEOREM PromotionKeepsOneVersion == Spec => []OneCurrentVersion
<1>1. Init => SnapshotsOK /\ PromotionsSawCurrent /\ CurrentAlone
  BY DEF Init, SnapshotsOK, PromotionsSawCurrent, CurrentAlone, Idle
<1>2. CurrentAlone => OneCurrentVersion
  BY FS_Singleton DEF CurrentAlone, OneCurrentVersion
<1>3. QED BY <1>1, <1>2, SnapshotsStep, PromotionStep, PTL DEF Spec

-----------------------------------------------------------------------------
(* Impersonation.                                                          *)

\* Rows of impersonation sessions keep their columns.
LEMMA RowsStep == RowsOK /\ SnapshotsOK /\ [Next]_vars => RowsOK'
<1> SUFFICES ASSUME RowsOK, SnapshotsOK, [Next]_vars PROVE RowsOK'
  OBVIOUS
<1>1. ASSUME NEW r \in Requests, NEW i \in Rows, StartCommit(r, i) PROVE RowsOK'
  BY <1>1 DEF StartCommit, RowsOK
<1>2. ASSUME NEW r \in Requests, EndCommit(r) PROVE RowsOK'
  BY <1>2 DEF EndCommit, RowsOK
<1>3. CASE UNCHANGED imp
  BY <1>3 DEF RowsOK
<1>4. QED
  BY <1>1, <1>2, <1>3, PlatformSteps
     DEF BeginStep, CommitStep, CreateCommit, StatusCommit, PromoteCommit, ReadOldCurrent,
         ReportCommit, Probe, Abort, CacheExpires, ServiceFails, ServiceRecovers, tables, vars

\* A start that nobody overtook ends every session that is active, and adds one.
LEMMA ImpersonationStep ==
  SnapshotsOK /\ RowsOK /\ StartsSawAll /\ ActiveAlone /\ [Next]_vars
    => (StartsSawAll /\ ActiveAlone)'
<1> SUFFICES ASSUME SnapshotsOK, RowsOK, StartsSawAll, ActiveAlone, [Next]_vars
             PROVE  (StartsSawAll /\ ActiveAlone)'
  OBVIOUS
<1> USE DEF StartsSawAll, ActiveAlone, ActiveRows
<1>1. CASE BeginStep
  <2>1. PICK r, s :
          /\ r \in Requests /\ Begin(r, s) /\ (s.op = "start" => ActiveRows(s.admin) \subseteq s.seen)
          /\ UNCHANGED <<tables, health, overran>>
    BY <1>1 DEF BeginStep
  <2>2. QED BY <2>1, BeginOthers DEF tables
<1>2. ASSUME NEW r \in Requests, CommitStep(r) PROVE (StartsSawAll /\ ActiveAlone)'
  <2>1. ASSUME NEW q \in Requests, req'[q].op = "start", ~req'[q].stale
        PROVE  /\ req[q].op = "start" /\ ~req[q].stale /\ req[r].op # "start"
               /\ req'[q].seen = req[q].seen /\ req'[q].admin = req[q].admin
    <3>1. req'[q] # Idle
      BY <2>1 DEF Idle
    <3>2. "seen" \in Fields("start") /\ "admin" \in Fields("start")
      BY DEF Fields
    <3>3. QED
      <4>1. Done(r) /\ req[r] # Idle
        BY <1>2, CommitIsDone
      <4>2. /\ req'[q].op = req[q].op
            /\ ~req'[q].stale => ~req[q].stale /\ req[q].op # req[r].op
            /\ \A f \in Fields(req[q].op) \ {"stale"} : req'[q][f] = req[q][f]
        BY <3>1, <4>1, DoneOthers
      <4>3. QED BY <2>1, <3>2, <4>2
  <2>2. ASSUME NEW i \in Rows, StartCommit(r, i) PROVE (StartsSawAll /\ ActiveAlone)'
    <3>1. StartsSawAll'
      BY <2>1, <2>2 DEF StartCommit
    <3>2. CASE req[r].stale
      BY <2>2, <3>1, <3>2 DEF StartCommit, Overran
    <3>3. CASE ~req[r].stale
      <4>1. /\ overran' = overran
            /\ imp'[i].active /\ imp'[i].admin = req[r].admin
            /\ \A x \in Rows \ {i} : /\ imp'[x].admin = imp[x].admin
                                     /\ imp'[x].active <=> imp[x].active /\ x \notin req[r].seen
        BY <2>2, <3>3 DEF StartCommit, Overran, RowsOK
      <4>2. \A x \in Rows : imp[x].active /\ imp[x].admin = req[r].admin => x \in req[r].seen
        BY <2>2, <3>3 DEF StartCommit
      <4>3. ActiveAlone'
        BY <4>1, <4>2
      <4>4. QED BY <3>1, <4>3
    <3>4. QED BY <3>2, <3>3
  <2>3. CASE EndCommit(r)
    <3>1. \A x \in Rows : imp'[x].admin = imp[x].admin /\ (imp'[x].active => imp[x].active)
      BY <2>3 DEF EndCommit, RowsOK
    <3>2. StartsSawAll'
      BY <2>1, <3>1
    <3>3. ActiveAlone'
      BY <2>3, <3>1 DEF EndCommit
    <3>4. QED BY <3>2, <3>3
  <2>4. CASE imp' = imp /\ overran \subseteq overran'
    BY <2>1, <2>4
  <2>5. QED
    BY <1>2, <2>2, <2>3, <2>4 DEF CommitStep, CreateCommit, StatusCommit, PromoteCommit,
                                  ReportCommit, Overran, tables
<1>3. ASSUME NEW r \in Requests, ReadOldCurrent(r) \/ Probe(r) PROVE (StartsSawAll /\ ActiveAlone)'
  <2>1. imp' = imp /\ overran' = overran
    BY <1>3 DEF ReadOldCurrent, Probe, tables
  <2>2. req'[r].op # "start" /\ \A q \in Requests \ {r} : req'[q] = req[q]
    BY <1>3, ReadOthers, ProbeOthers
  <2>3. StartsSawAll'
    BY <2>1, <2>2
  <2>4. QED BY <2>1, <2>3
<1>4. ASSUME NEW r \in Requests, Abort(r) PROVE (StartsSawAll /\ ActiveAlone)'
  BY <1>4 DEF Abort, SnapshotsOK, Idle, tables
<1>5. ASSUME NEW s \in Services, ServiceRecovers(s) PROVE (StartsSawAll /\ ActiveAlone)'
  BY <1>5, RecoverOthers DEF ServiceRecovers, tables
<1>6. CASE UNCHANGED <<req, tables, overran>>
  BY <1>6 DEF tables
<1>7. QED
  BY <1>1, <1>2, <1>3, <1>4, <1>5, <1>6, PlatformSteps DEF CacheExpires, ServiceFails, vars

\* start_impersonation: an administrator has at most one active session, unless two starts
\* overlapped, for every number of administrators, tenants, sessions and requests.
THEOREM ImpersonatesOneTenant == Spec => []OneImpersonation
<1>1. Init => SnapshotsOK /\ RowsOK /\ StartsSawAll /\ ActiveAlone
  <2>1. Init => RowsOK /\ ActiveAlone
    <3>1. /\ DOMAIN NoRow = {"admin", "tenant", "active"} /\ NoRow.active \in BOOLEAN
          /\ ~NoRow.active
      BY DEF NoRow
    <3>2. QED BY <3>1 DEF Init, RowsOK, ActiveAlone
  <2>2. Init => SnapshotsOK /\ StartsSawAll
    BY DEF Init, SnapshotsOK, StartsSawAll, Idle
  <2>3. QED BY <2>1, <2>2
<1>2. ActiveAlone => OneImpersonation
  <2>1. SUFFICES ASSUME ActiveAlone, "start" \notin overran, NEW a \in Admins
                 PROVE  Cardinality(ActiveRows(a)) <= 1
    BY DEF OneImpersonation
  <2>2. CASE ActiveRows(a) = {}
    BY <2>2, FS_EmptySet
  <2>3. CASE ActiveRows(a) # {}
    <3>1. PICK i \in Rows : ActiveRows(a) = {i}
      BY <2>1, <2>3 DEF ActiveAlone, ActiveRows
    <3>2. QED BY <3>1, FS_Singleton
  <2>4. QED BY <2>2, <2>3
<1>3. QED BY <1>1, <1>2, SnapshotsStep, RowsStep, ImpersonationStep, PTL DEF Spec

-----------------------------------------------------------------------------
(* Health.                                                                 *)

\* A service that has been down since the report began is found degraded when its turn comes.
LEMMA ReportStep ==
  SnapshotsOK /\ ReportsKnow /\ OutageIsReported /\ [Next]_vars
    => (ReportsKnow /\ OutageIsReported)'
<1> SUFFICES ASSUME SnapshotsOK, ReportsKnow, OutageIsReported, [Next]_vars
             PROVE  (ReportsKnow /\ OutageIsReported)'
  OBVIOUS
<1> USE DEF ReportsKnow, OutageIsReported
<1>1. CASE BeginStep
  <2>1. PICK r, s :
          /\ r \in Requests /\ Begin(r, s)
          /\ s.op = "health" => s.next = 1 /\ s.down = Services \ up /\ s.states = {}
          /\ UNCHANGED <<tables, health, overran>>
    BY <1>1 DEF BeginStep
  <2>2. QED BY <2>1, BeginOthers DEF health
<1>2. ASSUME NEW r \in Requests, CommitStep(r) PROVE (ReportsKnow /\ OutageIsReported)'
  <2>1. ASSUME NEW q \in Requests, req'[q].op = "health"
        PROVE  /\ req[q].op = "health" /\ req'[q].next = req[q].next
               /\ req'[q].states = req[q].states /\ req'[q].down = req[q].down
    <3>1. req'[q] # Idle
      BY <2>1 DEF Idle
    <3>2. {"next", "states", "down"} \subseteq Fields("health")
      BY DEF Fields
    <3>3. QED BY <1>2, <2>1, <3>1, <3>2, CommitIsDone, DoneOthers
  <2>2. up' = up
    BY <1>2 DEF CommitStep, CreateCommit, StatusCommit, EndCommit, StartCommit, PromoteCommit,
                ReportCommit, health
  <2>3. ReportsKnow'
    BY <2>1, <2>2
  <2>4. CASE ReportCommit(r)
    <3>1. req[r].next = 4 /\ req[r].op = "health" /\ req[r].down \subseteq Services
      BY <2>4 DEF ReportCommit
    <3>2. req[r].down # {} => req[r].states \cap DegradedStates # {}
      BY <3>1 DEF Services
    <3>3. OutageIsReported'
      BY <2>4, <3>2 DEF ReportCommit
    <3>4. QED BY <2>3, <3>3
  <2>5. CASE ~ReportCommit(r)
    BY <1>2, <2>3, <2>5 DEF CommitStep, CreateCommit, StatusCommit, EndCommit, StartCommit,
                            PromoteCommit, health
  <2>6. QED BY <2>4, <2>5
<1>3. ASSUME NEW r \in Requests, Probe(r) PROVE (ReportsKnow /\ OutageIsReported)'
  <2>1. up' = up /\ cache' = cache
    BY <1>3 DEF Probe, health
  <2>2. ASSUME NEW n \in 1 .. 3, n < req'[r].next, Probes[n] \in req'[r].down
        PROVE  req'[r].states \cap DegradedStates # {}
    <3>1. CASE n < req[r].next
      BY <1>3, <2>2, <3>1, ProbeOthers
    <3>2. CASE n = req[r].next
      <4>1. Probes[n] \notin up
        BY <1>3, <2>2, <3>2, ProbeOthers
      <4>2. StateWhenDown(Probes[n]) \in req'[r].states
        BY <1>3, <3>2, <4>1, ProbeOthers
      <4>3. QED BY <4>2 DEF StateWhenDown, DegradedStates
    <3>3. QED BY <1>3, <2>2, <3>1, <3>2, ProbeOthers
  <2>3. QED BY <1>3, <2>1, <2>2, ProbeOthers
<1>4. ASSUME NEW r \in Requests, Abort(r) PROVE (ReportsKnow /\ OutageIsReported)'
  BY <1>4 DEF Abort, SnapshotsOK, Idle, health
<1>5. ASSUME NEW s \in Services, ServiceRecovers(s) PROVE (ReportsKnow /\ OutageIsReported)'
  BY <1>5, RecoverOthers DEF ServiceRecovers
<1>6. ASSUME NEW s \in Services, ServiceFails(s) PROVE (ReportsKnow /\ OutageIsReported)'
  BY <1>6 DEF ServiceFails
<1>7. CASE CacheExpires
  BY <1>7 DEF CacheExpires
<1>8. ASSUME NEW r \in Requests, ReadOldCurrent(r) PROVE (ReportsKnow /\ OutageIsReported)'
  BY <1>8, ReadOthers, ZenonT(60) DEF ReadOldCurrent, health
<1>9. CASE UNCHANGED vars
  BY <1>9 DEF vars, health
<1>10. QED BY <1>1, <1>2, <1>3, <1>4, <1>5, <1>6, <1>7, <1>8, <1>9, PlatformSteps

\* get_system_health: a report made while a service was down from the first probe to the
\* last never says that all is well, whatever fails and recovers meanwhile.
THEOREM ReportsShowOutages == Spec => []OutageIsReported
<1>1. Init => SnapshotsOK /\ ReportsKnow /\ OutageIsReported
  BY DEF Init, SnapshotsOK, ReportsKnow, OutageIsReported, Idle
<1>2. QED BY <1>1, SnapshotsStep, ReportStep, PTL DEF Spec
=============================================================================
