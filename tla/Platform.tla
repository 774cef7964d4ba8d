----------------------------- MODULE Platform ------------------------------
(***************************************************************************)
(* The platform console: tenants and their status, impersonation, engine   *)
(* versions and the health report (platform/service.py, close_tenant of    *)
(* tenants/service.py, unique_slug of auth/utils.py).                      *)
(*                                                                         *)
(* Requests read when they begin and write when they commit, as in module  *)
(* Sessions; SQLAlchemy writes an attribute when it differs from the value *)
(* that was loaded.  scalar_one_or_none raises when it finds two rows.     *)
(*                                                                         *)
(* Constants                                                               *)
(*   Admins       platform administrators                                  *)
(*   Tenants      tenants that may ever exist (bound)                      *)
(*   Bases        slugified names of tenants                               *)
(*   SlugTries    the highest number unique_slug tries (999 in the code)   *)
(*   Rows         impersonation sessions that may ever exist (bound)       *)
(*   Versions     engine versions; Initial is the current one at first     *)
(*   Requests     requests in flight                                       *)
(*   MaxRequests  bound: requests ever begun                               *)
(*   MaxOutages   bound: times a service goes down                         *)
(***************************************************************************)
EXTENDS Naturals, FiniteSets

CONSTANTS Admins, Tenants, Bases, SlugTries, Rows, Versions, Initial, Requests,
          MaxRequests, MaxOutages, None

ASSUME PlatformAssumption ==
  /\ SlugTries \in Nat \ {0} /\ MaxRequests \in Nat /\ MaxOutages \in Nat
  /\ Initial \in Versions
  /\ None \notin Admins \cup Tenants \cup Bases \cup Rows \cup Versions

VARIABLES
  tenant,    \* rows of tenants: slug, status, closure requested
  imp,       \* rows of impersonation_sessions
  current,   \* versions whose row says is_current
  up,        \* services that answer
  cache,     \* the key platform:health:v1
  req,       \* what a request in flight has read
  begun,     \* requests begun so far
  outages,   \* outages so far
  overran    \* history: what has been written by an overtaken request; "again" is an
             \* overtaken promotion of the version that was current when it began

tables == <<tenant, imp, current>>
health == <<up, cache, outages>>
vars == <<tables, health, req, begun, overran>>

Idle == [op |-> "idle"]
NoTenant == [slug |-> None, status |-> "none", closing |-> FALSE]
NoRow == [admin |-> None, tenant |-> None, active |-> FALSE]
Probes == <<"workers", "storage", "email">>   \* in the order of get_system_health
Services == {Probes[n] : n \in 1 .. 3}
Statuses == {"trial", "active", "suspended", "closing"}

Init ==
  /\ tenant = [t \in Tenants |-> NoTenant]
  /\ imp = [i \in Rows |-> NoRow]
  /\ current = {Initial}
  /\ up = Services /\ cache = None /\ outages = 0
  /\ req = [r \in Requests |-> Idle] /\ begun = 0
  /\ overran = {}

Begin(r, snapshot) ==
  /\ req[r] = Idle /\ req' = [req EXCEPT ![r] = snapshot]
  /\ begun < MaxRequests /\ begun' = begun + 1

\* The request ends; the others of its kind in flight have been overtaken.
Done(r) ==
  /\ req' = [q \in Requests |-> IF q = r \/ req[q] = Idle THEN Idle
                                ELSE [req[q] EXCEPT !.stale = @ \/ req[q].op = req[r].op]]
  /\ UNCHANGED begun

Exists(t) == tenant[t] # NoTenant

GetTenantOr404(t) == Exists(t)

Flushed(new, read, now) == IF new = read THEN now ELSE new
Overran(q) == overran' = IF q.stale THEN overran \cup {q.op} ELSE overran

-----------------------------------------------------------------------------
(* Tenants.                                                                *)

\* unique_slug: the name itself (number 1), then -2, -3, ...; in the end a random suffix.
UniqueSlug(base, existing, random) ==
  LET free == {n \in 1 .. SlugTries : <<base, n>> \notin existing}
  IN  IF free = {} THEN <<base, random>>
      ELSE <<base, CHOOSE n \in free : \A m \in free : n <= m>>

Slugs == {tenant[t].slug : t \in {x \in Tenants : Exists(x)}}

\* create_platform_tenant; register_user makes its workspace in the same way.
CreatePlatformTenant(r, t, base, trial) ==
  /\ ~Exists(t)
  /\ Begin(r, [op |-> "create", tenant |-> t, slug |-> UniqueSlug(base, Slugs, t),
               status |-> IF trial THEN "trial" ELSE "active", stale |-> FALSE])
  /\ UNCHANGED <<tables, health, overran>>

\* tenants_slug_active_idx.
SlugIndex(slug) == slug \notin Slugs

CreateCommit(r) ==
  LET q == req[r] IN
  /\ q.op = "create" /\ Done(r)
  /\ ~Exists(q.tenant) /\ SlugIndex(q.slug)
  /\ tenant' = [tenant EXCEPT ![q.tenant] = [slug |-> q.slug, status |-> q.status, closing |-> FALSE]]
  /\ UNCHANGED <<imp, current, health, overran>>

\* The status that a request sets, and whether it asks for the closure of the tenant.
SetStatus(r, t, status, close) ==
  /\ Begin(r, [op |-> "status", tenant |-> t, status |-> status, close |-> close,
               read |-> tenant[t].status, stale |-> FALSE])
  /\ UNCHANGED <<tables, health, overran>>

SuspendTenant(r, t) ==
  GetTenantOr404(t) /\ tenant[t].status # "suspended" /\ SetStatus(r, t, "suspended", FALSE)

ReactivateTenant(r, t) ==
  GetTenantOr404(t) /\ tenant[t].status = "suspended" /\ SetStatus(r, t, "active", FALSE)

CloseTenant(r, t) ==
  GetTenantOr404(t) /\ tenant[t].status # "closing" /\ SetStatus(r, t, "closing", TRUE)

PatchPlatformTenant(r, t, status) ==
  GetTenantOr404(t) /\ SetStatus(r, t, status, FALSE)

StatusCommit(r) ==
  LET q == req[r] IN
  /\ q.op = "status" /\ Done(r) /\ Overran(q)
  /\ tenant' = [tenant EXCEPT ![q.tenant].status = Flushed(q.status, q.read, @),
                              ![q.tenant].closing = @ \/ q.close]
  /\ UNCHANGED <<imp, current, health>>

-----------------------------------------------------------------------------
(* Impersonation.                                                          *)

ActiveRows(a) == {i \in Rows : imp[i].admin = a /\ imp[i].active}

\* Mutant: only the sessions with the same tenant are looked for.
SameTenantOnly(a, t) == {i \in ActiveRows(a) : imp[i].tenant = t}

\* start_impersonation ends every active session of the administrator.
Superseded(a, t) == ActiveRows(a)

StartImpersonation(r, a, t) ==
  /\ GetTenantOr404(t)
  /\ Begin(r, [op |-> "start", admin |-> a, tenant |-> t, seen |-> Superseded(a, t), stale |-> FALSE])
  /\ UNCHANGED <<tables, health, overran>>

StartCommit(r, i) ==
  LET q == req[r] IN
  /\ q.op = "start" /\ Done(r) /\ Overran(q)
  /\ imp[i] = NoRow
  /\ imp' = [x \in Rows |-> IF x = i THEN [admin |-> q.admin, tenant |-> q.tenant, active |-> TRUE]
                            ELSE [imp[x] EXCEPT !.active = @ /\ x \notin q.seen]]
  /\ UNCHANGED <<tenant, current, health>>

\* end_impersonation; two active sessions with the tenant make it raise.
EndImpersonation(r, a, t) ==
  LET I == {i \in ActiveRows(a) : imp[i].tenant = t} IN
  /\ Cardinality(I) <= 1
  /\ Begin(r, [op |-> "end", seen |-> I, stale |-> FALSE])
  /\ UNCHANGED <<tables, health, overran>>

EndCommit(r) ==
  LET q == req[r] IN
  /\ q.op = "end" /\ Done(r)
  /\ imp' = [x \in Rows |-> [imp[x] EXCEPT !.active = @ /\ x \notin q.seen]]
  /\ UNCHANGED <<tenant, current, health, overran>>

-----------------------------------------------------------------------------
(* Engine versions.                                                        *)

\* promote_engine_version loads the row of the target, ...
PromoteEngineVersion(r, v) ==
  /\ Begin(r, [op |-> "promote", version |-> v, was |-> v \in current, read |-> FALSE,
               old |-> {}, stale |-> FALSE])
  /\ UNCHANGED <<tables, health, overran>>

\* ... and by a second statement the row that is current by then.
ReadOldCurrent(r) ==
  /\ req[r].op = "promote" /\ ~req[r].read
  /\ Cardinality(current) <= 1
  /\ req' = [req EXCEPT ![r].read = TRUE, ![r].old = current]
  /\ UNCHANGED <<tables, health, begun, overran>>

\* Mutant: the flag of the old version is left.
KeepsOld(q) == current \cup {q.version}

\* The old version loses its flag unless it is the promoted one.  The flag of the promoted
\* one is written unless it was loaded as set, whoever has cleared it meanwhile.
Promoted(q) == (current \ (q.old \ {q.version})) \cup IF q.was THEN {} ELSE {q.version}

PromoteCommit(r) ==
  LET q == req[r] IN
  /\ q.op = "promote" /\ q.read /\ Done(r)
  /\ current' = Promoted(q)
  /\ overran' = IF ~q.stale THEN overran
                ELSE overran \cup {"promote"} \cup IF q.was THEN {"again"} ELSE {}
  /\ UNCHANGED <<tenant, imp, health>>

-----------------------------------------------------------------------------
(* Health.                                                                 *)

StateWhenDown(s) == IF s = "storage" THEN "down" ELSE "warn"

\* Mutant: "warn" does not count.
OnlyDown == {"down"}

DegradedStates == {"warn", "down"}

\* get_system_health without a cached report; the probes follow, each with its timeout.
GetSystemHealth(r) ==
  /\ cache = None
  /\ Begin(r, [op |-> "health", next |-> 1, states |-> {}, down |-> Services \ up, stale |-> FALSE])
  /\ UNCHANGED <<tables, health, overran>>

Probe(r) ==
  LET q == req[r]
      s == Probes[q.next]
  IN
  /\ q.op = "health" /\ q.next <= 3
  /\ req' = [req EXCEPT ![r].next = @ + 1,
                        ![r].states = @ \cup {IF s \in up THEN "ok" ELSE StateWhenDown(s)}]
  /\ UNCHANGED <<tables, health, begun, overran>>

\* The report is cached for thirty seconds; it remembers whether a service was down
\* from the first to the last probe.
ReportCommit(r) ==
  LET q == req[r] IN
  /\ q.op = "health" /\ q.next > 3 /\ Done(r)
  /\ cache' = [ok |-> q.states \cap DegradedStates = {}, outage |-> q.down # {}]
  /\ UNCHANGED <<tables, up, outages, overran>>

CacheExpires ==
  /\ cache # None /\ cache' = None
  /\ UNCHANGED <<tables, up, outages, req, begun, overran>>

ServiceFails(s) ==
  /\ s \in up /\ up' = up \ {s}
  /\ outages < MaxOutages /\ outages' = outages + 1
  /\ UNCHANGED <<tables, cache, req, begun, overran>>

ServiceRecovers(s) ==
  /\ s \notin up /\ s \in Services /\ up' = up \cup {s}
  /\ req' = [r \in Requests |-> IF req[r].op = "health" THEN [req[r] EXCEPT !.down = @ \ {s}] ELSE req[r]]
  /\ UNCHANGED <<tables, cache, outages, begun, overran>>

\* The handler raises, a constraint refuses the commit, or the process dies.
Abort(r) ==
  /\ req[r] # Idle /\ req' = [req EXCEPT ![r] = Idle]
  /\ UNCHANGED <<tables, health, begun, overran>>

-----------------------------------------------------------------------------
Next ==
  \/ \E r \in Requests, t \in Tenants :
       \/ SuspendTenant(r, t) \/ ReactivateTenant(r, t) \/ CloseTenant(r, t)
       \/ \E s \in Statuses : PatchPlatformTenant(r, t, s)
       \/ \E a \in Admins : StartImpersonation(r, a, t) \/ EndImpersonation(r, a, t)
       \/ \E b \in Bases, trial \in BOOLEAN : CreatePlatformTenant(r, t, b, trial)
  \/ \E r \in Requests, v \in Versions : PromoteEngineVersion(r, v)
  \/ \E r \in Requests : GetSystemHealth(r)
  \/ \E r \in Requests :
       /\ req[r] # Idle
       /\ \/ CreateCommit(r) \/ StatusCommit(r) \/ EndCommit(r) \/ PromoteCommit(r)
          \/ \E i \in Rows : StartCommit(r, i)
          \/ ReadOldCurrent(r) \/ Probe(r) \/ ReportCommit(r) \/ Abort(r)
  \/ CacheExpires
  \/ \E s \in Services : ServiceFails(s) \/ ServiceRecovers(s)

Spec == Init /\ [][Next]_vars

-----------------------------------------------------------------------------
\* A tenant that exists has a slug and a status, an active session an administrator and a
\* tenant, and the flags are those of existing versions.
TypeOK ==
  /\ \A t \in Tenants : Exists(t) => tenant[t].status \in Statuses /\ tenant[t].slug # None
  /\ \A i \in Rows : imp[i].active => imp[i].admin \in Admins /\ Exists(imp[i].tenant)
  /\ current \subseteq Versions /\ up \subseteq Services
  /\ begun \in 0 .. MaxRequests /\ outages \in 0 .. MaxOutages
  /\ overran \subseteq {"status", "start", "promote", "again"}

\* start_impersonation: an administrator impersonates one tenant at a time, unless two
\* starts overlapped.
OneImpersonation == "start" \in overran \/ \A a \in Admins : Cardinality(ActiveRows(a)) <= 1

\* promote_engine_version: one version is current, unless two promotions overlapped.  Then
\* there may be two, which every later promotion refuses to touch; none is left only by an
\* overtaken promotion of the version that was current already.
OneCurrentVersion ==
  /\ "promote" \in overran \/ Cardinality(current) = 1
  /\ "again" \in overran \/ current # {}

\* get_system_health: a service that was down from the first probe to the last shows up as
\* a degraded overall state.
OutageIsReported == cache # None => ~(cache.ok /\ cache.outage)

-----------------------------------------------------------------------------
(* A claim the code does not keep: TLC refutes it on the run of this module. *)

\* Some engine version is always current.  A promotion of the current version is overtaken by
\* one of another version between its two reads: it clears the flag it finds and, having
\* loaded its own flag as set, does not write it.
SomeVersionIsCurrent == current # {}
=============================================================================
