------------------------------ MODULE Members ------------------------------
(***************************************************************************)
(* The members of one workspace, the invitations into it and the notices   *)
(* to its administrators (tenants/service.py, invites/service.py,          *)
(* invites/router.py, notifications/service.py, settings/service.py).      *)
(*                                                                         *)
(* As in module Sessions a request reads when it begins and writes when it *)
(* commits, without row locks in between; one that raises, or that a       *)
(* constraint of the database refuses, is aborted.  SQLAlchemy writes an   *)
(* attribute only when it differs from the value that was loaded.          *)
(*                                                                         *)
(* Constants                                                               *)
(*   Users        people, named by their e-mail address                    *)
(*   Invites      invitations that may ever be sent (bound)                *)
(*   Requests     requests in flight                                       *)
(*   MaxRequests  bound: requests ever begun                               *)
(*   MaxLapses    bound: invitations that reach their expiry date          *)
(***************************************************************************)
EXTENDS Naturals, FiniteSets

CONSTANTS Users, Invites, Requests, MaxRequests, MaxLapses, None

ASSUME MembersAssumption ==
  /\ MaxRequests \in Nat /\ MaxLapses \in Nat
  /\ None \notin Users \cup Invites \cup Requests

VARIABLES
  known,    \* users with an account
  member,   \* rows of tenant_memberships
  invite,   \* rows of invitations
  pref,     \* the member_joined column of notification_preferences
  unread,   \* users with an unread member_joined notification
  req,      \* what a request in flight has read
  begun,    \* requests begun so far
  lapses,   \* invitations that have reached their expiry date so far
  raced,    \* history: how an administrator was taken away unchecked, by a
            \* request that another such request had overtaken ("overlap") or
            \* by a status that the check does not look at ("status")
  grants,   \* history: memberships created with an invitation
  removed   \* history: users ever removed from the workspace

people == <<known, member, invite, pref, unread>>
history == <<raced, grants, removed>>
memberVars == <<people, req, begun, lapses, history>>

Roles == {"administrator", "analyst"}   \* any other string is told apart nowhere here
Statuses == {"active", "disabled", "other"}   \* "other": any other string, which the body may hold
Idle == [op |-> "idle"]
NoMember == [role |-> None, status |-> "none"]
NoInvite == [state |-> "none", user |-> None, role |-> None, overdue |-> FALSE, mailed |-> FALSE]

Row(role, status) == [role |-> role, status |-> status]

\* The workspace of a founder, or of several.
MembersInit ==
  /\ \E A \in (SUBSET Users) \ {{}} :
       member = [u \in Users |-> IF u \in A THEN Row("administrator", "active") ELSE NoMember]
  /\ known \in {K \in SUBSET Users : \A u \in Users : member[u] # NoMember => u \in K}
  /\ invite = [i \in Invites |-> NoInvite]
  /\ pref = [u \in Users |-> "unset"] /\ unread = {}
  /\ req = [r \in Requests |-> Idle] /\ begun = 0 /\ lapses = 0
  /\ raced = {} /\ grants = [i \in Invites |-> 0] /\ removed = {}

-----------------------------------------------------------------------------
(* Requests.                                                               *)

Begin(r, snapshot) ==
  /\ req[r] = Idle /\ req' = [req EXCEPT ![r] = snapshot]
  /\ begun < MaxRequests /\ begun' = begun + 1 /\ UNCHANGED lapses

\* The request ends; the others in flight have been overtaken on these tables.
Done(r, tables) ==
  /\ req[r] # Idle
  /\ req' = [q \in Requests |-> IF q = r THEN Idle
                                ELSE IF req[q] = Idle THEN Idle
                                ELSE [req[q] EXCEPT !.stale = @ \cup tables]]
  /\ UNCHANGED <<begun, lapses>>

-----------------------------------------------------------------------------
(* Members.                                                                *)

ActiveAdmin(u) == member[u] = Row("administrator", "active")

\* require_tenant_admin; None is a platform administrator, who gets a synthetic membership.
RequireTenantAdmin(a) == a # None => ActiveAdmin(a)

\* Mutant: disabled administrators are counted too.
CountsDisabled(u) ==
  \/ member[u].role # "administrator"
  \/ \E v \in Users \ {u} : member[v].role = "administrator"

\* assert_not_last_admin: an administrator may go when another active one exists.
NotLastAdmin(u) ==
  \/ member[u].role # "administrator"
  \/ \E v \in Users \ {u} : ActiveAdmin(v)

\* update_member up to its checks: role and status are None when the body leaves them out.
UpdateMember(r, a, u, role, status) ==
  /\ RequireTenantAdmin(a)
  /\ ~(u = a /\ status = "disabled")
  /\ member[u] # NoMember
  /\ member[u].role = "administrator" /\ (role \notin {None, "administrator"} \/ status = "disabled")
       => NotLastAdmin(u)
  /\ Begin(r, [op |-> "update", user |-> u, role |-> role, status |-> status,
               read |-> member[u], stale |-> {}])
  /\ UNCHANGED <<people, history>>

\* The value an attribute has after the flush: written if the body changed what was read.
Flushed(body, read, now) == IF body \in {None, read} THEN now ELSE body

\* The row of u becomes new, by request r.  When that takes an administrator away the others
\* in flight are told, and it is noted what the checks of the request did not cover.
ChangeMember(r, u, new, unchecked) ==
  LET takes == ActiveAdmin(u) /\ new # Row("administrator", "active")
  IN
  /\ member' = [member EXCEPT ![u] = new]
  /\ Done(r, IF takes THEN {"admins"} ELSE {})
  /\ raced' = IF takes THEN raced \cup unchecked \cup
                              (IF "admins" \in req[r].stale THEN {"overlap"} ELSE {})
              ELSE raced

\* A status that is neither active nor disabled passes without the check.
UncheckedStatus(q) ==
  IF q.status = "other" /\ q.role \in {None, "administrator"} THEN {"status"} ELSE {}

UpdateMemberCommit(r) ==
  LET q == req[r]
      u == q.user
  IN
  /\ q.op = "update"
  /\ member[u] # NoMember            \* StaleDataError when the row has gone
  /\ ChangeMember(r, u, Row(Flushed(q.role, q.read.role, member[u].role),
                            Flushed(q.status, q.read.status, member[u].status)),
                  UncheckedStatus(q))
  /\ UNCHANGED <<known, invite, pref, unread, grants, removed>>

RemoveMember(r, a, u) ==
  /\ RequireTenantAdmin(a) /\ u # a
  /\ member[u] # NoMember
  /\ NotLastAdmin(u)
  /\ Begin(r, [op |-> "remove", user |-> u, stale |-> {}])
  /\ UNCHANGED <<people, history>>

RemoveMemberCommit(r) ==
  LET q == req[r] IN
  /\ q.op = "remove"
  /\ ChangeMember(r, q.user, NoMember, {})
  /\ removed' = removed \cup {q.user}
  /\ UNCHANGED <<known, invite, pref, unread, grants>>

-----------------------------------------------------------------------------
(* Invitations.                                                            *)

Pending(u) == {i \in Invites : invite[i].state = "pending" /\ invite[i].user = u}

\* No invitation pending (two make scalar_one_or_none raise) and no active member.
MayBeInvited(u) == Pending(u) = {} /\ member[u].status # "active"

\* send_invite; the inviter's e-mail address is taken to be verified.
SendInvite(r, a, u, role) ==
  /\ RequireTenantAdmin(a)
  /\ MayBeInvited(u)
  /\ Begin(r, [op |-> "invite", roles |-> [x \in {u} |-> role], stale |-> {}])
  /\ UNCHANGED <<people, history>>

\* batch_send_invites: one refused address refuses the batch.
BatchSendInvites(r, a, roles) ==
  /\ RequireTenantAdmin(a)
  /\ \A u \in DOMAIN roles : MayBeInvited(u)
  /\ Begin(r, [op |-> "invite", roles |-> roles, stale |-> {}])
  /\ UNCHANGED <<people, history>>

InvitedUser(f, i) == CHOOSE u \in DOMAIN f : f[u] = i

\* New pending invitations, invitation f[u] for user u, each with its e-mail in the outbox.
Invited(f, roles) ==
  [i \in Invites |->
     IF \E u \in DOMAIN f : f[u] = i
     THEN [state |-> "pending", user |-> InvitedUser(f, i),
           role |-> roles[InvitedUser(f, i)], overdue |-> FALSE, mailed |-> TRUE]
     ELSE invite[i]]

\* The ways to give every user of U a new row.
NewRows(U) == {f \in [U -> {i \in Invites : invite[i] = NoInvite}] :
                 \A u, v \in U : f[u] = f[v] => u = v}

InviteCommit(r) ==
  LET q == req[r] IN
  /\ q.op = "invite" /\ Done(r, {"invites"})
  /\ \E f \in NewRows(DOMAIN q.roles) : invite' = Invited(f, q.roles)
  /\ UNCHANGED <<known, member, pref, unread, history>>

\* _pref_enabled: the default is to notify.
PrefEnabled(u) == pref[u] # "off"

\* accept_invite with the link that was mailed; the password is the account's own, or a
\* new account's.  The queries do not see the new row (autoflush is off), so the notices
\* go to the administrators there were.
AcceptInvite(r, i) ==
  LET u == invite[i].user IN
  /\ invite[i].state = "pending" /\ ~invite[i].overdue /\ invite[i].mailed
  /\ member[u].status # "active"
  /\ Begin(r, [op |-> "accept", invite |-> i, user |-> u, role |-> invite[i].role,
               newUser |-> u \notin known,
               admins |-> {v \in Users : ActiveAdmin(v) /\ PrefEnabled(v)}, stale |-> {}])
  /\ UNCHANGED <<people, history>>

\* Mutant: the constraint memberships_unique is missing.
NotUnique(u) == TRUE

\* memberships_unique: one row per user and workspace, a disabled one included.
MembershipsUnique(u) == member[u] = NoMember

\* users_email_active_idx: one account per e-mail address.
EmailFree(q) == q.newUser => q.user \notin known

AcceptCommit(r) ==
  LET q == req[r] IN
  /\ q.op = "accept" /\ Done(r, {"invites"})
  /\ EmailFree(q) /\ MembershipsUnique(q.user)
  /\ known' = known \cup {q.user}
  /\ member' = [member EXCEPT ![q.user] = Row(q.role, "active")]
  /\ invite' = [invite EXCEPT ![q.invite].state = "accepted"]
  /\ unread' = unread \cup q.admins
  /\ grants' = [grants EXCEPT ![q.invite] = @ + 1]
  /\ UNCHANGED <<pref, raced, removed>>

\* cancel_invite asks neither for a pending invitation nor for one in time.
CancelInvite(r, a, i) ==
  /\ RequireTenantAdmin(a)
  /\ invite[i] # NoInvite
  /\ Begin(r, [op |-> "cancel", invite |-> i, read |-> invite[i].state, stale |-> {}])
  /\ UNCHANGED <<people, history>>

CancelCommit(r) ==
  LET q == req[r] IN
  /\ q.op = "cancel" /\ Done(r, {"invites"})
  /\ invite' = [invite EXCEPT ![q.invite].state = Flushed("cancelled", q.read, @)]
  /\ UNCHANGED <<known, member, pref, unread, history>>

\* resend_invite: a new token and a new expiry date; nothing is queued for the outbox.
ResendInvite(r, a, i) ==
  /\ RequireTenantAdmin(a)
  /\ invite[i] # NoInvite
  /\ Begin(r, [op |-> "resend", invite |-> i, stale |-> {}])
  /\ UNCHANGED <<people, history>>

ResendCommit(r) ==
  LET q == req[r] IN
  /\ q.op = "resend" /\ Done(r, {"invites"})
  /\ invite' = [invite EXCEPT ![q.invite].mailed = FALSE, ![q.invite].overdue = FALSE]
  /\ UNCHANGED <<known, member, pref, unread, history>>

\* Seven days pass.
InviteLapses(i) ==
  /\ lapses < MaxLapses /\ lapses' = lapses + 1
  /\ invite[i].state = "pending" /\ ~invite[i].overdue
  /\ invite' = [invite EXCEPT ![i].overdue = TRUE]
  /\ UNCHANGED <<known, member, pref, unread, req, begun, history>>

\* The nightly job expire_invitations, one UPDATE.
ExpireInvitations ==
  LET I == {i \in Invites : invite[i].state = "pending" /\ invite[i].overdue} IN
  /\ I # {}
  /\ invite' = [i \in Invites |-> IF i \in I THEN [invite[i] EXCEPT !.state = "expired"] ELSE invite[i]]
  /\ UNCHANGED <<known, member, pref, unread, req, begun, lapses, history>>

-----------------------------------------------------------------------------
(* Notices and preferences.                                                *)

\* upsert_notification_prefs: a row is added when none was found.
UpsertPrefs(r, u, value) ==
  /\ u \in known
  /\ Begin(r, [op |-> "prefs", user |-> u, value |-> value, read |-> pref[u], stale |-> {}])
  /\ UNCHANGED <<people, history>>

\* The unique index on user_id refuses a second row.
UpsertCommit(r) ==
  LET q == req[r] IN
  /\ q.op = "prefs" /\ Done(r, {})
  /\ q.read = "unset" => pref[q.user] = "unset"
  /\ pref' = [pref EXCEPT ![q.user] = Flushed(q.value, q.read, @)]
  /\ UNCHANGED <<known, member, invite, unread, history>>

\* mark_all_read, and mark_read of the only notification.
MarkAllRead(u) ==
  /\ u \in unread
  /\ unread' = unread \ {u}
  /\ UNCHANGED <<known, member, invite, pref, req, begun, lapses, history>>

\* The handler raises, a constraint refuses the commit, or the process dies.
Abort(r) ==
  /\ Done(r, {})
  /\ UNCHANGED <<people, history>>

-----------------------------------------------------------------------------
MemberStep ==
  \/ \E r \in Requests, a \in Users \cup {None} :
       \/ \E u \in Users :
            \/ RemoveMember(r, a, u)
            \/ \E role \in Roles \cup {None}, status \in Statuses \cup {None} :
                 UpdateMember(r, a, u, role, status)
            \/ \E role \in Roles : SendInvite(r, a, u, role)
       \/ \E U \in (SUBSET Users) \ {{}} : \E roles \in [U -> Roles] : BatchSendInvites(r, a, roles)
       \/ \E i \in Invites : CancelInvite(r, a, i) \/ ResendInvite(r, a, i)
  \/ \E r \in Requests, i \in Invites : AcceptInvite(r, i)
  \/ \E r \in Requests, u \in Users, value \in {"on", "off"} : UpsertPrefs(r, u, value)
  \/ \E r \in Requests :
       /\ req[r] # Idle
       /\ \/ UpdateMemberCommit(r) \/ RemoveMemberCommit(r) \/ InviteCommit(r) \/ AcceptCommit(r)
          \/ CancelCommit(r) \/ ResendCommit(r) \/ UpsertCommit(r) \/ Abort(r)
  \/ \E i \in Invites : InviteLapses(i)
  \/ ExpireInvitations
  \/ \E u \in Users : MarkAllRead(u)

MembersSpec == MembersInit /\ [][MemberStep]_memberVars

-----------------------------------------------------------------------------
MemberRows == {NoMember} \cup [role : Roles, status : Statuses]
InviteRows == {NoInvite} \cup [state : {"pending", "accepted", "expired", "cancelled"},
                               user : Users, role : Roles, overdue : BOOLEAN, mailed : BOOLEAN]

\* The rows are of their tables' types; a member and a notified user has an account.
MembersTypeOK ==
  /\ member \in [Users -> MemberRows]
  /\ invite \in [Invites -> InviteRows]
  /\ pref \in [Users -> {"unset", "on", "off"}]
  /\ {u \in Users : member[u] # NoMember} \cup unread \subseteq known /\ known \subseteq Users
  /\ begun \in 0 .. MaxRequests /\ lapses \in 0 .. MaxLapses
  /\ raced \subseteq {"overlap", "status"} /\ grants \in [Invites -> Nat] /\ removed \subseteq Users

\* assert_not_last_admin: the workspace keeps an active administrator, unless one was taken
\* away by a request that had been overtaken by another one taking an administrator away, or
\* by a status other than "disabled", which update_member writes without the check.
KeepsAnAdmin == raced # {} \/ \E u \in Users : ActiveAdmin(u)

\* accept_invite: an invitation makes one membership, although several requests may find it
\* pending -- unless the member has been removed while another acceptance was in flight.
InviteGrantsOnce == \A i \in Invites : grants[i] > 1 => invite[i].user \in removed

-----------------------------------------------------------------------------
(* Claims the code does not keep: TLC refutes them on the run of this module. *)

\* The docstring of assert_not_last_admin, "Raises LastAdminError if removing/demoting this
\* user would leave zero active administrators."  Two requests that overlap leave none, and
\* so does one alone that gives the only administrator the status "inactive".
NeverWithoutAdmin == \E u \in Users : ActiveAdmin(u)

\* "Invitation resent.": the link of a pending invitation has been mailed.
PendingLinkWasMailed == \A i \in Invites : invite[i].state = "pending" => invite[i].mailed
=============================================================================
