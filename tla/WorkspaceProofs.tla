-------------------------- MODULE WorkspaceProofs --------------------------
(***************************************************************************)
(* Theorems about Workspace and the Members it extends, for every number   *)
(* of people, invitations, names and requests in flight.                   *)
(*                                                                         *)
(* A request marks the tables it changed as stale in all the others.  The  *)
(* invariants say what a request still knows about a table that is not     *)
(* stale for it.                                                           *)
(***************************************************************************)
EXTENDS Workspace, FiniteSetTheorems, TLAPS

USE MembersAssumption, WorkspaceAssumption

-----------------------------------------------------------------------------
(* What a request in flight remembers.                                     *)

Ops == {"update", "remove", "invite", "accept", "cancel", "resend", "prefs",
        "create", "rename", "delete", "validate", "onboard"}

\* The fields of a snapshot, by the operation.
Fields(op) ==
  CASE op = "update"   -> {"op", "user", "role", "status", "read", "stale"}
    [] op = "remove"   -> {"op", "user", "stale"}
    [] op = "invite"   -> {"op", "roles", "stale"}
    [] op = "accept"   -> {"op", "invite", "user", "role", "newUser", "admins", "stale"}
    [] op = "cancel"   -> {"op", "invite", "read", "stale"}
    [] op = "resend"   -> {"op", "invite", "stale"}
    [] op = "prefs"    -> {"op", "user", "value", "read", "stale"}
    [] op = "create"   -> {"op", "kind", "names", "stale"}
    [] op = "rename"   -> {"op", "item", "name", "read", "stale"}
    [] op = "delete"   -> {"op", "item", "stale"}
    [] op = "validate" -> {"op", "kind", "names", "allowed", "gone", "stale"}
    [] op = "onboard"  -> {"op", "items", "roles", "stale", "seen"}

Snapshot(q) == q.op \in Ops /\ DOMAIN q = Fields(q.op)

SnapshotsOK ==
  /\ DOMAIN req = Requests
  /\ \A r \in Requests : req[r] = Idle \/ Snapshot(req[r])

\* A change of a member that the check of the last administrator looks at.
Checked(q) ==
  \/ q.op = "remove"
  \/ q.op = "update" /\ (q.role \notin {None, "administrator"} \/ q.status = "disabled")

\* What the checks of update_member and remove_member have established of the members.
TakesNoLastAdmin(q) ==
  /\ q.op = "update" => q.user \in Users /\ q.status \in Statuses \cup {None}
  /\ q.op = "remove" => q.user \in Users
  /\ Checked(q) /\ raced = {} /\ "admins" \notin q.stale
       => \E v \in Users \ {q.user} : ActiveAdmin(v)

\* An invitation that a request has found is still there, and is for the same person.
KnowsInvite(q) ==
  /\ q.op \in {"invite", "onboard"} => DOMAIN q.roles \subseteq Users
  /\ q.op \in {"accept", "cancel", "resend"} => q.invite \in Invites /\ invite[q.invite].user \in Users
  /\ q.op = "accept" => q.user = invite[q.invite].user

\* Rows that a request has found in the catalogue are still there, live or deleted.
KnowsItems(q) ==
  /\ q.op \in {"create", "validate"} => q.kind \in Kinds /\ q.names \subseteq Names
  /\ q.op = "onboard" =>
       /\ q.items \subseteq Kinds \X Names
       /\ \A x \in q.seen : x \in Items /\ item[x] # NoItem
  /\ q.op \in {"rename", "delete"} => q.item \in Items /\ item[q.item] # NoItem

\* The names that a validation accepts are live, will be inserted or had been deleted.
KnowsNames(q) ==
  q.op = "validate" /\ "items" \notin q.stale
    => q.allowed \subseteq LiveNames(q.kind) \cup q.names \cup q.gone

\* A wizard that nobody overtook has found the workspace without its onboarding.
KnowsTenant(q) == q.op = "onboard" /\ "tenant" \notin q.stale => setups = 0

Fits(q) == TakesNoLastAdmin(q) /\ KnowsInvite(q) /\ KnowsItems(q) /\ KnowsNames(q)

-----------------------------------------------------------------------------
\* A request that begins: the others are as before.
LEMMA BeginOthers ==
  ASSUME SnapshotsOK, NEW r \in Requests, NEW s, Begin(r, s)
  PROVE  req' = [q \in Requests |-> IF q = r THEN s ELSE req[q]]
BY DEF SnapshotsOK, Begin

\* A request that ends: it is idle, and the others keep what they have read, with these
\* tables marked as stale.
LEMMA DoneOthers ==
  ASSUME SnapshotsOK, NEW r \in Requests, NEW T, Done(r, T)
  PROVE  /\ SnapshotsOK' /\ req'[r] = Idle
         /\ \A q \in Requests : req'[q] # Idle =>
              /\ q # r /\ req[q] # Idle /\ req'[q].op = req[q].op
              /\ req'[q].stale = req[q].stale \cup T
              /\ \A f \in Fields(req[q].op) \ {"stale"} : req'[q][f] = req[q][f]
<1>1. \A q \in Requests : req[q] # Idle => Snapshot(req[q])
  BY DEF SnapshotsOK
<1>2. \A q \in Requests : \/ "op" \in Fields(req[q].op) /\ "stale" \in Fields(req[q].op)
                          \/ req[q] = Idle
  BY <1>1 DEF Snapshot, Ops, Fields
<1>3. req' = [q \in Requests |-> IF q = r THEN Idle
                ELSE IF req[q] = Idle THEN Idle
                ELSE [req[q] EXCEPT !.stale = @ \cup T]]
  BY DEF Done
<1>4. ASSUME NEW q \in Requests, req'[q] # Idle
      PROVE  q # r /\ req[q] # Idle /\ req'[q] = [req[q] EXCEPT !.stale = @ \cup T]
  BY <1>3, <1>4
<1>5. ASSUME NEW q \in Requests, req'[q] # Idle
      PROVE  /\ DOMAIN req'[q] = DOMAIN req[q] /\ req'[q].op = req[q].op
             /\ req'[q].stale = req[q].stale \cup T
             /\ \A f \in Fields(req[q].op) \ {"stale"} : req'[q][f] = req[q][f]
  <2>1. /\ DOMAIN req[q] = Fields(req[q].op) /\ "op" \in DOMAIN req[q]
        /\ "stale" \in DOMAIN req[q]
    BY <1>1, <1>2, <1>4, <1>5 DEF Snapshot
  <2>2. QED BY <1>4, <1>5, <2>1
<1>6. \A q \in Requests : req'[q] = Idle \/ Snapshot(req'[q])
  BY <1>1, <1>4, <1>5 DEF Snapshot
<1>7. SnapshotsOK' /\ req'[r] = Idle
  BY <1>3, <1>6 DEF SnapshotsOK, Snapshot
<1>8. QED BY <1>4, <1>5, <1>7

-----------------------------------------------------------------------------
(* The rows of the tables.                                                 *)

\* The status of a membership is a string of the request body or "active".
MemberRowsOK ==
  /\ DOMAIN member = Users
  /\ \A u \in Users : member[u] # NoMember => member[u].status \in Statuses

\* An invitation is for a person.
InviteRowsOK ==
  /\ DOMAIN invite = Invites
  /\ \A i \in Invites :
       /\ DOMAIN invite[i] = {"state", "user", "role", "overdue", "mailed"}
       /\ invite[i].user = None => invite[i] = NoInvite
       /\ invite[i].user \in Users \cup {None}

\* The last part is what the checks of a request that begins start from.
RowsOK == MemberRowsOK /\ InviteRowsOK /\ KeepsAnAdmin

\* The first n rows of a table of the catalogue are taken, each live or deleted.
Filled(t, n) ==
  /\ DOMAIN t = Items /\ n \in 0 .. MaxItems
  /\ \A x \in Items :
       /\ DOMAIN t[x] = {"kind", "name", "state"}
       /\ t[x] # NoItem <=> x <= n
       /\ t[x] # NoItem <=> t[x].state \in {"live", "deleted"}

ItemsOK == \E n \in Nat : Filled(item, n)

\* What a request does when it begins: it remembers rows that fit the tables.
BeginStep ==
  \E r \in Requests : \E s :
    /\ Begin(r, s) /\ Snapshot(s) /\ Fits(s)
    /\ s.op = "onboard" => ~tenant.onboarded
    /\ UNCHANGED <<people, history, catalogue>>

LEMMA MemberBegins ==
  ASSUME RowsOK, NEW r \in Requests, NEW a \in Users \cup {None}, UNCHANGED catalogue,
         \/ \E u \in Users :
              \/ RemoveMember(r, a, u)
              \/ \E role \in Roles \cup {None}, status \in Statuses \cup {None} :
                   UpdateMember(r, a, u, role, status)
              \/ \E role \in Roles : SendInvite(r, a, u, role)
         \/ \E U \in (SUBSET Users) \ {{}} : \E roles \in [U -> Roles] : BatchSendInvites(r, a, roles)
         \/ \E i \in Invites : CancelInvite(r, a, i) \/ ResendInvite(r, a, i)
  PROVE  BeginStep
<1> USE DEF Fits, TakesNoLastAdmin, Checked, KnowsInvite, KnowsItems, KnowsNames
<1>1. ASSUME NEW u \in Users, RemoveMember(r, a, u) PROVE BeginStep
  <2> DEFINE s == [op |-> "remove", user |-> u, stale |-> {}]
  <2>1. Snapshot(s)
    BY DEF Snapshot, Ops, Fields
  <2>2. raced = {} => \E v \in Users \ {u} : ActiveAdmin(v)
    BY <1>1 DEF RemoveMember, NotLastAdmin, RowsOK, KeepsAnAdmin, ActiveAdmin, Row
  <2>3. Fits(s) /\ s.op # "onboard"
    BY <2>2
  <2>4. QED BY <1>1, <2>1, <2>3 DEF RemoveMember, BeginStep
<1>2. ASSUME NEW u \in Users, NEW role \in Roles \cup {None},
             NEW status \in Statuses \cup {None}, UpdateMember(r, a, u, role, status)
      PROVE  BeginStep
  <2> DEFINE s == [op |-> "update", user |-> u, role |-> role, status |-> status,
                   read |-> member[u], stale |-> {}]
  <2>1. Snapshot(s)
    BY DEF Snapshot, Ops, Fields
  <2>2. (role \notin {None, "administrator"} \/ status = "disabled") /\ raced = {}
          => \E v \in Users \ {u} : ActiveAdmin(v)
    BY <1>2 DEF UpdateMember, NotLastAdmin, RowsOK, KeepsAnAdmin, ActiveAdmin, Row
  <2>3. Fits(s) /\ s.op # "onboard"
    BY <2>2
  <2>4. QED BY <1>2, <2>1, <2>3 DEF UpdateMember, BeginStep
<1>3. ASSUME NEW roles, DOMAIN roles \subseteq Users,
             Begin(r, [op |-> "invite", roles |-> roles, stale |-> {}]),
             UNCHANGED <<people, history>>
      PROVE  BeginStep
  <2> DEFINE s == [op |-> "invite", roles |-> roles, stale |-> {}]
  <2>1. Snapshot(s)
    BY DEF Snapshot, Ops, Fields
  <2>2. Fits(s) /\ s.op # "onboard"
    BY <1>3
  <2>3. QED BY <1>3, <2>1, <2>2 DEF BeginStep
<1>4. ASSUME NEW i \in Invites, CancelInvite(r, a, i) PROVE BeginStep
  <2> DEFINE s == [op |-> "cancel", invite |-> i, read |-> invite[i].state, stale |-> {}]
  <2>1. Snapshot(s)
    BY DEF Snapshot, Ops, Fields
  <2>2. invite[i].user \in Users
    BY <1>4 DEF CancelInvite, RowsOK, MemberRowsOK, InviteRowsOK
  <2>3. Fits(s) /\ s.op # "onboard"
    BY <2>2
  <2>4. QED BY <1>4, <2>1, <2>3 DEF CancelInvite, BeginStep
<1>5. ASSUME NEW i \in Invites, ResendInvite(r, a, i) PROVE BeginStep
  <2> DEFINE s == [op |-> "resend", invite |-> i, stale |-> {}]
  <2>1. Snapshot(s)
    BY DEF Snapshot, Ops, Fields
  <2>2. invite[i].user \in Users
    BY <1>5 DEF ResendInvite, RowsOK, MemberRowsOK, InviteRowsOK
  <2>3. Fits(s) /\ s.op # "onboard"
    BY <2>2
  <2>4. QED BY <1>5, <2>1, <2>3 DEF ResendInvite, BeginStep
<1>6. ASSUME NEW u \in Users, NEW role \in Roles, SendInvite(r, a, u, role) PROVE BeginStep
  <2>1. DOMAIN [x \in {u} |-> role] \subseteq Users
    OBVIOUS
  <2>2. QED BY <1>3, <1>6, <2>1 DEF SendInvite
<1>7. ASSUME NEW U \in SUBSET Users, NEW roles \in [U -> Roles], BatchSendInvites(r, a, roles)
      PROVE  BeginStep
  <2>1. DOMAIN roles \subseteq Users
    OBVIOUS
  <2>2. QED BY <1>3, <1>7, <2>1 DEF BatchSendInvites
<1>8. QED BY <1>1, <1>2, <1>4, <1>5, <1>6, <1>7

LEMMA AcceptBegins ==
  ASSUME RowsOK, NEW r \in Requests, UNCHANGED catalogue,
         \/ \E i \in Invites : AcceptInvite(r, i)
         \/ \E u \in Users, value \in {"on", "off"} : UpsertPrefs(r, u, value)
  PROVE  BeginStep
<1> USE DEF Fits, TakesNoLastAdmin, Checked, KnowsInvite, KnowsItems, KnowsNames
<1>1. ASSUME NEW i \in Invites, AcceptInvite(r, i) PROVE BeginStep
  <2> DEFINE s == [op |-> "accept", invite |-> i, user |-> invite[i].user, role |-> invite[i].role,
                   newUser |-> invite[i].user \notin known,
                   admins |-> {v \in Users : ActiveAdmin(v) /\ PrefEnabled(v)}, stale |-> {}]
  <2>1. Snapshot(s)
    BY DEF Snapshot, Ops, Fields
  <2>2. invite[i].user \in Users
    <3>1. invite[i].state = "pending"
      BY <1>1 DEF AcceptInvite
    <3>2. QED BY <3>1 DEF RowsOK, MemberRowsOK, InviteRowsOK, NoInvite
  <2>3. Fits(s) /\ s.op # "onboard"
    BY <2>2
  <2>4. Begin(r, s) /\ UNCHANGED <<people, history>>
    BY <1>1 DEF AcceptInvite
  <2>5. QED BY <2>1, <2>3, <2>4 DEF BeginStep
<1>2. ASSUME NEW u \in Users, NEW value, UpsertPrefs(r, u, value) PROVE BeginStep
  <2> DEFINE s == [op |-> "prefs", user |-> u, value |-> value, read |-> pref[u], stale |-> {}]
  <2>1. Snapshot(s) /\ Fits(s) /\ s.op # "onboard"
    BY DEF Snapshot, Ops, Fields
  <2>2. QED BY <1>2, <2>1 DEF UpsertPrefs, BeginStep
<1>3. QED BY <1>1, <1>2

LEMMA CatalogueBegins ==
  ASSUME ItemsOK, NEW r \in Requests,
         \/ \E k \in Kinds :
              \/ \E n \in Names : Create(r, k, n)
              \/ \E N \in (SUBSET Names) \ {{}} : BatchCreate(r, k, N) \/ ValidateFiles(r, k, N)
         \/ \E x \in Items :
              \/ Delete(r, x)
              \/ \E n \in Names, flag \in BOOLEAN : Rename(r, x, n, flag)
         \/ \E a \in Users \cup {None}, w \in Wizards : CompleteOnboarding(r, a, w)
  PROVE  BeginStep
<1> USE DEF Fits, TakesNoLastAdmin, Checked, KnowsInvite, KnowsItems, KnowsNames
<1>0. \A x \in Items : item[x].state = "live" => item[x] # NoItem
  BY DEF NoItem
<1>1. ASSUME NEW k \in Kinds, NEW N \in SUBSET Names,
             Begin(r, [op |-> "create", kind |-> k, names |-> N, stale |-> {}]),
             UNCHANGED <<people, history, catalogue>>
      PROVE  BeginStep
  <2> DEFINE s == [op |-> "create", kind |-> k, names |-> N, stale |-> {}]
  <2>1. Snapshot(s)
    BY DEF Snapshot, Ops, Fields
  <2>2. Fits(s) /\ s.op # "onboard"
    OBVIOUS
  <2>3. QED BY <1>1, <2>1, <2>2 DEF BeginStep
<1>2. ASSUME NEW k \in Kinds, NEW N \in SUBSET Names, ValidateFiles(r, k, N) PROVE BeginStep
  <2> DEFINE new == TrulyNew(k, N \ LiveNames(k))
             ins == IF DistinctInBatch(new) THEN new ELSE {}
             gone == AnyNames(k) \ LiveNames(k)
             s == [op |-> "validate", kind |-> k, names |-> ins,
                   allowed |-> Allowed(k, N), gone |-> gone, stale |-> {}]
  <2>1. Snapshot(s)
    BY DEF Snapshot, Ops, Fields
  <2>2. ins \subseteq Names
    BY DEF TrulyNew
  <2>3. Allowed(k, N) \subseteq LiveNames(k) \cup ins \cup gone
    BY DEF Allowed, TrulyNew
  <2>4. Fits(s) /\ s.op # "onboard"
    <3>1. /\ s.op = "validate" /\ s.kind = k /\ s.names = ins
          /\ s.allowed = Allowed(k, N) /\ s.gone = gone
      OBVIOUS
    <3> HIDE DEF ins, gone, s
    <3>2. QED BY <2>2, <2>3, <3>1
  <2>5. Begin(r, s) /\ UNCHANGED <<people, history, catalogue>>
    BY <1>2 DEF ValidateFiles
  <2>6. QED BY <2>1, <2>4, <2>5, ZenonT(60) DEF BeginStep
<1>3. ASSUME NEW x \in Items, Delete(r, x) PROVE BeginStep
  <2> DEFINE s == [op |-> "delete", item |-> x, stale |-> {}]
  <2>1. Snapshot(s)
    BY DEF Snapshot, Ops, Fields
  <2>2. item[x] # NoItem
    BY <1>0, <1>3 DEF Delete
  <2>3. Fits(s) /\ s.op # "onboard"
    BY <2>2
  <2>4. QED BY <1>3, <2>1, <2>3 DEF Delete, BeginStep
<1>4. ASSUME NEW x \in Items, NEW n \in Names, NEW flag \in BOOLEAN, Rename(r, x, n, flag)
      PROVE  BeginStep
  <2> DEFINE s == [op |-> "rename", item |-> x, name |-> n, read |-> item[x].name, stale |-> {}]
  <2>1. Snapshot(s)
    BY DEF Snapshot, Ops, Fields
  <2>2. item[x] # NoItem
    BY <1>0, <1>4 DEF Rename
  <2>3. Fits(s) /\ s.op # "onboard"
    BY <2>2
  <2>4. Begin(r, s) /\ UNCHANGED <<people, history, catalogue>>
    BY <1>4 DEF Rename
  <2>5. QED BY <2>1, <2>3, <2>4 DEF BeginStep
<1>5. ASSUME NEW a \in Users \cup {None}, NEW w \in Wizards, CompleteOnboarding(r, a, w)
      PROVE  BeginStep
  <2> DEFINE live == {x \in Items : item[x].state = "live"}
             s == [op |-> "onboard", items |-> w.items, roles |-> w.roles, stale |-> {}, seen |-> live]
  <2>1. Snapshot(s)
    BY DEF Snapshot, Ops, Fields
  <2>2. /\ w.items \subseteq Kinds \X Names /\ DOMAIN w.roles \subseteq Users
        /\ \A x \in live : x \in Items /\ item[x] # NoItem
    BY <1>0
  <2>3. Fits(s)
    <3>1. s.op = "onboard" /\ s.items = w.items /\ s.roles = w.roles /\ s.seen = live
      OBVIOUS
    <3> HIDE DEF live, s
    <3>2. QED BY <2>2, <3>1
  <2>4. Begin(r, s) /\ ~tenant.onboarded /\ UNCHANGED <<people, history, catalogue>>
    BY <1>5 DEF CompleteOnboarding, NotOnboarded
  <2>5. QED BY <2>1, <2>3, <2>4 DEF BeginStep
<1>6. ASSUME NEW k \in Kinds, NEW n \in Names, Create(r, k, n) PROVE BeginStep
  BY <1>1, <1>6 DEF Create
<1>7. ASSUME NEW k \in Kinds, NEW N \in SUBSET Names, BatchCreate(r, k, N) PROVE BeginStep
  BY <1>1, <1>7 DEF BatchCreate
<1>8. QED BY <1>2, <1>3, <1>4, <1>5, <1>6, <1>7

-----------------------------------------------------------------------------
(* The steps of a workspace.                                               *)

\* What ends a request.
CommitStep(r) ==
  \/ /\ UNCHANGED catalogue
     /\ \/ UpdateMemberCommit(r) \/ RemoveMemberCommit(r) \/ InviteCommit(r) \/ AcceptCommit(r)
        \/ CancelCommit(r) \/ ResendCommit(r) \/ UpsertCommit(r) \/ Abort(r)
  \/ CreateCommit(r) \/ RenameCommit(r) \/ DeleteCommit(r) \/ ValidateCommit(r)
  \/ OnboardingCommit(r)

\* What happens without a request in flight.
OtherStep ==
  \/ \E i \in Invites : InviteLapses(i) /\ UNCHANGED catalogue
  \/ ExpireInvitations /\ UNCHANGED catalogue
  \/ \E u \in Users : MarkAllRead(u) /\ UNCHANGED catalogue
  \/ \E a \in Users \cup {None} : SaveProgress(a)

LEMMA WorkspaceSteps ==
  ASSUME RowsOK, ItemsOK, Next
  PROVE  BeginStep \/ (\E r \in Requests : CommitStep(r)) \/ OtherStep
<1>1. CASE CatalogueStep
  BY <1>1, CatalogueBegins DEF CatalogueStep, CommitStep, OtherStep
<1>2. CASE MemberStep /\ UNCHANGED catalogue
  BY <1>2, MemberBegins, AcceptBegins DEF MemberStep, CommitStep, OtherStep
<1>3. QED BY <1>1, <1>2 DEF Next

\* A commit that takes an administrator away or changes the catalogue or the onboarding says
\* so to the others.
LEMMA CommitMarks ==
  ASSUME RowsOK, NEW r \in Requests, CommitStep(r)
  PROVE  \E T : /\ Done(r, T)
                /\ "admins" \in T \/ \A v \in Users : ActiveAdmin(v) => ActiveAdmin(v)'
                /\ raced \subseteq raced'
                /\ "items" \in T \/ item' = item
                /\ "tenant" \in T \/ (setups' = setups /\ tenant' = tenant)
<1> USE DEF catalogue, history, people, ActiveAdmin
<1>0. ASSUME NEW u, NEW new, NEW unchecked, ChangeMember(r, u, new, unchecked), UNCHANGED catalogue
      PROVE  \E T : /\ Done(r, T)
                    /\ "admins" \in T \/ \A v \in Users : ActiveAdmin(v) => ActiveAdmin(v)'
                    /\ raced \subseteq raced' /\ item' = item /\ setups' = setups /\ tenant' = tenant
  <2> DEFINE takes == ActiveAdmin(u) /\ new # Row("administrator", "active")
  <2>1. member' = [member EXCEPT ![u] = new]
    BY <1>0 DEF ChangeMember
  <2>2. takes \/ \A v \in Users : ActiveAdmin(v) => ActiveAdmin(v)'
    BY <2>1 DEF RowsOK, MemberRowsOK
  <2>3. Done(r, IF takes THEN {"admins"} ELSE {}) /\ raced \subseteq raced'
    BY <1>0 DEF ChangeMember
  <2> HIDE DEF takes
  <2>4. QED BY <1>0, <2>2, <2>3
<1>1. CASE UpdateMemberCommit(r) /\ UNCHANGED catalogue
  <2>1. PICK u, new, unchecked : ChangeMember(r, u, new, unchecked)
    BY <1>1 DEF UpdateMemberCommit
  <2>2. QED BY <1>0, <1>1, <2>1
<1>2. CASE RemoveMemberCommit(r) /\ UNCHANGED catalogue
  <2>1. PICK u, new, unchecked : ChangeMember(r, u, new, unchecked)
    BY <1>2 DEF RemoveMemberCommit
  <2>2. QED BY <1>0, <1>2, <2>1
<1>3. CASE InviteCommit(r) /\ UNCHANGED catalogue
  BY <1>3 DEF InviteCommit
<1>4. CASE AcceptCommit(r) /\ UNCHANGED catalogue
  <2>1. /\ member[req[r].user] = NoMember /\ raced' = raced /\ Done(r, {"invites"})
        /\ member' = [member EXCEPT ![req[r].user] = Row(req[r].role, "active")]
    BY <1>4 DEF AcceptCommit, MembershipsUnique
  <2>2. \A v \in Users : ActiveAdmin(v) => ActiveAdmin(v)'
    BY <2>1 DEF NoMember, Row, RowsOK, MemberRowsOK
  <2>3. QED BY <1>4, <2>1, <2>2
<1>5. CASE CancelCommit(r) /\ UNCHANGED catalogue
  BY <1>5 DEF CancelCommit
<1>6. CASE ResendCommit(r) /\ UNCHANGED catalogue
  BY <1>6 DEF ResendCommit
<1>7. CASE UpsertCommit(r) /\ UNCHANGED catalogue
  BY <1>7 DEF UpsertCommit
<1>8. CASE Abort(r) /\ UNCHANGED catalogue
  BY <1>8 DEF Abort
<1>9. CASE CreateCommit(r)
  BY <1>9 DEF CreateCommit, NoOther
<1>10. CASE RenameCommit(r)
  BY <1>10 DEF RenameCommit, NoOther
<1>11. CASE DeleteCommit(r)
  BY <1>11 DEF DeleteCommit, NoOther
<1>12. CASE ValidateCommit(r)
  BY <1>12 DEF ValidateCommit, NoOther
<1>13. CASE OnboardingCommit(r)
  BY <1>13 DEF OnboardingCommit
<1>14. QED
  BY <1>1, <1>2, <1>3, <1>4, <1>5, <1>6, <1>7, <1>8, <1>9, <1>10, <1>11, <1>12, <1>13
     DEF CommitStep

LEMMA OtherStepKeeps == OtherStep => UNCHANGED <<req, member, raced, grants, removed, item, setups, unlisted>>
BY DEF OtherStep, InviteLapses, ExpireInvitations, MarkAllRead, SaveProgress, catalogue, memberVars,
       people, history

\* Every step leaves snapshots in flight.
LEMMA SnapshotsStep == RowsOK /\ ItemsOK /\ SnapshotsOK /\ [Next]_vars => SnapshotsOK'
<1> SUFFICES ASSUME RowsOK, ItemsOK, SnapshotsOK, [Next]_vars PROVE SnapshotsOK'
  OBVIOUS
<1>1. CASE BeginStep
  <2>1. PICK r, s : r \in Requests /\ Begin(r, s) /\ Snapshot(s)
    BY <1>1 DEF BeginStep
  <2>2. QED BY <2>1, BeginOthers DEF SnapshotsOK, Snapshot
<1>2. ASSUME NEW r \in Requests, CommitStep(r) PROVE SnapshotsOK'
  <2>1. PICK T : Done(r, T)
    BY <1>2, CommitMarks
  <2>2. QED BY <2>1, DoneOthers
<1>3. CASE UNCHANGED req
  BY <1>3 DEF SnapshotsOK, Snapshot
<1>4. QED BY <1>1, <1>2, <1>3, WorkspaceSteps, OtherStepKeeps DEF vars, memberVars

-----------------------------------------------------------------------------
(* Administrators.                                                         *)

AdminsOK == KeepsAnAdmin /\ \A r \in Requests : TakesNoLastAdmin(req[r])

\* A change of the row of u that takes no administrator away keeps one.
LEMMA ChangeKeepsAdmin ==
  ASSUME RowsOK, KeepsAnAdmin, NEW r \in Requests, NEW u \in Users, NEW new, NEW unchecked,
         ChangeMember(r, u, new, unchecked),
         ActiveAdmin(u) /\ new # Row("administrator", "active") /\ raced = {} /\ "admins" \notin req[r].stale
           => unchecked # {} \/ \E v \in Users \ {u} : ActiveAdmin(v)
  PROVE  KeepsAnAdmin'
<1>1. member'[u] = new /\ \A v \in Users \ {u} : member'[v] = member[v]
  BY DEF ChangeMember, RowsOK, MemberRowsOK
<1>2. CASE raced' # {}
  BY <1>2 DEF KeepsAnAdmin
<1>3. CASE raced' = {}
  <2>1. raced = {} /\ \E v \in Users : ActiveAdmin(v)
    BY <1>3 DEF ChangeMember, KeepsAnAdmin
  <2>2. CASE ActiveAdmin(u) /\ new # Row("administrator", "active")
    <3>1. "admins" \notin req[r].stale /\ unchecked = {}
      BY <1>3, <2>2 DEF ChangeMember
    <3>2. PICK v \in Users \ {u} : ActiveAdmin(v)
      BY <2>1, <2>2, <3>1
    <3>3. QED BY <1>1, <3>2 DEF KeepsAnAdmin, ActiveAdmin
  <2>3. CASE ~(ActiveAdmin(u) /\ new # Row("administrator", "active"))
    BY <1>1, <2>1, <2>3 DEF KeepsAnAdmin, ActiveAdmin
  <2>4. QED BY <2>2, <2>3
<1>4. QED BY <1>2, <1>3

LEMMA UpdateKeepsAdmin ==
  ASSUME RowsOK, AdminsOK, NEW r \in Requests, UpdateMemberCommit(r)
  PROVE  KeepsAnAdmin'
<1> DEFINE q == req[r]
           u == q.user
           role == Flushed(q.role, q.read.role, member[u].role)
           status == Flushed(q.status, q.read.status, member[u].status)
<1>1. /\ q.op = "update" /\ TakesNoLastAdmin(q) /\ KeepsAnAdmin
      /\ ChangeMember(r, u, Row(role, status), UncheckedStatus(q))
  BY DEF UpdateMemberCommit, AdminsOK
<1>2. u \in Users /\ q.status \in Statuses \cup {None}
  BY <1>1 DEF TakesNoLastAdmin
<1>3. ASSUME ActiveAdmin(u), Row(role, status) # Row("administrator", "active"),
             raced = {}, "admins" \notin q.stale
      PROVE  UncheckedStatus(q) # {} \/ \E v \in Users \ {u} : ActiveAdmin(v)
  <2>1. CASE Checked(q)
    BY <1>1, <1>3, <2>1 DEF TakesNoLastAdmin
  <2>2. CASE ~Checked(q)
    <3>1. q.role \in {None, "administrator"} /\ q.status # "disabled"
      BY <1>1, <2>2 DEF Checked
    <3>2. role = "administrator"
      BY <1>3, <3>1 DEF Flushed, ActiveAdmin, Row
    <3>3. status # "active"
      BY <1>3, <3>2
    <3>4. q.status = "other"
      BY <1>2, <1>3, <3>1, <3>3 DEF Flushed, ActiveAdmin, Row, Statuses
    <3>5. QED BY <3>1, <3>4 DEF UncheckedStatus
  <2>3. QED BY <2>1, <2>2
<1> HIDE DEF role, status, u
<1>4. QED BY <1>1, <1>2, <1>3, ChangeKeepsAdmin

LEMMA RemoveKeepsAdmin ==
  ASSUME RowsOK, AdminsOK, NEW r \in Requests, RemoveMemberCommit(r)
  PROVE  KeepsAnAdmin'
<1> DEFINE q == req[r]
<1>1. /\ q.op = "remove" /\ TakesNoLastAdmin(q) /\ KeepsAnAdmin
      /\ ChangeMember(r, q.user, NoMember, {})
  BY DEF RemoveMemberCommit, AdminsOK
<1>2. /\ q.user \in Users
      /\ raced = {} /\ "admins" \notin q.stale => \E v \in Users \ {q.user} : ActiveAdmin(v)
  BY <1>1 DEF TakesNoLastAdmin, Checked
<1>3. QED BY <1>1, <1>2, ChangeKeepsAdmin

\* Until an administrator is taken away, the checks of a request still hold.
LEMMA AdminsStep ==
  RowsOK /\ ItemsOK /\ SnapshotsOK /\ AdminsOK /\ [Next]_vars => AdminsOK'
<1> SUFFICES ASSUME RowsOK, ItemsOK, SnapshotsOK, AdminsOK, [Next]_vars PROVE AdminsOK'
  OBVIOUS
<1>1. CASE BeginStep
  <2>1. PICK r, s : /\ r \in Requests /\ Begin(r, s) /\ TakesNoLastAdmin(s)
                    /\ UNCHANGED <<people, history, catalogue>>
    BY <1>1 DEF BeginStep, Fits
  <2>2. member' = member /\ raced' = raced
    BY <2>1 DEF people, history
  <2>3. QED BY <2>1, <2>2, BeginOthers DEF AdminsOK, KeepsAnAdmin, TakesNoLastAdmin, Checked, ActiveAdmin
<1>2. ASSUME NEW r \in Requests, CommitStep(r) PROVE AdminsOK'
  <2>1. PICK T : /\ Done(r, T) /\ raced \subseteq raced'
                 /\ "admins" \in T \/ \A v \in Users : ActiveAdmin(v) => ActiveAdmin(v)'
    BY <1>2, CommitMarks
  <2>2. ASSUME NEW q \in Requests PROVE TakesNoLastAdmin(req[q])'
    <3>1. CASE req'[q] = Idle
      BY <3>1 DEF Idle, TakesNoLastAdmin, Checked
    <3>2. CASE req'[q] # Idle
      <4>1. /\ req'[q].op = req[q].op /\ req'[q].stale = req[q].stale \cup T
            /\ \A f \in Fields(req[q].op) \ {"stale"} : req'[q][f] = req[q][f]
        BY <2>1, <3>2, DoneOthers
      <4>2. TakesNoLastAdmin(req[q])
        BY DEF AdminsOK
      <4>3. CASE req[q].op = "update"
        <5>1. /\ req'[q].user = req[q].user /\ req'[q].status = req[q].status
              /\ req'[q].role = req[q].role /\ req'[q].read = req[q].read
          BY <4>1, <4>3 DEF Fields
        <5>2. QED BY <2>1, <4>1, <4>2, <4>3, <5>1 DEF TakesNoLastAdmin, Checked
      <4>4. CASE req[q].op = "remove"
        <5>1. req'[q].user = req[q].user
          BY <4>1, <4>4 DEF Fields
        <5>2. QED BY <2>1, <4>1, <4>2, <4>4, <5>1 DEF TakesNoLastAdmin, Checked
      <4>5. QED BY <4>1, <4>3, <4>4 DEF TakesNoLastAdmin, Checked
    <3>3. QED BY <3>1, <3>2
  <2>3. KeepsAnAdmin'
    <3>1. CASE UpdateMemberCommit(r)
      BY <3>1, UpdateKeepsAdmin
    <3>2. CASE RemoveMemberCommit(r)
      BY <3>2, RemoveKeepsAdmin
    <3>3. CASE AcceptCommit(r)
      <4>1. /\ member[req[r].user] = NoMember /\ raced' = raced
            /\ member' = [member EXCEPT ![req[r].user] = Row(req[r].role, "active")]
        BY <3>3 DEF AcceptCommit, MembershipsUnique
      <4>2. \A u \in Users : ActiveAdmin(u) => member'[u] = member[u]
        BY <4>1 DEF ActiveAdmin, NoMember, Row, RowsOK, MemberRowsOK, InviteRowsOK
      <4>3. QED BY <4>1, <4>2 DEF AdminsOK, KeepsAnAdmin, ActiveAdmin
    <3>4. CASE member' = member /\ raced' = raced
      BY <3>4 DEF AdminsOK, KeepsAnAdmin, ActiveAdmin
    <3>5. QED
      BY <1>2, <3>1, <3>2, <3>3, <3>4
         DEF CommitStep, InviteCommit, CancelCommit, ResendCommit, UpsertCommit, Abort, CreateCommit,
             RenameCommit, DeleteCommit, ValidateCommit, OnboardingCommit, NoOther, people, history
  <2>4. QED BY <2>2, <2>3 DEF AdminsOK
<1>3. CASE UNCHANGED <<req, member, raced>>
  BY <1>3 DEF AdminsOK, KeepsAnAdmin, TakesNoLastAdmin, Checked, ActiveAdmin
<1>4. QED
  BY <1>1, <1>2, <1>3, WorkspaceSteps, OtherStepKeeps DEF vars, memberVars, people, history

-----------------------------------------------------------------------------
(* Invitations.                                                            *)

InvitesOK == \A r \in Requests : KnowsInvite(req[r])

\* New rows are written over empty ones only, each for one of the people invited.
LEMMA InvitedRows ==
  ASSUME InviteRowsOK, NEW roles, DOMAIN roles \subseteq Users,
         NEW f \in NewRows(DOMAIN roles), invite' = Invited(f, roles)
  PROVE  /\ InviteRowsOK'
         /\ \A i \in Invites : invite[i].user \in Users => invite'[i] = invite[i]
<1>1. ASSUME NEW i \in Invites, NEW u \in DOMAIN f, f[u] = i
      PROVE  /\ invite[i] = NoInvite /\ InvitedUser(f, i) \in Users
             /\ invite'[i] = [state |-> "pending", user |-> InvitedUser(f, i),
                              role |-> roles[InvitedUser(f, i)], overdue |-> FALSE, mailed |-> TRUE]
  <2>1. invite[i] = NoInvite /\ DOMAIN f \subseteq Users
    BY <1>1 DEF NewRows
  <2>2. InvitedUser(f, i) \in DOMAIN f
    BY <1>1 DEF InvitedUser
  <2>3. QED BY <1>1, <2>1, <2>2 DEF Invited
<1>2. ASSUME NEW i \in Invites, ~\E u \in DOMAIN f : f[u] = i PROVE invite'[i] = invite[i]
  BY <1>2 DEF Invited
<1>3. DOMAIN invite' = Invites
  BY DEF Invited
<1>4. ASSUME NEW i \in Invites
      PROVE  /\ DOMAIN invite'[i] = {"state", "user", "role", "overdue", "mailed"}
             /\ invite'[i].user = None => invite'[i] = NoInvite
             /\ invite'[i].user \in Users \cup {None}
             /\ invite[i].user \in Users => invite'[i] = invite[i]
  <2>1. CASE \E u \in DOMAIN f : f[u] = i
    <3>1. /\ invite[i] = NoInvite /\ InvitedUser(f, i) \in Users
          /\ invite'[i] = [state |-> "pending", user |-> InvitedUser(f, i),
                           role |-> roles[InvitedUser(f, i)], overdue |-> FALSE, mailed |-> TRUE]
      BY <1>1, <2>1
    <3>2. DOMAIN invite'[i] = {"state", "user", "role", "overdue", "mailed"} /\ invite'[i].user \in Users
      BY <3>1
    <3>3. None \notin Users /\ invite[i].user = None
      BY <3>1 DEF NoInvite
    <3>4. QED BY <3>2, <3>3
  <2>2. CASE ~\E u \in DOMAIN f : f[u] = i
    BY <1>2, <2>2 DEF InviteRowsOK
  <2>3. QED BY <2>1, <2>2
<1>5. QED BY <1>3, <1>4 DEF InviteRowsOK

\* A change of other columns leaves the row for the same person.
LEMMA InviteColumns ==
  ASSUME InviteRowsOK, DOMAIN invite' = Invites,
         \A i \in Invites : \/ invite'[i] = invite[i]
                            \/ /\ invite[i].user \in Users /\ invite'[i].user = invite[i].user
                               /\ DOMAIN invite'[i] = DOMAIN invite[i]
  PROVE  /\ InviteRowsOK'
         /\ \A i \in Invites : invite[i].user \in Users => invite'[i].user = invite[i].user
<1>1. \A i \in Invites : invite[i].user \in Users => invite[i].user # None
  OBVIOUS
<1>2. ASSUME NEW i \in Invites
      PROVE  /\ DOMAIN invite'[i] = {"state", "user", "role", "overdue", "mailed"}
             /\ invite'[i].user = None => invite'[i] = NoInvite
             /\ invite'[i].user \in Users \cup {None}
             /\ invite[i].user \in Users => invite'[i].user = invite[i].user
  BY <1>1 DEF InviteRowsOK
<1>3. QED BY <1>2 DEF InviteRowsOK

\* No step gives an invitation to another person or takes its row away.
LEMMA InvitesStep ==
  ASSUME RowsOK, ItemsOK, InvitesOK, [Next]_vars
  PROVE  /\ InviteRowsOK'
         /\ \A i \in Invites : invite[i].user \in Users => invite'[i].user = invite[i].user
<1> DEFINE Goal == /\ InviteRowsOK'
                   /\ \A i \in Invites : invite[i].user \in Users => invite'[i].user = invite[i].user
<1> USE DEF RowsOK
<1>1. CASE UNCHANGED invite
  BY <1>1 DEF InviteRowsOK
<1>2. ASSUME NEW r \in Requests, CommitStep(r) PROVE Goal
  <2>0. KnowsInvite(req[r])
    BY DEF InvitesOK
  <2>1. CASE InviteCommit(r) \/ OnboardingCommit(r)
    <3>1. PICK f \in NewRows(DOMAIN req[r].roles) : invite' = Invited(f, req[r].roles)
      BY <2>1 DEF InviteCommit, OnboardingCommit
    <3>2. DOMAIN req[r].roles \subseteq Users
      BY <2>0, <2>1 DEF InviteCommit, OnboardingCommit, KnowsInvite
    <3>3. QED BY <3>1, <3>2, InvitedRows
  <2>2. CASE AcceptCommit(r) \/ CancelCommit(r) \/ ResendCommit(r)
    <3>1. req[r].invite \in Invites /\ invite[req[r].invite].user \in Users
      BY <2>0, <2>2 DEF KnowsInvite, AcceptCommit, CancelCommit, ResendCommit
    <3>2. DOMAIN invite[req[r].invite] = {"state", "user", "role", "overdue", "mailed"}
      BY <3>1 DEF InviteRowsOK
    <3>3. /\ DOMAIN invite' = Invites
          /\ \A i \in Invites \ {req[r].invite} : invite'[i] = invite[i]
          /\ invite'[req[r].invite].user = invite[req[r].invite].user
          /\ DOMAIN invite'[req[r].invite] = DOMAIN invite[req[r].invite]
      <4>1. CASE AcceptCommit(r)
        BY <3>1, <3>2, <4>1 DEF AcceptCommit, InviteRowsOK
      <4>2. CASE CancelCommit(r)
        BY <3>1, <3>2, <4>2 DEF CancelCommit, InviteRowsOK
      <4>3. CASE ResendCommit(r)
        BY <3>1, <3>2, <4>3 DEF ResendCommit, InviteRowsOK
      <4>4. QED BY <2>2, <4>1, <4>2, <4>3
    <3>4. QED BY <3>1, <3>3, InviteColumns
  <2>3. QED
    BY <1>1, <1>2, <2>1, <2>2
       DEF CommitStep, UpdateMemberCommit, RemoveMemberCommit, UpsertCommit, Abort, CreateCommit,
           RenameCommit, DeleteCommit, ValidateCommit, NoOther, people
<1>3. ASSUME NEW i \in Invites, InviteLapses(i) PROVE Goal
  <2>1. invite[i].user \in Users /\ DOMAIN invite[i] = {"state", "user", "role", "overdue", "mailed"}
    BY <1>3 DEF InviteLapses, InviteRowsOK, NoInvite
  <2>2. /\ DOMAIN invite' = Invites /\ \A j \in Invites \ {i} : invite'[j] = invite[j]
        /\ invite'[i].user = invite[i].user /\ DOMAIN invite'[i] = DOMAIN invite[i]
    BY <1>3, <2>1 DEF InviteLapses, InviteRowsOK
  <2>3. QED BY <2>1, <2>2, InviteColumns
<1>4. CASE ExpireInvitations
  <2>1. DOMAIN invite' = Invites
    BY <1>4 DEF ExpireInvitations
  <2>2. ASSUME NEW i \in Invites
        PROVE  \/ invite'[i] = invite[i]
               \/ /\ invite[i].user \in Users /\ invite'[i].user = invite[i].user
                  /\ DOMAIN invite'[i] = DOMAIN invite[i]
    <3>1. DOMAIN invite[i] = {"state", "user", "role", "overdue", "mailed"}
      BY DEF InviteRowsOK
    <3>2. CASE invite[i].state = "pending" /\ invite[i].overdue
      <4>1. invite[i].user \in Users
        BY <3>2 DEF InviteRowsOK, NoInvite
      <4>2. invite'[i] = [invite[i] EXCEPT !.state = "expired"]
        BY <1>4, <3>2 DEF ExpireInvitations
      <4>3. QED BY <3>1, <4>1, <4>2
    <3>3. CASE ~(invite[i].state = "pending" /\ invite[i].overdue)
      BY <1>4, <3>3 DEF ExpireInvitations
    <3>4. QED BY <3>2, <3>3
  <2>3. QED BY <2>1, <2>2, InviteColumns
<1>5. QED
  BY <1>1, <1>2, <1>3, <1>4, WorkspaceSteps
     DEF BeginStep, OtherStep, MarkAllRead, SaveProgress, vars, memberVars, people

\* A membership that is changed keeps a status, and one that goes has been removed.
LEMMA MemberRowsStep ==
  ASSUME RowsOK, ItemsOK, AdminsOK, [Next]_vars
  PROVE  /\ MemberRowsOK'
         /\ \A u \in Users : member[u] # NoMember /\ member'[u] = NoMember => u \in removed'
         /\ removed \subseteq removed'
<1> DEFINE Goal == /\ MemberRowsOK'
                   /\ \A u \in Users : member[u] # NoMember /\ member'[u] = NoMember => u \in removed'
                   /\ removed \subseteq removed'
<1>0. MemberRowsOK
  BY DEF RowsOK
<1>1. CASE UNCHANGED <<member, removed>>
  BY <1>0, <1>1 DEF MemberRowsOK
<1>2. ASSUME NEW r \in Requests, CommitStep(r) PROVE Goal
  <2>1. CASE UpdateMemberCommit(r)
    <3> DEFINE q == req[r]
               u == q.user
               new == Row(Flushed(q.role, q.read.role, member[u].role),
                          Flushed(q.status, q.read.status, member[u].status))
    <3>1. u \in Users /\ q.status \in Statuses \cup {None}
      BY <2>1 DEF UpdateMemberCommit, AdminsOK, TakesNoLastAdmin
    <3>2. member[u].status \in Statuses
      BY <1>0, <2>1, <3>1 DEF UpdateMemberCommit, MemberRowsOK
    <3>3. new.status \in Statuses
      BY <3>1, <3>2 DEF Row, Flushed
    <3>4. new # NoMember
      BY <3>3 DEF NoMember, Statuses
    <3>5. member' = [member EXCEPT ![u] = new] /\ removed' = removed
      BY <2>1 DEF UpdateMemberCommit, ChangeMember
    <3> HIDE DEF u, new
    <3>6. QED BY <1>0, <3>1, <3>3, <3>4, <3>5 DEF MemberRowsOK
  <2>2. CASE RemoveMemberCommit(r)
    BY <1>0, <2>2 DEF RemoveMemberCommit, ChangeMember, MemberRowsOK
  <2>3. CASE AcceptCommit(r)
    <3>1. Row(req[r].role, "active").status = "active"
      BY DEF Row
    <3>2. Row(req[r].role, "active") # NoMember
      BY <3>1 DEF NoMember
    <3>3. QED BY <1>0, <2>3, <3>1, <3>2 DEF AcceptCommit, MemberRowsOK, Statuses
  <2>4. QED
    BY <1>1, <1>2, <2>1, <2>2, <2>3
       DEF CommitStep, InviteCommit, CancelCommit, ResendCommit, UpsertCommit, Abort, CreateCommit,
           RenameCommit, DeleteCommit, ValidateCommit, OnboardingCommit, NoOther, people, history
<1>3. QED
  BY <1>1, <1>2, WorkspaceSteps, OtherStepKeeps DEF BeginStep, vars, memberVars, people, history

\* What a request knows of an invitation stays true.
LEMMA InvitesKnownStep ==
  ASSUME RowsOK, ItemsOK, SnapshotsOK, InvitesOK, [Next]_vars
  PROVE  InvitesOK'
<1>0. \A i \in Invites : invite[i].user \in Users => invite'[i].user = invite[i].user
  BY InvitesStep
<1>1. CASE BeginStep
  <2>1. PICK r, s : r \in Requests /\ Begin(r, s) /\ KnowsInvite(s) /\ UNCHANGED <<people, history, catalogue>>
    BY <1>1 DEF BeginStep, Fits
  <2>2. invite' = invite
    BY <2>1 DEF people
  <2>3. QED BY <2>1, <2>2, BeginOthers DEF InvitesOK, KnowsInvite
<1>2. ASSUME NEW r \in Requests, CommitStep(r) PROVE InvitesOK'
  <2>1. PICK T : Done(r, T)
    BY <1>2, CommitMarks
  <2>2. ASSUME NEW q \in Requests PROVE KnowsInvite(req[q])'
    <3>1. CASE req'[q] = Idle
      BY <3>1 DEF Idle, KnowsInvite
    <3>2. CASE req'[q] # Idle
      <4>1. /\ req'[q].op = req[q].op
            /\ \A f \in Fields(req[q].op) \ {"stale"} : req'[q][f] = req[q][f]
        BY <2>1, <3>2, DoneOthers
      <4>2. KnowsInvite(req[q])
        BY DEF InvitesOK
      <4>3. CASE req[q].op \in {"invite", "onboard"}
        <5>1. req'[q].roles = req[q].roles
          BY <4>1, <4>3 DEF Fields
        <5>2. QED BY <4>1, <4>2, <4>3, <5>1 DEF KnowsInvite
      <4>4. CASE req[q].op \in {"cancel", "resend"}
        <5>1. req'[q].invite = req[q].invite
          BY <4>1, <4>4 DEF Fields
        <5>2. QED BY <1>0, <4>1, <4>2, <4>4, <5>1 DEF KnowsInvite
      <4>5. CASE req[q].op = "accept"
        <5>1. req'[q].invite = req[q].invite /\ req'[q].user = req[q].user
          BY <4>1, <4>5 DEF Fields
        <5>2. QED BY <1>0, <4>1, <4>2, <4>5, <5>1 DEF KnowsInvite
      <4>6. QED BY <4>1, <4>3, <4>4, <4>5 DEF KnowsInvite
    <3>3. QED BY <3>1, <3>2
  <2>3. QED BY <2>2 DEF InvitesOK
<1>3. CASE UNCHANGED req
  BY <1>0, <1>3 DEF InvitesOK, KnowsInvite
<1>4. QED BY <1>1, <1>2, <1>3, WorkspaceSteps, OtherStepKeeps DEF vars, memberVars

\* A person who came in by an invitation and was never removed is still a member, so that
\* the constraint memberships_unique refuses to let them in again.
GrantsOK ==
  /\ DOMAIN grants = Invites
  /\ \A i \in Invites :
       /\ grants[i] \in Nat
       /\ grants[i] > 0 => /\ invite[i].user \in Users
                           /\ \/ invite[i].user \in removed
                              \/ grants[i] = 1 /\ member[invite[i].user] # NoMember

LEMMA GrantsStep ==
  ASSUME RowsOK, ItemsOK, AdminsOK, InvitesOK, GrantsOK, [Next]_vars
  PROVE  GrantsOK'
<1>1. /\ \A i \in Invites : invite[i].user \in Users => invite'[i].user = invite[i].user
      /\ \A u \in Users : member[u] # NoMember /\ member'[u] = NoMember => u \in removed'
      /\ removed \subseteq removed'
  BY InvitesStep, MemberRowsStep
<1>2. ASSUME NEW r \in Requests, AcceptCommit(r) PROVE GrantsOK'
  <2> DEFINE q == req[r]
             i == q.invite
             new == Row(q.role, "active")
  <2>1. i \in Invites /\ q.user = invite[i].user /\ q.user \in Users
    BY <1>2 DEF AcceptCommit, InvitesOK, KnowsInvite
  <2>2. /\ member[q.user] = NoMember /\ removed' = removed
        /\ member' = [member EXCEPT ![q.user] = new]
        /\ grants' = [grants EXCEPT ![i] = @ + 1]
    BY <1>2 DEF AcceptCommit, MembershipsUnique
  <2>3. new # NoMember
    BY DEF Row, NoMember
  <2>4. member'[q.user] # NoMember
    BY <2>1, <2>2, <2>3 DEF RowsOK, MemberRowsOK
  <2>5. invite'[i].user = q.user /\ grants'[i] = grants[i] + 1
    BY <1>1, <2>1, <2>2 DEF GrantsOK
  <2>6. grants[i] = 0 \/ q.user \in removed
    BY <2>1, <2>2 DEF GrantsOK
  <2>7. /\ grants'[i] \in Nat /\ invite'[i].user \in Users
        /\ \/ invite'[i].user \in removed'
           \/ grants'[i] = 1 /\ member'[invite'[i].user] # NoMember
    BY <2>1, <2>2, <2>4, <2>5, <2>6 DEF GrantsOK
  <2>8. ASSUME NEW j \in Invites \ {i}
        PROVE  /\ grants'[j] \in Nat
               /\ grants'[j] > 0 => /\ invite'[j].user \in Users
                                   /\ \/ invite'[j].user \in removed'
                                      \/ grants'[j] = 1 /\ member'[invite'[j].user] # NoMember
    <3>1. grants'[j] = grants[j]
      BY <2>2 DEF GrantsOK
    <3>2. QED BY <1>1, <3>1 DEF GrantsOK
  <2>9. DOMAIN grants' = Invites
    BY <2>2 DEF GrantsOK
  <2> HIDE DEF i
  <2>10. QED BY <2>7, <2>8, <2>9 DEF GrantsOK
<1>3. CASE grants' = grants
  BY <1>1, <1>3 DEF GrantsOK
<1>4. QED
  BY <1>2, <1>3, WorkspaceSteps, OtherStepKeeps
     DEF BeginStep, CommitStep, UpdateMemberCommit, RemoveMemberCommit, InviteCommit, CancelCommit,
         ResendCommit, UpsertCommit, Abort, CreateCommit, RenameCommit, DeleteCommit, ValidateCommit,
         OnboardingCommit, NoOther, vars, memberVars, history

-----------------------------------------------------------------------------
(* The catalogue.                                                          *)

CatalogueOK == ItemsOK /\ \A r \in Requests : KnowsItems(req[r])

\* Adding rows to a table whose first n rows are taken keeps those, adds one live row for
\* every pair, and takes the rows that follow.
LEMMA AddedRows ==
  ASSUME NEW t, NEW n \in Nat, Filled(t, n), NEW R, R \subseteq Kinds \X Names, IsFiniteSet(R),
         NEW new \in WithItems(t, R)
  PROVE  /\ \E m \in Nat : Filled(new, m)
         /\ \A x \in Items : t[x] # NoItem => new[x] = t[x]
         /\ \A p \in R : \E x \in Items : new[x] = Item(p[1], p[2], "live")
<1>1. {x \in Items : t[x] # NoItem} = 1 .. n
  BY DEF Filled, Items
<1>2. Cardinality({x \in Items : t[x] # NoItem}) = n
  <2>1. Cardinality(1 .. n) = IF 1 > n THEN 0 ELSE n - 1 + 1
    BY FS_Interval
  <2>2. Cardinality(1 .. n) = n
    BY <2>1
  <2>3. QED BY <1>1, <2>2, Zenon
<1>3. Cardinality(R) \in Nat
  BY FS_CardinalityType
<1> DEFINE m == n + Cardinality(R)
           I == n + 1 .. m
<1>4. PICK f \in [I -> R] :
        /\ I \subseteq Items /\ \A p \in R : \E x \in I : f[x] = p
        /\ new = [x \in Items |-> IF x \in I THEN Item(f[x][1], f[x][2], "live") ELSE t[x]]
  BY <1>2 DEF WithItems
<1>5. \A x \in Items : t[x] # NoItem => x \notin I /\ new[x] = t[x]
  BY <1>3, <1>4 DEF Filled, Items
<1>6. \A p \in R : \E x \in Items : new[x] = Item(p[1], p[2], "live")
  BY <1>4
<1>7. m \in 0 .. MaxItems
  <2>1. CASE Cardinality(R) = 0
    BY <1>3, <2>1 DEF Filled
  <2>2. CASE Cardinality(R) # 0
    <3>1. m \in I
      BY <1>3, <2>2
    <3>2. QED BY <1>4, <3>1 DEF Items
  <2>3. QED BY <2>1, <2>2
<1>8. ASSUME NEW x \in Items
      PROVE  /\ DOMAIN new[x] = {"kind", "name", "state"}
             /\ new[x] # NoItem <=> x <= m
             /\ new[x] # NoItem <=> new[x].state \in {"live", "deleted"}
  <2>1. CASE x \in I
    <3>1. new[x] = Item(f[x][1], f[x][2], "live")
      BY <1>4, <2>1
    <3>2. new[x].state = "live" /\ DOMAIN new[x] = {"kind", "name", "state"}
      BY <3>1 DEF Item
    <3>3. new[x] # NoItem
      BY <3>2 DEF NoItem
    <3>4. x <= m
      BY <1>3, <2>1
    <3>5. QED BY <3>2, <3>3, <3>4
  <2>2. CASE x \notin I
    <3>1. new[x] = t[x]
      BY <1>4, <2>2
    <3>2. x <= m <=> x <= n
      BY <1>3, <2>2 DEF Items
    <3>3. QED BY <3>1, <3>2 DEF Filled
  <2>3. QED BY <2>1, <2>2
<1>9. DOMAIN new = Items
  BY <1>4
<1> HIDE DEF m
<1>10. Filled(new, m) /\ m \in Nat
  BY <1>7, <1>8, <1>9 DEF Filled
<1>11. QED BY <1>5, <1>6, <1>10

\* Writing the name or the state of rows that are taken leaves the same rows taken.
LEMMA ChangedRows ==
  ASSUME NEW t, NEW n \in Nat, Filled(t, n), NEW new, DOMAIN new = Items,
         \A x \in Items : \/ new[x] = t[x]
                          \/ /\ t[x] # NoItem /\ DOMAIN new[x] = {"kind", "name", "state"}
                             /\ new[x].state \in {"live", "deleted"}
  PROVE  Filled(new, n)
<1>1. NoItem.state = "none"
  BY DEF NoItem
<1>2. \A x \in Items :
        /\ DOMAIN new[x] = {"kind", "name", "state"}
        /\ new[x] # NoItem <=> x <= n
        /\ new[x] # NoItem <=> new[x].state \in {"live", "deleted"}
  BY <1>1 DEF Filled
<1>3. QED BY <1>2 DEF Filled

\* The rows that the wizard deletes are taken.
LEMMA SoftDeletedRows ==
  ASSUME NEW n \in Nat, Filled(item, n), NEW X, \A x \in X : x \in Items /\ item[x] # NoItem
  PROVE  /\ Filled(SoftDeleted(X), n)
         /\ \A x \in Items : item[x] # NoItem => SoftDeleted(X)[x] # NoItem
<1>1. DOMAIN SoftDeleted(X) = Items
  BY DEF SoftDeleted
<1>2. ASSUME NEW x \in Items
      PROVE  \/ SoftDeleted(X)[x] = item[x]
             \/ /\ item[x] # NoItem /\ DOMAIN SoftDeleted(X)[x] = {"kind", "name", "state"}
                /\ SoftDeleted(X)[x].state \in {"live", "deleted"}
  <2>1. DOMAIN item[x] = {"kind", "name", "state"}
    BY DEF Filled
  <2>2. CASE x \in X
    <3>1. SoftDeleted(X)[x] = [item[x] EXCEPT !.state = "deleted"]
      BY <2>2 DEF SoftDeleted
    <3>2. QED BY <2>1, <2>2, <3>1
  <2>3. CASE x \notin X
    BY <2>3 DEF SoftDeleted
  <2>4. QED BY <2>2, <2>3
<1>3. Filled(SoftDeleted(X), n)
  BY <1>1, <1>2, ChangedRows
<1>4. QED BY <1>3 DEF Filled

LEMMA FiniteBatch ==
  ASSUME NEW R, R \subseteq Kinds \X Names
  PROVE  IsFiniteSet(R)
<1>1. IsFiniteSet({"segment", "collateral"})
  <2>1. IsFiniteSet({"segment"}) /\ {"segment", "collateral"} = {"segment"} \cup {"collateral"}
    BY FS_Singleton
  <2>2. QED BY <2>1, FS_AddElement
<1>2. IsFiniteSet(Kinds)
  BY <1>1, FS_Subset
<1>3. QED BY <1>2, FS_Product, FS_Subset

\* Rows are never given back: a row that was taken stays taken.
LEMMA ItemsStep ==
  ASSUME RowsOK, CatalogueOK, [Next]_vars
  PROVE  /\ ItemsOK'
         /\ \A x \in Items : item[x] # NoItem => item'[x] # NoItem
<1> DEFINE Goal == /\ ItemsOK'
                   /\ \A x \in Items : item[x] # NoItem => item'[x] # NoItem
<1>0. PICK n \in Nat : Filled(item, n)
  BY DEF CatalogueOK, ItemsOK
<1>1. CASE UNCHANGED item
  BY <1>0, <1>1 DEF ItemsOK, Filled
<1>2. ASSUME NEW r \in Requests, CommitStep(r) PROVE Goal
  <2>0. KnowsItems(req[r])
    BY DEF CatalogueOK
  <2>1. CASE CreateCommit(r) \/ ValidateCommit(r)
    <3>1. req[r].kind \in Kinds /\ req[r].names \subseteq Names
      BY <2>0, <2>1 DEF KnowsItems, CreateCommit, ValidateCommit
    <3>2. {req[r].kind} \X req[r].names \subseteq Kinds \X Names
      BY <3>1
    <3>3. item' \in WithItems(item, {req[r].kind} \X req[r].names)
      BY <2>1 DEF CreateCommit, ValidateCommit
    <3>4. /\ \E m \in Nat : Filled(item', m)
          /\ \A x \in Items : item[x] # NoItem => item'[x] = item[x]
      BY <1>0, <3>2, <3>3, FiniteBatch, AddedRows
    <3>5. QED BY <3>4 DEF ItemsOK, Filled
  <2>2. CASE RenameCommit(r) \/ DeleteCommit(r)
    <3>1. req[r].item \in Items /\ item[req[r].item] # NoItem
      BY <2>0, <2>2 DEF KnowsItems, RenameCommit, DeleteCommit
    <3>2. /\ DOMAIN item[req[r].item] = {"kind", "name", "state"} /\ DOMAIN item = Items
          /\ item[req[r].item].state \in {"live", "deleted"}
      BY <1>0, <3>1 DEF Filled
    <3>3. /\ DOMAIN item' = Items /\ \A x \in Items \ {req[r].item} : item'[x] = item[x]
          /\ DOMAIN item'[req[r].item] = {"kind", "name", "state"}
          /\ item'[req[r].item].state \in {"live", "deleted"}
      <4>1. CASE RenameCommit(r)
        BY <3>1, <3>2, <4>1 DEF RenameCommit
      <4>2. CASE DeleteCommit(r)
        BY <3>1, <3>2, <4>2 DEF DeleteCommit
      <4>3. QED BY <2>2, <4>1, <4>2
    <3>4. Filled(item', n)
      BY <1>0, <3>1, <3>3, ChangedRows
    <3>5. QED BY <1>0, <3>4 DEF ItemsOK, Filled
  <2>3. CASE OnboardingCommit(r)
    <3>1. PICK X \in {req[r].seen, {x \in Items : item[x].state = "live"}} :
            item' \in WithItems(SoftDeleted(X), req[r].items)
      BY <2>3 DEF OnboardingCommit
    <3>2. \A x \in X : x \in Items /\ item[x] # NoItem
      <4>1. CASE X = req[r].seen
        BY <2>0, <2>3, <4>1 DEF KnowsItems, OnboardingCommit
      <4>2. CASE X = {x \in Items : item[x].state = "live"}
        BY <4>2 DEF NoItem
      <4>3. QED BY <3>1, <4>1, <4>2
    <3>3. req[r].items \subseteq Kinds \X Names
      BY <2>0, <2>3 DEF KnowsItems, OnboardingCommit
    <3>4. /\ Filled(SoftDeleted(X), n)
          /\ \A x \in Items : item[x] # NoItem => SoftDeleted(X)[x] # NoItem
      BY <1>0, <3>2, SoftDeletedRows
    <3>5. /\ \E m \in Nat : Filled(item', m)
          /\ \A x \in Items : SoftDeleted(X)[x] # NoItem => item'[x] = SoftDeleted(X)[x]
      BY <3>1, <3>3, <3>4, FiniteBatch, AddedRows
    <3>6. QED BY <3>4, <3>5 DEF ItemsOK
  <2>4. QED
    BY <1>1, <1>2, <2>1, <2>2, <2>3
       DEF CommitStep, catalogue
<1>3. QED
  BY <1>1, <1>2, WorkspaceSteps, OtherStepKeeps DEF BeginStep, CatalogueOK, vars, catalogue

\* What a request knows of the rows of the catalogue stays true.
LEMMA CatalogueStepOK ==
  ASSUME RowsOK, SnapshotsOK, CatalogueOK, [Next]_vars
  PROVE  CatalogueOK'
<1>0. ItemsOK' /\ \A x \in Items : item[x] # NoItem => item'[x] # NoItem
  BY ItemsStep
<1>1. CASE BeginStep
  <2>1. PICK r, s : r \in Requests /\ Begin(r, s) /\ KnowsItems(s) /\ UNCHANGED <<people, history, catalogue>>
    BY <1>1 DEF BeginStep, Fits
  <2>2. item' = item
    BY <2>1 DEF catalogue
  <2>3. QED BY <1>0, <2>1, <2>2, BeginOthers DEF CatalogueOK, KnowsItems
<1>2. ASSUME NEW r \in Requests, CommitStep(r) PROVE CatalogueOK'
  <2>1. PICK T : Done(r, T)
    BY <1>2, CommitMarks
  <2>2. ASSUME NEW q \in Requests PROVE KnowsItems(req[q])'
    <3>1. CASE req'[q] = Idle
      BY <3>1 DEF Idle, KnowsItems
    <3>2. CASE req'[q] # Idle
      <4>1. /\ req'[q].op = req[q].op
            /\ \A f \in Fields(req[q].op) \ {"stale"} : req'[q][f] = req[q][f]
        BY <2>1, <3>2, DoneOthers
      <4>2. KnowsItems(req[q])
        BY DEF CatalogueOK
      <4>3. CASE req[q].op \in {"create", "validate"}
        <5>1. req'[q].kind = req[q].kind /\ req'[q].names = req[q].names
          BY <4>1, <4>3 DEF Fields
        <5>2. QED BY <4>1, <4>2, <4>3, <5>1 DEF KnowsItems
      <4>4. CASE req[q].op = "onboard"
        <5>1. req'[q].items = req[q].items /\ req'[q].seen = req[q].seen
          BY <4>1, <4>4 DEF Fields
        <5>2. QED BY <1>0, <4>1, <4>2, <4>4, <5>1 DEF KnowsItems
      <4>5. CASE req[q].op \in {"rename", "delete"}
        <5>1. req'[q].item = req[q].item
          BY <4>1, <4>5 DEF Fields
        <5>2. QED BY <1>0, <4>1, <4>2, <4>5, <5>1 DEF KnowsItems
      <4>6. QED BY <4>1, <4>3, <4>4, <4>5 DEF KnowsItems
    <3>3. QED BY <3>1, <3>2
  <2>3. QED BY <1>0, <2>2 DEF CatalogueOK
<1>3. CASE UNCHANGED req
  BY <1>0, <1>3 DEF CatalogueOK, KnowsItems
<1>4. QED BY <1>1, <1>2, <1>3, WorkspaceSteps, OtherStepKeeps DEF CatalogueOK, vars, memberVars

NamesOK == AcceptedNamesAreListed /\ \A r \in Requests : KnowsNames(req[r])

\* What a validation that nobody overtook accepts without a live row had been deleted.
LEMMA ValidateLists ==
  ASSUME CatalogueOK, NamesOK, NEW r \in Requests, ValidateCommit(r)
  PROVE  AcceptedNamesAreListed'
<1> DEFINE q == req[r]
           live == {item'[x].name : x \in {y \in Items : item'[y].kind = q.kind /\ item'[y].state = "live"}}
<1>1. /\ q.op = "validate" /\ item' \in WithItems(item, {q.kind} \X q.names)
      /\ unlisted' = unlisted \cup {[name |-> n, deleted |-> n \in q.gone, stale |-> "items" \in q.stale] :
                                      n \in q.allowed \ live}
  BY DEF ValidateCommit
<1>2. q.kind \in Kinds /\ q.names \subseteq Names
  BY <1>1 DEF CatalogueOK, KnowsItems
<1>3. PICK n \in Nat : Filled(item, n)
  BY DEF CatalogueOK, ItemsOK
<1>4. {q.kind} \X q.names \subseteq Kinds \X Names
  BY <1>2
<1>5. /\ \A x \in Items : item[x] # NoItem => item'[x] = item[x]
      /\ \A p \in {q.kind} \X q.names : \E x \in Items : item'[x] = Item(p[1], p[2], "live")
  BY <1>1, <1>3, <1>4, FiniteBatch, AddedRows
<1>6. LiveNames(q.kind) \subseteq live
  <2>1. \A x \in Items : item[x].state = "live" => item[x] # NoItem
    BY DEF NoItem
  <2>2. QED BY <1>5, <2>1 DEF LiveNames
<1>7. q.names \subseteq live
  <2>1. SUFFICES ASSUME NEW m \in q.names PROVE m \in live
    OBVIOUS
  <2> DEFINE p == <<q.kind, m>>
  <2>0. p \in {q.kind} \X q.names /\ p[1] = q.kind /\ p[2] = m
    BY <2>1
  <2> HIDE DEF p
  <2>2. PICK x \in Items : item'[x] = Item(q.kind, m, "live")
    BY <1>5, <2>0
  <2>3. item'[x].kind = q.kind /\ item'[x].name = m /\ item'[x].state = "live"
    BY <2>2 DEF Item
  <2>4. QED BY <2>3
<1>8. "items" \notin q.stale => q.allowed \ live \subseteq q.gone
  BY <1>1, <1>6, <1>7 DEF NamesOK, KnowsNames
<1> HIDE DEF live
<1>9. ASSUME NEW u \in unlisted' PROVE u.deleted \/ u.stale
  <2>1. CASE u \in unlisted
    BY <2>1 DEF NamesOK, AcceptedNamesAreListed
  <2>2. CASE u \notin unlisted
    <3>1. PICK m \in q.allowed \ live :
            u = [name |-> m, deleted |-> m \in q.gone, stale |-> "items" \in q.stale]
      BY <1>1, <1>9, <2>2
    <3>2. m \in q.gone \/ "items" \in q.stale
      BY <1>8
    <3>3. (u.deleted <=> m \in q.gone) /\ (u.stale <=> "items" \in q.stale)
      BY <3>1
    <3>4. QED BY <3>2, <3>3
  <2>3. QED BY <2>1, <2>2
<1>10. QED BY <1>9 DEF AcceptedNamesAreListed

LEMMA NamesStep ==
  ASSUME RowsOK, SnapshotsOK, CatalogueOK, NamesOK, [Next]_vars
  PROVE  NamesOK'
<1>1. CASE BeginStep
  <2>1. PICK r, s : r \in Requests /\ Begin(r, s) /\ KnowsNames(s) /\ UNCHANGED <<people, history, catalogue>>
    BY <1>1 DEF BeginStep, Fits
  <2>2. item' = item /\ unlisted' = unlisted
    BY <2>1 DEF catalogue
  <2>3. QED BY <2>1, <2>2, BeginOthers DEF NamesOK, AcceptedNamesAreListed, KnowsNames, LiveNames
<1>2. ASSUME NEW r \in Requests, CommitStep(r) PROVE NamesOK'
  <2>1. PICK T : Done(r, T) /\ ("items" \in T \/ item' = item)
    BY <1>2, CommitMarks
  <2>2. ASSUME NEW q \in Requests PROVE KnowsNames(req[q])'
    <3>1. CASE req'[q] = Idle
      BY <3>1 DEF Idle, KnowsNames
    <3>2. CASE req'[q] # Idle
      <4>1. /\ req'[q].op = req[q].op /\ req'[q].stale = req[q].stale \cup T
            /\ \A f \in Fields(req[q].op) \ {"stale"} : req'[q][f] = req[q][f]
        BY <2>1, <3>2, DoneOthers
      <4>2. KnowsNames(req[q])
        BY DEF NamesOK
      <4>3. CASE req[q].op = "validate"
        <5>1. /\ req'[q].kind = req[q].kind /\ req'[q].names = req[q].names
              /\ req'[q].allowed = req[q].allowed /\ req'[q].gone = req[q].gone
          BY <4>1, <4>3 DEF Fields
        <5>2. QED BY <2>1, <4>1, <4>2, <4>3, <5>1 DEF KnowsNames, LiveNames
      <4>4. QED BY <4>1, <4>3 DEF KnowsNames
    <3>3. QED BY <3>1, <3>2
  <2>3. AcceptedNamesAreListed'
    <3>1. CASE ValidateCommit(r)
      BY <3>1, ValidateLists
    <3>2. CASE unlisted' = unlisted
      BY <3>2 DEF NamesOK, AcceptedNamesAreListed
    <3>3. QED
      BY <1>2, <3>1, <3>2 DEF CommitStep, CreateCommit, RenameCommit, DeleteCommit, OnboardingCommit,
                              catalogue
  <2>4. QED BY <2>2, <2>3 DEF NamesOK
<1>3. CASE UNCHANGED <<req, item, unlisted>>
  BY <1>3 DEF NamesOK, AcceptedNamesAreListed, KnowsNames, LiveNames
<1>4. QED
  BY <1>1, <1>2, <1>3, WorkspaceSteps, OtherStepKeeps DEF CatalogueOK, vars, memberVars, catalogue

-----------------------------------------------------------------------------
(* Onboarding.                                                             *)

\* A completed onboarding is recorded, and no wizard in flight has missed it.
OnboardingOK ==
  /\ DOMAIN tenant = {"onboarded", "progress"}
  /\ setups = 0 \/ (setups = 1 /\ tenant.onboarded)
  /\ \A r \in Requests : KnowsTenant(req[r])

LEMMA OnboardingStep ==
  ASSUME RowsOK, ItemsOK, SnapshotsOK, OnboardingOK, [Next]_vars
  PROVE  OnboardingOK'
<1>1. CASE BeginStep
  <2>1. PICK r, s : /\ r \in Requests /\ Begin(r, s) /\ (s.op = "onboard" => ~tenant.onboarded)
                    /\ UNCHANGED <<people, history, catalogue>>
    BY <1>1 DEF BeginStep
  <2>2. tenant' = tenant /\ setups' = setups
    BY <2>1 DEF catalogue
  <2>3. QED BY <2>1, <2>2, BeginOthers DEF OnboardingOK, KnowsTenant
<1>2. ASSUME NEW r \in Requests, CommitStep(r) PROVE OnboardingOK'
  <2>1. PICK T : Done(r, T) /\ ("tenant" \in T \/ (setups' = setups /\ tenant' = tenant))
    BY <1>2, CommitMarks
  <2>2. ASSUME NEW q \in Requests PROVE KnowsTenant(req[q])'
    <3>1. CASE req'[q] = Idle
      BY <3>1 DEF Idle, KnowsTenant
    <3>2. CASE req'[q] # Idle
      <4>1. req'[q].op = req[q].op /\ req'[q].stale = req[q].stale \cup T
        BY <2>1, <3>2, DoneOthers
      <4>2. KnowsTenant(req[q])
        BY DEF OnboardingOK
      <4>3. QED BY <2>1, <4>1, <4>2 DEF KnowsTenant
    <3>3. QED BY <3>1, <3>2
  <2>3. CASE OnboardingCommit(r)
    <3>1. /\ req[r].op = "onboard" /\ tenant' = [onboarded |-> TRUE, progress |-> FALSE]
          /\ setups' = setups + (IF "tenant" \in req[r].stale THEN 0 ELSE 1)
      BY <2>3 DEF OnboardingCommit
    <3>2. DOMAIN tenant' = {"onboarded", "progress"} /\ tenant'.onboarded
      BY <3>1
    <3>3. setups' \in {0, 1}
      BY <3>1 DEF OnboardingOK, KnowsTenant
    <3>4. QED BY <2>2, <3>2, <3>3 DEF OnboardingOK
  <2>4. CASE setups' = setups /\ tenant' = tenant
    BY <2>2, <2>4 DEF OnboardingOK
  <2>5. QED
    BY <1>2, <2>3, <2>4 DEF CommitStep, CreateCommit, RenameCommit, DeleteCommit, ValidateCommit,
                            NoOther, catalogue
<1>3. CASE \E a \in Users \cup {None} : SaveProgress(a)
  <2>1. tenant' = [tenant EXCEPT !.progress = TRUE] /\ UNCHANGED <<req, setups>>
    BY <1>3 DEF SaveProgress, memberVars
  <2>2. tenant'.onboarded = tenant.onboarded /\ DOMAIN tenant' = DOMAIN tenant
    BY <2>1 DEF OnboardingOK
  <2>3. QED BY <2>1, <2>2 DEF OnboardingOK, KnowsTenant
<1>4. CASE UNCHANGED <<req, tenant, setups>>
  BY <1>4 DEF OnboardingOK, KnowsTenant
<1>5. QED
  BY <1>1, <1>2, <1>3, <1>4, WorkspaceSteps
     DEF OtherStep, InviteLapses, ExpireInvitations, MarkAllRead, vars, memberVars, catalogue

-----------------------------------------------------------------------------
(* The theorems.                                                           *)

Inv == /\ SnapshotsOK /\ RowsOK /\ CatalogueOK /\ AdminsOK /\ InvitesOK
       /\ GrantsOK /\ NamesOK /\ OnboardingOK

LEMMA InvInit == Init => Inv
<1> SUFFICES ASSUME Init PROVE Inv
  OBVIOUS
<1>1. \A r \in Requests : req[r] = Idle
  BY DEF Init, MembersInit
<1>2. \A r \in Requests : Fits(req[r]) /\ KnowsTenant(req[r])
  BY <1>1 DEF Fits, TakesNoLastAdmin, Checked, KnowsInvite, KnowsItems, KnowsNames, KnowsTenant, Idle
<1>3. SnapshotsOK
  BY <1>1 DEF SnapshotsOK, Init, MembersInit
<1>4. PICK A \in (SUBSET Users) \ {{}} :
        member = [u \in Users |-> IF u \in A THEN Row("administrator", "active") ELSE NoMember]
  BY DEF Init, MembersInit
<1>5. MemberRowsOK
  BY <1>4 DEF MemberRowsOK, Row, Statuses
<1>6. KeepsAnAdmin
  <2>0. A \subseteq Users /\ A # {}
    OBVIOUS
  <2>1. PICK u \in A : u \in Users
    BY <2>0
  <2>2. member[u] = Row("administrator", "active")
    BY <1>4, <2>1
  <2>3. QED BY <2>1, <2>2 DEF KeepsAnAdmin, ActiveAdmin
<1>7. InviteRowsOK
  <2>1. DOMAIN NoInvite = {"state", "user", "role", "overdue", "mailed"} /\ NoInvite.user = None
    BY DEF NoInvite
  <2>2. QED BY <2>1 DEF Init, MembersInit, InviteRowsOK
<1>8. GrantsOK
  BY DEF GrantsOK, Init, MembersInit
<1>9. ItemsOK
  <2>1. DOMAIN NoItem = {"kind", "name", "state"} /\ NoItem.state = "none"
    BY DEF NoItem
  <2>2. CASE item = [x \in Items |-> NoItem]
    <3>1. Filled(item, 0)
      BY <2>1, <2>2 DEF Filled, Items
    <3>2. QED BY <3>1 DEF ItemsOK
  <2>3. ASSUME NEW k \in Kinds, NEW n \in Names,
               item = [x \in Items |-> IF x = 1 THEN Item(k, n, "deleted") ELSE NoItem]
        PROVE  ItemsOK
    <3>1. DOMAIN Item(k, n, "deleted") = {"kind", "name", "state"} /\ Item(k, n, "deleted").state = "deleted"
      BY DEF Item
    <3>2. Item(k, n, "deleted") # NoItem
      BY <2>1, <3>1
    <3>3. CASE MaxItems = 0
      <4>1. Filled(item, 0)
        BY <2>3, <3>3 DEF Filled, Items
      <4>2. QED BY <4>1 DEF ItemsOK
    <3>4. CASE MaxItems # 0
      <4>1. Filled(item, 1)
        BY <2>1, <2>3, <3>1, <3>2, <3>4 DEF Filled, Items
      <4>2. QED BY <4>1 DEF ItemsOK
    <3>5. QED BY <3>3, <3>4
  <2>4. QED BY <2>2, <2>3 DEF Init
<1>10. AcceptedNamesAreListed
  BY DEF AcceptedNamesAreListed, Init
<1>11. OnboardingOK
  <2>1. DOMAIN tenant = {"onboarded", "progress"} /\ setups = 0
    BY DEF Init
  <2>2. QED BY <1>2, <2>1 DEF OnboardingOK
<1>12. QED
  BY <1>2, <1>3, <1>5, <1>6, <1>7, <1>8, <1>9, <1>10, <1>11
     DEF Inv, RowsOK, CatalogueOK, AdminsOK, InvitesOK, NamesOK, Fits

LEMMA InvStep == Inv /\ [Next]_vars => Inv'
<1> SUFFICES ASSUME Inv, [Next]_vars PROVE Inv'
  OBVIOUS
<1>1. /\ SnapshotsOK /\ RowsOK /\ CatalogueOK /\ AdminsOK /\ InvitesOK
      /\ GrantsOK /\ NamesOK /\ OnboardingOK /\ ItemsOK
  BY DEF Inv, CatalogueOK
<1>2. RowsOK'
  BY <1>1, AdminsStep, InvitesStep, MemberRowsStep DEF RowsOK, AdminsOK
<1>3. QED
  BY <1>1, <1>2, SnapshotsStep, CatalogueStepOK, AdminsStep, InvitesKnownStep, GrantsStep,
     NamesStep, OnboardingStep DEF Inv

\* update_member and remove_member, whose checks and writes are in different statements:
\* the workspace keeps an active administrator unless one request that takes an administrator
\* away overtook another, or a status that the check does not look at took one away.  For
\* every number of members and requests.
THEOREM WorkspaceKeepsAnAdmin == Spec => []KeepsAnAdmin
<1>1. Inv => KeepsAnAdmin
  BY DEF Inv, AdminsOK
<1>2. QED BY <1>1, InvInit, InvStep, PTL DEF Spec

\* accept_invite: however many requests find an invitation pending, it makes one membership
\* unless the member was removed in between.
THEOREM InvitationsGrantOnce == Spec => []InviteGrantsOnce
<1>1. Inv => InviteGrantsOnce
  <2>1. SUFFICES ASSUME Inv, NEW i \in Invites, grants[i] > 1 PROVE invite[i].user \in removed
    BY DEF InviteGrantsOnce
  <2>2. grants[i] \in Nat /\ grants[i] > 0 /\ grants[i] # 1
    BY <2>1 DEF Inv, GrantsOK
  <2>3. QED BY <2>1, <2>2 DEF Inv, GrantsOK
<1>2. QED BY <1>1, InvInit, InvStep, PTL DEF Spec

\* validate_files: a name it accepts has a live row when it commits, unless it had been
\* deleted before or the catalogue changed meanwhile, for every catalogue and batch.
THEOREM ProvisioningListsNames == Spec => []AcceptedNamesAreListed
<1>1. Inv => AcceptedNamesAreListed
  BY DEF Inv, NamesOK
<1>2. QED BY <1>1, InvInit, InvStep, PTL DEF Spec

\* complete_onboarding: of the wizards that nobody overtook at most one commits.
THEOREM WizardRunsOnce == Spec => []OnboardsOnce
<1>1. Inv => OnboardsOnce
  BY DEF Inv, OnboardingOK, OnboardsOnce
<1>2. QED BY <1>1, InvInit, InvStep, PTL DEF Spec
=============================================================================
