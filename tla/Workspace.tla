----------------------------- MODULE Workspace -----------------------------
(***************************************************************************)
(* A workspace: its members (module Members), its catalogue of segments    *)
(* and collateral types, and the onboarding wizard that fills both         *)
(* (segments/service.py, collateral/service.py, onboarding/service.py, and *)
(* the automatic provisioning of runs/service.py).                         *)
(*                                                                         *)
(* The two catalogues have the same operations and differ by their kind.   *)
(* Rows are soft-deleted; a partial unique index covers the live ones.     *)
(*                                                                         *)
(* Constants                                                               *)
(*   Kinds     the catalogues, "segment" and "collateral"                  *)
(*   Names     names of segments and collateral types                      *)
(*   Fold      the lower-case form of a name                               *)
(*   MaxItems  bound: catalogue rows that ever exist                       *)
(*   Wizards   submissions of the onboarding wizard: the kinds and names   *)
(*             it lists and the roles of the people it invites             *)
(***************************************************************************)
EXTENDS Members

CONSTANTS Kinds, Names, Fold, MaxItems, Wizards

ASSUME WorkspaceAssumption ==
  /\ MaxItems \in Nat
  /\ Kinds \subseteq {"segment", "collateral"} /\ DOMAIN Fold = Names
  /\ IsFiniteSet(Names)               \* the columns hold 100 characters
  /\ \A w \in Wizards : w.items \subseteq Kinds \X Names /\ DOMAIN w.roles \subseteq Users

VARIABLES
  item,      \* rows of segments and collateral_types
  tenant,    \* the onboarding columns of the tenant's row
  setups,    \* history: onboardings committed by requests nobody had overtaken
  unlisted   \* history: names a validation accepted without a live row

catalogue == <<item, tenant, setups, unlisted>>
vars == <<memberVars, catalogue>>

Items == 1 .. MaxItems
NoItem == [kind |-> None, name |-> None, state |-> "none"]
Item(k, n, state) == [kind |-> k, name |-> n, state |-> state]

\* A new workspace, or one in which a row has already been created and deleted.
Init ==
  /\ MembersInit
  /\ \/ item = [x \in Items |-> NoItem]
     \/ \E k \in Kinds, n \in Names :
          item = [x \in Items |-> IF x = 1 THEN Item(k, n, "deleted") ELSE NoItem]
  /\ tenant = [onboarded |-> FALSE, progress |-> FALSE]
  /\ setups = 0 /\ unlisted = {}

LiveNames(k) == {item[x].name : x \in {y \in Items : item[y].kind = k /\ item[y].state = "live"}}
AnyNames(k) == {item[x].name : x \in {y \in Items : item[y].kind = k}}

\* What a row-changing request leaves alone.
NoOther == UNCHANGED <<people, history, tenant, setups>>

-----------------------------------------------------------------------------
(* Segments and collateral types.                                          *)

\* The tables that result from adding live rows for the pairs R of kind and name to table t.
WithItems(t, R) ==
  LET used == Cardinality({x \in Items : t[x] # NoItem})
      new == used + 1 .. used + Cardinality(R)
  IN  {[x \in Items |-> IF x \in new THEN Item(f[x][1], f[x][2], "live") ELSE t[x]] :
         f \in {g \in [new -> R] : new \subseteq Items /\ \A p \in R : \E x \in new : g[x] = p}}

\* segments_tenant_name_unique_idx and collateral_types_tenant_name_unique_idx.
NameIndex(new) ==
  LET live == {x \in Items : new[x].state = "live"}
  IN  Cardinality({new[x] : x \in live}) = Cardinality(live)

Create(r, k, n) ==
  /\ n \notin LiveNames(k)
  /\ Begin(r, [op |-> "create", kind |-> k, names |-> {n}, stale |-> {}])
  /\ UNCHANGED <<people, history, catalogue>>

\* batch_create_segments and its twin: names are compared in lower case within the batch,
\* while the table is asked for the names as they are written.
DistinctInBatch(N) == Cardinality({Fold[n] : n \in N}) = Cardinality(N)

BatchCreate(r, k, N) ==
  /\ DistinctInBatch(N)
  /\ N \cap LiveNames(k) = {}
  /\ Begin(r, [op |-> "create", kind |-> k, names |-> N, stale |-> {}])
  /\ UNCHANGED <<people, history, catalogue>>

CreateCommit(r) ==
  LET q == req[r] IN
  /\ q.op = "create" /\ Done(r, {"items"})
  /\ item' \in WithItems(item, {q.kind} \X q.names) /\ NameIndex(item')
  /\ NoOther /\ UNCHANGED unlisted

\* update_segment and update_collateral_type with a new name.  The flag is_active makes
\* update_segment raise (segment is not defined), so that nothing is written then.
Rename(r, x, n, flag) ==
  /\ item[x].state = "live"
  /\ \A y \in Items \ {x} : item[y] # Item(item[x].kind, n, "live")
  /\ ~(flag /\ item[x].kind = "segment")
  /\ Begin(r, [op |-> "rename", item |-> x, name |-> n, read |-> item[x].name, stale |-> {}])
  /\ UNCHANGED <<people, history, catalogue>>

RenameCommit(r) ==
  LET q == req[r] IN
  /\ q.op = "rename" /\ Done(r, {"items"})
  /\ item' = [item EXCEPT ![q.item].name = Flushed(q.name, q.read, @)] /\ NameIndex(item')
  /\ NoOther /\ UNCHANGED unlisted

Delete(r, x) ==
  /\ item[x].state = "live"
  /\ Begin(r, [op |-> "delete", item |-> x, stale |-> {}])
  /\ UNCHANGED <<people, history, catalogue>>

DeleteCommit(r) ==
  LET q == req[r] IN
  /\ q.op = "delete" /\ Done(r, {"items"})
  /\ item' = [item EXCEPT ![q.item].state = "deleted"]
  /\ NoOther /\ UNCHANGED unlisted

-----------------------------------------------------------------------------
(* Provisioning while the files of a run are validated.                    *)

\* Names to insert: missing ones without a row of any kind, soft-deleted ones included.
TrulyNew(k, N) == N \ AnyNames(k)

\* Mutant: the names are allowed although the batch has been refused.
AllowedAnyway(k, N) == N

\* validate_files: the names of the files that pass as allowed.  A refused batch is
\* logged and leaves the missing names out.
Allowed(k, N) ==
  IF DistinctInBatch(TrulyNew(k, N \ LiveNames(k))) THEN N ELSE N \cap LiveNames(k)

ValidateFiles(r, k, N) ==
  LET new == TrulyNew(k, N \ LiveNames(k)) IN
  /\ Begin(r, [op |-> "validate", kind |-> k, names |-> IF DistinctInBatch(new) THEN new ELSE {},
               allowed |-> Allowed(k, N), gone |-> AnyNames(k) \ LiveNames(k), stale |-> {}])
  /\ UNCHANGED <<people, history, catalogue>>

\* A unique violation is swallowed as well, but the transaction cannot be used any more.
ValidateCommit(r) ==
  LET q == req[r]
      live == {item'[x].name : x \in {y \in Items : item'[y].kind = q.kind /\ item'[y].state = "live"}}
  IN
  /\ q.op = "validate" /\ Done(r, {"items"})
  /\ item' \in WithItems(item, {q.kind} \X q.names) /\ NameIndex(item')
  /\ unlisted' = unlisted \cup {[name |-> n, deleted |-> n \in q.gone, stale |-> "items" \in q.stale] :
                                  n \in q.allowed \ live}
  /\ NoOther

-----------------------------------------------------------------------------
(* Onboarding.                                                             *)

\* Mutant: complete_onboarding is not idempotent.
AlwaysOnboards == TRUE

NotOnboarded == ~tenant.onboarded

\* complete_onboarding; once completed it returns without changes.
CompleteOnboarding(r, a, w) ==
  /\ RequireTenantAdmin(a)
  /\ NotOnboarded
  /\ Begin(r, [op |-> "onboard", items |-> w.items, roles |-> w.roles, stale |-> {},
               seen |-> {x \in Items : item[x].state = "live"}])
  /\ UNCHANGED <<people, history, catalogue>>

SoftDeleted(X) == [x \in Items |-> IF x \in X THEN [item[x] EXCEPT !.state = "deleted"] ELSE item[x]]

\* The soft delete sees the rows there were when its statement began: those of the first
\* read, or those of the commit.  The invitations are not checked for pending ones.
OnboardingCommit(r) ==
  LET q == req[r] IN
  /\ q.op = "onboard" /\ Done(r, {"items", "invites", "tenant"})
  /\ \E X \in {q.seen, {x \in Items : item[x].state = "live"}} :
       item' \in WithItems(SoftDeleted(X), q.items) /\ NameIndex(item')
  /\ \E f \in NewRows(DOMAIN q.roles) : invite' = Invited(f, q.roles)
  /\ tenant' = [onboarded |-> TRUE, progress |-> FALSE]
  /\ setups' = setups + (IF "tenant" \in q.stale THEN 0 ELSE 1)
  /\ UNCHANGED <<known, member, pref, unread, history, unlisted>>

\* save_progress, also after the wizard has been completed.
SaveProgress(a) ==
  /\ RequireTenantAdmin(a)
  /\ tenant' = [tenant EXCEPT !.progress = TRUE]
  /\ UNCHANGED <<memberVars, item, setups, unlisted>>

-----------------------------------------------------------------------------
CatalogueStep ==
  \/ \E r \in Requests, k \in Kinds :
       \/ \E n \in Names : Create(r, k, n)
       \/ \E N \in (SUBSET Names) \ {{}} : BatchCreate(r, k, N) \/ ValidateFiles(r, k, N)
  \/ \E r \in Requests, x \in Items :
       \/ Delete(r, x)
       \/ \E n \in Names, flag \in BOOLEAN : Rename(r, x, n, flag)
  \/ \E r \in Requests, a \in Users \cup {None}, w \in Wizards : CompleteOnboarding(r, a, w)
  \/ \E a \in Users \cup {None} : SaveProgress(a)
  \/ \E r \in Requests :
       /\ req[r] # Idle
       /\ \/ CreateCommit(r) \/ RenameCommit(r) \/ DeleteCommit(r) \/ ValidateCommit(r)
          \/ OnboardingCommit(r)

Next == CatalogueStep \/ (MemberStep /\ UNCHANGED catalogue)

Spec == Init /\ [][Next]_vars

-----------------------------------------------------------------------------
\* The rows of every table are of their types.
TypeOK ==
  /\ MembersTypeOK
  /\ item \in [Items -> {NoItem} \cup [kind : Kinds, name : Names, state : {"live", "deleted"}]]
  /\ tenant \in [onboarded : BOOLEAN, progress : BOOLEAN]

\* "Auto-provision any missing segments and collateral types": a name that a validation
\* accepts is listed when the validation commits -- unless it had been deleted before, or
\* the catalogue changed during the validation.
AcceptedNamesAreListed == \A u \in unlisted : u.deleted \/ u.stale

\* "if onboarding was already completed, skip all mutations": the wizard replaces the
\* catalogue once, unless two completions overlap.
OnboardsOnce == setups <= 1
=============================================================================
