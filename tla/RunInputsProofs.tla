-------------------------- MODULE RunInputsProofs --------------------------
(***************************************************************************)
(* Theorems about RunInputs, for every number of runs, requests in flight, *)
(* file names and contents.                                                *)
(*                                                                         *)
(* The one on validated inputs rests on what guards a row while the object *)
(* behind it changes: the object is one that a validation of the row has   *)
(* seen, or it was put by an upload that has not committed, or there is a  *)
(* later row for the same path that nobody has passed yet.  Such a row is  *)
(* only passed by a validation that began after it was inserted, which     *)
(* therefore reads the new object for every row of the path.               *)
(***************************************************************************)
EXTENDS RunInputs, FiniteSetTheorems, WellFoundedInduction, TLAPS

USE InputAssumption

-----------------------------------------------------------------------------
(* The invariants.                                                         *)

Validating == {"reading", "judging"}

\* What a request in flight holds.
RequestOK(q) ==
  /\ pc[q] = "idle" => seen[q] = {} /\ file[q] = NoFile
  /\ pc[q] # "idle" => target[q] \in Runs /\ status[target[q]] # "absent"
  /\ pc[q] \in Uploading => file[q] \in Paths /\ target[q] = file[q][1] /\ body[q] \in Contents
  /\ pc[q] \notin Validating => got[q] = NothingRead
  /\ pc[q] = "judging" => \A u \in seen[q] : got[q][u.id] # NoObject

Types ==
  /\ TypeOK
  /\ DOMAIN used = Runs /\ DOMAIN seen = Requests /\ IsFiniteSet(uploads)
  /\ \A q \in Requests : RequestOK(q)

\* An id is used once, a row belongs to a run that exists, and its path tells its kind.
RowsOK ==
  /\ \A u \in uploads : u.id <= nextId /\ u.kind = u.path[2] /\ status[u.run] # "absent"
  /\ \A u, v \in uploads : u.id = v.id => u = v

\* The rows a request has loaded are rows of its run, and remain what they were but for
\* verdicts; a validation has loaded every row older than one it has loaded.
SeenOK ==
  \A q \in Requests :
    /\ \A v \in seen[q] : v.id <= nextId /\ v.run = target[q]
    /\ \A v, w \in seen[q] : v.id = w.id => v = w
    /\ \A v \in seen[q], u \in uploads :
         u.id = v.id => u.run = v.run /\ u.kind = v.kind /\ u.path = v.path
    /\ pc[q] \in Validating =>
         \A v \in seen[q], u \in Of(target[q]) : u.id < v.id => \E w \in seen[q] : w.id = u.id

\* Unless a run is crowded, one upload of a kind is on its way and it replaces every row.
ReplacesAll ==
  /\ \A q, r \in Requests :
       /\ pc[q] \in Uploading /\ pc[r] \in Uploading /\ target[q] = target[r]
       /\ file[q][2] = file[r][2] /\ file[q][2] # "PD" /\ target[q] \notin crowded
       => q = r
  /\ \A q \in Requests :
       pc[q] \in Uploading /\ file[q][2] # "PD" /\ target[q] \notin crowded =>
         \A u \in Of(target[q]) : u.kind = file[q][2] => \E v \in seen[q] : v.id = u.id

\* Nobody changes the files of a run that is executed, unless the run was raced.
Executed(x) == status[x] \in {"active", "complete"}
ExecutedKept == \A x \in Runs \ raced : Executed(x) => ~InFlight(x, Changing)

\* A row copied by a rerun names an object that nobody replaces.
CopiesKept ==
  \A u \in uploads : u.run \notin raced /\ u.path[1] # u.run =>
    status[u.path[1]] \in {"complete", "deleted"} /\ ~InFlight(u.path[1], Changing)

\* The object of a row is gone or one that a validation of the row has passed.
Vouched(u) == objects[u.path] \in u.checked \cup {NoObject}

\* An upload has changed the object and not committed.
Putting == {"stored", "inserting"}
PutAt(p) == \E q \in Requests : pc[q] \in Putting /\ file[q] = p

\* A request will delete the row, whose object it has deleted.
Dooming == {"putting", "stored", "inserting", "removed"}
Doomed(u) == \E q \in Requests : pc[q] \in Dooming /\ \E v \in seen[q] : v.id = u.id

\* A validation that has loaded the row has read the present object, for every row of the path.
Fresh(u) == \A q \in Requests :
  pc[q] \in Validating /\ (\E v \in seen[q] : v.id = u.id) =>
    \A v \in seen[q] : v.path = u.path => got[q][v.id] \in {NoObject, objects[u.path]}

\* Not passed, and only to be passed with the present object.
Pending(u) == u.verdict \in {"none", "error"} /\ Fresh(u)

Guards(w, u) == w.path = u.path /\ w.id > u.id /\ Pending(w) /\ ~Doomed(w)
Guarded(u) == Vouched(u) \/ PutAt(u.path) \/ Pending(u) \/ \E w \in Of(u.run) : Guards(w, u)

Disturbed == abandoned \cup raced \cup crowded
RowsGuarded == \A u \in uploads : u.run \notin Disturbed => Guarded(u)

\* What a run is computed from.
UsedOK ==
  \A x \in Runs :
    /\ ~Executed(x) => used[x] = {}
    /\ Executed(x) /\ x \notin Disturbed =>
         /\ \A u \in Of(x) : Vouched(u)
         /\ \A i \in used[x] : i.content \in i.checked

-----------------------------------------------------------------------------
(* Types.                                                                  *)

StoreTypes ==
  /\ status \in [Runs -> RunState]
  /\ uploads \subseteq Rows /\ IsFiniteSet(uploads) /\ nextId \in 0 .. MaxUploads
  /\ objects \in [Paths -> Contents \cup {NoObject}]
  /\ DOMAIN used = Runs
  /\ \A x \in Runs : used[x] \subseteq [content : Contents, checked : SUBSET Contents]
  /\ read \in [Runs -> SUBSET Kinds]
  /\ abandoned \subseteq Runs /\ raced \subseteq Runs /\ crowded \subseteq Runs

RequestTypes ==
  /\ pc \in [Requests -> PCs]
  /\ target \in [Requests -> Runs \cup {NoObject}]
  /\ file \in [Requests -> Paths \cup {NoFile}]
  /\ body \in [Requests -> Contents \cup {NoObject}]
  /\ DOMAIN seen = Requests /\ \A q \in Requests : seen[q] \subseteq Rows
  /\ got \in [Requests -> [1 .. MaxUploads -> Contents \cup {NoObject}]]

LEMMA TypeParts ==
  Types <=> StoreTypes /\ RequestTypes /\ \A q \in Requests : RequestOK(q)
BY DEF Types, TypeOK, StoreTypes, RequestTypes

\* No run comes back from the first state.
Forward == \A x \in Runs : status[x] # "absent" => status'[x] # "absent"

\* The step leaves request r alone.
Same(r) ==
  /\ pc'[r] = pc[r] /\ target'[r] = target[r] /\ file'[r] = file[r] /\ body'[r] = body[r]
  /\ seen'[r] = seen[r] /\ got'[r] = got[r]

LEMMA SameRequest ==
  ASSUME NEW r \in Requests, RequestOK(r), Same(r), Forward
  PROVE  RequestOK(r)'
BY DEF RequestOK, Same, Forward

LEMMA RequestsSame ==
  ASSUME RequestTypes, \A r \in Requests : RequestOK(r), Forward, UNCHANGED requestVars
  PROVE  RequestTypes' /\ \A r \in Requests : RequestOK(r)'
<1>1. RequestTypes'
  BY DEF RequestTypes, requestVars
<1>2. \A r \in Requests : Same(r)
  BY DEF Same, requestVars
<1>3. QED BY <1>1, <1>2, SameRequest

\* The end of a request.
LEMMA RequestEnds ==
  ASSUME RequestTypes, \A r \in Requests : RequestOK(r), Forward, NEW q \in Requests, EndRequest(q)
  PROVE  /\ RequestTypes' /\ \A r \in Requests : RequestOK(r)'
         /\ pc'[q] = "idle" /\ seen'[q] = {} /\ \A r \in Requests \ {q} : Same(r)
<1>1. NothingRead \in [1 .. MaxUploads -> Contents \cup {NoObject}]
  BY DEF NothingRead
<1>2. RequestTypes'
  BY <1>1 DEF RequestTypes, EndRequest, PCs
<1>3. \A r \in Requests \ {q} : Same(r)
  BY DEF Same, EndRequest, RequestTypes
<1>4. pc'[q] = "idle" /\ seen'[q] = {} /\ file'[q] = NoFile /\ got'[q] = NothingRead
  BY DEF EndRequest, RequestTypes
<1>5. RequestOK(q)'
  BY <1>4 DEF RequestOK, Uploading
<1>6. QED BY <1>2, <1>3, <1>4, <1>5, SameRequest

\* Steps of runs leave the requests alone.
LEMMA RunForward ==
  ASSUME StoreTypes, NEW x \in Runs, RunStep(x)
  PROVE  Forward /\ UNCHANGED requestVars
<1>1. ASSUME CreateRun(x) \/ DeleteRun(x) \/ ExecuteRun(x) PROVE Forward /\ UNCHANGED requestVars
  BY <1>1 DEF CreateRun, DeleteRun, ExecuteRun, GiveUp, Forward, StoreTypes
<1>2. ASSUME NEW y \in Runs, Rerun(x, y) PROVE Forward /\ UNCHANGED requestVars
  BY <1>2 DEF Rerun, Forward, StoreTypes
<1>3. ASSUME NEW k \in Kinds, ReadInput(x, k) PROVE Forward /\ UNCHANGED requestVars
  BY <1>3 DEF ReadInput, GiveUp, Forward, StoreTypes
<1>4. ASSUME EndRun(x) PROVE Forward /\ UNCHANGED requestVars
  BY <1>4 DEF EndRun, GiveUp, Forward, StoreTypes
<1>5. QED BY <1>1, <1>2, <1>3, <1>4 DEF RunStep

LEMMA RowFields ==
  ASSUME NEW u \in Rows
  PROVE  /\ u.id \in 1 .. MaxUploads /\ u.run \in Runs /\ u.kind \in Kinds /\ u.path \in Paths
         /\ u.verdict \in Verdicts /\ u.accepted \in BOOLEAN /\ u.checked \in SUBSET Contents
         /\ u.id \in Nat
BY DEF Rows

\* The rows of a run that rerun_run copies.
Copy(u, y, n) == [u EXCEPT !.id = n, !.run = y, !.verdict = "ok", !.accepted = TRUE]

LEMMA CopyFields ==
  ASSUME NEW u \in Rows, NEW y \in Runs, NEW n \in 1 .. MaxUploads
  PROVE  /\ Copy(u, y, n) \in Rows
         /\ Copy(u, y, n).id = n /\ Copy(u, y, n).run = y /\ Copy(u, y, n).kind = u.kind
         /\ Copy(u, y, n).path = u.path /\ Copy(u, y, n).checked = u.checked
         /\ Copy(u, y, n).verdict = "ok"
BY DEF Copy, Rows, Verdicts

\* rerun_run in terms of its copies.
LEMMA RerunRows ==
  ASSUME StoreTypes, NEW x \in Runs, NEW y \in Runs, Rerun(x, y)
  PROVE  \E ids \in [Of(x) -> (nextId + 1) .. MaxUploads] :
           /\ uploads' = uploads \cup {Copy(u, y, ids[u]) : u \in Of(x)}
           /\ \A u, v \in Of(x) : u.id < v.id => ids[u] < ids[v]
           /\ \A u \in Of(x) : ids[u] <= nextId' /\ ids[u] \in 1 .. MaxUploads
           /\ nextId' \in nextId .. MaxUploads
<1>1. IsFiniteSet(Of(x)) /\ Cardinality(Of(x)) \in Nat
  BY FS_Subset, FS_CardinalityType DEF Of, StoreTypes
<1>2. PICK ids \in [Of(x) -> (nextId + 1) .. (nextId + Cardinality(Of(x)))] :
         /\ \A u, v \in Of(x) : u.id < v.id => ids[u] < ids[v]
         /\ uploads' = uploads \cup {[u EXCEPT !.id = ids[u], !.run = y, !.verdict = "ok",
                                               !.accepted = TRUE] : u \in Of(x)}
  BY DEF Rerun
<1>3. /\ nextId \in 0 .. MaxUploads /\ nextId + Cardinality(Of(x)) <= MaxUploads
      /\ nextId' = nextId + Cardinality(Of(x))
  BY DEF Rerun, StoreTypes
<1>4. /\ nextId' \in nextId .. MaxUploads
      /\ \A n \in (nextId + 1) .. (nextId + Cardinality(Of(x))) :
           n \in (nextId + 1) .. MaxUploads /\ n <= nextId' /\ n \in 1 .. MaxUploads
  BY <1>1, <1>3
<1>5. /\ ids \in [Of(x) -> (nextId + 1) .. MaxUploads]
      /\ \A u \in Of(x) : ids[u] <= nextId' /\ ids[u] \in 1 .. MaxUploads
  BY <1>2, <1>4
<1>6. uploads' = uploads \cup {Copy(u, y, ids[u]) : u \in Of(x)}
  BY <1>2 DEF Copy
<1>7. QED BY <1>2, <1>4, <1>5, <1>6

LEMMA RunTypes ==
  ASSUME StoreTypes, NEW x \in Runs, RunStep(x)
  PROVE  StoreTypes'
<1>1. ASSUME CreateRun(x) \/ DeleteRun(x) PROVE StoreTypes'
  BY <1>1 DEF CreateRun, DeleteRun, GiveUp, StoreTypes, RunState, runVars, historyVars
<1>2. ASSUME ExecuteRun(x) PROVE StoreTypes'
  BY <1>2 DEF ExecuteRun, StoreTypes, RunState, runVars
<1>3. ASSUME NEW y \in Runs, Rerun(x, y) PROVE StoreTypes'
  <2>1. PICK ids \in [Of(x) -> (nextId + 1) .. MaxUploads] :
          /\ uploads' = uploads \cup {Copy(u, y, ids[u]) : u \in Of(x)}
          /\ \A u \in Of(x) : ids[u] \in 1 .. MaxUploads
          /\ nextId' \in nextId .. MaxUploads
    BY <1>3, RerunRows
  <2>2. Of(x) \subseteq Rows /\ Of(x) \subseteq uploads
    BY DEF Of, StoreTypes
  <2>3. uploads' \subseteq Rows
    BY <2>1, <2>2, CopyFields DEF StoreTypes
  <2>4. IsFiniteSet(Of(x))
    BY <2>2, FS_Subset DEF StoreTypes
  <2>5. IsFiniteSet({Copy(u, y, ids[u]) : u \in Of(x)})
    <3> DEFINE T == {Copy(u, y, ids[u]) : u \in Of(x)}
               f == [u \in Of(x) |-> Copy(u, y, ids[u])]
    <3>1. f \in Surjection(Of(x), T)
      BY DEF Surjection
    <3>2. QED BY <2>4, <3>1, FS_Surjection
  <2>6. IsFiniteSet(uploads')
    BY <2>1, <2>5, FS_Union DEF StoreTypes
  <2>7. nextId' \in 0 .. MaxUploads
    BY <2>1 DEF StoreTypes
  <2>8. UNCHANGED <<objects, used, read>>
    BY <1>3 DEF Rerun, runVars
  <2>9. status' \in [Runs -> RunState] /\ abandoned' \subseteq Runs /\ raced' \subseteq Runs /\ crowded' \subseteq Runs
    BY <1>3 DEF Rerun, StoreTypes, RunState
  <2>10. QED BY <2>3, <2>6, <2>7, <2>8, <2>9 DEF StoreTypes
<1>4. ASSUME NEW k \in Kinds, ReadInput(x, k) PROVE StoreTypes'
  <2> DEFINE now == {[content |-> objects[u.path], checked |-> u.checked] : u \in {u \in Of(x) : u.kind = k}}
  <2>1. UNCHANGED <<uploads, nextId, objects, abandoned, raced, crowded>>
    BY <1>4 DEF ReadInput, historyVars
  <2>2. CASE GiveUp(x, "failed")
    BY <2>1, <2>2 DEF GiveUp, StoreTypes, RunState
  <2>3. CASE /\ \A u \in Of(x) : u.kind = k => objects[u.path] # NoObject
             /\ used' = [used EXCEPT ![x] = @ \cup now]
             /\ read' = [read EXCEPT ![x] = @ \cup {k}] /\ UNCHANGED status
    <3>1. now \subseteq [content : Contents, checked : SUBSET Contents]
      BY <2>3, RowFields DEF Of, StoreTypes
    <3> HIDE DEF now
    <3>2. QED BY <2>1, <2>3, <3>1 DEF StoreTypes
  <2>4. QED BY <1>4, <2>2, <2>3 DEF ReadInput
<1>5. ASSUME EndRun(x) PROVE StoreTypes'
  BY <1>5 DEF EndRun, GiveUp, StoreTypes, RunState, runVars, historyVars
<1>6. QED BY <1>1, <1>2, <1>3, <1>4, <1>5 DEF RunStep

\* A judged row is the same row with another verdict; what was found not blocking is recorded.
LEMMA JudgedFields ==
  ASSUME RequestTypes, NEW q \in Requests, NEW u \in Rows, NEW verdict \in Verdicts, NEW accept \in BOOLEAN,
         \E v \in seen[q] : v.id = u.id, got[q][u.id] \in Contents
  PROVE  LET j == Judged(q, u, verdict, accept)
         IN  /\ j \in Rows
             /\ j.id = u.id /\ j.run = u.run /\ j.kind = u.kind /\ j.path = u.path
             /\ u.checked \subseteq j.checked
             /\ j.verdict \in {u.verdict, verdict}
             /\ verdict \in {"ok", "warn"} => got[q][u.id] \in j.checked
<1> DEFINE old == CHOOSE v \in seen[q] : v.id = u.id
           c == got[q][u.id]
           ver == IF verdict # old.verdict THEN verdict ELSE u.verdict
           acc == IF Accepted(old, c, accept) # old.accepted THEN Accepted(old, c, accept) ELSE u.accepted
           chk == IF verdict \in {"ok", "warn"} THEN u.checked \cup {c} ELSE u.checked
<1>1. Judged(q, u, verdict, accept) = [u EXCEPT !.verdict = ver, !.accepted = acc, !.checked = chk]
  BY DEF Judged, Rows
<1>2. ver \in {u.verdict, verdict} /\ ver \in Verdicts
  BY RowFields
<1>3. acc \in BOOLEAN
  <2>1. old \in Rows
    BY DEF RequestTypes
  <2>2. Accepted(old, c, accept) \in BOOLEAN
    BY <2>1, RowFields DEF Accepted
  <2>3. QED BY <2>2, RowFields
<1>4. chk \in SUBSET Contents /\ u.checked \subseteq chk /\ (verdict \in {"ok", "warn"} => c \in chk)
  BY RowFields
<1> HIDE DEF ver, acc, chk, c
<1>5. /\ [u EXCEPT !.verdict = ver, !.accepted = acc, !.checked = chk] \in Rows
      /\ LET j == [u EXCEPT !.verdict = ver, !.accepted = acc, !.checked = chk]
         IN  /\ j.id = u.id /\ j.run = u.run /\ j.kind = u.kind /\ j.path = u.path
             /\ j.verdict = ver /\ j.checked = chk
  BY <1>2, <1>3, <1>4 DEF Rows
<1>6. QED BY <1>1, <1>2, <1>4, <1>5 DEF c

\* A commit of validate_files that passes a row is not refused: with it goes what the same
\* validation says of the others.
Passes(u, j) == j.verdict # u.verdict /\ j.verdict \in {"ok", "warn"}

LEMMA VerdictRows ==
  ASSUME StoreTypes, RequestTypes, SeenOK, NEW q \in Requests, RequestOK(q), StoreVerdicts(q)
  PROVE  \E J \in [uploads -> Rows] :
           /\ uploads' = {J[u] : u \in uploads}
           /\ \A u \in uploads :
                /\ J[u].id = u.id /\ J[u].run = u.run /\ J[u].kind = u.kind /\ J[u].path = u.path
                /\ u.checked \subseteq J[u].checked
                /\ Passes(u, J[u]) =>
                     /\ \E v \in seen[q] : v.id = u.id
                     /\ got[q][u.id] \in J[u].checked
                     /\ u.kind \notin Blamed => got[q][u.id] \notin Blocked
           /\ (\E w \in uploads : Passes(w, J[w])) =>
                \A u \in uploads, v \in seen[q] :
                  v.id = u.id /\ u.kind \notin Blamed /\ got[q][u.id] \notin Blocked
                    => got[q][u.id] \in J[u].checked
<1>1. PICK accept \in BOOLEAN, verdicts \in [seen[q] -> Verdicts] :
        /\ \A u \in seen[q] : verdicts[u] \in CrossVerdicts(u, FileVerdict(u, got[q][u.id], accept))
        /\ LET gone    == {u \in seen[q] : \A v \in uploads : v.id # u.id}
               changed == {u \in seen[q] : \/ verdicts[u] # u.verdict
                                           \/ Accepted(u, got[q][u.id], accept) # u.accepted}
               now(u)  == CHOOSE v \in seen[q] : v.id = u.id
           IN  uploads' = IF gone \cap changed # {} THEN uploads
                 ELSE {IF \E v \in seen[q] : v.id = u.id
                         THEN Judged(q, u, verdicts[now(u)], accept) ELSE u : u \in uploads}
  BY DEF StoreVerdicts
<1> DEFINE Now(u) == CHOOSE v \in seen[q] : v.id = u.id
           Seen(u) == \E v \in seen[q] : v.id = u.id
           Judge(u) == IF Seen(u) THEN Judged(q, u, verdicts[Now(u)], accept) ELSE u
<1>2. uploads' = uploads \/ uploads' = {Judge(u) : u \in uploads}
  BY <1>1
<1>3. uploads \subseteq Rows /\ seen[q] \subseteq Rows
  BY DEF StoreTypes, RequestTypes
<1>4. CASE uploads' = uploads
  <2> DEFINE J == [u \in uploads |-> u]
  <2>1. J \in [uploads -> Rows] /\ \A u \in uploads : J[u] = u
    BY <1>3
  <2>2. uploads' = {J[u] : u \in uploads}
    BY <1>4
  <2> HIDE DEF J
  <2>3. \A u \in uploads : ~Passes(u, J[u])
    BY <2>1 DEF Passes
  <2>4. QED BY <2>1, <2>2, <2>3
<1>5. CASE uploads' = {Judge(u) : u \in uploads}
  <2> DEFINE J == [u \in uploads |-> Judge(u)]
  <2>1. ASSUME NEW u \in uploads, Seen(u)
        PROVE  /\ Now(u) \in seen[q] /\ Now(u).id = u.id /\ Now(u).kind = u.kind
               /\ verdicts[Now(u)] \in Verdicts /\ got[q][u.id] \in Contents
               /\ verdicts[Now(u)] \in CrossVerdicts(Now(u), FileVerdict(Now(u), got[q][u.id], accept))
    <3>1. Now(u) \in seen[q] /\ Now(u).id = u.id
      BY <2>1
    <3>2. Now(u).kind = u.kind
      BY <3>1 DEF SeenOK
    <3>3. got[q][u.id] # NoObject /\ u.id \in 1 .. MaxUploads
      BY <1>3, <3>1, RowFields DEF RequestOK, StoreVerdicts
    <3>4. got[q][u.id] \in Contents
      BY <3>3 DEF RequestTypes
    <3>5. QED BY <1>1, <3>1, <3>2, <3>4
  <2>2. ASSUME NEW u \in uploads, Seen(u), u.kind \notin Blamed
        PROVE  /\ verdicts[Now(u)] \in {"ok", "warn"} <=> got[q][u.id] \notin Blocked
    <3>1. verdicts[Now(u)] = FileVerdict(Now(u), got[q][u.id], accept)
      BY <2>1, <2>2 DEF CrossVerdicts
    <3>2. QED BY <3>1 DEF FileVerdict
  <2>3. ASSUME NEW u \in uploads, Seen(u)
        PROVE  /\ Judge(u) \in Rows
               /\ Judge(u).id = u.id /\ Judge(u).run = u.run /\ Judge(u).kind = u.kind
               /\ Judge(u).path = u.path /\ u.checked \subseteq Judge(u).checked
               /\ Judge(u).verdict \in {u.verdict, verdicts[Now(u)]}
               /\ verdicts[Now(u)] \in {"ok", "warn"} => got[q][u.id] \in Judge(u).checked
    <3>1. Judge(u) = Judged(q, u, verdicts[Now(u)], accept)
      BY <2>3
    <3>2. u \in Rows /\ verdicts[Now(u)] \in Verdicts /\ got[q][u.id] \in Contents
      BY <1>3, <2>1, <2>3
    <3>3. QED BY <2>3, <3>1, <3>2, JudgedFields
  <2>4. ASSUME NEW u \in uploads, ~Seen(u) PROVE Judge(u) = u
    BY <2>4
  <2> HIDE DEF Judge, Seen, Now
  <2>5. J \in [uploads -> Rows] /\ uploads' = {J[u] : u \in uploads} /\ \A u \in uploads : J[u] = Judge(u)
    BY <1>3, <1>5, <2>3, <2>4
  <2> HIDE DEF J
  <2>6. ASSUME NEW u \in uploads
        PROVE  /\ J[u].id = u.id /\ J[u].run = u.run /\ J[u].kind = u.kind /\ J[u].path = u.path
               /\ u.checked \subseteq J[u].checked
    BY <2>3, <2>4, <2>5
  <2>7. ASSUME NEW u \in uploads, Passes(u, J[u])
        PROVE  /\ Seen(u) /\ got[q][u.id] \in J[u].checked
               /\ u.kind \notin Blamed => got[q][u.id] \notin Blocked
    <3>1. Seen(u)
      BY <2>4, <2>5, <2>7 DEF Passes
    <3>2. verdicts[Now(u)] \in {"ok", "warn"}
      BY <2>3, <2>5, <2>7, <3>1 DEF Passes
    <3>3. QED BY <2>2, <2>3, <2>5, <3>1, <3>2
  <2>8. ASSUME NEW u \in uploads, Seen(u), u.kind \notin Blamed, got[q][u.id] \notin Blocked
        PROVE  got[q][u.id] \in J[u].checked
    BY <2>2, <2>3, <2>5, <2>8
  <2>9. QED BY <2>5, <2>6, <2>7, <2>8 DEF Seen
<1>6. QED BY <1>2, <1>4, <1>5

LEMMA LeastNatural ==
  ASSUME NEW S \in SUBSET Nat, S # {}
  PROVE  \E m \in S : \A k \in S : m <= k
<1> DEFINE Less == OpToRel(<, Nat)
<1>1. \E m \in S : \A k \in S : ~(<<k, m>> \in Less)
  BY WFMin, NatLessThanWellFounded
<1>2. ASSUME NEW m \in S, NEW k \in S, ~(<<k, m>> \in Less) PROVE m <= k
  BY <1>2 DEF OpToRel
<1>3. QED BY <1>1, <1>2

\* validate_files downloads a file it has not read.
LEMMA NextUnread ==
  ASSUME RequestTypes, NEW q \in Requests, Unread(q) # {}
  PROVE  (CHOOSE v \in Unread(q) : \A w \in Unread(q) : v.id <= w.id) \in Unread(q)
<1> DEFINE S == {v.id : v \in Unread(q)}
<1>1. S \in SUBSET Nat /\ S # {}
  BY RowFields DEF Unread, RequestTypes
<1>2. PICK m \in S : \A k \in S : m <= k
  BY <1>1, LeastNatural
<1>3. PICK v \in Unread(q) : m = v.id
  OBVIOUS
<1>4. \A w \in Unread(q) : v.id <= w.id
  BY <1>2, <1>3
<1>5. QED BY <1>4

\* Every step of a request keeps the types and leaves the other requests alone.
LEMMA RequestStepTypes ==
  ASSUME StoreTypes, RequestTypes, \A r \in Requests : RequestOK(r), SeenOK, NEW q \in Requests,
         RequestStep(q)
  PROVE  /\ StoreTypes' /\ RequestTypes' /\ \A r \in Requests : RequestOK(r)'
         /\ status' = status /\ \A r \in Requests \ {q} : Same(r)
<1> DEFINE Goal == /\ StoreTypes' /\ RequestTypes' /\ \A r \in Requests : RequestOK(r)'
                   /\ status' = status /\ \A r \in Requests \ {q} : Same(r)
<1> USE DEF storeVars, runVars, historyVars
<1>0. status' = status /\ Forward
  <2>1. status' = status
    BY DEF RequestStep, UploadBegin, DeleteObjects, PutObject, RefuseOversize, InspectObject, InsertUpload,
           RemoveBegin, RemoveUpload, ValidateBegin, Download, StoreVerdicts, AbortRequest
  <2>2. QED BY <2>1 DEF Forward
<1>1. ASSUME StoreTypes', EndRequest(q) PROVE Goal
  BY <1>0, <1>1, RequestEnds
<1>2. ASSUME StoreTypes', RequestTypes', RequestOK(q)', \A r \in Requests \ {q} : Same(r) PROVE Goal
  BY <1>0, <1>2, SameRequest
<1>3. ASSUME UNCHANGED <<status, uploads, nextId, used, read, raced, crowded>>,
             objects' \in [Paths -> Contents \cup {NoObject}], abandoned' \subseteq Runs
      PROVE  StoreTypes'
  BY <1>3 DEF StoreTypes
<1>4. ASSUME NEW x \in Runs, NEW k \in Kinds, NEW n \in Names, NEW c \in Contents, UploadBegin(q, x, k, n, c)
      PROVE  Goal
  <2>1. StoreTypes'
    BY <1>4 DEF UploadBegin, StoreTypes
  <2>2. /\ pc' = [pc EXCEPT ![q] = "replacing"] /\ target' = [target EXCEPT ![q] = x]
        /\ file' = [file EXCEPT ![q] = <<x, k, n>>] /\ body' = [body EXCEPT ![q] = c]
        /\ got' = got /\ pc[q] = "idle" /\ Uploadable(x)
        /\ \E S \in SUBSET uploads : seen' = [seen EXCEPT ![q] = S]
    BY <1>4 DEF UploadBegin, Goto, Of
  <2>3. <<x, k, n>> \in Paths /\ <<x, k, n>>[1] = x
    BY DEF Paths
  <2>4. RequestTypes'
    BY <2>2, <2>3 DEF RequestTypes, StoreTypes, PCs
  <2>5. \A r \in Requests \ {q} : Same(r)
    BY <2>2 DEF RequestTypes, Same
  <2>6. /\ pc'[q] = "replacing" /\ target'[q] = x /\ file'[q] = <<x, k, n>> /\ body'[q] = c
        /\ got'[q] = NothingRead /\ status'[x] # "absent"
    BY <1>0, <2>2 DEF RequestTypes, RequestOK, Uploadable, Validating
  <2>7. RequestOK(q)'
    BY <2>3, <2>6 DEF RequestOK, Validating
  <2>8. QED BY <1>2, <2>1, <2>4, <2>5, <2>7
<1>5. ASSUME DeleteObjects(q) PROVE Goal
  <2>1. /\ pc[q] \in {"replacing", "removing"} /\ UNCHANGED <<target, file, body, seen, got>>
        /\ pc' = [pc EXCEPT ![q] = IF pc[q] = "replacing" THEN "putting" ELSE "removed"]
    BY <1>5 DEF DeleteObjects, Goto
  <2>2. StoreTypes'
    BY <1>3, <1>5 DEF DeleteObjects, StoreTypes
  <2>3. RequestTypes' /\ \A r \in Requests \ {q} : Same(r)
    BY <2>1 DEF RequestTypes, PCs, Same
  <2>4. RequestOK(q)'
    BY <1>0, <2>1 DEF RequestOK, RequestTypes, Uploading, Validating
  <2>5. QED BY <1>2, <2>2, <2>3, <2>4
<1>6. ASSUME PutObject(q) PROVE Goal
  <2>1. /\ pc[q] = "putting" /\ UNCHANGED <<target, file, body, seen, got>>
        /\ pc' = [pc EXCEPT ![q] = "stored"]
    BY <1>6 DEF PutObject, Goto
  <2>2. StoreTypes'
    BY <1>3, <1>6, <2>1 DEF PutObject, StoreTypes, RequestOK, Uploading
  <2>3. RequestTypes' /\ \A r \in Requests \ {q} : Same(r)
    BY <2>1 DEF RequestTypes, PCs, Same
  <2>4. RequestOK(q)'
    BY <1>0, <2>1 DEF RequestOK, RequestTypes, Uploading, Validating
  <2>5. QED BY <1>2, <2>2, <2>3, <2>4
<1>7. ASSUME RefuseOversize(q) PROVE Goal
  <2>1. StoreTypes'
    BY <1>3, <1>7 DEF RefuseOversize, StoreTypes
  <2>2. QED BY <1>1, <1>7, <2>1 DEF RefuseOversize
<1>8. ASSUME InspectObject(q) PROVE Goal
  <2>1. target[q] \in Runs /\ pc[q] = "stored"
    BY <1>8 DEF InspectObject, RequestOK
  <2>2. CASE EndRequest(q) /\ abandoned' = abandoned \cup {target[q]}
    <3>1. StoreTypes'
      BY <1>3, <1>8, <2>1, <2>2 DEF InspectObject, StoreTypes
    <3>2. QED BY <1>1, <2>2, <3>1
  <2>3. CASE pc' = [pc EXCEPT ![q] = "inserting"] /\ UNCHANGED <<target, file, body, seen, got, abandoned>>
    <3>1. StoreTypes'
      BY <1>3, <1>8, <2>3 DEF InspectObject, StoreTypes
    <3>2. RequestTypes' /\ \A r \in Requests \ {q} : Same(r)
      BY <2>3 DEF RequestTypes, PCs, Same
    <3>3. RequestOK(q)'
      BY <1>0, <2>1, <2>3 DEF RequestOK, RequestTypes, Uploading, Validating
    <3>4. QED BY <1>2, <3>1, <3>2, <3>3
  <2>4. QED BY <1>8, <2>2, <2>3 DEF InspectObject, Goto
<1>9. ASSUME InsertUpload(q) PROVE Goal
  <2> DEFINE left == {u \in uploads : \A v \in seen[q] : v.id # u.id}
             new == [id |-> nextId + 1, run |-> target[q], kind |-> file[q][2], path |-> file[q],
                     verdict |-> "none", accepted |-> FALSE, checked |-> {}]
  <2>1. /\ uploads' = left \cup {new} /\ nextId' = nextId + 1 /\ nextId < MaxUploads /\ EndRequest(q)
        /\ UNCHANGED <<status, objects, used, read, abandoned, raced, crowded>> /\ pc[q] = "inserting"
    BY <1>9 DEF InsertUpload
  <2>2. target[q] \in Runs /\ file[q] \in Paths /\ file[q][2] \in Kinds /\ nextId + 1 \in 1 .. MaxUploads
    BY <2>1 DEF RequestOK, Uploading, Paths, StoreTypes
  <2>3. new \in Rows
    BY <2>2 DEF Rows, Verdicts
  <2>4. IsFiniteSet(uploads')
    <3>1. IsFiniteSet(left)
      BY FS_Subset DEF StoreTypes
    <3> HIDE DEF left, new
    <3>2. QED BY <2>1, <3>1, FS_AddElement
  <2>5. uploads' \subseteq Rows
    BY <2>1, <2>3 DEF StoreTypes
  <2>6. StoreTypes'
    BY <2>1, <2>2, <2>4, <2>5 DEF StoreTypes
  <2>7. QED BY <1>1, <2>1, <2>6
<1>10. ASSUME NEW u \in uploads, RemoveBegin(q, u) PROVE Goal
  <2>1. /\ pc[q] = "idle" /\ Uploadable(u.run) /\ UNCHANGED <<file, body, got>>
        /\ pc' = [pc EXCEPT ![q] = "removing"] /\ target' = [target EXCEPT ![q] = u.run]
        /\ seen' = [seen EXCEPT ![q] = {u}]
    BY <1>10 DEF RemoveBegin, Goto
  <2>2. u \in Rows /\ u.run \in Runs
    BY RowFields DEF StoreTypes
  <2>3. StoreTypes'
    BY <1>10 DEF RemoveBegin, StoreTypes
  <2>4. RequestTypes' /\ \A r \in Requests \ {q} : Same(r)
    BY <2>1, <2>2 DEF RequestTypes, PCs, Same
  <2>5. RequestOK(q)'
    BY <1>0, <2>1, <2>2 DEF RequestOK, RequestTypes, Uploading, Validating, Uploadable
  <2>6. QED BY <1>2, <2>3, <2>4, <2>5
<1>11. ASSUME RemoveUpload(q) PROVE Goal
  <2>1. uploads' \subseteq uploads
    BY <1>11 DEF RemoveUpload
  <2>2. IsFiniteSet(uploads')
    BY <2>1, FS_Subset DEF StoreTypes
  <2>3. StoreTypes'
    BY <1>11, <2>1, <2>2 DEF RemoveUpload, StoreTypes
  <2>4. QED BY <1>1, <1>11, <2>3 DEF RemoveUpload
<1>12. ASSUME NEW x \in Runs, ValidateBegin(q, x) PROVE Goal
  <2>1. /\ pc[q] = "idle" /\ Known(x) /\ UNCHANGED <<file, body, got>>
        /\ pc' = [pc EXCEPT ![q] = "reading"] /\ target' = [target EXCEPT ![q] = x]
        /\ seen' = [seen EXCEPT ![q] = Of(x)]
    BY <1>12 DEF ValidateBegin, Goto
  <2>2. Of(x) \subseteq Rows
    BY DEF Of, StoreTypes
  <2>3. StoreTypes'
    BY <1>12 DEF ValidateBegin, StoreTypes
  <2>4. RequestTypes' /\ \A r \in Requests \ {q} : Same(r)
    BY <2>1, <2>2 DEF RequestTypes, PCs, Same
  <2>5. RequestOK(q)'
    BY <1>0, <2>1 DEF RequestOK, RequestTypes, Uploading, Validating, Known
  <2>6. QED BY <1>2, <2>3, <2>4, <2>5
<1>13. ASSUME Download(q) PROVE Goal
  <2> DEFINE u == CHOOSE v \in Unread(q) : \A w \in Unread(q) : v.id <= w.id
  <2>1. /\ pc[q] = "reading"
        /\ \/ EndRequest(q)
           \/ /\ objects[u.path] # NoObject
              /\ got' = [got EXCEPT ![q][u.id] = objects[u.path]]
              /\ pc' = [pc EXCEPT ![q] = IF Unread(q) = {u} THEN "judging" ELSE "reading"]
              /\ UNCHANGED <<target, file, body, seen>>
    BY <1>13 DEF Download, Goto
  <2>2. StoreTypes'
    BY <1>13 DEF Download, StoreTypes
  <2>3. u \in Unread(q) /\ u \in seen[q] /\ u \in Rows /\ u.id \in 1 .. MaxUploads
    BY <1>13, NextUnread, RowFields DEF Download, Unread, RequestTypes
  <2> HIDE DEF u
  <2>4. CASE EndRequest(q)
    BY <1>1, <2>2, <2>4
  <2>5. CASE ~EndRequest(q)
    <3>1. RequestTypes' /\ \A r \in Requests \ {q} : Same(r)
      <4>1. got' \in [Requests -> [1 .. MaxUploads -> Contents \cup {NoObject}]]
        <5>1. objects[u.path] \in Contents \cup {NoObject}
          BY <2>3, RowFields DEF StoreTypes
        <5>2. got' = [got EXCEPT ![q] = [got[q] EXCEPT ![u.id] = objects[u.path]]]
          BY <2>1, <2>5
        <5>3. got[q] \in [1 .. MaxUploads -> Contents \cup {NoObject}]
          BY DEF RequestTypes
        <5>4. [got[q] EXCEPT ![u.id] = objects[u.path]] \in [1 .. MaxUploads -> Contents \cup {NoObject}]
          BY <2>3, <5>1, <5>3
        <5>5. QED BY <5>2, <5>4 DEF RequestTypes
      <4>2. QED BY <2>1, <2>5, <4>1 DEF RequestTypes, PCs, Same
    <3>2. /\ pc'[q] = IF Unread(q) = {u} THEN "judging" ELSE "reading"
          /\ target'[q] = target[q] /\ seen'[q] = seen[q]
          /\ got'[q] = [got[q] EXCEPT ![u.id] = objects[u.path]]
      BY <2>1, <2>5 DEF RequestTypes
    <3>3. pc'[q] = "judging" => \A v \in seen'[q] : got'[q][v.id] # NoObject
      <4>1. SUFFICES ASSUME Unread(q) = {u}, NEW v \in seen[q] PROVE got'[q][v.id] # NoObject
        BY <3>2
      <4>2. v.id \in 1 .. MaxUploads /\ got[q] \in [1 .. MaxUploads -> Contents \cup {NoObject}]
        BY RowFields DEF RequestTypes
      <4>3. CASE v.id = u.id
        BY <2>1, <2>5, <3>2, <4>2, <4>3
      <4>4. CASE v.id # u.id
        <5>1. v \notin Unread(q)
          BY <4>1, <4>4
        <5>2. QED BY <3>2, <4>2, <4>4, <5>1 DEF Unread
      <4>5. QED BY <4>3, <4>4
    <3>4. RequestOK(q)'
      BY <1>0, <2>1, <3>2, <3>3 DEF RequestOK, Uploading, Validating
    <3>5. QED BY <1>2, <2>2, <3>1, <3>4
  <2>6. QED BY <2>4, <2>5
<1>14. ASSUME StoreVerdicts(q) PROVE Goal
  <2>1. PICK J \in [uploads -> Rows] : uploads' = {J[u] : u \in uploads}
    BY <1>14, VerdictRows
  <2>2. IsFiniteSet(uploads')
    <3>1. J \in Surjection(uploads, uploads')
      BY <2>1 DEF Surjection
    <3>2. QED BY <3>1, FS_Surjection DEF StoreTypes
  <2>3. UNCHANGED <<status, nextId, objects, used, read, abandoned, raced, crowded>>
    BY <1>14 DEF StoreVerdicts
  <2>4. StoreTypes'
    BY <2>1, <2>2, <2>3 DEF StoreTypes
  <2>5. QED BY <1>1, <1>14, <2>4 DEF StoreVerdicts
<1>15. ASSUME AbortRequest(q) PROVE Goal
  <2>1. StoreTypes'
    BY <1>3, <1>15 DEF AbortRequest, StoreTypes, RequestOK
  <2>2. QED BY <1>1, <1>15, <2>1 DEF AbortRequest
<1>16. QED BY <1>4, <1>5, <1>6, <1>7, <1>8, <1>9, <1>10, <1>11, <1>12, <1>13, <1>14, <1>15 DEF RequestStep

-----------------------------------------------------------------------------
(* Rows.                                                                   *)

AllTypes == StoreTypes /\ RequestTypes /\ \A q \in Requests : RequestOK(q)

\* Row w is row u, but for its verdicts.
SameRow(w, u) == w.id = u.id /\ w.run = u.run /\ w.kind = u.kind /\ w.path = u.path

\* A step keeps, judges or removes rows, and gives new ones new ids.
RowsContinue ==
  /\ nextId <= nextId'
  /\ \A w \in uploads' : (\E u \in uploads : SameRow(w, u)) \/ w.id > nextId

\* The steps that change the rows.
RowStep ==
  \/ \E x \in Runs, y \in Runs : Rerun(x, y)
  \/ \E q \in Requests : InsertUpload(q) \/ RemoveUpload(q) \/ StoreVerdicts(q)

LEMMA RowSteps == [Next]_vars => UNCHANGED <<uploads, nextId>> \/ RowStep
<1> USE DEF storeVars
<1>1. ASSUME NEW x \in Runs, RunStep(x) PROVE UNCHANGED <<uploads, nextId>> \/ RowStep
  BY <1>1 DEF RunStep, CreateRun, DeleteRun, ExecuteRun, ReadInput, EndRun, RowStep
<1>2. ASSUME NEW q \in Requests, RequestStep(q) PROVE UNCHANGED <<uploads, nextId>> \/ RowStep
  BY <1>2 DEF RequestStep, UploadBegin, DeleteObjects, PutObject, RefuseOversize, InspectObject,
              RemoveBegin, ValidateBegin, Download, AbortRequest, RowStep
<1>3. QED BY <1>1, <1>2 DEF Next, vars

LEMMA IdsAreNumbers ==
  ASSUME StoreTypes
  PROVE  nextId \in Nat /\ \A u \in uploads : u \in Rows /\ u.id \in Nat
BY RowFields DEF StoreTypes

LEMMA RowsStep ==
  ASSUME AllTypes, AllTypes', RowsOK, SeenOK, Forward, [Next]_vars
  PROVE  RowsOK' /\ RowsContinue
<1> USE DEF AllTypes
<1>1. /\ nextId \in Nat /\ nextId' \in Nat /\ \A u \in uploads : u \in Rows /\ u.id \in Nat
      /\ \A u \in uploads' : u \in Rows /\ u.id \in Nat
  <2>1. uploads' \subseteq Rows /\ nextId' \in 0 .. MaxUploads
    BY DEF StoreTypes
  <2>2. QED BY <2>1, IdsAreNumbers, RowFields
<1>2. ASSUME NEW u \in uploads, NEW w, SameRow(w, u), nextId <= nextId'
      PROVE  w.id <= nextId' /\ w.kind = w.path[2] /\ status'[w.run] # "absent"
  BY <1>1, <1>2, RowFields DEF RowsOK, SameRow, Forward, StoreTypes
<1>3. CASE UNCHANGED <<uploads, nextId>>
  <2>1. \A u \in uploads : SameRow(u, u)
    BY DEF SameRow
  <2>2. QED BY <1>1, <1>2, <1>3, <2>1 DEF RowsOK, RowsContinue
<1>4. ASSUME NEW x \in Runs, NEW y \in Runs, Rerun(x, y) PROVE RowsOK' /\ RowsContinue
  <2>1. PICK ids \in [Of(x) -> (nextId + 1) .. MaxUploads] :
          /\ uploads' = uploads \cup {Copy(u, y, ids[u]) : u \in Of(x)}
          /\ \A u, v \in Of(x) : u.id < v.id => ids[u] < ids[v]
          /\ \A u \in Of(x) : ids[u] <= nextId' /\ ids[u] \in 1 .. MaxUploads
          /\ nextId' \in nextId .. MaxUploads
    BY <1>4, RerunRows
  <2>2. \A u \in Of(x) : u \in uploads /\ u \in Rows
    BY <1>1 DEF Of
  <2>3. \A u \in Of(x) :
          LET w == Copy(u, y, ids[u])
          IN  w.id = ids[u] /\ w.run = y /\ w.kind = u.kind /\ w.path = u.path /\ w.id > nextId
    BY <1>1, <2>1, <2>2, CopyFields
  <2>4. status'[y] # "absent"
    BY <1>4 DEF Rerun, StoreTypes
  <2>5. \A w \in uploads' : w.id <= nextId' /\ w.kind = w.path[2] /\ status'[w.run] # "absent"
    <3>1. ASSUME NEW u \in uploads PROVE u.id <= nextId' /\ u.kind = u.path[2] /\ status'[u.run] # "absent"
      BY <1>1, <1>2, <2>1 DEF SameRow
    <3>2. ASSUME NEW u \in Of(x)
          PROVE  LET w == Copy(u, y, ids[u])
                 IN  w.id <= nextId' /\ w.kind = w.path[2] /\ status'[w.run] # "absent"
      BY <2>1, <2>2, <2>3, <2>4, <3>2 DEF RowsOK
    <3>3. QED BY <2>1, <3>1, <3>2
  <2>6. ASSUME NEW w \in uploads', NEW z \in uploads', w.id = z.id PROVE w = z
    <3>1. ASSUME NEW u \in Of(x), NEW v \in Of(x), ids[u] = ids[v] PROVE u = v
      <4>1. u.id \in Nat /\ v.id \in Nat /\ ids[u] \in Nat /\ ids[v] \in Nat
        BY <1>1, <2>1, <2>2
      <4>2. u.id = v.id
        BY <2>1, <3>1, <4>1
      <4>3. QED BY <2>2, <4>2 DEF RowsOK
    <3>2. ASSUME NEW u \in Of(x), NEW v \in uploads PROVE Copy(u, y, ids[u]).id # v.id
      BY <1>1, <2>3 DEF RowsOK
    <3>3. CASE w \in uploads /\ z \in uploads
      BY <2>6, <3>3 DEF RowsOK
    <3>4. ASSUME NEW u \in Of(x), w = Copy(u, y, ids[u]) PROVE w = z
      BY <2>1, <2>3, <2>6, <3>1, <3>2, <3>4
    <3>5. ASSUME NEW u \in Of(x), z = Copy(u, y, ids[u]) PROVE w = z
      BY <2>1, <2>3, <2>6, <3>1, <3>2, <3>5
    <3>6. QED BY <2>1, <3>3, <3>4, <3>5
  <2>7. RowsContinue
    BY <1>1, <2>1, <2>3 DEF RowsContinue, SameRow
  <2>8. QED BY <2>5, <2>6, <2>7 DEF RowsOK
<1>5. ASSUME NEW q \in Requests, InsertUpload(q) PROVE RowsOK' /\ RowsContinue
  <2> DEFINE new == [id |-> nextId + 1, run |-> target[q], kind |-> file[q][2], path |-> file[q],
                     verdict |-> "none", accepted |-> FALSE, checked |-> {}]
  <2>1. /\ uploads' \subseteq uploads \cup {new} /\ nextId' = nextId + 1 /\ pc[q] = "inserting"
        /\ status' = status
    BY <1>5 DEF InsertUpload
  <2>2. new.id = nextId + 1 /\ new.run = target[q] /\ new.kind = file[q][2] /\ new.path = file[q]
    OBVIOUS
  <2>3. status[target[q]] # "absent"
    BY <2>1 DEF RequestOK
  <2> HIDE DEF new
  <2>4. \A w \in uploads' : w.id <= nextId' /\ w.kind = w.path[2] /\ status'[w.run] # "absent"
    BY <1>1, <2>1, <2>2, <2>3 DEF RowsOK
  <2>5. \A w, z \in uploads' : w.id = z.id => w = z
    BY <1>1, <2>1, <2>2 DEF RowsOK
  <2>6. RowsContinue
    BY <1>1, <2>1, <2>2 DEF RowsContinue, SameRow
  <2>7. QED BY <2>4, <2>5, <2>6 DEF RowsOK
<1>6. ASSUME NEW q \in Requests, RemoveUpload(q) PROVE RowsOK' /\ RowsContinue
  <2>1. uploads' \subseteq uploads /\ nextId' = nextId /\ status' = status
    BY <1>6 DEF RemoveUpload
  <2>2. RowsContinue
    BY <1>1, <2>1 DEF RowsContinue, SameRow
  <2>3. QED BY <2>1, <2>2 DEF RowsOK
<1>7. ASSUME NEW q \in Requests, StoreVerdicts(q) PROVE RowsOK' /\ RowsContinue
  <2>1. PICK J \in [uploads -> Rows] :
          /\ uploads' = {J[u] : u \in uploads}
          /\ \A u \in uploads : J[u].id = u.id /\ J[u].run = u.run /\ J[u].kind = u.kind /\ J[u].path = u.path
    BY <1>7, VerdictRows
  <2>2. nextId' = nextId
    BY <1>7 DEF StoreVerdicts
  <2>3. \A u \in uploads : SameRow(J[u], u)
    BY <2>1 DEF SameRow
  <2>4. \A w \in uploads' : w.id <= nextId' /\ w.kind = w.path[2] /\ status'[w.run] # "absent"
    BY <1>1, <1>2, <2>1, <2>2, <2>3
  <2>5. \A w, z \in uploads' : w.id = z.id => w = z
    BY <2>1 DEF RowsOK
  <2>6. QED BY <1>1, <2>1, <2>2, <2>3, <2>4, <2>5 DEF RowsOK, RowsContinue
<1>8. QED BY <1>3, <1>4, <1>5, <1>6, <1>7, RowSteps DEF RowStep

-----------------------------------------------------------------------------
(* What requests have loaded.                                              *)

\* The request goes on with the rows it has.
Keeps(r) == /\ seen'[r] = seen[r] /\ target'[r] = target[r]
            /\ pc'[r] \in Validating => pc[r] \in Validating

\* The request loads rows of its run, a validation all of them.
Loads(r) == /\ UNCHANGED <<uploads, nextId>> /\ seen'[r] \subseteq {u \in uploads : u.run = target'[r]}
            /\ pc'[r] \in Validating => seen'[r] = {u \in uploads : u.run = target'[r]}

LEMMA RequestMoves ==
  ASSUME AllTypes, SeenOK, [Next]_vars, NEW r \in Requests
  PROVE  Keeps(r) \/ seen'[r] = {} \/ Loads(r)
<1> USE DEF AllTypes, storeVars
<1>1. ASSUME UNCHANGED requestVars PROVE Keeps(r)
  BY <1>1 DEF Keeps, requestVars
<1>2. ASSUME NEW x \in Runs, RunStep(x) PROVE Keeps(r)
  BY <1>1, <1>2, RunForward
<1>3. ASSUME NEW q \in Requests, RequestStep(q), q # r PROVE Keeps(r)
  BY <1>3, RequestStepTypes DEF Same, Keeps
<1>4. ASSUME RequestStep(r) PROVE Keeps(r) \/ seen'[r] = {} \/ Loads(r)
  <2>1. ASSUME EndRequest(r) PROVE seen'[r] = {}
    BY <2>1 DEF EndRequest, RequestTypes
  <2>2. ASSUME NEW x \in Runs, NEW k \in Kinds, NEW n \in Names, NEW c \in Contents, UploadBegin(r, x, k, n, c)
        PROVE  Loads(r)
    <3>1. /\ UNCHANGED <<uploads, nextId>> /\ pc'[r] = "replacing" /\ target'[r] = x
          /\ seen'[r] = IF Replaces(k) THEN {u \in Of(x) : u.kind = k} ELSE {}
      BY <2>2 DEF UploadBegin, Goto, RequestTypes
    <3>2. QED BY <3>1 DEF Loads, Of, Validating
  <2>3. ASSUME DeleteObjects(r) \/ PutObject(r) PROVE Keeps(r)
    BY <2>3 DEF DeleteObjects, PutObject, Goto, RequestTypes, Keeps, Validating
  <2>4. ASSUME InspectObject(r) PROVE Keeps(r) \/ EndRequest(r)
    BY <2>4 DEF InspectObject, Goto, RequestTypes, Keeps, Validating
  <2>5. ASSUME NEW u \in uploads, RemoveBegin(r, u) PROVE Loads(r)
    <3>1. UNCHANGED <<uploads, nextId>> /\ pc'[r] = "removing" /\ target'[r] = u.run /\ seen'[r] = {u}
      BY <2>5 DEF RemoveBegin, Goto, RequestTypes
    <3>2. QED BY <3>1 DEF Loads, Validating
  <2>6. ASSUME NEW x \in Runs, ValidateBegin(r, x) PROVE Loads(r)
    <3>1. UNCHANGED <<uploads, nextId>> /\ target'[r] = x /\ seen'[r] = Of(x)
      BY <2>6 DEF ValidateBegin, RequestTypes
    <3>2. QED BY <3>1 DEF Loads, Of
  <2>7. ASSUME Download(r) PROVE Keeps(r) \/ EndRequest(r)
    BY <2>7 DEF Download, Keeps, Validating
  <2>8. ASSUME RefuseOversize(r) \/ InsertUpload(r) \/ RemoveUpload(r) \/ StoreVerdicts(r) \/ AbortRequest(r)
        PROVE  EndRequest(r)
    BY <2>8 DEF RefuseOversize, InsertUpload, RemoveUpload, StoreVerdicts, AbortRequest
  <2>9. QED BY <1>4, <2>1, <2>2, <2>3, <2>4, <2>5, <2>6, <2>7, <2>8 DEF RequestStep
<1>5. QED BY <1>1, <1>2, <1>3, <1>4 DEF Next, vars

LEMMA SeenStep ==
  ASSUME AllTypes, AllTypes', RowsOK, RowsContinue, SeenOK, [Next]_vars
  PROVE  SeenOK'
<1> USE DEF AllTypes
<1>1. /\ nextId \in Nat /\ nextId' \in Nat /\ nextId <= nextId'
      /\ uploads \subseteq Rows /\ uploads' \subseteq Rows
  BY DEF StoreTypes, RowsContinue
<1>2. SUFFICES ASSUME NEW q \in Requests
               PROVE  /\ \A v \in seen'[q] : v.id <= nextId' /\ v.run = target'[q]
                      /\ \A v, w \in seen'[q] : v.id = w.id => v = w
                      /\ \A v \in seen'[q], u \in uploads' :
                           u.id = v.id => u.run = v.run /\ u.kind = v.kind /\ u.path = v.path
                      /\ pc'[q] \in Validating =>
                           \A v \in seen'[q], u \in uploads' :
                             u.run = target'[q] /\ u.id < v.id => \E w \in seen'[q] : w.id = u.id
  BY DEF SeenOK, Of
<1>3. CASE Keeps(q)
  <2>1. seen'[q] = seen[q] /\ target'[q] = target[q] /\ (pc'[q] \in Validating => pc[q] \in Validating)
    BY <1>3 DEF Keeps
  <2>2. \A v \in seen[q] : v.id \in Nat /\ v.id <= nextId /\ v.run = target[q]
    BY RowFields DEF SeenOK, RequestTypes
  <2>3. ASSUME NEW v \in seen[q], NEW u \in uploads', u.id <= v.id PROVE \E w \in uploads : SameRow(u, w)
    <3>1. u.id \in Nat
      BY <1>1, RowFields
    <3>2. QED BY <1>1, <2>2, <2>3, <3>1 DEF RowsContinue
  <2>4. \A v \in seen'[q] : v.id <= nextId' /\ v.run = target'[q]
    BY <1>1, <2>1, <2>2
  <2>5. ASSUME NEW v \in seen[q], NEW u \in uploads', u.id = v.id
        PROVE  u.run = v.run /\ u.kind = v.kind /\ u.path = v.path
    <3>1. PICK w \in uploads : SameRow(u, w)
      BY <2>2, <2>3, <2>5
    <3>2. w.id = v.id /\ u.run = w.run /\ u.kind = w.kind /\ u.path = w.path
      BY <2>5, <3>1 DEF SameRow
    <3>3. w.run = v.run /\ w.kind = v.kind /\ w.path = v.path
      BY <3>2 DEF SeenOK
    <3>4. QED BY <3>2, <3>3
  <2>6. ASSUME pc'[q] \in Validating, NEW v \in seen[q], NEW u \in uploads', u.run = target[q], u.id < v.id
        PROVE  \E w \in seen[q] : w.id = u.id
    <3>1. u.id \in Nat /\ v.id \in Nat
      BY <1>1, <2>2, RowFields
    <3>2. PICK w \in uploads : SameRow(u, w)
      BY <2>3, <2>6, <3>1
    <3>3. w \in Of(target[q]) /\ w.id < v.id /\ w.id = u.id
      BY <2>6, <3>2 DEF SameRow, Of
    <3>4. QED BY <2>1, <2>6, <3>3 DEF SeenOK
  <2>7. \A v, w \in seen[q] : v.id = w.id => v = w
    BY DEF SeenOK
  <2>8. QED BY <2>1, <2>4, <2>5, <2>6, <2>7
<1>4. CASE seen'[q] = {}
  BY <1>4
<1>5. CASE Loads(q)
  <2>1. \A v, w \in uploads : v.id = w.id => v = w
    BY DEF RowsOK
  <2>2. \A v \in uploads : v.id <= nextId
    BY DEF RowsOK
  <2>3. QED BY <1>5, <2>1, <2>2 DEF Loads
<1>6. QED BY <1>3, <1>4, <1>5, RequestMoves

-----------------------------------------------------------------------------
(* One file of a kind.                                                     *)

\* A request that goes on uploading does not change what it uploads.
Uploads(r) == pc'[r] \in Uploading =>
  /\ pc[r] \in Uploading /\ seen'[r] = seen[r] /\ target'[r] = target[r] /\ file'[r] = file[r]

\* Steps that bring no row and begin no upload.
LEMMA NoNewRow ==
  ASSUME ReplacesAll, SingleFileKinds, RowsOK', \A r \in Requests : Uploads(r), crowded \subseteq crowded',
         \A w \in uploads' : \E u \in uploads : SameRow(w, u)
  PROVE  ReplacesAll' /\ SingleFileKinds'
<1>1. ASSUME NEW q \in Requests, NEW r \in Requests,
             pc'[q] \in Uploading, pc'[r] \in Uploading, target'[q] = target'[r],
             file'[q][2] = file'[r][2], file'[q][2] # "PD", target'[q] \notin crowded'
      PROVE  q = r
  BY <1>1 DEF Uploads, ReplacesAll
<1>2. ASSUME NEW q \in Requests, pc'[q] \in Uploading, file'[q][2] # "PD", target'[q] \notin crowded',
             NEW w \in uploads', w.run = target'[q], w.kind = file'[q][2]
      PROVE  \E v \in seen'[q] : v.id = w.id
  <2>1. /\ pc[q] \in Uploading /\ file[q][2] # "PD" /\ target[q] \notin crowded
        /\ w.run = target[q] /\ w.kind = file[q][2] /\ seen'[q] = seen[q]
    BY <1>2 DEF Uploads
  <2>2. PICK u \in uploads : SameRow(w, u)
    OBVIOUS
  <2>3. u \in Of(target[q]) /\ u.kind = file[q][2] /\ u.id = w.id
    BY <2>1, <2>2 DEF SameRow, Of
  <2>4. QED BY <2>1, <2>3 DEF ReplacesAll
<1>3. ASSUME NEW x \in Runs \ crowded', NEW w \in uploads', NEW z \in uploads', w.run = x, z.run = x,
             w.kind = z.kind, w.kind # "PD"
      PROVE  w = z
  <2>1. PICK u \in uploads, v \in uploads : SameRow(w, u) /\ SameRow(z, v)
    OBVIOUS
  <2>2. u \in Of(x) /\ v \in Of(x) /\ u.kind = v.kind /\ u.kind # "PD" /\ x \in Runs \ crowded
    BY <1>3, <2>1 DEF SameRow, Of
  <2>3. u = v
    BY <2>2 DEF SingleFileKinds
  <2>4. QED BY <2>1, <2>3 DEF SameRow, RowsOK
<1>4. ReplacesAll'
  BY <1>1, <1>2 DEF ReplacesAll, Of
<1>5. SingleFileKinds'
  BY <1>3 DEF SingleFileKinds, Of
<1>6. QED BY <1>4, <1>5

\* Every request goes on uploading what it uploads, but for the one that begins.
LEMMA UploadSteps ==
  ASSUME AllTypes, SeenOK, [Next]_vars
  PROVE  \/ \A r \in Requests : Uploads(r)
         \/ \E q \in Requests, x \in Runs, k \in Kinds, n \in Names, c \in Contents : UploadBegin(q, x, k, n, c)
<1> USE DEF AllTypes
<1>1. ASSUME UNCHANGED requestVars PROVE \A r \in Requests : Uploads(r)
  BY <1>1 DEF requestVars, Uploads
<1>2. ASSUME NEW x \in Runs, RunStep(x) PROVE \A r \in Requests : Uploads(r)
  BY <1>1, <1>2, RunForward
<1>3. ASSUME NEW q \in Requests, RequestStep(q), NEW r \in Requests \ {q} PROVE Uploads(r)
  BY <1>3, RequestStepTypes DEF Same, Uploads
<1>4. ASSUME NEW q \in Requests, RequestStep(q)
      PROVE  \/ Uploads(q)
             \/ \E x \in Runs, k \in Kinds, n \in Names, c \in Contents : UploadBegin(q, x, k, n, c)
  <2>1. ASSUME EndRequest(q) PROVE Uploads(q)
    BY <2>1 DEF EndRequest, Uploads, Uploading, RequestTypes
  <2>2. ASSUME DeleteObjects(q) \/ PutObject(q) PROVE Uploads(q)
    BY <2>2 DEF DeleteObjects, PutObject, Goto, Uploads, Uploading, RequestTypes
  <2>3. ASSUME InspectObject(q), ~EndRequest(q) PROVE Uploads(q)
    BY <2>3 DEF InspectObject, Goto, Uploads, Uploading, RequestTypes
  <2>4. ASSUME NEW u \in uploads, RemoveBegin(q, u) PROVE Uploads(q)
    BY <2>4 DEF RemoveBegin, Goto, Uploads, Uploading, RequestTypes
  <2>5. ASSUME NEW x \in Runs, ValidateBegin(q, x) PROVE Uploads(q)
    BY <2>5 DEF ValidateBegin, Goto, Uploads, Uploading, RequestTypes
  <2>6. ASSUME Download(q), ~EndRequest(q) PROVE Uploads(q)
    BY <2>6 DEF Download, Goto, Uploads, Uploading, RequestTypes
  <2>7. ASSUME RefuseOversize(q) \/ InsertUpload(q) \/ RemoveUpload(q) \/ StoreVerdicts(q) \/ AbortRequest(q)
        PROVE  EndRequest(q)
    BY <2>7 DEF RefuseOversize, InsertUpload, RemoveUpload, StoreVerdicts, AbortRequest
  <2>8. QED BY <1>4, <2>1, <2>2, <2>3, <2>4, <2>5, <2>6, <2>7 DEF RequestStep
<1>5. QED BY <1>1, <1>2, <1>3, <1>4 DEF Next, vars

\* Runs are not taken off the lists of the excluded.
LEMMA Histories ==
  ASSUME [Next]_vars
  PROVE  abandoned \subseteq abandoned' /\ raced \subseteq raced' /\ crowded \subseteq crowded'
<1> USE DEF historyVars
<1>1. ASSUME NEW x \in Runs, RunStep(x)
      PROVE  abandoned \subseteq abandoned' /\ raced \subseteq raced' /\ crowded \subseteq crowded'
  BY <1>1 DEF RunStep, CreateRun, DeleteRun, ExecuteRun, ReadInput, EndRun, Rerun
<1>2. ASSUME NEW q \in Requests, RequestStep(q)
      PROVE  abandoned \subseteq abandoned' /\ raced \subseteq raced' /\ crowded \subseteq crowded'
  BY <1>2 DEF RequestStep, UploadBegin, DeleteObjects, PutObject, RefuseOversize, InspectObject, InsertUpload,
              RemoveBegin, RemoveUpload, ValidateBegin, Download, StoreVerdicts, AbortRequest
<1>3. QED BY <1>1, <1>2 DEF Next, vars

LEMMA SingleStep ==
  ASSUME AllTypes, AllTypes', RowsOK, RowsOK', SeenOK, ReplacesAll, SingleFileKinds, [Next]_vars
  PROVE  ReplacesAll' /\ SingleFileKinds'
<1> USE DEF AllTypes
<1>1. crowded \subseteq crowded'
  BY Histories
<1>2. ASSUME NEW q \in Requests, NEW x \in Runs, NEW k \in Kinds, NEW n \in Names, NEW c \in Contents,
             UploadBegin(q, x, k, n, c)
      PROVE  ReplacesAll' /\ SingleFileKinds'
  <2>1. /\ target' = [target EXCEPT ![q] = x] /\ file' = [file EXCEPT ![q] = <<x, k, n>>] /\ uploads' = uploads
        /\ pc' = [pc EXCEPT ![q] = "replacing"]
        /\ seen' = [seen EXCEPT ![q] = IF Replaces(k) THEN {u \in Of(x) : u.kind = k} ELSE {}]
        /\ crowded' = IF k # "PD" /\ Overlaps(x, k) THEN crowded \cup {x} ELSE crowded
    BY <1>2 DEF UploadBegin, Goto, storeVars
  <2>2. /\ target'[q] = x /\ file'[q][2] = k
        /\ k # "PD" => seen'[q] = {u \in Of(x) : u.kind = k}
    BY <2>1 DEF RequestTypes, Replaces
  <2>3. \A r \in Requests \ {q} : /\ target'[r] = target[r] /\ file'[r] = file[r] /\ pc'[r] = pc[r]
                                  /\ seen'[r] = seen[r]
    BY <2>1 DEF RequestTypes
  <2>4. ASSUME NEW r \in Requests \ {q}, pc[r] \in Uploading, target[r] = x, file[r][2] = k, k # "PD"
        PROVE  x \in crowded'
    <3>1. file[r] \in Paths /\ file[r][1] = x
      BY <2>4 DEF RequestOK
    <3>2. file[r] \in {x} \X {k} \X Names
      BY <2>4, <3>1 DEF Paths
    <3>3. QED BY <2>1, <2>4, <3>2 DEF Overlaps
  <2>5. \A r, s \in Requests :
          /\ pc'[r] \in Uploading /\ pc'[s] \in Uploading /\ target'[r] = target'[s]
          /\ file'[r][2] = file'[s][2] /\ file'[r][2] # "PD" /\ target'[r] \notin crowded'
          => r = s
    <3>1. SUFFICES ASSUME NEW r \in Requests, NEW s \in Requests, r # s,
                          pc'[r] \in Uploading, pc'[s] \in Uploading, target'[r] = target'[s],
                          file'[r][2] = file'[s][2], file'[r][2] # "PD", target'[r] \notin crowded'
                   PROVE  FALSE
      OBVIOUS
    <3>2. CASE r = q
      BY <2>2, <2>3, <2>4, <3>1, <3>2
    <3>3. CASE s = q
      BY <2>2, <2>3, <2>4, <3>1, <3>3
    <3>4. CASE r # q /\ s # q
      BY <1>1, <2>3, <3>1, <3>4 DEF ReplacesAll
    <3>5. QED BY <3>2, <3>3, <3>4
  <2>6. ASSUME NEW r \in Requests, pc'[r] \in Uploading, file'[r][2] # "PD", target'[r] \notin crowded',
               NEW u \in uploads, u.run = target'[r], u.kind = file'[r][2]
        PROVE  \E v \in seen'[r] : v.id = u.id
    <3>1. CASE r = q
      BY <2>2, <2>6, <3>1 DEF Of
    <3>2. CASE r # q
      <4>1. pc[r] \in Uploading /\ file[r][2] # "PD" /\ target[r] \notin crowded /\ u \in Of(target[r])
        BY <1>1, <2>3, <2>6, <3>2 DEF Of
      <4>2. u.kind = file[r][2] /\ seen'[r] = seen[r]
        BY <2>3, <2>6, <3>2
      <4>3. QED BY <4>1, <4>2 DEF ReplacesAll
    <3>3. QED BY <3>1, <3>2
  <2>7. ReplacesAll'
    BY <2>1, <2>5, <2>6 DEF ReplacesAll, Of
  <2>8. SingleFileKinds'
    BY <1>1, <2>1 DEF SingleFileKinds, Of
  <2>9. QED BY <2>7, <2>8
<1>3. ASSUME NEW x \in Runs, NEW y \in Runs, Rerun(x, y) PROVE ReplacesAll' /\ SingleFileKinds'
  <2>1. PICK ids \in [Of(x) -> (nextId + 1) .. MaxUploads] :
          /\ uploads' = uploads \cup {Copy(u, y, ids[u]) : u \in Of(x)}
          /\ \A u \in Of(x) : ids[u] \in 1 .. MaxUploads
    BY <1>3, RerunRows
  <2>2. /\ status[y] = "absent" /\ (y \notin crowded' => x \notin crowded) /\ UNCHANGED requestVars
    BY <1>3 DEF Rerun
  <2>3. \A u \in Of(x) : u \in uploads /\ u \in Rows
    BY DEF Of, StoreTypes
  <2>4. \A u \in Of(x) : Copy(u, y, ids[u]).run = y /\ Copy(u, y, ids[u]).kind = u.kind
    BY <2>1, <2>3, CopyFields
  <2>5. \A u \in uploads : u.run # y
    BY <2>2 DEF RowsOK
  <2>6. \A r \in Requests : pc[r] \in Uploading => target[r] # y
    BY <2>2 DEF RequestOK, Uploading
  <2>7. UNCHANGED <<pc, target, file, seen>>
    BY <2>2 DEF requestVars
  <2>8. \A w \in uploads' : w.run # y => w \in uploads
    BY <2>1, <2>4
  <2>9. ASSUME NEW w \in uploads', w.run = y PROVE \E u \in Of(x) : w = Copy(u, y, ids[u]) /\ w.kind = u.kind
    BY <2>1, <2>4, <2>5, <2>9
  <2>10. ASSUME NEW z \in Runs \ crowded', NEW v \in uploads', NEW w \in uploads', v.run = z, w.run = z,
                v.kind = w.kind, v.kind # "PD"
         PROVE  v = w
    <3>1. CASE z # y
      BY <1>1, <2>8, <2>10, <3>1 DEF SingleFileKinds, Of
    <3>2. CASE z = y
      <4>1. PICK a \in Of(x), b \in Of(x) : /\ v = Copy(a, y, ids[a]) /\ v.kind = a.kind
                                            /\ w = Copy(b, y, ids[b]) /\ w.kind = b.kind
        BY <2>9, <2>10, <3>2
      <4>2. a = b
        BY <2>2, <2>10, <3>2, <4>1 DEF SingleFileKinds
      <4>3. QED BY <4>1, <4>2
    <3>3. QED BY <3>1, <3>2
  <2>11. \A r \in Requests :
           pc[r] \in Uploading /\ file[r][2] # "PD" /\ target[r] \notin crowded' =>
             \A u \in uploads' : u.run = target[r] /\ u.kind = file[r][2] => \E v \in seen[r] : v.id = u.id
    BY <1>1, <2>6, <2>8 DEF ReplacesAll, Of
  <2>12. ReplacesAll'
    <3>1. \A r, s \in Requests :
            /\ pc[r] \in Uploading /\ pc[s] \in Uploading /\ target[r] = target[s]
            /\ file[r][2] = file[s][2] /\ file[r][2] # "PD" /\ target[r] \notin crowded'
            => r = s
      BY <1>1 DEF ReplacesAll
    <3>2. QED BY <2>7, <2>11, <3>1 DEF ReplacesAll, Of
  <2>13. SingleFileKinds'
    BY <2>10 DEF SingleFileKinds, Of
  <2>14. QED BY <2>12, <2>13
<1>4. ASSUME NEW q \in Requests, InsertUpload(q) PROVE ReplacesAll' /\ SingleFileKinds'
  <2> DEFINE new == [id |-> nextId + 1, run |-> target[q], kind |-> file[q][2], path |-> file[q],
                     verdict |-> "none", accepted |-> FALSE, checked |-> {}]
             x == target[q]
             k == file[q][2]
  <2>1. /\ uploads' = {u \in uploads : \A v \in seen[q] : v.id # u.id} \cup {new}
        /\ pc[q] = "inserting" /\ crowded' = crowded /\ EndRequest(q)
    BY <1>4 DEF InsertUpload, historyVars
  <2>2. new.run = x /\ new.kind = k
    OBVIOUS
  <2> HIDE DEF new
  <2>3. pc'[q] = "idle"
    BY <2>1 DEF EndRequest, RequestTypes
  <2>4. \A r \in Requests \ {q} : pc'[r] = pc[r] /\ target'[r] = target[r] /\ file'[r] = file[r] /\ seen'[r] = seen[r]
    BY <2>1 DEF EndRequest, RequestTypes
  <2>5. pc[q] \in Uploading /\ "idle" \notin Uploading
    BY <2>1 DEF Uploading
  <2>6. ASSUME k # "PD", x \notin crowded
        PROVE  /\ \A u \in uploads' : u.run = x /\ u.kind = k => u = new
               /\ \A r \in Requests \ {q} : pc[r] \in Uploading => ~(target[r] = x /\ file[r][2] = k)
    <3>1. \A u \in uploads : u.run = x /\ u.kind = k => \E v \in seen[q] : v.id = u.id
      BY <2>5, <2>6 DEF ReplacesAll, Of
    <3>2. QED BY <2>1, <2>5, <2>6, <3>1 DEF ReplacesAll
  <2>7. ASSUME NEW z \in Runs \ crowded', NEW v \in uploads', NEW w \in uploads', v.run = z, w.run = z,
               v.kind = w.kind, v.kind # "PD"
        PROVE  v = w
    <3>1. CASE v \in uploads /\ w \in uploads
      BY <2>1, <2>7, <3>1 DEF SingleFileKinds, Of
    <3>2. CASE v = new \/ w = new
      BY <2>1, <2>2, <2>6, <2>7, <3>2
    <3>3. QED BY <2>1, <3>1, <3>2
  <2>8. ASSUME NEW r \in Requests, pc'[r] \in Uploading, file'[r][2] # "PD", target'[r] \notin crowded',
               NEW u \in uploads', u.run = target'[r], u.kind = file'[r][2]
        PROVE  \E v \in seen'[r] : v.id = u.id
    <3>1. r # q
      BY <2>3, <2>5, <2>8
    <3>2. u # new
      BY <2>1, <2>2, <2>4, <2>6, <2>8, <3>1
    <3>3. u \in Of(target[r])
      BY <2>1, <2>4, <2>8, <3>1, <3>2 DEF Of
    <3>4. QED BY <2>1, <2>4, <2>8, <3>1, <3>3 DEF ReplacesAll
  <2>9. \A r, s \in Requests :
          /\ pc'[r] \in Uploading /\ pc'[s] \in Uploading /\ target'[r] = target'[s]
          /\ file'[r][2] = file'[s][2] /\ file'[r][2] # "PD" /\ target'[r] \notin crowded'
          => r = s
    <3>1. SUFFICES ASSUME NEW r \in Requests, NEW s \in Requests,
                          pc'[r] \in Uploading, pc'[s] \in Uploading, target'[r] = target'[s],
                          file'[r][2] = file'[s][2], file'[r][2] # "PD", target'[r] \notin crowded'
                   PROVE  r = s
      OBVIOUS
    <3>2. r # q /\ s # q
      BY <2>3, <2>5, <3>1
    <3>3. QED BY <2>1, <2>4, <3>1, <3>2 DEF ReplacesAll
  <2>10. ReplacesAll'
    BY <2>8, <2>9 DEF ReplacesAll, Of
  <2>11. SingleFileKinds'
    BY <2>7 DEF SingleFileKinds, Of
  <2>12. QED BY <2>10, <2>11
<1>5. CASE (\A w \in uploads' : \E u \in uploads : SameRow(w, u)) /\ \A r \in Requests : Uploads(r)
  BY <1>1, <1>5, NoNewRow
<1>6. ASSUME NEW q \in Requests, RemoveUpload(q) \/ StoreVerdicts(q)
      PROVE  \A w \in uploads' : \E u \in uploads : SameRow(w, u)
  <2>1. CASE RemoveUpload(q)
    BY <2>1 DEF RemoveUpload, SameRow
  <2>2. CASE StoreVerdicts(q)
    <3>1. PICK J \in [uploads -> Rows] :
            /\ uploads' = {J[u] : u \in uploads}
            /\ \A u \in uploads : J[u].id = u.id /\ J[u].run = u.run /\ J[u].kind = u.kind /\ J[u].path = u.path
      BY <2>2, VerdictRows
    <3>2. QED BY <3>1 DEF SameRow
  <2>3. QED BY <1>6, <2>1, <2>2
<1>7. ASSUME uploads' = uploads PROVE \A w \in uploads' : \E u \in uploads : SameRow(w, u)
  BY <1>7 DEF SameRow
<1>8. QED BY <1>2, <1>3, <1>4, <1>5, <1>6, <1>7, UploadSteps, RowSteps DEF RowStep

-----------------------------------------------------------------------------
(* Executed runs.                                                          *)

LEMMA InFlightNow ==
  ASSUME NEW q \in Requests, pc[q] \in Changing
  PROVE  InFlight(target[q], Changing)
BY DEF InFlight

\* Only a run that is a draft or has failed gets a new change of its files.
LEMMA ChangesBegin ==
  ASSUME AllTypes, SeenOK, [Next]_vars, NEW x \in Runs, InFlight(x, Changing)'
  PROVE  InFlight(x, Changing) \/ (Uploadable(x) /\ status' = status)
<1> USE DEF AllTypes
<1> DEFINE Goal == InFlight(x, Changing) \/ (Uploadable(x) /\ status' = status)
<1>1. PICK r \in Requests : pc'[r] \in Changing /\ target'[r] = x
  BY DEF InFlight
<1>2. ASSUME pc[r] \in Changing, target[r] = x PROVE Goal
  BY <1>2 DEF InFlight
<1>3. ASSUME UNCHANGED requestVars PROVE Goal
  BY <1>1, <1>2, <1>3 DEF requestVars
<1>4. ASSUME NEW y \in Runs, RunStep(y) PROVE Goal
  BY <1>3, <1>4, RunForward
<1>5. ASSUME NEW q \in Requests, RequestStep(q), q # r PROVE Goal
  BY <1>1, <1>2, <1>5, RequestStepTypes DEF Same
<1>6. ASSUME RequestStep(r) PROVE Goal
  <2>0. status' = status
    BY <1>6, RequestStepTypes
  <2>1. ASSUME EndRequest(r) PROVE FALSE
    BY <1>1, <2>1 DEF EndRequest, Changing, Uploading, RequestTypes
  <2>2. ASSUME NEW y \in Runs, NEW k \in Kinds, NEW n \in Names, NEW c \in Contents, UploadBegin(r, y, k, n, c)
        PROVE  Goal
    BY <1>1, <2>0, <2>2 DEF UploadBegin, RequestTypes
  <2>3. ASSUME DeleteObjects(r) \/ PutObject(r) PROVE Goal
    BY <1>1, <1>2, <2>3 DEF DeleteObjects, PutObject, Changing, Uploading
  <2>4. ASSUME InspectObject(r), ~EndRequest(r) PROVE Goal
    BY <1>1, <1>2, <2>4 DEF InspectObject, Changing, Uploading
  <2>5. ASSUME NEW u \in uploads, RemoveBegin(r, u) PROVE Goal
    BY <1>1, <2>0, <2>5 DEF RemoveBegin, RequestTypes
  <2>6. ASSUME NEW y \in Runs, ValidateBegin(r, y) PROVE FALSE
    BY <1>1, <2>6 DEF ValidateBegin, Goto, Changing, Uploading, RequestTypes
  <2>7. ASSUME Download(r), ~EndRequest(r) PROVE FALSE
    BY <1>1, <2>7 DEF Download, Goto, Changing, Uploading, RequestTypes
  <2>8. ASSUME RefuseOversize(r) \/ InsertUpload(r) \/ RemoveUpload(r) \/ StoreVerdicts(r) \/ AbortRequest(r)
        PROVE  EndRequest(r)
    BY <2>8 DEF RefuseOversize, InsertUpload, RemoveUpload, StoreVerdicts, AbortRequest
  <2>9. QED BY <1>6, <2>1, <2>2, <2>3, <2>4, <2>5, <2>6, <2>7, <2>8 DEF RequestStep
<1>7. QED BY <1>3, <1>4, <1>5, <1>6 DEF Next, vars

LEMMA StatusMoves ==
  ASSUME AllTypes, SeenOK, [Next]_vars, NEW z \in Runs
  PROVE  /\ status[z] = "complete" => status'[z] \in {"complete", "deleted"}
         /\ status[z] = "deleted" => status'[z] = "deleted"
         /\ Executed(z)' => Executed(z) \/ ExecuteRun(z)
<1> USE DEF AllTypes, Executed
<1> DEFINE Goal == /\ status[z] = "complete" => status'[z] \in {"complete", "deleted"}
                   /\ status[z] = "deleted" => status'[z] = "deleted"
                   /\ Executed(z)' => Executed(z) \/ ExecuteRun(z)
<1>1. ASSUME status' = status PROVE Goal
  BY <1>1
<1>2. ASSUME NEW x \in Runs, CreateRun(x) \/ DeleteRun(x) PROVE Goal
  BY <1>2 DEF CreateRun, DeleteRun, GiveUp, Known, StoreTypes
<1>3. ASSUME NEW x \in Runs, ExecuteRun(x) PROVE Goal
  <2>1. status[x] \in {"draft", "failed"} /\ status' = [status EXCEPT ![x] = "active"]
    BY <1>3 DEF ExecuteRun
  <2>2. QED BY <1>3, <2>1 DEF StoreTypes
<1>4. ASSUME NEW x \in Runs, NEW y \in Runs, Rerun(x, y) PROVE Goal
  BY <1>4 DEF Rerun, StoreTypes
<1>5. ASSUME NEW x \in Runs, NEW k \in Kinds, ReadInput(x, k) PROVE Goal
  BY <1>5 DEF ReadInput, GiveUp, StoreTypes
<1>6. ASSUME NEW x \in Runs, EndRun(x) PROVE Goal
  BY <1>6 DEF EndRun, GiveUp, StoreTypes
<1>7. ASSUME NEW q \in Requests, RequestStep(q) PROVE Goal
  BY <1>1, <1>7, RequestStepTypes
<1>8. QED BY <1>1, <1>2, <1>3, <1>4, <1>5, <1>6, <1>7 DEF Next, RunStep, vars, storeVars

LEMMA ExecutedStep ==
  ASSUME AllTypes, SeenOK, ExecutedKept, [Next]_vars
  PROVE  ExecutedKept'
<1>1. SUFFICES ASSUME NEW x \in Runs, x \notin raced', Executed(x)', InFlight(x, Changing)' PROVE FALSE
  BY DEF ExecutedKept
<1>2. x \notin raced
  BY <1>1, Histories
<1>3. ~(Uploadable(x) /\ status' = status)
  BY <1>1 DEF Executed, Uploadable
<1>4. InFlight(x, Changing)
  BY <1>1, <1>3, ChangesBegin
<1>5. ~ExecuteRun(x)
  BY <1>1, <1>4 DEF ExecuteRun
<1>6. Executed(x)
  BY <1>1, <1>5, StatusMoves
<1>7. QED BY <1>2, <1>4, <1>6 DEF ExecutedKept

LEMMA CopiesStep ==
  ASSUME AllTypes, AllTypes', RowsOK, SeenOK, ExecutedKept, CopiesKept, [Next]_vars
  PROVE  CopiesKept'
<1> USE DEF AllTypes
<1> DEFINE Still(z) == status[z] \in {"complete", "deleted"} /\ ~InFlight(z, Changing)
<1>1. ASSUME NEW z \in Runs, Still(z) PROVE Still(z)'
  <2>1. status'[z] \in {"complete", "deleted"}
    BY <1>1, StatusMoves
  <2>2. ~Uploadable(z)
    BY <1>1 DEF Uploadable
  <2>3. QED BY <1>1, <2>1, <2>2, ChangesBegin
<1>2. ASSUME NEW u \in uploads, u.run \notin raced, u.path[1] # u.run PROVE Still(u.path[1]) /\ u.path[1] \in Runs
  <2>1. u.path[1] \in Runs
    BY RowFields DEF StoreTypes, Paths
  <2>2. QED BY <1>2, <2>1 DEF CopiesKept
<1> HIDE DEF Still
<1>3. raced \subseteq raced'
  BY Histories
<1>4. ASSUME NEW w \in uploads', NEW u \in uploads, SameRow(w, u), w.run \notin raced', w.path[1] # w.run
      PROVE  Still(w.path[1])'
  BY <1>1, <1>2, <1>3, <1>4 DEF SameRow
<1>5. SUFFICES ASSUME NEW w \in uploads', w.run \notin raced', w.path[1] # w.run PROVE Still(w.path[1])'
  BY DEF CopiesKept, Still
<1>6. CASE UNCHANGED <<uploads, nextId>>
  BY <1>4, <1>5, <1>6 DEF SameRow
<1>7. ASSUME NEW x \in Runs, NEW y \in Runs, Rerun(x, y) PROVE Still(w.path[1])'
  <2>1. PICK ids \in [Of(x) -> (nextId + 1) .. MaxUploads] :
          /\ uploads' = uploads \cup {Copy(u, y, ids[u]) : u \in Of(x)}
          /\ \A u \in Of(x) : ids[u] \in 1 .. MaxUploads
    BY <1>7, RerunRows
  <2>2. CASE w \in uploads
    BY <1>4, <1>5, <2>2 DEF SameRow
  <2>3. ASSUME NEW u \in Of(x), w = Copy(u, y, ids[u]) PROVE Still(w.path[1])'
    <3>1. u \in uploads /\ u \in Rows /\ u.run = x
      BY DEF Of, StoreTypes
    <3>2. w.run = y /\ w.path = u.path
      BY <2>1, <2>3, <3>1, CopyFields
    <3>3. status[x] = "complete" /\ x \notin raced
      BY <1>5, <1>7, <3>2 DEF Rerun, Rerunnable
    <3>4. Still(x)
      BY <3>3 DEF ExecutedKept, Executed, Still
    <3>5. Still(u.path[1]) /\ u.path[1] \in Runs
      BY <1>2, <3>1, <3>3, <3>4
    <3>6. QED BY <1>1, <3>2, <3>5
  <2>4. QED BY <2>1, <2>2, <2>3
<1>8. ASSUME NEW q \in Requests, InsertUpload(q) PROVE Still(w.path[1])'
  <2> DEFINE new == [id |-> nextId + 1, run |-> target[q], kind |-> file[q][2], path |-> file[q],
                     verdict |-> "none", accepted |-> FALSE, checked |-> {}]
  <2>1. uploads' \subseteq uploads \cup {new} /\ pc[q] = "inserting"
    BY <1>8 DEF InsertUpload
  <2>2. new.path[1] = new.run
    BY <2>1 DEF RequestOK, Uploading
  <2> HIDE DEF new
  <2>3. QED BY <1>4, <1>5, <2>1, <2>2 DEF SameRow
<1>9. ASSUME NEW q \in Requests, RemoveUpload(q) PROVE Still(w.path[1])'
  <2>1. w \in uploads
    BY <1>9 DEF RemoveUpload
  <2>2. QED BY <1>4, <1>5, <2>1 DEF SameRow
<1>10. ASSUME NEW q \in Requests, StoreVerdicts(q) PROVE Still(w.path[1])'
  <2>1. PICK J \in [uploads -> Rows] :
          /\ uploads' = {J[u] : u \in uploads}
          /\ \A u \in uploads : J[u].id = u.id /\ J[u].run = u.run /\ J[u].kind = u.kind /\ J[u].path = u.path
    BY <1>10, VerdictRows
  <2>2. PICK u \in uploads : w = J[u]
    BY <2>1
  <2>3. QED BY <1>4, <1>5, <2>1, <2>2 DEF SameRow
<1>11. QED BY <1>6, <1>7, <1>8, <1>9, <1>10, RowSteps DEF RowStep

\* The rows of a complete run that was not raced are neither added to nor removed.
LEMMA CompleteStep ==
  ASSUME AllTypes, RowsOK, SeenOK, ExecutedKept, [Next]_vars, NEW x \in Runs \ raced, status[x] = "complete"
  PROVE  {u.id : u \in {v \in uploads' : v.run = x}} = {u.id : u \in Of(x)}
<1> USE DEF AllTypes
<1>1. \A q \in Requests : pc[q] \in Changing => target[q] # x
  BY DEF ExecutedKept, Executed, InFlight
<1>2. ASSUME NEW q \in Requests, pc[q] \in Changing, NEW u \in uploads, NEW v \in seen[q], v.id = u.id PROVE u.run # x
  BY <1>1, <1>2 DEF SeenOK
<1>3. ASSUME \A u \in uploads \cup uploads' : u.run = x => (u \in uploads <=> u \in uploads')
      PROVE  {u.id : u \in {v \in uploads' : v.run = x}} = {u.id : u \in Of(x)}
  <2>1. {v \in uploads' : v.run = x} = Of(x)
    BY <1>3 DEF Of
  <2>2. QED BY <2>1
<1>4. ASSUME NEW z \in Runs, NEW y \in Runs, Rerun(z, y)
      PROVE  \A u \in uploads \cup uploads' : u.run = x => (u \in uploads <=> u \in uploads')
  <2>1. PICK ids \in [Of(z) -> (nextId + 1) .. MaxUploads] :
          /\ uploads' = uploads \cup {Copy(u, y, ids[u]) : u \in Of(z)}
          /\ \A u \in Of(z) : ids[u] \in 1 .. MaxUploads
    BY <1>4, RerunRows
  <2>2. y # x
    BY <1>4 DEF Rerun
  <2>3. \A u \in Of(z) : Copy(u, y, ids[u]).run = y
    BY <2>1, CopyFields DEF Of, StoreTypes
  <2>4. QED BY <2>1, <2>2, <2>3
<1>5. ASSUME NEW q \in Requests, InsertUpload(q)
      PROVE  \A u \in uploads \cup uploads' : u.run = x => (u \in uploads <=> u \in uploads')
  <2> DEFINE new == [id |-> nextId + 1, run |-> target[q], kind |-> file[q][2], path |-> file[q],
                     verdict |-> "none", accepted |-> FALSE, checked |-> {}]
  <2>1. /\ uploads' = {u \in uploads : \A v \in seen[q] : v.id # u.id} \cup {new}
        /\ pc[q] \in Changing
    BY <1>5 DEF InsertUpload, Changing, Uploading
  <2>2. new.run = target[q]
    OBVIOUS
  <2> HIDE DEF new
  <2>3. QED BY <1>1, <1>2, <2>1, <2>2
<1>6. ASSUME NEW q \in Requests, RemoveUpload(q)
      PROVE  \A u \in uploads \cup uploads' : u.run = x => (u \in uploads <=> u \in uploads')
  <2>1. /\ uploads' = {u \in uploads : \A v \in seen[q] : v.id # u.id} /\ pc[q] \in Changing
    BY <1>6 DEF RemoveUpload, Changing
  <2>2. QED BY <1>2, <2>1
<1>7. ASSUME NEW q \in Requests, StoreVerdicts(q)
      PROVE  {u.id : u \in {v \in uploads' : v.run = x}} = {u.id : u \in Of(x)}
  <2>1. PICK J \in [uploads -> Rows] :
          /\ uploads' = {J[u] : u \in uploads}
          /\ \A u \in uploads : J[u].id = u.id /\ J[u].run = u.run
    BY <1>7, VerdictRows
  <2>2. ASSUME NEW u \in Of(x) PROVE \E w \in {v \in uploads' : v.run = x} : w.id = u.id
    BY <2>1 DEF Of
  <2>3. ASSUME NEW w \in uploads', w.run = x PROVE \E u \in Of(x) : w.id = u.id
    BY <2>1, <2>3 DEF Of
  <2>4. QED BY <2>2, <2>3
<1>8. QED BY <1>3, <1>4, <1>5, <1>6, <1>7, RowSteps DEF RowStep

-----------------------------------------------------------------------------
(* What guards a row.                                                      *)

\* What a validation has read stays read; what it reads is the present object.
Reads(r) == pc'[r] \in Validating =>
  \/ got'[r] = NothingRead
  \/ /\ pc[r] \in Validating /\ seen'[r] = seen[r]
     /\ \A v \in seen[r] : got'[r][v.id] = got[r][v.id] \/ got'[r][v.id] = objects[v.path]

LEMMA ReadSteps ==
  ASSUME AllTypes, SeenOK, [Next]_vars, NEW r \in Requests
  PROVE  Reads(r)
<1> USE DEF AllTypes
<1>1. ASSUME UNCHANGED requestVars PROVE Reads(r)
  BY <1>1 DEF requestVars, Reads
<1>2. ASSUME NEW x \in Runs, RunStep(x) PROVE Reads(r)
  BY <1>1, <1>2, RunForward
<1>3. ASSUME NEW q \in Requests, RequestStep(q), q # r PROVE Reads(r)
  BY <1>3, RequestStepTypes DEF Same, Reads
<1>4. ASSUME RequestStep(r) PROVE Reads(r)
  <2>1. ASSUME pc'[r] \notin Validating PROVE Reads(r)
    BY <2>1 DEF Reads
  <2>2. ASSUME NEW x \in Runs, NEW k \in Kinds, NEW n \in Names, NEW c \in Contents, UploadBegin(r, x, k, n, c)
        PROVE  Reads(r)
    BY <2>1, <2>2 DEF UploadBegin, Goto, Validating, RequestTypes
  <2>3. ASSUME DeleteObjects(r) \/ PutObject(r) PROVE Reads(r)
    BY <2>1, <2>3 DEF DeleteObjects, PutObject, Goto, Validating, RequestTypes
  <2>4. ASSUME InspectObject(r), ~EndRequest(r) PROVE Reads(r)
    BY <2>1, <2>4 DEF InspectObject, Goto, Validating, RequestTypes
  <2>5. ASSUME NEW u \in uploads, RemoveBegin(r, u) PROVE Reads(r)
    BY <2>1, <2>5 DEF RemoveBegin, Goto, Validating, RequestTypes
  <2>6. ASSUME NEW x \in Runs, ValidateBegin(r, x) PROVE Reads(r)
    BY <2>6 DEF ValidateBegin, Reads, RequestOK, Validating
  <2>7. ASSUME Download(r), ~EndRequest(r) PROVE Reads(r)
    <3> DEFINE u == CHOOSE v \in Unread(r) : \A w \in Unread(r) : v.id <= w.id
    <3>1. /\ pc[r] \in Validating /\ seen' = seen
          /\ got' = [got EXCEPT ![r][u.id] = objects[u.path]]
      BY <2>7 DEF Download, Validating
    <3>2. u \in seen[r]
      BY <2>7, NextUnread DEF Download, Unread
    <3> HIDE DEF u
    <3>3. got'[r] = [got[r] EXCEPT ![u.id] = objects[u.path]]
      BY <3>1 DEF RequestTypes
    <3>4. ASSUME NEW v \in seen[r] PROVE got'[r][v.id] = got[r][v.id] \/ got'[r][v.id] = objects[v.path]
      <4>1. v.id \in 1 .. MaxUploads /\ got[r] \in [1 .. MaxUploads -> Contents \cup {NoObject}]
        BY RowFields DEF RequestTypes
      <4>2. CASE v.id = u.id
        <5>1. v = u
          BY <3>2, <4>2 DEF SeenOK
        <5>2. QED BY <3>3, <4>1, <5>1
      <4>3. CASE v.id # u.id
        BY <3>3, <4>1, <4>3
      <4>4. QED BY <4>2, <4>3
    <3>5. QED BY <3>1, <3>4 DEF Reads
  <2>8. ASSUME RefuseOversize(r) \/ InsertUpload(r) \/ RemoveUpload(r) \/ StoreVerdicts(r) \/ AbortRequest(r)
        PROVE  EndRequest(r)
    BY <2>8 DEF RefuseOversize, InsertUpload, RemoveUpload, StoreVerdicts, AbortRequest
  <2>9. ASSUME EndRequest(r) PROVE Reads(r)
    BY <2>1, <2>9 DEF EndRequest, Validating, RequestTypes
  <2>10. QED BY <1>4, <2>2, <2>3, <2>4, <2>5, <2>6, <2>7, <2>8, <2>9 DEF RequestStep
<1>5. QED BY <1>1, <1>2, <1>3, <1>4 DEF Next, vars

\* Only delete_object dooms a row, and only the end of a request takes back that it has put an object.
Dooms(r) == pc'[r] \in Dooming => pc[r] \in Dooming /\ seen'[r] = seen[r]
Puts(r) == pc[r] \in Putting => pc'[r] \in Putting /\ file'[r] = file[r]

LEMMA DoomSteps ==
  ASSUME AllTypes, SeenOK, [Next]_vars, NEW r \in Requests
  PROVE  /\ Dooms(r) \/ DeleteObjects(r)
         /\ Puts(r) \/ EndRequest(r)
<1> USE DEF AllTypes
<1>1. ASSUME UNCHANGED requestVars PROVE Dooms(r) /\ Puts(r)
  BY <1>1 DEF requestVars, Dooms, Puts
<1>2. ASSUME NEW x \in Runs, RunStep(x) PROVE Dooms(r) /\ Puts(r)
  BY <1>1, <1>2, RunForward
<1>3. ASSUME NEW q \in Requests, RequestStep(q), q # r PROVE Dooms(r) /\ Puts(r)
  BY <1>3, RequestStepTypes DEF Same, Dooms, Puts
<1>4. ASSUME RequestStep(r)
      PROVE  (Dooms(r) \/ DeleteObjects(r)) /\ (Puts(r) \/ EndRequest(r))
  <2> USE DEF Dooms, Puts, Dooming, Putting
  <2>2. ASSUME NEW x \in Runs, NEW k \in Kinds, NEW n \in Names, NEW c \in Contents, UploadBegin(r, x, k, n, c)
        PROVE  Dooms(r) /\ Puts(r)
    BY <2>2 DEF UploadBegin, Goto, RequestTypes
  <2>3. ASSUME DeleteObjects(r) PROVE Puts(r)
    BY <2>3 DEF DeleteObjects
  <2>4. ASSUME PutObject(r) PROVE Dooms(r) /\ Puts(r)
    BY <2>4 DEF PutObject
  <2>5. ASSUME InspectObject(r), ~EndRequest(r) PROVE Dooms(r) /\ Puts(r)
    BY <2>5 DEF InspectObject, Goto, RequestTypes
  <2>6. ASSUME NEW u \in uploads, RemoveBegin(r, u) PROVE Dooms(r) /\ Puts(r)
    BY <2>6 DEF RemoveBegin, Goto, RequestTypes
  <2>7. ASSUME NEW x \in Runs, ValidateBegin(r, x) PROVE Dooms(r) /\ Puts(r)
    BY <2>7 DEF ValidateBegin, Goto, RequestTypes
  <2>8. ASSUME Download(r), ~EndRequest(r) PROVE Dooms(r) /\ Puts(r)
    BY <2>8 DEF Download, Goto, RequestTypes
  <2>9. ASSUME RefuseOversize(r) \/ InsertUpload(r) \/ RemoveUpload(r) \/ StoreVerdicts(r) \/ AbortRequest(r)
        PROVE  EndRequest(r)
    BY <2>9 DEF RefuseOversize, InsertUpload, RemoveUpload, StoreVerdicts, AbortRequest
  <2>10. ASSUME EndRequest(r) PROVE Dooms(r)
    BY <2>10 DEF EndRequest, RequestTypes
  <2> HIDE DEF Dooms, Puts
  <2>11. QED BY <1>4, <2>2, <2>3, <2>4, <2>5, <2>6, <2>7, <2>8, <2>9, <2>10 DEF RequestStep
<1>5. QED BY <1>1, <1>2, <1>3, <1>4 DEF Next, vars

\* While the object of a row stays, so does what validations know of it.
LEMMA FreshStep ==
  ASSUME AllTypes, AllTypes', SeenOK, [Next]_vars, NEW u \in uploads, Fresh(u), objects'[u.path] = objects[u.path]
  PROVE  Fresh(u)'
<1> USE DEF AllTypes
<1>1. SUFFICES ASSUME NEW q \in Requests, pc'[q] \in Validating, \E v \in seen'[q] : v.id = u.id,
                      NEW v \in seen'[q], v.path = u.path
               PROVE  got'[q][v.id] \in {NoObject, objects[u.path]}
  BY DEF Fresh
<1>2. v.id \in 1 .. MaxUploads
  BY RowFields DEF RequestTypes
<1>3. CASE got'[q] = NothingRead
  BY <1>2, <1>3 DEF NothingRead
<1>4. CASE got'[q] # NothingRead
  <2>1. /\ pc[q] \in Validating /\ seen'[q] = seen[q]
        /\ \A w \in seen[q] : got'[q][w.id] = got[q][w.id] \/ got'[q][w.id] = objects[w.path]
    BY <1>1, <1>4, ReadSteps DEF Reads
  <2>2. got[q][v.id] \in {NoObject, objects[u.path]}
    BY <1>1, <2>1 DEF Fresh
  <2>3. QED BY <1>1, <2>1, <2>2
<1>5. QED BY <1>3, <1>4

\* A row stays guarded when its object stays, no upload of the path ends and its guard stays.
LEMMA QuietStep ==
  ASSUME AllTypes, AllTypes', SeenOK, [Next]_vars, NEW u \in uploads, Guarded(u),
         u \in uploads', objects'[u.path] = objects[u.path], PutAt(u.path) => PutAt(u.path)',
         \A w \in uploads : w.path = u.path /\ ~Doomed(w) => w \in uploads' /\ ~Doomed(w)'
  PROVE  Guarded(u)'
<1>1. CASE Vouched(u)
  <2>1. Vouched(u)'
    BY <1>1 DEF Vouched
  <2>2. QED BY <2>1 DEF Guarded
<1>2. CASE PutAt(u.path)
  BY <1>2 DEF Guarded
<1>3. CASE Pending(u)
  <2>1. Pending(u)'
    BY <1>3, FreshStep DEF Pending
  <2>2. QED BY <2>1 DEF Guarded
<1>4. ASSUME NEW w \in Of(u.run), Guards(w, u) PROVE Guarded(u)'
  <2>1. w \in uploads /\ w.run = u.run /\ w.path = u.path /\ w.id > u.id /\ Pending(w) /\ ~Doomed(w)
    BY <1>4 DEF Of, Guards
  <2>2. Pending(w)'
    BY <2>1, FreshStep DEF Pending
  <2>3. w \in Of(u.run)' /\ Guards(w, u)'
    BY <2>1, <2>2 DEF Of, Guards
  <2>4. QED BY <2>3 DEF Guarded
<1>5. QED BY <1>1, <1>2, <1>3, <1>4 DEF Guarded

LEMMA DoomedStep ==
  ASSUME NEW w, ~Doomed(w), \A r \in Requests : Dooms(r)
  PROVE  ~Doomed(w)'
BY DEF Doomed, Dooms

LEMMA PutStep ==
  ASSUME NEW p, PutAt(p), NEW q \in Requests, pc[q] \notin Putting \/ file[q] # p,
         \A r \in Requests \ {q} : Puts(r)
  PROVE  PutAt(p)'
BY DEF PutAt, Puts

\* An upload to the path of a row that is not a copy of a raced run is one to the run of the row.
LEMMA UploadOfRow ==
  ASSUME AllTypes, CopiesKept, NEW u \in uploads, u.run \notin raced,
         NEW q \in Requests, pc[q] \in Uploading, file[q] = u.path
  PROVE  target[q] = u.run
<1>1. target[q] = u.path[1]
  BY DEF AllTypes, RequestOK
<1>2. InFlight(u.path[1], Changing)
  BY <1>1 DEF InFlight, Changing
<1>3. QED BY <1>1, <1>2 DEF CopiesKept

\* A commit of validate_files.
LEMMA VerdictStep ==
  ASSUME AllTypes, AllTypes', RowsOK, SeenOK, SingleFileKinds, [Next]_vars, NEW q \in Requests, StoreVerdicts(q),
         NEW J \in [uploads -> Rows],
         uploads' = {J[z] : z \in uploads},
         \A z \in uploads :
           /\ J[z].id = z.id /\ J[z].run = z.run /\ J[z].kind = z.kind /\ J[z].path = z.path
           /\ z.checked \subseteq J[z].checked
           /\ Passes(z, J[z]) =>
                /\ \E v \in seen[q] : v.id = z.id
                /\ got[q][z.id] \in J[z].checked
                /\ z.kind \notin Blamed => got[q][z.id] \notin Blocked,
         (\E w \in uploads : Passes(w, J[w])) =>
           \A z \in uploads, v \in seen[q] :
             v.id = z.id /\ z.kind \notin Blamed /\ got[q][z.id] \notin Blocked
               => got[q][z.id] \in J[z].checked,
         NEW u \in uploads, u.run \notin crowded, Guarded(u)
  PROVE  Guarded(J[u])'
<1> USE DEF AllTypes
<1>1. /\ pc[q] = "judging" /\ objects' = objects /\ EndRequest(q)
  BY DEF StoreVerdicts
<1>2. \A z \in uploads : J[z] \in uploads' /\ J[z].verdict \in Verdicts
  BY RowFields
<1>3. ASSUME NEW z \in uploads, NEW v \in seen[q], v.id = z.id
      PROVE  v.path = z.path /\ v.run = z.run /\ z.run = target[q] /\ got[q][z.id] # NoObject
  BY <1>1, <1>3 DEF SeenOK, RequestOK
\* Only a passing verdict ends that a row is pending; the row it judges had the present object.
<1>4. ASSUME NEW z \in uploads, Pending(z), ~Passes(z, J[z]) PROVE Pending(J[z])'
  <2>1. Fresh(z)'
    BY <1>1, <1>4, FreshStep DEF Pending
  <2>2. Fresh(J[z])'
    BY <2>1 DEF Fresh
  <2>3. J[z].verdict \in {"none", "error"}
    BY <1>2, <1>4 DEF Pending, Passes, Verdicts
  <2>4. QED BY <2>2, <2>3 DEF Pending
<1>5. ASSUME NEW z \in uploads, Pending(z), NEW w \in uploads, w.path = z.path, NEW v \in seen[q], v.id = z.id,
             NEW t \in seen[q], t.id = w.id
      PROVE  got[q][w.id] = objects[z.path]
  <2>1. t.path = z.path /\ got[q][w.id] # NoObject
    BY <1>3, <1>5
  <2>2. got[q][t.id] \in {NoObject, objects[z.path]}
    BY <1>1, <1>5, <2>1 DEF Pending, Fresh, Validating
  <2>3. QED BY <1>5, <2>1, <2>2
<1>6. ASSUME objects[u.path] \in J[u].checked PROVE Guarded(J[u])'
  BY <1>1, <1>6 DEF Guarded, Vouched
<1>7. CASE Vouched(u)
  <2>1. Vouched(J[u])'
    BY <1>1, <1>7 DEF Vouched
  <2>2. QED BY <2>1 DEF Guarded
<1>8. CASE PutAt(u.path)
  <2>1. pc[q] \notin Putting
    BY <1>1 DEF Putting
  <2>2. \A r \in Requests \ {q} : Puts(r)
    BY <1>1 DEF EndRequest, RequestTypes, Puts
  <2>3. PutAt(u.path)'
    BY <1>8, <2>1, <2>2, PutStep
  <2>4. QED BY <2>3 DEF Guarded, PutAt
<1>9. CASE Pending(u)
  <2>1. CASE Passes(u, J[u])
    <3>1. PICK v \in seen[q] : v.id = u.id
      BY <2>1
    <3>2. got[q][u.id] = objects[u.path]
      BY <1>5, <1>9, <3>1
    <3>3. QED BY <1>6, <2>1, <3>2
  <2>2. CASE ~Passes(u, J[u])
    BY <1>4, <1>9, <2>2 DEF Guarded
  <2>3. QED BY <2>1, <2>2
<1>10. ASSUME NEW w \in Of(u.run), Guards(w, u) PROVE Guarded(J[u])'
  <2>1. w \in uploads /\ w.run = u.run /\ w.path = u.path /\ w.id > u.id /\ Pending(w) /\ ~Doomed(w)
    BY <1>10 DEF Of, Guards
  <2>2. CASE Passes(w, J[w])
    <3>1. PICK v \in seen[q] : v.id = w.id
      BY <2>1, <2>2
    <3>2. w.run = target[q] /\ got[q][w.id] = objects[w.path]
      BY <1>3, <1>5, <2>1, <3>1
    <3>3. PICK t \in seen[q] : t.id = u.id
      <4>1. u \in Of(target[q]) /\ u.id < v.id
        <5>1. u.id \in Nat /\ w.id \in Nat
          BY <2>1, IdsAreNumbers
        <5>2. QED BY <2>1, <3>1, <3>2, <5>1 DEF Of
      <4>2. QED BY <1>1, <4>1 DEF SeenOK, Validating
    <3>4. got[q][u.id] = objects[u.path]
      BY <1>5, <2>1, <3>1, <3>3
    <3>5. w.kind = "PD" /\ u.kind = "PD"
      <4>1. u.kind = w.kind /\ u # w
        <5>1. u.id \in Nat /\ w.id \in Nat
          BY <2>1, IdsAreNumbers
        <5>2. u.kind = w.kind
          BY <2>1 DEF RowsOK
        <5>3. QED BY <2>1, <5>1, <5>2
      <4>2. u.run \in Runs \ crowded /\ u \in Of(u.run) /\ w \in Of(u.run)
        BY <2>1, RowFields DEF StoreTypes, Of
      <4>3. QED BY <4>1, <4>2 DEF SingleFileKinds
    <3>6. w.kind \notin Blamed /\ u.kind \notin Blamed
      BY <3>5
    <3>7. got[q][u.id] \notin Blocked
      BY <2>1, <2>2, <3>2, <3>4, <3>6
    <3>8. got[q][u.id] \in J[u].checked
      BY <2>1, <2>2, <3>3, <3>6, <3>7
    <3>9. QED BY <1>6, <3>4, <3>8
  <2>3. CASE ~Passes(w, J[w])
    <3>1. Pending(J[w])'
      BY <1>4, <2>1, <2>3
    <3>2. \A r \in Requests : Dooms(r)
      BY <1>1 DEF EndRequest, RequestTypes, Dooms, Dooming
    <3>3. ~Doomed(w)'
      BY <2>1, <3>2, DoomedStep
    <3>4. ~Doomed(J[w])'
      BY <2>1, <3>3 DEF Doomed
    <3>5. J[w] \in Of(J[u].run)' /\ Guards(J[w], J[u])'
      BY <1>2, <2>1, <3>1, <3>4 DEF Of, Guards
    <3>6. QED BY <3>5 DEF Guarded
  <2>4. QED BY <2>2, <2>3
<1>11. QED BY <1>7, <1>8, <1>9, <1>10 DEF Guarded

LEMMA GuardStep ==
  ASSUME AllTypes, AllTypes', RowsOK, SeenOK, SingleFileKinds, CopiesKept, RowsGuarded, UsedOK, [Next]_vars
  PROVE  RowsGuarded'
<1> USE DEF AllTypes
<1>1. Disturbed \subseteq Disturbed' /\ raced \subseteq Disturbed /\ crowded \subseteq Disturbed
  BY Histories DEF Disturbed
<1>2. SUFFICES ASSUME NEW n \in uploads', n.run \notin Disturbed' PROVE Guarded(n)'
  BY DEF RowsGuarded
<1>3. \A u \in uploads : u.run \notin Disturbed' => Guarded(u) /\ u.run \notin raced /\ u.run \notin crowded
  BY <1>1 DEF RowsGuarded
<1>4. ASSUME n \in uploads, uploads' = uploads, objects'[n.path] = objects[n.path],
             PutAt(n.path) => PutAt(n.path)', \A r \in Requests : Dooms(r)
      PROVE  Guarded(n)'
  BY <1>2, <1>3, <1>4, QuietStep, DoomedStep
<1>5. ASSUME uploads' = uploads, objects' = objects, \A r \in Requests : Dooms(r) /\ Puts(r)
      PROVE  Guarded(n)'
  <2>1. PutAt(n.path) => PutAt(n.path)'
    BY <1>5 DEF PutAt, Puts
  <2>2. QED BY <1>4, <1>5, <2>1
<1>6. ASSUME NEW q \in Requests, EndRequest(q)
      PROVE  /\ \A r \in Requests : Dooms(r)
             /\ \A r \in Requests \ {q} : Puts(r)
  BY <1>6 DEF EndRequest, RequestTypes, Dooms, Dooming, Puts
<1>7. ASSUME UNCHANGED <<uploads, objects, requestVars>> PROVE Guarded(n)'
  BY <1>5, <1>7 DEF requestVars, Dooms, Puts
<1>8. ASSUME NEW x \in Runs, CreateRun(x) \/ DeleteRun(x) \/ ExecuteRun(x) \/ EndRun(x) PROVE Guarded(n)'
  BY <1>7, <1>8 DEF CreateRun, DeleteRun, ExecuteRun, EndRun
<1>9. ASSUME NEW x \in Runs, NEW k \in Kinds, ReadInput(x, k) PROVE Guarded(n)'
  BY <1>7, <1>9 DEF ReadInput
<1>10. ASSUME NEW q \in Requests, NEW x \in Runs, NEW k \in Kinds, NEW m \in Names, NEW c \in Contents,
              UploadBegin(q, x, k, m, c)
       PROVE  Guarded(n)'
  <2>1. uploads' = uploads /\ objects' = objects /\ pc[q] = "idle" /\ pc' = [pc EXCEPT ![q] = "replacing"]
    BY <1>10 DEF UploadBegin, Goto, storeVars
  <2>2. \A r \in Requests \ {q} : Same(r)
    BY <1>10, RequestStepTypes DEF RequestStep
  <2>3. \A r \in Requests : Dooms(r) /\ Puts(r)
    BY <2>1, <2>2 DEF Same, Dooms, Dooming, Puts, Putting, RequestTypes
  <2>4. QED BY <1>5, <2>1, <2>3
<1>11. ASSUME NEW q \in Requests, NEW u \in uploads, RemoveBegin(q, u) PROVE Guarded(n)'
  <2>1. uploads' = uploads /\ objects' = objects /\ pc[q] = "idle" /\ pc' = [pc EXCEPT ![q] = "removing"]
    BY <1>11 DEF RemoveBegin, Goto, storeVars
  <2>2. \A r \in Requests \ {q} : Same(r)
    BY <1>11, RequestStepTypes DEF RequestStep
  <2>3. \A r \in Requests : Dooms(r) /\ Puts(r)
    BY <2>1, <2>2 DEF Same, Dooms, Dooming, Puts, Putting, RequestTypes
  <2>4. QED BY <1>5, <2>1, <2>3
<1>12. ASSUME NEW q \in Requests, NEW x \in Runs, ValidateBegin(q, x) PROVE Guarded(n)'
  <2>1. uploads' = uploads /\ objects' = objects /\ pc[q] = "idle" /\ pc' = [pc EXCEPT ![q] = "reading"]
    BY <1>12 DEF ValidateBegin, Goto, storeVars
  <2>2. \A r \in Requests \ {q} : Same(r)
    BY <1>12, RequestStepTypes DEF RequestStep
  <2>3. \A r \in Requests : Dooms(r) /\ Puts(r)
    BY <2>1, <2>2 DEF Same, Dooms, Dooming, Puts, Putting, RequestTypes
  <2>4. QED BY <1>5, <2>1, <2>3
<1>13. ASSUME NEW q \in Requests, Download(q) PROVE Guarded(n)'
  <2>1. uploads' = uploads /\ objects' = objects /\ pc[q] = "reading"
    BY <1>13 DEF Download, storeVars
  <2>2. \A r \in Requests \ {q} : Same(r)
    BY <1>13, RequestStepTypes DEF RequestStep
  <2>3. \A r \in Requests : Dooms(r)
    <3>1. Dooms(q)
      BY <2>1, DoomSteps DEF DeleteObjects
    <3>2. QED BY <2>2, <3>1 DEF Same, Dooms
  <2>4. \A r \in Requests : Puts(r)
    BY <2>1, <2>2 DEF Same, Puts, Putting
  <2>5. QED BY <1>5, <2>1, <2>3, <2>4
<1>14. ASSUME NEW q \in Requests, DeleteObjects(q) PROVE Guarded(n)'
  <2>1. /\ uploads' = uploads /\ pc[q] \in {"replacing", "removing"} /\ seen' = seen
        /\ objects' = [p \in Paths |-> IF \E u \in seen[q] : u.path = p THEN NoObject ELSE objects[p]]
    BY <1>14 DEF DeleteObjects
  <2>2. n.path \in Paths
    BY RowFields DEF StoreTypes
  <2>3. CASE \E u \in seen[q] : u.path = n.path
    <3>1. objects'[n.path] = NoObject
      BY <2>1, <2>2, <2>3
    <3>2. QED BY <3>1 DEF Guarded, Vouched
  <2>4. CASE ~ \E u \in seen[q] : u.path = n.path
    <3>1. objects'[n.path] = objects[n.path]
      BY <2>1, <2>2, <2>4
    <3>2. \A r \in Requests \ {q} : Same(r)
      BY <1>14, RequestStepTypes DEF RequestStep
    <3>3. PutAt(n.path) => PutAt(n.path)'
      BY <2>1, <3>2 DEF Same, PutAt, Putting
    <3>4. ASSUME NEW w \in uploads, w.path = n.path, ~Doomed(w) PROVE ~Doomed(w)'
      <4>1. \A v \in seen[q] : v.id # w.id
        BY <2>4, <3>4 DEF SeenOK
      <4>2. QED BY <2>1, <3>2, <3>4, <4>1 DEF Doomed, Same
    <3>5. QED BY <1>2, <1>3, <2>1, <3>1, <3>3, <3>4, QuietStep
  <2>5. QED BY <2>3, <2>4
<1>15. ASSUME NEW q \in Requests, PutObject(q) PROVE Guarded(n)'
  <2>1. /\ uploads' = uploads /\ pc[q] = "putting" /\ pc' = [pc EXCEPT ![q] = "stored"]
        /\ objects' = [objects EXCEPT ![file[q]] = body[q]] /\ file' = file /\ seen' = seen
    BY <1>15 DEF PutObject, Goto
  <2>2. CASE n.path = file[q]
    <3>1. PutAt(n.path)'
      BY <2>1, <2>2 DEF PutAt, Putting, RequestTypes
    <3>2. QED BY <3>1 DEF Guarded
  <2>3. CASE n.path # file[q]
    <3>1. n.path \in Paths
      BY RowFields DEF StoreTypes
    <3>2. objects'[n.path] = objects[n.path]
      BY <2>1, <2>3, <3>1 DEF StoreTypes
    <3>3. \A r \in Requests : Dooms(r) /\ Puts(r)
      BY <2>1 DEF Dooms, Dooming, Puts, Putting, RequestTypes
    <3>4. PutAt(n.path) => PutAt(n.path)'
      BY <3>3 DEF PutAt, Puts
    <3>5. QED BY <1>4, <2>1, <3>2, <3>3, <3>4
  <2>4. QED BY <2>2, <2>3
<1>16. ASSUME NEW q \in Requests, RefuseOversize(q) PROVE Guarded(n)'
  <2>1. /\ uploads' = uploads /\ objects' = [objects EXCEPT ![file[q]] = NoObject] /\ EndRequest(q)
    BY <1>16 DEF RefuseOversize
  <2>2. n.path \in Paths
    BY RowFields DEF StoreTypes
  <2>3. CASE n.path = file[q]
    <3>1. objects'[n.path] = NoObject
      BY <2>1, <2>2, <2>3 DEF StoreTypes
    <3>2. QED BY <3>1 DEF Guarded, Vouched
  <2>4. CASE n.path # file[q]
    <3>1. objects'[n.path] = objects[n.path]
      BY <2>1, <2>2, <2>4 DEF StoreTypes
    <3>2. PutAt(n.path) => PutAt(n.path)'
      BY <1>6, <2>1, <2>4, PutStep
    <3>3. QED BY <1>4, <1>6, <2>1, <3>1, <3>2
  <2>5. QED BY <2>3, <2>4
\* A request that gives up what it has put makes its run one of the excluded.
<1>17. ASSUME NEW q \in Requests, EndRequest(q), uploads' = uploads, objects' = objects,
              pc[q] \in Putting => target[q] \in abandoned'
       PROVE  Guarded(n)'
  <2>1. pc[q] \in Putting => file[q] # n.path
    <3>1. SUFFICES ASSUME pc[q] \in Putting, file[q] = n.path PROVE FALSE
      OBVIOUS
    <3>2. target[q] = n.run
      <4>1. n.run \notin raced /\ n \in uploads /\ pc[q] \in Uploading
        BY <1>2, <1>3, <1>17, <3>1 DEF Putting, Uploading
      <4>2. QED BY <3>1, <4>1, UploadOfRow
    <3>3. QED BY <1>2, <1>17, <3>1, <3>2 DEF Disturbed
  <2>2. PutAt(n.path) => PutAt(n.path)'
    BY <1>6, <1>17, <2>1, PutStep
  <2>3. QED BY <1>4, <1>6, <1>17, <2>2
<1>18. ASSUME NEW q \in Requests, InspectObject(q) PROVE Guarded(n)'
  <2>1. uploads' = uploads /\ objects' = objects /\ pc[q] = "stored"
    BY <1>18 DEF InspectObject, storeVars
  <2>2. CASE EndRequest(q) /\ abandoned' = abandoned \cup {target[q]}
    BY <1>17, <2>1, <2>2
  <2>3. CASE pc' = [pc EXCEPT ![q] = "inserting"] /\ UNCHANGED <<target, file, body, seen, got, abandoned>>
    <3>1. \A r \in Requests : Dooms(r) /\ Puts(r)
      BY <2>1, <2>3 DEF Dooms, Dooming, Puts, Putting, RequestTypes
    <3>2. QED BY <1>5, <2>1, <3>1
  <2>4. QED BY <1>18, <2>2, <2>3 DEF InspectObject, Goto
<1>19. ASSUME NEW q \in Requests, AbortRequest(q) PROVE Guarded(n)'
  BY <1>17, <1>19 DEF AbortRequest, Putting, storeVars
\* Rows that go are doomed and guard nobody.
<1>20. ASSUME NEW q \in Requests, pc[q] \in Dooming, EndRequest(q), objects' = objects, n \in uploads,
              {u \in uploads : \A v \in seen[q] : v.id # u.id} \subseteq uploads',
              pc[q] \in Putting => file[q] # n.path
       PROVE  Guarded(n)'
  <2>1. \A w \in uploads : ~Doomed(w) => w \in uploads' /\ ~Doomed(w)'
    <3>1. SUFFICES ASSUME NEW w \in uploads, ~Doomed(w) PROVE w \in uploads' /\ ~Doomed(w)'
      OBVIOUS
    <3>2. \A v \in seen[q] : v.id # w.id
      BY <1>20, <3>1 DEF Doomed
    <3>3. QED BY <1>6, <1>20, <3>1, <3>2, DoomedStep
  <2>2. PutAt(n.path) => PutAt(n.path)'
    BY <1>6, <1>20, PutStep
  <2>3. QED BY <1>2, <1>3, <1>20, <2>1, <2>2, QuietStep
<1>21. ASSUME NEW q \in Requests, RemoveUpload(q) PROVE Guarded(n)'
  BY <1>20, <1>21 DEF RemoveUpload, Dooming, Putting
<1>22. ASSUME NEW q \in Requests, InsertUpload(q) PROVE Guarded(n)'
  <2>1. /\ uploads' = {u \in uploads : \A v \in seen[q] : v.id # u.id} \cup
             {[id |-> nextId + 1, run |-> target[q], kind |-> file[q][2], path |-> file[q],
               verdict |-> "none", accepted |-> FALSE, checked |-> {}]}
        /\ pc[q] = "inserting" /\ objects' = objects /\ EndRequest(q)
    BY <1>22 DEF InsertUpload
  <2>2. PICK new \in uploads' :
          /\ new.id = nextId + 1 /\ new.run = target[q] /\ new.path = file[q] /\ new.verdict = "none"
          /\ uploads' = {u \in uploads : \A v \in seen[q] : v.id # u.id} \cup {new}
    BY <2>1
  <2>3. nextId \in Nat
    BY IdsAreNumbers
  <2>4. \A r \in Requests : \A v \in seen'[r] : v.id # new.id
    <3>1. \A r \in Requests : seen'[r] = seen[r] \/ seen'[r] = {}
      BY <2>1 DEF EndRequest, RequestTypes
    <3>2. \A r \in Requests : \A v \in seen[r] : v.id \in Nat /\ v.id <= nextId
      BY RowFields DEF SeenOK, RequestTypes
    <3>3. QED BY <2>2, <2>3, <3>1, <3>2
  <2>5. Pending(new)' /\ ~Doomed(new)'
    BY <2>2, <2>4 DEF Pending, Fresh, Doomed
  <2>6. CASE n = new
    BY <2>5, <2>6 DEF Guarded
  <2>7. CASE n \in uploads /\ n.path = file[q]
    <3>1. target[q] = n.run
      BY <1>2, <1>3, <2>1, <2>7, UploadOfRow DEF Uploading
    <3>2. new.id > n.id
      BY <2>2, <2>3, <2>7, IdsAreNumbers DEF RowsOK
    <3>3. new \in Of(n.run)' /\ Guards(new, n)'
      BY <2>1, <2>2, <2>5, <2>7, <3>1, <3>2 DEF Of, Guards
    <3>4. QED BY <3>3 DEF Guarded
  <2>8. CASE n \in uploads /\ n.path # file[q]
    BY <1>20, <2>1, <2>8 DEF Dooming
  <2>9. QED BY <2>2, <2>6, <2>7, <2>8
<1>23. ASSUME NEW q \in Requests, StoreVerdicts(q) PROVE Guarded(n)'
  <2>1. PICK J \in [uploads -> Rows] :
          /\ uploads' = {J[u] : u \in uploads}
          /\ \A u \in uploads :
               /\ J[u].id = u.id /\ J[u].run = u.run /\ J[u].kind = u.kind /\ J[u].path = u.path
               /\ u.checked \subseteq J[u].checked
               /\ Passes(u, J[u]) =>
                    /\ \E v \in seen[q] : v.id = u.id
                    /\ got[q][u.id] \in J[u].checked
                    /\ u.kind \notin Blamed => got[q][u.id] \notin Blocked
          /\ (\E w \in uploads : Passes(w, J[w])) =>
               \A u \in uploads, v \in seen[q] :
                 v.id = u.id /\ u.kind \notin Blamed /\ got[q][u.id] \notin Blocked
                   => got[q][u.id] \in J[u].checked
    BY <1>23, VerdictRows
  <2>2. PICK u \in uploads : n = J[u]
    BY <2>1
  <2>3. Guarded(u) /\ u.run \notin crowded
    BY <1>2, <1>3, <2>1, <2>2
  <2>4. QED BY <1>23, <2>1, <2>2, <2>3, VerdictStep
<1>24. ASSUME NEW x \in Runs, NEW y \in Runs, Rerun(x, y) PROVE Guarded(n)'
  <2>1. PICK ids \in [Of(x) -> (nextId + 1) .. MaxUploads] :
          /\ uploads' = uploads \cup {Copy(u, y, ids[u]) : u \in Of(x)}
          /\ \A u \in Of(x) : ids[u] \in 1 .. MaxUploads
    BY <1>24, RerunRows
  <2>2. objects' = objects /\ UNCHANGED requestVars
    BY <1>24 DEF Rerun
  <2>3. CASE n \in uploads
    <3>1. \A r \in Requests : Dooms(r) /\ Puts(r)
      BY <2>2 DEF requestVars, Dooms, Puts
    <3>2. PutAt(n.path) => PutAt(n.path)'
      BY <3>1 DEF PutAt, Puts
    <3>3. \A w \in uploads : ~Doomed(w) => w \in uploads' /\ ~Doomed(w)'
      BY <2>1, <3>1, DoomedStep
    <3>4. QED BY <1>2, <1>3, <2>2, <2>3, <3>2, <3>3, QuietStep
  <2>4. ASSUME NEW u \in Of(x), n = Copy(u, y, ids[u]) PROVE Guarded(n)'
    <3>1. n.run = y /\ n.path = u.path /\ n.checked = u.checked
      BY <2>1, <2>4, CopyFields DEF Of, StoreTypes
    <3>2. x \notin Disturbed /\ Executed(x)
      BY <1>2, <1>24, <3>1 DEF Rerun, Rerunnable, Disturbed, Executed
    <3>3. Vouched(u)
      BY <3>2 DEF UsedOK
    <3>4. Vouched(n)'
      BY <2>2, <3>1, <3>3 DEF Vouched
    <3>5. QED BY <3>4 DEF Guarded
  <2>5. QED BY <2>1, <2>3, <2>4
<1>25. ASSUME NEW x \in Runs, RunStep(x) PROVE Guarded(n)'
  BY <1>8, <1>9, <1>24, <1>25 DEF RunStep
<1>26. ASSUME NEW q \in Requests, RequestStep(q) PROVE Guarded(n)'
  BY <1>10, <1>11, <1>12, <1>13, <1>14, <1>15, <1>16, <1>18, <1>19, <1>21, <1>22, <1>23, <1>26 DEF RequestStep
<1>27. QED BY <1>7, <1>25, <1>26 DEF Next, vars, storeVars

-----------------------------------------------------------------------------
(* What is computed.                                                       *)

\* The object of a row of an executed run is not replaced.
LEMMA VouchedStep ==
  ASSUME AllTypes, SeenOK, ExecutedKept, CopiesKept, [Next]_vars,
         NEW u \in uploads, u.run \notin raced, Executed(u.run), Vouched(u)
  PROVE  objects'[u.path] \in u.checked \cup {NoObject}
<1> USE DEF AllTypes
<1>1. u.path \in Paths /\ u.run \in Runs
  BY RowFields DEF StoreTypes
<1>2. ASSUME objects' = objects PROVE objects'[u.path] \in u.checked \cup {NoObject}
  BY <1>2 DEF Vouched
<1>3. ASSUME NEW q \in Requests, DeleteObjects(q) PROVE objects'[u.path] \in u.checked \cup {NoObject}
  BY <1>1, <1>3 DEF DeleteObjects, Vouched
<1>4. ASSUME NEW q \in Requests, PutObject(q) PROVE objects'[u.path] \in u.checked \cup {NoObject}
  <2>1. pc[q] = "putting" /\ objects' = [objects EXCEPT ![file[q]] = body[q]]
    BY <1>4 DEF PutObject
  <2>2. pc[q] \in Uploading /\ pc[q] \in Changing
    BY <2>1 DEF Uploading, Changing
  <2>3. file[q] # u.path
    <3>1. SUFFICES ASSUME file[q] = u.path PROVE FALSE
      OBVIOUS
    <3>2. target[q] = u.run
      BY <2>2, <3>1, UploadOfRow
    <3>3. QED BY <1>1, <2>2, <3>2 DEF ExecutedKept, InFlight
  <2>4. QED BY <1>1, <2>1, <2>3 DEF StoreTypes, Vouched
<1>5. ASSUME NEW q \in Requests, RefuseOversize(q) PROVE objects'[u.path] \in u.checked \cup {NoObject}
  BY <1>1, <1>5 DEF RefuseOversize, StoreTypes, Vouched
<1>6. ASSUME NEW x \in Runs, RunStep(x) PROVE objects' = objects
  BY <1>6 DEF RunStep, CreateRun, DeleteRun, Rerun, ExecuteRun, ReadInput, EndRun
<1>7. ASSUME NEW q \in Requests, RequestStep(q)
      PROVE  objects' = objects \/ DeleteObjects(q) \/ PutObject(q) \/ RefuseOversize(q)
  BY <1>7 DEF RequestStep, UploadBegin, InspectObject, InsertUpload, RemoveBegin, RemoveUpload, ValidateBegin,
              Download, StoreVerdicts, AbortRequest, storeVars
<1>8. QED BY <1>2, <1>3, <1>4, <1>5, <1>6, <1>7 DEF Next, vars, storeVars

\* An executed run gets no row; a validation may judge those it has.
LEMMA ExecutedRows ==
  ASSUME AllTypes, RowsOK, SeenOK, ExecutedKept, [Next]_vars, NEW x \in Runs \ raced, Executed(x),
         NEW w \in uploads', w.run = x
  PROVE  \E u \in uploads : SameRow(w, u) /\ u.checked \subseteq w.checked
<1> USE DEF AllTypes
<1>1. ASSUME w \in uploads PROVE \E u \in uploads : SameRow(w, u) /\ u.checked \subseteq w.checked
  BY <1>1 DEF SameRow
<1>2. ASSUME NEW z \in Runs, NEW y \in Runs, Rerun(z, y) PROVE w \in uploads
  <2>1. PICK ids \in [Of(z) -> (nextId + 1) .. MaxUploads] :
          /\ uploads' = uploads \cup {Copy(u, y, ids[u]) : u \in Of(z)}
          /\ \A u \in Of(z) : ids[u] \in 1 .. MaxUploads
    BY <1>2, RerunRows
  <2>2. y # x
    BY <1>2 DEF Rerun, Executed
  <2>3. \A u \in Of(z) : Copy(u, y, ids[u]).run = y
    BY <2>1, CopyFields DEF Of, StoreTypes
  <2>4. QED BY <2>1, <2>2, <2>3
<1>3. ASSUME NEW q \in Requests, InsertUpload(q) PROVE w \in uploads
  <2>1. target[q] # x
    BY <1>3 DEF InsertUpload, ExecutedKept, InFlight, Changing, Uploading
  <2>2. QED BY <1>3, <2>1 DEF InsertUpload
<1>4. ASSUME NEW q \in Requests, RemoveUpload(q) PROVE w \in uploads
  BY <1>4 DEF RemoveUpload
<1>5. ASSUME NEW q \in Requests, StoreVerdicts(q)
      PROVE  \E u \in uploads : SameRow(w, u) /\ u.checked \subseteq w.checked
  <2>1. PICK J \in [uploads -> Rows] :
          /\ uploads' = {J[u] : u \in uploads}
          /\ \A u \in uploads : /\ J[u].id = u.id /\ J[u].run = u.run /\ J[u].kind = u.kind /\ J[u].path = u.path
                                /\ u.checked \subseteq J[u].checked
    BY <1>5, VerdictRows
  <2>2. QED BY <2>1 DEF SameRow
<1>6. QED BY <1>1, <1>2, <1>3, <1>4, <1>5, RowSteps DEF RowStep

\* A stage reads objects through the rows of its run.
Took(x) == \A i \in used'[x] : \/ i \in used[x]
                               \/ \E u \in Of(x) : /\ objects[u.path] # NoObject
                                                   /\ i.content = objects[u.path] /\ i.checked = u.checked

LEMMA UsedMoves ==
  ASSUME AllTypes, SeenOK, [Next]_vars, NEW x \in Runs
  PROVE  \/ used'[x] = used[x] /\ (Executed(x) => Executed(x)')
         \/ used'[x] = {} /\ ~Executed(x)'
         \/ Executed(x) /\ Executed(x)' /\ Took(x)
<1> USE DEF AllTypes, runVars
<1> DEFINE Goal == \/ used'[x] = used[x] /\ (Executed(x) => Executed(x)')
                   \/ used'[x] = {} /\ ~Executed(x)'
                   \/ Executed(x) /\ Executed(x)' /\ Took(x)
<1>1. ASSUME used' = used, status' = status PROVE Goal
  BY <1>1 DEF Executed
<1>2. ASSUME NEW y \in Runs, NEW z \in {"deleted", "failed"}, GiveUp(y, z) PROVE Goal
  BY <1>2 DEF GiveUp, StoreTypes, Executed
<1>3. ASSUME NEW y \in Runs, CreateRun(y) PROVE Goal
  BY <1>3 DEF CreateRun, StoreTypes, Executed
<1>4. ASSUME NEW y \in Runs, DeleteRun(y) PROVE Goal
  BY <1>2, <1>4 DEF DeleteRun
<1>5. ASSUME NEW y \in Runs, NEW z \in Runs, Rerun(y, z) PROVE Goal
  BY <1>5 DEF Rerun, StoreTypes, Executed
<1>6. ASSUME NEW y \in Runs, ExecuteRun(y) PROVE Goal
  BY <1>6 DEF ExecuteRun, StoreTypes, Executed
<1>7. ASSUME NEW y \in Runs, EndRun(y) PROVE Goal
  <2>1. CASE GiveUp(y, "failed")
    BY <1>2, <2>1
  <2>2. CASE used' = used /\ status' = [status EXCEPT ![y] = "complete"]
    BY <2>2 DEF StoreTypes, Executed
  <2>3. QED BY <1>7, <2>1, <2>2 DEF EndRun
<1>8. ASSUME NEW y \in Runs, NEW k \in Kinds, ReadInput(y, k) PROVE Goal
  <2> DEFINE rows == {u \in Of(y) : u.kind = k}
  <2>1. CASE GiveUp(y, "failed")
    BY <1>2, <2>1
  <2>2. CASE /\ ~(rows = {} \/ \E u \in rows : objects[u.path] = NoObject)
             /\ used' = [used EXCEPT ![y] = @ \cup {[content |-> objects[u.path], checked |-> u.checked] : u \in rows}]
             /\ UNCHANGED status
    <3>1. CASE y # x
      BY <2>2, <3>1 DEF StoreTypes, Executed
    <3>2. CASE y = x
      <4>1. used'[x] = used[x] \cup {[content |-> objects[u.path], checked |-> u.checked] : u \in rows}
        BY <2>2, <3>2 DEF StoreTypes
      <4>2. Took(x)
        BY <2>2, <3>2, <4>1 DEF Took
      <4>3. Executed(x) /\ Executed(x)'
        BY <1>8, <2>2, <3>2 DEF ReadInput, Executed
      <4>4. QED BY <4>2, <4>3
    <3>3. QED BY <3>1, <3>2
  <2>3. QED BY <1>8, <2>1, <2>2 DEF ReadInput
<1>9. ASSUME NEW q \in Requests, RequestStep(q) PROVE Goal
  <2>1. used' = used
    BY <1>9 DEF RequestStep, UploadBegin, DeleteObjects, PutObject, RefuseOversize, InspectObject, InsertUpload,
           RemoveBegin, RemoveUpload, ValidateBegin, Download, StoreVerdicts, AbortRequest
  <2>2. QED BY <1>1, <1>9, <2>1, RequestStepTypes
<1>10. QED BY <1>1, <1>3, <1>4, <1>5, <1>6, <1>7, <1>8, <1>9 DEF Next, RunStep, vars, storeVars

LEMMA UsedStep ==
  ASSUME AllTypes, RowsOK, SeenOK, ExecutedKept, CopiesKept, RowsGuarded, UsedOK, [Next]_vars
  PROVE  UsedOK'
<1> USE DEF AllTypes
<1>1. SUFFICES ASSUME NEW x \in Runs
               PROVE  /\ ~Executed(x)' => used'[x] = {}
                      /\ Executed(x)' /\ x \notin Disturbed' =>
                           /\ \A w \in uploads' : w.run = x => Vouched(w)'
                           /\ \A i \in used'[x] : i.content \in i.checked
  BY DEF UsedOK, Of
<1>2. Disturbed \subseteq Disturbed' /\ raced \subseteq raced' /\ raced \subseteq Disturbed /\ raced' \subseteq Disturbed'
  BY Histories DEF Disturbed
<1>3. ~Executed(x) => used[x] = {}
  BY DEF UsedOK
<1>4. ~Executed(x)' => used'[x] = {}
  BY <1>3, UsedMoves
<1>5. ASSUME Executed(x), x \notin Disturbed
      PROVE  /\ \A u \in Of(x) : Vouched(u)
             /\ \A i \in used[x] : i.content \in i.checked
  BY <1>5 DEF UsedOK
<1>6. ASSUME Executed(x)', x \notin Disturbed' PROVE \A i \in used'[x] : i.content \in i.checked
  <2>1. CASE ~Executed(x)
    BY <1>3, <1>6, <2>1, UsedMoves
  <2>2. CASE Executed(x)
    <3>1. \A i \in used[x] : i.content \in i.checked
      BY <1>2, <1>5, <1>6, <2>2
    <3>2. \A u \in Of(x) : Vouched(u)
      BY <1>2, <1>5, <1>6, <2>2
    <3>3. Took(x) => \A i \in used'[x] : i.content \in i.checked
      BY <3>1, <3>2 DEF Took, Vouched
    <3>4. QED BY <1>6, <3>1, <3>3, UsedMoves
  <2>3. QED BY <2>1, <2>2
<1>7. ASSUME Executed(x)', x \notin Disturbed', NEW w \in uploads', w.run = x PROVE Vouched(w)'
  <2>0. x \notin Disturbed /\ x \notin raced /\ x \notin raced'
    BY <1>2, <1>7
  <2>1. CASE Executed(x)
    <3>1. PICK u \in uploads : SameRow(w, u) /\ u.checked \subseteq w.checked
      BY <1>7, <2>0, <2>1, ExecutedRows
    <3>2. u.run = x /\ u \in Of(x) /\ u.path = w.path
      BY <1>7, <3>1 DEF SameRow, Of
    <3>3. Vouched(u)
      BY <1>5, <2>0, <2>1, <3>2
    <3>4. objects'[u.path] \in u.checked \cup {NoObject}
      BY <2>0, <2>1, <3>2, <3>3, VouchedStep
    <3>5. QED BY <3>1, <3>2, <3>4 DEF Vouched
  <2>2. CASE ~Executed(x)
    <3>1. ExecuteRun(x)
      BY <1>7, <2>2, StatusMoves
    <3>2. /\ \A u \in Of(x) : Passed(u)
          /\ uploads' = uploads /\ objects' = objects /\ ~InFlight(x, Changing)
      BY <2>0, <3>1 DEF ExecuteRun
    <3>3. w \in uploads /\ w \in Of(x) /\ Guarded(w)
      BY <1>7, <2>0, <3>2 DEF Of, RowsGuarded
    <3>4. \A u \in Of(x) : ~Pending(u)
      BY <3>2 DEF Passed, Pending
    <3>5. ~PutAt(w.path)
      <4>1. SUFFICES ASSUME NEW q \in Requests, pc[q] \in Putting, file[q] = w.path PROVE FALSE
        BY DEF PutAt
      <4>2. pc[q] \in Uploading /\ pc[q] \in Changing
        BY <4>1 DEF Putting, Uploading, Changing
      <4>3. target[q] = x
        BY <1>7, <2>0, <3>3, <4>1, <4>2, UploadOfRow
      <4>4. QED BY <3>2, <4>2, <4>3 DEF InFlight
    <3>6. Vouched(w)
      BY <1>7, <3>3, <3>4, <3>5 DEF Guarded, Guards
    <3>7. QED BY <3>2, <3>6 DEF Vouched
  <2>3. QED BY <2>1, <2>2
<1>8. QED BY <1>4, <1>6, <1>7

-----------------------------------------------------------------------------
(* The theorems.                                                           *)

Inv ==
  /\ AllTypes /\ RowsOK /\ SeenOK
  /\ ReplacesAll /\ SingleFileKinds
  /\ ExecutedKept /\ CopiesKept
  /\ RowsGuarded /\ UsedOK

LEMMA InitInv == Init => Inv
<1> SUFFICES ASSUME Init PROVE Inv
  OBVIOUS
<1>1. /\ uploads = {} /\ nextId = 0
      /\ \A x \in Runs : status[x] = "absent" /\ used[x] = {}
      /\ \A q \in Requests : /\ pc[q] = "idle" /\ seen[q] = {} /\ file[q] = NoFile
                             /\ target[q] = NoObject /\ got[q] = NothingRead
  BY DEF Init
<1>2. StoreTypes
  BY FS_EmptySet DEF Init, StoreTypes, RunState
<1>3. NothingRead \in [1 .. MaxUploads -> Contents \cup {NoObject}]
  BY DEF NothingRead
<1>4. RequestTypes
  BY <1>3 DEF Init, RequestTypes, PCs
<1>5. \A q \in Requests : RequestOK(q)
  BY <1>1 DEF RequestOK, Uploading, Validating
<1>6. RowsOK /\ SeenOK /\ SingleFileKinds /\ CopiesKept /\ RowsGuarded
  BY <1>1 DEF RowsOK, SeenOK, SingleFileKinds, CopiesKept, RowsGuarded, Of
<1>7. ReplacesAll
  BY <1>1 DEF ReplacesAll, Uploading
<1>8. ExecutedKept /\ UsedOK
  BY <1>1 DEF ExecutedKept, UsedOK, Executed
<1>9. QED BY <1>2, <1>4, <1>5, <1>6, <1>7, <1>8 DEF Inv, AllTypes

LEMMA NextInv ==
  ASSUME Inv, [Next]_vars
  PROVE  Inv'
<1> USE DEF Inv
<1>1. AllTypes' /\ Forward
  <2>1. CASE UNCHANGED vars
    <3>1. UNCHANGED <<status, uploads, nextId, objects, used, read, abandoned, raced, crowded>> /\ UNCHANGED requestVars
      BY <2>1 DEF vars, storeVars, runVars, historyVars
    <3>2. StoreTypes' /\ Forward
      BY <3>1 DEF AllTypes, StoreTypes, Forward
    <3>3. QED BY <3>1, <3>2, RequestsSame DEF AllTypes
  <2>2. ASSUME NEW x \in Runs, RunStep(x) PROVE AllTypes' /\ Forward
    BY <2>2, RunTypes, RunForward, RequestsSame DEF AllTypes
  <2>3. ASSUME NEW q \in Requests, RequestStep(q) PROVE AllTypes' /\ Forward
    BY <2>3, RequestStepTypes DEF AllTypes, Forward
  <2>4. QED BY <2>1, <2>2, <2>3 DEF Next
<1>2. RowsOK' /\ RowsContinue
  BY <1>1, RowsStep
<1>3. SeenOK'
  BY <1>1, <1>2, SeenStep
<1>4. ReplacesAll' /\ SingleFileKinds'
  BY <1>1, <1>2, SingleStep
<1>5. ExecutedKept' /\ CopiesKept'
  BY <1>1, ExecutedStep, CopiesStep
<1>6. RowsGuarded'
  BY <1>1, GuardStep
<1>7. UsedOK'
  BY UsedStep
<1>8. QED BY <1>1, <1>2, <1>3, <1>4, <1>5, <1>6, <1>7

LEMMA Invariance == Spec => []Inv
BY InitInv, NextInv, PTL DEF Spec

\* The state of the store and of the requests in flight keeps its types.
THEOREM InputsTyped == Spec => []TypeOK
<1>1. Inv => TypeOK
  BY TypeParts DEF Inv, AllTypes, Types
<1>2. QED BY <1>1, Invariance, PTL

\* upload_file and rerun_run leave a run with one LGD and one EAD file at most, unless two uploads
\* of the kind overlapped.
THEOREM OneFilePerKind == Spec => []SingleFileKinds
<1>1. Inv => SingleFileKinds
  BY DEF Inv
<1>2. QED BY <1>1, Invariance, PTL

\* What a complete run was computed from has passed a validation of the row it was read through,
\* however upload_file, delete_upload, validate_files, execute_run and rerun_run interleave.
THEOREM InputsWereValidated == Spec => []ComputedInputsWereValidated
<1>1. Inv => ComputedInputsWereValidated
  BY DEF Inv, UsedOK, ComputedInputsWereValidated, Executed, Disturbed
<1>2. QED BY <1>1, Invariance, PTL

\* No step of upload_file, delete_upload, validate_files or rerun_run adds a row to a complete run or
\* removes one, unless the run was executed while one was on its way.
THEOREM CompletedRunsKeepInputs == Spec => CompletedInputsKept
<1>1. Inv /\ [Next]_vars =>
        [\A x \in Runs \ raced : status[x] = "complete" =>
           {u.id : u \in {v \in uploads' : v.run = x}} = {u.id : u \in Of(x)}]_vars
  BY CompleteStep DEF Inv
<1>2. QED BY <1>1, Invariance, PTL DEF Spec, CompletedInputsKept

=============================================================================
