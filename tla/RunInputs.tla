----------------------------- MODULE RunInputs -----------------------------
(***************************************************************************)
(* The input files of runs: rows of table `uploads`, objects in storage,   *)
(* and the operations that move them: create, upload, delete_upload,       *)
(* validate, execute (its gate), rerun, delete.  The pipeline appears only *)
(* as what it does to inputs: each stage loads the rows of its kind and    *)
(* downloads their objects (RunPipeline has the rest).                     *)
(*                                                                         *)
(* A row becomes visible at the commit of its request; an object changes   *)
(* at once and no rollback brings it back.  Every call of the storage and  *)
(* every commit is a step of its own, and a request may die between two.   *)
(*                                                                         *)
(* Constants                                                               *)
(*   Runs, Requests   runs of one tenant, requests in flight               *)
(*   Kinds            kinds of file; LGD and EAD are treated alike         *)
(*   Names            file names                                           *)
(*   Clean, Warned, Blocked                                                *)
(*                    contents by what their validator says                *)
(*   Macros           contents with macros, which upload_file refuses      *)
(*                    though the validators would read them                *)
(*   Oversize         contents above max_upload_bytes                      *)
(*   Blamed           kinds the checks across files may blame, never PD    *)
(*   MaxUploads       bound: rows ever inserted                            *)
(***************************************************************************)
EXTENDS Naturals, FiniteSets

CONSTANTS Runs, Requests, Kinds, Names, Clean, Warned, Blocked, Macros,
          Oversize, Blamed, MaxUploads

Contents == UNION {Clean, Warned, Blocked, Macros, Oversize}
NoObject == "none"

ASSUME InputAssumption ==
  /\ Blamed \subseteq Kinds \ {"PD"} /\ MaxUploads \in Nat
  /\ NoObject \notin Contents
  /\ Clean \cap (Warned \cup Blocked) = {} /\ Warned \cap Blocked = {}
  /\ (Macros \cup Oversize) \cap (Warned \cup Blocked) = {}

\* build_storage_path: the run, the kind and the file name.
Paths == Runs \X Kinds \X Names

RunState == {"absent", "draft", "active", "complete", "failed", "deleted"}
Verdicts == {"none", "ok", "warn", "error"}

Rows == [id : 1 .. MaxUploads, run : Runs, kind : Kinds, path : Paths,
         verdict : Verdicts, accepted : BOOLEAN, checked : SUBSET Contents]

VARIABLES
  status,     \* runs.status; "active" is queued or running
  uploads,    \* committed rows of table uploads.  The field checked is a
              \* history: contents a validation found not blocking
  nextId,     \* ids used so far
  objects,    \* the storage: content per path
  used,       \* history: what the stages of an active or complete run have read
  read,       \* the kinds whose stage has read its input
  pc,         \* control state of a request
  target,     \* the run it works on
  file,       \* upload: storage_path
  body,       \* upload: the bytes received
  seen,       \* rows it has loaded
  got,        \* validate: contents downloaded so far, per row id
  abandoned,  \* history: runs with an upload that changed the storage and
              \* was then given up; inherited by reruns, like the next two
  raced,      \* history: runs executed while an upload or a removal was in
              \* flight
  crowded     \* history: runs that had two uploads of one kind other than PD
              \* in flight

storeVars   == <<status, uploads, nextId, objects>>
runVars     == <<used, read>>
requestVars == <<pc, target, file, body, seen, got>>
historyVars == <<abandoned, raced, crowded>>
vars == <<storeVars, runVars, requestVars, historyVars>>

PCs == {"idle", "replacing", "putting", "stored", "inserting",
        "removing", "removed", "reading", "judging"}

Uploading == {"replacing", "putting", "stored", "inserting"}
Changing  == Uploading \cup {"removing", "removed"}

NoFile == <<NoObject>>

TypeOK ==
  /\ status \in [Runs -> RunState]
  /\ uploads \subseteq Rows /\ nextId \in 0 .. MaxUploads
  /\ objects \in [Paths -> Contents \cup {NoObject}]
  /\ \A x \in Runs : used[x] \subseteq [content : Contents, checked : SUBSET Contents]
  /\ read \in [Runs -> SUBSET Kinds]
  /\ pc \in [Requests -> PCs]
  /\ target \in [Requests -> Runs \cup {NoObject}]
  /\ file \in [Requests -> Paths \cup {NoFile}]
  /\ body \in [Requests -> Contents \cup {NoObject}]
  /\ \A q \in Requests : seen[q] \subseteq Rows
  /\ got \in [Requests -> [1 .. MaxUploads -> Contents \cup {NoObject}]]
  /\ abandoned \subseteq Runs /\ raced \subseteq Runs /\ crowded \subseteq Runs

NothingRead == [i \in 1 .. MaxUploads |-> NoObject]

Init ==
  /\ status = [x \in Runs |-> "absent"]
  /\ uploads = {} /\ nextId = 0
  /\ objects = [p \in Paths |-> NoObject]
  /\ used = [x \in Runs |-> {}] /\ read = [x \in Runs |-> {}]
  /\ pc = [q \in Requests |-> "idle"]
  /\ target = [q \in Requests |-> NoObject]
  /\ file = [q \in Requests |-> NoFile]
  /\ body = [q \in Requests |-> NoObject]
  /\ seen = [q \in Requests |-> {}]
  /\ got = [q \in Requests |-> NothingRead]
  /\ abandoned = {} /\ raced = {} /\ crowded = {}

-----------------------------------------------------------------------------
Of(x) == {u \in uploads : u.run = x}

\* _get_run: the run exists and is not deleted.
Known(x) == status[x] \notin {"absent", "deleted"}

Goto(q, label) == pc' = [pc EXCEPT ![q] = label]

\* The request answers or dies; its session is gone.
EndRequest(q) ==
  /\ pc' = [pc EXCEPT ![q] = "idle"]
  /\ target' = [target EXCEPT ![q] = NoObject]
  /\ file' = [file EXCEPT ![q] = NoFile]
  /\ body' = [body EXCEPT ![q] = NoObject]
  /\ seen' = [seen EXCEPT ![q] = {}]
  /\ got' = [got EXCEPT ![q] = NothingRead]

InFlight(x, labels) == \E q \in Requests : pc[q] \in labels /\ target[q] = x

\* Another upload of kind k to run x is on its way.
Overlaps(x, k) == \E q \in Requests : pc[q] \in Uploading /\ file[q] \in {x} \X {k} \X Names

-----------------------------------------------------------------------------
(* create_run, delete_run, rerun_run: one transaction each                 *)

CreateRun(x) ==
  /\ status[x] = "absent"
  /\ status' = [status EXCEPT ![x] = "draft"]
  /\ UNCHANGED <<uploads, nextId, objects, runVars, requestVars, historyVars>>

\* The run ends in state s and is not read as complete any more.
GiveUp(x, s) ==
  /\ status' = [status EXCEPT ![x] = s]
  /\ used' = [used EXCEPT ![x] = {}] /\ read' = [read EXCEPT ![x] = {}]

\* Rows and objects are retained.
DeleteRun(x) ==
  /\ Known(x)
  /\ GiveUp(x, "deleted")
  /\ UNCHANGED <<uploads, nextId, objects, requestVars, historyVars>>

\* Mutant: any run can be re-run.
RerunnableAlways(x) == Known(x)

Rerunnable(x) == status[x] = "complete"

\* The new run y has copies of the rows of x, with the same storage_path,
\* marked ok and accepted without looking at them.
Rerun(x, y) ==
  /\ Rerunnable(x) /\ status[y] = "absent"
  /\ nextId + Cardinality(Of(x)) <= MaxUploads
  /\ \E ids \in [Of(x) -> (nextId + 1) .. (nextId + Cardinality(Of(x)))] :
       /\ \A u, v \in Of(x) : u.id < v.id => ids[u] < ids[v]
       /\ uploads' = uploads \cup
            {[u EXCEPT !.id = ids[u], !.run = y,
                       !.verdict = "ok", !.accepted = TRUE] : u \in Of(x)}
  /\ nextId' = nextId + Cardinality(Of(x))
  /\ status' = [status EXCEPT ![y] = "draft"]
  /\ raced' = IF x \in raced THEN raced \cup {y} ELSE raced
  /\ abandoned' = IF x \in abandoned THEN abandoned \cup {y} ELSE abandoned
  /\ crowded' = IF x \in crowded THEN crowded \cup {y} ELSE crowded
  /\ UNCHANGED <<objects, runVars, requestVars>>

-----------------------------------------------------------------------------
(* upload_file                                                             *)

\* Mutant: files may also be sent to a run that is queued.
UploadableQueued(x) == status[x] \in {"draft", "failed", "active"}

\* Mutant: files may be sent to any run that is not deleted.
UploadableAlways(x) == Known(x)

Uploadable(x) == status[x] \in {"draft", "failed"}

\* Mutant: nothing is replaced.
ReplacesNothing(k) == FALSE

\* PD files add up, a file of another kind replaces its predecessor.
Replaces(k) == k # "PD"

\* Status and old rows are read; nothing is locked.
UploadBegin(q, x, k, n, c) ==
  /\ pc[q] = "idle" /\ Uploadable(x) /\ nextId < MaxUploads
  /\ Goto(q, "replacing")
  /\ target' = [target EXCEPT ![q] = x]
  /\ file' = [file EXCEPT ![q] = <<x, k, n>>]
  /\ body' = [body EXCEPT ![q] = c]
  /\ seen' = [seen EXCEPT ![q] = IF Replaces(k) THEN {u \in Of(x) : u.kind = k} ELSE {}]
  /\ crowded' = IF k # "PD" /\ Overlaps(x, k) THEN crowded \cup {x} ELSE crowded
  /\ UNCHANGED <<storeVars, runVars, got, abandoned, raced>>

\* delete_object for every old row; the rows go at the commit.
DeleteObjects(q) ==
  /\ pc[q] \in {"replacing", "removing"}
  /\ objects' = [p \in Paths |->
                   IF \E u \in seen[q] : u.path = p THEN NoObject ELSE objects[p]]
  /\ Goto(q, IF pc[q] = "replacing" THEN "putting" ELSE "removed")
  /\ UNCHANGED <<status, uploads, nextId, runVars, target, file, body, seen, got,
                 historyVars>>

PutObject(q) ==
  /\ pc[q] = "putting"
  /\ objects' = [objects EXCEPT ![file[q]] = body[q]]
  /\ Goto(q, "stored")
  /\ UNCHANGED <<status, uploads, nextId, runVars, target, file, body, seen, got,
                 historyVars>>

\* Too large: the object is removed again and the transaction rolled back.
RefuseOversize(q) ==
  /\ pc[q] = "stored" /\ body[q] \in Oversize
  /\ objects' = [objects EXCEPT ![file[q]] = NoObject]
  /\ EndRequest(q)
  /\ UNCHANGED <<status, uploads, nextId, runVars, historyVars>>

\* What is in the storage now is downloaded and inspected; what is refused
\* stays there.
InspectObject(q) ==
  /\ pc[q] = "stored" /\ body[q] \notin Oversize
  /\ IF objects[file[q]] \in Macros \cup {NoObject}
       THEN EndRequest(q) /\ abandoned' = abandoned \cup {target[q]}
       ELSE /\ Goto(q, "inserting")
            /\ UNCHANGED <<target, file, body, seen, got, abandoned>>
  /\ UNCHANGED <<storeVars, runVars, raced, crowded>>

\* The commit: old rows are deleted (if they are still there), the new one
\* is inserted.
InsertUpload(q) ==
  /\ pc[q] = "inserting" /\ nextId < MaxUploads
  /\ nextId' = nextId + 1
  /\ uploads' = {u \in uploads : \A v \in seen[q] : v.id # u.id} \cup
       {[id |-> nextId + 1, run |-> target[q], kind |-> file[q][2],
         path |-> file[q], verdict |-> "none", accepted |-> FALSE,
         checked |-> {}]}
  /\ EndRequest(q)
  /\ UNCHANGED <<status, objects, runVars, historyVars>>

-----------------------------------------------------------------------------
(* delete_upload                                                           *)

RemoveBegin(q, u) ==
  /\ pc[q] = "idle" /\ u \in uploads /\ Uploadable(u.run)
  /\ Goto(q, "removing")
  /\ target' = [target EXCEPT ![q] = u.run]
  /\ seen' = [seen EXCEPT ![q] = {u}]
  /\ UNCHANGED <<storeVars, runVars, file, body, got, historyVars>>

RemoveUpload(q) ==
  /\ pc[q] = "removed"
  /\ uploads' = {u \in uploads : \A v \in seen[q] : v.id # u.id}
  /\ EndRequest(q)
  /\ UNCHANGED <<status, nextId, objects, runVars, historyVars>>

-----------------------------------------------------------------------------
(* validate_files: no condition on the status of the run                   *)

HasAllKinds(x) == \A k \in Kinds : \E u \in Of(x) : u.kind = k

ValidateBegin(q, x) ==
  /\ pc[q] = "idle" /\ Known(x) /\ HasAllKinds(x)
  /\ Goto(q, "reading")
  /\ target' = [target EXCEPT ![q] = x]
  /\ seen' = [seen EXCEPT ![q] = Of(x)]
  /\ UNCHANGED <<storeVars, runVars, file, body, got, historyVars>>

Unread(q) == {u \in seen[q] : got[q][u.id] = NoObject}

\* The files are downloaded in the order of their rows.
Download(q) ==
  /\ pc[q] = "reading" /\ Unread(q) # {}
  /\ LET u == CHOOSE v \in Unread(q) : \A w \in Unread(q) : v.id <= w.id
     IN  IF objects[u.path] = NoObject
           THEN EndRequest(q)
           ELSE /\ got' = [got EXCEPT ![q][u.id] = objects[u.path]]
                /\ Goto(q, IF Unread(q) = {u} THEN "judging" ELSE "reading")
                /\ UNCHANGED <<target, file, body, seen>>
  /\ UNCHANGED <<storeVars, runVars, historyVars>>

\* Warnings of a file, or of the three together, count as accepted once the
\* user has accepted the file's own.
Accepted(u, c, accept) == u.accepted \/ (accept /\ c \in Warned)

\* _validation_status_from_issues
FileVerdict(u, c, accept) ==
  IF c \in Blocked THEN "error"
  ELSE IF c \in Warned /\ ~Accepted(u, c, accept) THEN "warn" ELSE "ok"

\* validate_cross_files blames the LGD or the EAD file: with two rows of a kind, any
\* of them.
CrossVerdicts(u, v) ==
  IF u.kind \notin Blamed THEN {v}
  ELSE {v, "error"} \cup (IF v = "ok" THEN {"warn"} ELSE {})

\* Mutant: the row gets the status of the whole validation.
JudgedOverall(q, u, verdict, accept) ==
  [u EXCEPT !.verdict = IF verdict = "error" THEN "blocking" ELSE verdict]

\* The session writes the columns that differ from what it has loaded.
Judged(q, u, verdict, accept) ==
  LET old == CHOOSE v \in seen[q] : v.id = u.id
      c   == got[q][u.id]
  IN  [u EXCEPT !.verdict = IF verdict # old.verdict THEN verdict ELSE @,
                !.accepted = IF Accepted(old, c, accept) # old.accepted
                               THEN Accepted(old, c, accept) ELSE @,
                !.checked = IF verdict \in {"ok", "warn"} THEN @ \cup {c} ELSE @]

\* The commit; it fails when a row to be changed is gone.
StoreVerdicts(q) ==
  /\ pc[q] = "judging"
  /\ \E accept \in BOOLEAN, verdicts \in [seen[q] -> Verdicts] :
       /\ \A u \in seen[q] : verdicts[u] \in
            CrossVerdicts(u, FileVerdict(u, got[q][u.id], accept))
       /\ LET gone    == {u \in seen[q] : \A v \in uploads : v.id # u.id}
              changed == {u \in seen[q] :
                            \/ verdicts[u] # u.verdict
                            \/ Accepted(u, got[q][u.id], accept) # u.accepted}
              now(u)  == CHOOSE v \in seen[q] : v.id = u.id
          IN  uploads' = IF gone \cap changed # {} THEN uploads
                ELSE {IF \E v \in seen[q] : v.id = u.id
                        THEN Judged(q, u, verdicts[now(u)], accept) ELSE u : u \in uploads}
  /\ EndRequest(q)
  /\ UNCHANGED <<status, nextId, objects, runVars, historyVars>>

-----------------------------------------------------------------------------
\* The process dies, the storage or the database fails: rolled back.
AbortRequest(q) ==
  /\ pc[q] # "idle"
  /\ EndRequest(q)
  /\ abandoned' = IF pc[q] \in {"stored", "inserting"}
                    THEN abandoned \cup {target[q]} ELSE abandoned
  /\ UNCHANGED <<storeVars, runVars, raced, crowded>>

-----------------------------------------------------------------------------
(* execute_run and the pipeline                                            *)

Passed(u) == u.verdict = "ok" \/ (u.verdict = "warn" /\ u.accepted)

\* The checks of execute_run under the lock of the run's row; the rows of
\* uploads are not locked.
ExecuteRun(x) ==
  /\ status[x] \in {"draft", "failed"}
  /\ HasAllKinds(x) /\ \A u \in Of(x) : Passed(u)
  /\ status' = [status EXCEPT ![x] = "active"]
  /\ raced' = IF InFlight(x, Changing) THEN raced \cup {x} ELSE raced
  /\ UNCHANGED <<uploads, nextId, objects, runVars, requestVars, abandoned, crowded>>

\* A stage loads the rows of its kind and downloads their objects; none, or
\* one that is missing, fails the run.
ReadInput(x, k) ==
  /\ status[x] = "active" /\ k \notin read[x]
  /\ LET rows == {u \in Of(x) : u.kind = k}
     IN  IF rows = {} \/ \E u \in rows : objects[u.path] = NoObject
           THEN GiveUp(x, "failed")
           ELSE /\ used' = [used EXCEPT ![x] = @ \cup
                      {[content |-> objects[u.path], checked |-> u.checked] : u \in rows}]
                /\ read' = [read EXCEPT ![x] = @ \cup {k}]
                /\ UNCHANGED status
  /\ UNCHANGED <<uploads, nextId, objects, requestVars, historyVars>>

\* The end of the pipeline, for whatever reason.
EndRun(x) ==
  /\ status[x] = "active"
  /\ \/ /\ read[x] = Kinds /\ status' = [status EXCEPT ![x] = "complete"]
        /\ UNCHANGED runVars
     \/ GiveUp(x, "failed")
  /\ UNCHANGED <<uploads, nextId, objects, requestVars, historyVars>>

-----------------------------------------------------------------------------
RunStep(x) ==
  \/ CreateRun(x) \/ DeleteRun(x) \/ (\E y \in Runs : Rerun(x, y))
  \/ ExecuteRun(x) \/ (\E k \in Kinds : ReadInput(x, k)) \/ EndRun(x)

RequestStep(q) ==
  \/ \E x \in Runs, k \in Kinds, n \in Names, c \in Contents : UploadBegin(q, x, k, n, c)
  \/ DeleteObjects(q) \/ PutObject(q) \/ RefuseOversize(q) \/ InspectObject(q)
  \/ InsertUpload(q)
  \/ (\E u \in uploads : RemoveBegin(q, u)) \/ RemoveUpload(q)
  \/ (\E x \in Runs : ValidateBegin(q, x)) \/ Download(q) \/ StoreVerdicts(q)
  \/ AbortRequest(q)

Next == (\E x \in Runs : RunStep(x)) \/ (\E q \in Requests : RequestStep(q))

Spec == Init /\ [][Next]_vars

-----------------------------------------------------------------------------
(* Properties                                                              *)

\* What a complete run was computed from has been through a validation of the
\* row it was read through (or was copied from) that found nothing blocking,
\* however uploads, removals, validations and reruns interleave.  Excluded are
\* runs whose storage was changed by an upload that did not commit, or that was
\* in flight when the run was executed, and runs with two overlapping uploads of
\* one kind: validate_cross_files blames one of the two rows only, and a
\* validation begun before the second upload may then call that row ok.
ComputedInputsWereValidated ==
  \A x \in Runs \ (abandoned \cup raced \cup crowded) : status[x] = "complete" =>
    \A i \in used[x] : i.content \in i.checked

\* A run has one LGD and one EAD file at most, unless two uploads of the kind
\* were in flight at the same time.
SingleFileKinds ==
  \A x \in Runs \ crowded : \A u, v \in Of(x) :
    u.kind = v.kind /\ u.kind # "PD" => u = v

\* The files of a complete run are its record: no row is added or removed any
\* more, unless one was on its way when the run was executed.
CompletedInputsKept ==
  [][\A x \in Runs \ raced : status[x] = "complete" =>
       {u.id : u \in {v \in uploads' : v.run = x}} = {u.id : u \in Of(x)}]_vars

-----------------------------------------------------------------------------
(* Claims the code does not keep: TLC refutes them on runs of this module. *)

\* upload_file: "Files can only be uploaded to draft or failed runs."
UploadsOnlyToIdleRuns ==
  [][\A x \in Runs : status[x] = "active" =>
       {u.id : u \in {v \in uploads' : v.run = x}} \subseteq {u.id : u \in Of(x)}]_vars

\* _assert_upload_safe: "Reject non-xlsx uploads and files containing VBA
\* macros": no run is computed from a file that was refused before.
RefusedFileNotComputed ==
  \A x \in Runs \ raced : status[x] = "complete" =>
    \A i \in used[x] : i.content \notin Macros

\* rerun_run: "Create a new VALIDATED run seeded with the same input files as
\* a completed run": the new run's files are there.
RerunHasItsFiles ==
  [][\A y \in Runs : status[y] = "absent" /\ status'[y] = "draft" /\ y \notin raced' =>
       \A u \in uploads' : u.run = y => objects[u.path] # NoObject]_vars

=============================================================================
