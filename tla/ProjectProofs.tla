----------------------------- MODULE ProjectProofs ----------------------------
(***************************************************************************)
(* Proofs about ProjectWorkflow, for any requests, mixes of operations,    *)
(* suites, versions, faults and ports.                                     *)
(*                                                                         *)
(* Nearly every step of a request is of one of a few forms: it only moves  *)
(* the request (Moves), commits a pipeline row (Commits), or writes the    *)
(* dependency runs (Discovers), the scans (Scans), the validations         *)
(* (Judges) or the servers (Serves).  One lemma per form says that it      *)
(* keeps ProjectInv; the lemmas on actions say which form an action has.   *)
(*                                                                         *)
(* The last part is about requests one after the other (SettledInv): the   *)
(* request that is served accounts for all that is unfinished, and a step  *)
(* leaves its accounts in order (Accounting).                              *)
(***************************************************************************)
EXTENDS ProjectWorkflow, WellFoundedInduction, SequenceTheorems, TLAPS

-----------------------------------------------------------------------------
(* What a request has brought along to where it is.                        *)

(* The places of a request (its pc), by what it is doing there.            *)
UploadPlaces == {"directory", "extract", "record"}
DiscoveryPlaces == {"processing", "discover", "found", "publish", "unfound"}
StageTwoPlaces == DiscoveryPlaces \cup {"dependency", "unpublish", "join"}
ValidationPlaces == {"created", "targets", "port", "existing", "folder", "launch",
                     "poll", "execute", "outcome", "fail_runtime", "fail_source"}
RowPlaces == ValidationPlaces \cup
    {"pending", "source", "stage3", "stage4", "quality", "plan", "complete",
     "generate", "regenerate", "restore", "rerun", "relock", "revalidate", "retried"}
PortPlaces == {"existing", "folder", "launch", "poll", "execute", "outcome",
               "fail_runtime", "fail_source", "retried", "done"}

(* The request asks for the row of its dependency run.                     *)
Admitted(q) == q.pc \in {"admit", "force"} \/ (q.pc = "join" /\ ~q.error)

(* What request q has at its place: a row, a dependency run, a scan, a     *)
(* port.                                                                   *)
Fits(q) ==
    /\ q.pc = "ready" => q = NewRequest(q.op)
    /\ q.pc \in UploadPlaces => q.op = "upload"
    /\ Admitted(q) \/ q.pc \in DiscoveryPlaces => q.dep # 0
    /\ q.pc \in RowPlaces \/ (q.pc = "validate" /\ q.op = "retry") => q.cu # 0
    /\ q.branch \in {"ahead", "running"} => q.pc \in StageTwoPlaces
    /\ q.branch = "running" => q.scan # 0 /\ q.scanSeen = "running"
    /\ q.pc \in ValidationPlaces => MayValidate(q.row)
    /\ q.pc \notin PortPlaces => q.port = 0

\* Nothing is there before the upload.
Unused(q) == q.pc \in {"ready", "done"} \cup UploadPlaces /\ q.cu = 0 /\ q.scan = 0
Uploads(q) ==
    /\ q.op = "upload" /\ q.pc \in {"ready"} \cup UploadPlaces => project = "absent"
    /\ project = "absent" => Unused(q)

\* A request works on rows of completed discoveries, and the run of its own
\* discovery is completed when it says so.
Discovered(d) == d \in DOMAIN deps /\ ("commit" \notin happened => deps[d] = "completed")

Admits(q) == Alive =>
    /\ q.pc # "done" /\ q.cu # 0 => Discovered(q.cu)
    /\ Admitted(q) => Discovered(q.dep)
    /\ q.pc \in DiscoveryPlaces => q.dep \in DOMAIN deps
    /\ q.pc \in {"processing", "discover", "found"} => deps[q.dep] # "completed"
    /\ q.pc = "publish" => deps[q.dep] = "completed"
    /\ q.pc = "unfound" => "commit" \in happened \/ deps[q.dep] # "completed"

\* Requests one after the other, and no stop of the server: a request knows
\* the newest scan, and goes on to Stage 3 once it completed.
Calm == Alone /\ ~Stopped

Scanned(q) == Calm /\ Alive /\ q.pc # "done" =>
    /\ q.scan # 0 => q.scan = Len(scans) /\ q.scanSeen = Latest(scans)
    /\ q.pc \in StageTwoPlaces /\ q.branch \in {"none", "ok"} /\ q.op # "discover" =>
         Latest(scans) = "completed"
    /\ q.pc \in {"admit", "force"} \/ q.cu # 0 => Latest(scans) = "completed"

\* Requests one after the other: a request has the row as the database has
\* it, and the newest validation.
Validates(q) == Alone /\ Alive /\ q.pc # "done" =>
    /\ q.cu # 0 => q.row = rows[q.cu]
    /\ q.pc \in ValidationPlaces =>
         q.run \in DOMAIN runtimes /\ q.run = Len(runtimes) /\ runtimes[q.run].source = q.cu
    /\ q.pc = "fail_source" => runtimes[q.run].status = "failed"

\* The port that a lone validation has found stays free until its own server
\* has it, and that is the server it meets.
OwnPort(r, q) == Alone /\ "orphan" \notin happened =>
    /\ servers[r].state = "starting" => q.pc = "poll"
    /\ q.pc \in {"existing", "folder", "launch"} => ~Bound(q.port)
    /\ q.pc = "poll" =>
         /\ servers[r].state \in {"starting", "up"} /\ servers[r].port = q.port
         /\ \A p \in Requests \ {r} : servers[p] # [state |-> "up", port |-> q.port]
    /\ q.pc = "execute" /\ q.port # 0 => servers[r] = [state |-> "up", port |-> q.port]

(* A server and a folder belong to a validation under way.                 *)
Holds(r, q) == ~Stopped =>
    /\ servers[r] # NoServer => q.pc \in {"poll", "execute"}
    /\ r \in folders => q.pc \in Serving

(* Request r, in state q, agrees with what is stored.                      *)
Suits(r, q) ==
    /\ Fits(q) /\ Uploads(q) /\ Admits(q) /\ Scanned(q) /\ Validates(q)
    /\ OwnPort(r, q) /\ Holds(r, q)

-----------------------------------------------------------------------------
(* Types, and room for the runs.                                           *)
TypeInv == TypeOK /\ Len(deps) <= MaxRuns /\ Len(scans) <= MaxRuns

(* One request at most makes the project; nothing is stored before it, nor *)
(* after the deletion.                                                     *)
UploadInv ==
    /\ \A r, q \in Requests : req[r].op = "upload" /\ req[q].op = "upload" => r = q
    /\ project = "absent" => staged = "none"
    /\ ~Alive => /\ deps = <<>> /\ scans = <<>> /\ order = <<>> /\ runtimes = <<>>
                 /\ rows = [d \in 1..MaxRuns |-> NoRow]

(* While no two requests have overlapped, one is served at a time.         *)
Single == Alone => \A r, q \in Requests : Active(r) /\ Active(q) => r = q

(* A pipeline row has a completed discovery, which nobody else writes.     *)
GateInv ==
    /\ \A d \in 1..MaxRuns : rows[d].status # "absent" => Discovered(d)
    /\ \A i \in DOMAIN order : Discovered(order[i])
    /\ Alive => \A r, q \in Requests :
         req[r].pc \in DiscoveryPlaces /\ req[q].pc \in DiscoveryPlaces
            /\ req[r].dep = req[q].dep => r = q

(* Requests one after the other: no pipeline row before a completed scan,  *)
(* and a running scan has its request.                                     *)
ScanInv == Calm =>
    /\ order # <<>> \/ (\E d \in 1..MaxRuns : rows[d].status # "absent") =>
         Latest(scans) = "completed"
    /\ \A i \in DOMAIN scans : scans[i] = "running" =>
         \E r \in Requests : req[r].branch = "running" /\ req[r].scan = i

\* The newest validation of a row that failed at Runtime Validation failed.
FailedLast(d) ==
    \E k \in DOMAIN runtimes :
        /\ runtimes[k] = [source |-> d, status |-> "failed"]
        /\ \A l \in DOMAIN runtimes : l > k => runtimes[l].source # d
AtValidation(row) == row.status = "failed" /\ row.failedStage = "runtime_validation"
Retryable(d) == AtValidation(rows[d]) => FailedLast(d)

(* Requests one after the other: a failed validation can be retried.       *)
RuntimeInv == Alone => \A d \in 1..MaxRuns : Retryable(d)

(* The inductive invariant.                                                *)
ProjectInv ==
    /\ TypeInv /\ UploadInv /\ Single /\ GateInv /\ ScanInv /\ RuntimeInv
    /\ \A r \in Requests : Suits(r, req[r])

-----------------------------------------------------------------------------
(* The rows.                                                               *)

(* The suite of a project whose pipeline has generated one.                *)
LEMMA FirstSuite == S1 \in Suite
<1>1. PICK i \in SuiteIds : TRUE
  BY ProjectAssumption
<1>2. [id |-> i, ver |-> 1] \in Suite
  BY MaxVersionAssumption DEF Suite, Version
<1>. QED
  BY <1>2 DEF S1

(* The row that is not there yet.                                          *)
LEMMA RowTypes == NoRow \in Row /\ EmptyResult \in Result
BY DEF NoRow, EmptyResult, Row, Result, Status, Stage, Artifact, NoStamp

(* The rows that earlier requests may have left.                           *)
LEMMA StoredRows ==
    /\ Understood \in Row /\ Generated \in Row
    /\ FailRun(Generated, "runtime_validation") \in Row
<1>1. 1 \in Version
  BY MaxVersionAssumption DEF Version
<1>2. Understood \in Row
  <2>. DEFINE a == [NoRow EXCEPT !.status = "completed", !.lastOk = "stage_3"]
             b == [a EXCEPT !.result = [EmptyResult EXCEPT !.summary = TRUE, !.stamp = 1]]
  <2>1. [EmptyResult EXCEPT !.summary = TRUE, !.stamp = 1] \in Result
    BY <1>1, RowTypes DEF Result
  <2>2. a \in Row
    BY RowTypes DEF Row, Status, Stage
  <2>3. b \in Row
    BY <2>1, <2>2 DEF Row
  <2>. DEFINE Columns == {"status", "result", "failedStage", "lastOk"}
  <2>4. NoRow \in [Columns -> {NoRow[x] : x \in Columns}]
        /\ NoRow.result = EmptyResult
    BY DEF NoRow
  <2>5. Understood = b
    BY <2>4 DEF Understood
  <2>. QED
    BY <2>3, <2>5
<1>3. Generated \in Row
  BY <1>2, FirstSuite DEF Generated, SaveTestGeneration, DropFromVerification, Row,
     Result, Stage, Artifact
<1>. QED
  BY <1>2, <1>3 DEF FailRun, Row, Status, Stage

(* An ORM commit writes a row.                                             *)
LEMMA MergeTyped ==
    ASSUME NEW a \in Row, NEW b \in Row, NEW c \in Row
    PROVE  Merge(a, b, c) \in Row
BY DEF Merge, Row

\* What is written to a row that has not changed since is what is stored.
LEMMA MergeCurrent ==
    ASSUME NEW a \in Row, NEW b \in Row
    PROVE  Merge(a, b, a) = b
BY DEF Merge, Row

-----------------------------------------------------------------------------
(* Steps that only move a request.                                         *)

(* A step may fail, but the web server does not stop.                      *)
Faults == /\ happened \subseteq happened' /\ happened' \subseteq FaultKinds
          /\ happened' \ happened \subseteq {"work", "commit", "redis", "storage"}

(* A step beside another request is an overlap.                            *)
Noticed(r) == overlapped' = (overlapped \/ \E q \in Requests \ {r} : Active(q))

\* A discovery and a scan under way stay those they were.
Keeps(r, q) ==
    /\ q.op = req[r].op
    /\ Alive /\ q.pc \in DiscoveryPlaces => req[r].pc \in DiscoveryPlaces /\ q.dep = req[r].dep
    /\ Alive /\ req[r].branch = "running" => q.branch = "running" /\ q.scan = req[r].scan

\* Nothing changes but the files, the lock of a deletion and the status of a
\* project that exists.
Still ==
    /\ UNCHANGED <<deps, scans, rows, order, runtimes, servers, folders, cachedRun>>
    /\ \/ project' = project
       \/ Alive /\ project' \in {"processing", "ready", "failed"}
    /\ disk' \in Files /\ staged' \in Files /\ (disk' = "none" \/ staged' = "none")
    /\ project = "absent" => staged' = "none"
    /\ deleting' \in Requests \cup {Nobody}

(* A step that writes no table.                                            *)
LEMMA QuietStill ==
    ProjectInv /\ Quiet => Still
<1>. SUFFICES ASSUME ProjectInv, Quiet PROVE Still
  OBVIOUS
<1>1. /\ UNCHANGED <<project, deps, scans, rows, order, runtimes>>
      /\ UNCHANGED <<disk, staged, deleting, servers, folders, cachedRun>>
  BY DEF Quiet, Stores, Disks, Sut
<1>2. /\ disk \in Files /\ staged \in Files /\ (disk = "none" \/ staged = "none")
      /\ deleting \in Requests \cup {Nobody} /\ (project = "absent" => staged = "none")
  BY DEF ProjectInv, TypeInv, TypeOK, UploadInv
<1>. QED
  BY <1>1, <1>2 DEF Still

(* Such a step neither makes nor deletes the project.                      *)
LEMMA StillAlive ==
    Still => Alive' = Alive /\ (project' = "absent" <=> project = "absent")
BY DEF Still, Alive

(* A step that only moves request r.                                       *)
Moves(r) == \E next \in Request :
    To(r, next) /\ Still /\ Keeps(r, next) /\ Suits(r, next)'

(* What is stored suits every request as before.                           *)
LEMMA SuitsStill ==
    ASSUME NEW r \in Requests, Still, Faults, Noticed(r),
           NEW p \in Requests, NEW q \in Request, Suits(p, q)
    PROVE  Suits(p, q)'
<1>0. Alone' => Alone
  BY DEF Alone, Noticed
<1>1. Calm' => Calm
  BY <1>0 DEF Calm, Stopped, Faults
<1>2. Admits(q)' /\ Uploads(q)'
  BY StillAlive DEF Suits, Admits, Admitted, Discovered, Uploads, Still, Faults
<1>3. Scanned(q)' /\ Validates(q)'
  BY <1>0, <1>1, StillAlive DEF Suits, Scanned, Validates, Latest, Still
<1>4. OwnPort(p, q)' /\ Holds(p, q)'
  BY <1>0 DEF Suits, OwnPort, Holds, Bound, Stopped, Still, Faults
<1>. QED
  BY <1>2, <1>3, <1>4 DEF Suits

\* What every step of a request does.
LEMMA Stepping ==
    ASSUME TypeOK, NEW r \in Requests, Noticed(r), NEW next \in Request, To(r, next)
    PROVE  /\ req' \in [Requests -> Request] /\ req'[r] = next
           /\ \A q \in Requests \ {r} : req'[q] = req[q]
           /\ overlapped' \in BOOLEAN
           /\ Alone' => Alone /\ \A q \in Requests \ {r} : ~Active(q)
           /\ Single'
<1>1. /\ req' \in [Requests -> Request] /\ req'[r] = next
      /\ \A q \in Requests \ {r} : req'[q] = req[q]
  BY DEF TypeOK, To
<1>2. overlapped' \in BOOLEAN
  BY DEF TypeOK, Noticed
<1>3. Alone' => Alone /\ \A q \in Requests \ {r} : ~Active(q)
  BY DEF Alone, Noticed
<1>4. Single'
  BY <1>1, <1>3 DEF Single, Active
<1>. QED
  BY <1>1, <1>2, <1>3, <1>4

(* A step that only moves a request keeps the invariant.                   *)
LEMMA MoveKeeps ==
    ASSUME ProjectInv, NEW r \in Requests, Faults, Noticed(r), Moves(r)
    PROVE  ProjectInv'
<1>0. TypeOK
  BY DEF ProjectInv, TypeInv
<1>1. PICK next \in Request : To(r, next) /\ Still /\ Keeps(r, next) /\ Suits(r, next)'
  BY DEF Moves
<1>2. /\ req' \in [Requests -> Request] /\ req'[r] = next
      /\ \A q \in Requests \ {r} : req'[q] = req[q]
      /\ overlapped' \in BOOLEAN /\ (Alone' => Alone) /\ Single'
  BY <1>0, <1>1, Stepping
<1>3. TypeInv'
  <2>1. project' \in {"absent", "uploaded", "processing", "ready", "failed", "deleted"}
    BY <1>0, <1>1 DEF TypeOK, Still
  <2>. QED
    BY <1>1, <1>2, <2>1 DEF ProjectInv, TypeInv, TypeOK, Still, Faults
<1>4. UploadInv'
  BY <1>1, <1>2, StillAlive DEF ProjectInv, UploadInv, Still, Keeps
<1>5. GateInv'
  BY <1>1, <1>2, StillAlive DEF ProjectInv, GateInv, Discovered, Still, Faults, Keeps
<1>6. ScanInv'
  <2>1. Calm' => Calm
    BY <1>2 DEF Calm, Stopped, Faults
  <2>. QED
  BY <1>1, <1>2, <2>1, StillAlive DEF ProjectInv, ScanInv, UploadInv, Latest, Still, Keeps
<1>7. RuntimeInv'
  BY <1>1, <1>2 DEF ProjectInv, RuntimeInv, Retryable, FailedLast, Still
<1>8. ASSUME NEW q \in Requests PROVE Suits(q, req[q])'
  <2>1. CASE q = r
    BY <1>1, <1>2, <2>1
  <2>2. CASE q # r
    <3>1. PICK u \in Request : u = req[q] /\ u = req'[q] /\ Suits(q, u)
      BY <1>0, <1>2, <2>2 DEF ProjectInv, TypeOK
    <3>2. Suits(q, u)'
      BY <1>1, <3>1, SuitsStill
    <3>. QED
      BY <3>1, <3>2
  <2>. QED
    BY <2>1, <2>2
<1>. QED
  BY <1>2, <1>3, <1>4, <1>5, <1>6, <1>7, <1>8 DEF ProjectInv

(* A step without a failure, and one with one.                             *)
LEMMA Working == TypeOK /\ Works => Faults
BY DEF TypeOK, Works, Faults

LEMMA Failing ==
    ASSUME TypeOK, NEW kind \in {"work", "commit", "redis", "storage"}, Fault(kind)
    PROVE  Faults
BY DEF TypeOK, Fault, Faults

\* A step to another place.
Onward(r, pc) ==
    LET next == [req[r] EXCEPT !.pc = pc] IN pc \in Pc /\ Keeps(r, next) /\ Suits(r, next)

(* A request at another place.                                             *)
LEMMA PlaceTyped ==
    ASSUME NEW q \in Request, NEW pc \in Pc
    PROVE  [q EXCEPT !.pc = pc] \in Request
BY DEF Request

(* A request that moves on.                                                *)
Advances(r) == \E next \in Request : To(r, next) /\ Keeps(r, next) /\ Suits(r, next)

(* A request that moves on while nothing else changes.                     *)
LEMMA AdvanceStill ==
    ASSUME ProjectInv, NEW r \in Requests, Advances(r), Still, Faults, Noticed(r)
    PROVE  Moves(r)
BY SuitsStill DEF Advances, Moves

LEMMA AdvanceMoves ==
    ASSUME ProjectInv, NEW r \in Requests, Advances(r), Quiet, Faults, Noticed(r)
    PROVE  Moves(r)
BY QuietStill, AdvanceStill

(* Goto moves on.                                                          *)
LEMMA Going ==
    ASSUME ProjectInv, NEW r \in Requests, NEW pc, Onward(r, pc), Goto(r, pc)
    PROVE  Advances(r)
<1>1. [req[r] EXCEPT !.pc = pc] \in Request
  BY PlaceTyped DEF Onward, ProjectInv, TypeInv, TypeOK
<1>2. To(r, [req[r] EXCEPT !.pc = pc])
  BY DEF Goto, To, ProjectInv, TypeInv, TypeOK
<1>. QED
  BY <1>1, <1>2 DEF Advances, Onward

(* Any operation begins.                                                   *)
LEMMA BeginMoves ==
    ASSUME ProjectInv, NEW r \in Requests, Begin(r), Noticed(r)
    PROVE  Faults /\ Moves(r)
<1>1. Faults
  BY Working DEF Begin, ProjectInv, TypeInv
<1>2. PICK pc \in {"directory", "dependency", "validate", "retry", "stage_files", "state"} :
        /\ Goto(r, pc) /\ Quiet /\ (pc = "directory" <=> req[r].op = "upload")
        /\ At(r, "ready") /\ (req[r].op = "upload" \/ Alive)
        /\ pc = "dependency" => req[r].op = "discover"
        /\ pc = "validate" => req[r].op = "validate"
  BY DEF Begin
<1>3. Onward(r, pc)
  <2>. DEFINE next == [req[r] EXCEPT !.pc = pc]
  <2>1. req[r] \in Request /\ Suits(r, req[r]) /\ req[r] = NewRequest(req[r].op)
    BY <1>2 DEF ProjectInv, TypeInv, TypeOK, Suits, Fits, At
  <2>2. Fits(next)
    BY <1>2, <2>1 DEF Fits, Admitted, StageTwoPlaces, DiscoveryPlaces, UploadPlaces,
       RowPlaces, ValidationPlaces, PortPlaces, Request, NewRequest
  <2>5. Uploads(next)
    BY <1>2, <2>1 DEF Suits, Uploads, Alive, Unused, UploadPlaces, Request, NewRequest
  <2>3. Admits(next) /\ Scanned(next) /\ Validates(next)
    BY <1>2, <2>1 DEF Suits, Admits, Scanned, Validates, Admitted, StageTwoPlaces,
       DiscoveryPlaces, UploadPlaces, RowPlaces, ValidationPlaces, PortPlaces, Request,
       NewRequest
  <2>4. OwnPort(r, next) /\ Holds(r, next)
    BY <1>2, <2>1 DEF Suits, OwnPort, Holds, Admitted, StageTwoPlaces, DiscoveryPlaces,
       UploadPlaces, RowPlaces, ValidationPlaces, PortPlaces, Request, NewRequest, Serving
  <2>. QED
    BY <1>2, <2>1, <2>2, <2>3, <2>4, <2>5 DEF Onward, Keeps, Suits, NewRequest, Admitted,
       StageTwoPlaces, DiscoveryPlaces, UploadPlaces, RowPlaces, ValidationPlaces,
       PortPlaces, Pc
<1>. QED
  BY <1>1, <1>2, <1>3, Going, AdvanceMoves

\* A request may end wherever no server is its own and no scan its branch.
LEMMA Ending ==
    ASSUME ProjectInv, NEW r \in Requests, req[r].pc \notin {"ready", "done", "poll", "execute"} \cup {"launch"},
           req[r].branch \notin {"ahead", "running"}
    PROVE  Onward(r, "done")
<1>. DEFINE next == [req[r] EXCEPT !.pc = "done"]
<1>1. req[r] \in Request /\ Suits(r, req[r])
  BY DEF ProjectInv, TypeInv, TypeOK
<1>2. Fits(next) /\ Uploads(next)
  BY <1>1 DEF Suits, Fits, Uploads, Unused, Request, Admitted, StageTwoPlaces,
     DiscoveryPlaces, UploadPlaces, RowPlaces, ValidationPlaces, PortPlaces
<1>3. Admits(next) /\ Scanned(next) /\ Validates(next)
  BY <1>1 DEF Suits, Admits, Scanned, Validates, Request, Admitted, StageTwoPlaces,
     DiscoveryPlaces, UploadPlaces, RowPlaces, ValidationPlaces, PortPlaces
<1>4. OwnPort(r, next) /\ Holds(r, next)
  BY <1>1 DEF Suits, OwnPort, Holds, Serving, Request, Admitted, StageTwoPlaces,
     DiscoveryPlaces, UploadPlaces, RowPlaces, ValidationPlaces, PortPlaces
<1>. QED
  BY <1>1, <1>2, <1>3, <1>4 DEF Onward, Keeps, Suits, Pc, Admitted, StageTwoPlaces,
     DiscoveryPlaces, UploadPlaces, RowPlaces, ValidationPlaces, PortPlaces

\* The steps of a request that only take it to another place.
Onwards == {<<"discover", "found">>, <<"discover", "unfound">>, <<"source", "stage3">>,
            <<"stage3", "stage4">>, <<"stage3", "complete">>, <<"stage4", "quality">>,
            <<"quality", "plan">>, <<"quality", "complete">>,
            <<"targets", "port">>, <<"targets", "execute">>, <<"existing", "folder">>,
            <<"existing", "fail_runtime">>, <<"directory", "extract">>, <<"extract", "record">>,
            <<"stage_files", "delete_rows">>, <<"delete_rows", "delete_files">>,
            <<"delete_rows", "commit_delete">>, <<"delete_files", "commit_delete">>,
            <<"processing", "discover">>, <<"publish", "join">>}

(* Such a step suits the request.                                          *)
LEMMA Passing ==
    ASSUME ProjectInv, NEW r \in Requests, NEW pc, <<req[r].pc, pc>> \in Onwards
    PROVE  Onward(r, pc)
<1>. DEFINE next == [req[r] EXCEPT !.pc = pc]
<1>0. USE DEF Onwards
<1>1. req[r] \in Request /\ Suits(r, req[r])
  BY DEF ProjectInv, TypeInv, TypeOK
<1>2. Fits(next)
  BY <1>1 DEF Suits, Fits, Request, Admitted, StageTwoPlaces, DiscoveryPlaces,
     UploadPlaces, RowPlaces, ValidationPlaces, PortPlaces
<1>3. Uploads(next)
  BY <1>1 DEF Suits, Uploads, Unused, Request, Admitted, StageTwoPlaces, DiscoveryPlaces,
     UploadPlaces, RowPlaces, ValidationPlaces, PortPlaces
<1>4. Admits(next) /\ Scanned(next) /\ Validates(next)
  <2>1. Admits(next)
    BY <1>1 DEF Suits, Admits, Discovered, Request, Admitted, StageTwoPlaces,
       DiscoveryPlaces, UploadPlaces, RowPlaces, ValidationPlaces, PortPlaces
  <2>2. Scanned(next)
    BY <1>1 DEF Suits, Scanned, Request, Admitted, StageTwoPlaces, DiscoveryPlaces,
       UploadPlaces, RowPlaces, ValidationPlaces, PortPlaces
  <2>3. Validates(next)
    BY <1>1 DEF Suits, Validates, Request, Admitted, StageTwoPlaces, DiscoveryPlaces,
       UploadPlaces, RowPlaces, ValidationPlaces, PortPlaces
  <2>. QED
    BY <2>1, <2>2, <2>3
<1>5. OwnPort(r, next) /\ Holds(r, next)
  BY <1>1 DEF Suits, Fits, OwnPort, Holds, Serving, Request, Admitted, StageTwoPlaces,
     DiscoveryPlaces, UploadPlaces, RowPlaces, ValidationPlaces, PortPlaces
<1>. QED
  BY <1>1, <1>2, <1>3, <1>4, <1>5 DEF Onward, Keeps, Suits, Pc, Admitted, StageTwoPlaces,
     DiscoveryPlaces, UploadPlaces, RowPlaces, ValidationPlaces, PortPlaces

\* The server that answers a request is its own.
LEMMA Answering ==
    ASSUME ProjectInv, NEW r \in Requests, req[r].pc \in {"existing", "poll"}, Bound(req[r].port)
    PROVE  Onward(r, "execute")
<1>. DEFINE next == [req[r] EXCEPT !.pc = "execute"]
<1>1. req[r] \in Request /\ Suits(r, req[r])
  BY DEF ProjectInv, TypeInv, TypeOK
<1>2. Fits(next) /\ Uploads(next)
  BY <1>1 DEF Suits, Fits, Uploads, Unused, Request, Admitted, StageTwoPlaces,
     DiscoveryPlaces, UploadPlaces, RowPlaces, ValidationPlaces, PortPlaces
<1>3. Admits(next) /\ Scanned(next) /\ Validates(next)
  BY <1>1 DEF Suits, Admits, Scanned, Validates, Request, Admitted, StageTwoPlaces,
     DiscoveryPlaces, UploadPlaces, RowPlaces, ValidationPlaces, PortPlaces
<1>4. OwnPort(r, next)
  <2>1. CASE req[r].pc = "existing"
    BY <1>1, <2>1 DEF Suits, OwnPort
  <2>2. CASE req[r].pc = "poll" /\ Alone /\ "orphan" \notin happened
    <3>1. servers[r] = [state |-> "up", port |-> req[r].port]
      BY <1>1, <2>2 DEF Suits, OwnPort, Bound
    <3>. QED
      BY <1>1, <3>1 DEF OwnPort, Request
  <2>3. CASE ~(Alone /\ "orphan" \notin happened)
    BY <2>3 DEF OwnPort
  <2>. QED
    BY <2>1, <2>2, <2>3
<1>5. Holds(r, next)
  BY <1>1 DEF Suits, Holds, Serving, Request
<1>. QED
  BY <1>1, <1>2, <1>3, <1>4, <1>5 DEF Onward, Keeps, Suits, Pc, Admitted, StageTwoPlaces,
     DiscoveryPlaces, UploadPlaces, RowPlaces, ValidationPlaces, PortPlaces

LEMMA PlaceMoves ==
    ASSUME ProjectInv, NEW r \in Requests, Noticed(r),
           \/ CommitAfterDeletion(r) \/ Refuse(r) \/ RefuseValidation(r) \/ DiscoverFiles(r)
           \/ SkipStage(r) \/ SelectTargets(r) \/ UseExisting(r) \/ PollAnswered(r)
    PROVE  Faults /\ Moves(r)
<1>0. TypeOK /\ req[r] \in Request /\ Suits(r, req[r])
  BY DEF ProjectInv, TypeInv, TypeOK
<1>1. CASE CommitAfterDeletion(r)
  <2>1. End(r) /\ Works /\ Quiet /\ Onward(r, "done")
    BY <1>1, Ending DEF CommitAfterDeletion, Committing
  <2>. QED
    BY <1>0, <2>1, Working, Going, AdvanceMoves DEF End
<1>2. CASE Refuse(r)
  <2>1. End(r) /\ Works /\ Quiet /\ req[r].pc = "state"
    BY <1>2 DEF Refuse, ContinuesFrom, At
  <2>2. Onward(r, "done")
    BY <1>0, <2>1, Ending DEF Suits, Fits, StageTwoPlaces, DiscoveryPlaces
  <2>. QED
    BY <1>0, <2>1, <2>2, Working, Going, AdvanceMoves DEF End
<1>3. CASE RefuseValidation(r)
  <2>1. End(r) /\ Works /\ Quiet /\ req[r].pc = "validate"
    BY <1>3 DEF RefuseValidation, At
  <2>2. Onward(r, "done")
    BY <1>0, <2>1, Ending DEF Suits, Fits, StageTwoPlaces, DiscoveryPlaces
  <2>. QED
    BY <1>0, <2>1, <2>2, Working, Going, AdvanceMoves DEF End
<1>4. CASE DiscoverFiles(r)
  <2>1. PICK pc \in {"found", "unfound"} : Goto(r, pc) /\ Quiet /\ (Works \/ Fault("work"))
    BY <1>4 DEF DiscoverFiles
  <2>2. Faults
    BY <1>0, <2>1, Working, Failing
  <2>3. Onward(r, pc)
    BY <1>4, Passing DEF DiscoverFiles, At, Onwards
  <2>. QED
    BY <2>1, <2>2, <2>3, Going, AdvanceMoves
<1>5. CASE SkipStage(r)
  <2>1. PICK pc \in Pc : Goto(r, pc) /\ <<req[r].pc, pc>> \in Onwards
    BY <1>5 DEF SkipStage, At, Onwards, Pc
  <2>2. Works /\ Quiet
    BY <1>5 DEF SkipStage
  <2>. QED
    BY <1>0, <2>1, <2>2, Working, Passing, Going, AdvanceMoves
<1>6. CASE SelectTargets(r)
  <2>1. PICK pc \in Pc : Goto(r, pc) /\ <<req[r].pc, pc>> \in Onwards
    BY <1>6 DEF SelectTargets, At, Onwards, Pc
  <2>2. Works /\ Quiet
    BY <1>6 DEF SelectTargets
  <2>. QED
    BY <1>0, <2>1, <2>2, Working, Passing, Going, AdvanceMoves
<1>7. CASE UseExisting(r)
  <2>1. Works /\ Quiet /\ At(r, "existing")
    BY <1>7 DEF UseExisting
  <2>2. CASE Goto(r, "folder") \/ Goto(r, "fail_runtime")
    BY <1>0, <2>1, <2>2, Working, Passing, Going, AdvanceMoves DEF At, Onwards
  <2>3. CASE Goto(r, "execute") /\ Bound(req[r].port)
    <3>1. Onward(r, "execute")
      BY <1>0, <2>1, <2>3, Answering DEF At
    <3>. QED
      BY <1>0, <2>1, <2>3, <3>1, Working, Going, AdvanceMoves
  <2>. QED
    BY <1>7, <2>2, <2>3 DEF UseExisting
<1>8. CASE PollAnswered(r)
  <2>1. Goto(r, "execute") /\ Works /\ Quiet /\ Onward(r, "execute")
    BY <1>8, Answering DEF PollAnswered, At
  <2>. QED
    BY <1>0, <2>1, Working, Going, AdvanceMoves
<1>. QED
  BY <1>1, <1>2, <1>3, <1>4, <1>5, <1>6, <1>7, <1>8

-----------------------------------------------------------------------------
(* Steps that take something up.                                           *)

\* A set of numbers up to n has a largest one.
LEMMA Largest ==
    ASSUME NEW n \in Nat, NEW T \in SUBSET (1..n), T # {}
    PROVE  \E x \in T : \A y \in T : y <= x
<1>1. PICK U \in SUBSET Nat : U = {k \in Nat : n - k \in T}
  OBVIOUS
<1>2. U # {}
  <2>1. PICK x \in T : TRUE
    OBVIOUS
  <2>2. n - x \in U
    BY <1>1
  <2>. QED
    BY <2>2
<1>3. PICK u \in U : \A y \in U : ~ (<<y, u>> \in OpToRel(<, Nat))
  BY <1>2, NatLessThanWellFounded, WFMin
<1>4. \A y \in U : ~(y < u)
  BY <1>3 DEF OpToRel
<1>5. PICK x \in T : x = n - u
  BY <1>1
<1>6. ASSUME NEW y \in T PROVE y <= x
  <2>1. n - y \in U
    BY <1>1
  <2>. QED
    BY <1>4, <1>5, <2>1
<1>. QED
  BY <1>6

LEMMA Completes ==
    ASSUME TypeInv
    PROVE  /\ LastCompleted \in Runs
           /\ LastCompleted # 0 => LastCompleted \in DOMAIN deps /\ deps[LastCompleted] = "completed"
<1>1. Len(deps) \in Nat /\ CompletedDeps \in SUBSET (1..Len(deps))
  BY DEF TypeInv, TypeOK, CompletedDeps
<1>2. CASE CompletedDeps = {}
  BY <1>2, ProjectAssumption DEF LastCompleted, Runs
<1>3. CASE CompletedDeps # {}
  <2>1. LastCompleted \in CompletedDeps
    BY <1>1, <1>3, Largest DEF LastCompleted
  <2>. QED
    BY <1>1, <2>1, ProjectAssumption DEF CompletedDeps, Runs, TypeInv
<1>. QED
  BY <1>2, <1>3

\* What WorkflowService.state loads.
LEMMA Loads ==
    ASSUME ProjectInv, NEW r \in Requests, req[r].pc = "state"
    PROVE  /\ Loaded(r) \in Request
           /\ Loaded(r).pc = "state" /\ Loaded(r).op = req[r].op
           /\ Loaded(r).branch = req[r].branch /\ Loaded(r).error = req[r].error
           /\ Loaded(r).port = req[r].port
           /\ Loaded(r).dep = Len(deps) /\ Loaded(r).scan = Len(scans)
           /\ Loaded(r).scanSeen = SeenScan(r) /\ Loaded(r).row = NewestRow(r)
           /\ Calm /\ Alive => SeenScan(r) = Latest(scans)
           /\ Loaded(r).cu # 0 =>
                order # <<>> /\ Loaded(r).cu \in 1..MaxRuns
                /\ (Alive => Discovered(Loaded(r).cu))
                /\ (Alone /\ Alive => NewestRow(r) = rows[Loaded(r).cu])
                /\ (Calm => Latest(scans) = "completed")
           /\ NewestRow(r).status # "absent" => Loaded(r).cu # 0
<1>1. TypeOK /\ req[r] \in Request /\ Suits(r, req[r])
  BY DEF ProjectInv, TypeInv, TypeOK
<1>2. Len(deps) \in Runs /\ Len(scans) \in Runs
  BY ProjectAssumption DEF ProjectInv, TypeInv, TypeOK, Runs
<1>3. SeenScan(r) \in RunStatus \cup {"none"}
  BY <1>1 DEF SeenScan, Latest, TypeOK, Request
<1>4. order # <<>> => order[Len(order)] \in 1..MaxRuns /\ Len(order) \in DOMAIN order
  <2>1. order \in Seq(1..MaxRuns)
    BY <1>1 DEF TypeOK
  <2>2. order # <<>> => Len(order) \in 1..Len(order)
    BY <2>1, EmptySeq
  <2>3. \A n \in 1..Len(order) : order[n] \in 1..MaxRuns
    BY <2>1, ElementOfSeq
  <2>4. DOMAIN order = 1..Len(order)
    BY <2>1, LenProperties
  <2>. QED
    BY <2>2, <2>3, <2>4
<1>5. NewestRow(r) \in Row /\ (order = <<>> => NewestRow(r).status = "absent")
  BY <1>1, <1>4, RowTypes DEF NewestRow, SeenRow, TypeOK, Request, NoRow
<1>6. Loaded(r) \in Request
  <2>1. (IF order = <<>> THEN 0 ELSE order[Len(order)]) \in Runs
    BY <1>4, ProjectAssumption DEF Runs
  <2>. QED
    BY <1>1, <1>2, <1>3, <1>5, <2>1 DEF Loaded, Request
<1>7. Calm /\ Alive => SeenScan(r) = Latest(scans)
  <2>1. scans # <<>> => Len(scans) # 0
    BY <1>1 DEF TypeOK
  <2>. QED
    BY <1>1, <2>1 DEF Suits, Scanned, SeenScan, Latest
<1>8. Alone /\ Alive /\ order # <<>> => NewestRow(r) = rows[order[Len(order)]]
  BY <1>1, <1>4 DEF Suits, Validates, NewestRow, SeenRow
<1>9. order # <<>> => Discovered(order[Len(order)])
  BY <1>4 DEF ProjectInv, GateInv
<1>10. Calm /\ order # <<>> => Latest(scans) = "completed"
  BY DEF ProjectInv, ScanInv
<1>. QED
  BY <1>1, <1>4, <1>5, <1>6, <1>7, <1>8, <1>9, <1>10, ProjectAssumption DEF Loaded, Request

\* What the state lets a request go on with suits it.
LEMMA LoadedSuits ==
    ASSUME ProjectInv, NEW r \in Requests, req[r].pc = "state",
           NEW pc \in {"join", "dependency", "admit", "generate", "regenerate"},
           NEW branch \in {"none", "ahead", "ok", "failed"}, NEW dep \in Runs,
           pc \in {"join", "admit"} => dep \in DOMAIN deps /\ deps[dep] = "completed",
           branch = "ahead" => pc \in {"join", "dependency"},
           (pc \in {"join", "dependency"} /\ branch # "ahead") \/ pc = "admit" =>
              SeenScan(r) = "completed",
           pc \in {"generate", "regenerate"} => Loaded(r).cu # 0,
           NEW next, next = [Loaded(r) EXCEPT !.pc = pc, !.branch = branch, !.dep = dep]
    PROVE  next \in Request /\ Keeps(r, next) /\ Suits(r, next)
<1>1. TypeOK /\ req[r] \in Request /\ Suits(r, req[r])
  BY DEF ProjectInv, TypeInv, TypeOK
<1>2. /\ Loaded(r) \in Request
      /\ next = [Loaded(r) EXCEPT !.pc = pc, !.branch = branch, !.dep = dep]
  BY Loads
<1>3. /\ next \in Request /\ next.pc = pc /\ next.branch = branch /\ next.dep = dep
      /\ next.op = req[r].op /\ next.error = req[r].error /\ next.port = req[r].port
      /\ next.cu = Loaded(r).cu /\ next.row = NewestRow(r)
      /\ next.scan = Len(scans) /\ next.scanSeen = SeenScan(r)
  <2>1. next \in Request
    <3>1. pc \in Pc /\ branch \in {"none", "ahead", "running", "ok", "failed"}
      BY DEF Pc
    <3>. QED
      BY <1>2, <3>1 DEF Request
  <2>. QED
    BY <1>2, <2>1, Loads DEF Request
<1>4. deps \in Seq(RunStatus) => 0 \notin DOMAIN deps
  OBVIOUS
<1>5. Fits(next)
  BY <1>1, <1>3, <1>4 DEF Suits, Fits, TypeOK, Admitted, StageTwoPlaces, DiscoveryPlaces,
     UploadPlaces, RowPlaces, ValidationPlaces, PortPlaces
<1>6. Uploads(next)
  BY <1>1, <1>3 DEF Suits, Uploads, Unused, Admitted, StageTwoPlaces, DiscoveryPlaces,
     UploadPlaces, RowPlaces, ValidationPlaces, PortPlaces
<1>7. Admits(next)
  BY <1>3, Loads DEF Admits, Discovered, Admitted, StageTwoPlaces, DiscoveryPlaces,
     UploadPlaces, RowPlaces, ValidationPlaces, PortPlaces
<1>8. Scanned(next)
  BY <1>3, Loads DEF Scanned, Admitted, StageTwoPlaces, DiscoveryPlaces, UploadPlaces,
     RowPlaces, ValidationPlaces, PortPlaces
<1>9. Validates(next)
  BY <1>3, Loads DEF Validates, Admitted, StageTwoPlaces, DiscoveryPlaces, UploadPlaces,
     RowPlaces, ValidationPlaces, PortPlaces
<1>10. OwnPort(r, next) /\ Holds(r, next)
  BY <1>1, <1>3 DEF Suits, OwnPort, Holds, Serving, Admitted, StageTwoPlaces,
     DiscoveryPlaces, UploadPlaces, RowPlaces, ValidationPlaces, PortPlaces
<1>11. Keeps(r, next)
  BY <1>1, <1>3 DEF Keeps, Suits, Fits, Admitted, StageTwoPlaces, DiscoveryPlaces,
     UploadPlaces, RowPlaces, ValidationPlaces, PortPlaces
<1>. QED
  BY <1>3, <1>5, <1>6, <1>7, <1>8, <1>9, <1>10, <1>11 DEF Suits

LEMMA GateMoves ==
    ASSUME ProjectInv, NEW r \in Requests, Noticed(r),
           \/ ContinueStageTwo(r) \/ ContinueStageThree(r) \/ ContinueStageFour(r) \/ Resume(r)
    PROVE  Faults /\ Moves(r)
<1>0. TypeOK /\ req[r] \in Request /\ Suits(r, req[r]) /\ req[r].pc = "state"
  BY DEF ProjectInv, TypeInv, TypeOK, ContinueStageTwo, ContinueStageThree,
     ContinueStageFour, Resume, ContinuesFrom, At
<1>1. Faults /\ Quiet
  BY <1>0, Working DEF ContinueStageTwo, ContinueStageThree, ContinueStageFour, Resume
<1>2. /\ Loaded(r) \in Request /\ Loaded(r).dep = Len(deps)
      /\ Loaded(r).branch = req[r].branch /\ Len(deps) \in Runs /\ 0 \in Runs
  BY <1>0, Loads, ProjectAssumption DEF ProjectInv, TypeInv, TypeOK, Runs
<1>3. req[r].branch \in {"none", "ok", "failed"}
  BY <1>0 DEF Suits, Fits, StageTwoPlaces, DiscoveryPlaces, Request
<1>4. Latest(deps) = "completed" =>
        Len(deps) \in DOMAIN deps /\ deps[Len(deps)] = "completed"
  <2>1. deps # <<>> => Len(deps) \in DOMAIN deps
    BY <1>0, EmptySeq DEF TypeOK
  <2>. QED
    BY <2>1 DEF Latest
<1>5. ASSUME NEW dep, NEW pc,
             dep \in Runs,
             pc = "completed" => dep \in DOMAIN deps /\ deps[dep] = "completed",
             To(r, StageTwo([Loaded(r) EXCEPT !.dep = dep], pc, SeenScan(r)))
      PROVE  Advances(r)
  <2>1. PICK to, branch :
          /\ to = (IF pc = "completed" THEN "join" ELSE "dependency")
          /\ branch = (IF SeenScan(r) = "completed" THEN "none" ELSE "ahead")
    OBVIOUS
  <2>2. PICK next : next = [Loaded(r) EXCEPT !.pc = to, !.branch = branch, !.dep = dep]
    OBVIOUS
  <2>3. next = StageTwo([Loaded(r) EXCEPT !.dep = dep], pc, SeenScan(r))
    BY <1>2, <2>1, <2>2 DEF StageTwo, Request
  <2>4. next \in Request /\ Keeps(r, next) /\ Suits(r, next)
    <3>1. to \in {"join", "dependency"} /\ branch \in {"none", "ahead"}
      BY <2>1
    <3>. QED
      BY <1>0, <1>5, <2>1, <2>2, <3>1, LoadedSuits
  <2>. QED
    BY <1>5, <2>3, <2>4 DEF Advances
<1>6. CASE ContinueStageTwo(r)
  <2>1. Loaded(r) = [Loaded(r) EXCEPT !.dep = Len(deps)]
    BY <1>2 DEF Request
  <2>2. To(r, StageTwo([Loaded(r) EXCEPT !.dep = Len(deps)], Latest(deps), SeenScan(r)))
    BY <1>6, <2>1 DEF ContinueStageTwo
  <2>3. PICK dep, pc : dep = Len(deps) /\ pc = Latest(deps)
    OBVIOUS
  <2>4. Advances(r)
    BY <1>2, <1>4, <1>5, <2>2, <2>3
  <2>. QED
    BY <1>1, <2>4, AdvanceMoves
<1>7. CASE Resume(r)
  <2>1. PICK dep, pc : dep = LastCompleted /\ pc = (IF dep = 0 THEN "none" ELSE "completed")
    OBVIOUS
  <2>2. To(r, StageTwo([Loaded(r) EXCEPT !.dep = dep], pc, SeenScan(r)))
    BY <1>7, <2>1 DEF Resume
  <2>3. dep \in Runs /\ (dep # 0 => dep \in DOMAIN deps /\ deps[dep] = "completed")
    BY <2>1, Completes DEF ProjectInv
  <2>4. Advances(r)
    BY <1>5, <2>1, <2>2, <2>3
  <2>. QED
    BY <1>1, <2>4, AdvanceMoves
<1>8. ASSUME NEW pc, To(r, [Loaded(r) EXCEPT !.pc = pc]),
             \/ pc = "admit" /\ Latest(deps) = "completed" /\ SeenScan(r) = "completed"
             \/ pc \in {"generate", "regenerate"} /\ Loaded(r).cu # 0
      PROVE  Advances(r)
  <2>1. PICK dep, branch : dep = Loaded(r).dep /\ branch = Loaded(r).branch
    OBVIOUS
  <2>2. PICK next : next = [Loaded(r) EXCEPT !.pc = pc, !.branch = branch, !.dep = dep]
    OBVIOUS
  <2>3. next = [Loaded(r) EXCEPT !.pc = pc]
    BY <1>2, <2>1, <2>2 DEF Request
  <2>4. next \in Request /\ Keeps(r, next) /\ Suits(r, next)
    <3>1. /\ pc \in {"admit", "generate", "regenerate"} /\ branch \in {"none", "ok", "failed"}
          /\ dep \in Runs
          /\ pc = "admit" => dep \in DOMAIN deps /\ deps[dep] = "completed"
      BY <1>2, <1>3, <1>4, <1>8, <2>1
    <3>. QED
      BY <1>0, <1>8, <2>2, <3>1, LoadedSuits
  <2>. QED
    BY <1>8, <2>3, <2>4 DEF Advances
<1>9. CASE ContinueStageThree(r)
  <2>1. Advances(r)
    BY <1>8, <1>9 DEF ContinueStageThree, MayUnderstand
  <2>. QED
    BY <1>1, <2>1, AdvanceMoves
<1>10. CASE ContinueStageFour(r)
  <2>1. PICK pc \in {"generate", "regenerate"} : To(r, [Loaded(r) EXCEPT !.pc = pc])
    BY <1>10 DEF ContinueStageFour
  <2>2. NewestRow(r).status # "absent"
    BY <1>10 DEF ContinueStageFour, MayGenerate, RetriesStageFour, StateSeen, State
  <2>3. Advances(r)
    BY <1>0, <1>8, <2>1, <2>2, Loads
  <2>. QED
    BY <1>1, <2>3, AdvanceMoves
<1>. QED
  BY <1>6, <1>7, <1>9, <1>10

\* The row of its dependency run, as a request finds it.
LEMMA AdmittingRow ==
    ASSUME ProjectInv, NEW r \in Requests, req[r].pc \in {"admit", "force"}
    PROVE  /\ Admitting(r) \in Request
           /\ Admitting(r).cu = req[r].dep /\ req[r].dep \in 1..MaxRuns
           /\ Admitting(r).row = SeenRow(r, req[r].dep) /\ SeenRow(r, req[r].dep) \in Row
           /\ Alive => Discovered(req[r].dep)
           /\ Alone /\ Alive => SeenRow(r, req[r].dep) = rows[req[r].dep]
<1>1. TypeOK /\ req[r] \in Request /\ Suits(r, req[r])
  BY DEF ProjectInv, TypeInv, TypeOK
<1>2. req[r].dep \in 1..MaxRuns
  BY <1>1, ProjectAssumption DEF Suits, Fits, Admitted, Request, Runs
<1>3. SeenRow(r, req[r].dep) \in Row
  BY <1>1, <1>2 DEF SeenRow, TypeOK, Request
<1>4. Admitting(r) \in Request
  BY <1>1, <1>3 DEF Admitting, Request
<1>5. Alive => Discovered(req[r].dep)
  BY <1>1 DEF Suits, Admits, Admitted
<1>6. Alone /\ Alive => SeenRow(r, req[r].dep) = rows[req[r].dep]
  BY <1>1, <1>2 DEF Suits, Validates, SeenRow
<1>. QED
  BY <1>1, <1>2, <1>3, <1>4, <1>5, <1>6 DEF Admitting, Request

LEMMA ReturnedForm ==
    ASSUME NEW q \in Request
    PROVE  \E pc \in {"state", "done"}, stage \in 1..3 :
             Returned(q) = [q EXCEPT !.pc = pc, !.stage = stage]
<1>1. CASE q.op = "upload"
  BY <1>1 DEF Returned
<1>2. CASE q.op # "upload"
  <2>1. q.stage \in 1..3 /\ [q EXCEPT !.pc = "done"] = [q EXCEPT !.pc = "done", !.stage = q.stage]
    BY DEF Request
  <2>. QED
    BY <1>2, <2>1 DEF Returned
<1>. QED
  BY <1>1, <1>2

LEMMA TakeMoves ==
    ASSUME ProjectInv, NEW r \in Requests, Noticed(r),
           \/ Join(r) \/ ScanAfterDeletion(r) \/ AdmitNothing(r) \/ LoadRetried(r)
           \/ ResolveSources(r) \/ FindPort(r)
    PROVE  Faults /\ Moves(r)
<1>0. TypeOK /\ req[r] \in Request /\ Suits(r, req[r])
  BY DEF ProjectInv, TypeInv, TypeOK
<1>1. Faults /\ Quiet
  BY <1>0, Working DEF Join, ScanAfterDeletion, AdmitNothing, LoadRetried, ResolveSources,
     FindPort
<1>2. SUFFICES Advances(r)
  BY <1>1, AdvanceMoves
<1>3. CASE Join(r)
  <2>1. req[r].pc = "join" /\ req[r].branch \notin {"ahead", "running"}
    BY <1>3 DEF Join, At
  <2>2. CASE req[r].error \/ req[r].branch = "failed"
    <3>1. To(r, [req[r] EXCEPT !.pc = "done"])
      BY <1>3, <2>2 DEF Join
    <3>2. End(r)
      BY <1>0, <3>1 DEF To, End, Goto, TypeOK
    <3>. QED
      BY <2>1, <3>2, Ending, Going DEF End
  <2>3. CASE ~(req[r].error \/ req[r].branch = "failed")
    <3>1. PICK pc \in {"state", "admit", "force", "done"} :
             /\ To(r, [req[r] EXCEPT !.stage = 2, !.branch = "none", !.pc = pc])
             /\ pc \in {"admit", "force"} => req[r].op # "discover"
      BY <1>3, <2>3 DEF Join
    <3>. DEFINE next == [req[r] EXCEPT !.stage = 2, !.branch = "none", !.pc = pc]
    <3>2. pc \in Pc
      BY DEF Pc
    <3>3. next \in Request
      <4>1. [req[r] EXCEPT !.stage = 2] \in Request
        BY <1>0 DEF Request
      <4>2. [[req[r] EXCEPT !.stage = 2] EXCEPT !.branch = "none"] \in Request
        BY <4>1 DEF Request
      <4>. QED
        BY <3>2, <4>2 DEF Request
    <3>10. req[r].branch \in {"none", "ok"}
      BY <1>0, <2>1, <2>3 DEF Request
    <3>4. Fits(next)
      BY <1>0, <2>1, <2>3 DEF Suits, Fits, Request, Admitted, StageTwoPlaces,
         DiscoveryPlaces, UploadPlaces, RowPlaces, ValidationPlaces, PortPlaces
    <3>5. Uploads(next)
      BY <1>0, <2>1 DEF Suits, Uploads, Unused, Request, Admitted, StageTwoPlaces,
         DiscoveryPlaces, UploadPlaces, RowPlaces, ValidationPlaces, PortPlaces
    <3>6. Admits(next) /\ Validates(next)
      BY <1>0, <2>1, <2>3 DEF Suits, Admits, Validates, Request, Admitted, StageTwoPlaces,
         DiscoveryPlaces, UploadPlaces, RowPlaces, ValidationPlaces, PortPlaces
    <3>7. Scanned(next)
      BY <1>0, <2>1, <3>1, <3>10 DEF Suits, Scanned, Request, StageTwoPlaces,
         DiscoveryPlaces
    <3>8. OwnPort(r, next) /\ Holds(r, next)
      BY <1>0, <2>1 DEF Suits, OwnPort, Holds, Serving, Request
    <3>9. Keeps(r, next)
      BY <1>0, <2>1 DEF Keeps, Request, DiscoveryPlaces
    <3>. QED
      BY <3>1, <3>3, <3>4, <3>5, <3>6, <3>7, <3>8, <3>9 DEF Advances, Suits
  <2>. QED
    BY <2>2, <2>3
<1>4. CASE ScanAfterDeletion(r)
  <2>. DEFINE next == [req[r] EXCEPT !.branch = "failed"]
  <2>1. ~Alive /\ req[r].branch \in {"ahead", "running"} /\ To(r, next) /\ project # "absent"
    BY <1>4 DEF ScanAfterDeletion, Alive
  <2>2. next \in Request
    BY <1>0 DEF Request
  <2>3. Fits(next) /\ Uploads(next)
    BY <1>0, <2>1 DEF Suits, Fits, Uploads, Request, NewRequest, Admitted, StageTwoPlaces,
       DiscoveryPlaces, UploadPlaces, RowPlaces, ValidationPlaces, PortPlaces
  <2>4. Admits(next) /\ Scanned(next) /\ Validates(next)
    BY <2>1 DEF Admits, Scanned, Validates
  <2>5. OwnPort(r, next) /\ Holds(r, next)
    BY <1>0, <2>1 DEF Suits, OwnPort, Holds, Request
  <2>. QED
    BY <2>1, <2>2, <2>3, <2>4, <2>5 DEF Advances, Suits, Keeps, Request
<1>5. CASE AdmitNothing(r)
  <2>1. req[r].pc = "admit"
    BY <1>5 DEF AdmitNothing, At
  <2>2. CASE End(r)
    BY <1>0, <2>1, <2>2, Ending, Going DEF End, Suits, Fits, StageTwoPlaces, DiscoveryPlaces
  <2>3. CASE To(r, Returned(Admitting(r)))
    <3>1. PICK pc \in {"state", "done"}, stage \in 1..3 :
            Returned(Admitting(r)) = [Admitting(r) EXCEPT !.pc = pc, !.stage = stage]
      BY <2>1, AdmittingRow, ReturnedForm
    <3>. DEFINE next == [Admitting(r) EXCEPT !.pc = pc, !.stage = stage]
    <3>2. pc \in Pc
      BY DEF Pc
    <3>3. next \in Request
      BY <2>1, <3>2, AdmittingRow DEF Request
    <3>4. /\ next.pc = pc /\ next.cu = req[r].dep /\ next.row = SeenRow(r, req[r].dep)
          /\ next.op = req[r].op /\ next.branch = req[r].branch /\ next.scan = req[r].scan
          /\ next.scanSeen = req[r].scanSeen /\ next.port = req[r].port
      BY <1>0, <2>1, <3>1, AdmittingRow DEF Admitting, Request
    <3>5. Fits(next) /\ Uploads(next)
      BY <1>0, <2>1, <3>4 DEF Suits, Fits, Uploads, Unused, Admitted, StageTwoPlaces,
         DiscoveryPlaces, UploadPlaces, RowPlaces, ValidationPlaces, PortPlaces
    <3>6. Admits(next) /\ Scanned(next) /\ Validates(next)
      BY <1>0, <2>1, <3>4, AdmittingRow DEF Suits, Admits, Scanned, Validates, Admitted,
         StageTwoPlaces, DiscoveryPlaces, UploadPlaces, RowPlaces, ValidationPlaces,
         PortPlaces
    <3>7. OwnPort(r, next) /\ Holds(r, next)
      BY <1>0, <2>1, <3>4 DEF Suits, OwnPort, Holds, Serving
    <3>8. Keeps(r, next)
      BY <1>0, <2>1, <3>4 DEF Keeps, Suits, Fits, StageTwoPlaces, DiscoveryPlaces
    <3>. QED
      BY <2>3, <3>1, <3>3, <3>5, <3>6, <3>7, <3>8 DEF Advances, Suits
  <2>. QED
    BY <1>5, <2>2, <2>3 DEF AdmitNothing
<1>6. CASE LoadRetried(r)
  <2>1. PICK i \in DOMAIN order, pc \in {"done", "rerun", "revalidate"} :
          To(r, [[req[r] EXCEPT !.cu = order[i], !.dep = order[i], !.row = rows[order[i]]]
                   EXCEPT !.pc = pc])
    BY <1>6 DEF LoadRetried
  <2>2. order[i] \in 1..MaxRuns /\ order[i] \in Runs
    BY <1>0, ElementOfSeq, LenProperties, ProjectAssumption DEF TypeOK, Runs
  <2>3. PICK d \in 1..MaxRuns : d = order[i] /\ d \in Runs /\ Discovered(d)
    BY <2>2 DEF ProjectInv, GateInv
  <2>. DEFINE next == [req[r] EXCEPT !.cu = d, !.dep = d, !.row = rows[d], !.pc = pc]
  <2>4. To(r, next) /\ pc \in Pc /\ rows[d] \in Row /\ req[r].pc = "retry"
    BY <1>0, <1>6, <2>1, <2>3 DEF Pc, TypeOK, LoadRetried, At
  <2>10. Calm => Latest(scans) = "completed"
    BY <1>6 DEF ProjectInv, ScanInv, LoadRetried
  <2>5. next \in Request
    BY <1>0, <2>3, <2>4 DEF Request
  <2>6. Fits(next) /\ Uploads(next)
    BY <1>0, <2>4 DEF Suits, Fits, Uploads, Unused, Request, Admitted, StageTwoPlaces,
       DiscoveryPlaces, UploadPlaces, RowPlaces, ValidationPlaces, PortPlaces
  <2>7. Admits(next) /\ Scanned(next) /\ Validates(next)
    BY <1>0, <2>3, <2>4, <2>10 DEF Suits, Admits, Scanned, Validates, Request, Admitted,
       StageTwoPlaces, DiscoveryPlaces, UploadPlaces, RowPlaces, ValidationPlaces,
       PortPlaces
  <2>8. OwnPort(r, next) /\ Holds(r, next)
    BY <1>0, <2>4 DEF Suits, OwnPort, Holds, Serving, Request
  <2>9. Keeps(r, next)
    BY <1>0, <2>4 DEF Keeps, Suits, Fits, Request, StageTwoPlaces, DiscoveryPlaces
  <2>. QED
    BY <2>4, <2>5, <2>6, <2>7, <2>8, <2>9 DEF Advances, Suits
<1>7. CASE ResolveSources(r)
  <2>1. req[r].pc = "source"
    BY <1>7 DEF ResolveSources, At
  <2>2. CASE End(r)
    BY <1>0, <2>1, <2>2, Ending, Going DEF End, Suits, Fits, StageTwoPlaces, DiscoveryPlaces
  <2>3. CASE Goto(r, "stage3")
    BY <2>1, <2>3, Passing, Going DEF Onwards
  <2>4. CASE To(r, Returned(req[r]))
    <3>1. PICK pc \in {"state", "done"}, stage \in 1..3 :
            Returned(req[r]) = [req[r] EXCEPT !.pc = pc, !.stage = stage]
      BY <1>0, ReturnedForm
    <3>. DEFINE next == [req[r] EXCEPT !.pc = pc, !.stage = stage]
    <3>2. pc \in Pc
      BY DEF Pc
    <3>3. next \in Request
      BY <1>0, <3>2 DEF Request
    <3>4. Fits(next) /\ Uploads(next)
      BY <1>0, <2>1 DEF Suits, Fits, Uploads, Unused, Request, Admitted, StageTwoPlaces,
         DiscoveryPlaces, UploadPlaces, RowPlaces, ValidationPlaces, PortPlaces
    <3>5. Admits(next) /\ Scanned(next) /\ Validates(next)
      BY <1>0, <2>1 DEF Suits, Admits, Scanned, Validates, Request, Admitted,
         StageTwoPlaces, DiscoveryPlaces, UploadPlaces, RowPlaces, ValidationPlaces,
         PortPlaces
    <3>6. OwnPort(r, next) /\ Holds(r, next)
      BY <1>0, <2>1 DEF Suits, OwnPort, Holds, Serving, Request
    <3>7. Keeps(r, next)
      BY <1>0, <2>1 DEF Keeps, Suits, Fits, Request, StageTwoPlaces, DiscoveryPlaces
    <3>. QED
      BY <2>4, <3>1, <3>3, <3>4, <3>5, <3>6, <3>7 DEF Advances, Suits
  <2>. QED
    BY <1>7, <2>2, <2>3, <2>4 DEF ResolveSources
<1>8. CASE FindPort(r)
  <2>1. PICK p \in Ports : ~Bound(p) /\ To(r, [req[r] EXCEPT !.pc = "existing", !.port = p])
    BY <1>8 DEF FindPort
  <2>. DEFINE next == [req[r] EXCEPT !.pc = "existing", !.port = p]
  <2>2. req[r].pc = "port" /\ "existing" \in Pc
    BY <1>8 DEF FindPort, At, Pc
  <2>3. next \in Request
    BY <1>0, <2>2 DEF Request
  <2>4. Fits(next) /\ Uploads(next)
    BY <1>0, <2>2 DEF Suits, Fits, Uploads, Unused, Request, Admitted, StageTwoPlaces,
       DiscoveryPlaces, UploadPlaces, RowPlaces, ValidationPlaces, PortPlaces
  <2>5. Admits(next) /\ Scanned(next) /\ Validates(next)
    BY <1>0, <2>2 DEF Suits, Admits, Scanned, Validates, Request, Admitted,
       StageTwoPlaces, DiscoveryPlaces, UploadPlaces, RowPlaces, ValidationPlaces,
       PortPlaces
  <2>6. OwnPort(r, next) /\ Holds(r, next)
    BY <1>0, <2>1, <2>2 DEF Suits, OwnPort, Holds, Serving, Request
  <2>7. Keeps(r, next)
    BY <1>0, <2>2 DEF Keeps, Suits, Fits, Request, StageTwoPlaces, DiscoveryPlaces
  <2>. QED
    BY <2>1, <2>3, <2>4, <2>5, <2>6, <2>7 DEF Advances, Suits
<1>. QED
  BY <1>3, <1>4, <1>5, <1>6, <1>7, <1>8

-----------------------------------------------------------------------------
(* Steps that commit a pipeline row.                                       *)

\* What a row may become, and who may write it.
Writes(new, q) ==
    /\ q.cu # 0 /\ Discovered(q.cu)
    /\ Alone => q.row = rows[q.cu] /\ (AtValidation(new) => FailedLast(q.cu))
    /\ Calm => Latest(scans) = "completed"

(* A step of r that commits a row.                                         *)
Commits(r) == \E next \in Request, new \in Row :
    /\ CommitRow(r, new, next) /\ Writes(new, next)
    /\ Keeps(r, next)
    /\ next.pc \notin {"ready"} \cup ValidationPlaces
    /\ Fits(next) /\ Uploads(next) /\ Admits(next) /\ Scanned(next)
    /\ OwnPort(r, next) /\ Holds(r, next)
    /\ order' = order \/ order' = Append(order, next.cu)
    /\ cachedRun' \in Runs

(* A request that has not begun has nothing yet.                           *)
LEMMA ReadyFits ==
    ASSUME NEW q, Fits(q), q.pc = "ready"
    PROVE  q.cu = 0 /\ q.scan = 0 /\ q.dep = 0 /\ q.branch = "none" /\ q.port = 0
BY DEF Fits, NewRequest

(* A step that commits a row keeps the invariant.                          *)
LEMMA CommitKeeps ==
    ASSUME ProjectInv, NEW r \in Requests, Faults, Noticed(r), Commits(r)
    PROVE  ProjectInv'
<1>0. TypeOK
  BY DEF ProjectInv, TypeInv
<1>1. PICK next \in Request, new \in Row :
        /\ CommitRow(r, new, next) /\ Writes(new, next) /\ Keeps(r, next)
        /\ next.pc \notin {"ready"} \cup ValidationPlaces
        /\ Fits(next) /\ Uploads(next) /\ Admits(next) /\ Scanned(next)
        /\ OwnPort(r, next) /\ Holds(r, next)
        /\ order' = order \/ order' = Append(order, next.cu)
        /\ cachedRun' \in Runs
  BY DEF Commits
<1>2. next.cu \in 1..MaxRuns /\ next.row \in Row /\ rows[next.cu] \in Row
  BY <1>0, <1>1, ProjectAssumption DEF Writes, Request, Runs, TypeOK
<1>3. PICK stored \in Row : stored = Merge(next.row, new, rows[next.cu])
  BY <1>2, MergeTyped
<1>4. PICK q \in Request : q = [next EXCEPT !.row = stored]
  <2>1. [next EXCEPT !.row = stored] \in Request
    BY DEF Request
  <2>. QED
    BY <2>1
<1>5. /\ q.pc = next.pc /\ q.op = next.op /\ q.cu = next.cu /\ q.dep = next.dep
      /\ q.branch = next.branch /\ q.error = next.error /\ q.scan = next.scan
      /\ q.scanSeen = next.scanSeen /\ q.port = next.port /\ q.row = stored
  BY <1>4 DEF Request
<1>6. /\ CanCommit /\ rows' = [rows EXCEPT ![next.cu] = stored] /\ To(r, q)
      /\ UNCHANGED <<project, deps, scans, runtimes, disk, staged, deleting, servers, folders>>
  BY <1>1, <1>3, <1>4 DEF CommitRow, Disks, Sut
<1>7. /\ req' \in [Requests -> Request] /\ req'[r] = q
      /\ \A p \in Requests \ {r} : req'[p] = req[p]
  BY <1>0, <1>6 DEF TypeOK, To
<1>8. /\ rows' \in [1..MaxRuns -> Row] /\ rows'[next.cu] = stored
      /\ \A d \in 1..MaxRuns : d # next.cu => rows'[d] = rows[d]
  BY <1>0, <1>2, <1>6 DEF TypeOK
<1>9. /\ order' \in Seq(1..MaxRuns)
      /\ \A i \in DOMAIN order' : order'[i] = next.cu \/ \E j \in DOMAIN order : order'[i] = order[j]
  <2>1. order \in Seq(1..MaxRuns)
    BY <1>0 DEF TypeOK
  <2>2. CASE order' = order
    BY <2>1, <2>2
  <2>3. CASE order' = Append(order, next.cu)
    BY <1>2, <2>1, <2>3, AppendProperties
  <2>. QED
    BY <1>1, <2>2, <2>3
<1>10. Alone' => Alone /\ \A p \in Requests \ {r} : ~Active(p)
  BY DEF Alone, Noticed
<1>11. Calm' => Calm
  BY <1>10 DEF Calm, Stopped, Faults
<1>12. Alive /\ Alive' /\ (Alone => stored = new)
  BY <1>1, <1>2, <1>3, <1>6, MergeCurrent DEF CanCommit, Alive, Writes
<1>13. TypeInv'
  BY <1>0, <1>1, <1>6, <1>7, <1>8, <1>9 DEF ProjectInv, TypeInv, TypeOK, Faults, Noticed
<1>14. UploadInv' /\ Single'
  BY <1>1, <1>5, <1>6, <1>7, <1>10, <1>12 DEF ProjectInv, UploadInv, Single, Active, Keeps
<1>15. \A d : Discovered(d) => Discovered(d)'
  BY <1>6 DEF Discovered, Faults
<1>16. GateInv'
  <2>1. Discovered(next.cu)'
    BY <1>1, <1>15 DEF Writes
  <2>2. \A d \in 1..MaxRuns : rows'[d].status # "absent" => Discovered(d)'
    BY <1>8, <1>15, <2>1 DEF ProjectInv, GateInv
  <2>3. (\A i \in DOMAIN order : Discovered(order[i]))'
    BY <1>9, <1>15, <2>1 DEF ProjectInv, GateInv, Discovered
  <2>4. \A p, u \in Requests :
          req'[p].pc \in DiscoveryPlaces /\ req'[u].pc \in DiscoveryPlaces
             /\ req'[p].dep = req'[u].dep => p = u
    BY <1>1, <1>5, <1>7, <1>12 DEF ProjectInv, GateInv, Keeps
  <2>. QED
    BY <2>2, <2>3, <2>4 DEF GateInv
<1>17. ScanInv'
  BY <1>1, <1>2, <1>5, <1>6, <1>7, <1>8, <1>11, <1>12 DEF ProjectInv, ScanInv, Latest,
     Keeps, Writes
<1>18. RuntimeInv'
  <2>1. \A d : FailedLast(d) => FailedLast(d)'
    BY <1>6 DEF FailedLast
  <2>. QED
    BY <1>1, <1>2, <1>8, <1>10, <1>12, <2>1 DEF ProjectInv, RuntimeInv, Retryable, Writes
<1>19. ASSUME NEW p \in Requests PROVE Suits(p, req[p])'
  <2>1. CASE p = r
    <3>1. Fits(q) /\ Uploads(q)'
      BY <1>1, <1>5, <1>6, <1>12 DEF Fits, Uploads, Unused, Alive, Admitted,
         StageTwoPlaces, DiscoveryPlaces, UploadPlaces, RowPlaces, ValidationPlaces,
         PortPlaces
    <3>2. Admits(q)'
      BY <1>1, <1>5, <1>6, <1>12, <1>15 DEF Admits, Admitted, Faults
    <3>3. Scanned(q)'
      BY <1>1, <1>5, <1>6, <1>11, <1>12 DEF Scanned, Latest
    <3>4. Validates(q)'
      BY <1>1, <1>5, <1>8 DEF Validates, ValidationPlaces
    <3>5. OwnPort(r, q)' /\ Holds(r, q)'
      BY <1>1, <1>5, <1>6, <1>10 DEF OwnPort, Holds, Bound, Stopped, Faults
    <3>. QED
      BY <1>7, <2>1, <3>1, <3>2, <3>3, <3>4, <3>5 DEF Suits
  <2>2. CASE p # r
    <3>1. PICK u \in Request : u = req[p] /\ u = req'[p] /\ Suits(p, u)
      BY <1>0, <1>7, <2>2 DEF ProjectInv, TypeOK
    <3>2. Admits(u)' /\ Uploads(u)'
      BY <1>6, <1>12, <1>15, <3>1 DEF Suits, Admits, Admitted, Uploads, Faults
    <3>3. Scanned(u)'
      BY <1>6, <1>11, <1>12, <3>1 DEF Suits, Scanned, Latest
    <3>4. Validates(u)'
      <4>1. Alone' => u.pc \in {"ready", "done"}
        BY <1>10, <2>2, <3>1 DEF Active
      <4>2. u.pc = "ready" => u.cu = 0
        BY <3>1, ReadyFits DEF Suits
      <4>. QED
        BY <4>1, <4>2 DEF Validates, ValidationPlaces
    <3>5. OwnPort(p, u)' /\ Holds(p, u)'
      BY <1>6, <1>10, <3>1 DEF Suits, OwnPort, Holds, Bound, Stopped, Faults
    <3>. QED
      BY <3>1, <3>2, <3>3, <3>4, <3>5 DEF Suits
  <2>. QED
    BY <2>1, <2>2
<1>. QED
  BY <1>13, <1>14, <1>16, <1>17, <1>18, <1>19 DEF ProjectInv

\* The repository's methods make rows, and only a failure leaves a row that
\* failed at Runtime Validation, unless it did so before.
LEMMA FreshRows ==
    /\ CreateRun \in Row /\ ~AtValidation(CreateRun)
    /\ PrepareArtifactRegeneration \in Row /\ ~AtValidation(PrepareArtifactRegeneration)
BY RowTypes DEF CreateRun, PrepareArtifactRegeneration, Row, Status, AtValidation

(* A row that is prepared for a retry or another stage.                    *)
LEMMA PreparedRows ==
    ASSUME NEW row \in Row
    PROVE  /\ MarkRunning(row) \in Row /\ ~AtValidation(MarkRunning(row))
           /\ PrepareForcedRerun(row) \in Row /\ ~AtValidation(PrepareForcedRerun(row))
           /\ PrepareRetry(row) \in Row /\ ~AtValidation(PrepareRetry(row))
           /\ SaveTestGeneration(row, S1) \in Row
           /\ AtValidation(SaveTestGeneration(row, S1)) => AtValidation(row)
<1>1. row.result \in Result /\ NoSuite \in Artifact /\ S1 \in Suite /\ S1 \in Artifact
  BY FirstSuite DEF Row, Artifact
<1>2. ASSUME NEW res \in Result
      PROVE  /\ DropPlan(res) \in Result /\ DropOptimization(res) \in Result
             /\ DropFromVerification(res) \in Result /\ DropFromGeneration(res) \in Result
  BY <1>1 DEF DropPlan, DropOptimization, DropFromVerification, DropFromGeneration, Result
<1>3. MarkRunning(row) \in Row /\ ~AtValidation(MarkRunning(row))
  BY DEF MarkRunning, Row, Status, AtValidation
<1>4. PrepareForcedRerun(row) \in Row /\ ~AtValidation(PrepareForcedRerun(row))
  BY <1>1, <1>2 DEF PrepareForcedRerun, Row, Status, Stage, AtValidation
<1>5. PrepareRetry(row) \in Row /\ ~AtValidation(PrepareRetry(row))
  <2>1. RetainedByRetry(row) \in Result
    BY <1>1, <1>2, RowTypes DEF RetainedByRetry
  <2>. QED
    BY <2>1 DEF PrepareRetry, Row, Status, AtValidation
<1>6. /\ SaveTestGeneration(row, S1) \in Row
      /\ AtValidation(SaveTestGeneration(row, S1)) => AtValidation(row)
  <2>1. [DropFromVerification(row.result) EXCEPT !.generation = S1, !.history = @ \cup {S1}] \in Result
    BY <1>1, <1>2 DEF Result
  <2>. QED
    BY <2>1 DEF SaveTestGeneration, Row, Stage, AtValidation
<1>. QED
  BY <1>3, <1>4, <1>5, <1>6

(* A row that failed.                                                      *)
LEMMA FailedRow ==
    ASSUME NEW row \in Row, NEW stage \in Stage
    PROVE  /\ FailRun(row, stage) \in Row
           /\ stage # "runtime_validation" => ~AtValidation(FailRun(row, stage))
BY DEF FailRun, Row, Status, AtValidation

(* A row that completed.                                                   *)
LEMMA CompletedRow ==
    ASSUME NEW row \in Row, NEW payload \in Result
    PROVE  /\ Complete(row, payload) \in Row /\ ~AtValidation(Complete(row, payload))
           /\ [Complete(row, payload) EXCEPT !.failedStage = "none"] \in Row
           /\ ~AtValidation([Complete(row, payload) EXCEPT !.failedStage = "none"])
           /\ SaveStage3Result(row, payload) \in Row
           /\ AtValidation(SaveStage3Result(row, payload)) => AtValidation(row)
<1>1. Complete(row, payload) \in Row /\ ~AtValidation(Complete(row, payload))
  BY DEF Complete, Row, Status, AtValidation
<1>2. /\ [Complete(row, payload) EXCEPT !.failedStage = "none"] \in Row
      /\ ~AtValidation([Complete(row, payload) EXCEPT !.failedStage = "none"])
  BY <1>1 DEF Complete, Row, Stage, AtValidation
<1>3. /\ SaveStage3Result(row, payload) \in Row
      /\ AtValidation(SaveStage3Result(row, payload)) => AtValidation(row)
  BY DEF SaveStage3Result, Row, Stage, AtValidation
<1>. QED
  BY <1>1, <1>2, <1>3

(* A row with an artifact more.                                            *)
LEMMA SavedRow ==
    ASSUME NEW row \in Row, NEW suite \in Artifact
    PROVE  /\ SaveQualityOptimization(row, suite, FALSE) \in Row
           /\ AtValidation(SaveQualityOptimization(row, suite, FALSE)) => AtValidation(row)
           /\ SaveRuntimeExecutionPlan(row, suite) \in Row
           /\ AtValidation(SaveRuntimeExecutionPlan(row, suite)) => AtValidation(row)
<1>1. row.result \in Result /\ NoSuite \in Artifact
  BY DEF Row, Artifact
<1>2. /\ SaveQualityOptimization(row, suite, FALSE) \in Row
      /\ AtValidation(SaveQualityOptimization(row, suite, FALSE)) => AtValidation(row)
  <2>1. [row.result EXCEPT !.generation = suite, !.verification = suite, !.optimization = suite,
                           !.checkpoint = NoSuite] \in Result
    BY <1>1 DEF Result
  <2>. QED
    BY <2>1 DEF SaveQualityOptimization, Row, Stage, AtValidation
<1>3. /\ SaveRuntimeExecutionPlan(row, suite) \in Row
      /\ AtValidation(SaveRuntimeExecutionPlan(row, suite)) => AtValidation(row)
  <2>1. [row.result EXCEPT !.plan = suite] \in Result
    BY <1>1 DEF Result
  <2>2. SaveRuntimeExecutionPlan(row, suite) =
          [row EXCEPT !.result = [row.result EXCEPT !.plan = suite], !.lastOk = "runtime_preparation"]
    BY DEF SaveRuntimeExecutionPlan
  <2>. QED
    BY <2>1, <2>2 DEF Row, Stage, AtValidation
<1>. QED
  BY <1>2, <1>3

\* The row a request works on.
LEMMA InHand ==
    ASSUME ProjectInv, NEW r \in Requests, req[r].pc \in RowPlaces
    PROVE  /\ req[r].cu \in 1..MaxRuns /\ req[r].row \in Row /\ req[r].row.result \in Result
           /\ req[r].payload \in Result
           /\ Alive => /\ Discovered(req[r].cu)
                       /\ Alone => req[r].row = rows[req[r].cu]
                       /\ Alone /\ AtValidation(req[r].row) => FailedLast(req[r].cu)
                       /\ Calm => Latest(scans) = "completed"
<1>1. TypeOK /\ req[r] \in Request /\ Suits(r, req[r]) /\ req[r].pc # "done"
  BY DEF ProjectInv, TypeInv, TypeOK, RowPlaces, ValidationPlaces
<1>2. req[r].cu \in 1..MaxRuns
  BY <1>1, ProjectAssumption DEF Suits, Fits, Request, Runs
<1>3. req[r].row \in Row /\ req[r].row.result \in Result /\ req[r].payload \in Result
  BY <1>1 DEF Request, Row
<1>4. Alive => Discovered(req[r].cu) /\ (Alone => req[r].row = rows[req[r].cu])
               /\ (Calm => Latest(scans) = "completed")
  BY <1>1, <1>2 DEF Suits, Admits, Validates, Scanned
<1>5. Alone => Retryable(req[r].cu)
  BY <1>2 DEF ProjectInv, RuntimeInv
<1>. QED
  BY <1>2, <1>3, <1>4, <1>5 DEF Retryable

\* What a request carries along.
Carries(q, next) ==
    /\ next.op = q.op /\ next.dep = q.dep /\ next.cu = q.cu /\ next.row = q.row
    /\ next.branch = q.branch /\ next.scan = q.scan /\ next.scanSeen = q.scanSeen
    /\ next.port = q.port

(* A commit of the row in hand, by a request that goes on or ends.         *)
LEMMA HandCommits ==
    ASSUME ProjectInv, NEW r \in Requests, req[r].pc \in RowPlaces \ {"launch", "poll", "execute"},
           NEW next \in Request, NEW new \in Row, CommitRow(r, new, next), Carries(req[r], next),
           next.pc \in {"done", "state", "validate"} \cup (RowPlaces \ ValidationPlaces),
           next.pc \in {"done", "retried"} \/ req[r].pc \notin PortPlaces,
           order' = order, cachedRun' \in Runs,
           Alone /\ AtValidation(new) => AtValidation(req[r].row) \/ FailedLast(req[r].cu)
    PROVE  Commits(r)
<1>1. TypeOK /\ req[r] \in Request /\ Suits(r, req[r])
  BY DEF ProjectInv, TypeInv, TypeOK
<1>2. Alive
  BY DEF CommitRow, CanCommit
<1>3. Writes(new, next)
  BY <1>2, InHand DEF Carries, Writes
<1>4. Keeps(r, next)
  BY <1>1 DEF Keeps, Carries, Suits, Fits, Admitted, StageTwoPlaces, DiscoveryPlaces,
     UploadPlaces, RowPlaces, ValidationPlaces, PortPlaces
<1>5. Fits(next) /\ Uploads(next)
  BY <1>1 DEF Carries, Suits, Fits, Uploads, Unused, Admitted, StageTwoPlaces,
     DiscoveryPlaces, UploadPlaces, RowPlaces, ValidationPlaces, PortPlaces
<1>6. Admits(next) /\ Scanned(next)
  BY <1>1 DEF Carries, Suits, Admits, Scanned, Admitted, StageTwoPlaces, DiscoveryPlaces,
     UploadPlaces, RowPlaces, ValidationPlaces, PortPlaces
<1>7. OwnPort(r, next) /\ Holds(r, next)
  BY <1>1 DEF Carries, Suits, OwnPort, Holds, Serving, Admitted, StageTwoPlaces,
     DiscoveryPlaces, UploadPlaces, RowPlaces, ValidationPlaces, PortPlaces
<1>8. next.pc \notin {"ready"} \cup ValidationPlaces
  BY DEF RowPlaces, ValidationPlaces
<1>. QED
  BY <1>3, <1>4, <1>5, <1>6, <1>7, <1>8 DEF Commits

\* A request that takes its row to another place.
LEMMA HandMoves ==
    ASSUME ProjectInv, NEW r \in Requests, req[r].pc \in RowPlaces \ {"launch", "poll", "execute"},
           NEW pc \in {"done", "state", "validate"} \cup (RowPlaces \ ValidationPlaces),
           NEW payload \in Result, NEW new \in Row,
           CommitRow(r, new, [req[r] EXCEPT !.payload = payload, !.pc = pc]),
           pc \in {"done", "retried"} \/ req[r].pc \notin PortPlaces,
           order' = order, cachedRun' \in Runs,
           Alone /\ AtValidation(new) => AtValidation(req[r].row) \/ FailedLast(req[r].cu)
    PROVE  Commits(r)
<1>1. req[r] \in Request /\ pc \in Pc
  BY DEF ProjectInv, TypeInv, TypeOK, RowPlaces, ValidationPlaces, Pc
<1>2. PICK next : next = [req[r] EXCEPT !.payload = payload, !.pc = pc]
  OBVIOUS
<1>3. next \in Request /\ Carries(req[r], next) /\ next.pc = pc
  BY <1>1, <1>2 DEF Request, Carries
<1>. QED
  BY <1>2, <1>3, HandCommits

(* The stages of the pipeline, each of which commits the row in hand.      *)
LEMMA HandSteps ==
    ASSUME ProjectInv, NEW r \in Requests,
           \/ MarkCreatedRunning(r) \/ PrepareRetried(r) \/ RunStage(r) \/ StageFails(r)
           \/ PrepareGeneration(r) \/ RestoreUnderstanding(r) \/ GenerateTestCases(r)
           \/ FailSource(r) \/ CompleteRetried(r)
    PROVE  Faults /\ Commits(r)
<1>0. TypeOK /\ req[r] \in Request /\ Suits(r, req[r])
  BY DEF ProjectInv, TypeInv, TypeOK
<1>1. Faults
  <2>1. CASE StageFails(r)
    BY <1>0, <2>1, Working, Failing DEF StageFails
  <2>2. CASE ~StageFails(r)
    BY <1>0, <2>2, Working DEF MarkCreatedRunning, PrepareRetried, RunStage,
       PrepareGeneration, RestoreUnderstanding, GenerateTestCases, FailSource,
       CompleteRetried
  <2>. QED
    BY <2>1, <2>2
<1>2. order' = order /\ cachedRun' \in Runs
  BY <1>0 DEF TypeOK, MarkCreatedRunning, PrepareRetried, RunStage, StageFails,
     PrepareGeneration, RestoreUnderstanding, GenerateTestCases, FailSource,
     CompleteRetried
<1>3. /\ req[r].pc \in RowPlaces \ {"launch", "poll", "execute"}
      /\ req[r].pc \in PortPlaces => req[r].pc \in {"fail_source", "retried"}
  BY DEF At, RowPlaces, ValidationPlaces, PortPlaces, MarkCreatedRunning, PrepareRetried,
     RunStage, StageFails, PrepareGeneration, RestoreUnderstanding, GenerateTestCases,
     FailSource, CompleteRetried
<1>4. /\ req[r].cu \in 1..MaxRuns /\ req[r].row \in Row /\ req[r].row.result \in Result
      /\ req[r].payload \in Result
  BY <1>3, InHand
<1>5. ASSUME NEW pc \in {"done", "state", "validate"} \cup (RowPlaces \ ValidationPlaces),
             NEW new \in Row, CommitRow(r, new, [req[r] EXCEPT !.pc = pc]),
             pc \in {"done", "retried"} \/ req[r].pc \notin PortPlaces,
             Alone /\ AtValidation(new) => AtValidation(req[r].row) \/ FailedLast(req[r].cu)
      PROVE  Commits(r)
  <2>1. PICK payload \in Result : payload = req[r].payload
    BY <1>4
  <2>2. [req[r] EXCEPT !.pc = pc] = [req[r] EXCEPT !.payload = payload, !.pc = pc]
    BY <1>0, <2>1 DEF Request
  <2>3. CommitRow(r, new, [req[r] EXCEPT !.payload = payload, !.pc = pc])
    BY <1>5, <2>2
  <2>. QED
    BY <1>2, <1>3, <1>5, <2>3, HandMoves
<1>6. {"source", "relock", "validate", "done", "restore", "generate", "stage4", "quality", "plan",
       "complete"} \subseteq {"done", "state", "validate"} \cup (RowPlaces \ ValidationPlaces)
  BY DEF RowPlaces, ValidationPlaces
<1>7. CASE MarkCreatedRunning(r)
  <2>1. PICK new \in Row : new = MarkRunning(req[r].row) /\ ~AtValidation(new)
    BY <1>4, PreparedRows
  <2>. QED
    BY <1>1, <1>5, <1>6, <1>7, <2>1 DEF MarkCreatedRunning, At, PortPlaces
<1>8. CASE PrepareRetried(r)
  <2>1. PICK new \in Row : new = PrepareRetry(req[r].row) /\ ~AtValidation(new)
    BY <1>4, PreparedRows
  <2>2. PICK pc \in {"relock", "validate"} : CommitRow(r, new, [req[r] EXCEPT !.pc = pc])
    BY <1>8, <2>1 DEF PrepareRetried
  <2>. QED
    BY <1>1, <1>5, <1>6, <1>8, <2>1, <2>2 DEF PrepareRetried, PortPlaces
<1>9. CASE RunStage(r)
  <2>1. /\ req[r].pc \in {"stage3", "stage4", "quality", "plan"}
        /\ req[r].payload.generation \in Artifact /\ req[r].payload.optimization \in Artifact
    BY <1>4, <1>9 DEF RunStage, At, Result
  <2>9. PICK pc \in {"stage4", "complete", "quality", "plan"} : \E new, payload :
          /\ CommitRow(r, new, [req[r] EXCEPT !.payload = payload, !.pc = pc])
          /\ \/ /\ payload = [EmptyResult EXCEPT !.summary = TRUE]
                /\ new = SaveStage3Result(req[r].row, payload)
             \/ /\ payload = [req[r].payload EXCEPT !.generation = S1]
                /\ new = SaveTestGeneration(req[r].row, S1)
             \/ /\ payload = [req[r].payload EXCEPT !.verification = req[r].payload.generation,
                                                   !.optimization = req[r].payload.generation]
                /\ new = SaveQualityOptimization(req[r].row, req[r].payload.generation, FALSE)
             \/ /\ payload = [req[r].payload EXCEPT !.plan = req[r].payload.optimization]
                /\ new = SaveRuntimeExecutionPlan(req[r].row, req[r].payload.optimization)
    BY <1>9 DEF RunStage
  <2>2. PICK new, payload :
          /\ CommitRow(r, new, [req[r] EXCEPT !.payload = payload, !.pc = pc])
          /\ \/ /\ payload = [EmptyResult EXCEPT !.summary = TRUE]
                /\ new = SaveStage3Result(req[r].row, payload)
             \/ /\ payload = [req[r].payload EXCEPT !.generation = S1]
                /\ new = SaveTestGeneration(req[r].row, S1)
             \/ /\ payload = [req[r].payload EXCEPT !.verification = req[r].payload.generation,
                                                   !.optimization = req[r].payload.generation]
                /\ new = SaveQualityOptimization(req[r].row, req[r].payload.generation, FALSE)
             \/ /\ payload = [req[r].payload EXCEPT !.plan = req[r].payload.optimization]
                /\ new = SaveRuntimeExecutionPlan(req[r].row, req[r].payload.optimization)
    BY <2>9
  <2>3. payload \in Result
    <3>1. S1 \in Artifact
      BY FirstSuite DEF Artifact
    <3>. QED
      BY <1>4, <2>1, <2>2, <3>1, RowTypes DEF Result
  <2>4. new \in Row /\ (AtValidation(new) => AtValidation(req[r].row))
    <3>1. /\ SaveStage3Result(req[r].row, payload) \in Row
          /\ AtValidation(SaveStage3Result(req[r].row, payload)) => AtValidation(req[r].row)
      BY <1>4, <2>3, CompletedRow
    <3>2. /\ SaveTestGeneration(req[r].row, S1) \in Row
          /\ AtValidation(SaveTestGeneration(req[r].row, S1)) => AtValidation(req[r].row)
      BY <1>4, PreparedRows
    <3>3. \A suite \in Artifact :
            /\ SaveQualityOptimization(req[r].row, suite, FALSE) \in Row
            /\ AtValidation(SaveQualityOptimization(req[r].row, suite, FALSE)) =>
                 AtValidation(req[r].row)
            /\ SaveRuntimeExecutionPlan(req[r].row, suite) \in Row
            /\ AtValidation(SaveRuntimeExecutionPlan(req[r].row, suite)) => AtValidation(req[r].row)
      BY <1>4, SavedRow
    <3>. QED
      BY <2>1, <2>2, <3>1, <3>2, <3>3
  <2>5. req[r].pc \notin PortPlaces
    BY <2>1 DEF PortPlaces
  <2>. QED
    BY <1>1, <1>2, <1>3, <1>6, <2>2, <2>3, <2>4, <2>5, HandMoves
<1>10. CASE StageFails(r)
  <2>1. /\ req[r].pc \in {"stage3", "stage4", "quality", "plan", "generate"}
        /\ CommitRow(r, FailRun(req[r].row, StageAt(req[r].pc)), [req[r] EXCEPT !.pc = "done"])
    BY <1>10 DEF StageFails
  <2>2. StageAt(req[r].pc) \in Stage \ {"runtime_validation"}
    BY <2>1 DEF StageAt, Stage
  <2>3. PICK new \in Row : new = FailRun(req[r].row, StageAt(req[r].pc)) /\ ~AtValidation(new)
    BY <1>4, <2>2, FailedRow
  <2>. QED
    BY <1>1, <1>5, <1>6, <2>1, <2>3
<1>11. CASE PrepareGeneration(r)
  <2>1. PICK new \in Row : new = PrepareRetry(req[r].row) /\ ~AtValidation(new)
    BY <1>4, PreparedRows
  <2>2. PICK payload \in Result : payload = req[r].row.result
    BY <1>4
  <2>3. CommitRow(r, new, [req[r] EXCEPT !.payload = payload, !.pc = "restore"])
    <3>1. [req[r] EXCEPT !.payload = payload, !.pc = "restore"]
             = [req[r] EXCEPT !.pc = "restore", !.payload = payload]
      BY <1>0 DEF Request
    <3>. QED
      BY <1>11, <2>1, <2>2, <3>1 DEF PrepareGeneration
  <2>4. req[r].pc \notin PortPlaces
    BY <1>11 DEF PrepareGeneration, At, PortPlaces
  <2>. QED
    BY <1>1, <1>2, <1>3, <1>6, <2>1, <2>3, <2>4, HandMoves
<1>12. CASE RestoreUnderstanding(r)
  <2>1. PICK new \in Row : new = [Complete(req[r].row, req[r].payload) EXCEPT !.failedStage = "none"]
                           /\ ~AtValidation(new)
    BY <1>4, CompletedRow
  <2>. QED
    BY <1>1, <1>5, <1>6, <1>12, <2>1 DEF RestoreUnderstanding, At, PortPlaces
<1>13. CASE GenerateTestCases(r)
  <2>1. PICK new \in Row : /\ new = SaveTestGeneration(req[r].row, S1)
                           /\ AtValidation(new) => AtValidation(req[r].row)
    BY <1>4, PreparedRows
  <2>. QED
    BY <1>1, <1>5, <1>6, <1>13, <2>1 DEF GenerateTestCases
<1>14. CASE FailSource(r)
  <2>1. PICK new \in Row : new = FailRun(req[r].row, "runtime_validation")
    BY <1>4, FailedRow DEF Stage
  <2>2. req[r].pc = "fail_source" /\ CommitRow(r, new, [req[r] EXCEPT !.pc = "done"])
    BY <1>14, <2>1 DEF FailSource, At
  <2>3. Alone => FailedLast(req[r].cu)
    <3>1. Alive
      BY <2>2 DEF CommitRow, CanCommit
    <3>2. runtimes \in Seq([source : 1..MaxRuns, status : RunStatus])
      BY <1>0 DEF TypeOK
    <3>3. ASSUME Alone
          PROVE  FailedLast(req[r].cu)
      <4>1. /\ req[r].run \in DOMAIN runtimes /\ req[r].run = Len(runtimes)
            /\ runtimes[req[r].run].source = req[r].cu /\ runtimes[req[r].run].status = "failed"
        BY <1>0, <2>2, <3>1, <3>3 DEF Suits, Validates, ValidationPlaces
      <4>2. runtimes[req[r].run] \in [source : 1..MaxRuns, status : RunStatus]
        BY <3>2, <4>1, ElementOfSeq, LenProperties
      <4>3. runtimes[req[r].run] = [source |-> req[r].cu, status |-> "failed"]
        BY <4>1, <4>2
      <4>4. \A l \in DOMAIN runtimes : ~(l > req[r].run)
        BY <3>2, <4>1
      <4>. QED
        BY <4>1, <4>3, <4>4 DEF FailedLast
    <3>. QED
      BY <3>3
  <2>. QED
    BY <1>1, <1>5, <1>6, <2>2, <2>3
<1>15. CASE CompleteRetried(r)
  <2>1. PICK new \in Row : new = Complete(req[r].row, req[r].row.result) /\ ~AtValidation(new)
    BY <1>4, CompletedRow
  <2>. QED
    BY <1>1, <1>5, <1>6, <1>15, <2>1 DEF CompleteRetried
<1>. QED
  BY <1>7, <1>8, <1>9, <1>10, <1>11, <1>12, <1>13, <1>14, <1>15

(* The completion of the pipeline.                                         *)
LEMMA CompleteCommits ==
    ASSUME ProjectInv, NEW r \in Requests, CompletePipeline(r)
    PROVE  Faults /\ Commits(r)
<1>0. TypeOK /\ req[r] \in Request /\ req[r].pc = "complete"
  BY DEF ProjectInv, TypeInv, TypeOK, CompletePipeline, At
<1>1. Faults
  BY <1>0, Working DEF CompletePipeline
<1>2. req[r].pc \in RowPlaces \ {"launch", "poll", "execute"} /\ req[r].pc \notin PortPlaces
  BY <1>0 DEF RowPlaces, ValidationPlaces, PortPlaces
<1>3. req[r].row \in Row /\ req[r].payload \in Result /\ req[r].cu \in 1..MaxRuns
  BY <1>2, InHand
<1>4. PICK payload \in Result : payload = [req[r].payload EXCEPT !.stamp = 1]
  <2>1. 1 \in Version \cup {NoStamp}
    BY MaxVersionAssumption DEF Version
  <2>. QED
    BY <1>3, <2>1 DEF Result
<1>5. PICK new \in Row : new = Complete(req[r].row, payload) /\ ~AtValidation(new)
  BY <1>3, CompletedRow
<1>6. PICK pc \in {"state", "done"}, stage \in 1..3 :
        Returned(req[r]) = [req[r] EXCEPT !.pc = pc, !.stage = stage]
  BY <1>0, ReturnedForm
<1>7. PICK next : next = [req[r] EXCEPT !.pc = pc, !.stage = stage]
  OBVIOUS
<1>8. pc \in Pc
  BY DEF Pc
<1>9. next \in Request /\ Carries(req[r], next) /\ next.pc = pc
  BY <1>0, <1>7, <1>8 DEF Request, Carries
<1>10. CommitRow(r, new, next) /\ order' = order /\ cachedRun' \in Runs
  BY <1>3, <1>4, <1>5, <1>6, <1>7, ProjectAssumption DEF CompletePipeline, Runs
<1>. QED
  BY <1>1, <1>2, <1>5, <1>9, <1>10, HandCommits

(* retry() and force_rerun() look at the row again under the lock.         *)
LEMMA RelockSteps ==
    ASSUME ProjectInv, NEW r \in Requests, Noticed(r), Relock(r)
    PROVE  Faults /\ (Moves(r) \/ Commits(r))
<1>0. TypeOK /\ req[r] \in Request /\ Suits(r, req[r]) /\ req[r].pc = "relock"
  BY DEF ProjectInv, TypeInv, TypeOK, Relock, At
<1>1. Faults /\ order' = order /\ "source" \in Pc
  BY <1>0, Working DEF Relock, Pc
<1>2. req[r].pc \in RowPlaces \ {"launch", "poll", "execute"} /\ req[r].pc \notin PortPlaces
  BY <1>0 DEF RowPlaces, ValidationPlaces, PortPlaces
<1>3. req[r].row.result \in Result /\ req[r].payload \in Result
  BY <1>2, InHand
<1>4. CASE End(r) /\ Quiet
  <2>1. Onward(r, "done")
    BY <1>0, Ending DEF Suits, Fits, StageTwoPlaces, DiscoveryPlaces
  <2>. QED
    BY <1>1, <1>4, <2>1, Going, AdvanceMoves DEF End
<1>5. CASE To(r, [req[r] EXCEPT !.pc = "source", !.payload = req[r].row.result]) /\ Quiet
  <2>. DEFINE next == [req[r] EXCEPT !.pc = "source", !.payload = req[r].row.result]
  <2>1. next \in Request
    BY <1>0, <1>1, <1>3 DEF Request
  <2>2. Fits(next) /\ Uploads(next)
    BY <1>0 DEF Suits, Fits, Uploads, Unused, Request, Admitted, StageTwoPlaces,
       DiscoveryPlaces, UploadPlaces, RowPlaces, ValidationPlaces, PortPlaces
  <2>3. Admits(next) /\ Scanned(next) /\ Validates(next)
    BY <1>0 DEF Suits, Admits, Scanned, Validates, Request, Admitted, StageTwoPlaces,
       DiscoveryPlaces, UploadPlaces, RowPlaces, ValidationPlaces, PortPlaces
  <2>4. OwnPort(r, next) /\ Holds(r, next)
    BY <1>0 DEF Suits, OwnPort, Holds, Serving, Request
  <2>5. Keeps(r, next)
    BY <1>0 DEF Keeps, Suits, Fits, Request, StageTwoPlaces, DiscoveryPlaces
  <2>. QED
    BY <1>1, <1>5, <2>1, <2>2, <2>3, <2>4, <2>5, AdvanceMoves DEF Advances, Suits
<1>6. CASE /\ CommitRow(r, PrepareArtifactRegeneration, [req[r] EXCEPT !.pc = "source"])
           /\ cachedRun' = 0
  <2>1. PICK new \in Row : new = PrepareArtifactRegeneration /\ ~AtValidation(new)
    BY FreshRows
  <2>2. PICK payload \in Result : payload = req[r].payload
    BY <1>3
  <2>3. [req[r] EXCEPT !.pc = "source"] = [req[r] EXCEPT !.payload = payload, !.pc = "source"]
    BY <1>0, <2>2 DEF Request
  <2>4. CommitRow(r, new, [req[r] EXCEPT !.payload = payload, !.pc = "source"])
    BY <1>6, <2>1, <2>3
  <2>5. cachedRun' \in Runs /\ "source" \in RowPlaces \ ValidationPlaces
    BY <1>6, ProjectAssumption DEF Runs, RowPlaces, ValidationPlaces
  <2>. QED
    BY <1>1, <1>2, <2>1, <2>4, <2>5, HandMoves
<1>. QED
  BY <1>1, <1>4, <1>5, <1>6 DEF Relock, Quiet, Stores

\* A request that takes up the row of its dependency run.
LEMMA AdmitCommits ==
    ASSUME ProjectInv, NEW r \in Requests, req[r].pc \in {"admit", "force"},
           NEW pc \in {"pending", "source", "relock"}, NEW payload \in Result, NEW new \in Row,
           CommitRow(r, new, [Admitting(r) EXCEPT !.pc = pc, !.payload = payload]),
           order' = order \/ order' = Append(order, req[r].dep), cachedRun' \in Runs,
           ~AtValidation(new)
    PROVE  Commits(r)
<1>0. TypeOK /\ req[r] \in Request /\ Suits(r, req[r])
  BY DEF ProjectInv, TypeInv, TypeOK
<1>1. PICK next : next = [Admitting(r) EXCEPT !.pc = pc, !.payload = payload]
  OBVIOUS
<1>2. pc \in Pc /\ Admitting(r) \in Request
  BY AdmittingRow DEF Pc
<1>3. next \in Request /\ next.pc = pc
  BY <1>1, <1>2 DEF Request
<1>4. /\ next.op = req[r].op /\ next.dep = req[r].dep /\ next.cu = req[r].dep
      /\ next.row = SeenRow(r, req[r].dep) /\ next.branch = req[r].branch
      /\ next.scan = req[r].scan /\ next.scanSeen = req[r].scanSeen /\ next.port = req[r].port
  BY <1>0, <1>1, <1>2 DEF Admitting, Request
<1>5. Alive
  BY DEF CommitRow, CanCommit
<1>6. /\ req[r].dep \in 1..MaxRuns /\ Discovered(req[r].dep)
      /\ Alone => SeenRow(r, req[r].dep) = rows[req[r].dep]
  BY <1>5, AdmittingRow
<1>7. Calm => Latest(scans) = "completed"
  BY <1>0, <1>5 DEF Suits, Scanned
<1>8. Writes(new, next)
  BY <1>4, <1>6, <1>7 DEF Writes
<1>9. Keeps(r, next)
  BY <1>0, <1>3, <1>4 DEF Keeps, Suits, Fits, Admitted, StageTwoPlaces, DiscoveryPlaces,
     UploadPlaces, RowPlaces, ValidationPlaces, PortPlaces
<1>10. Fits(next) /\ Uploads(next)
  BY <1>0, <1>3, <1>4, <1>6 DEF Suits, Fits, Uploads, Unused, Admitted, StageTwoPlaces,
     DiscoveryPlaces, UploadPlaces, RowPlaces, ValidationPlaces, PortPlaces
<1>11. Admits(next) /\ Scanned(next)
  BY <1>0, <1>3, <1>4, <1>6, <1>7 DEF Suits, Admits, Scanned, Admitted, StageTwoPlaces,
     DiscoveryPlaces, UploadPlaces, RowPlaces, ValidationPlaces, PortPlaces
<1>12. OwnPort(r, next) /\ Holds(r, next)
  BY <1>0, <1>3, <1>4 DEF Suits, OwnPort, Holds, Serving
<1>13. next.pc \notin {"ready"} \cup ValidationPlaces
  BY <1>3 DEF ValidationPlaces
<1>. QED
  BY <1>1, <1>3, <1>4, <1>8, <1>9, <1>10, <1>11, <1>12, <1>13 DEF Commits

(* The admission of a row: it is made, taken up again or reset.            *)
LEMMA AdmitSteps ==
    ASSUME ProjectInv, NEW r \in Requests, Noticed(r),
           AdmitCreate(r) \/ AdmitAgain(r) \/ ForceRerun(r)
    PROVE  Faults /\ (Moves(r) \/ Commits(r))
<1>0. /\ TypeOK /\ req[r] \in Request /\ Suits(r, req[r])
      /\ req[r].pc \in {"admit", "force"}
  BY DEF ProjectInv, TypeInv, TypeOK, AdmitCreate, AdmitAgain, ForceRerun, At
<1>1. Faults /\ cachedRun \in Runs /\ 0 \in Runs
  BY <1>0, Working, ProjectAssumption DEF AdmitCreate, AdmitAgain, ForceRerun, TypeOK, Runs
<1>2. /\ Admitting(r) \in Request /\ Admitting(r).row \in Row /\ Admitting(r).payload \in Result
      /\ Admitting(r).row.result \in Result
  BY <1>0, AdmittingRow DEF Request, Row
<1>3. ASSUME NEW pc \in {"pending", "source", "relock"}, NEW new \in Row, ~AtValidation(new),
             CommitRow(r, new, [Admitting(r) EXCEPT !.pc = pc]),
             order' = order \/ order' = Append(order, req[r].dep), cachedRun' \in Runs
      PROVE  Commits(r)
  <2>1. PICK payload \in Result : payload = Admitting(r).payload
    BY <1>2
  <2>2. [Admitting(r) EXCEPT !.pc = pc] = [Admitting(r) EXCEPT !.pc = pc, !.payload = payload]
    BY <1>2, <2>1 DEF Request
  <2>3. CommitRow(r, new, [Admitting(r) EXCEPT !.pc = pc, !.payload = payload])
    BY <1>3, <2>2
  <2>. QED
    BY <1>0, <1>3, <2>3, AdmitCommits
<1>4. CASE AdmitCreate(r)
  <2>1. PICK new \in Row : new = CreateRun /\ ~AtValidation(new)
    BY FreshRows
  <2>. QED
    BY <1>1, <1>3, <1>4, <2>1 DEF AdmitCreate
<1>5. CASE AdmitAgain(r)
  <2>1. PICK payload \in Result : payload = Admitting(r).row.result
    BY <1>2
  <2>2. ASSUME NEW new \in Row, ~AtValidation(new), cachedRun' = cachedRun,
               CommitRow(r, new, [[Admitting(r) EXCEPT !.pc = "source"] EXCEPT !.payload = payload])
        PROVE  Commits(r)
    BY <1>0, <1>1, <1>5, <2>2, AdmitCommits DEF AdmitAgain
  <2>3. CASE /\ CommitRow(r, MarkRunning(Admitting(r).row),
                          [[Admitting(r) EXCEPT !.pc = "source"] EXCEPT !.payload = payload])
             /\ cachedRun' = cachedRun
    <3>1. PICK new \in Row : new = MarkRunning(Admitting(r).row) /\ ~AtValidation(new)
      BY <1>2, PreparedRows
    <3>. QED
      BY <1>1, <2>2, <2>3, <3>1
  <2>4. CASE /\ CommitRow(r, PrepareForcedRerun(Admitting(r).row),
                          [[Admitting(r) EXCEPT !.pc = "source"] EXCEPT !.payload = payload])
             /\ cachedRun' = cachedRun
    <3>1. PICK new \in Row : new = PrepareForcedRerun(Admitting(r).row) /\ ~AtValidation(new)
      BY <1>2, PreparedRows
    <3>. QED
      BY <1>1, <2>2, <2>4, <3>1
  <2>5. CASE /\ CommitRow(r, PrepareArtifactRegeneration, [Admitting(r) EXCEPT !.pc = "source"])
             /\ cachedRun' = 0
    <3>1. PICK new \in Row : new = PrepareArtifactRegeneration /\ ~AtValidation(new)
      BY FreshRows
    <3>. QED
      BY <1>1, <1>3, <1>5, <2>5, <3>1 DEF AdmitAgain
  <2>. QED
    BY <1>5, <2>1, <2>3, <2>4, <2>5 DEF AdmitAgain
<1>6. CASE ForceRerun(r)
  <2>1. CASE Admitting(r).row.status = "completed"
    <3>1. PICK new \in Row : new = PrepareForcedRerun(Admitting(r).row) /\ ~AtValidation(new)
      BY <1>2, PreparedRows
    <3>. QED
      BY <1>1, <1>3, <1>6, <2>1, <3>1 DEF ForceRerun
  <2>2. CASE Admitting(r).row.status # "completed"
    <3>1. End(r) /\ Quiet
      BY <1>6, <2>2 DEF ForceRerun, Quiet, Stores
    <3>2. Onward(r, "done")
      BY <1>0, Ending DEF Suits, Fits, StageTwoPlaces, DiscoveryPlaces
    <3>. QED
      BY <1>1, <3>1, <3>2, Going, AdvanceMoves DEF End
  <2>. QED
    BY <2>1, <2>2
<1>. QED
  BY <1>4, <1>5, <1>6

-----------------------------------------------------------------------------
(* Steps on the project's files, its status and the lock of its deletion.  *)

(* A step on the files, or on the status of a project that exists.         *)
LEMMA Stilled ==
    ASSUME ProjectInv, NEW r \in Requests, req[r].pc # "ready",
           \/ CreateDirectory(r) \/ Extract(r) \/ UploadFails(r) \/ StageFiles(r)
           \/ DeleteRows(r) \/ DeletionFails(r) \/ DeleteFiles(r)
           \/ MarkProcessing(r) \/ MarkReady(r) \/ MarkFailed(r)
    PROVE  Still
<1>1. /\ disk \in Files /\ staged \in Files /\ (disk = "none" \/ staged = "none")
      /\ "none" \in Files
      /\ "partial" \in Files /\ "complete" \in Files
      /\ deleting \in Requests \cup {Nobody} /\ (project = "absent" => staged = "none")
  BY DEF ProjectInv, TypeInv, TypeOK, UploadInv, Files
<1>2. /\ req[r].pc \in UploadPlaces => project = "absent"
      /\ req[r].pc \in {"stage_files", "delete_rows", "delete_files"} => project # "absent"
  BY DEF ProjectInv, Suits, Fits, Uploads, Unused, UploadPlaces
<1>3. UNCHANGED <<deps, scans, rows, order, runtimes, servers, folders, cachedRun>>
  BY DEF CreateDirectory, Extract, UploadFails, StageFiles, DeleteRows, DeletionFails,
     DeleteFiles, MarkProcessing, MarkReady, MarkFailed, SetProject, Stores, Sut
<1>4. CASE MarkProcessing(r) \/ MarkReady(r) \/ MarkFailed(r)
  <2>1. UNCHANGED <<disk, staged, deleting>> /\ Alive /\ project' \in {"processing", "ready", "failed"}
    BY <1>4 DEF MarkProcessing, MarkReady, MarkFailed, SetProject, Disks, CanCommit
  <2>. QED
    BY <1>1, <1>3, <2>1 DEF Still
<1>5. CASE CreateDirectory(r) \/ Extract(r) \/ UploadFails(r)
  <2>1. UNCHANGED <<project, staged, deleting>> /\ disk' \in {"none", "partial", "complete"}
        /\ req[r].pc \in UploadPlaces
    BY <1>5 DEF CreateDirectory, Extract, UploadFails, Stores, At, UploadPlaces
  <2>. QED
    BY <1>1, <1>2, <1>3, <2>1 DEF Still
<1>6. CASE StageFiles(r)
  <2>1. /\ UNCHANGED <<project, deleting>> /\ req[r].pc = "stage_files"
        /\ UNCHANGED <<disk, staged>> \/ (disk' = "none" /\ staged' = disk)
    BY <1>6 DEF StageFiles, Stores, At
  <2>. QED
    BY <1>1, <1>2, <1>3, <2>1 DEF Still
<1>7. CASE DeleteRows(r)
  <2>1. UNCHANGED <<project, disk, staged>> /\ deleting' = r
    BY <1>7 DEF DeleteRows, Stores
  <2>. QED
    BY <1>1, <1>3, <2>1 DEF Still
<1>8. CASE DeletionFails(r)
  <2>1. /\ UNCHANGED project /\ deleting' \in {deleting, Nobody}
        /\ UNCHANGED <<disk, staged>> \/ (staged' = "none" /\ disk' \in {staged, "partial"})
    BY <1>8 DEF DeletionFails, Stores
  <2>. QED
    BY <1>1, <1>3, <2>1 DEF Still
<1>9. CASE DeleteFiles(r)
  <2>1. UNCHANGED <<project, disk, deleting>> /\ staged' = "none"
    BY <1>9 DEF DeleteFiles, Stores
  <2>. QED
    BY <1>1, <1>3, <2>1 DEF Still
<1>. QED
  BY <1>4, <1>5, <1>6, <1>7, <1>8, <1>9

(* Uploads, deletions and the end of a discovery.                          *)
LEMMA FileMoves ==
    ASSUME ProjectInv, NEW r \in Requests, Noticed(r),
           \/ CreateDirectory(r) \/ Extract(r) \/ UploadFails(r) \/ StageFiles(r)
           \/ DeleteRows(r) \/ DeletionFails(r) \/ DeleteFiles(r)
           \/ MarkProcessing(r) \/ MarkReady(r) \/ MarkFailed(r)
    PROVE  Faults /\ Moves(r)
<1>0. TypeOK /\ req[r] \in Request /\ Suits(r, req[r])
  BY DEF ProjectInv, TypeInv, TypeOK
<1>1. Faults
  BY <1>0, Working, Failing DEF CreateDirectory, Extract, UploadFails, StageFiles,
     DeleteRows, DeletionFails, DeleteFiles, MarkProcessing, MarkReady, MarkFailed
<1>2. Still
  <2>1. req[r].pc # "ready"
    BY DEF CreateDirectory, Extract, UploadFails, StageFiles, DeleteRows, DeletionFails,
       DeleteFiles, MarkProcessing, MarkReady, MarkFailed, SetProject, At
  <2>. QED
    BY <2>1, Stilled
<1>3. SUFFICES Advances(r)
  BY <1>1, <1>2, AdvanceStill
<1>4. ASSUME NEW pc, Goto(r, pc), <<req[r].pc, pc>> \in Onwards PROVE Advances(r)
  BY <1>4, Passing, Going
<1>5. ASSUME End(r), req[r].pc \in {"extract", "record", "delete_rows", "delete_files", "commit_delete"}
      PROVE  Advances(r)
  BY <1>0, <1>5, Ending, Going DEF End, Suits, Fits, StageTwoPlaces, DiscoveryPlaces
<1>6. CASE CreateDirectory(r) \/ Extract(r) \/ DeleteFiles(r) \/ MarkProcessing(r) \/ MarkReady(r)
  BY <1>4, <1>6 DEF CreateDirectory, Extract, DeleteFiles, MarkProcessing, MarkReady,
     SetProject, At, Onwards
<1>7. CASE UploadFails(r) \/ DeletionFails(r)
  BY <1>5, <1>7 DEF UploadFails, DeletionFails, At
<1>8. CASE DeleteRows(r)
  BY <1>4, <1>8 DEF DeleteRows, At, Onwards
<1>9. ASSUME NEW pc \in {"delete_rows", "join"}, To(r, [req[r] EXCEPT !.pc = pc, !.error = TRUE]),
             <<req[r].pc, pc>> \in {<<"stage_files", "delete_rows">>, <<"unpublish", "join">>}
      PROVE  Advances(r)
  <2>1. PICK next : next = [req[r] EXCEPT !.pc = pc, !.error = TRUE]
    OBVIOUS
  <2>2. pc \in Pc
    BY DEF Pc
  <2>3. next \in Request
    BY <1>0, <2>1, <2>2 DEF Request
  <2>4. next.pc = pc /\ next.error = TRUE /\ Carries(req[r], next)
    BY <1>0, <2>1 DEF Request, Carries
  <2>5. Fits(next) /\ Uploads(next)
    BY <1>0, <1>9, <2>4 DEF Carries, Suits, Fits, Uploads, Unused, Admitted,
       StageTwoPlaces, DiscoveryPlaces, UploadPlaces, RowPlaces, ValidationPlaces,
       PortPlaces
  <2>6. Admits(next) /\ Scanned(next) /\ Validates(next)
    BY <1>0, <1>9, <2>4 DEF Carries, Suits, Admits, Scanned, Validates, Admitted,
       StageTwoPlaces, DiscoveryPlaces, UploadPlaces, RowPlaces, ValidationPlaces,
       PortPlaces
  <2>7. OwnPort(r, next) /\ Holds(r, next)
    BY <1>0, <1>9, <2>4 DEF Carries, Suits, OwnPort, Holds, Serving
  <2>8. Keeps(r, next)
    BY <1>0, <1>9, <2>4 DEF Carries, Keeps, Suits, Fits, StageTwoPlaces, DiscoveryPlaces
  <2>. QED
    BY <1>9, <2>1, <2>3, <2>5, <2>6, <2>7, <2>8 DEF Advances, Suits
<1>10. CASE StageFiles(r)
  BY <1>4, <1>9, <1>10 DEF StageFiles, At, Onwards
<1>11. CASE MarkFailed(r)
  BY <1>9, <1>11 DEF MarkFailed, At
<1>. QED
  BY <1>6, <1>7, <1>8, <1>10, <1>11

\* From here on a failed commit may have taken a completion back.
LEMMA CommitFailMoves ==
    ASSUME ProjectInv, NEW r \in Requests, Noticed(r), DiscoveryCommitFails(r)
    PROVE  Faults /\ Moves(r)
<1>0. /\ TypeOK /\ req[r] \in Request /\ Suits(r, req[r]) /\ req[r].pc \in {"found", "publish"}
      /\ Quiet /\ "commit" \in happened'
  BY DEF ProjectInv, TypeInv, TypeOK, DiscoveryCommitFails, Fault
<1>1. Faults /\ Still
  BY <1>0, Failing, QuietStill DEF DiscoveryCommitFails
<1>2. PICK next : next = [req[r] EXCEPT !.pc = "unfound"]
  OBVIOUS
<1>3. To(r, next)
  BY <1>2 DEF DiscoveryCommitFails, Goto, To, ProjectInv, TypeInv, TypeOK
<1>4. next \in Request /\ next.pc = "unfound" /\ Carries(req[r], next)
  <2>1. "unfound" \in Pc
    BY DEF Pc
  <2>2. next \in Request
    BY <1>0, <1>2, <2>1, PlaceTyped
  <2>. QED
    BY <1>0, <1>2, <2>2 DEF Request, Carries
<1>5. Fits(next) /\ Keeps(r, next)
  BY <1>0, <1>4 DEF Carries, Keeps, Suits, Fits, Admitted, StageTwoPlaces,
     DiscoveryPlaces, UploadPlaces, RowPlaces, ValidationPlaces, PortPlaces
<1>6. Uploads(next)'
  BY <1>0, <1>1, <1>4, StillAlive DEF Carries, Suits, Fits, Uploads, Unused, UploadPlaces
<1>7. Admits(next)'
  BY <1>0, <1>1, <1>4, StillAlive DEF Carries, Suits, Admits, Admitted, Discovered,
     DiscoveryPlaces, Still
<1>8. Alone' => Alone
  BY DEF Alone, Noticed
<1>9. Calm' => Calm
  BY <1>1, <1>8 DEF Calm, Stopped, Faults
<1>10. Scanned(next)' /\ Validates(next)'
  BY <1>0, <1>1, <1>4, <1>8, <1>9, StillAlive DEF Carries, Suits, Scanned, Validates,
     Latest, Still, StageTwoPlaces, DiscoveryPlaces, ValidationPlaces
<1>11. OwnPort(r, next)' /\ Holds(r, next)'
  BY <1>0, <1>1, <1>4, <1>8 DEF Carries, Suits, OwnPort, Holds, Serving, Stopped, Still,
     Faults
<1>. QED
  BY <1>1, <1>3, <1>4, <1>5, <1>6, <1>7, <1>10, <1>11 DEF Moves, Suits, Fits

-----------------------------------------------------------------------------
(* Steps that change one store: the project's row, the dependency runs.    *)

(* The upload that records the project finds it absent.                    *)
LEMMA RecordKeeps ==
    ASSUME ProjectInv, NEW r \in Requests, Noticed(r), RecordProject(r)
    PROVE  ProjectInv'
<1>0. /\ TypeOK /\ req[r] \in Request /\ Suits(r, req[r]) /\ req[r].pc = "record"
      /\ project' = "uploaded" /\ happened' = happened
      /\ UNCHANGED <<deps, scans, rows, order, runtimes, disk, staged, deleting>>
      /\ UNCHANGED <<servers, folders, cachedRun>>
  BY DEF ProjectInv, TypeInv, TypeOK, RecordProject, At, Works, Disks, Sut
<1>1. project = "absent" /\ req[r].op = "upload"
  BY <1>0 DEF Suits, Fits, Uploads, UploadPlaces
<1>2. PICK next \in Request : next = [req[r] EXCEPT !.pc = "state"]
  <2>1. "state" \in Pc
    BY DEF Pc
  <2>. QED
    BY <1>0, <2>1, PlaceTyped
<1>3. To(r, next) /\ next.pc = "state" /\ Carries(req[r], next)
  BY <1>0, <1>2 DEF RecordProject, Goto, To, TypeOK, Request, Carries
<1>4. /\ req' \in [Requests -> Request] /\ req'[r] = next
      /\ \A q \in Requests \ {r} : req'[q] = req[q]
      /\ overlapped' \in BOOLEAN /\ (Alone' => Alone) /\ Single'
  BY <1>0, <1>3, Stepping
<1>5. TypeInv'
  BY <1>0, <1>4 DEF ProjectInv, TypeInv, TypeOK
<1>6. /\ deps = <<>> /\ scans = <<>> /\ order = <<>> /\ runtimes = <<>>
      /\ \A d \in 1..MaxRuns : rows[d].status = "absent"
  BY <1>1 DEF ProjectInv, UploadInv, Alive, NoRow
<1>7. UploadInv'
  BY <1>0, <1>3, <1>4 DEF ProjectInv, UploadInv, Alive, Carries
<1>8. \A q \in Requests \ {r} : Unused(req[q])
  BY <1>1 DEF ProjectInv, Suits, Uploads
<1>9. GateInv'
  BY <1>0, <1>3, <1>4, <1>6, <1>8 DEF GateInv, Unused, UploadPlaces, DiscoveryPlaces
<1>10. ScanInv' /\ RuntimeInv'
  BY <1>0, <1>6 DEF ScanInv, RuntimeInv, Retryable, AtValidation
<1>11. Stopped' = Stopped /\ (Calm' => Calm)
  BY <1>0, <1>4 DEF Stopped, Calm
<1>12. ASSUME NEW p \in Requests PROVE Suits(p, req[p])'
  <2>1. PICK u \in Request : u = req'[p]
    BY <1>4
  <2>2. /\ Fits(u) /\ u.cu = 0 /\ u.scan = 0
        /\ u.pc \in {"ready", "done", "state"} \cup UploadPlaces
        /\ u.op = "upload" => u.pc \notin {"ready"} \cup UploadPlaces
        /\ OwnPort(p, u) /\ Holds(p, u)
    <3>1. CASE p = r
      <4>1. Fits(next)
        BY <1>0, <1>3 DEF Suits, Fits, Carries, Admitted, StageTwoPlaces, DiscoveryPlaces,
           UploadPlaces, RowPlaces, ValidationPlaces, PortPlaces
      <4>2. Unused(req[r])
        BY <1>0, <1>1 DEF Suits, Uploads
      <4>3. OwnPort(r, next) /\ Holds(r, next)
        BY <1>0, <1>3 DEF Suits, OwnPort, Holds, Carries, Serving
      <4>. QED
        BY <1>3, <1>4, <2>1, <3>1, <4>1, <4>2, <4>3 DEF Unused, Carries, UploadPlaces
    <3>2. CASE p # r
      <4>1. u = req[p] /\ Suits(p, u) /\ Unused(u)
        BY <1>4, <1>8, <2>1, <3>2 DEF ProjectInv
      <4>2. u.op = "upload" => p = r
        BY <1>1, <4>1 DEF ProjectInv, UploadInv
      <4>. QED
        BY <3>2, <4>1, <4>2 DEF Suits, Unused
    <3>. QED
      BY <3>1, <3>2
  <2>3. Uploads(u)'
    BY <1>0, <2>2 DEF Uploads
  <2>4. Admits(u)' /\ Scanned(u)' /\ Validates(u)'
    BY <2>2 DEF Admits, Scanned, Validates, Admitted, StageTwoPlaces, DiscoveryPlaces,
       UploadPlaces, ValidationPlaces
  <2>5. OwnPort(p, u)' /\ Holds(p, u)'
    BY <1>0, <1>4, <1>11, <2>2 DEF OwnPort, Holds, Bound
  <2>. QED
    BY <2>1, <2>2, <2>3, <2>4, <2>5 DEF Suits
<1>. QED
  BY <1>4, <1>5, <1>7, <1>9, <1>10, <1>12 DEF ProjectInv

\* A step that writes the dependency run of its discovery.
Discovers(r) == \E next \in Request :
    /\ To(r, next) /\ Alive
    /\ UNCHANGED <<project, scans, rows, order, runtimes, disk, staged, deleting, servers, folders>>
    /\ cachedRun' \in Runs
    /\ deps' \in Seq(RunStatus) /\ Len(deps') <= MaxRuns
    /\ \A d \in DOMAIN deps : d # next.dep => d \in DOMAIN deps' /\ deps'[d] = deps[d]
    /\ Discovered(next.dep) => Discovered(next.dep)'
    /\ \A q \in Requests \ {r} : req[q].pc \in DiscoveryPlaces => req[q].dep # next.dep
    /\ next.op = req[r].op /\ next.branch = req[r].branch /\ next.scan = req[r].scan
    /\ Fits(next) /\ Uploads(next) /\ Admits(next)' /\ Scanned(next) /\ Validates(next)
    /\ OwnPort(r, next) /\ Holds(r, next)

(* A step that writes a dependency run keeps the invariant.                *)
LEMMA DiscoverKeeps ==
    ASSUME ProjectInv, NEW r \in Requests, Faults, Noticed(r), Discovers(r)
    PROVE  ProjectInv'
<1>0. TypeOK
  BY DEF ProjectInv, TypeInv
<1>1. PICK next \in Request :
        /\ To(r, next) /\ Alive
        /\ UNCHANGED <<project, scans, rows, order, runtimes, disk, staged, deleting, servers, folders>>
        /\ cachedRun' \in Runs
        /\ deps' \in Seq(RunStatus) /\ Len(deps') <= MaxRuns
        /\ \A d \in DOMAIN deps : d # next.dep => d \in DOMAIN deps' /\ deps'[d] = deps[d]
        /\ Discovered(next.dep) => Discovered(next.dep)'
        /\ \A q \in Requests \ {r} : req[q].pc \in DiscoveryPlaces => req[q].dep # next.dep
        /\ next.op = req[r].op /\ next.branch = req[r].branch /\ next.scan = req[r].scan
        /\ Fits(next) /\ Uploads(next) /\ Admits(next)' /\ Scanned(next) /\ Validates(next)
        /\ OwnPort(r, next) /\ Holds(r, next)
  BY DEF Discovers
<1>2. /\ req' \in [Requests -> Request] /\ req'[r] = next
      /\ \A q \in Requests \ {r} : req'[q] = req[q]
      /\ overlapped' \in BOOLEAN /\ (Alone' => Alone) /\ Single'
  BY <1>0, <1>1, Stepping
<1>3. Alive' /\ (Calm' => Calm) /\ Stopped' = Stopped
  BY <1>1, <1>2 DEF Alive, Calm, Stopped, Faults
<1>4. \A d : Discovered(d) => Discovered(d)'
  <2>1. \A d : d # next.dep /\ Discovered(d) => Discovered(d)'
    BY <1>1 DEF Discovered, Faults
  <2>. QED
    BY <1>1, <2>1
<1>5. TypeInv'
  BY <1>0, <1>1, <1>2 DEF ProjectInv, TypeInv, TypeOK, Faults
<1>6. UploadInv'
  BY <1>1, <1>2, <1>3 DEF ProjectInv, UploadInv
<1>7. GateInv'
  <2>1. \A d \in 1..MaxRuns : rows'[d].status # "absent" => Discovered(d)'
    BY <1>1, <1>4 DEF ProjectInv, GateInv
  <2>2. (\A i \in DOMAIN order : Discovered(order[i]))'
    BY <1>1, <1>4 DEF ProjectInv, GateInv, Discovered
  <2>3. \A p, q \in Requests :
          req'[p].pc \in DiscoveryPlaces /\ req'[q].pc \in DiscoveryPlaces
             /\ req'[p].dep = req'[q].dep => p = q
    BY <1>1, <1>2 DEF ProjectInv, GateInv
  <2>. QED
    BY <2>1, <2>2, <2>3 DEF GateInv
<1>8. ScanInv'
  BY <1>1, <1>2, <1>3 DEF ProjectInv, ScanInv, Latest
<1>9. RuntimeInv'
  BY <1>1, <1>2 DEF ProjectInv, RuntimeInv, Retryable, FailedLast
<1>10. ASSUME NEW p \in Requests PROVE Suits(p, req[p])'
  <2>1. PICK u \in Request : u = req'[p]
    BY <1>2
  <2>2. /\ Fits(u) /\ Uploads(u) /\ Admits(u)' /\ Scanned(u) /\ Validates(u)
        /\ OwnPort(p, u) /\ Holds(p, u)
    <3>1. CASE p = r
      BY <1>1, <1>2, <2>1, <3>1
    <3>2. CASE p # r
      <4>1. u = req[p] /\ Suits(p, u)
        BY <1>2, <2>1, <3>2 DEF ProjectInv
      <4>2. u.pc \in DiscoveryPlaces => u.dep # next.dep
        BY <1>1, <3>2, <4>1
      <4>3. Admits(u)'
        BY <1>1, <1>4, <4>1, <4>2 DEF Suits, Admits, Admitted, DiscoveryPlaces, Faults
      <4>. QED
        BY <4>1, <4>3 DEF Suits
    <3>. QED
      BY <3>1, <3>2
  <2>3. Uploads(u)' /\ Scanned(u)' /\ Validates(u)'
    BY <1>1, <1>2, <1>3, <2>2 DEF Uploads, Scanned, Validates, Latest
  <2>4. OwnPort(p, u)' /\ Holds(p, u)'
    BY <1>1, <1>2, <1>3, <2>2 DEF OwnPort, Holds, Bound, Faults
  <2>. QED
    BY <2>1, <2>2, <2>3, <2>4 DEF Suits
<1>. QED
  BY <1>2, <1>5, <1>6, <1>7, <1>8, <1>9, <1>10 DEF ProjectInv

(* A sequence with another element at a place of its own.                  *)
LEMMA SeqExcept ==
    ASSUME NEW S, NEW s \in Seq(S), NEW i, NEW x \in S
    PROVE  /\ [s EXCEPT ![i] = x] \in Seq(S) /\ Len([s EXCEPT ![i] = x]) = Len(s)
           /\ \A j \in DOMAIN s : j # i => [s EXCEPT ![i] = x][j] = s[j]
           /\ i \in DOMAIN s => [s EXCEPT ![i] = x][i] = x
           /\ DOMAIN [s EXCEPT ![i] = x] = DOMAIN s
<1>1. Len(s) \in Nat /\ s \in [1..Len(s) -> S]
  BY LenProperties
<1>2. CASE i \in 1..Len(s)
  BY <1>1, <1>2, ExceptSeq
<1>3. CASE i \notin 1..Len(s)
  <2>1. [s EXCEPT ![i] = x] = s
    BY <1>1, <1>3
  <2>. QED
    BY <1>1, <1>3, <2>1
<1>. QED
  BY <1>2, <1>3

\* A step that takes its request on and writes the dependency run it makes.
LEMMA DiscoverySteps ==
    ASSUME ProjectInv, NEW r \in Requests, Noticed(r),
           CreateDependencyRun(r) \/ CompleteDependencyRun(r) \/ FailDependencyRun(r)
    PROVE  Faults /\ Discovers(r)
<1>0. /\ TypeOK /\ req[r] \in Request /\ Suits(r, req[r]) /\ Alive
      /\ UNCHANGED <<project, scans, rows, order, runtimes, disk, staged, deleting, servers, folders>>
  BY DEF ProjectInv, TypeInv, TypeOK, CreateDependencyRun, CompleteDependencyRun,
     FailDependencyRun, SetDependencyRun, CanCommit, Disks, Sut
<1>1. Faults
  BY <1>0, Working, Failing DEF CreateDependencyRun, CompleteDependencyRun,
     FailDependencyRun
<1>2. cachedRun' \in Runs
  BY <1>0, ProjectAssumption DEF TypeOK, CreateDependencyRun, CompleteDependencyRun,
     FailDependencyRun, SetDependencyRun, Runs
<1>3. /\ deps \in Seq(RunStatus) /\ Len(deps) \in Nat /\ Len(deps) <= MaxRuns
      /\ DOMAIN deps = 1..Len(deps) /\ MaxRuns \in Nat
  BY <1>0, ProjectAssumption, LenProperties DEF ProjectInv, TypeInv, TypeOK
<1>4. ASSUME NEW next \in Request, To(r, next), next.pc \in {"processing", "publish", "unpublish"},
             req[r].pc \in {"dependency", "found", "unfound"}, next.dep # 0,
             next.op = req[r].op, next.branch = req[r].branch, next.scan = req[r].scan,
             next.scanSeen = req[r].scanSeen, next.cu = req[r].cu, next.row = req[r].row,
             next.port = req[r].port, Admits(next)',
             deps' \in Seq(RunStatus), Len(deps') <= MaxRuns,
             \A d \in DOMAIN deps : d # next.dep => d \in DOMAIN deps' /\ deps'[d] = deps[d],
             Discovered(next.dep) => Discovered(next.dep)',
             \A q \in Requests \ {r} : req[q].pc \in DiscoveryPlaces => req[q].dep # next.dep
      PROVE  Discovers(r)
  <2>1. Fits(next) /\ Uploads(next)
    BY <1>0, <1>4 DEF Suits, Fits, Uploads, Unused, Admitted, StageTwoPlaces,
       DiscoveryPlaces, UploadPlaces, RowPlaces, ValidationPlaces, PortPlaces
  <2>2. Scanned(next) /\ Validates(next)
    BY <1>0, <1>4 DEF Suits, Scanned, Validates, StageTwoPlaces, DiscoveryPlaces,
       ValidationPlaces
  <2>3. OwnPort(r, next) /\ Holds(r, next)
    BY <1>0, <1>4 DEF Suits, OwnPort, Holds, Serving
  <2>. QED
    BY <1>0, <1>2, <1>4, <2>1, <2>2, <2>3 DEF Discovers
<1>5. CASE CreateDependencyRun(r)
  <2>1. PICK n \in 1..MaxRuns : n = Len(deps) + 1 /\ n \in Runs
    BY <1>3, <1>5 DEF CreateDependencyRun, Runs
  <2>2. PICK next : next = [req[r] EXCEPT !.pc = "processing", !.dep = n]
    OBVIOUS
  <2>3. next \in Request /\ next.pc = "processing" /\ next.dep = n
        /\ next = [req[r] EXCEPT !.pc = "processing", !.dep = Len(deps) + 1]
    <3>1. "processing" \in Pc
      BY DEF Pc
    <3>. QED
      BY <1>0, <2>1, <2>2, <3>1 DEF Request
  <2>4. /\ next.op = req[r].op /\ next.branch = req[r].branch /\ next.scan = req[r].scan
        /\ next.scanSeen = req[r].scanSeen /\ next.cu = req[r].cu /\ next.row = req[r].row
        /\ next.port = req[r].port
    BY <1>0, <2>2 DEF Request
  <2>5. To(r, next) /\ deps' = Append(deps, "running") /\ req[r].pc = "dependency"
    BY <1>5, <2>3 DEF CreateDependencyRun, At
  <2>6. /\ deps' \in Seq(RunStatus) /\ Len(deps') = n /\ DOMAIN deps' = 1..n
        /\ deps'[n] = "running"
        /\ \A d \in DOMAIN deps : d # n /\ d \in DOMAIN deps' /\ deps'[d] = deps[d]
    BY <1>3, <2>1, <2>5, AppendProperties DEF RunStatus
  <2>7. n \notin DOMAIN deps /\ n \in DOMAIN deps' /\ deps'[n] # "completed"
    BY <1>3, <2>1, <2>6
  <2>8. \A d : Discovered(d) => Discovered(d)'
    BY <1>1, <2>6 DEF Discovered, Faults
  <2>9. Admits(next)'
    BY <1>0, <2>3, <2>4, <2>5, <2>7, <2>8 DEF Suits, Admits, Admitted, DiscoveryPlaces
  <2>10. \A q \in Requests \ {r} : req[q].pc \in DiscoveryPlaces => req[q].dep # n
    BY <1>0, <2>7 DEF ProjectInv, Suits, Admits
  <2>11. n # 0 /\ n <= MaxRuns
    BY <1>3, <2>1
  <2>12. Discovered(next.dep) => Discovered(next.dep)'
    BY <2>3, <2>7 DEF Discovered
  <2>13. /\ \A d \in DOMAIN deps : d # next.dep => d \in DOMAIN deps' /\ deps'[d] = deps[d]
         /\ \A q \in Requests \ {r} : req[q].pc \in DiscoveryPlaces => req[q].dep # next.dep
         /\ Len(deps') <= MaxRuns /\ next.dep # 0
         /\ next.pc \in {"processing", "publish", "unpublish"}
         /\ req[r].pc \in {"dependency", "found", "unfound"}
    BY <2>3, <2>5, <2>6, <2>10, <2>11
  <2>14. next \in Request /\ To(r, next) /\ deps' \in Seq(RunStatus) /\ Admits(next)'
    BY <2>3, <2>5, <2>6, <2>9
  <2>. QED
    BY <1>1, <1>4, <2>4, <2>12, <2>13, <2>14
<1>6. ASSUME NEW pc \in {"publish", "unpublish"}, NEW status \in {"completed", "failed"},
             deps' = [deps EXCEPT ![req[r].dep] = status], Goto(r, pc),
             req[r].pc \in {"found", "unfound"},
             pc = "publish" => status = "completed",
             status = "failed" => req[r].pc = "unfound"
      PROVE  Discovers(r)
  <2>1. PICK next : next = [req[r] EXCEPT !.pc = pc]
    OBVIOUS
  <2>2. next \in Request /\ next.pc = pc
    <3>1. pc \in Pc
      BY DEF Pc
    <3>. QED
      BY <1>0, <2>1, <3>1 DEF Request
  <2>3. /\ next.op = req[r].op /\ next.branch = req[r].branch /\ next.scan = req[r].scan
        /\ next.scanSeen = req[r].scanSeen /\ next.cu = req[r].cu /\ next.row = req[r].row
        /\ next.port = req[r].port /\ next.dep = req[r].dep
    BY <1>0, <2>1 DEF Request
  <2>4. To(r, next) /\ deps' = [deps EXCEPT ![req[r].dep] = status]
    BY <1>0, <1>6, <2>1 DEF SetDependencyRun, Goto, To, TypeOK
  <2>5. req[r].dep \in DOMAIN deps /\ req[r].dep # 0
    BY <1>0, <1>3, <1>6 DEF Suits, Admits, DiscoveryPlaces
  <2>6. PICK dep : dep = req[r].dep
    OBVIOUS
  <2>7. /\ deps' \in Seq(RunStatus) /\ Len(deps') = Len(deps) /\ DOMAIN deps' = DOMAIN deps
        /\ deps'[dep] = status
        /\ \A d \in DOMAIN deps : d # dep => deps'[d] = deps[d]
    <3>1. status \in RunStatus
      BY DEF RunStatus
    <3>. QED
      BY <1>3, <2>4, <2>5, <2>6, <3>1, SeqExcept
  <2>8. Discovered(dep) => Discovered(dep)'
    BY <1>0, <1>1, <1>6, <2>5, <2>6, <2>7 DEF Suits, Admits, Discovered, Faults
  <2>9. \A d : Discovered(d) => Discovered(d)'
    BY <1>1, <2>7, <2>8 DEF Discovered, Faults
  <2>10. Admits(next)'
    BY <1>0, <1>6, <2>2, <2>3, <2>5, <2>6, <2>7, <2>9 DEF Suits, Admits, Admitted,
       DiscoveryPlaces
  <2>11. \A q \in Requests \ {r} : req[q].pc \in DiscoveryPlaces => req[q].dep # dep
    BY <1>0, <1>6, <2>6 DEF ProjectInv, GateInv, DiscoveryPlaces
  <2>. QED
    BY <1>3, <1>4, <1>6, <2>2, <2>3, <2>4, <2>5, <2>6, <2>7, <2>8, <2>10, <2>11
<1>7. CASE CompleteDependencyRun(r)
  <2>1. /\ deps' = [deps EXCEPT ![req[r].dep] = "completed"] /\ Goto(r, "publish")
        /\ req[r].pc = "found"
    BY <1>7 DEF CompleteDependencyRun, SetDependencyRun, At
  <2>. QED
    BY <1>1, <1>6, <2>1
<1>8. CASE FailDependencyRun(r)
  <2>1. /\ deps' = [deps EXCEPT ![req[r].dep] = "failed"] /\ Goto(r, "unpublish")
        /\ req[r].pc = "unfound"
    BY <1>8 DEF FailDependencyRun, SetDependencyRun, At
  <2>. QED
    BY <1>1, <1>6, <2>1
<1>. QED
  BY <1>1, <1>5, <1>7, <1>8

-----------------------------------------------------------------------------
(* Steps of a security scan.                                               *)

(* Alone, a request looks at the newest scan.                              *)
LEMMA SeenLatest ==
    ASSUME TypeOK, NEW r \in Requests, Scanned(req[r]), req[r].pc # "done", Calm, Alive
    PROVE  SeenScan(r) = Latest(scans)
<1>1. scans # <<>> => Len(scans) # 0
  BY DEF TypeOK
<1>. QED
  BY <1>1 DEF Scanned, SeenScan, Latest

\* What of a request its scan leaves alone.
Stays(q, next) ==
    /\ next.pc = q.pc /\ next.op = q.op /\ next.dep = q.dep /\ next.cu = q.cu
    /\ next.row = q.row /\ next.port = q.port /\ next.run = q.run /\ next.error = q.error

(* A step that writes the scans.                                           *)
Scans(r) == \E next \in Request :
    /\ To(r, next) /\ Alive /\ Fits(next) /\ Stays(req[r], next)
    /\ req[r].branch \in {"ahead", "running"}
    /\ UNCHANGED <<project, deps, rows, order, runtimes, disk, staged, deleting, servers, folders>>
    /\ UNCHANGED cachedRun
    /\ scans' \in Seq(RunStatus) /\ Len(scans') <= MaxRuns
    /\ Calm =>
         /\ Latest(scans) # "completed"
         /\ next.scan = Len(scans') /\ next.scanSeen = Latest(scans')
         /\ next.branch \in {"none", "ok"} => Latest(scans') = "completed"
         /\ \A i \in DOMAIN scans' : scans'[i] = "running" =>
              next.branch = "running" /\ next.scan = i

(* A step that writes the scans keeps the invariant.                       *)
LEMMA ScanKeeps ==
    ASSUME ProjectInv, NEW r \in Requests, Faults, Noticed(r), Scans(r)
    PROVE  ProjectInv'
<1>0. TypeOK /\ Suits(r, req[r])
  BY DEF ProjectInv, TypeInv
<1>1. PICK next \in Request :
        /\ To(r, next) /\ Alive /\ Fits(next) /\ Stays(req[r], next)
        /\ req[r].branch \in {"ahead", "running"}
        /\ UNCHANGED <<project, deps, rows, order, runtimes, disk, staged, deleting, servers, folders>>
        /\ UNCHANGED cachedRun
        /\ scans' \in Seq(RunStatus) /\ Len(scans') <= MaxRuns
        /\ Calm =>
             /\ Latest(scans) # "completed"
             /\ next.scan = Len(scans') /\ next.scanSeen = Latest(scans')
             /\ next.branch \in {"none", "ok"} => Latest(scans') = "completed"
             /\ \A i \in DOMAIN scans' : scans'[i] = "running" =>
                  next.branch = "running" /\ next.scan = i
  BY DEF Scans
<1>2. /\ req' \in [Requests -> Request] /\ req'[r] = next
      /\ \A q \in Requests \ {r} : req'[q] = req[q]
      /\ overlapped' \in BOOLEAN /\ Single'
      /\ Alone' => Alone /\ \A q \in Requests \ {r} : ~Active(q)
  BY <1>0, <1>1, Stepping
<1>3. Alive' /\ (Calm' => Calm) /\ Stopped' = Stopped
  BY <1>1, <1>2 DEF Alive, Calm, Stopped, Faults
<1>4. req[r].pc \in StageTwoPlaces
  BY <1>0, <1>1 DEF Suits, Fits
<1>5. TypeInv'
  BY <1>0, <1>1, <1>2 DEF ProjectInv, TypeInv, TypeOK, Faults
<1>6. UploadInv'
  BY <1>1, <1>2, <1>3 DEF ProjectInv, UploadInv, Stays
<1>7. GateInv'
  <2>1. \A d : Discovered(d) => Discovered(d)'
    BY <1>1 DEF Discovered, Faults
  <2>2. \A d \in 1..MaxRuns : rows'[d].status # "absent" => Discovered(d)'
    BY <1>1, <2>1 DEF ProjectInv, GateInv
  <2>3. (\A i \in DOMAIN order : Discovered(order[i]))'
    BY <1>1, <2>1 DEF ProjectInv, GateInv, Discovered
  <2>4. \A p, q \in Requests :
          req'[p].pc \in DiscoveryPlaces /\ req'[q].pc \in DiscoveryPlaces
             /\ req'[p].dep = req'[q].dep => p = q
    BY <1>1, <1>2 DEF ProjectInv, GateInv, Stays
  <2>. QED
    BY <2>2, <2>3, <2>4 DEF GateInv
<1>8. ScanInv'
  BY <1>1, <1>2, <1>3 DEF ProjectInv, ScanInv
<1>9. RuntimeInv'
  BY <1>1, <1>2 DEF ProjectInv, RuntimeInv, Retryable, FailedLast
<1>10. ASSUME NEW p \in Requests PROVE Suits(p, req[p])'
  <2>1. PICK u \in Request : u = req'[p]
    BY <1>2
  <2>2. /\ Fits(u) /\ Uploads(u) /\ Admits(u) /\ Validates(u)
        /\ OwnPort(p, u) /\ Holds(p, u)
    <3>1. CASE p = r
      <4>1. Uploads(next) /\ Admits(next) /\ Validates(next)
        BY <1>0, <1>1, <1>4 DEF Suits, Uploads, Unused, Admits, Admitted, Validates,
           Stays, StageTwoPlaces, DiscoveryPlaces, UploadPlaces
      <4>2. OwnPort(r, next) /\ Holds(r, next)
        BY <1>0, <1>1 DEF Suits, OwnPort, Holds, Stays
      <4>. QED
        BY <1>1, <1>2, <2>1, <3>1, <4>1, <4>2
    <3>2. CASE p # r
      BY <1>2, <2>1, <3>2 DEF ProjectInv, Suits
    <3>. QED
      BY <3>1, <3>2
  <2>3. Scanned(u)'
    <3>1. CASE p = r
      <4>1. Calm' => req[r].cu = 0
        BY <1>0, <1>1, <1>3, <1>4 DEF Suits, Scanned, StageTwoPlaces, DiscoveryPlaces
      <4>. QED
        BY <1>1, <1>2, <1>3, <1>4, <2>1, <3>1, <4>1 DEF Scanned, Stays, StageTwoPlaces,
           DiscoveryPlaces
    <3>2. CASE p # r
      <4>1. Calm' => u.pc \in {"ready", "done"}
        BY <1>2, <1>3, <2>1, <3>2 DEF Calm, Active
      <4>2. u.pc = "ready" => u.scan = 0 /\ u.cu = 0
        BY <2>2, ReadyFits
      <4>. QED
        BY <4>1, <4>2 DEF Scanned, StageTwoPlaces, DiscoveryPlaces
    <3>. QED
      BY <3>1, <3>2
  <2>4. Uploads(u)' /\ Validates(u)' /\ Admits(u)'
    BY <1>1, <1>2, <1>3, <2>2 DEF Uploads, Validates, Admits, Admitted, Discovered, Faults
  <2>5. OwnPort(p, u)' /\ Holds(p, u)'
    BY <1>1, <1>2, <1>3, <2>2 DEF OwnPort, Holds, Bound, Faults
  <2>. QED
    BY <2>1, <2>2, <2>3, <2>4, <2>5 DEF Suits
<1>. QED
  BY <1>2, <1>5, <1>6, <1>7, <1>8, <1>9, <1>10 DEF ProjectInv

(* The request after a step of its scan.                                   *)
Scanning(r, next, branch, scan, seen) ==
    /\ next = [req[r] EXCEPT !.branch = branch, !.scan = scan, !.scanSeen = seen]
    /\ next.branch = branch /\ next.scan = scan /\ next.scanSeen = seen
    /\ Stays(req[r], next) /\ Fits(next)
MayScan(r, branch, scan, seen) == \E next \in Request : Scanning(r, next, branch, scan, seen)

(* A scan starts, or is refused, and ends.                                 *)
LEMMA ScanSteps ==
    ASSUME ProjectInv, NEW r \in Requests, Noticed(r), StartScan(r) \/ FinishScan(r)
    PROVE  Faults /\ (Moves(r) \/ Scans(r))
<1>0. /\ TypeOK /\ req[r] \in Request /\ Suits(r, req[r])
      /\ req[r].branch \in {"ahead", "running"}
      /\ UNCHANGED <<project, deps, rows, order, runtimes, disk, staged, deleting, servers, folders>>
      /\ UNCHANGED cachedRun
  BY DEF ProjectInv, TypeInv, TypeOK, StartScan, FinishScan, Disks, Sut
<1>1. Faults
  BY <1>0, Working, Failing DEF StartScan, FinishScan
<1>2. req[r].pc \in StageTwoPlaces /\ req[r].pc # "done"
  BY <1>0 DEF Suits, Fits, StageTwoPlaces, DiscoveryPlaces
<1>3. /\ scans \in Seq(RunStatus) /\ Len(scans) \in Nat /\ Len(scans) <= MaxRuns
      /\ DOMAIN scans = 1..Len(scans) /\ MaxRuns \in Nat
  BY <1>0, ProjectAssumption, LenProperties DEF ProjectInv, TypeInv, TypeOK
<1>4. scans # <<>> => Len(scans) \in 1..Len(scans) /\ Latest(scans) = scans[Len(scans)]
                      /\ Latest(scans) \in RunStatus
  BY <1>3, EmptySeq, ElementOfSeq DEF Latest
<1>5. Calm /\ Alive => SeenScan(r) = Latest(scans)
  BY <1>0, <1>2, SeenLatest DEF Suits

\* A running scan is that of the only request there is.
<1>6. Calm => \A i \in DOMAIN scans : scans[i] = "running" =>
        req[r].branch = "running" /\ req[r].scan = i
  <2>1. ASSUME Calm, NEW i \in DOMAIN scans, scans[i] = "running"
        PROVE  req[r].branch = "running" /\ req[r].scan = i
    <3>1. PICK q \in Requests : req[q].branch = "running" /\ req[q].scan = i
      BY <2>1 DEF ProjectInv, ScanInv
    <3>2. req[q].pc \in StageTwoPlaces
      BY <3>1 DEF ProjectInv, Suits, Fits
    <3>3. q = r
      BY <1>2, <2>1, <3>2 DEF ProjectInv, Single, Calm, Active, StageTwoPlaces,
         DiscoveryPlaces
    <3>. QED
      BY <3>1, <3>3
  <2>. QED
    BY <2>1
<1>7. ASSUME NEW branch \in {"running", "ok", "failed"}, NEW scan \in Runs,
             NEW seen \in RunStatus \cup {"none"}, branch = "running" => scan # 0 /\ seen = "running"
      PROVE  MayScan(r, branch, scan, seen)
  <2>1. PICK next : next = [req[r] EXCEPT !.branch = branch, !.scan = scan, !.scanSeen = seen]
    OBVIOUS
  <2>2. next \in Request
    BY <1>0, <2>1 DEF Request
  <2>3. /\ next.branch = branch /\ next.scan = scan /\ next.scanSeen = seen
        /\ Stays(req[r], next)
    BY <1>0, <2>1 DEF Request, Stays
  <2>4. Fits(next)
    BY <1>0, <1>2, <1>7, <2>3 DEF Suits, Fits, Stays, Admitted, StageTwoPlaces,
       DiscoveryPlaces, UploadPlaces, RowPlaces, ValidationPlaces, PortPlaces
  <2>. QED
    BY <2>1, <2>2, <2>3, <2>4 DEF MayScan, Scanning
<1>8. ASSUME NEW next \in Request, To(r, next), Stays(req[r], next), Fits(next), Alive,
             scans' \in Seq(RunStatus), Len(scans') <= MaxRuns,
             Calm => /\ Latest(scans) # "completed"
                     /\ next.scan = Len(scans') /\ next.scanSeen = Latest(scans')
                     /\ next.branch \in {"none", "ok"} => Latest(scans') = "completed"
                     /\ \A i \in DOMAIN scans' : scans'[i] = "running" =>
                          next.branch = "running" /\ next.scan = i
      PROVE  Scans(r)
  BY <1>0, <1>8 DEF Scans
<1>9. Len(scans) \in Runs /\ Latest(scans) \in RunStatus \cup {"none"}
  BY <1>3, <1>4 DEF Runs, Latest
<1>10. CASE StartScan(r) /\ SeenScan(r) = "completed"
  <2>1. To(r, [req[r] EXCEPT !.branch = "ok"]) /\ UNCHANGED scans /\ req[r].branch = "ahead"
    BY <1>10 DEF StartScan
  <2>2. PICK next : next = [req[r] EXCEPT !.branch = "ok"]
    OBVIOUS
  <2>3. /\ next \in Request /\ To(r, next) /\ Stays(req[r], next) /\ next.branch = "ok"
        /\ next.scan = req[r].scan /\ next.scanSeen = req[r].scanSeen
    BY <1>0, <2>1, <2>2 DEF Request, Stays
  <2>4. Fits(next) /\ Uploads(next)
    BY <1>0, <1>2, <2>3 DEF Suits, Fits, Uploads, Unused, Stays, Admitted, StageTwoPlaces,
       DiscoveryPlaces, UploadPlaces, RowPlaces, ValidationPlaces, PortPlaces
  <2>5. Admits(next) /\ Validates(next)
    BY <1>0, <2>3 DEF Suits, Admits, Admitted, Validates, Stays
  <2>6. Scanned(next)
    BY <1>0, <1>5, <1>10, <2>3 DEF Suits, Scanned, Stays, Calm
  <2>7. OwnPort(r, next) /\ Holds(r, next)
    BY <1>0, <2>3 DEF Suits, OwnPort, Holds, Stays
  <2>8. Keeps(r, next)
    BY <2>1, <2>3 DEF Keeps, Stays
  <2>9. Advances(r)
    BY <2>3, <2>4, <2>5, <2>6, <2>7, <2>8 DEF Advances, Suits
  <2>10. Quiet
    BY <1>0, <2>1 DEF Quiet, Stores, Disks, Sut
  <2>. QED
    BY <1>1, <2>9, <2>10, AdvanceMoves
<1>11. CASE StartScan(r) /\ SeenScan(r) = "failed"
  <2>1. /\ To(r, [req[r] EXCEPT !.branch = "running", !.scan = Len(scans), !.scanSeen = "running"])
        /\ scans' = [scans EXCEPT ![Len(scans)] = "running"] /\ Alive /\ req[r].branch = "ahead"
    BY <1>11 DEF StartScan, CanCommit
  <2>2. scans # <<>>
    BY <1>11 DEF SeenScan
  <2>3. PICK n \in 1..Len(scans) : n = Len(scans) /\ n \in Runs /\ n # 0
    <3>1. Len(scans) \in 1..Len(scans) /\ Len(scans) \in Runs /\ Len(scans) # 0
      BY <1>3, <1>4, <2>2 DEF Runs
    <3>. QED
      BY <3>1
  <2>20. MayScan(r, "running", n, "running")
    BY <1>7, <2>3 DEF RunStatus
  <2>4. PICK next \in Request : Scanning(r, next, "running", n, "running")
    BY <2>20 DEF MayScan
  <2>5. To(r, next)
    BY <2>1, <2>3, <2>4 DEF Scanning
  <2>6. /\ scans' \in Seq(RunStatus) /\ Len(scans') = n /\ DOMAIN scans' = 1..n
        /\ scans'[n] = "running" /\ \A i \in 1..n : i # n => scans'[i] = scans[i]
    BY <1>3, <2>1, <2>3, SeqExcept DEF RunStatus
  <2>7. scans' # <<>> /\ Latest(scans') = "running"
    BY <2>3, <2>6 DEF Latest
  <2>8. Calm => \A i \in DOMAIN scans' : scans'[i] = "running" => i = n
    BY <1>3, <1>6, <2>1, <2>3, <2>6
  <2>9. Calm => Latest(scans) # "completed"
    BY <1>5, <1>11, <2>1
  <2>10. Len(scans') <= MaxRuns /\ Len(scans') = n
    BY <1>3, <2>3, <2>6
  <2>11. Scans(r)
    BY <1>8, <2>1, <2>4, <2>5, <2>6, <2>7, <2>8, <2>9, <2>10 DEF Scanning
  <2>. QED
    BY <1>1, <2>11
<1>12. CASE /\ StartScan(r) /\ SeenScan(r) \notin {"completed", "failed"}
            /\ \E i \in DOMAIN scans : scans[i] = "running"
  <2>1. PICK branch, scan, seen :
          /\ branch \in {"ok", "failed"} /\ scan = Len(scans) /\ seen = Latest(scans)
          /\ To(r, [req[r] EXCEPT !.branch = branch, !.scan = scan, !.scanSeen = seen])
          /\ UNCHANGED scans /\ Alive /\ req[r].branch = "ahead"
    <3>1. PICK branch \in {"ok", "failed"} :
            branch = IF Latest(scans) = "running" THEN "ok" ELSE "failed"
      OBVIOUS
    <3>. QED
      BY <1>12, <3>1 DEF StartScan, CanCommit
  <2>20. MayScan(r, branch, scan, seen)
    BY <1>7, <1>9, <2>1 DEF RunStatus
  <2>2. PICK next \in Request : Scanning(r, next, branch, scan, seen)
    BY <2>20 DEF MayScan
  <2>3. ~Calm
    BY <1>6, <1>12, <2>1
  <2>4. scans' \in Seq(RunStatus) /\ Len(scans') <= MaxRuns
    BY <1>3, <2>1
  <2>5. Scans(r)
    BY <1>8, <2>1, <2>2, <2>3, <2>4 DEF Scanning
  <2>. QED
    BY <1>1, <2>5
<1>13. CASE /\ StartScan(r) /\ SeenScan(r) \notin {"completed", "failed"}
            /\ ~\E i \in DOMAIN scans : scans[i] = "running"
  <2>1. /\ To(r, [req[r] EXCEPT !.branch = "running", !.scan = Len(scans) + 1, !.scanSeen = "running"])
        /\ scans' = Append(scans, "running") /\ Alive /\ Len(scans) < MaxRuns
    BY <1>13 DEF StartScan, CanCommit
  <2>2. PICK n \in 1..MaxRuns : n = Len(scans) + 1 /\ n \in Runs /\ n # 0
    BY <1>3, <2>1 DEF Runs
  <2>20. MayScan(r, "running", n, "running")
    BY <1>7, <2>2 DEF RunStatus
  <2>3. PICK next \in Request : Scanning(r, next, "running", n, "running")
    BY <2>20 DEF MayScan
  <2>4. To(r, next)
    BY <2>1, <2>2, <2>3 DEF Scanning
  <2>5. /\ scans' \in Seq(RunStatus) /\ Len(scans') = n /\ DOMAIN scans' = 1..n
        /\ scans'[n] = "running" /\ \A i \in 1..Len(scans) : scans'[i] = scans[i]
    BY <1>3, <2>1, <2>2, AppendProperties DEF RunStatus
  <2>6. scans' # <<>> /\ Latest(scans') = "running"
    BY <2>2, <2>5 DEF Latest
  <2>7. \A i \in DOMAIN scans' : scans'[i] = "running" => i = n
    BY <1>3, <1>13, <2>2, <2>5
  <2>8. Calm => Latest(scans) # "completed"
    BY <1>5, <1>13, <2>1
  <2>9. Len(scans') <= MaxRuns /\ Len(scans') = n
    BY <2>2, <2>5
  <2>10. Scans(r)
    BY <1>8, <2>1, <2>3, <2>4, <2>5, <2>6, <2>7, <2>8, <2>9 DEF Scanning
  <2>. QED
    BY <1>1, <2>10
<1>14. CASE FinishScan(r)
  <2>1. PICK branch \in {"ok", "failed"}, seen \in {"completed", "failed"} :
          /\ To(r, [req[r] EXCEPT !.branch = branch, !.scanSeen = seen])
          /\ scans' = [scans EXCEPT ![req[r].scan] = seen]
          /\ branch = "ok" => seen = "completed"
    BY <1>14 DEF FinishScan
  <2>2. req[r].branch = "running" /\ Alive /\ req[r].scan \in Runs
    BY <1>0, <1>14 DEF FinishScan, CanCommit, Request
  <2>3. PICK n \in Runs : n = req[r].scan
    BY <2>2
  <2>20. MayScan(r, branch, n, seen)
    BY <1>7, <2>3 DEF RunStatus
  <2>4. PICK next \in Request : Scanning(r, next, branch, n, seen)
    BY <2>20 DEF MayScan
  <2>5. To(r, next)
    <3>1. next = [req[r] EXCEPT !.branch = branch, !.scanSeen = seen]
      BY <1>0, <2>3, <2>4 DEF Request, Scanning
    <3>. QED
      BY <2>1, <3>1
  <2>6. /\ scans' \in Seq(RunStatus) /\ Len(scans') = Len(scans) /\ DOMAIN scans' = DOMAIN scans
        /\ n \in DOMAIN scans => scans'[n] = seen
        /\ \A i \in DOMAIN scans : i # n => scans'[i] = scans[i]
    <3>1. scans' = [scans EXCEPT ![n] = seen] /\ seen \in RunStatus
      BY <2>1, <2>3 DEF RunStatus
    <3>. QED
      BY <1>3, <3>1, SeqExcept
  <2>7. Calm => /\ n = Len(scans) /\ n \in DOMAIN scans /\ Latest(scans) = "running"
                /\ scans # <<>>
    <3>1. Calm => n = Len(scans) /\ n # 0 /\ Latest(scans) = "running"
      BY <1>0, <1>2, <2>2, <2>3 DEF Suits, Scanned, Fits
    <3>. QED
      BY <1>3, <3>1
  <2>8. Calm => scans' # <<>> /\ Latest(scans') = seen
    BY <1>3, <2>6, <2>7 DEF Latest
  <2>9. Calm => \A i \in DOMAIN scans' : scans'[i] # "running"
    BY <1>6, <2>3, <2>6, <2>7
  <2>10. Len(scans') <= MaxRuns /\ (Calm => Len(scans') = n)
    BY <1>3, <2>6, <2>7
  <2>11. Scans(r)
    BY <1>8, <2>1, <2>2, <2>4, <2>5, <2>6, <2>7, <2>8, <2>9, <2>10 DEF Scanning
  <2>. QED
    BY <1>1, <2>11
<1>. QED
  BY <1>10, <1>11, <1>12, <1>13, <1>14

-----------------------------------------------------------------------------
(* Steps that write a runtime validation.                                  *)

(* A validation as it is stored.                                           *)
Runtime == [source : 1..MaxRuns, status : RunStatus]

(* A step that writes a validation: it leaves every row that can be retried*)
(* so.                                                                     *)
Judges(r) == \E next \in Request :
    /\ To(r, next) /\ Alive /\ Keeps(r, next)
    /\ UNCHANGED <<project, deps, scans, rows, order, disk, staged, deleting, servers, folders>>
    /\ UNCHANGED cachedRun
    /\ runtimes' \in Seq(Runtime)
    /\ Fits(next) /\ Uploads(next) /\ Admits(next) /\ Scanned(next) /\ Validates(next)'
    /\ OwnPort(r, next) /\ Holds(r, next)
    /\ Alone => \A d \in 1..MaxRuns : Retryable(d) => Retryable(d)'

(* A step that writes a validation keeps the invariant.                    *)
LEMMA JudgeKeeps ==
    ASSUME ProjectInv, NEW r \in Requests, Faults, Noticed(r), Judges(r)
    PROVE  ProjectInv'
<1>0. TypeOK
  BY DEF ProjectInv, TypeInv
<1>1. PICK next \in Request :
        /\ To(r, next) /\ Alive /\ Keeps(r, next)
        /\ UNCHANGED <<project, deps, scans, rows, order, disk, staged, deleting, servers, folders>>
        /\ UNCHANGED cachedRun
        /\ runtimes' \in Seq(Runtime)
        /\ Fits(next) /\ Uploads(next) /\ Admits(next) /\ Scanned(next) /\ Validates(next)'
        /\ OwnPort(r, next) /\ Holds(r, next)
        /\ Alone => \A d \in 1..MaxRuns : Retryable(d) => Retryable(d)'
  BY DEF Judges
<1>2. /\ req' \in [Requests -> Request] /\ req'[r] = next
      /\ \A q \in Requests \ {r} : req'[q] = req[q]
      /\ overlapped' \in BOOLEAN /\ Single'
      /\ Alone' => Alone /\ \A q \in Requests \ {r} : ~Active(q)
  BY <1>0, <1>1, Stepping
<1>3. Alive' /\ (Calm' => Calm) /\ Stopped' = Stopped
  BY <1>1, <1>2 DEF Alive, Calm, Stopped, Faults
<1>4. \A d : Discovered(d) => Discovered(d)'
  BY <1>1 DEF Discovered, Faults
<1>5. TypeInv'
  BY <1>0, <1>1, <1>2 DEF ProjectInv, TypeInv, TypeOK, Faults, Runtime
<1>6. UploadInv'
  BY <1>1, <1>2, <1>3 DEF ProjectInv, UploadInv, Keeps
<1>7. GateInv'
  <2>1. \A d \in 1..MaxRuns : rows'[d].status # "absent" => Discovered(d)'
    BY <1>1, <1>4 DEF ProjectInv, GateInv
  <2>2. (\A i \in DOMAIN order : Discovered(order[i]))'
    BY <1>1, <1>4 DEF ProjectInv, GateInv, Discovered
  <2>3. \A p, q \in Requests :
          req'[p].pc \in DiscoveryPlaces /\ req'[q].pc \in DiscoveryPlaces
             /\ req'[p].dep = req'[q].dep => p = q
    BY <1>1, <1>2 DEF ProjectInv, GateInv, Keeps
  <2>. QED
    BY <2>1, <2>2, <2>3 DEF GateInv
<1>8. ScanInv'
  BY <1>1, <1>2, <1>3 DEF ProjectInv, ScanInv, Latest, Keeps
<1>9. RuntimeInv'
  BY <1>1, <1>2 DEF ProjectInv, RuntimeInv
<1>10. ASSUME NEW p \in Requests PROVE Suits(p, req[p])'
  <2>1. PICK u \in Request : u = req'[p]
    BY <1>2
  <2>2. /\ Fits(u) /\ Uploads(u) /\ Admits(u) /\ Scanned(u)
        /\ OwnPort(p, u) /\ Holds(p, u)
    <3>1. CASE p = r
      BY <1>1, <1>2, <2>1, <3>1
    <3>2. CASE p # r
      BY <1>2, <2>1, <3>2 DEF ProjectInv, Suits
    <3>. QED
      BY <3>1, <3>2
  <2>3. Validates(u)'
    <3>1. CASE p = r
      BY <1>1, <1>2, <2>1, <3>1
    <3>2. CASE p # r
      <4>1. Alone' => u.pc \in {"ready", "done"}
        BY <1>2, <2>1, <3>2 DEF Active
      <4>2. u.pc = "ready" => u.cu = 0
        BY <2>2, ReadyFits
      <4>. QED
        BY <4>1, <4>2 DEF Validates, ValidationPlaces
    <3>. QED
      BY <3>1, <3>2
  <2>4. Uploads(u)' /\ Scanned(u)' /\ Admits(u)'
    BY <1>1, <1>2, <1>3, <2>2 DEF Uploads, Scanned, Latest, Admits, Admitted, Discovered,
       Faults
  <2>5. OwnPort(p, u)' /\ Holds(p, u)'
    BY <1>1, <1>2, <1>3, <2>2 DEF OwnPort, Holds, Bound, Faults
  <2>. QED
    BY <2>1, <2>2, <2>3, <2>4, <2>5 DEF Suits
<1>. QED
  BY <1>2, <1>5, <1>6, <1>7, <1>8, <1>9, <1>10 DEF ProjectInv

(* A validation starts with a new row, whose pipeline row has not failed.  *)
LEMMA StartJudges ==
    ASSUME ProjectInv, NEW r \in Requests, Noticed(r), StartValidation(r)
    PROVE  Faults /\ Judges(r)
<1>0. /\ TypeOK /\ req[r] \in Request /\ Suits(r, req[r]) /\ Alive /\ req[r].pc = "validate"
      /\ UNCHANGED <<project, deps, scans, rows, order, disk, staged, deleting, servers, folders>>
      /\ UNCHANGED cachedRun
  BY DEF ProjectInv, TypeInv, TypeOK, StartValidation, At, CanCommit, Disks, Sut
<1>1. Faults
  BY <1>0, Working DEF StartValidation
<1>2. PICK d \in Validated(r) :
        /\ MayValidate(SeenRow(r, d))
        /\ To(r, [req[r] EXCEPT !.pc = "created", !.cu = d, !.row = SeenRow(r, d),
                                !.run = Len(runtimes) + 1])
        /\ runtimes' = Append(runtimes, [source |-> d, status |-> "pending"])
  BY DEF StartValidation
<1>3. d \in 1..MaxRuns /\ Discovered(d) /\ (Calm => Latest(scans) = "completed")
  <2>1. CASE req[r].op = "retry"
    <3>1. d = req[r].cu /\ d # 0
      BY <1>0, <1>2, <2>1 DEF Validated, Suits, Fits
    <3>2. d \in 1..MaxRuns
      BY <1>0, <3>1, ProjectAssumption DEF Request, Runs
    <3>. QED
      BY <1>0, <3>1, <3>2 DEF Suits, Admits, Scanned, Calm
  <2>2. CASE req[r].op # "retry"
    <3>1. PICK i \in DOMAIN order : d = order[i]
      BY <1>2, <2>2 DEF Validated
    <3>2. order \in Seq(1..MaxRuns)
      BY <1>0 DEF TypeOK
    <3>3. d \in 1..MaxRuns /\ order # <<>>
      <4>1. DOMAIN order = 1..Len(order)
        BY <3>2, LenProperties
      <4>2. d \in 1..MaxRuns
        BY <3>1, <3>2, <4>1, ElementOfSeq
      <4>3. order # <<>>
        BY <3>1
      <4>. QED
        BY <4>2, <4>3
    <3>. QED
      BY <3>1, <3>3 DEF ProjectInv, GateInv, ScanInv
  <2>. QED
    BY <2>1, <2>2
<1>4. PICK row \in Row : row = SeenRow(r, d) /\ MayValidate(row) /\ (Alone => row = rows[d])
  <2>1. SeenRow(r, d) \in Row
    BY <1>0, <1>3 DEF SeenRow, TypeOK, Request
  <2>2. Alone => SeenRow(r, d) = rows[d]
    BY <1>0, <1>3 DEF Suits, Validates, SeenRow
  <2>. QED
    BY <1>2, <2>1, <2>2
<1>5. /\ runtimes \in Seq(Runtime) /\ Len(runtimes) \in Nat /\ DOMAIN runtimes = 1..Len(runtimes)
  BY <1>0, LenProperties DEF TypeOK, Runtime
<1>6. PICK n \in Nat : n = Len(runtimes) + 1 /\ n # 0
  BY <1>5
<1>7. PICK next :
        next = [req[r] EXCEPT !.pc = "created", !.cu = d, !.row = row, !.run = n]
  OBVIOUS
<1>8. next \in Request
  <2>1. "created" \in Pc /\ d \in Runs
    BY <1>3, ProjectAssumption DEF Pc, Runs
  <2>. QED
    BY <1>0, <1>6, <1>7, <2>1 DEF Request
<1>9. /\ next.pc = "created" /\ next.cu = d /\ next.row = row /\ next.run = n
      /\ next.op = req[r].op /\ next.dep = req[r].dep /\ next.branch = req[r].branch
      /\ next.scan = req[r].scan /\ next.scanSeen = req[r].scanSeen /\ next.port = req[r].port
  BY <1>0, <1>7 DEF Request
<1>10. To(r, next)
  BY <1>2, <1>4, <1>6, <1>7
<1>11. /\ runtimes' \in Seq(Runtime) /\ Len(runtimes') = n /\ DOMAIN runtimes' = 1..n
       /\ runtimes'[n] = [source |-> d, status |-> "pending"]
       /\ \A k \in 1..Len(runtimes) : runtimes'[k] = runtimes[k]
  <2>1. [source |-> d, status |-> "pending"] \in Runtime
    BY <1>3 DEF Runtime, RunStatus
  <2>. QED
    BY <1>2, <1>5, <1>6, <2>1, AppendProperties
<1>12. Fits(next) /\ Uploads(next)
  BY <1>0, <1>3, <1>4, <1>9 DEF Suits, Fits, Uploads, Unused, Admitted, StageTwoPlaces,
     DiscoveryPlaces, UploadPlaces, RowPlaces, ValidationPlaces, PortPlaces
<1>13. Admits(next) /\ Scanned(next)
  BY <1>0, <1>3, <1>9 DEF Suits, Admits, Scanned, Admitted, StageTwoPlaces, DiscoveryPlaces
<1>14. Validates(next)'
  <2>1. n \in DOMAIN runtimes' /\ runtimes'[n].source = d
    BY <1>6, <1>11
  <2>2. Alone' => Alone
    BY DEF Alone, Noticed
  <2>. QED
    BY <1>0, <1>4, <1>9, <1>11, <2>1, <2>2 DEF Validates
<1>15. OwnPort(r, next) /\ Holds(r, next)
  BY <1>0, <1>9 DEF Suits, OwnPort, Holds, Serving
<1>16. Keeps(r, next)
  BY <1>0, <1>9 DEF Keeps, Suits, Fits, StageTwoPlaces, DiscoveryPlaces
<1>17. ASSUME Alone, NEW e \in 1..MaxRuns, Retryable(e) PROVE Retryable(e)'
  <2>1. CASE e = d
    <3>1. ~AtValidation(rows[e])
      BY <1>4, <1>17, <2>1 DEF MayValidate, AtValidation
    <3>. QED
      BY <1>0, <3>1 DEF Retryable
  <2>2. CASE e # d
    <3>1. ASSUME FailedLast(e) PROVE FailedLast(e)'
      <4>1. PICK k \in DOMAIN runtimes :
              /\ runtimes[k] = [source |-> e, status |-> "failed"]
              /\ \A l \in DOMAIN runtimes : l > k => runtimes[l].source # e
        BY <3>1 DEF FailedLast
      <4>2. k \in DOMAIN runtimes' /\ runtimes'[k] = [source |-> e, status |-> "failed"]
        BY <1>5, <1>6, <1>11, <4>1
      <4>3. ASSUME NEW l \in DOMAIN runtimes', l > k PROVE runtimes'[l].source # e
        <5>1. CASE l = n
          BY <1>11, <2>2, <5>1
        <5>2. CASE l # n
          <6>1. l \in DOMAIN runtimes
            BY <1>5, <1>6, <1>11, <4>3, <5>2
          <6>. QED
            BY <1>5, <1>11, <4>1, <4>3, <6>1
        <5>. QED
          BY <5>1, <5>2
      <4>. QED
        BY <4>2, <4>3 DEF FailedLast
    <3>. QED
      BY <1>0, <1>17, <3>1 DEF Retryable
  <2>. QED
    BY <2>1, <2>2
<1>. QED
  BY <1>0, <1>1, <1>8, <1>10, <1>11, <1>12, <1>13, <1>14, <1>15, <1>16, <1>17 DEF Judges

(* A validation is marked running, completed or failed.                    *)
LEMMA SetJudges ==
    ASSUME ProjectInv, NEW r \in Requests, Noticed(r),
           MarkRuntimeRunning(r) \/ CompleteRuntime(r) \/ FailRuntime(r)
    PROVE  Faults /\ Judges(r)
<1>0. /\ TypeOK /\ req[r] \in Request /\ Suits(r, req[r]) /\ Alive
      /\ UNCHANGED <<project, deps, scans, rows, order, disk, staged, deleting, servers, folders>>
      /\ UNCHANGED cachedRun
  BY DEF ProjectInv, TypeInv, TypeOK, MarkRuntimeRunning, CompleteRuntime, FailRuntime,
     SetRuntime, CanCommit, Disks, Sut
<1>1. Faults
  BY <1>0, Working DEF MarkRuntimeRunning, CompleteRuntime, FailRuntime, SetRuntime
<1>2. PICK pc \in {"targets", "retried", "done", "fail_source"},
           status \in {"running", "completed", "failed"} :
        /\ Goto(r, pc) /\ runtimes' = [runtimes EXCEPT ![req[r].run].status = status]
        /\ <<req[r].pc, pc>> \in {<<"created", "targets">>, <<"outcome", "retried">>,
                                  <<"outcome", "done">>, <<"fail_runtime", "fail_source">>}
        /\ pc = "fail_source" => status = "failed"
  BY DEF MarkRuntimeRunning, CompleteRuntime, FailRuntime, SetRuntime, At
<1>3. req[r].pc \in ValidationPlaces /\ req[r].pc # "done" /\ req[r].cu \in 1..MaxRuns
  <2>1. req[r].pc \in ValidationPlaces \ {"done"}
    BY <1>2 DEF ValidationPlaces
  <2>2. req[r].cu # 0 /\ req[r].cu \in Runs
    BY <1>0, <2>1 DEF Suits, Fits, RowPlaces, Request
  <2>. QED
    BY <2>1, <2>2, ProjectAssumption DEF Runs
<1>4. PICK run \in Nat, cu \in 1..MaxRuns : run = req[r].run /\ cu = req[r].cu
  BY <1>0, <1>3 DEF Request
<1>5. /\ runtimes \in Seq(Runtime) /\ Len(runtimes) \in Nat /\ DOMAIN runtimes = 1..Len(runtimes)
      /\ \A k \in DOMAIN runtimes : runtimes[k] \in Runtime
  BY <1>0, LenProperties, ElementOfSeq DEF TypeOK, Runtime
<1>6. /\ runtimes' \in Seq(Runtime) /\ Len(runtimes') = Len(runtimes)
      /\ DOMAIN runtimes' = DOMAIN runtimes
      /\ \A k \in DOMAIN runtimes : k # run => runtimes'[k] = runtimes[k]
      /\ run \in DOMAIN runtimes =>
           runtimes'[run].source = runtimes[run].source /\ runtimes'[run].status = status
  <2>1. CASE run \in DOMAIN runtimes
    <3>1. PICK new \in Runtime : new = [runtimes[run] EXCEPT !.status = status]
      BY <1>5, <2>1 DEF Runtime, RunStatus
    <3>2. new.source = runtimes[run].source /\ new.status = status
      BY <1>5, <2>1, <3>1 DEF Runtime
    <3>3. runtimes' = [runtimes EXCEPT ![run] = new]
      BY <1>2, <1>4, <3>1
    <3>. QED
      BY <1>5, <2>1, <3>2, <3>3, SeqExcept
  <2>2. CASE run \notin DOMAIN runtimes
    <3>1. runtimes' = runtimes
      <4>1. runtimes \in [1..Len(runtimes) -> Runtime]
        BY <1>5, LenProperties
      <4>. QED
        BY <1>2, <1>4, <1>5, <2>2, <4>1
    <3>. QED
      BY <1>5, <2>2, <3>1
  <2>. QED
    BY <2>1, <2>2
<1>7. Alone => /\ run \in DOMAIN runtimes /\ run = Len(runtimes) /\ runtimes[run].source = cu
               /\ req[r].row = rows[cu]
  BY <1>0, <1>3, <1>4 DEF Suits, Validates
<1>8. PICK next : next = [req[r] EXCEPT !.pc = pc]
  OBVIOUS
<1>9. next \in Request /\ To(r, next) /\ next.pc = pc
  <2>1. pc \in Pc
    BY DEF Pc
  <2>2. next \in Request /\ next.pc = pc
    BY <1>0, <1>8, <2>1 DEF Request
  <2>. QED
    BY <1>0, <1>2, <1>8, <2>2 DEF Goto, To, TypeOK
<1>10. Carries(req[r], next) /\ next.run = run
  BY <1>0, <1>4, <1>8 DEF Request, Carries
<1>11. Fits(next) /\ Uploads(next)
  BY <1>0, <1>2, <1>9, <1>10 DEF Carries, Suits, Fits, Uploads, Unused, Admitted,
     StageTwoPlaces, DiscoveryPlaces, UploadPlaces, RowPlaces, ValidationPlaces,
     PortPlaces
<1>12. Admits(next) /\ Scanned(next)
  BY <1>0, <1>2, <1>9, <1>10 DEF Carries, Suits, Admits, Scanned, Admitted,
     StageTwoPlaces, DiscoveryPlaces
<1>13. Validates(next)'
  <2>1. Alone' => Alone
    BY DEF Alone, Noticed
  <2>. QED
    BY <1>0, <1>2, <1>4, <1>6, <1>7, <1>9, <1>10, <2>1 DEF Carries, Validates
<1>14. OwnPort(r, next) /\ Holds(r, next)
  BY <1>0, <1>2, <1>9, <1>10 DEF Carries, Suits, OwnPort, Holds, Serving
<1>15. Keeps(r, next)
  BY <1>2, <1>9, <1>10 DEF Keeps, Carries, DiscoveryPlaces
<1>16. ASSUME Alone, NEW e \in 1..MaxRuns, Retryable(e) PROVE Retryable(e)'
  <2>1. CASE e = cu
    <3>1. ~AtValidation(rows[e])
      BY <1>0, <1>3, <1>7, <1>16, <2>1 DEF Suits, Fits, MayValidate, AtValidation
    <3>. QED
      BY <1>0, <3>1 DEF Retryable
  <2>2. CASE e # cu
    <3>1. ASSUME FailedLast(e) PROVE FailedLast(e)'
      <4>1. PICK k \in DOMAIN runtimes :
              /\ runtimes[k] = [source |-> e, status |-> "failed"]
              /\ \A l \in DOMAIN runtimes : l > k => runtimes[l].source # e
        BY <3>1 DEF FailedLast
      <4>2. k # run
        BY <1>7, <1>16, <2>2, <4>1
      <4>3. k \in DOMAIN runtimes' /\ runtimes'[k] = [source |-> e, status |-> "failed"]
        BY <1>6, <4>1, <4>2
      <4>4. ASSUME NEW l \in DOMAIN runtimes', l > k PROVE runtimes'[l].source # e
        BY <1>6, <1>7, <1>16, <2>2, <4>1, <4>4
      <4>. QED
        BY <4>3, <4>4 DEF FailedLast
    <3>. QED
      BY <1>0, <1>16, <3>1 DEF Retryable
  <2>. QED
    BY <2>1, <2>2
<1>. QED
  BY <1>0, <1>1, <1>6, <1>9, <1>11, <1>12, <1>13, <1>14, <1>15, <1>16 DEF Judges

-----------------------------------------------------------------------------
(* Steps on the server under test.                                         *)

(* A step that starts, stops or uses a server.                             *)
Serves(r) == \E next \in Request :
    /\ To(r, next) /\ Keeps(r, next)
    /\ UNCHANGED <<project, deps, scans, rows, order, runtimes, disk, staged, deleting, cachedRun>>
    /\ servers' \in [Requests -> Server] /\ folders' \subseteq Requests
    /\ \A q \in Requests \ {r} : servers'[q] = servers[q] /\ (q \in folders' => q \in folders)
    /\ Fits(next) /\ Uploads(next) /\ Admits(next) /\ Scanned(next) /\ Validates(next)
    /\ OwnPort(r, next)' /\ Holds(r, next)'

(* A step on a server keeps the invariant.                                 *)
LEMMA ServeKeeps ==
    ASSUME ProjectInv, NEW r \in Requests, Faults, Noticed(r), Serves(r)
    PROVE  ProjectInv'
<1>0. TypeOK
  BY DEF ProjectInv, TypeInv
<1>1. PICK next \in Request :
        /\ To(r, next) /\ Keeps(r, next)
        /\ UNCHANGED <<project, deps, scans, rows, order, runtimes, disk, staged, deleting, cachedRun>>
        /\ servers' \in [Requests -> Server] /\ folders' \subseteq Requests
        /\ \A q \in Requests \ {r} : servers'[q] = servers[q] /\ (q \in folders' => q \in folders)
        /\ Fits(next) /\ Uploads(next) /\ Admits(next) /\ Scanned(next) /\ Validates(next)
        /\ OwnPort(r, next)' /\ Holds(r, next)'
  BY DEF Serves
<1>2. /\ req' \in [Requests -> Request] /\ req'[r] = next
      /\ \A q \in Requests \ {r} : req'[q] = req[q]
      /\ overlapped' \in BOOLEAN /\ Single'
      /\ Alone' => Alone /\ \A q \in Requests \ {r} : ~Active(q)
  BY <1>0, <1>1, Stepping
<1>3. Alive' = Alive /\ (Calm' => Calm) /\ Stopped' = Stopped
  BY <1>1, <1>2 DEF Alive, Calm, Stopped, Faults
<1>4. \A d : Discovered(d) => Discovered(d)'
  BY <1>1 DEF Discovered, Faults
<1>5. TypeInv'
  BY <1>0, <1>1, <1>2 DEF ProjectInv, TypeInv, TypeOK, Faults
<1>6. UploadInv'
  BY <1>1, <1>2, <1>3 DEF ProjectInv, UploadInv, Keeps
<1>7. GateInv'
  <2>1. \A d \in 1..MaxRuns : rows'[d].status # "absent" => Discovered(d)'
    BY <1>1, <1>4 DEF ProjectInv, GateInv
  <2>2. (\A i \in DOMAIN order : Discovered(order[i]))'
    BY <1>1, <1>4 DEF ProjectInv, GateInv, Discovered
  <2>3. Alive' => \A p, q \in Requests :
          req'[p].pc \in DiscoveryPlaces /\ req'[q].pc \in DiscoveryPlaces
             /\ req'[p].dep = req'[q].dep => p = q
    BY <1>1, <1>2, <1>3 DEF ProjectInv, GateInv, Keeps
  <2>. QED
    BY <2>1, <2>2, <2>3 DEF GateInv
<1>8. ScanInv'
  <2>1. CASE Alive
    BY <1>1, <1>2, <1>3, <2>1 DEF ProjectInv, ScanInv, Latest, Keeps
  <2>2. CASE ~Alive
    BY <1>1, <1>2, <1>3, <2>2 DEF ProjectInv, UploadInv, ScanInv, Latest, NoRow
  <2>. QED
    BY <2>1, <2>2
<1>9. RuntimeInv'
  BY <1>1, <1>2 DEF ProjectInv, RuntimeInv, Retryable, FailedLast
<1>10. ASSUME NEW p \in Requests PROVE Suits(p, req[p])'
  <2>1. PICK u \in Request : u = req'[p]
    BY <1>2
  <2>2. Fits(u) /\ Uploads(u) /\ Admits(u) /\ Scanned(u) /\ Validates(u)
    <3>1. CASE p = r
      BY <1>1, <1>2, <2>1, <3>1
    <3>2. CASE p # r
      BY <1>2, <2>1, <3>2 DEF ProjectInv, Suits
    <3>. QED
      BY <3>1, <3>2
  <2>3. OwnPort(p, u)' /\ Holds(p, u)'
    <3>1. CASE p = r
      BY <1>1, <1>2, <2>1, <3>1
    <3>2. CASE p # r
      <4>1. u = req[p] /\ OwnPort(p, u) /\ Holds(p, u)
        BY <1>2, <2>1, <3>2 DEF ProjectInv, Suits
      <4>2. Alone' => Alone /\ u.pc \in {"ready", "done"}
        BY <1>2, <3>2, <4>1 DEF Active
      <4>3. servers'[p] = servers[p] /\ (p \in folders' => p \in folders)
        BY <1>1, <3>2
      <4>4. "orphan" \notin happened' => "orphan" \notin happened
        BY DEF Faults
      <4>5. OwnPort(p, u)'
        BY <4>1, <4>2, <4>3, <4>4 DEF OwnPort
      <4>. QED
        BY <1>3, <4>1, <4>3, <4>5 DEF Holds
    <3>. QED
      BY <3>1, <3>2
  <2>4. Uploads(u)' /\ Scanned(u)' /\ Admits(u)' /\ Validates(u)'
    BY <1>1, <1>2, <1>3, <2>2 DEF Uploads, Scanned, Latest, Admits, Admitted, Discovered,
       Validates, Faults
  <2>. QED
    BY <2>1, <2>2, <2>3, <2>4 DEF Suits
<1>. QED
  BY <1>2, <1>5, <1>6, <1>7, <1>8, <1>9, <1>10 DEF ProjectInv

(* A validation's folder, its server, and the end of both.                 *)
LEMMA ServeSteps ==
    ASSUME ProjectInv, NEW r \in Requests, Noticed(r),
           PrepareFolder(r) \/ Launch(r) \/ PollFails(r) \/ Execute(r)
    PROVE  Faults /\ Serves(r)
<1>0. /\ TypeOK /\ req[r] \in Request /\ Suits(r, req[r])
      /\ UNCHANGED <<project, deps, scans, rows, order, runtimes, disk, staged, deleting, cachedRun>>
  BY DEF ProjectInv, TypeInv, TypeOK, PrepareFolder, Launch, PollFails, Execute, Close,
     Stores, Disks
<1>1. Faults
  BY <1>0, Working, Failing DEF PrepareFolder, Launch, PollFails, Execute
<1>2. PICK pc \in {"launch", "poll", "fail_runtime", "outcome"} :
        /\ Goto(r, pc)
        /\ <<req[r].pc, pc>> \in {<<"folder", "launch">>, <<"folder", "fail_runtime">>,
             <<"launch", "poll">>, <<"launch", "fail_runtime">>, <<"poll", "fail_runtime">>,
             <<"execute", "outcome">>, <<"execute", "fail_runtime">>}
        /\ \/ req[r].pc = "folder" /\ pc = "launch" /\ folders' = folders \cup {r} /\ UNCHANGED servers
           \/ req[r].pc = "folder" /\ pc = "fail_runtime" /\ UNCHANGED <<folders, servers>>
           \/ /\ req[r].pc = "launch" /\ pc = "poll" /\ UNCHANGED folders
              /\ servers' = [servers EXCEPT ![r] = [state |-> "starting", port |-> req[r].port]]
           \/ /\ req[r].pc \in {"launch", "poll", "execute"} /\ pc \in {"fail_runtime", "outcome"}
              /\ servers' = [servers EXCEPT ![r] = NoServer] /\ folders' = folders \ {r}
  BY DEF PrepareFolder, Launch, PollFails, Execute, Close, At
<1>3. /\ NoServer \in Server /\ [state |-> "starting", port |-> req[r].port] \in Server
      /\ servers \in [Requests -> Server] /\ folders \subseteq Requests
  BY <1>0 DEF NoServer, Server, Request, TypeOK
<1>4. /\ servers' \in [Requests -> Server] /\ folders' \subseteq Requests
      /\ \A q \in Requests \ {r} : servers'[q] = servers[q] /\ (q \in folders' => q \in folders)
  BY <1>2, <1>3
<1>5. PICK next : next = [req[r] EXCEPT !.pc = pc]
  OBVIOUS
<1>6. next \in Request /\ To(r, next) /\ next.pc = pc
  <2>1. pc \in Pc
    BY DEF Pc
  <2>2. next \in Request /\ next.pc = pc
    BY <1>0, <1>5, <2>1 DEF Request
  <2>. QED
    BY <1>0, <1>2, <1>5, <2>2 DEF Goto, To, TypeOK
<1>7. Carries(req[r], next) /\ next.run = req[r].run
  BY <1>0, <1>5 DEF Request, Carries
<1>8. Fits(next) /\ Uploads(next)
  BY <1>0, <1>2, <1>6, <1>7 DEF Carries, Suits, Fits, Uploads, Unused, Admitted,
     StageTwoPlaces, DiscoveryPlaces, UploadPlaces, RowPlaces, ValidationPlaces,
     PortPlaces
<1>9. Admits(next) /\ Scanned(next) /\ Validates(next)
  BY <1>0, <1>2, <1>6, <1>7 DEF Carries, Suits, Admits, Scanned, Validates, Admitted,
     StageTwoPlaces, DiscoveryPlaces, ValidationPlaces
<1>10. Keeps(r, next)
  BY <1>2, <1>6, <1>7 DEF Keeps, Carries, DiscoveryPlaces
<1>11. Alone' => Alone
  BY DEF Alone, Noticed
<1>12. OwnPort(r, next)'
  <2>1. CASE req[r].pc = "folder" /\ UNCHANGED servers
    BY <1>0, <1>1, <1>2, <1>6, <1>7, <1>11, <2>1 DEF Suits, OwnPort, Bound, Carries, Faults
  <2>2. CASE /\ req[r].pc = "launch" /\ pc = "poll"
             /\ servers' = [servers EXCEPT ![r] = [state |-> "starting", port |-> req[r].port]]
    <3>1. servers'[r].state = "starting" /\ servers'[r].port = next.port
      BY <1>3, <1>7, <2>2 DEF Carries
    <3>2. Alone' /\ "orphan" \notin happened' => ~Bound(next.port)
      BY <1>0, <1>1, <1>7, <1>11, <2>2 DEF Suits, OwnPort, Carries, Faults
    <3>. QED
      BY <1>4, <1>6, <2>2, <3>1, <3>2 DEF OwnPort, Bound
  <2>3. CASE pc \in {"fail_runtime", "outcome"} /\ servers' = [servers EXCEPT ![r] = NoServer]
    <3>1. servers'[r].state = "none"
      BY <1>3, <2>3 DEF NoServer
    <3>. QED
      BY <1>6, <2>3, <3>1 DEF OwnPort
  <2>. QED
    BY <1>2, <2>1, <2>2, <2>3
<1>13. Holds(r, next)'
  <2>1. Stopped' = Stopped
    BY <1>1 DEF Stopped, Faults
  <2>2. Holds(r, req[r])
    BY <1>0 DEF Suits
  <2>3. CASE req[r].pc \in {"folder", "launch"} /\ pc # "fail_runtime"
    BY <1>2, <1>3, <1>6, <2>1, <2>2, <2>3 DEF Holds, Serving
  <2>4. CASE req[r].pc = "folder" /\ pc = "fail_runtime"
    BY <1>2, <1>6, <2>1, <2>2, <2>4 DEF Holds, Serving
  <2>5. CASE servers' = [servers EXCEPT ![r] = NoServer] /\ folders' = folders \ {r}
    BY <1>3, <2>5 DEF Holds
  <2>. QED
    BY <1>2, <2>3, <2>4, <2>5
<1>. QED
  BY <1>0, <1>1, <1>4, <1>6, <1>8, <1>9, <1>10, <1>12, <1>13 DEF Serves

\* A child process starts, or finds its port taken.
LEMMA BootKeeps ==
    ASSUME ProjectInv, NEW r \in Requests, Boot(r)
    PROVE  ProjectInv'
<1>0. /\ TypeOK /\ servers[r].state = "starting"
      /\ servers' = [servers EXCEPT ![r].state = IF Bound(servers[r].port) THEN "exited" ELSE "up"]
      /\ UNCHANGED <<project, deps, scans, rows, order, runtimes, disk, staged, deleting, cachedRun>>
      /\ UNCHANGED <<folders, req, happened, overlapped>>
  BY DEF ProjectInv, TypeInv, Boot, ServerStarts, Works, Stores, Disks
<1>1. servers \in [Requests -> Server] /\ servers[r] \in Server /\ servers[r] # NoServer
  BY <1>0 DEF TypeOK, NoServer
<1>2. PICK new \in Server :
        /\ new = [servers[r] EXCEPT !.state = IF Bound(servers[r].port) THEN "exited" ELSE "up"]
        /\ new.port = servers[r].port /\ new.state \in {"exited", "up"}
        /\ new.state = "exited" => Bound(servers[r].port)
  <2>1. PICK state \in {"exited", "up"} :
          /\ state = IF Bound(servers[r].port) THEN "exited" ELSE "up"
          /\ state = "exited" => Bound(servers[r].port)
    OBVIOUS
  <2>2. PICK new : new = [servers[r] EXCEPT !.state = state]
    OBVIOUS
  <2>3. new \in Server /\ new.port = servers[r].port /\ new.state = state
    BY <1>1, <2>2 DEF Server
  <2>. QED
    BY <2>1, <2>2, <2>3
<1>3. /\ servers' \in [Requests -> Server] /\ servers'[r] = new
      /\ \A q \in Requests \ {r} : servers'[q] = servers[q]
  BY <1>0, <1>1, <1>2
<1>4. TypeInv' /\ UploadInv' /\ Single' /\ ScanInv' /\ RuntimeInv'
  BY <1>0, <1>3 DEF ProjectInv, TypeInv, TypeOK, UploadInv, Alive, Single, Active, Alone,
     ScanInv, Calm, Stopped, Latest, RuntimeInv, Retryable, FailedLast
<1>5. GateInv'
  <2>1. /\ \A d : Discovered(d)' <=> Discovered(d)
        /\ (\A i \in DOMAIN order : Discovered(order[i]))' <=> \A i \in DOMAIN order : Discovered(order[i])
    BY <1>0 DEF Discovered
  <2>. QED
    BY <1>0, <2>1 DEF ProjectInv, GateInv, Alive
<1>6. ASSUME NEW p \in Requests PROVE Suits(p, req[p])'
  <2>1. PICK u \in Request : u = req[p] /\ u = req'[p] /\ Suits(p, u)
    BY <1>0 DEF TypeOK, ProjectInv
  <2>2. Uploads(u)' /\ Admits(u)' /\ Scanned(u)' /\ Validates(u)'
    BY <1>0, <2>1 DEF Suits, Uploads, Alive, Admits, Admitted, Discovered, Scanned, Calm,
       Stopped, Alone, Latest, Validates
  <2>3. Holds(p, u)'
    BY <1>0, <1>1, <1>3, <2>1 DEF Suits, Holds, Stopped
  <2>4. OwnPort(p, u)'
    <3>1. SUFFICES ASSUME Alone, "orphan" \notin happened PROVE OwnPort(p, u)'
      BY <1>0 DEF OwnPort, Alone
    <3>2. PICK v \in Request : v = req[r] /\ OwnPort(r, v)
      BY <1>0 DEF TypeOK, ProjectInv, Suits
    <3>3. /\ v.pc = "poll" /\ servers[r].port = v.port
          /\ \A q \in Requests \ {r} : servers[q] # [state |-> "up", port |-> v.port]
      BY <1>0, <3>1, <3>2 DEF OwnPort
    <3>4. ~Bound(servers[r].port)
      BY <1>0, <3>3 DEF Bound
    <3>5. new.state = "up"
      BY <1>2, <3>4
    <3>6. CASE p = r
      BY <1>2, <1>3, <2>1, <3>2, <3>3, <3>5, <3>6 DEF OwnPort
    <3>7. CASE p # r
      <4>1. u.pc \in {"ready", "done"}
        BY <2>1, <3>1, <3>2, <3>3, <3>7 DEF ProjectInv, Single, Active
      <4>. QED
        BY <1>3, <2>1, <3>1, <3>7, <4>1 DEF Suits, OwnPort
    <3>. QED
      BY <3>6, <3>7
  <2>. QED
    BY <2>1, <2>2, <2>3, <2>4 DEF Suits
<1>. QED
  BY <1>4, <1>5, <1>6 DEF ProjectInv

-----------------------------------------------------------------------------
(* The deletion of the project, and a stop of the server.                  *)

(* The deletion of the project takes its rows along.                       *)
LEMMA DeleteKeeps ==
    ASSUME ProjectInv, NEW r \in Requests, Noticed(r), CommitDelete(r)
    PROVE  ProjectInv'
<1>0. /\ TypeOK /\ req[r] \in Request /\ Suits(r, req[r]) /\ req[r].pc = "commit_delete"
      /\ project' = "deleted" /\ deleting' = Nobody
      /\ deps' = <<>> /\ scans' = <<>> /\ order' = <<>> /\ runtimes' = <<>>
      /\ rows' = [d \in 1..MaxRuns |-> NoRow]
      /\ UNCHANGED <<disk, staged, servers, folders, cachedRun, happened>> /\ End(r)
  BY DEF ProjectInv, TypeInv, TypeOK, CommitDelete, At, Works, Sut
<1>1. ~Alive' /\ project # "absent"
  BY <1>0 DEF Alive, Suits, Uploads, Unused, UploadPlaces
<1>2. PICK next \in Request : next = [req[r] EXCEPT !.pc = "done"]
  <2>1. "done" \in Pc
    BY DEF Pc
  <2>. QED
    BY <1>0, <2>1, PlaceTyped
<1>3. To(r, next) /\ next.pc = "done" /\ Carries(req[r], next)
  BY <1>0, <1>2 DEF End, Goto, To, TypeOK, Request, Carries
<1>4. /\ req' \in [Requests -> Request] /\ req'[r] = next
      /\ \A q \in Requests \ {r} : req'[q] = req[q]
      /\ overlapped' \in BOOLEAN /\ (Alone' => Alone) /\ Single'
  BY <1>0, <1>3, Stepping
<1>5. TypeInv'
  <2>1. rows' \in [1..MaxRuns -> Row]
    BY <1>0, RowTypes
  <2>2. /\ deps' \in Seq(RunStatus) /\ scans' \in Seq(RunStatus) /\ order' \in Seq(1..MaxRuns)
        /\ runtimes' \in Seq([source : 1..MaxRuns, status : RunStatus])
        /\ Len(deps') <= MaxRuns /\ Len(scans') <= MaxRuns
    BY <1>0, EmptySeq, ProjectAssumption
  <2>. QED
    BY <1>0, <1>4, <2>1, <2>2 DEF TypeInv, TypeOK
<1>6. UploadInv'
  BY <1>0, <1>3, <1>4 DEF ProjectInv, UploadInv, Alive, Carries
<1>7. GateInv' /\ ScanInv' /\ RuntimeInv'
  <2>1. \A d \in 1..MaxRuns : rows'[d].status = "absent"
    BY <1>0 DEF NoRow
  <2>2. DOMAIN order' = {} /\ DOMAIN scans' = {} /\ order' = <<>>
    BY <1>0
  <2>. QED
    BY <1>1, <2>1, <2>2 DEF GateInv, ScanInv, RuntimeInv, Retryable, AtValidation
<1>8. ASSUME NEW p \in Requests PROVE Suits(p, req[p])'
  <2>1. PICK u \in Request : u = req'[p]
    BY <1>4
  <2>2. /\ Fits(u) /\ OwnPort(p, u) /\ Holds(p, u)
        /\ u.op = "upload" => u.pc \notin {"ready"} \cup UploadPlaces
    <3>1. CASE p = r
      <4>1. Fits(next)
        BY <1>0, <1>3 DEF Suits, Fits, Carries, Admitted, StageTwoPlaces, DiscoveryPlaces,
           UploadPlaces, RowPlaces, ValidationPlaces, PortPlaces
      <4>2. OwnPort(r, next) /\ Holds(r, next)
        BY <1>0, <1>3 DEF Suits, OwnPort, Holds, Carries, Serving
      <4>. QED
        BY <1>3, <1>4, <2>1, <3>1, <4>1, <4>2 DEF UploadPlaces
    <3>2. CASE p # r
      BY <1>1, <1>4, <2>1, <3>2 DEF ProjectInv, Suits, Uploads
    <3>. QED
      BY <3>1, <3>2
  <2>3. Uploads(u)' /\ Admits(u)' /\ Scanned(u)' /\ Validates(u)'
    BY <1>0, <1>1, <2>2 DEF Uploads, Admits, Scanned, Validates
  <2>4. OwnPort(p, u)' /\ Holds(p, u)'
    BY <1>0, <1>4, <2>2 DEF OwnPort, Holds, Bound, Stopped
  <2>. QED
    BY <2>1, <2>2, <2>3, <2>4 DEF Suits
<1>. QED
  BY <1>4, <1>5, <1>6, <1>7, <1>8 DEF ProjectInv

(* A request that has not begun.                                           *)
LEMMA NewTyped ==
    ASSUME NEW op \in Ops \cup {"none"}
    PROVE  NewRequest(op) \in Request
<1>1. 0 \in Runs /\ {"ready", "done"} \subseteq Pc
  BY ProjectAssumption DEF Runs, Pc
<1>. QED
  BY <1>1, RowTypes DEF NewRequest, Request

(* A stop of the web server ends every request; the files and rows stay.   *)
LEMMA CrashKeeps ==
    ASSUME ProjectInv, Crash
    PROVE  ProjectInv'
<1>0. /\ TypeOK
      /\ req' = [r \in Requests |-> IF req[r].pc = "ready" THEN req[r] ELSE NewRequest("none")]
      /\ deleting' = Nobody
      /\ UNCHANGED <<project, deps, scans, rows, order, runtimes, disk, staged, servers, folders>>
      /\ UNCHANGED <<cachedRun, overlapped>>
  BY DEF ProjectInv, TypeInv, Crash, Stores, Sut
<1>1. /\ happened \subseteq happened' /\ happened' \subseteq FaultKinds /\ Stopped'
      /\ "orphan" \notin happened' =>
           "orphan" \notin happened /\ \A r \in Requests : servers[r].state # "starting"
  BY <1>0 DEF TypeOK, Crash, Fault, Stopped
<1>2. NewRequest("none") \in Request /\ NewRequest("none").pc = "done"
      /\ NewRequest("none").op = "none" /\ NewRequest("none").cu = 0 /\ NewRequest("none").scan = 0
      /\ NewRequest("none").branch = "none" /\ NewRequest("none").port = 0
  BY NewTyped DEF NewRequest
<1>3. /\ req' \in [Requests -> Request]
      /\ \A p \in Requests : req'[p] = NewRequest("none") \/ (req[p].pc = "ready" /\ req'[p] = req[p])
      /\ \A p \in Requests : req'[p].pc \in {"ready", "done"}
  BY <1>0, <1>2 DEF TypeOK
<1>4. TypeInv'
  BY <1>0, <1>1, <1>3 DEF ProjectInv, TypeInv, TypeOK
<1>5. UploadInv' /\ Single'
  BY <1>0, <1>2, <1>3 DEF ProjectInv, UploadInv, Alive, Single, Active
<1>6. \A d : Discovered(d) => Discovered(d)'
  BY <1>0, <1>1 DEF Discovered
<1>7. GateInv'
  <2>1. (\A i \in DOMAIN order : Discovered(order[i]))'
    BY <1>0, <1>1 DEF ProjectInv, GateInv, Discovered
  <2>. QED
    BY <1>0, <1>3, <1>6, <2>1 DEF ProjectInv, GateInv, DiscoveryPlaces
<1>8. ScanInv' /\ RuntimeInv'
  BY <1>0, <1>1 DEF ProjectInv, ScanInv, Calm, RuntimeInv, Alone, Retryable, FailedLast
<1>9. ASSUME NEW p \in Requests PROVE Suits(p, req[p])'
  <2>1. PICK u \in Request : u = req'[p] /\ u.pc \in {"ready", "done"}
    BY <1>3
  <2>2. Fits(u) /\ u.cu = 0 /\ u.scan = 0 /\ (u.op = "upload" /\ u.pc = "ready" => project = "absent")
    <3>1. CASE u = NewRequest("none")
      BY <1>2, <3>1 DEF Fits, Admitted, StageTwoPlaces, DiscoveryPlaces, UploadPlaces,
         RowPlaces, ValidationPlaces, PortPlaces
    <3>2. CASE u = req[p] /\ u.pc = "ready"
      BY <3>2, ReadyFits DEF ProjectInv, Suits, Uploads
    <3>. QED
      BY <1>3, <2>1, <3>1, <3>2
  <2>3. Uploads(u)'
    BY <1>0, <2>1, <2>2 DEF Uploads, Unused, UploadPlaces
  <2>4. Admits(u)' /\ Scanned(u)' /\ Validates(u)'
    BY <1>1, <2>1, <2>2 DEF Admits, Admitted, Scanned, Calm, Validates, StageTwoPlaces,
       DiscoveryPlaces, ValidationPlaces
  <2>5. OwnPort(p, u)' /\ Holds(p, u)'
    BY <1>0, <1>1, <2>1 DEF OwnPort, Holds
  <2>. QED
    BY <2>1, <2>2, <2>3, <2>4, <2>5 DEF Suits
<1>. QED
  BY <1>4, <1>5, <1>7, <1>8, <1>9 DEF ProjectInv

(* Nothing happens.                                                        *)
LEMMA StutterKeeps ==
    ASSUME ProjectInv, UNCHANGED vars
    PROVE  ProjectInv'
<1>0. /\ UNCHANGED <<project, deps, scans, rows, order, runtimes, disk, staged, deleting, cachedRun>>
      /\ UNCHANGED <<servers, folders, req, happened, overlapped>>
  BY DEF vars
<1>1. TypeInv' /\ UploadInv' /\ Single' /\ ScanInv' /\ RuntimeInv'
  BY <1>0 DEF ProjectInv, TypeInv, TypeOK, UploadInv, Alive, Single, Active, Alone,
     ScanInv, Calm, Stopped, Latest, RuntimeInv, Retryable, FailedLast
<1>2. GateInv'
  <2>1. /\ \A d : Discovered(d)' <=> Discovered(d)
        /\ (\A i \in DOMAIN order : Discovered(order[i]))' <=> \A i \in DOMAIN order : Discovered(order[i])
    BY <1>0 DEF Discovered
  <2>. QED
    BY <1>0, <2>1 DEF ProjectInv, GateInv, Alive
<1>3. ASSUME NEW p \in Requests PROVE Suits(p, req[p])'
  <2>1. PICK u : u = req[p] /\ u = req'[p] /\ Suits(p, u)
    BY <1>0 DEF ProjectInv
  <2>2. Uploads(u)' /\ Admits(u)' /\ Scanned(u)' /\ Validates(u)'
    BY <1>0, <2>1 DEF Suits, Uploads, Alive, Admits, Admitted, Discovered, Scanned, Calm,
       Stopped, Alone, Latest, Validates
  <2>3. OwnPort(p, u)' /\ Holds(p, u)'
    BY <1>0, <2>1 DEF Suits, OwnPort, Holds, Stopped, Alone, Bound
  <2>. QED
    BY <2>1, <2>2, <2>3 DEF Suits
<1>. QED
  BY <1>1, <1>2, <1>3 DEF ProjectInv

-----------------------------------------------------------------------------
(* The invariant.                                                          *)

(* What earlier requests have stored.                                      *)
LEMMA StoredTyped ==
    ASSUME NEW known \in {"nothing", "uploaded", "understood", "generated", "unvalidated"}
    PROVE  /\ Stored(known).row \in Row /\ Stored(known).row.status \in Status
           /\ Stored(known).project \in {"absent", "uploaded", "ready"}
           /\ Stored(known).project = "absent" => known = "nothing"
           /\ \/ /\ Stored(known).row = NoRow /\ Stored(known).runs \in {<<>>, <<"completed">>}
                 /\ Stored(known).runtimes = <<>> /\ Stored(known).runs = <<>>
              \/ /\ Stored(known).project = "ready" /\ Stored(known).runs = <<"completed">>
                 /\ Stored(known).row.status # "absent"
                 /\ \/ Stored(known).runtimes = <<>> /\ ~AtValidation(Stored(known).row)
                    \/ Stored(known).runtimes = <<[source |-> 1, status |-> "failed"]>>
<1>1. /\ Understood \in Row /\ Generated \in Row
      /\ FailRun(Generated, "runtime_validation") \in Row /\ NoRow \in Row
  BY StoredRows, RowTypes
<1>2. Understood.status = "completed"
  BY DEF Understood, NoRow
<1>3. Generated.status = "completed"
  BY <1>1, <1>2 DEF Generated, SaveTestGeneration, Row
<1>4. FailRun(Generated, "runtime_validation").status = "failed"
  BY <1>1 DEF FailRun, Row
<1>. QED
  BY <1>1, <1>2, <1>3, <1>4 DEF Stored, Row, AtValidation

(* A sequence of one.                                                      *)
LEMMA Singleton ==
    ASSUME NEW S, NEW x \in S
    PROVE  <<x>> \in Seq(S) /\ Len(<<x>>) = 1
  OBVIOUS

(* The invariant holds at the start.                                       *)
LEMMA InitHolds == Init => ProjectInv
<1>. SUFFICES ASSUME Init PROVE ProjectInv
  OBVIOUS
<1>1. PICK mix \in Mixes :
        LET stored == Stored(mix.known) IN
        /\ project = stored.project
        /\ disk = IF project = "absent" THEN "none" ELSE "complete"
        /\ staged = "none" /\ deleting = Nobody
        /\ deps = stored.runs /\ scans = stored.runs
        /\ rows = [d \in 1..MaxRuns |-> IF d = 1 THEN stored.row ELSE NoRow]
        /\ order = IF stored.row.status = "absent" THEN <<>> ELSE <<1>>
        /\ runtimes = stored.runtimes
        /\ cachedRun = Len(order)
        /\ servers = [r \in Requests |-> NoServer]
        /\ folders = {}
        /\ req = [r \in Requests |-> NewRequest(mix.ops[r])]
        /\ happened = {} /\ overlapped = FALSE
  BY DEF Init
<1>2. PICK known, ops, row :
        /\ known = mix.known /\ ops = mix.ops /\ row = Stored(mix.known).row
        /\ known \in {"nothing", "uploaded", "understood", "generated", "unvalidated"}
        /\ ops \in [Requests -> Ops \cup {"none"}]
        /\ \A r \in Requests : ops[r] = "upload" =>
             known = "nothing" /\ \A q \in Requests \ {r} : ops[q] # "upload"
  BY ProjectAssumption
<1>3. /\ row \in Row /\ project \in {"absent", "uploaded", "ready"}
      /\ known = "nothing" => project = "absent"
      /\ \/ /\ row = NoRow /\ deps = <<>> /\ scans = <<>> /\ order = <<>> /\ runtimes = <<>>
         \/ /\ project = "ready" /\ deps = <<"completed">> /\ scans = <<"completed">>
            /\ order = <<1>> /\ row.status # "absent"
            /\ \/ runtimes = <<>> /\ ~AtValidation(row)
               \/ runtimes = <<[source |-> 1, status |-> "failed"]>>
  <2>1. NoRow.status = "absent"
    BY DEF NoRow
  <2>2. known = "nothing" => Stored(known).project = "absent"
    BY DEF Stored
  <2>. QED
    BY <1>1, <1>2, <2>1, <2>2, StoredTyped
<1>4. /\ req \in [Requests -> Request] /\ \A r \in Requests : req[r] = NewRequest(ops[r])
      /\ \A r \in Requests : req[r].op = ops[r] /\ req[r].pc \in {"ready", "done"}
           /\ req[r].cu = 0 /\ req[r].scan = 0 /\ req[r].port = 0 /\ req[r].branch = "none"
  <2>1. \A r \in Requests : NewRequest(ops[r]) \in Request
    BY <1>2, NewTyped
  <2>2. req = [r \in Requests |-> NewRequest(ops[r])]
    BY <1>1, <1>2
  <2>. QED
    BY <2>1, <2>2 DEF NewRequest
<1>5. /\ MaxRuns \in Nat \ {0} /\ 1 \in 1..MaxRuns /\ 0 \in Runs /\ 1 \in Runs
  BY ProjectAssumption DEF Runs
<1>6. TypeInv
  <2>1. deps \in Seq(RunStatus) /\ Len(deps) <= MaxRuns /\ scans \in Seq(RunStatus) /\ Len(scans) <= MaxRuns
    <3>. DEFINE Completed == <<"completed">>
    <3>1. Completed \in Seq(RunStatus) /\ Len(Completed) = 1
      BY Singleton DEF RunStatus
    <3>2. <<>> \in Seq(RunStatus) /\ Len(<<>>) = 0
      BY EmptySeq
    <3>3. deps \in {<<>>, Completed} /\ scans \in {<<>>, Completed}
      BY <1>3
    <3>. HIDE DEF Completed
    <3>4. 0 <= MaxRuns /\ 1 <= MaxRuns
      BY <1>5
    <3>5. ASSUME NEW s \in {<<>>, Completed}
          PROVE  s \in Seq(RunStatus) /\ Len(s) <= MaxRuns
      <4>1. CASE s = <<>>
        <5>. QED
          BY <4>1, <3>2, <3>4
      <4>2. CASE s = Completed
        <5>. QED
          BY <4>2, <3>1, <3>4
      <4>. QED
        BY <4>1, <4>2
    <3>. QED
      BY <3>3, <3>5
  <2>2. order \in Seq(1..MaxRuns) /\ cachedRun \in Runs
    <3>1. <<1>> \in Seq(1..MaxRuns) /\ Len(<<1>>) = 1
      BY <1>5, Singleton
    <3>2. <<>> \in Seq(1..MaxRuns) /\ Len(<<>>) = 0
      BY EmptySeq
    <3>3. cachedRun = Len(order) /\ order \in {<<>>, <<1>>}
      BY <1>1, <1>3
    <3>. QED
      BY <1>5, <3>1, <3>2, <3>3
  <2>3. runtimes \in Seq([source : 1..MaxRuns, status : RunStatus])
    <3>. DEFINE Failed == [source |-> 1, status |-> "failed"]
                R == [source : 1..MaxRuns, status : RunStatus]
    <3>1. Failed \in R
      BY <1>5 DEF RunStatus
    <3>2. <<Failed>> \in Seq(R)
      <4>. HIDE DEF Failed, R
      <4>. QED
        BY <3>1, Singleton
    <3>3. <<>> \in Seq(R)
      BY EmptySeq
    <3>4. runtimes \in {<<>>, <<Failed>>}
      BY <1>3
    <3>. QED
      BY <3>2, <3>3, <3>4
  <2>4. rows \in [1..MaxRuns -> Row]
    BY <1>1, <1>2, <1>3, RowTypes
  <2>5. servers \in [Requests -> Server]
    BY <1>1 DEF NoServer, Server
  <2>6. /\ disk \in Files /\ staged \in Files /\ "none" \in {disk, staged}
        /\ deleting \in Requests \cup {Nobody} /\ folders \subseteq Requests
        /\ happened \subseteq FaultKinds /\ overlapped \in BOOLEAN
    BY <1>1 DEF Files
  <2>. QED
    BY <1>3, <1>4, <2>1, <2>2, <2>3, <2>4, <2>5, <2>6 DEF TypeInv, TypeOK
<1>7. UploadInv
  <2>1. ~Alive => rows = [d \in 1..MaxRuns |-> NoRow]
    BY <1>1, <1>2, <1>3 DEF Alive
  <2>. QED
    BY <1>1, <1>2, <1>3, <1>4, <2>1 DEF UploadInv, Alive
<1>8. Single
  BY <1>4 DEF Single, Active
<1>9. \A d \in 1..MaxRuns : rows[d] = IF d = 1 THEN row ELSE NoRow
  BY <1>1, <1>2
<1>10. NoRow.status = "absent"
  BY DEF NoRow
<1>11. GateInv
  BY <1>3, <1>4, <1>9, <1>10 DEF GateInv, Discovered, DiscoveryPlaces
<1>12. ScanInv
  BY <1>3, <1>9, <1>10 DEF ScanInv, Latest
<1>13. RuntimeInv
  BY <1>3, <1>9, <1>10 DEF RuntimeInv, Retryable, AtValidation, FailedLast
<1>14. ASSUME NEW r \in Requests PROVE Suits(r, req[r])
  <2>1. Fits(req[r])
    BY <1>4 DEF Fits, Admitted, StageTwoPlaces, DiscoveryPlaces, UploadPlaces, RowPlaces,
         ValidationPlaces, PortPlaces
  <2>2. Uploads(req[r])
    BY <1>2, <1>3, <1>4 DEF Uploads, Unused, UploadPlaces
  <2>3. Admits(req[r]) /\ Scanned(req[r]) /\ Validates(req[r])
    BY <1>4 DEF Admits, Admitted, Scanned, Validates, StageTwoPlaces, DiscoveryPlaces,
       ValidationPlaces
  <2>4. OwnPort(r, req[r]) /\ Holds(r, req[r])
    BY <1>1, <1>4 DEF OwnPort, Holds, NoServer
  <2>. QED
    BY <2>1, <2>2, <2>3, <2>4 DEF Suits
<1>. QED
  BY <1>6, <1>7, <1>8, <1>11, <1>12, <1>13, <1>14 DEF ProjectInv

(* Every step of a request keeps the invariant.                            *)
LEMMA StepKeeps ==
    ASSUME ProjectInv, NEW r \in Requests, Step(r)
    PROVE  ProjectInv'
<1>1. Noticed(r)
  BY DEF Step, Noticed
<1>2. CASE \/ Begin(r) \/ CommitAfterDeletion(r) \/ Refuse(r) \/ RefuseValidation(r)
           \/ DiscoverFiles(r) \/ SkipStage(r) \/ SelectTargets(r) \/ UseExisting(r)
           \/ PollAnswered(r)
  BY <1>1, <1>2, BeginMoves, PlaceMoves, MoveKeeps
<1>3. CASE \/ ContinueStageTwo(r) \/ ContinueStageThree(r) \/ ContinueStageFour(r) \/ Resume(r)
  BY <1>1, <1>3, GateMoves, MoveKeeps
<1>4. CASE \/ Join(r) \/ ScanAfterDeletion(r) \/ AdmitNothing(r) \/ LoadRetried(r)
           \/ ResolveSources(r) \/ FindPort(r)
  BY <1>1, <1>4, TakeMoves, MoveKeeps
<1>5. CASE \/ CreateDirectory(r) \/ Extract(r) \/ UploadFails(r) \/ StageFiles(r) \/ DeleteRows(r)
           \/ DeletionFails(r) \/ DeleteFiles(r) \/ MarkProcessing(r) \/ MarkReady(r)
           \/ MarkFailed(r) \/ DiscoveryCommitFails(r)
  BY <1>1, <1>5, FileMoves, CommitFailMoves, MoveKeeps
<1>6. CASE \/ MarkCreatedRunning(r) \/ PrepareRetried(r) \/ RunStage(r) \/ StageFails(r)
           \/ PrepareGeneration(r) \/ RestoreUnderstanding(r) \/ GenerateTestCases(r)
           \/ FailSource(r) \/ CompleteRetried(r) \/ CompletePipeline(r)
  BY <1>1, <1>6, HandSteps, CompleteCommits, CommitKeeps
<1>7. CASE Relock(r) \/ AdmitCreate(r) \/ AdmitAgain(r) \/ ForceRerun(r)
  BY <1>1, <1>7, RelockSteps, AdmitSteps, MoveKeeps, CommitKeeps
<1>8. CASE RecordProject(r) \/ CommitDelete(r)
  BY <1>1, <1>8, RecordKeeps, DeleteKeeps
<1>9. CASE CreateDependencyRun(r) \/ CompleteDependencyRun(r) \/ FailDependencyRun(r)
  BY <1>1, <1>9, DiscoverySteps, DiscoverKeeps
<1>10. CASE StartScan(r) \/ FinishScan(r)
  BY <1>1, <1>10, ScanSteps, MoveKeeps, ScanKeeps
<1>11. CASE \/ StartValidation(r) \/ MarkRuntimeRunning(r) \/ CompleteRuntime(r) \/ FailRuntime(r)
  BY <1>1, <1>11, StartJudges, SetJudges, JudgeKeeps
<1>12. CASE PrepareFolder(r) \/ Launch(r) \/ PollFails(r) \/ Execute(r)
  BY <1>1, <1>12, ServeSteps, ServeKeeps
<1>. QED
  BY <1>2, <1>3, <1>4, <1>5, <1>6, <1>7, <1>8, <1>9, <1>10, <1>11, <1>12 DEF Step

(* The inductive invariant: types and bounds (TypeInv), the project's      *)
(* stores before the upload and after the deletion (UploadInv), one request*)
(* at a time while Alone (Single), the gates (GateInv, ScanInv,            *)
(* RuntimeInv), and of every request that its session agrees with the      *)
(* stores (Suits).                                                         *)
THEOREM ProjectInvariant == Spec => []ProjectInv
<1>1. ProjectInv /\ [Next]_vars => ProjectInv'
  <2>. SUFFICES ASSUME ProjectInv, [Next]_vars PROVE ProjectInv'
    OBVIOUS
  <2>. QED
    BY StepKeeps, BootKeeps, CrashKeeps, StutterKeeps DEF Next
<1>. QED
  BY InitHolds, <1>1, PTL DEF Spec

(* Every variable of the project keeps its type, whatever requests its     *)
(* services are serving and whatever fails.                                *)
THEOREM ProjectTypes == Spec => []TypeOK
<1>1. ProjectInv => TypeOK
  BY DEF ProjectInv, TypeInv
<1>. QED
  BY ProjectInvariant, <1>1, PTL

(* A pipeline row belongs to a dependency run that completed, and for      *)
(* requests one after the other to a project whose scan completed.         *)
THEOREM GateOfStageThree == Spec => []StageThreeGate
<1>1. ProjectInv => StageThreeGate
  <2>. SUFFICES ASSUME ProjectInv, NEW d \in 1..MaxRuns, rows[d].status # "absent"
                PROVE  /\ d \in DOMAIN deps
                       /\ "commit" \notin happened => deps[d] = "completed"
                       /\ Alone /\ ~Stopped => Latest(scans) = "completed"
    BY DEF StageThreeGate
  <2>. QED
    BY DEF ProjectInv, GateInv, Discovered, ScanInv, Calm
<1>. QED
  BY ProjectInvariant, <1>1, PTL

(* A pipeline that failed at Runtime Validation can be retried: the newest *)
(* validation of its row is the failed one (requests one after the other). *)
THEOREM FailureIsRetryable == Spec => []RuntimeRetryable
<1>1. ProjectInv => RuntimeRetryable
  BY DEF ProjectInv, RuntimeInv, Retryable, AtValidation, FailedLast, RuntimeRetryable
<1>. QED
  BY ProjectInvariant, <1>1, PTL

(* A lone validation meets the server it has started itself, and no server *)
(* and no folder outlives its validation while the web server runs.        *)
THEOREM ServersAreOwned == Spec => []ServerOwned
<1>1. ProjectInv => ServerOwned
  BY DEF ProjectInv, Suits, OwnPort, Holds, ServerOwned, At, Serving
<1>. QED
  BY ProjectInvariant, <1>1, PTL

-----------------------------------------------------------------------------
(* Requests one after the other, whose work or commits fail at most: what  *)
(* is unfinished is the work of the request being served.                  *)

Undisturbed == Alone /\ happened \subseteq {"work", "commit"}

(* The places of a request that has a pipeline row in hand.                *)
PipelinePlaces == {"pending", "source", "stage3", "stage4", "quality", "plan", "complete",
                   "relock"}
HoldingPlaces == PipelinePlaces \cup {"restore", "retried"}
JudgingPlaces == ValidationPlaces \ {"fail_source"}

\* Request q works on row d, which is pending or running until it is done.
HoldsRow(q, d) ==
    /\ q.cu = d
    /\ q.pc \in HoldingPlaces \/ (q.op = "retry" /\ q.pc \in {"validate"} \cup ValidationPlaces)

\* A validation of this row would be admitted.
Testable(row) == row.result.plan # NoSuite \/ row.result.generation # NoSuite

(* What request q knows of its project at its place.                       *)
Knows(q) ==
    /\ q.pc \notin {"ready", "done"} \cup UploadPlaces => Alive
    /\ q.pc \in DiscoveryPlaces =>
         /\ q.dep = Len(deps) /\ q.cu # q.dep /\ cachedRun = 0
         /\ rows[q.dep].status = "absent"
         /\ \A i \in DOMAIN order : order[i] # q.dep
    /\ q.pc \in {"processing", "discover", "found"} => Latest(deps) = "running"
    /\ q.pc = "unpublish" => Latest(deps) = "failed"
    /\ Admitted(q) => q.dep = LastCompleted
    /\ q.pc # "done" /\ q.cu # 0 => q.cu \in DOMAIN deps /\ deps[q.cu] = "completed"
    /\ q.pc \in PipelinePlaces /\ q.op # "retry" => q.cu = LastCompleted
    /\ q.pc \in {"relock", "rerun"} => q.dep = q.cu
    /\ q.pc \in PipelinePlaces => q.row.status \in Unfinished
    /\ q.pc \in {"admit", "force"} \cup PipelinePlaces =>
         q.op \in {"upload", "continue_2", "resume", "force", "retry"}
    /\ q.pc = "revalidate" => AtValidation(q.row)
    /\ q.pc \in {"retry", "rerun", "revalidate"} => q.op = "retry"
    /\ q.op = "retry" /\ q.pc \in {"retry", "revalidate", "validate"} => order # <<>>
    /\ q.op = "retry" /\ q.pc = "validate" => MayValidate(q.row)
    /\ q.pc = "record" => disk = "complete"
    /\ q.pc \in {"delete_rows", "delete_files", "commit_delete"} => disk = "none"

(* The runs that are unfinished are those of request q.                    *)
RunsOf(q) ==
    /\ \A d \in DOMAIN deps : deps[d] \in Unfinished =>
         q.pc \in {"processing", "discover", "found", "unfound"} /\ q.dep = d
    /\ \A i \in DOMAIN scans : scans[i] # "pending"
    /\ \A d \in 1..MaxRuns : rows[d].status \in Unfinished => HoldsRow(q, d)
    /\ \A k \in DOMAIN runtimes : runtimes[k].status \in Unfinished =>
         q.pc \in JudgingPlaces /\ q.run = k

(* So is a status of the project that is behind its last discovery, and    *)
(* files that are not those of the project.                                *)
StatusOf(q) ==
    /\ Latest(deps) = "completed" => project = "ready" \/ q.pc \in {"publish", "unfound"}
    /\ Latest(deps) = "failed" => project = "failed" \/ q.pc = "unpublish"
FilesOf(q) ==
    /\ Alive => \/ disk = "complete" /\ staged = "none"
                \/ q.pc = "delete_rows" /\ q.error /\ disk = "none" /\ staged = "complete"
                \/ q.pc = "delete_files" /\ disk = "none" /\ staged = "complete"
                \/ q.pc = "commit_delete" /\ disk = "none" /\ staged = "none"
    /\ ~Alive => (disk = "none" /\ staged = "none") \/ q.pc \in {"extract", "record"}

(* The rows are those of completed discoveries; one that failed at Runtime *)
(* Validation can be validated again.                                      *)
RowsSound ==
    /\ \A d \in 1..MaxRuns : rows[d].status # "absent" =>
         d \in DOMAIN deps /\ deps[d] = "completed"
    /\ \A i \in DOMAIN order : order[i] \in DOMAIN deps /\ deps[order[i]] = "completed"
    /\ \A d \in 1..MaxRuns : AtValidation(rows[d]) => Testable(rows[d])

(* The cached pipeline run is that of the newest completed discovery, but  *)
(* where a retry has completed the row of an earlier one.                  *)
Retrying == \E p \in Requests : req[p].op = "retry"
CacheOf(q) ==
    /\ Alive => cachedRun \in {0, LastCompleted} \/ (Retrying /\ q.op # "upload")
    /\ project = "absent" => cachedRun = 0

Accounts(q) == Knows(q) /\ RunsOf(q) /\ StatusOf(q) /\ FilesOf(q) /\ RowsSound /\ CacheOf(q)

\* The operations of RetriesApart.
OpsApart == \A p, q \in Requests : ~(req[p].op = "retry" /\ req[q].op = "continue_2")

(* While no request is served, nothing is unfinished; otherwise what is    *)
(* unfinished is that of the request served.                               *)
SettledInv == Undisturbed =>
    /\ OpsApart
    /\ Idle => Accounts(NewRequest("none"))
    /\ \A r \in Requests : Active(r) => Accounts(req[r])

-----------------------------------------------------------------------------
(* A request has its turn when no other is served: everything that is      *)
(* unfinished is its own.                                                  *)
Turn(r) == ProjectInv /\ Undisturbed /\ OpsApart /\ Accounts(req[r])

\* A step of r after which it accounts for what is unfinished.
Accounting(r) == \E next \in Request :
    To(r, next) /\ next.op = req[r].op /\ Accounts(next)'

\* At these places nothing is unfinished.
Loose(q) ==
    \/ q.pc \in {"ready", "done", "directory", "state", "dependency", "join", "admit", "force",
                 "generate", "regenerate", "retry", "rerun", "revalidate", "stage_files"}
    \/ q.pc = "validate" /\ q.op # "retry"

LEMMA Turning ==
    ASSUME NEW r \in Requests, Turn(r)
    PROVE  /\ TypeInv /\ TypeOK /\ Undisturbed /\ Alone /\ Calm /\ OpsApart
           /\ req[r] \in Request /\ Accounts(req[r])
           /\ Fits(req[r]) /\ Uploads(req[r])
           /\ Scanned(req[r]) /\ Validates(req[r])
BY DEF Turn, ProjectInv, TypeInv, TypeOK, Suits, Undisturbed, Calm, Stopped

(* The operations of the requests stay.                                    *)
LEMMA OpsStay ==
    ASSUME TypeOK, NEW r \in Requests, NEW next \in Request, To(r, next), next.op = req[r].op
    PROVE  (Retrying' <=> Retrying) /\ (OpsApart => OpsApart')
<1>1. \A p \in Requests : req'[p].op = req[p].op
  BY DEF TypeOK, To
<1>. QED
  BY <1>1 DEF Retrying, OpsApart

\* What the accounts are about, but for the runs a step writes.
Tables == <<project, disk, staged, deps, scans, rows, order, runtimes, cachedRun>>

(* Where nothing is written, what held of the next state of a request does.*)
LEMMA SameAccounts ==
    ASSUME NEW r \in Requests, Turn(r), UNCHANGED Tables,
           NEW next \in Request, To(r, next), next.op = req[r].op, Accounts(next)
    PROVE  Accounting(r)
<1>1. Retrying' <=> Retrying
  BY Turning, OpsStay
<1>2. /\ project' = project /\ disk' = disk /\ staged' = staged /\ deps' = deps /\ scans' = scans
      /\ rows' = rows /\ order' = order /\ runtimes' = runtimes /\ cachedRun' = cachedRun
  BY DEF Tables
<1>3. Alive' = Alive /\ LastCompleted' = LastCompleted
  BY <1>2 DEF Alive, LastCompleted, CompletedDeps
<1>4. Knows(next)'
  BY <1>2, <1>3 DEF Accounts, Knows, Latest
<1>5. RunsOf(next)' /\ StatusOf(next)' /\ FilesOf(next)'
  BY <1>2, <1>3 DEF Accounts, RunsOf, StatusOf, FilesOf, Latest
<1>6. RowsSound' /\ CacheOf(next)'
  BY <1>1, <1>2, <1>3 DEF Accounts, RowsSound, CacheOf
<1>. QED
  BY <1>4, <1>5, <1>6 DEF Accounts, Accounting

(* A request that leaves a place where nothing is unfinished need only     *)
(* know what it should at its next one.                                    *)
LEMMA LooseAccounts ==
    ASSUME NEW q \in Request, Accounts(q), Loose(q), NEW next \in Request, next.op = q.op,
           Knows(next)
    PROVE  Accounts(next)
<1>1. RunsOf(next)
  BY DEF Accounts, RunsOf, Loose, HoldsRow, HoldingPlaces, PipelinePlaces, JudgingPlaces,
     ValidationPlaces
<1>2. StatusOf(next) /\ FilesOf(next) /\ CacheOf(next)
  BY DEF Accounts, StatusOf, FilesOf, CacheOf, Loose
<1>. QED
  BY <1>1, <1>2 DEF Accounts

LEMMA LooseSteps ==
    ASSUME NEW r \in Requests, Turn(r), Loose(req[r]), UNCHANGED Tables,
           NEW next \in Request, To(r, next), next.op = req[r].op, Knows(next)
    PROVE  Accounting(r)
BY Turning, LooseAccounts, SameAccounts

LEMMA QuietTables == Quiet => UNCHANGED Tables
BY DEF Quiet, Stores, Disks, Tables

(* A request that has ended.                                               *)
LEMMA DoneKnows ==
    ASSUME NEW next \in Request, next.pc = "done"
    PROVE  Knows(next)
BY DEF Knows, UploadPlaces, DiscoveryPlaces, Admitted, PipelinePlaces

(* A request whose places alone differ.                                    *)
Likes(q, next) ==
    /\ next.op = q.op /\ next.dep = q.dep /\ next.cu = q.cu /\ next.row = q.row
    /\ next.error = q.error /\ next.run = q.run

\* Steps between places where the same is under way.
Within == {<<"discover", "found">>, <<"discover", "unfound">>, <<"found", "unfound">>,
           <<"publish", "unfound">>, <<"source", "stage3">>, <<"stage3", "stage4">>,
           <<"stage3", "complete">>, <<"stage4", "quality">>, <<"quality", "plan">>,
           <<"quality", "complete">>, <<"relock", "source">>} \cup
          ((JudgingPlaces \ {"created"}) \X (JudgingPlaces \ {"created"}))

LEMMA WithinAccounts ==
    ASSUME NEW q \in Request, Accounts(q), NEW next \in Request, Likes(q, next),
           next.pc = q.pc \/ <<q.pc, next.pc>> \in Within
    PROVE  Accounts(next)
<1>0. USE DEF Likes, Within, JudgingPlaces, ValidationPlaces
<1>1. CASE next.pc = q.pc
  BY <1>1 DEF Accounts, Knows, RunsOf, StatusOf, FilesOf, CacheOf, HoldsRow, Admitted
<1>2. CASE <<q.pc, next.pc>> \in Within
  <2>1. Knows(next)
    BY <1>2 DEF Accounts, Knows, Admitted, UploadPlaces, DiscoveryPlaces, PipelinePlaces
  <2>2. RunsOf(next)
    BY <1>2 DEF Accounts, RunsOf, HoldsRow, HoldingPlaces, PipelinePlaces
  <2>3. StatusOf(next) /\ FilesOf(next) /\ CacheOf(next)
    BY <1>2 DEF Accounts, StatusOf, FilesOf, CacheOf
  <2>. QED
    BY <2>1, <2>2, <2>3 DEF Accounts
<1>. QED
  BY <1>1, <1>2

-----------------------------------------------------------------------------
(* Steps that write nothing.                                               *)

\* A step to another place.
LEMMA GoingTo ==
    ASSUME NEW r \in Requests, Turn(r), NEW pc \in Pc, Goto(r, pc)
    PROVE  \E next \in Request :
             /\ To(r, next) /\ Likes(req[r], next) /\ next.pc = pc /\ next.branch = req[r].branch
             /\ next = [req[r] EXCEPT !.pc = pc]
<1>1. TypeOK /\ req[r] \in Request
  BY Turning
<1>2. [req[r] EXCEPT !.pc = pc] \in Request
  BY <1>1, PlaceTyped
<1>3. To(r, [req[r] EXCEPT !.pc = pc])
  BY <1>1 DEF Goto, To, TypeOK
<1>4. PICK next \in Request : next = [req[r] EXCEPT !.pc = pc]
  BY <1>2
<1>5. Likes(req[r], next) /\ next.pc = pc /\ next.branch = req[r].branch
  BY <1>1, <1>4 DEF Likes, Request
<1>. QED
  BY <1>3, <1>4, <1>5

(* A request that ends where nothing is unfinished.                        *)
LEMMA EndAccounts ==
    ASSUME NEW r \in Requests, Turn(r), Loose(req[r]), UNCHANGED Tables, End(r)
    PROVE  Accounting(r)
<1>1. "done" \in Pc
  BY DEF Pc
<1>2. PICK next \in Request : To(r, next) /\ Likes(req[r], next) /\ next.pc = "done"
  BY <1>1, GoingTo DEF End
<1>. QED
  BY <1>2, DoneKnows, LooseSteps DEF Likes

\* A step between places where the same is under way.
LEMMA WithinStep ==
    ASSUME NEW r \in Requests, Turn(r), NEW pc \in Pc, Goto(r, pc), UNCHANGED Tables,
           <<req[r].pc, pc>> \in Within
    PROVE  Accounting(r)
<1>1. PICK next \in Request : To(r, next) /\ Likes(req[r], next) /\ next.pc = pc
  BY GoingTo
<1>2. Accounts(next)
  BY <1>1, Turning, WithinAccounts
<1>. QED
  BY <1>1, <1>2, SameAccounts DEF Likes

(* A request begins.                                                       *)
LEMMA BeginAccounts ==
    ASSUME NEW r \in Requests, Turn(r), Begin(r)
    PROVE  Accounting(r)
<1>1. PICK pc \in {"directory", "dependency", "validate", "retry", "stage_files", "state"} :
        /\ Goto(r, pc) /\ Quiet /\ (pc = "directory" <=> req[r].op = "upload")
        /\ req[r].pc = "ready" /\ (req[r].op = "upload" \/ Alive)
        /\ (pc = "retry" <=> req[r].op = "retry") /\ (pc = "validate" => req[r].op = "validate")
        /\ req[r].op = "retry" => order # <<>>
  BY DEF Begin, At
<1>2. pc \in Pc /\ UNCHANGED Tables /\ Loose(req[r])
  BY <1>1, QuietTables DEF Pc, Loose
<1>3. PICK next \in Request : To(r, next) /\ Likes(req[r], next) /\ next.pc = pc
  BY <1>1, <1>2, GoingTo
<1>4. req[r].cu = 0
  BY <1>1, Turning, ReadyFits
<1>5. Knows(next)
  BY <1>1, <1>3, <1>4 DEF Likes, Knows, UploadPlaces, DiscoveryPlaces, Admitted, PipelinePlaces
<1>. QED
  BY <1>2, <1>3, <1>5, LooseSteps DEF Likes

(* A request that is served has its project, so that no commit fails for a *)
(* deletion.                                                               *)
LEMMA ServedAlive ==
    ASSUME NEW r \in Requests, Turn(r), req[r].pc \notin {"ready", "done"} \cup UploadPlaces
    PROVE  Alive
BY DEF Turn, Accounts, Knows

LEMMA NoDeletion ==
    ASSUME NEW r \in Requests, Turn(r), CommitAfterDeletion(r) \/ ScanAfterDeletion(r)
    PROVE  FALSE
<1>1. req[r].pc \notin {"ready", "done"} \cup UploadPlaces
  BY Turning DEF CommitAfterDeletion, ScanAfterDeletion, Committing, UploadPlaces, Fits,
     StageTwoPlaces, DiscoveryPlaces
<1>. QED
  BY <1>1, ServedAlive DEF Alive, CommitAfterDeletion, ScanAfterDeletion

(* The newest completed discovery is the last one when that completed.     *)
LEMMA LastOne ==
    ASSUME TypeOK, Latest(deps) = "completed"
    PROVE  LastCompleted = Len(deps) /\ Len(deps) \in DOMAIN deps /\ deps[Len(deps)] = "completed"
<1>1. Len(deps) \in Nat /\ DOMAIN deps = 1..Len(deps) /\ deps # <<>>
      /\ deps[Len(deps)] = "completed"
  BY DEF TypeOK, Latest
<1>2. Len(deps) \in 1..Len(deps)
  BY <1>1, EmptySeq DEF TypeOK
<1>3. Len(deps) \in CompletedDeps /\ \A e \in CompletedDeps : e <= Len(deps)
  BY <1>1, <1>2 DEF CompletedDeps
<1>4. \A d \in CompletedDeps : (\A e \in CompletedDeps : e <= d) => d = Len(deps)
  BY <1>1, <1>3 DEF CompletedDeps
<1>5. LastCompleted = CHOOSE d \in CompletedDeps : \A e \in CompletedDeps : e <= d
  BY <1>3 DEF LastCompleted
<1>6. LastCompleted = Len(deps)
  BY <1>3, <1>4, <1>5
<1>. QED
  BY <1>1, <1>2, <1>6

\* What a request has loaded.
LEMMA LoadedKnows ==
    ASSUME NEW r \in Requests, Turn(r), req[r].pc = "state"
    PROVE  /\ Loaded(r) \in Request /\ Loaded(r).op = req[r].op
           /\ Loaded(r).dep = Len(deps) /\ SeenScan(r) = Latest(scans)
           /\ Loaded(r).cu # 0 =>
                Loaded(r).cu \in DOMAIN deps /\ deps[Loaded(r).cu] = "completed"
<1>1. Alive /\ Calm
  BY ServedAlive, Turning DEF UploadPlaces
<1>2. /\ Loaded(r) \in Request /\ Loaded(r).op = req[r].op /\ Loaded(r).dep = Len(deps)
      /\ SeenScan(r) = Latest(scans)
  BY <1>1, Loads DEF Turn
<1>3. order # <<>> => Len(order) \in DOMAIN order
  BY Turning, EmptySeq DEF TypeOK
<1>4. Loaded(r).cu = IF order = <<>> THEN 0 ELSE order[Len(order)]
  BY Turning DEF Loaded, Request
<1>. QED
  BY <1>2, <1>3, <1>4 DEF Turn, Accounts, RowsSound

\* A request that goes on with what it has loaded.
LEMMA LoadedAccounts ==
    ASSUME NEW r \in Requests, Turn(r), req[r].pc = "state", Quiet,
           NEW next \in Request, To(r, next), next.op = req[r].op, next.cu = Loaded(r).cu,
           next.pc \in {"join", "dependency", "admit", "generate", "regenerate"},
           next.pc \in {"join", "admit"} => next.dep = LastCompleted,
           next.pc = "admit" => next.op \in {"upload", "continue_2"}
    PROVE  Accounting(r)
<1>1. Alive /\ Loose(req[r]) /\ UNCHANGED Tables
  BY ServedAlive, QuietTables DEF UploadPlaces, Loose
<1>2. Knows(next)
  BY <1>1, LoadedKnows DEF Knows, UploadPlaces, DiscoveryPlaces, Admitted, PipelinePlaces
<1>. QED
  BY <1>1, <1>2, LooseSteps

LEMMA GateAccounts ==
    ASSUME NEW r \in Requests, Turn(r),
           ContinueStageTwo(r) \/ ContinueStageThree(r) \/ ContinueStageFour(r) \/ Refuse(r)
             \/ Resume(r)
    PROVE  Accounting(r)
<1>1. req[r].pc = "state" /\ Quiet /\ TypeOK
  BY Turning DEF ContinueStageTwo, ContinueStageThree, ContinueStageFour, Refuse, Resume,
     ContinuesFrom, At
<1>2. /\ Loaded(r) \in Request /\ Loaded(r).op = req[r].op /\ Loaded(r).dep = Len(deps)
      /\ SeenScan(r) = Latest(scans)
  BY <1>1, LoadedKnows
<1>3. Latest(deps) = "completed" => Loaded(r).dep = LastCompleted
  BY <1>1, <1>2, LastOne
<1>4. {"join", "dependency", "admit", "generate", "regenerate"} \subseteq Pc
  BY DEF Pc
<1>5. CASE ContinueStageTwo(r)
  <2>1. PICK pc \in {"join", "dependency"}, branch \in {"none", "ahead"} :
          /\ To(r, [Loaded(r) EXCEPT !.pc = pc, !.branch = branch])
          /\ pc = "join" => Latest(deps) = "completed"
    BY <1>5 DEF ContinueStageTwo, StageTwo
  <2>2. PICK next : next = [Loaded(r) EXCEPT !.pc = pc, !.branch = branch]
    OBVIOUS
  <2>3. next \in Request /\ next.op = req[r].op /\ next.pc = pc /\ next.cu = Loaded(r).cu
        /\ next.dep = Loaded(r).dep
    BY <1>2, <1>4, <2>2 DEF Request
  <2>. QED
    BY <1>1, <1>3, <2>1, <2>2, <2>3, LoadedAccounts
<1>6. CASE ContinueStageThree(r)
  <2>1. PICK next : next = [Loaded(r) EXCEPT !.pc = "admit"]
    OBVIOUS
  <2>2. next \in Request /\ next.op = req[r].op /\ next.pc = "admit" /\ next.cu = Loaded(r).cu
        /\ next.dep = Loaded(r).dep
    BY <1>2, <1>4, <2>1 DEF Request
  <2>3. /\ Latest(deps) = "completed" /\ To(r, next)
        /\ req[r].op \in {"upload", "continue_2"}
    BY <1>6, <2>1 DEF ContinueStageThree, MayUnderstand, ContinuesFrom
  <2>. QED
    BY <1>1, <1>3, <2>2, <2>3, LoadedAccounts
<1>7. CASE ContinueStageFour(r)
  <2>1. PICK pc \in {"generate", "regenerate"} : To(r, [Loaded(r) EXCEPT !.pc = pc])
    BY <1>7 DEF ContinueStageFour
  <2>2. PICK next : next = [Loaded(r) EXCEPT !.pc = pc]
    OBVIOUS
  <2>3. next \in Request /\ next.op = req[r].op /\ next.pc = pc /\ next.cu = Loaded(r).cu
    BY <1>2, <1>4, <2>2 DEF Request
  <2>. QED
    BY <1>1, <2>1, <2>2, <2>3, LoadedAccounts
<1>8. CASE Refuse(r)
  BY <1>1, <1>8, QuietTables, EndAccounts DEF Refuse, Loose
<1>9. CASE Resume(r)
  <2>1. PICK pc \in {"join", "dependency"}, branch \in {"none", "ahead"} :
          To(r, [[Loaded(r) EXCEPT !.dep = LastCompleted] EXCEPT !.pc = pc, !.branch = branch])
    BY <1>9 DEF Resume, StageTwo
  <2>2. PICK next :
          next = [[Loaded(r) EXCEPT !.dep = LastCompleted] EXCEPT !.pc = pc, !.branch = branch]
    OBVIOUS
  <2>3. LastCompleted \in Runs
    BY Turning, Completes
  <2>4. next \in Request /\ next.op = req[r].op /\ next.pc = pc /\ next.cu = Loaded(r).cu
        /\ next.dep = LastCompleted
    BY <1>2, <1>4, <2>2, <2>3 DEF Request
  <2>. QED
    BY <1>1, <2>1, <2>2, <2>4, LoadedAccounts
<1>. QED
  BY <1>5, <1>6, <1>7, <1>8, <1>9

(* The thread of the request and the scan have ended.                      *)
LEMMA JoinAccounts ==
    ASSUME NEW r \in Requests, Turn(r), Join(r)
    PROVE  Accounting(r)
<1>1. /\ req[r].pc = "join" /\ UNCHANGED Tables /\ Loose(req[r]) /\ req[r] \in Request
      /\ Accounts(req[r])
  BY Turning, QuietTables DEF Join, At, Loose
<1>2. CASE req[r].error \/ req[r].branch = "failed"
  <2>1. PICK next : next = [req[r] EXCEPT !.pc = "done"]
    OBVIOUS
  <2>2. next \in Request /\ next.op = req[r].op /\ next.pc = "done"
    BY <1>1, <2>1 DEF Request, Pc
  <2>3. To(r, next)
    BY <1>2, <2>1 DEF Join
  <2>. QED
    BY <1>1, <2>2, <2>3, DoneKnows, LooseSteps
<1>3. CASE ~(req[r].error \/ req[r].branch = "failed")
  <2>1. PICK pc \in {"state", "admit", "force", "done"} :
          /\ To(r, [req[r] EXCEPT !.stage = 2, !.branch = "none", !.pc = pc])
          /\ pc \in {"admit", "force"} => req[r].op \in {"resume", "force"}
    BY <1>3 DEF Join
  <2>2. PICK next : next = [req[r] EXCEPT !.stage = 2, !.branch = "none", !.pc = pc]
    OBVIOUS
  <2>3. next \in Request /\ Likes(req[r], next) /\ next.pc = pc
    <3>1. pc \in Pc /\ 2 \in 1..3
      BY DEF Pc
    <3>. QED
      BY <1>1, <2>2, <3>1 DEF Request, Likes
  <2>4. Admitted(req[r])
    BY <1>1, <1>3 DEF Admitted
  <2>5. Knows(next)
    BY <1>1, <2>1, <2>3, <2>4 DEF Accounts, Likes, Knows, Admitted, UploadPlaces, DiscoveryPlaces,
       PipelinePlaces
  <2>. QED
    BY <1>1, <2>1, <2>2, <2>3, <2>5, LooseSteps DEF Likes
<1>. QED
  BY <1>2, <1>3

\* The row of a request that is served, as the database has it.
LEMMA CurrentRow ==
    ASSUME NEW r \in Requests, Turn(r), req[r].pc \notin {"ready", "done"} \cup UploadPlaces
    PROVE  /\ req[r].cu # 0 => /\ req[r].cu \in 1..MaxRuns /\ req[r].row \in Row
                               /\ req[r].row = rows[req[r].cu]
                               /\ req[r].cu \in DOMAIN deps /\ deps[req[r].cu] = "completed"
           /\ \A d \in 1..MaxRuns : SeenRow(r, d) = rows[d]
<1>1. Alive /\ Alone /\ req[r] \in Request /\ Validates(req[r]) /\ Accounts(req[r])
  BY ServedAlive, Turning
<1>2. req[r].cu # 0 => req[r].cu \in 1..MaxRuns
  BY <1>1, ProjectAssumption DEF Request, Runs
<1>3. req[r].row \in Row /\ (req[r].cu # 0 => req[r].row = rows[req[r].cu])
  BY <1>1 DEF Validates, Request
<1>4. \A d \in 1..MaxRuns : SeenRow(r, d) = rows[d]
  BY <1>3, ProjectAssumption DEF SeenRow
<1>5. req[r].cu # 0 => req[r].cu \in DOMAIN deps /\ deps[req[r].cu] = "completed"
  BY <1>1 DEF Accounts, Knows
<1>. QED
  BY <1>2, <1>3, <1>4, <1>5

(* A request for a row that is already there.                              *)
LEMMA AdmitNothingAccounts ==
    ASSUME NEW r \in Requests, Turn(r), AdmitNothing(r)
    PROVE  Accounting(r)
<1>1. /\ req[r].pc = "admit" /\ UNCHANGED Tables /\ Loose(req[r]) /\ req[r] \in Request
      /\ Accounts(req[r]) /\ Alive /\ TypeInv
  BY Turning, QuietTables DEF AdmitNothing, At, Loose
<1>2. CASE End(r)
  BY <1>1, <1>2, EndAccounts
<1>3. CASE To(r, Returned(Admitting(r)))
  <2>1. /\ Admitting(r) \in Request /\ Admitting(r).op = req[r].op
        /\ Admitting(r).cu = req[r].dep /\ req[r].dep \in 1..MaxRuns
    BY <1>1, AdmittingRow DEF Turn, Admitting, Request
  <2>2. PICK pc \in {"state", "done"}, stage \in 1..3 :
          Returned(Admitting(r)) = [Admitting(r) EXCEPT !.pc = pc, !.stage = stage]
    BY <2>1, ReturnedForm
  <2>3. PICK next : next = [Admitting(r) EXCEPT !.pc = pc, !.stage = stage]
    OBVIOUS
  <2>4. pc \in Pc
    BY DEF Pc
  <2>5. next \in Request /\ next.op = req[r].op /\ next.pc = pc /\ next.cu = req[r].dep
    BY <2>1, <2>3, <2>4 DEF Request
  <2>6. req[r].dep \in DOMAIN deps /\ deps[req[r].dep] = "completed"
    <3>1. req[r].dep = LastCompleted /\ req[r].dep # 0
      BY <1>1, <2>1 DEF Accounts, Knows, Admitted
    <3>. QED
      BY <1>1, <3>1, Completes
  <2>7. Knows(next)
    BY <1>1, <2>5, <2>6 DEF Knows, UploadPlaces, DiscoveryPlaces, Admitted, PipelinePlaces
  <2>. QED
    BY <1>1, <1>3, <2>2, <2>3, <2>5, <2>7, LooseSteps
<1>. QED
  BY <1>2, <1>3 DEF AdmitNothing

(* A retry has found its row.                                              *)
LEMMA LoadRetriedAccounts ==
    ASSUME NEW r \in Requests, Turn(r), LoadRetried(r)
    PROVE  Accounting(r)
<1>1. /\ req[r].pc = "retry" /\ UNCHANGED Tables /\ Loose(req[r]) /\ req[r] \in Request
      /\ Accounts(req[r]) /\ TypeOK /\ order # <<>>
  BY Turning, QuietTables DEF LoadRetried, At, Loose
<1>2. Alive /\ req[r].op = "retry"
  BY <1>1 DEF Accounts, Knows, UploadPlaces
<1>9. PICK i \in DOMAIN order, pc \in {"done", "rerun", "revalidate"} :
        /\ To(r, [[req[r] EXCEPT !.cu = order[i], !.dep = order[i], !.row = rows[order[i]]]
                    EXCEPT !.pc = pc])
        /\ pc = "revalidate" => AtValidation(rows[order[i]])
  BY DEF LoadRetried, AtValidation
<1>3. PICK d : /\ d = order[i]
               /\ To(r, [[req[r] EXCEPT !.cu = d, !.dep = d, !.row = rows[d]] EXCEPT !.pc = pc])
               /\ pc = "revalidate" => AtValidation(rows[d])
  BY <1>9
<1>4. /\ d \in 1..MaxRuns /\ d \in DOMAIN deps /\ deps[d] = "completed" /\ rows[d] \in Row
  <2>1. order \in Seq(1..MaxRuns) /\ rows \in [1..MaxRuns -> Row]
    BY <1>1 DEF TypeOK
  <2>2. d \in 1..MaxRuns
    BY <1>3, <2>1, ElementOfSeq, LenProperties
  <2>. QED
    BY <1>1, <1>3, <2>1, <2>2 DEF Accounts, RowsSound
<1>5. PICK next : next = [[req[r] EXCEPT !.cu = d, !.dep = d, !.row = rows[d]] EXCEPT !.pc = pc]
  OBVIOUS
<1>6. pc \in Pc /\ d \in Runs
  BY <1>4, <1>9, ProjectAssumption DEF Pc, Runs
<1>7. /\ next \in Request /\ next.op = req[r].op /\ next.pc = pc /\ next.cu = d /\ next.dep = d
      /\ next.row = rows[d]
  BY <1>1, <1>4, <1>5, <1>6 DEF Request
<1>8. Knows(next)
  BY <1>1, <1>2, <1>3, <1>4, <1>7, <1>9 DEF Knows, UploadPlaces, DiscoveryPlaces, Admitted,
     PipelinePlaces
<1>. QED
  BY <1>1, <1>3, <1>5, <1>7, <1>8, LooseSteps

(* The source directory is there, and the cached run is not taken for the  *)
(* one in hand.                                                            *)
LEMMA ResolveAccounts ==
    ASSUME NEW r \in Requests, Turn(r), ResolveSources(r)
    PROVE  Accounting(r)
<1>1. /\ req[r].pc = "source" /\ UNCHANGED Tables /\ req[r] \in Request /\ Accounts(req[r])
      /\ Fits(req[r])
  BY Turning, QuietTables DEF ResolveSources, At
<1>2. Alive /\ req[r].pc \notin {"ready", "done"} \cup UploadPlaces /\ req[r].cu # 0
  BY <1>1, ServedAlive DEF UploadPlaces, Fits, RowPlaces
<1>3. disk = "complete"
  BY <1>1, <1>2 DEF Accounts, FilesOf
<1>4. ~CacheHit(r)
  <2>. SUFFICES ASSUME CacheHit(r) PROVE FALSE
    OBVIOUS
  <2>1. /\ req[r].op \notin {"resume", "force", "retry"} /\ cachedRun # 0
        /\ SeenRow(r, cachedRun).status = "completed"
    BY DEF CacheHit, Pipeline
  <2>2. req[r].cu = LastCompleted /\ req[r].row.status \in Unfinished
    BY <1>1, <2>1 DEF Accounts, Knows, PipelinePlaces
  <2>3. SeenRow(r, req[r].cu).status \in Unfinished
    BY <2>2 DEF SeenRow
  <2>4. cachedRun # req[r].cu
    BY <2>1, <2>3 DEF Unfinished
  <2>5. Retrying /\ req[r].op # "upload"
    BY <1>1, <1>2, <2>1, <2>2, <2>4 DEF Accounts, CacheOf
  <2>6. req[r].op = "continue_2"
    BY <1>1, <2>1, <2>5 DEF Accounts, Knows, PipelinePlaces
  <2>. QED
    BY <2>5, <2>6, Turning DEF OpsApart, Retrying
<1>5. Goto(r, "stage3") /\ "stage3" \in Pc
  BY <1>3, <1>4 DEF ResolveSources, Pc
<1>. QED
  BY <1>1, <1>5, WithinStep DEF Within

\* A retry's validation is admitted; another that is refused leaves nothing.
LEMMA RefuseAccounts ==
    ASSUME NEW r \in Requests, Turn(r), RefuseValidation(r)
    PROVE  Accounting(r)
<1>1. /\ req[r].pc = "validate" /\ UNCHANGED Tables /\ End(r) /\ Fits(req[r]) /\ Accounts(req[r])
  BY Turning, QuietTables DEF RefuseValidation, At
<1>2. CASE req[r].op # "retry"
  BY <1>1, <1>2, EndAccounts DEF Loose
<1>3. CASE req[r].op = "retry"
  <2>1. Alive /\ order # <<>> /\ MayValidate(req[r].row)
    BY <1>1, <1>3 DEF Accounts, Knows, UploadPlaces
  <2>2. disk = "complete"
    BY <1>1, <2>1 DEF Accounts, FilesOf
  <2>3. Validated(r) = {req[r].cu} /\ SeenRow(r, req[r].cu) = req[r].row
    BY <1>3 DEF Validated, SeenRow
  <2>. QED
    BY <2>1, <2>2, <2>3 DEF RefuseValidation
<1>. QED
  BY <1>2, <1>3

(* Steps within a discovery, a pipeline or a validation.                   *)
LEMMA WithinSteps ==
    ASSUME NEW r \in Requests, Turn(r),
           \/ DiscoverFiles(r) \/ DiscoveryCommitFails(r) \/ SkipStage(r) \/ SelectTargets(r)
           \/ UseExisting(r) \/ PollAnswered(r) \/ PrepareFolder(r) \/ Launch(r)
           \/ PollFails(r) \/ Execute(r)
    PROVE  Accounting(r)
<1>1. UNCHANGED Tables
  BY QuietTables DEF DiscoverFiles, DiscoveryCommitFails, SkipStage, SelectTargets, UseExisting,
     PollAnswered, PrepareFolder, Launch, PollFails, Execute, Close, Stores, Disks, Tables
<1>2. PICK pc \in Pc : Goto(r, pc) /\ <<req[r].pc, pc>> \in Within
  <2>. USE DEF At, Pc, Within, JudgingPlaces, ValidationPlaces
  <2>1. CASE DiscoverFiles(r) \/ DiscoveryCommitFails(r) \/ SkipStage(r)
    BY <2>1 DEF DiscoverFiles, DiscoveryCommitFails, SkipStage
  <2>2. CASE SelectTargets(r) \/ UseExisting(r) \/ PollAnswered(r)
    BY <2>2 DEF SelectTargets, UseExisting, PollAnswered
  <2>3. CASE PrepareFolder(r) \/ Launch(r) \/ PollFails(r) \/ Execute(r)
    BY <2>3 DEF PrepareFolder, Launch, PollFails, Execute
  <2>. QED
    BY <2>1, <2>2, <2>3
<1>. QED
  BY <1>1, <1>2, WithinStep

LEMMA PortAccounts ==
    ASSUME NEW r \in Requests, Turn(r), FindPort(r)
    PROVE  Accounting(r)
<1>1. /\ req[r].pc = "port" /\ UNCHANGED Tables /\ req[r] \in Request /\ Accounts(req[r])
  BY Turning, QuietTables DEF FindPort, At
<1>2. PICK p \in Ports : To(r, [req[r] EXCEPT !.pc = "existing", !.port = p])
  BY DEF FindPort
<1>3. PICK next : next = [req[r] EXCEPT !.pc = "existing", !.port = p]
  OBVIOUS
<1>4. "existing" \in Pc
  BY DEF Pc
<1>5. next \in Request /\ Likes(req[r], next) /\ next.pc = "existing"
  BY <1>1, <1>3, <1>4 DEF Request, Likes
<1>6. <<req[r].pc, next.pc>> \in Within
  BY <1>1, <1>5 DEF Within, JudgingPlaces, ValidationPlaces
<1>7. Accounts(next)
  BY <1>1, <1>5, <1>6, WithinAccounts
<1>. QED
  BY <1>1, <1>2, <1>3, <1>5, <1>7, SameAccounts DEF Likes

(* A step of the security scan.                                            *)
LEMMA ScanAccounts ==
    ASSUME NEW r \in Requests, Turn(r), NEW next \in Request, To(r, next), Likes(req[r], next),
           next.pc = req[r].pc,
           UNCHANGED <<project, deps, rows, order, runtimes, cachedRun>>, UNCHANGED Disks,
           \A i \in DOMAIN scans' : \/ scans'[i] # "pending"
                                    \/ i \in DOMAIN scans /\ scans'[i] = scans[i]
    PROVE  Accounting(r)
<1>1. /\ project' = project /\ disk' = disk /\ staged' = staged /\ deps' = deps
      /\ rows' = rows /\ order' = order /\ runtimes' = runtimes /\ cachedRun' = cachedRun
  BY DEF Disks
<1>2. Retrying' <=> Retrying
  BY Turning, OpsStay DEF Likes
<1>3. Accounts(next)
  BY Turning, WithinAccounts
<1>4. Alive' = Alive /\ LastCompleted' = LastCompleted
  BY <1>1 DEF Alive, LastCompleted, CompletedDeps
<1>5. Knows(next)'
  BY <1>1, <1>3, <1>4 DEF Accounts, Knows, Latest
<1>6. RunsOf(next)'
  BY <1>1, <1>3 DEF Accounts, RunsOf
<1>7. StatusOf(next)' /\ FilesOf(next)'
  BY <1>1, <1>3, <1>4 DEF Accounts, StatusOf, FilesOf, Latest
<1>8. RowsSound' /\ CacheOf(next)'
  BY <1>1, <1>2, <1>3, <1>4 DEF Accounts, RowsSound, CacheOf
<1>. QED
  BY <1>5, <1>6, <1>7, <1>8 DEF Accounts, Accounting, Likes

LEMMA ScanningAccounts ==
    ASSUME NEW r \in Requests, Turn(r), StartScan(r) \/ FinishScan(r)
    PROVE  Accounting(r)
<1>1. TypeInv /\ TypeOK /\ req[r] \in Request /\ scans \in Seq(RunStatus)
  BY Turning DEF TypeOK
<1>2. PICK branch \in {"running", "ok", "failed"}, scan \in Runs,
           scanSeen \in RunStatus \cup {"none"} :
        To(r, [req[r] EXCEPT !.branch = branch, !.scan = scan, !.scanSeen = scanSeen])
  <2>1. Len(scans) \in Runs /\ (Len(scans) < MaxRuns => Len(scans) + 1 \in Runs)
        /\ req[r].scan \in Runs /\ req[r].scanSeen \in RunStatus \cup {"none"}
    BY <1>1, ProjectAssumption DEF TypeInv, TypeOK, Runs, Request
  <2>2. /\ Latest(scans) \in RunStatus \cup {"none"}
        /\ {"running", "completed", "failed"} \subseteq RunStatus
    BY <1>1 DEF Latest, RunStatus
  <2>3. \A branch \in {"running", "ok", "failed"} :
          /\ [req[r] EXCEPT !.branch = branch] =
               [req[r] EXCEPT !.branch = branch, !.scan = req[r].scan,
                              !.scanSeen = req[r].scanSeen]
          /\ \A seen : [req[r] EXCEPT !.branch = branch, !.scanSeen = seen] =
               [req[r] EXCEPT !.branch = branch, !.scan = req[r].scan, !.scanSeen = seen]
    BY <1>1 DEF Request
  <2>4. CASE StartScan(r)
    <3>1. CASE To(r, [req[r] EXCEPT !.branch = "ok"])
      <4>1. To(r, [req[r] EXCEPT !.branch = "ok", !.scan = req[r].scan,
                                 !.scanSeen = req[r].scanSeen])
        BY <2>3, <3>1
      <4>. QED
        BY <2>1, <4>1
    <3>2. CASE To(r, [req[r] EXCEPT !.branch = "running", !.scan = Len(scans),
                                    !.scanSeen = "running"])
      BY <2>1, <2>2, <3>2
    <3>3. CASE \E branch \in {"ok", "failed"} :
                 To(r, [req[r] EXCEPT !.branch = branch, !.scan = Len(scans),
                                      !.scanSeen = Latest(scans)])
      BY <2>1, <2>2, <3>3
    <3>4. CASE /\ Len(scans) < MaxRuns
               /\ To(r, [req[r] EXCEPT !.branch = "running", !.scan = Len(scans) + 1,
                                       !.scanSeen = "running"])
      BY <2>1, <2>2, <3>4
    <3>. QED
      BY <2>4, <3>1, <3>2, <3>3, <3>4 DEF StartScan
  <2>5. CASE FinishScan(r)
    BY <2>1, <2>2, <2>3, <2>5 DEF FinishScan
  <2>. QED
    BY <2>4, <2>5
<1>3. PICK next : next = [req[r] EXCEPT !.branch = branch, !.scan = scan, !.scanSeen = scanSeen]
  OBVIOUS
<1>4. next \in Request /\ Likes(req[r], next) /\ next.pc = req[r].pc
  BY <1>1, <1>2, <1>3 DEF Request, Likes
<1>5. /\ UNCHANGED <<project, deps, rows, order, runtimes, cachedRun>>
      /\ UNCHANGED Disks
  BY DEF StartScan, FinishScan
<1>6. \A i \in DOMAIN scans' : \/ scans'[i] # "pending"
                               \/ i \in DOMAIN scans /\ scans'[i] = scans[i]
  <2>1. \A k, status : scans' = [scans EXCEPT ![k] = status] /\ status # "pending" =>
          \A i \in DOMAIN scans' :
            scans'[i] # "pending" \/ (i \in DOMAIN scans /\ scans'[i] = scans[i])
    OBVIOUS
  <2>2. scans' = Append(scans, "running") =>
          \A i \in DOMAIN scans' :
            scans'[i] # "pending" \/ (i \in DOMAIN scans /\ scans'[i] = scans[i])
    BY <1>1, AppendProperties DEF RunStatus
  <2>3. CASE scans' = scans
    BY <2>3
  <2>4. CASE StartScan(r) /\ scans' # scans
    BY <2>1, <2>2, <2>4 DEF StartScan
  <2>5. CASE FinishScan(r) /\ scans' # scans
    BY <2>1, <2>5 DEF FinishScan
  <2>. QED
    BY <2>3, <2>4, <2>5
<1>. QED
  BY <1>2, <1>3, <1>4, <1>5, <1>6, ScanAccounts

-----------------------------------------------------------------------------
(* Steps that commit a pipeline row.                                       *)

\* A request that has row new in hand may be at the place of next.
Handles(q, new, next) ==
    /\ next.op = q.op /\ next.cu \in DOMAIN deps /\ deps[next.cu] = "completed"
    /\ next.pc \in HoldingPlaces \cup {"done", "state", "generate", "validate"}
    /\ new.status \in Unfinished =>
         next.pc \in HoldingPlaces \/ (next.op = "retry" /\ next.pc = "validate")
    /\ AtValidation(new) => Testable(new)
    /\ next.pc \in PipelinePlaces =>
         /\ new.status \in Unfinished
         /\ next.op \in {"upload", "continue_2", "resume", "force", "retry"}
         /\ next.op # "retry" => next.cu = LastCompleted
    /\ next.pc = "relock" => next.dep = next.cu
    /\ next.pc = "validate" /\ next.op = "retry" => MayValidate(new) /\ order # <<>>

LEMMA RowAccounts ==
    ASSUME NEW r \in Requests, Turn(r), req[r].pc \notin {"ready", "done"},
           Loose(req[r]) \/ (req[r].pc \in HoldingPlaces \cup {"fail_source"}),
           NEW next \in Request, NEW new \in Row, CommitRow(r, new, next),
           next.cu \in 1..MaxRuns, next.row = rows[next.cu], Handles(req[r], new, next),
           Loose(req[r]) \/ next.cu = req[r].cu,
           req[r].pc \notin UploadPlaces \cup {"stage_files", "delete_rows"},
           order' = order \/ order' = Append(order, next.cu),
           cachedRun' \in {0, cachedRun} \/ (cachedRun' = next.cu
               /\ (next.cu = LastCompleted \/ req[r].op = "retry"))
    PROVE  Accounting(r)
<1>1. TypeOK /\ req[r] \in Request /\ Accounts(req[r])
  BY Turning
<1>2. PICK d \in 1..MaxRuns : d = next.cu
  OBVIOUS
<1>3. rows \in [1..MaxRuns -> Row] /\ Merge(next.row, new, rows[d]) = new
  BY <1>1, <1>2, MergeCurrent DEF TypeOK
<1>4. PICK q : q = [next EXCEPT !.row = new]
  OBVIOUS
<1>5. /\ q \in Request /\ q.pc = next.pc /\ q.op = next.op /\ q.cu = d /\ q.dep = next.dep
      /\ q.row = new /\ q.error = next.error /\ q.run = next.run
  BY <1>2, <1>4 DEF Request
<1>6. /\ project' = project /\ disk' = disk /\ staged' = staged /\ deps' = deps /\ scans' = scans
      /\ runtimes' = runtimes /\ rows' = [rows EXCEPT ![d] = new] /\ To(r, q) /\ Alive
  BY <1>2, <1>3, <1>4 DEF CommitRow, CanCommit, Disks
<1>7. (Retrying' <=> Retrying) /\ q.op = req[r].op
  BY <1>1, <1>5, <1>6, OpsStay DEF Handles
<1>8. Alive' /\ LastCompleted' = LastCompleted
  BY <1>6 DEF Alive, LastCompleted, CompletedDeps
<1>9. Knows(q)'
  BY <1>2, <1>5, <1>6, <1>8 DEF Handles, Knows, UploadPlaces, DiscoveryPlaces, Admitted,
     PipelinePlaces, HoldingPlaces
<1>10. \A e \in 1..MaxRuns : rows'[e] = IF e = d THEN new ELSE rows[e]
  BY <1>3, <1>6
<1>11. RunsOf(q)'
  <2>1. \A e \in 1..MaxRuns : e # d => rows[e].status \notin Unfinished
    BY <1>1, <1>2 DEF Accounts, RunsOf, HoldsRow, Loose, HoldingPlaces, PipelinePlaces,
       ValidationPlaces
  <2>2. \A e \in 1..MaxRuns : rows'[e].status \in Unfinished => HoldsRow(q, e)
    BY <1>2, <1>5, <1>10, <2>1 DEF Handles, HoldsRow
  <2>3. \A e \in DOMAIN deps : deps[e] \notin Unfinished
    BY <1>1 DEF Accounts, RunsOf, Loose, HoldingPlaces, PipelinePlaces
  <2>4. \A k \in DOMAIN runtimes : runtimes[k].status \notin Unfinished
    BY <1>1 DEF Accounts, RunsOf, Loose, HoldingPlaces, PipelinePlaces, JudgingPlaces,
       ValidationPlaces
  <2>5. \A i \in DOMAIN scans : scans[i] # "pending"
    BY <1>1 DEF Accounts, RunsOf
  <2>6. \A e \in 1..MaxRuns : HoldsRow(q, e)' <=> HoldsRow(q, e)
    BY DEF HoldsRow
  <2>. QED
    BY <1>6, <2>2, <2>3, <2>4, <2>5, <2>6 DEF RunsOf
<1>12. StatusOf(q)' /\ FilesOf(q)'
  BY <1>1, <1>6, <1>8 DEF Accounts, StatusOf, FilesOf, Loose, HoldingPlaces, PipelinePlaces,
     Latest
<1>13. RowsSound'
  <2>1. \A e \in 1..MaxRuns :
          /\ rows'[e].status # "absent" => e \in DOMAIN deps /\ deps[e] = "completed"
          /\ AtValidation(rows'[e]) => Testable(rows'[e])
    BY <1>1, <1>2, <1>10 DEF Accounts, RowsSound, Handles
  <2>2. \A i \in DOMAIN order' : order'[i] \in DOMAIN deps /\ deps[order'[i]] = "completed"
    <3>1. \A i \in DOMAIN order : order[i] \in DOMAIN deps /\ deps[order[i]] = "completed"
      BY <1>1 DEF Accounts, RowsSound
    <3>2. order \in Seq(1..MaxRuns) /\ d \in DOMAIN deps /\ deps[d] = "completed"
      BY <1>1, <1>2 DEF TypeOK, Handles
    <3>3. CASE order' = Append(order, d)
      BY <3>1, <3>2, <3>3, AppendProperties
    <3>. QED
      BY <1>2, <3>1, <3>3
  <2>. QED
    BY <1>6, <2>1, <2>2 DEF RowsSound, AtValidation, Testable
<1>14. CacheOf(q)'
  BY <1>1, <1>2, <1>5, <1>6, <1>7, <1>8 DEF Accounts, CacheOf, Retrying, Alive
<1>. QED
  BY <1>5, <1>6, <1>7, <1>9, <1>11, <1>12, <1>13, <1>14 DEF Accounts, Accounting

\* The row in hand.
LEMMA HeldRow ==
    ASSUME NEW r \in Requests, Turn(r), req[r].pc \in RowPlaces
    PROVE  /\ Alive /\ req[r].cu \in 1..MaxRuns /\ req[r].row \in Row
           /\ req[r].row.result \in Result /\ req[r].payload \in Result
           /\ req[r].row = rows[req[r].cu]
           /\ req[r].cu \in DOMAIN deps /\ deps[req[r].cu] = "completed"
<1>1. req[r].pc \notin {"ready", "done"} \cup UploadPlaces
  BY DEF RowPlaces, ValidationPlaces, UploadPlaces
<1>2. /\ req[r].cu \in 1..MaxRuns /\ req[r].row \in Row
      /\ req[r].row.result \in Result /\ req[r].payload \in Result
  BY InHand DEF Turn
<1>3. req[r].cu # 0
  BY <1>2, ProjectAssumption
<1>. QED
  BY <1>1, <1>2, <1>3, ServedAlive, CurrentRow

\* The row in hand may become new at place pc.
Takes(q, new, pc) ==
    /\ new.status \in Unfinished => pc \in HoldingPlaces \/ (q.op = "retry" /\ pc = "validate")
    /\ AtValidation(new) => Testable(new)
    /\ pc \in PipelinePlaces =>
         new.status \in Unfinished /\ (q.pc \in PipelinePlaces \/ q.op = "retry")
    /\ pc = "relock" => q.pc = "rerun"
    /\ pc = "validate" => q.op = "retry" /\ MayValidate(new) /\ order # <<>>

(* A commit of the row in hand.                                            *)
LEMMA HandAccounts ==
    ASSUME NEW r \in Requests, Turn(r), req[r].pc \in RowPlaces \ JudgingPlaces,
           NEW pc \in {"done", "state", "generate", "validate"} \cup HoldingPlaces,
           NEW payload \in Result, NEW stage \in 1..3, NEW new \in Row,
           CommitRow(r, new, [req[r] EXCEPT !.payload = payload, !.pc = pc, !.stage = stage]),
           order' = order,
           cachedRun' \in {0, cachedRun} \/ (cachedRun' = req[r].cu
               /\ (req[r].cu = LastCompleted \/ req[r].op = "retry")),
           Takes(req[r], new, pc)
    PROVE  Accounting(r)
<1>1. req[r] \in Request /\ pc \in Pc /\ Accounts(req[r])
  BY Turning DEF HoldingPlaces, PipelinePlaces, Pc
<1>2. PICK next : next = [req[r] EXCEPT !.payload = payload, !.pc = pc, !.stage = stage]
  OBVIOUS
<1>3. /\ next \in Request /\ next.cu = req[r].cu /\ next.row = req[r].row /\ next.pc = pc
      /\ next.op = req[r].op /\ next.dep = req[r].dep
  BY <1>1, <1>2 DEF Request
<1>4. /\ req[r].cu \in 1..MaxRuns /\ req[r].row = rows[req[r].cu]
      /\ req[r].cu \in DOMAIN deps /\ deps[req[r].cu] = "completed"
  BY HeldRow
<1>5. Handles(req[r], new, next)
  <2>1. req[r].pc = "rerun" => req[r].dep = req[r].cu
    BY <1>1 DEF Accounts, Knows
  <2>2. req[r].pc \in PipelinePlaces =>
          /\ req[r].op \in {"upload", "continue_2", "resume", "force", "retry"}
          /\ req[r].op # "retry" => req[r].cu = LastCompleted
    BY <1>1 DEF Accounts, Knows
  <2>. QED
    BY <1>3, <1>4, <2>1, <2>2 DEF Takes, Handles
<1>6. /\ Loose(req[r]) \/ (req[r].pc \in HoldingPlaces \cup {"fail_source"})
      /\ req[r].pc \notin {"ready", "done"} \cup UploadPlaces \cup {"stage_files", "delete_rows"}
  BY DEF RowPlaces, JudgingPlaces, ValidationPlaces, Loose, HoldingPlaces, PipelinePlaces,
     UploadPlaces
<1>. QED
  BY <1>2, <1>3, <1>4, <1>5, <1>6, RowAccounts

LEMMA HandOnward ==
    ASSUME NEW r \in Requests, Turn(r), req[r].pc \in RowPlaces \ JudgingPlaces,
           NEW pc \in {"done", "state", "generate", "validate"} \cup HoldingPlaces,
           NEW new \in Row, CommitRow(r, new, [req[r] EXCEPT !.pc = pc]), order' = order,
           cachedRun' \in {0, cachedRun}, Takes(req[r], new, pc)
    PROVE  Accounting(r)
<1>1. req[r] \in Request
  BY Turning
<1>2. PICK payload \in Result, stage \in 1..3 : payload = req[r].payload /\ stage = req[r].stage
  BY <1>1 DEF Request
<1>3. [req[r] EXCEPT !.pc = pc] = [req[r] EXCEPT !.payload = payload, !.pc = pc, !.stage = stage]
  BY <1>1, <1>2 DEF Request
<1>4. CommitRow(r, new, [req[r] EXCEPT !.payload = payload, !.pc = pc, !.stage = stage])
  BY <1>3
<1>. QED
  BY <1>4, HandAccounts

\* What a row becomes when it is prepared, saved or ended.
LEMMA Becoming ==
    ASSUME NEW row \in Row
    PROVE  /\ MarkRunning(row).status = "running" /\ PrepareForcedRerun(row).status = "running"
           /\ PrepareArtifactRegeneration.status = "running" /\ CreateRun.status = "pending"
           /\ PrepareRetry(row).status = "running"
           /\ AtValidation(row) => PrepareRetry(row).result = row.result
                                   /\ PrepareRetry(row).failedStage = "runtime_validation"
           /\ \A payload :
                /\ SaveStage3Result(row, payload).status = row.status
                /\ Complete(row, payload).status = "completed"
                /\ [Complete(row, payload) EXCEPT !.failedStage = "none"].status = "completed"
           /\ SaveTestGeneration(row, S1).status = row.status
           /\ Testable(SaveTestGeneration(row, S1))
           /\ \A suite : /\ SaveQualityOptimization(row, suite, FALSE).status = row.status
                         /\ SaveRuntimeExecutionPlan(row, suite).status = row.status
           /\ \A stage : /\ FailRun(row, stage).status = "failed"
                         /\ FailRun(row, stage).result = row.result
<1>1. NoRow.status = "absent" /\ S1 # NoSuite
  BY FirstSuite, NoSuiteAssumption DEF NoRow, Suite, Version
<1>2. /\ MarkRunning(row).status = "running" /\ PrepareForcedRerun(row).status = "running"
      /\ PrepareRetry(row).status = "running"
      /\ PrepareArtifactRegeneration.status = "running" /\ CreateRun.status = "pending"
  BY DEF MarkRunning, PrepareForcedRerun, PrepareRetry, Row, PrepareArtifactRegeneration,
     CreateRun, NoRow
<1>3. AtValidation(row) => PrepareRetry(row).result = row.result
                           /\ PrepareRetry(row).failedStage = "runtime_validation"
  BY DEF AtValidation, PrepareRetry, RetainedByRetry, Row
<1>4. \A payload : /\ SaveStage3Result(row, payload).status = row.status
                   /\ Complete(row, payload).status = "completed"
                   /\ [Complete(row, payload) EXCEPT !.failedStage = "none"].status = "completed"
  BY DEF SaveStage3Result, Complete, Row
<1>5. SaveTestGeneration(row, S1).status = row.status /\ Testable(SaveTestGeneration(row, S1))
  <2>1. SaveTestGeneration(row, S1).status = row.status
    BY DEF SaveTestGeneration, Row
  <2>2. SaveTestGeneration(row, S1).result.generation = S1
    BY DEF SaveTestGeneration, DropFromVerification, Row, Result
  <2>. QED
    BY <1>1, <2>1, <2>2 DEF Testable
<1>6. \A suite : /\ SaveQualityOptimization(row, suite, FALSE).status = row.status
                 /\ SaveRuntimeExecutionPlan(row, suite).status = row.status
  BY DEF SaveQualityOptimization, SaveRuntimeExecutionPlan, Row
<1>7. \A stage : FailRun(row, stage).status = "failed" /\ FailRun(row, stage).result = row.result
  BY DEF FailRun, Row
<1>. QED
  BY <1>2, <1>3, <1>4, <1>5, <1>6, <1>7

(* The steps of the pipeline, of a repeated generation and of the end of a *)
(* validation.                                                             *)
LEMMA HandStepsAccount ==
    ASSUME NEW r \in Requests, Turn(r),
           \/ MarkCreatedRunning(r) \/ PrepareRetried(r) \/ StageFails(r)
           \/ RestoreUnderstanding(r) \/ GenerateTestCases(r) \/ FailSource(r)
           \/ CompleteRetried(r)
    PROVE  Accounting(r)
<1>1. /\ req[r] \in Request /\ Accounts(req[r]) /\ Fits(req[r])
  BY Turning
<1>2. /\ order' = order /\ cachedRun' \in {0, cachedRun}
      /\ req[r].pc \in RowPlaces \ JudgingPlaces
  BY DEF At, RowPlaces, JudgingPlaces, ValidationPlaces, MarkCreatedRunning, PrepareRetried,
     StageFails, RestoreUnderstanding, GenerateTestCases, FailSource, CompleteRetried
<1>3. /\ req[r].row \in Row /\ req[r].row.result \in Result /\ req[r].payload \in Result
      /\ req[r].cu \in 1..MaxRuns /\ req[r].row = rows[req[r].cu]
  BY <1>2, HeldRow
<1>4. \A new : new.status \in {"pending", "running", "completed"} => ~AtValidation(new)
  BY DEF AtValidation
<1>5. {"source", "relock", "validate", "done", "generate"}
         \subseteq {"done", "state", "generate", "validate"} \cup HoldingPlaces
  BY DEF HoldingPlaces, PipelinePlaces
<1>6. CASE MarkCreatedRunning(r)
  <2>1. PICK new \in Row : new = MarkRunning(req[r].row)
    BY <1>3, PreparedRows
  <2>2. new.status = "running" /\ req[r].pc = "pending"
    BY <1>3, <1>6, <2>1, Becoming DEF MarkCreatedRunning, At
  <2>3. Takes(req[r], new, "source")
    BY <1>4, <2>2 DEF Takes, HoldingPlaces, PipelinePlaces, Unfinished
  <2>. QED
    BY <1>2, <1>5, <1>6, <2>1, <2>3, HandOnward DEF MarkCreatedRunning
<1>7. CASE PrepareRetried(r)
  <2>1. PICK new \in Row : new = PrepareRetry(req[r].row)
    BY <1>3, PreparedRows
  <2>2. PICK pc \in {"relock", "validate"} :
          /\ CommitRow(r, new, [req[r] EXCEPT !.pc = pc])
          /\ pc = "relock" => req[r].pc = "rerun"
          /\ pc = "validate" => req[r].pc = "revalidate"
    BY <1>7, <2>1 DEF PrepareRetried, At
  <2>3. new.status = "running" /\ req[r].op = "retry"
    BY <1>1, <1>3, <1>7, <2>1, Becoming DEF PrepareRetried, Accounts, Knows
  <2>4. pc = "validate" => MayValidate(new) /\ order # <<>>
    <3>1. pc = "validate" => AtValidation(req[r].row) /\ order # <<>>
      BY <1>1, <2>2, <2>3 DEF Accounts, Knows
    <3>2. AtValidation(req[r].row) => Testable(req[r].row)
      BY <1>1, <1>3 DEF Accounts, RowsSound
    <3>3. AtValidation(req[r].row) => new.result = req[r].row.result
                                      /\ new.failedStage = "runtime_validation"
      BY <1>3, <2>1, Becoming
    <3>. QED
      BY <2>3, <3>1, <3>2, <3>3 DEF MayValidate, Testable
  <2>5. Takes(req[r], new, pc)
    BY <1>4, <2>2, <2>3, <2>4 DEF Takes, HoldingPlaces, PipelinePlaces, Unfinished
  <2>. QED
    BY <1>2, <1>5, <2>2, <2>5, HandOnward
<1>8. CASE StageFails(r)
  <2>1. /\ req[r].pc \in {"stage3", "stage4", "quality", "plan", "generate"}
        /\ CommitRow(r, FailRun(req[r].row, StageAt(req[r].pc)), [req[r] EXCEPT !.pc = "done"])
    BY <1>8 DEF StageFails
  <2>2. StageAt(req[r].pc) \in Stage \ {"runtime_validation"}
    BY <2>1 DEF StageAt, Stage
  <2>3. PICK new \in Row : new = FailRun(req[r].row, StageAt(req[r].pc)) /\ ~AtValidation(new)
    BY <1>3, <2>2, FailedRow
  <2>4. new.status = "failed"
    BY <1>3, <2>3 DEF FailRun, Row
  <2>5. Takes(req[r], new, "done")
    BY <2>3, <2>4 DEF Takes, HoldingPlaces, PipelinePlaces, Unfinished
  <2>. QED
    BY <1>2, <1>5, <2>1, <2>3, <2>5, HandOnward
<1>9. CASE RestoreUnderstanding(r)
  <2>1. PICK new \in Row :
          new = [Complete(req[r].row, req[r].payload) EXCEPT !.failedStage = "none"]
    BY <1>3, CompletedRow
  <2>2. new.status = "completed"
    BY <1>3, <2>1 DEF Complete, Row
  <2>3. Takes(req[r], new, "generate")
    BY <1>4, <2>2 DEF Takes, HoldingPlaces, PipelinePlaces, Unfinished
  <2>. QED
    BY <1>2, <1>5, <1>9, <2>1, <2>3, HandOnward DEF RestoreUnderstanding
<1>10. CASE GenerateTestCases(r)
  <2>1. PICK new \in Row : new = SaveTestGeneration(req[r].row, S1)
    BY <1>3, PreparedRows
  <2>2. new.status = req[r].row.status /\ Testable(new)
    BY <1>3, <2>1, Becoming
  <2>3. req[r].row.status \notin Unfinished
    BY <1>1, <1>3, <1>10 DEF GenerateTestCases, At, Accounts, RunsOf, HoldsRow, HoldingPlaces,
       PipelinePlaces, ValidationPlaces
  <2>4. Takes(req[r], new, "done")
    BY <2>2, <2>3 DEF Takes, HoldingPlaces, PipelinePlaces
  <2>. QED
    BY <1>2, <1>5, <1>10, <2>1, <2>4, HandOnward DEF GenerateTestCases
<1>11. CASE FailSource(r)
  <2>1. PICK new \in Row : new = FailRun(req[r].row, "runtime_validation")
    BY <1>3, FailedRow DEF Stage
  <2>2. new.status = "failed" /\ new.result = req[r].row.result
    BY <1>3, <2>1 DEF FailRun, Row
  <2>3. Testable(new)
    BY <1>1, <1>11, <2>2 DEF FailSource, At, Fits, ValidationPlaces, MayValidate, Testable
  <2>4. Takes(req[r], new, "done")
    BY <2>2, <2>3 DEF Takes, HoldingPlaces, PipelinePlaces, Unfinished
  <2>. QED
    BY <1>2, <1>5, <1>11, <2>1, <2>4, HandOnward DEF FailSource
<1>12. CASE CompleteRetried(r)
  <2>1. PICK new \in Row : new = Complete(req[r].row, req[r].row.result)
    BY <1>3, CompletedRow
  <2>2. new.status = "completed"
    BY <1>3, <2>1 DEF Complete, Row
  <2>3. Takes(req[r], new, "done")
    BY <1>4, <2>2 DEF Takes, HoldingPlaces, PipelinePlaces, Unfinished
  <2>. QED
    BY <1>2, <1>5, <1>12, <2>1, <2>3, HandOnward DEF CompleteRetried
<1>. QED
  BY <1>6, <1>7, <1>8, <1>9, <1>10, <1>11, <1>12

(* The stages of the pipeline and what it does before them.                *)
LEMMA StagesAccount ==
    ASSUME NEW r \in Requests, Turn(r), RunStage(r) \/ PrepareGeneration(r)
    PROVE  Accounting(r)
<1>1. /\ req[r] \in Request /\ Accounts(req[r])
      /\ order' = order /\ cachedRun' \in {0, cachedRun}
      /\ req[r].pc \in RowPlaces \ JudgingPlaces
  BY Turning DEF At, RowPlaces, JudgingPlaces, ValidationPlaces, RunStage, PrepareGeneration
<1>2. /\ req[r].row \in Row /\ req[r].row.result \in Result /\ req[r].payload \in Result
  BY <1>1, HeldRow
<1>3. PICK stage \in 1..3 : stage = req[r].stage
  BY <1>1 DEF Request
<1>4. \A new : new.status \in {"pending", "running", "completed"} => ~AtValidation(new)
  BY DEF AtValidation
<1>5. CASE RunStage(r)
  <2>1. /\ req[r].pc \in {"stage3", "stage4", "quality", "plan"}
        /\ req[r].payload.generation \in Artifact /\ req[r].payload.optimization \in Artifact
        /\ req[r].row.status \in Unfinished
    BY <1>1, <1>2, <1>5 DEF RunStage, At, Result, Accounts, Knows, PipelinePlaces
  <2>2. PICK pc \in {"stage4", "complete", "quality", "plan"} : \E new, payload :
          /\ CommitRow(r, new, [req[r] EXCEPT !.payload = payload, !.pc = pc])
          /\ \/ /\ payload = [EmptyResult EXCEPT !.summary = TRUE]
                /\ new = SaveStage3Result(req[r].row, payload)
             \/ /\ payload = [req[r].payload EXCEPT !.generation = S1]
                /\ new = SaveTestGeneration(req[r].row, S1)
             \/ /\ payload = [req[r].payload EXCEPT !.verification = req[r].payload.generation,
                                                   !.optimization = req[r].payload.generation]
                /\ new = SaveQualityOptimization(req[r].row, req[r].payload.generation, FALSE)
             \/ /\ payload = [req[r].payload EXCEPT !.plan = req[r].payload.optimization]
                /\ new = SaveRuntimeExecutionPlan(req[r].row, req[r].payload.optimization)
    BY <1>5 DEF RunStage
  <2>3. PICK new, payload :
          /\ CommitRow(r, new, [req[r] EXCEPT !.payload = payload, !.pc = pc])
          /\ \/ /\ payload = [EmptyResult EXCEPT !.summary = TRUE]
                /\ new = SaveStage3Result(req[r].row, payload)
             \/ /\ payload = [req[r].payload EXCEPT !.generation = S1]
                /\ new = SaveTestGeneration(req[r].row, S1)
             \/ /\ payload = [req[r].payload EXCEPT !.verification = req[r].payload.generation,
                                                   !.optimization = req[r].payload.generation]
                /\ new = SaveQualityOptimization(req[r].row, req[r].payload.generation, FALSE)
             \/ /\ payload = [req[r].payload EXCEPT !.plan = req[r].payload.optimization]
                /\ new = SaveRuntimeExecutionPlan(req[r].row, req[r].payload.optimization)
    BY <2>2
  <2>4. S1 \in Artifact
    BY FirstSuite DEF Artifact
  <2>5. payload \in Result
    BY <1>2, <2>1, <2>3, <2>4, RowTypes DEF Result
  <2>6. new \in Row
    <3>1. /\ SaveStage3Result(req[r].row, payload) \in Row
          /\ SaveTestGeneration(req[r].row, S1) \in Row
      BY <1>2, <2>5, CompletedRow, PreparedRows
    <3>2. \A suite \in Artifact : /\ SaveQualityOptimization(req[r].row, suite, FALSE) \in Row
                                  /\ SaveRuntimeExecutionPlan(req[r].row, suite) \in Row
      BY <1>2, SavedRow
    <3>. QED
      BY <2>1, <2>3, <3>1, <3>2
  <2>7. new.status = req[r].row.status
    BY <1>2, <2>3 DEF SaveStage3Result, SaveTestGeneration, SaveQualityOptimization,
       SaveRuntimeExecutionPlan, Row
  <2>8. pc \in HoldingPlaces /\ req[r].pc \in PipelinePlaces /\ pc \notin {"relock", "validate"}
    BY <2>1 DEF HoldingPlaces, PipelinePlaces
  <2>9. Takes(req[r], new, pc)
    BY <1>4, <2>1, <2>7, <2>8 DEF Takes, Unfinished
  <2>10. [req[r] EXCEPT !.payload = payload, !.pc = pc] =
           [req[r] EXCEPT !.payload = payload, !.pc = pc, !.stage = stage]
    BY <1>1, <1>3 DEF Request
  <2>11. CommitRow(r, new, [req[r] EXCEPT !.payload = payload, !.pc = pc, !.stage = stage])
    BY <2>3, <2>10
  <2>. QED
    BY <1>1, <2>5, <2>6, <2>8, <2>9, <2>11, HandAccounts
<1>6. CASE PrepareGeneration(r)
  <2>1. PICK new \in Row : new = PrepareRetry(req[r].row)
    BY <1>2, PreparedRows
  <2>2. PICK payload \in Result : payload = req[r].row.result
    BY <1>2
  <2>3. [req[r] EXCEPT !.pc = "restore", !.payload = payload] =
          [req[r] EXCEPT !.payload = payload, !.pc = "restore", !.stage = stage]
    BY <1>1, <1>3 DEF Request
  <2>4. CommitRow(r, new, [req[r] EXCEPT !.payload = payload, !.pc = "restore", !.stage = stage])
    BY <1>6, <2>1, <2>2, <2>3 DEF PrepareGeneration
  <2>5. new.status = "running" /\ "restore" \in HoldingPlaces
    BY <1>2, <2>1, Becoming DEF HoldingPlaces
  <2>6. Takes(req[r], new, "restore")
    BY <1>4, <2>5 DEF Takes, PipelinePlaces, Unfinished
  <2>. QED
    BY <1>1, <2>4, <2>5, <2>6, HandAccounts
<1>. QED
  BY <1>5, <1>6

(* The pipeline has completed: its run is the cached one.                  *)
LEMMA CompleteAccounts ==
    ASSUME NEW r \in Requests, Turn(r), CompletePipeline(r)
    PROVE  Accounting(r)
<1>1. /\ req[r] \in Request /\ Accounts(req[r]) /\ req[r].pc = "complete" /\ order' = order
      /\ cachedRun' = req[r].cu
  BY Turning DEF CompletePipeline, At
<1>2. req[r].pc \in RowPlaces \ JudgingPlaces
  BY <1>1 DEF RowPlaces, JudgingPlaces, ValidationPlaces
<1>3. req[r].row \in Row /\ req[r].payload \in Result
  BY <1>2, HeldRow
<1>4. PICK payload \in Result : payload = [req[r].payload EXCEPT !.stamp = 1]
  <2>1. 1 \in Version \cup {NoStamp}
    BY MaxVersionAssumption DEF Version
  <2>. QED
    BY <1>3, <2>1 DEF Result
<1>5. PICK new \in Row : new = Complete(req[r].row, payload) /\ ~AtValidation(new)
  BY <1>3, CompletedRow
<1>6. PICK pc \in {"state", "done"}, stage \in 1..3 :
        Returned(req[r]) = [req[r] EXCEPT !.pc = pc, !.stage = stage]
  BY <1>1, ReturnedForm
<1>7. PICK own \in Result : own = req[r].payload
  BY <1>3
<1>8. [req[r] EXCEPT !.pc = pc, !.stage = stage] =
        [req[r] EXCEPT !.payload = own, !.pc = pc, !.stage = stage]
  BY <1>1, <1>7 DEF Request
<1>9. CommitRow(r, new, [req[r] EXCEPT !.payload = own, !.pc = pc, !.stage = stage])
  BY <1>4, <1>5, <1>6, <1>8 DEF CompletePipeline
<1>10. new.status = "completed"
  BY <1>3, <1>5 DEF Complete, Row
<1>11. Takes(req[r], new, pc)
  BY <1>5, <1>10 DEF Takes, HoldingPlaces, PipelinePlaces, Unfinished
<1>12. req[r].cu = LastCompleted \/ req[r].op = "retry"
  BY <1>1 DEF Accounts, Knows, PipelinePlaces
<1>. QED
  BY <1>1, <1>2, <1>9, <1>11, <1>12, HandAccounts

(* The row is looked at again under the lock.                              *)
LEMMA RelockAccounts ==
    ASSUME NEW r \in Requests, Turn(r), Relock(r)
    PROVE  Accounting(r)
<1>1. /\ req[r] \in Request /\ Accounts(req[r]) /\ req[r].pc = "relock" /\ order' = order
  BY Turning DEF Relock, At
<1>2. req[r].pc \in RowPlaces \ JudgingPlaces
  BY <1>1 DEF RowPlaces, JudgingPlaces, ValidationPlaces
<1>3. /\ req[r].row \in Row /\ req[r].row.result \in Result
      /\ deps[req[r].cu] = "completed" /\ req[r].dep = req[r].cu
  BY <1>1, <1>2, HeldRow DEF Accounts, Knows
<1>4. CASE VersionMatches(req[r].row)
  <2>1. /\ To(r, [req[r] EXCEPT !.pc = "source", !.payload = req[r].row.result])
        /\ UNCHANGED <<rows, project, deps, scans, runtimes, Disks, Sut, cachedRun>>
    BY <1>3, <1>4 DEF Relock
  <2>2. UNCHANGED Tables
    BY <1>1, <2>1 DEF Tables, Disks
  <2>3. PICK next : next = [req[r] EXCEPT !.pc = "source", !.payload = req[r].row.result]
    OBVIOUS
  <2>4. "source" \in Pc /\ <<"relock", "source">> \in Within
    BY DEF Pc, Within
  <2>5. next \in Request /\ Likes(req[r], next) /\ next.pc = "source"
    BY <1>1, <1>3, <2>3, <2>4 DEF Request, Likes
  <2>6. Accounts(next)
    BY <1>1, <2>4, <2>5, WithinAccounts
  <2>. QED
    BY <2>1, <2>2, <2>3, <2>5, <2>6, SameAccounts DEF Likes
<1>5. CASE ~VersionMatches(req[r].row)
  <2>1. PICK new \in Row : new = PrepareArtifactRegeneration
    BY FreshRows
  <2>2. CommitRow(r, new, [req[r] EXCEPT !.pc = "source"]) /\ cachedRun' = 0
    BY <1>3, <1>5, <2>1 DEF Relock
  <2>3. new.status = "running" /\ ~AtValidation(new)
    BY <1>3, <2>1, Becoming DEF AtValidation
  <2>4. "source" \in HoldingPlaces /\ Takes(req[r], new, "source")
    BY <1>1, <2>3 DEF Takes, HoldingPlaces, PipelinePlaces, Unfinished
  <2>. QED
    BY <1>1, <1>2, <2>2, <2>4, HandOnward
<1>. QED
  BY <1>4, <1>5

(* A request takes up the row of its dependency run.                       *)
LEMMA TakenUp ==
    ASSUME NEW r \in Requests, Turn(r), req[r].pc \in {"admit", "force"},
           NEW pc \in {"pending", "source", "relock"}, NEW payload \in Result, NEW new \in Row,
           CommitRow(r, new, [Admitting(r) EXCEPT !.pc = pc, !.payload = payload]),
           order' = order \/ order' = Append(order, req[r].dep), cachedRun' \in {0, cachedRun},
           new.status \in Unfinished
    PROVE  Accounting(r)
<1>1. /\ req[r] \in Request /\ Accounts(req[r]) /\ TypeInv
      /\ req[r].pc \notin {"ready", "done"} \cup UploadPlaces \cup {"stage_files", "delete_rows"}
      /\ Loose(req[r])
  BY Turning DEF UploadPlaces, Loose
<1>2. /\ Admitting(r) \in Request /\ Admitting(r).cu = req[r].dep /\ req[r].dep \in 1..MaxRuns
      /\ Admitting(r).row = SeenRow(r, req[r].dep)
  BY AdmittingRow DEF Turn
<1>3. Admitting(r).op = req[r].op /\ Admitting(r).dep = req[r].dep
  BY <1>1, <1>2 DEF Admitting, Request
<1>4. SeenRow(r, req[r].dep) = rows[req[r].dep]
  BY <1>1, <1>2, CurrentRow
<1>5. /\ req[r].dep = LastCompleted /\ req[r].dep \in DOMAIN deps
      /\ deps[req[r].dep] = "completed"
      /\ req[r].op \in {"upload", "continue_2", "resume", "force", "retry"}
  <2>1. req[r].dep = LastCompleted /\ req[r].dep # 0
    BY <1>1, <1>2 DEF Accounts, Knows, Admitted
  <2>2. req[r].op \in {"upload", "continue_2", "resume", "force", "retry"}
    BY <1>1 DEF Accounts, Knows
  <2>. QED
    BY <1>1, <2>1, <2>2, Completes
<1>6. PICK next : next = [Admitting(r) EXCEPT !.pc = pc, !.payload = payload]
  OBVIOUS
<1>7. pc \in Pc /\ pc \in HoldingPlaces /\ pc # "validate"
  BY DEF Pc, HoldingPlaces, PipelinePlaces
<1>8. /\ next \in Request /\ next.op = req[r].op /\ next.dep = req[r].dep /\ next.cu = req[r].dep
      /\ next.pc = pc /\ next.row = rows[req[r].dep]
  BY <1>2, <1>3, <1>4, <1>6, <1>7 DEF Request
<1>9. ~AtValidation(new)
  BY DEF AtValidation, Unfinished
<1>10. Handles(req[r], new, next)
  BY <1>5, <1>7, <1>8, <1>9 DEF Handles
<1>11. CommitRow(r, new, next)
  BY <1>6
<1>. QED
  BY <1>1, <1>2, <1>8, <1>10, <1>11, RowAccounts

LEMMA AdmitAccounts ==
    ASSUME NEW r \in Requests, Turn(r), AdmitCreate(r) \/ AdmitAgain(r) \/ ForceRerun(r)
    PROVE  Accounting(r)
<1>1. /\ req[r] \in Request /\ req[r].pc \in {"admit", "force"}
  BY Turning DEF AdmitCreate, AdmitAgain, ForceRerun, At
<1>2. /\ Admitting(r) \in Request /\ Admitting(r).row \in Row /\ Admitting(r).payload \in Result
      /\ Admitting(r).row.result \in Result
  BY <1>1, AdmittingRow DEF Turn, Request, Row
<1>3. PICK own \in Result : own = Admitting(r).payload
  BY <1>2
<1>4. \A pc : [Admitting(r) EXCEPT !.pc = pc] = [Admitting(r) EXCEPT !.pc = pc, !.payload = own]
  BY <1>2, <1>3 DEF Request
<1>5. CASE AdmitCreate(r)
  <2>1. PICK new \in Row : new = CreateRun
    BY FreshRows
  <2>2. /\ CommitRow(r, new, [Admitting(r) EXCEPT !.pc = "pending"])
        /\ order' = Append(order, req[r].dep) /\ cachedRun' = cachedRun
    BY <1>5, <2>1 DEF AdmitCreate
  <2>3. CommitRow(r, new, [Admitting(r) EXCEPT !.pc = "pending", !.payload = own])
    BY <1>4, <2>2
  <2>4. new.status \in Unfinished
    BY <1>2, <2>1, Becoming DEF Unfinished
  <2>. QED
    BY <1>1, <2>2, <2>3, <2>4, TakenUp
<1>6. CASE AdmitAgain(r)
  <2>1. PICK payload \in Result : payload = Admitting(r).row.result
    BY <1>2
  <2>2. [[Admitting(r) EXCEPT !.pc = "source"] EXCEPT !.payload = payload] =
          [Admitting(r) EXCEPT !.pc = "source", !.payload = payload]
    OBVIOUS
  <2>3. order' = order
    BY <1>6 DEF AdmitAgain
  <2>4. PICK marked \in Row : marked = MarkRunning(Admitting(r).row)
    BY <1>2, PreparedRows
  <2>5. PICK forced \in Row : forced = PrepareForcedRerun(Admitting(r).row)
    BY <1>2, PreparedRows
  <2>6. PICK fresh \in Row : fresh = PrepareArtifactRegeneration
    BY FreshRows
  <2>7. /\ marked.status \in Unfinished /\ forced.status \in Unfinished
        /\ fresh.status \in Unfinished
    BY <1>2, <2>4, <2>5, <2>6, Becoming DEF Unfinished
  <2>8. CASE /\ CommitRow(r, marked, [Admitting(r) EXCEPT !.pc = "source", !.payload = payload])
             /\ cachedRun' = cachedRun
    BY <1>1, <2>3, <2>7, <2>8, TakenUp
  <2>9. CASE /\ CommitRow(r, forced, [Admitting(r) EXCEPT !.pc = "source", !.payload = payload])
             /\ cachedRun' = cachedRun
    BY <1>1, <2>3, <2>7, <2>9, TakenUp
  <2>10. CASE CommitRow(r, fresh, [Admitting(r) EXCEPT !.pc = "source"]) /\ cachedRun' = 0
    <3>1. CommitRow(r, fresh, [Admitting(r) EXCEPT !.pc = "source", !.payload = own])
      BY <1>4, <2>10
    <3>. QED
      BY <1>1, <2>3, <2>7, <2>10, <3>1, TakenUp
  <2>. QED
    BY <1>6, <2>1, <2>2, <2>4, <2>5, <2>6, <2>8, <2>9, <2>10 DEF AdmitAgain
<1>7. CASE ForceRerun(r)
  <2>1. order' = order /\ cachedRun' = cachedRun
    BY <1>7 DEF ForceRerun
  <2>2. CASE Admitting(r).row.status = "completed"
    <3>1. PICK new \in Row : new = PrepareForcedRerun(Admitting(r).row)
      BY <1>2, PreparedRows
    <3>2. CommitRow(r, new, [Admitting(r) EXCEPT !.pc = "relock", !.payload = own])
      BY <1>4, <1>7, <2>2, <3>1 DEF ForceRerun
    <3>3. new.status \in Unfinished
      BY <1>2, <3>1, Becoming DEF Unfinished
    <3>. QED
      BY <1>1, <2>1, <3>2, <3>3, TakenUp
  <2>3. CASE Admitting(r).row.status # "completed"
    <3>1. End(r) /\ UNCHANGED Tables
      BY <1>7, <2>3 DEF ForceRerun, Tables, Disks
    <3>. QED
      BY <1>1, <3>1, EndAccounts DEF Loose
  <2>. QED
    BY <2>2, <2>3
<1>. QED
  BY <1>5, <1>6, <1>7

-----------------------------------------------------------------------------
(* Steps of a discovery.                                                   *)

(* A dependency run is created, completed or failed.                       *)
LEMMA DiscoveringAccounts ==
    ASSUME NEW r \in Requests, Turn(r), Alive, NEW next \in Request, To(r, next),
           next.op = req[r].op, next.cu = req[r].cu, next.row = req[r].row,
           UNCHANGED <<project, scans, rows, order, runtimes>>, UNCHANGED Disks, cachedRun' = 0,
           NEW d \in 1..MaxRuns, next.dep = d, NEW status \in {"running", "completed", "failed"},
           \A e \in DOMAIN deps' : e # d => e \in DOMAIN deps /\ deps'[e] = deps[e],
           \A e \in DOMAIN deps : e # d => e \in DOMAIN deps',
           d \in DOMAIN deps', deps'[d] = status, Len(deps') = d, deps' # <<>>,
           rows[d].status = "absent", \A i \in DOMAIN order : order[i] # d, req[r].cu # d,
           req[r].pc = "dependency" \/ (req[r].pc \in {"found", "unfound"} /\ req[r].dep = d),
           <<next.pc, status>> \in {<<"processing", "running">>, <<"publish", "completed">>,
                                    <<"unpublish", "failed">>}
    PROVE  Accounting(r)
<1>1. /\ project' = project /\ disk' = disk /\ staged' = staged /\ scans' = scans
      /\ rows' = rows /\ order' = order /\ runtimes' = runtimes /\ Accounts(req[r])
  BY Turning DEF Disks
<1>2. Alive' /\ Latest(deps)' = status
  BY <1>1 DEF Alive, Latest
<1>3. \A e \in DOMAIN deps : e # d /\ deps[e] = "completed" =>
         e \in DOMAIN deps' /\ deps'[e] = "completed"
  OBVIOUS
<1>4. Knows(next)'
  <2>1. req[r].cu # 0 => req[r].cu \in DOMAIN deps' /\ deps'[req[r].cu] = "completed"
    BY <1>1, <1>3 DEF Accounts, Knows
  <2>. QED
    BY <1>1, <1>2, <2>1 DEF Knows, UploadPlaces, DiscoveryPlaces, Admitted, PipelinePlaces
<1>5. RunsOf(next)'
  <2>1. ASSUME NEW e \in DOMAIN deps', deps'[e] \in Unfinished
        PROVE  next.pc = "processing" /\ next.dep = e
    <3>1. e = d
      BY <1>1, <2>1 DEF Accounts, RunsOf
    <3>. QED
      BY <2>1, <3>1 DEF Unfinished
  <2>2. \A e \in 1..MaxRuns : rows[e].status \notin Unfinished
    BY <1>1 DEF Accounts, RunsOf, HoldsRow, HoldingPlaces, PipelinePlaces, ValidationPlaces
  <2>3. \A k \in DOMAIN runtimes : runtimes[k].status \notin Unfinished
    BY <1>1 DEF Accounts, RunsOf, JudgingPlaces, ValidationPlaces
  <2>4. \A i \in DOMAIN scans : scans[i] # "pending"
    BY <1>1 DEF Accounts, RunsOf
  <2>. QED
    BY <1>1, <2>1, <2>2, <2>3, <2>4 DEF RunsOf
<1>6. StatusOf(next)' /\ FilesOf(next)'
  BY <1>1, <1>2 DEF Accounts, StatusOf, FilesOf
<1>7. RowsSound'
  BY <1>1, <1>3 DEF Accounts, RowsSound
<1>8. CacheOf(next)'
  BY <1>2 DEF CacheOf, Alive
<1>. QED
  BY <1>4, <1>5, <1>6, <1>7, <1>8 DEF Accounts, Accounting

LEMMA DiscoveriesAccount ==
    ASSUME NEW r \in Requests, Turn(r), Undisturbed',
           CreateDependencyRun(r) \/ CompleteDependencyRun(r) \/ FailDependencyRun(r)
    PROVE  Accounting(r)
<1>1. /\ req[r] \in Request /\ Accounts(req[r]) /\ TypeInv /\ deps \in Seq(RunStatus) /\ Alive
      /\ Len(deps) \in Nat /\ DOMAIN deps = 1..Len(deps) /\ Suits(r, req[r])
      /\ UNCHANGED <<project, scans, rows, order, runtimes>> /\ UNCHANGED Disks
  BY Turning, LenProperties DEF TypeOK, Turn, ProjectInv, CreateDependencyRun,
     CompleteDependencyRun, FailDependencyRun, SetDependencyRun, CanCommit
<1>2. CASE CreateDependencyRun(r)
  <2>1. PICK d : d = Len(deps) + 1
    OBVIOUS
  <2>2. /\ cachedRun' = 0 /\ deps' = Append(deps, "running") /\ Len(deps) < MaxRuns
        /\ To(r, [req[r] EXCEPT !.pc = "processing", !.dep = d]) /\ req[r].pc = "dependency"
    BY <1>2, <2>1 DEF CreateDependencyRun, Fault, Undisturbed, At
  <2>3. d \in 1..MaxRuns /\ d \in Runs /\ "processing" \in Pc /\ "running" \in RunStatus
    BY <1>1, <2>1, <2>2, ProjectAssumption DEF Runs, Pc, RunStatus
  <2>4. PICK next : next = [req[r] EXCEPT !.pc = "processing", !.dep = d]
    OBVIOUS
  <2>5. /\ next \in Request /\ next.pc = "processing" /\ next.dep = d /\ next.op = req[r].op
        /\ next.cu = req[r].cu /\ next.row = req[r].row
    BY <1>1, <2>3, <2>4 DEF Request
  <2>6. /\ Len(deps') = d /\ DOMAIN deps' = 1..d /\ deps'[d] = "running"
        /\ \A e \in 1..Len(deps) : deps'[e] = deps[e]
    BY <1>1, <2>1, <2>2, <2>3, AppendProperties
  <2>7. \A e \in DOMAIN deps' : e # d => e \in DOMAIN deps /\ deps'[e] = deps[e]
    BY <1>1, <2>1, <2>6
  <2>8. \A e \in DOMAIN deps : e # d => e \in DOMAIN deps'
    BY <1>1, <2>1, <2>6
  <2>9. d \notin DOMAIN deps /\ d \in DOMAIN deps' /\ deps' # <<>> /\ d # 0
    <3>1. Len(deps') # 0
      BY <2>3, <2>6, ProjectAssumption
    <3>. QED
      BY <1>1, <2>1, <2>6, <3>1, ProjectAssumption
  <2>10. /\ rows[d].status = "absent" /\ (\A i \in DOMAIN order : order[i] # d)
         /\ req[r].cu # d
    BY <1>1, <2>2, <2>3, <2>9 DEF Accounts, RowsSound, Knows
  <2>. QED
    BY <1>1, <2>2, <2>3, <2>4, <2>5, <2>6, <2>7, <2>8, <2>9, <2>10, DiscoveringAccounts
<1>3. CASE CompleteDependencyRun(r) \/ FailDependencyRun(r)
  <2>1. PICK pc \in {"publish", "unpublish"}, status \in {"completed", "failed"} :
          /\ Goto(r, pc) /\ deps' = [deps EXCEPT ![req[r].dep] = status]
          /\ cachedRun' = cachedRun /\ req[r].pc \in {"found", "unfound"}
          /\ <<pc, status>> \in {<<"publish", "completed">>, <<"unpublish", "failed">>}
    BY <1>3 DEF CompleteDependencyRun, FailDependencyRun, SetDependencyRun, At
  <2>2. PICK d : d = req[r].dep
    OBVIOUS
  <2>3. /\ d = Len(deps) /\ cachedRun = 0 /\ rows[d].status = "absent" /\ req[r].cu # d
        /\ \A i \in DOMAIN order : order[i] # d
    BY <1>1, <2>1, <2>2 DEF Accounts, Knows, DiscoveryPlaces
  <2>4. d \in DOMAIN deps
    BY <1>1, <2>1, <2>2 DEF Suits, Admits, DiscoveryPlaces
  <2>5. d \in 1..MaxRuns
    <3>1. Len(deps) <= MaxRuns
      BY <1>1 DEF TypeInv
    <3>. QED
      BY <1>1, <2>4, <3>1, ProjectAssumption
  <2>6. pc \in Pc /\ status \in RunStatus
    BY DEF Pc, RunStatus
  <2>7. PICK next \in Request : To(r, next) /\ Likes(req[r], next) /\ next.pc = pc
    BY <2>1, <2>6, GoingTo
  <2>8. /\ Len(deps') = d /\ DOMAIN deps' = DOMAIN deps /\ deps'[d] = status
        /\ \A e \in DOMAIN deps : e # d => deps'[e] = deps[e]
    BY <1>1, <2>1, <2>2, <2>3, <2>4, <2>6, SeqExcept
  <2>9. deps' # <<>>
    BY <2>4, <2>8
  <2>10. /\ next.op = req[r].op /\ next.cu = req[r].cu /\ next.row = req[r].row
         /\ next.dep = d
    BY <2>2, <2>7 DEF Likes
  <2>11. /\ \A e \in DOMAIN deps' : e # d => e \in DOMAIN deps /\ deps'[e] = deps[e]
         /\ \A e \in DOMAIN deps : e # d => e \in DOMAIN deps'
         /\ d \in DOMAIN deps' /\ cachedRun' = 0
    BY <2>1, <2>3, <2>4, <2>8
  <2>12. <<next.pc, status>> \in {<<"publish", "completed">>, <<"unpublish", "failed">>}
    BY <2>1, <2>7
  <2>. QED
    BY <1>1, <2>1, <2>2, <2>3, <2>5, <2>7, <2>8, <2>9, <2>10, <2>11, <2>12, DiscoveringAccounts
<1>. QED
  BY <1>2, <1>3

(* The status of the project is set.                                       *)
LEMMA ProjectAccounts ==
    ASSUME NEW r \in Requests, Turn(r), MarkProcessing(r) \/ MarkReady(r) \/ MarkFailed(r)
    PROVE  Accounting(r)
<1>1. /\ req[r] \in Request /\ Accounts(req[r]) /\ TypeOK /\ Alive /\ Suits(r, req[r])
      /\ UNCHANGED <<deps, scans, rows, order, runtimes, cachedRun>> /\ UNCHANGED Disks
      /\ project' \in {"processing", "ready", "failed"}
  BY Turning DEF Turn, ProjectInv, MarkProcessing, MarkReady, MarkFailed, SetProject, CanCommit
<1>2. PICK pc \in {"discover", "join"}, error \in BOOLEAN :
        /\ To(r, [req[r] EXCEPT !.pc = pc, !.error = error])
        /\ <<req[r].pc, pc, project'>> \in {<<"processing", "discover", "processing">>,
              <<"publish", "join", "ready">>, <<"unpublish", "join", "failed">>}
        /\ req[r].pc = "unpublish" => error
  <2>1. CASE MarkProcessing(r) \/ MarkReady(r)
    <3>1. PICK pc \in {"discover", "join"} :
            /\ Goto(r, pc)
            /\ <<req[r].pc, pc, project'>> \in {<<"processing", "discover", "processing">>,
                  <<"publish", "join", "ready">>}
      BY <2>1 DEF MarkProcessing, MarkReady, SetProject, At
    <3>2. pc \in Pc /\ req[r].error \in BOOLEAN
      BY <1>1 DEF Pc, Request
    <3>3. PICK next \in Request : To(r, next) /\ next = [req[r] EXCEPT !.pc = pc]
      BY <3>1, <3>2, GoingTo
    <3>4. next = [req[r] EXCEPT !.pc = pc, !.error = req[r].error]
      BY <1>1, <3>3 DEF Request
    <3>. QED
      BY <3>1, <3>2, <3>3, <3>4
  <2>2. CASE MarkFailed(r)
    BY <2>2 DEF MarkFailed, At
  <2>. QED
    BY <2>1, <2>2
<1>3. PICK next : next = [req[r] EXCEPT !.pc = pc, !.error = error]
  OBVIOUS
<1>4. pc \in Pc
  BY DEF Pc
<1>5. /\ next \in Request /\ next.pc = pc /\ next.error = error /\ next.op = req[r].op
      /\ next.dep = req[r].dep /\ next.cu = req[r].cu /\ next.run = req[r].run
  BY <1>1, <1>3, <1>4 DEF Request
<1>6. /\ disk' = disk /\ staged' = staged /\ deps' = deps /\ scans' = scans /\ rows' = rows
      /\ order' = order /\ runtimes' = runtimes /\ cachedRun' = cachedRun
      /\ Alive' /\ project' # "absent" /\ LastCompleted' = LastCompleted
  BY <1>1 DEF Disks, Alive, LastCompleted, CompletedDeps
<1>7. req[r].pc = "publish" => Latest(deps) = "completed" /\ req[r].dep = LastCompleted
  <2>. SUFFICES ASSUME req[r].pc = "publish"
                PROVE  Latest(deps) = "completed" /\ req[r].dep = LastCompleted
    OBVIOUS
  <2>1. req[r].dep = Len(deps)
    BY <1>1 DEF Accounts, Knows, DiscoveryPlaces
  <2>2. req[r].dep \in DOMAIN deps /\ deps[req[r].dep] = "completed"
    BY <1>1 DEF Suits, Admits, DiscoveryPlaces
  <2>3. Latest(deps) = "completed"
    BY <2>1, <2>2 DEF Latest
  <2>. QED
    BY <1>1, <2>1, <2>3, LastOne
<1>8. /\ req[r].pc = "processing" => Latest(deps) = "running"
      /\ req[r].pc = "unpublish" => Latest(deps) = "failed"
  BY <1>1 DEF Accounts, Knows
<1>9. Knows(next)'
  <2>1. CASE pc = "discover"
    BY <1>1, <1>2, <1>5, <1>6, <1>8, <2>1 DEF Accounts, Knows, UploadPlaces, DiscoveryPlaces,
       Admitted, PipelinePlaces, Latest
  <2>2. CASE pc = "join"
    BY <1>1, <1>2, <1>5, <1>6, <1>7, <2>2 DEF Accounts, Knows, UploadPlaces, DiscoveryPlaces,
       Admitted, PipelinePlaces
  <2>. QED
    BY <2>1, <2>2
<1>10. RunsOf(next)'
  BY <1>1, <1>2, <1>5, <1>6 DEF Accounts, RunsOf, HoldsRow, HoldingPlaces, PipelinePlaces,
     JudgingPlaces, ValidationPlaces
<1>11. StatusOf(next)' /\ FilesOf(next)'
  BY <1>1, <1>2, <1>5, <1>6, <1>7, <1>8 DEF Accounts, StatusOf, FilesOf, Latest
<1>12. Retrying' <=> Retrying
  BY <1>1, <1>2, <1>3, <1>5, OpsStay
<1>13. RowsSound' /\ CacheOf(next)'
  BY <1>1, <1>5, <1>6, <1>12 DEF Accounts, RowsSound, CacheOf
<1>. QED
  BY <1>2, <1>3, <1>5, <1>9, <1>10, <1>11, <1>13 DEF Accounts, Accounting

-----------------------------------------------------------------------------
(* Uploads and deletions.                                                  *)

\* A step on the files of the project, where nothing is unfinished.
LEMMA FileAccounts ==
    ASSUME NEW r \in Requests, Turn(r), UNCHANGED Stores, cachedRun' = cachedRun,
           NEW pc \in {"extract", "record", "delete_rows", "delete_files", "commit_delete",
                       "done"},
           NEW error \in BOOLEAN, To(r, [req[r] EXCEPT !.pc = pc, !.error = error]),
           Loose(req[r]) \/ req[r].pc \in UploadPlaces \cup {"delete_rows", "delete_files"},
           req[r].pc \notin {"ready", "done"},
           IF pc \in UploadPlaces THEN ~Alive /\ req[r].op = "upload" ELSE pc = "done" \/ Alive,
           pc = "record" => disk' = "complete",
           pc \in {"delete_rows", "delete_files", "commit_delete"} => disk' = "none",
           Alive => \/ disk' = "complete" /\ staged' = "none"
                    \/ pc = "delete_rows" /\ error /\ disk' = "none" /\ staged' = "complete"
                    \/ pc = "delete_files" /\ disk' = "none" /\ staged' = "complete"
                    \/ pc = "commit_delete" /\ disk' = "none" /\ staged' = "none",
           ~Alive => (disk' = "none" /\ staged' = "none") \/ pc \in {"extract", "record"}
    PROVE  Accounting(r)
<1>1. /\ req[r] \in Request /\ Accounts(req[r]) /\ Uploads(req[r]) /\ TypeOK
      /\ project' = project /\ deps' = deps /\ scans' = scans /\ rows' = rows
      /\ order' = order /\ runtimes' = runtimes
  BY Turning DEF Stores
<1>2. PICK next : next = [req[r] EXCEPT !.pc = pc, !.error = error]
  OBVIOUS
<1>3. pc \in Pc
  BY DEF Pc
<1>4. /\ next \in Request /\ next.pc = pc /\ next.error = error /\ next.op = req[r].op
      /\ next.dep = req[r].dep /\ next.cu = req[r].cu /\ next.run = req[r].run
  BY <1>1, <1>2, <1>3 DEF Request
<1>5. Alive' = Alive /\ LastCompleted' = LastCompleted
  BY <1>1 DEF Alive, LastCompleted, CompletedDeps
<1>6. Retrying' <=> Retrying
  BY <1>1, <1>2, <1>4, OpsStay
<1>7. Knows(next)'
  BY <1>1, <1>4, <1>5 DEF Accounts, Knows, UploadPlaces, DiscoveryPlaces, Admitted,
     PipelinePlaces
<1>8. RunsOf(next)'
  BY <1>1, <1>4 DEF Accounts, RunsOf, HoldsRow, Loose, UploadPlaces, HoldingPlaces,
     PipelinePlaces, JudgingPlaces, ValidationPlaces
<1>9. StatusOf(next)'
  BY <1>1, <1>4 DEF Accounts, StatusOf, Loose, UploadPlaces, Latest
<1>10. FilesOf(next)'
  BY <1>4, <1>5 DEF FilesOf
<1>11. RowsSound' /\ CacheOf(next)'
  BY <1>1, <1>4, <1>5, <1>6 DEF Accounts, RowsSound, CacheOf
<1>. QED
  BY <1>2, <1>4, <1>7, <1>8, <1>9, <1>10, <1>11 DEF Accounts, Accounting

LEMMA FilesAccount ==
    ASSUME NEW r \in Requests, Turn(r), Undisturbed',
           \/ CreateDirectory(r) \/ Extract(r) \/ UploadFails(r)
           \/ StageFiles(r) \/ DeleteRows(r) \/ DeletionFails(r) \/ DeleteFiles(r)
    PROVE  Accounting(r)
<1>1. /\ req[r] \in Request /\ Accounts(req[r]) /\ Fits(req[r]) /\ Uploads(req[r])
      /\ UNCHANGED Stores /\ cachedRun' = cachedRun /\ req[r].error \in BOOLEAN
  BY Turning DEF CreateDirectory, Extract, UploadFails, StageFiles, DeleteRows, DeletionFails,
     DeleteFiles, Request
<1>2. project = "absent" => staged = "none"
  BY DEF Turn, ProjectInv, UploadInv
<1>3. \A pc : Goto(r, pc) => To(r, [req[r] EXCEPT !.pc = pc, !.error = req[r].error])
  <2>1. \A pc : [req[r] EXCEPT !.pc = pc] = [req[r] EXCEPT !.pc = pc, !.error = req[r].error]
    BY <1>1 DEF Request
  <2>2. \A pc : Goto(r, pc) => To(r, [req[r] EXCEPT !.pc = pc])
    BY Turning DEF Goto, To, TypeOK
  <2>. QED
    BY <2>1, <2>2
<1>4. CASE CreateDirectory(r) \/ Extract(r) \/ UploadFails(r)
  <2>1. PICK pc \in {"extract", "record", "done"} :
          /\ Goto(r, pc) /\ req[r].pc \in UploadPlaces /\ staged' = staged
          /\ pc = "record" => disk' = "complete"
          /\ pc = "done" => disk' = "none"
    BY <1>4 DEF CreateDirectory, Extract, UploadFails, End, At, UploadPlaces
  <2>2. req[r].op = "upload" /\ project = "absent" /\ ~Alive
    BY <1>1, <2>1 DEF Fits, Uploads, Alive
  <2>3. /\ req[r].pc \notin {"ready", "done"}
        /\ pc \notin {"delete_rows", "delete_files", "commit_delete"}
    BY <2>1 DEF UploadPlaces
  <2>4. To(r, [req[r] EXCEPT !.pc = pc, !.error = req[r].error])
    BY <1>3, <2>1
  <2>5. staged' = "none" /\ (pc # "done" => pc \in UploadPlaces)
    BY <1>2, <2>1, <2>2 DEF UploadPlaces
  <2>. QED
    BY <1>1, <2>1, <2>2, <2>3, <2>4, <2>5, FileAccounts DEF UploadPlaces
<1>5. CASE StageFiles(r) \/ DeleteRows(r) \/ DeletionFails(r) \/ DeleteFiles(r)
  <2>1. /\ req[r].pc \in {"stage_files", "delete_rows", "delete_files"}
        /\ req[r].pc \notin {"ready", "done"}
        /\ Loose(req[r]) \/ req[r].pc \in UploadPlaces \cup {"delete_rows", "delete_files"}
    BY <1>5 DEF StageFiles, DeleteRows, DeletionFails, DeleteFiles, At, Loose, Fault, Undisturbed
  <2>2. Alive
    BY <2>1, ServedAlive DEF UploadPlaces
  <2>3. /\ \/ disk = "complete" /\ staged = "none" /\ req[r].pc = "stage_files"
           \/ req[r].pc = "delete_rows" /\ req[r].error /\ disk = "none" /\ staged = "complete"
           \/ req[r].pc = "delete_files" /\ disk = "none" /\ staged = "complete"
    BY <1>1, <2>1, <2>2 DEF Accounts, Knows, FilesOf
  <2>4. CASE StageFiles(r)
    <3>1. /\ To(r, [req[r] EXCEPT !.pc = "delete_rows", !.error = TRUE])
          /\ disk' = "none" /\ staged' = "complete"
      BY <2>3, <2>4 DEF StageFiles, At
    <3>. QED
      BY <1>1, <2>1, <2>2, <3>1, FileAccounts DEF UploadPlaces
  <2>5. CASE DeleteRows(r)
    <3>1. Goto(r, "delete_files") /\ disk' = "none" /\ staged' = "complete"
      BY <2>3, <2>5 DEF DeleteRows, At
    <3>2. To(r, [req[r] EXCEPT !.pc = "delete_files", !.error = req[r].error])
      BY <1>3, <3>1
    <3>. QED
      BY <1>1, <2>1, <2>2, <3>1, <3>2, FileAccounts DEF UploadPlaces
  <2>6. CASE DeletionFails(r)
    <3>1. At(r, "delete_rows") /\ disk' = staged /\ staged' = "none" /\ End(r)
      BY <2>3, <2>6 DEF DeletionFails, Fault, Undisturbed, At
    <3>2. disk' = "complete" /\ To(r, [req[r] EXCEPT !.pc = "done", !.error = req[r].error])
      BY <1>3, <2>3, <3>1 DEF End, At
    <3>. QED
      BY <1>1, <2>1, <2>2, <3>1, <3>2, FileAccounts DEF UploadPlaces
  <2>7. CASE DeleteFiles(r)
    <3>1. Goto(r, "commit_delete") /\ disk' = "none" /\ staged' = "none"
      BY <2>3, <2>7 DEF DeleteFiles, At
    <3>2. To(r, [req[r] EXCEPT !.pc = "commit_delete", !.error = req[r].error])
      BY <1>3, <3>1
    <3>. QED
      BY <1>1, <2>1, <2>2, <3>1, <3>2, FileAccounts DEF UploadPlaces
  <2>. QED
    BY <1>5, <2>4, <2>5, <2>6, <2>7
<1>. QED
  BY <1>4, <1>5

(* The project's row is written, and with it all the others deleted.       *)
LEMMA RecordAccounts ==
    ASSUME NEW r \in Requests, Turn(r), RecordProject(r) \/ CommitDelete(r)
    PROVE  Accounting(r)
<1>1. /\ req[r] \in Request /\ Accounts(req[r]) /\ Fits(req[r]) /\ Uploads(req[r])
  BY Turning
<1>2. PICK pc \in {"state", "done"} : Goto(r, pc) /\ (RecordProject(r) <=> pc = "state")
  BY DEF RecordProject, CommitDelete, End, At
<1>3. pc \in Pc
  BY DEF Pc
<1>4. PICK next \in Request : To(r, next) /\ Likes(req[r], next) /\ next.pc = pc
  BY <1>2, <1>3, GoingTo
<1>5. /\ deps' = <<>> /\ scans' = <<>> /\ order' = <<>> /\ runtimes' = <<>>
      /\ rows' = [d \in 1..MaxRuns |-> NoRow] /\ staged' = "none" /\ cachedRun' = cachedRun
      /\ IF pc = "state" THEN project' = "uploaded" /\ disk' = "complete" /\ next.cu = 0
                              /\ cachedRun = 0
                         ELSE project' = "deleted" /\ disk' = "none"
  <2>1. CASE RecordProject(r)
    <3>1. req[r].pc = "record" /\ project = "absent" /\ ~Alive /\ pc = "state"
      BY <1>1, <1>2, <2>1 DEF RecordProject, At, Fits, Uploads, UploadPlaces, Alive
    <3>2. /\ deps = <<>> /\ scans = <<>> /\ order = <<>> /\ runtimes = <<>> /\ staged = "none"
          /\ rows = [d \in 1..MaxRuns |-> NoRow]
      BY <3>1 DEF Turn, ProjectInv, UploadInv
    <3>3. disk = "complete" /\ cachedRun = 0 /\ req[r].cu = 0
      BY <1>1, <3>1 DEF Accounts, Knows, CacheOf, Uploads, Unused
    <3>. QED
      BY <1>4, <2>1, <3>1, <3>2, <3>3 DEF RecordProject, Disks, Likes
  <2>2. CASE CommitDelete(r)
    <3>1. req[r].pc = "commit_delete" /\ Alive /\ disk = "none" /\ pc = "done"
      BY <1>1, <1>2, <2>2, ServedAlive DEF CommitDelete, At, Accounts, Knows, UploadPlaces,
         RecordProject
    <3>2. staged = "none"
      BY <1>1, <3>1 DEF Accounts, FilesOf
    <3>. QED
      BY <2>2, <3>1, <3>2 DEF CommitDelete
  <2>. QED
    BY <2>1, <2>2
<1>6. NoRow.status = "absent"
  BY DEF NoRow
<1>7. Knows(next)'
  BY <1>4, <1>5 DEF Knows, Alive, UploadPlaces, DiscoveryPlaces, Admitted, PipelinePlaces
<1>8. RunsOf(next)' /\ RowsSound'
  BY <1>5, <1>6 DEF RunsOf, RowsSound, AtValidation, Unfinished
<1>9. StatusOf(next)' /\ FilesOf(next)' /\ CacheOf(next)'
  BY <1>4, <1>5 DEF StatusOf, FilesOf, CacheOf, Alive, Latest
<1>. QED
  BY <1>4, <1>7, <1>8, <1>9 DEF Accounts, Accounting, Likes

-----------------------------------------------------------------------------
(* The runs of Runtime Validation.                                         *)

\* A validation is created, marked running, completed or failed.
LEMMA JudgingAccounts ==
    ASSUME NEW r \in Requests, Turn(r), Alive, NEW next \in Request, To(r, next),
           next.op = req[r].op, next.cu \in DOMAIN deps, deps[next.cu] = "completed",
           req[r].op = "retry" => next.cu = req[r].cu,
           UNCHANGED <<project, deps, scans, rows, order, cachedRun>>, UNCHANGED Disks,
           NEW k, next.run = k, NEW status,
           k \in DOMAIN runtimes' => runtimes'[k].status = status,
           \A l \in DOMAIN runtimes' : l # k =>
              l \in DOMAIN runtimes /\ runtimes'[l].status = runtimes[l].status,
           req[r].pc = "validate" \/ (req[r].pc \in JudgingPlaces /\ req[r].run = k),
           next.pc \in JudgingPlaces
             \/ (next.pc \in {"done", "retried", "fail_source"} /\ status \notin Unfinished),
           next.pc = "done" => req[r].op # "retry", next.pc # "validate"
    PROVE  Accounting(r)
<1>1. /\ project' = project /\ disk' = disk /\ staged' = staged /\ deps' = deps
      /\ scans' = scans /\ rows' = rows /\ order' = order /\ cachedRun' = cachedRun
      /\ Accounts(req[r])
  BY Turning DEF Disks
<1>2. Alive' /\ LastCompleted' = LastCompleted
  BY <1>1 DEF Alive, LastCompleted, CompletedDeps
<1>3. Retrying' <=> Retrying
  BY Turning, OpsStay
<1>4. Knows(next)'
  BY <1>1, <1>2 DEF Knows, UploadPlaces, DiscoveryPlaces, Admitted, PipelinePlaces,
     JudgingPlaces, ValidationPlaces
<1>5. RunsOf(next)'
  <2>1. \A d \in DOMAIN deps : deps[d] \notin Unfinished
    BY <1>1 DEF Accounts, RunsOf, JudgingPlaces, ValidationPlaces
  <2>2. \A i \in DOMAIN scans : scans[i] # "pending"
    BY <1>1 DEF Accounts, RunsOf
  <2>3. ASSUME NEW d \in 1..MaxRuns, rows[d].status \in Unfinished PROVE HoldsRow(next, d)
    <3>1. HoldsRow(req[r], d)
      BY <1>1, <2>3 DEF Accounts, RunsOf
    <3>2. req[r].op = "retry"
      BY <3>1 DEF HoldsRow, HoldingPlaces, PipelinePlaces, JudgingPlaces, ValidationPlaces
    <3>3. next.pc \in HoldingPlaces \cup ValidationPlaces
      BY <3>2 DEF HoldingPlaces, JudgingPlaces, ValidationPlaces
    <3>. QED
      BY <3>1, <3>2, <3>3 DEF HoldsRow
  <2>4. ASSUME NEW l \in DOMAIN runtimes', runtimes'[l].status \in Unfinished
        PROVE  next.pc \in JudgingPlaces /\ next.run = l
    <3>1. l = k
      BY <1>1, <2>4 DEF Accounts, RunsOf, JudgingPlaces, ValidationPlaces
    <3>. QED
      BY <2>4, <3>1
  <2>5. \A d : HoldsRow(next, d)' <=> HoldsRow(next, d)
    BY DEF HoldsRow
  <2>. QED
    BY <1>1, <2>1, <2>2, <2>3, <2>4, <2>5 DEF RunsOf
<1>6. StatusOf(next)' /\ FilesOf(next)'
  BY <1>1, <1>2 DEF Accounts, StatusOf, FilesOf, Latest, JudgingPlaces, ValidationPlaces
<1>7. RowsSound' /\ CacheOf(next)'
  BY <1>1, <1>2, <1>3 DEF Accounts, RowsSound, CacheOf
<1>. QED
  BY <1>4, <1>5, <1>6, <1>7 DEF Accounts, Accounting

LEMMA ValidationAccounts ==
    ASSUME NEW r \in Requests, Turn(r), StartValidation(r)
    PROVE  Accounting(r)
<1>1. /\ req[r] \in Request /\ Accounts(req[r]) /\ Fits(req[r]) /\ TypeOK /\ Alive
      /\ req[r].pc = "validate"
      /\ UNCHANGED <<project, deps, scans, rows, order, cachedRun>> /\ UNCHANGED Disks
      /\ Len(runtimes) \in Nat /\ DOMAIN runtimes = 1..Len(runtimes)
  BY Turning, LenProperties DEF StartValidation, At, CanCommit, TypeOK
<1>2. PICK d \in Validated(r) :
        /\ To(r, [req[r] EXCEPT !.pc = "created", !.cu = d, !.row = SeenRow(r, d),
                                !.run = Len(runtimes) + 1])
        /\ runtimes' = Append(runtimes, [source |-> d, status |-> "pending"])
  BY DEF StartValidation
<1>3. d \in DOMAIN deps /\ deps[d] = "completed" /\ (req[r].op = "retry" => d = req[r].cu)
  <2>1. CASE req[r].op = "retry"
    <3>1. d = req[r].cu /\ d # 0
      BY <1>1, <1>2, <2>1 DEF Validated, Fits
    <3>. QED
      BY <1>1, <3>1 DEF Accounts, Knows
  <2>2. CASE req[r].op # "retry"
    BY <1>1, <1>2, <2>2 DEF Validated, Accounts, RowsSound
  <2>. QED
    BY <2>1, <2>2
<1>4. d \in 1..MaxRuns
  <2>1. DOMAIN deps = 1..Len(deps) /\ Len(deps) \in Nat /\ Len(deps) <= MaxRuns
    BY <1>1, LenProperties DEF TypeOK, Turn, ProjectInv, TypeInv
  <2>. QED
    BY <1>3, <2>1, ProjectAssumption
<1>5. PICK row \in Row, n \in Nat : row = SeenRow(r, d) /\ n = Len(runtimes) + 1
  BY <1>1, <1>4 DEF SeenRow, TypeOK, Request
<1>6. PICK next : next = [req[r] EXCEPT !.pc = "created", !.cu = d, !.row = row, !.run = n]
  OBVIOUS
<1>7. "created" \in Pc /\ d \in Runs
  BY <1>4, ProjectAssumption DEF Pc, Runs
<1>8. /\ next \in Request /\ next.pc = "created" /\ next.cu = d /\ next.run = n
      /\ next.op = req[r].op
  BY <1>1, <1>5, <1>6, <1>7 DEF Request
<1>9. /\ DOMAIN runtimes' = 1..n /\ runtimes'[n].status = "pending"
      /\ \A l \in 1..Len(runtimes) : runtimes'[l] = runtimes[l]
  <2>1. [source |-> d, status |-> "pending"] \in [source : 1..MaxRuns, status : RunStatus]
    BY <1>4 DEF RunStatus
  <2>2. /\ runtimes \in Seq([source : 1..MaxRuns, status : RunStatus])
        /\ runtimes'[n] = [source |-> d, status |-> "pending"]
        /\ DOMAIN runtimes' = 1..n
        /\ \A l \in 1..Len(runtimes) : runtimes'[l] = runtimes[l]
    BY <1>1, <1>2, <1>5, <2>1, AppendProperties DEF TypeOK
  <2>. QED
    BY <2>2
<1>10. \A l \in DOMAIN runtimes' : l # n =>
         l \in DOMAIN runtimes /\ runtimes'[l].status = runtimes[l].status
  BY <1>1, <1>5, <1>9
<1>11. To(r, next)
  BY <1>2, <1>5, <1>6
<1>12. "created" \in JudgingPlaces
  BY DEF JudgingPlaces, ValidationPlaces
<1>. QED
  BY <1>1, <1>3, <1>8, <1>9, <1>10, <1>11, <1>12, JudgingAccounts

LEMMA RuntimesAccount ==
    ASSUME NEW r \in Requests, Turn(r),
           MarkRuntimeRunning(r) \/ CompleteRuntime(r) \/ FailRuntime(r)
    PROVE  Accounting(r)
<1>1. /\ req[r] \in Request /\ Accounts(req[r]) /\ TypeOK /\ Alive
      /\ UNCHANGED <<project, deps, scans, rows, order, cachedRun>> /\ UNCHANGED Disks
  BY Turning DEF MarkRuntimeRunning, CompleteRuntime, FailRuntime, SetRuntime, CanCommit
<1>2. PICK pc \in {"targets", "retried", "done", "fail_source"},
           status \in {"running", "completed", "failed"} :
        /\ Goto(r, pc) /\ runtimes' = [runtimes EXCEPT ![req[r].run].status = status]
        /\ req[r].pc \in {"created", "outcome", "fail_runtime"}
        /\ pc = "targets" \/ status \notin Unfinished
        /\ pc = "done" => req[r].op # "retry"
  BY DEF MarkRuntimeRunning, CompleteRuntime, FailRuntime, SetRuntime, At, Unfinished
<1>3. pc \in Pc
  BY DEF Pc
<1>4. PICK next \in Request : To(r, next) /\ Likes(req[r], next) /\ next.pc = pc
  BY <1>2, <1>3, GoingTo
<1>5. req[r].pc \in JudgingPlaces /\ req[r].pc \in RowPlaces /\ "targets" \in JudgingPlaces
  BY <1>2 DEF JudgingPlaces, RowPlaces, ValidationPlaces
<1>6. req[r].cu \in DOMAIN deps /\ deps[req[r].cu] = "completed"
  BY <1>5, HeldRow
<1>7. PICK k : k = req[r].run
  OBVIOUS
<1>8. /\ DOMAIN runtimes' = DOMAIN runtimes
      /\ k \in DOMAIN runtimes => runtimes'[k].status = status
      /\ \A l \in DOMAIN runtimes : l # k => runtimes'[l].status = runtimes[l].status
  <2>. DEFINE R == [source : 1..MaxRuns, status : RunStatus]
  <2>1. runtimes \in Seq(R)
    BY <1>1 DEF TypeOK
  <2>2. runtimes \in [1..Len(runtimes) -> R]
    BY <2>1, LenProperties
  <2>3. DOMAIN runtimes' = DOMAIN runtimes
    BY <1>2
  <2>4. \A l \in DOMAIN runtimes : l # k => runtimes'[l] = runtimes[l]
    BY <1>2, <1>7
  <2>5. k \in DOMAIN runtimes => runtimes'[k].status = status
    BY <1>2, <1>7, <2>2
  <2>. QED
    BY <2>3, <2>4, <2>5
<1>9. /\ next.op = req[r].op /\ next.cu = req[r].cu /\ next.run = k
  BY <1>4, <1>7 DEF Likes
<1>. QED
  BY <1>1, <1>2, <1>4, <1>5, <1>6, <1>7, <1>8, <1>9, JudgingAccounts

-----------------------------------------------------------------------------
(* The accounts are kept.                                                  *)

\* A step does not end an earlier disturbance.
LEMMA StepFaults ==
    ASSUME ProjectInv, NEW r \in Requests, Step(r)
    PROVE  happened \subseteq happened'
<1>1. Noticed(r) /\ TypeOK
  BY DEF Step, Noticed, ProjectInv, TypeInv
<1>2. CASE \/ Begin(r) \/ CommitAfterDeletion(r) \/ Refuse(r) \/ RefuseValidation(r)
           \/ DiscoverFiles(r) \/ SkipStage(r) \/ SelectTargets(r) \/ UseExisting(r)
           \/ PollAnswered(r)
  BY <1>1, <1>2, BeginMoves, PlaceMoves DEF Faults
<1>3. CASE \/ ContinueStageTwo(r) \/ ContinueStageThree(r) \/ ContinueStageFour(r) \/ Resume(r)
           \/ Join(r) \/ ScanAfterDeletion(r) \/ AdmitNothing(r) \/ LoadRetried(r)
           \/ ResolveSources(r) \/ FindPort(r)
  BY <1>1, <1>3, GateMoves, TakeMoves DEF Faults
<1>4. CASE \/ CreateDirectory(r) \/ Extract(r) \/ UploadFails(r) \/ StageFiles(r) \/ DeleteRows(r)
           \/ DeletionFails(r) \/ DeleteFiles(r) \/ MarkProcessing(r) \/ MarkReady(r)
           \/ MarkFailed(r) \/ DiscoveryCommitFails(r)
  BY <1>1, <1>4, FileMoves, CommitFailMoves DEF Faults
<1>5. CASE \/ MarkCreatedRunning(r) \/ PrepareRetried(r) \/ RunStage(r) \/ StageFails(r)
           \/ PrepareGeneration(r) \/ RestoreUnderstanding(r) \/ GenerateTestCases(r)
           \/ FailSource(r) \/ CompleteRetried(r) \/ CompletePipeline(r)
  BY <1>1, <1>5, HandSteps, CompleteCommits DEF Faults
<1>6. CASE Relock(r) \/ AdmitCreate(r) \/ AdmitAgain(r) \/ ForceRerun(r)
  BY <1>1, <1>6, RelockSteps, AdmitSteps DEF Faults
<1>7. CASE RecordProject(r) \/ CommitDelete(r)
  BY <1>7 DEF RecordProject, CommitDelete, Works
<1>8. CASE CreateDependencyRun(r) \/ CompleteDependencyRun(r) \/ FailDependencyRun(r)
  BY <1>1, <1>8, DiscoverySteps DEF Faults
<1>9. CASE StartScan(r) \/ FinishScan(r)
  BY <1>1, <1>9, ScanSteps DEF Faults
<1>10. CASE \/ StartValidation(r) \/ MarkRuntimeRunning(r) \/ CompleteRuntime(r) \/ FailRuntime(r)
  BY <1>1, <1>10, StartJudges, SetJudges DEF Faults
<1>11. CASE PrepareFolder(r) \/ Launch(r) \/ PollFails(r) \/ Execute(r)
  BY <1>1, <1>11, ServeSteps DEF Faults
<1>. QED
  BY <1>2, <1>3, <1>4, <1>5, <1>6, <1>7, <1>8, <1>9, <1>10, <1>11 DEF Step

\* A request that has ended takes no step; one that has not begun begins.
LEMMA StepsFrom ==
    ASSUME ProjectInv, NEW r \in Requests, Step(r)
    PROVE  req[r].pc # "done" /\ (req[r].pc = "ready" => Begin(r))
<1>1. Fits(req[r])
  BY DEF ProjectInv, Suits
<1>2. CASE StartScan(r) \/ FinishScan(r) \/ ScanAfterDeletion(r)
  BY <1>1, <1>2 DEF StartScan, FinishScan, ScanAfterDeletion, Fits, StageTwoPlaces,
     DiscoveryPlaces
<1>3. CASE ~(StartScan(r) \/ FinishScan(r) \/ ScanAfterDeletion(r))
  <2>1. CASE \/ Begin(r) \/ CommitAfterDeletion(r)
             \/ CreateDirectory(r) \/ Extract(r) \/ UploadFails(r) \/ RecordProject(r)
             \/ StageFiles(r) \/ DeleteRows(r) \/ DeletionFails(r) \/ DeleteFiles(r)
             \/ CommitDelete(r)
    BY <2>1 DEF At, Begin, CommitAfterDeletion, Committing, CreateDirectory, Extract,
       UploadFails, RecordProject, StageFiles, DeleteRows, DeletionFails, DeleteFiles,
       CommitDelete
  <2>2. CASE \/ ContinueStageTwo(r) \/ ContinueStageThree(r) \/ ContinueStageFour(r)
             \/ Refuse(r) \/ Resume(r)
             \/ CreateDependencyRun(r) \/ MarkProcessing(r) \/ DiscoverFiles(r)
             \/ CompleteDependencyRun(r) \/ MarkReady(r) \/ DiscoveryCommitFails(r)
             \/ FailDependencyRun(r) \/ MarkFailed(r) \/ Join(r)
    BY <2>2 DEF At, ContinuesFrom, ContinueStageTwo, ContinueStageThree, ContinueStageFour,
       Refuse, Resume, CreateDependencyRun, MarkProcessing, DiscoverFiles,
       CompleteDependencyRun, MarkReady, DiscoveryCommitFails, FailDependencyRun, MarkFailed,
       Join, SetProject, SetDependencyRun
  <2>3. CASE \/ AdmitNothing(r) \/ AdmitCreate(r) \/ MarkCreatedRunning(r) \/ AdmitAgain(r)
             \/ ForceRerun(r) \/ LoadRetried(r) \/ PrepareRetried(r) \/ Relock(r)
             \/ ResolveSources(r) \/ SkipStage(r) \/ RunStage(r) \/ CompletePipeline(r)
             \/ StageFails(r)
             \/ PrepareGeneration(r) \/ RestoreUnderstanding(r) \/ GenerateTestCases(r)
    BY <2>3 DEF At, AdmitNothing, AdmitCreate, MarkCreatedRunning, AdmitAgain, ForceRerun,
       LoadRetried, PrepareRetried, Relock, ResolveSources, SkipStage, RunStage,
       CompletePipeline, StageFails, PrepareGeneration, RestoreUnderstanding, GenerateTestCases
  <2>4. CASE \/ StartValidation(r) \/ RefuseValidation(r) \/ MarkRuntimeRunning(r)
             \/ SelectTargets(r) \/ CompleteRuntime(r) \/ FailRuntime(r) \/ FailSource(r)
             \/ CompleteRetried(r)
             \/ FindPort(r) \/ UseExisting(r) \/ PrepareFolder(r) \/ Launch(r)
             \/ PollAnswered(r) \/ PollFails(r) \/ Execute(r)
    BY <2>4 DEF At, StartValidation, RefuseValidation, MarkRuntimeRunning, SelectTargets,
       CompleteRuntime, FailRuntime, FailSource, CompleteRetried, FindPort, UseExisting,
       PrepareFolder, Launch, PollAnswered, PollFails, Execute, SetRuntime
  <2>. QED
    BY <1>3, <2>1, <2>2, <2>3, <2>4 DEF Step
<1>. QED
  BY <1>2, <1>3

(* A request steps when no other is served.                                *)
LEMMA TakesTurn ==
    ASSUME ProjectInv, SettledInv, NEW r \in Requests, Step(r), Undisturbed'
    PROVE  Turn(r)
<1>1. /\ Alone /\ \A q \in Requests \ {r} : ~Active(q)
  BY DEF Undisturbed, Alone, Step
<1>2. Undisturbed
  BY <1>1, StepFaults DEF Undisturbed
<1>3. /\ OpsApart /\ (Idle => Accounts(NewRequest("none")))
      /\ Active(r) => Accounts(req[r])
  BY <1>2 DEF SettledInv
<1>4. CASE Active(r)
  BY <1>2, <1>3, <1>4 DEF Turn
<1>5. CASE ~Active(r)
  <2>1. req[r].pc = "ready" /\ Suits(r, req[r])
    BY <1>5, StepsFrom DEF Active, ProjectInv
  <2>2. /\ req[r].cu = 0 /\ (req[r].op = "upload" => ~Alive)
    BY <2>1, ReadyFits DEF Suits, Uploads, Alive
  <2>3. Accounts(NewRequest("none"))
    BY <1>1, <1>3, <1>5 DEF Idle
  <2>4. NewRequest("none").pc = "done"
    BY DEF NewRequest
  <2>5. Knows(req[r])
    BY <2>1, <2>2 DEF Knows, UploadPlaces, DiscoveryPlaces, Admitted, PipelinePlaces
  <2>6. RunsOf(req[r])
    BY <2>3, <2>4 DEF Accounts, RunsOf, HoldsRow, HoldingPlaces, PipelinePlaces, ValidationPlaces,
       JudgingPlaces, NewRequest
  <2>7. StatusOf(req[r]) /\ FilesOf(req[r])
    BY <2>3, <2>4 DEF Accounts, StatusOf, FilesOf
  <2>8. RowsSound /\ CacheOf(req[r])
    BY <2>2, <2>3 DEF Accounts, CacheOf
  <2>. QED
    BY <1>2, <1>3, <2>5, <2>6, <2>7, <2>8 DEF Turn, Accounts
<1>. QED
  BY <1>4, <1>5

(* Every step of a request leaves its accounts in order.                   *)
LEMMA StepAccounts ==
    ASSUME NEW r \in Requests, Turn(r), Step(r), Undisturbed'
    PROVE  Accounting(r)
<1>1. CASE \/ Begin(r) \/ CommitAfterDeletion(r) \/ ScanAfterDeletion(r) \/ Refuse(r)
           \/ ContinueStageTwo(r) \/ ContinueStageThree(r) \/ ContinueStageFour(r) \/ Resume(r)
           \/ Join(r)
  BY <1>1, BeginAccounts, NoDeletion, GateAccounts, JoinAccounts
<1>2. CASE \/ CreateDirectory(r) \/ Extract(r) \/ UploadFails(r) \/ RecordProject(r)
           \/ StageFiles(r) \/ DeleteRows(r) \/ DeletionFails(r) \/ DeleteFiles(r)
           \/ CommitDelete(r)
  BY <1>2, FilesAccount, RecordAccounts
<1>3. CASE \/ CreateDependencyRun(r) \/ MarkProcessing(r) \/ CompleteDependencyRun(r)
           \/ MarkReady(r) \/ FailDependencyRun(r) \/ MarkFailed(r) \/ StartScan(r)
           \/ FinishScan(r)
  BY <1>3, DiscoveriesAccount, ProjectAccounts, ScanningAccounts
<1>4. CASE \/ DiscoverFiles(r) \/ DiscoveryCommitFails(r) \/ SkipStage(r) \/ SelectTargets(r)
           \/ UseExisting(r) \/ PollAnswered(r) \/ PrepareFolder(r) \/ Launch(r)
           \/ PollFails(r) \/ Execute(r) \/ FindPort(r)
  BY <1>4, WithinSteps, PortAccounts
<1>5. CASE \/ AdmitNothing(r) \/ AdmitCreate(r) \/ AdmitAgain(r) \/ ForceRerun(r)
           \/ LoadRetried(r) \/ Relock(r) \/ ResolveSources(r)
  BY <1>5, AdmitNothingAccounts, AdmitAccounts, LoadRetriedAccounts, RelockAccounts,
     ResolveAccounts
<1>6. CASE \/ MarkCreatedRunning(r) \/ PrepareRetried(r) \/ StageFails(r)
           \/ RestoreUnderstanding(r) \/ GenerateTestCases(r) \/ FailSource(r)
           \/ CompleteRetried(r) \/ RunStage(r) \/ PrepareGeneration(r) \/ CompletePipeline(r)
  BY <1>6, HandStepsAccount, StagesAccount, CompleteAccounts
<1>7. CASE \/ StartValidation(r) \/ RefuseValidation(r) \/ MarkRuntimeRunning(r)
           \/ CompleteRuntime(r) \/ FailRuntime(r)
  BY <1>7, ValidationAccounts, RefuseAccounts, RuntimesAccount
<1>. QED
  BY <1>1, <1>2, <1>3, <1>4, <1>5, <1>6, <1>7 DEF Step

LEMMA StepSettles ==
    ASSUME ProjectInv, SettledInv, NEW r \in Requests, Step(r)
    PROVE  SettledInv'
<1>. SUFFICES ASSUME Undisturbed'
              PROVE  /\ OpsApart'
                     /\ Idle' => Accounts(NewRequest("none"))'
                     /\ \A q \in Requests : Active(q)' => Accounts(req[q])'
  BY DEF SettledInv
<1>1. Turn(r) /\ Noticed(r) /\ TypeOK /\ Alone'
  BY TakesTurn DEF Step, Noticed, Undisturbed, ProjectInv, TypeInv
<1>2. PICK next \in Request : To(r, next) /\ next.op = req[r].op /\ Accounts(next)'
  BY <1>1, StepAccounts DEF Accounting
<1>3. /\ req'[r] = next /\ \A q \in Requests \ {r} : req'[q] = req[q] /\ ~Active(q)
  BY <1>1, <1>2, Stepping
<1>4. OpsApart'
  BY <1>1, <1>2, OpsStay DEF Turn
<1>5. ASSUME Idle' PROVE Accounts(NewRequest("none"))'
  <2>1. next.pc \in {"ready", "done"}
    BY <1>3, <1>5 DEF Idle, Active
  <2>2. NewRequest("none").pc = "done" /\ NewRequest("none").op = "none"
    BY DEF NewRequest
  <2>3. Knows(NewRequest("none"))'
    BY <2>2 DEF Knows, UploadPlaces, DiscoveryPlaces, Admitted, PipelinePlaces
  <2>4. RunsOf(NewRequest("none"))'
    BY <1>2, <2>1 DEF Accounts, RunsOf, HoldsRow, HoldingPlaces, PipelinePlaces,
       ValidationPlaces, JudgingPlaces
  <2>5. StatusOf(NewRequest("none"))' /\ FilesOf(NewRequest("none"))'
    BY <1>2, <2>1 DEF Accounts, StatusOf, FilesOf
  <2>6. RowsSound' /\ CacheOf(NewRequest("none"))'
    BY <1>2, <2>2 DEF Accounts, CacheOf
  <2>. QED
    BY <2>3, <2>4, <2>5, <2>6 DEF Accounts
<1>6. ASSUME NEW q \in Requests, Active(q)' PROVE Accounts(req[q])'
  <2>1. q = r
    BY <1>3, <1>6 DEF Active
  <2>. QED
    BY <1>2, <1>3, <2>1
<1>. QED
  BY <1>4, <1>5, <1>6

\* A step of no request writes nothing the accounts are about.
LEMMA ApartSettles ==
    ASSUME SettledInv, UNCHANGED Tables, UNCHANGED <<req, happened, overlapped>>
    PROVE  SettledInv'
<1>1. /\ project' = project /\ disk' = disk /\ staged' = staged /\ deps' = deps /\ scans' = scans
      /\ rows' = rows /\ order' = order /\ runtimes' = runtimes /\ cachedRun' = cachedRun
      /\ req' = req /\ happened' = happened /\ overlapped' = overlapped
  BY DEF Tables
<1>2. /\ Undisturbed' <=> Undisturbed
      /\ OpsApart' <=> OpsApart
      /\ Idle' <=> Idle
      /\ Retrying' <=> Retrying
      /\ Alive' <=> Alive
      /\ \A r \in Requests : Active(r)' <=> Active(r)
  BY <1>1 DEF Undisturbed, Alone, OpsApart, Idle, Active, Retrying, Alive
<1>3. LastCompleted' = LastCompleted
  BY <1>1 DEF LastCompleted, CompletedDeps
<1>4. ASSUME NEW q, Accounts(q) PROVE Accounts(q)'
  <2>1. Knows(q)'
    BY <1>1, <1>2, <1>3, <1>4 DEF Accounts, Knows, Latest
  <2>2. RunsOf(q)' /\ StatusOf(q)' /\ FilesOf(q)'
    BY <1>1, <1>2, <1>4 DEF Accounts, RunsOf, StatusOf, FilesOf, Latest
  <2>3. RowsSound' /\ CacheOf(q)'
    BY <1>1, <1>2, <1>3, <1>4 DEF Accounts, RowsSound, CacheOf
  <2>. QED
    BY <2>1, <2>2, <2>3 DEF Accounts
<1>5. Accounts(NewRequest("none")) => Accounts(NewRequest("none"))'
  BY <1>4
<1>6. ASSUME NEW r \in Requests, Accounts(req[r]) PROVE Accounts(req[r])'
  <2>1. PICK q : q = req[r]
    OBVIOUS
  <2>2. Accounts(q)' /\ req'[r] = q
    BY <1>1, <1>4, <1>6, <2>1
  <2>. QED
    BY <2>2
<1>. QED
  BY <1>2, <1>5, <1>6 DEF SettledInv

(* What earlier requests have stored is finished.                          *)
LEMMA StoredSettled ==
    ASSUME NEW known \in {"nothing", "uploaded", "understood", "generated", "unvalidated"}
    PROVE  /\ Stored(known).row.status \notin Unfinished
           /\ AtValidation(Stored(known).row) => Testable(Stored(known).row)
<1>1. Understood \in Row /\ Generated \in Row
  BY StoredRows
<1>2. /\ Understood.status = "completed" /\ NoRow.status = "absent"
  BY DEF Understood, NoRow
<1>3. Generated.status = "completed" /\ Testable(Generated)
  BY <1>1, <1>2, Becoming DEF Generated
<1>4. PICK row : row = FailRun(Generated, "runtime_validation")
  OBVIOUS
<1>5. row.status = "failed" /\ Testable(row)
  <2>1. row.status = "failed" /\ row.result = Generated.result
    BY <1>1, <1>4 DEF FailRun, Row
  <2>. QED
    BY <1>3, <2>1 DEF Testable
<1>6. Stored(known).row \in {NoRow, Understood, Generated, row}
  BY <1>4 DEF Stored
<1>. QED
  BY <1>2, <1>3, <1>5, <1>6 DEF AtValidation, Unfinished

LEMMA InitSettles ==
    ASSUME RetriesApart, Init
    PROVE  SettledInv
<1>1. ProjectInv /\ TypeOK
  BY InitHolds DEF ProjectInv, TypeInv
<1>2. PICK mix \in Mixes :
        LET stored == Stored(mix.known) IN
        /\ project = stored.project
        /\ disk = IF project = "absent" THEN "none" ELSE "complete"
        /\ staged = "none" /\ deps = stored.runs /\ scans = stored.runs
        /\ rows = [d \in 1..MaxRuns |-> IF d = 1 THEN stored.row ELSE NoRow]
        /\ order = IF stored.row.status = "absent" THEN <<>> ELSE <<1>>
        /\ runtimes = stored.runtimes
        /\ cachedRun = Len(order)
        /\ req = [r \in Requests |-> NewRequest(mix.ops[r])]
  BY DEF Init
<1>3. mix.known \in {"nothing", "uploaded", "understood", "generated", "unvalidated"}
  BY ProjectAssumption
<1>4. PICK row : row = Stored(mix.known).row
  OBVIOUS
<1>5. row.status \notin Unfinished /\ (AtValidation(row) => Testable(row))
  BY <1>3, <1>4, StoredSettled
<1>6. /\ project \in {"absent", "uploaded", "ready"}
      /\ \/ /\ row = NoRow /\ deps = <<>> /\ scans = <<>> /\ order = <<>> /\ runtimes = <<>>
         \/ /\ project = "ready" /\ deps = <<"completed">> /\ scans = <<"completed">>
            /\ order = <<1>>
            /\ runtimes = <<>> \/ runtimes = <<[source |-> 1, status |-> "failed"]>>
  <2>1. NoRow.status = "absent"
    BY DEF NoRow
  <2>. QED
    BY <1>2, <1>3, <1>4, <2>1, StoredTyped
<1>7. \A r \in Requests : req[r].op = mix.ops[r] /\ ~Active(r)
  BY <1>2 DEF NewRequest, Active
<1>8. OpsApart
  BY <1>7 DEF OpsApart, RetriesApart
<1>9. NewRequest("none").pc = "done" /\ NewRequest("none").op = "none" /\ NoRow.status = "absent"
  BY DEF NewRequest, NoRow
<1>10. /\ Latest(deps) \in {"none", "completed"}
       /\ Latest(deps) = "completed" => project = "ready"
       /\ \A d \in DOMAIN deps : deps[d] = "completed"
       /\ \A i \in DOMAIN scans : scans[i] = "completed"
       /\ \A k \in DOMAIN runtimes : runtimes[k].status = "failed"
  BY <1>6 DEF Latest
<1>11. \A d \in 1..MaxRuns : rows[d] = IF d = 1 THEN row ELSE NoRow
  BY <1>2, <1>4
<1>12. Knows(NewRequest("none"))
  BY <1>9 DEF Knows, UploadPlaces, DiscoveryPlaces, Admitted, PipelinePlaces
<1>13. RunsOf(NewRequest("none"))
  BY <1>5, <1>9, <1>10, <1>11 DEF RunsOf, Unfinished
<1>14. StatusOf(NewRequest("none")) /\ FilesOf(NewRequest("none"))
  BY <1>2, <1>6, <1>10 DEF StatusOf, FilesOf, Alive
<1>15. RowsSound
  <2>1. row.status # "absent" \/ order # <<>> => deps = <<"completed">> /\ order = <<1>>
    BY <1>6, <1>9
  <2>2. \A d \in 1..MaxRuns : AtValidation(rows[d]) => Testable(rows[d])
    BY <1>5, <1>9, <1>11 DEF AtValidation
  <2>3. \A d \in 1..MaxRuns : rows[d].status # "absent" => d \in DOMAIN deps
    BY <1>9, <1>11, <2>1
  <2>4. \A i \in DOMAIN order : order[i] \in DOMAIN deps
    BY <1>6
  <2>. QED
    BY <1>10, <2>2, <2>3, <2>4 DEF RowsSound
<1>16. CacheOf(NewRequest("none"))
  <2>1. CASE order = <<>>
    BY <1>2, <2>1 DEF CacheOf
  <2>2. CASE order = <<1>> /\ deps = <<"completed">> /\ project = "ready"
    <3>1. Latest(deps) = "completed" /\ Len(deps) = 1 /\ Len(order) = 1
      BY <2>2 DEF Latest
    <3>2. LastCompleted = 1 /\ cachedRun = 1
      BY <1>1, <1>2, <3>1, LastOne
    <3>. QED
      BY <2>2, <3>2 DEF CacheOf
  <2>. QED
    BY <1>6, <2>1, <2>2
<1>. QED
  BY <1>7, <1>8, <1>12, <1>13, <1>14, <1>15, <1>16 DEF SettledInv, Accounts

(* Once no request is served, the accounts of none say what is settled.    *)
LEMMA Settling == ProjectInv /\ SettledInv => Settled
<1>. SUFFICES ASSUME ProjectInv, SettledInv, Idle, Alone, happened \subseteq {"work", "commit"}
              PROVE  /\ Latest(deps) \notin Unfinished /\ Latest(scans) \notin Unfinished
                     /\ \A d \in 1..MaxRuns : rows[d].status \notin Unfinished
                     /\ \A k \in DOMAIN runtimes : runtimes[k].status \notin Unfinished
                     /\ Latest(deps) = "completed" => project = "ready"
                     /\ Latest(deps) = "failed" => project = "failed"
                     /\ ~Alive => disk = "none" /\ staged = "none"
  BY DEF Settled
<1>1. Accounts(NewRequest("none")) /\ NewRequest("none").pc = "done"
  BY DEF SettledInv, Undisturbed, NewRequest
<1>2. /\ \A d \in DOMAIN deps : deps[d] \notin Unfinished
      /\ \A d \in 1..MaxRuns : rows[d].status \notin Unfinished
      /\ \A k \in DOMAIN runtimes : runtimes[k].status \notin Unfinished
      /\ \A i \in DOMAIN scans : scans[i] # "pending"
  BY <1>1 DEF Accounts, RunsOf, HoldsRow, HoldingPlaces, PipelinePlaces, ValidationPlaces,
     JudgingPlaces
<1>3. \A i \in DOMAIN scans : scans[i] # "running"
  <2>1. Calm
    BY DEF Calm, Stopped
  <2>2. \A r \in Requests : req[r].branch # "running"
    BY DEF ProjectInv, Suits, Fits, StageTwoPlaces, DiscoveryPlaces, Idle, Active
  <2>. QED
    BY <2>1, <2>2 DEF ProjectInv, ScanInv
<1>4. /\ deps # <<>> => Len(deps) \in DOMAIN deps
      /\ scans # <<>> => Len(scans) \in DOMAIN scans
  BY EmptySeq DEF ProjectInv, TypeInv, TypeOK
<1>5. Latest(deps) \notin Unfinished /\ Latest(scans) \notin Unfinished
  BY <1>2, <1>3, <1>4 DEF Latest, Unfinished
<1>6. /\ Latest(deps) = "completed" => project = "ready"
      /\ Latest(deps) = "failed" => project = "failed"
      /\ ~Alive => disk = "none" /\ staged = "none"
  BY <1>1 DEF Accounts, StatusOf, FilesOf
<1>. QED
  BY <1>2, <1>5, <1>6

(* For requests one after the other, whatever fails in their work or in a  *)
(* commit of a discovery, nothing is left under way once none is served:   *)
(* no run of any kind is pending or running, the project's status is that  *)
(* of its last discovery, and there are no files without a project.  No    *)
(* retry beside an approval of Stage 3: after a retry of an older row the  *)
(* approval may find it cached, and leaves its own row running.            *)
THEOREM ProjectSettles == RetriesApart => (Spec => []Settled)
<1>1. RetriesApart /\ Init => SettledInv
  BY InitSettles
<1>2. ProjectInv /\ SettledInv /\ [Next]_vars => SettledInv'
  <2>. SUFFICES ASSUME ProjectInv, SettledInv, [Next]_vars PROVE SettledInv'
    OBVIOUS
  <2>1. CASE Crash
    BY <2>1 DEF Crash, Fault, SettledInv, Undisturbed
  <2>2. ASSUME NEW r \in Requests, Boot(r) PROVE SettledInv'
    <3>1. UNCHANGED Tables /\ UNCHANGED <<req, happened, overlapped>>
      BY <2>2 DEF Boot, ServerStarts, Works, Stores, Disks, Tables
    <3>. QED
      BY <3>1, ApartSettles
  <2>3. CASE UNCHANGED vars
    BY <2>3, ApartSettles DEF vars, Tables
  <2>. QED
    BY <2>1, <2>2, <2>3, StepSettles DEF Next
<1>. QED
  BY <1>1, <1>2, Settling, ProjectInvariant, PTL DEF Spec
=============================================================================
