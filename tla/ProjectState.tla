---------------------------- MODULE ProjectState ----------------------------
(***************************************************************************)
(* One project of the test-case accelerator: its rows, its files, the      *)
(* requests on it, and the forms a step of a request takes.  The services  *)
(* that make the steps are StageGates, ProjectPipeline, RuntimeValidation  *)
(* and ProjectWorkflow.                                                    *)
(*                                                                         *)
(* A request is a record of the function req: pc is the next statement.    *)
(* The services of a request share one database session that keeps the     *)
(* rows it has loaded: row is its copy of pipeline row cu, scanSeen its    *)
(* copy of scan scan (the scan service has a session of its own).  Every   *)
(* step commits at most once.  Pipeline rows are those of                  *)
(* CodeUnderstandingRepository; one version of the pipeline is deployed.   *)
(***************************************************************************)
EXTENDS CodeUnderstandingRepository, Sequences, FiniteSets

CONSTANTS
    Requests,    \* requests in flight
    Mixes,       \* which operations they perform on which stored project
    MaxRuns,     \* bound on the runs of each kind
    MaxFaults,   \* bound on the kinds of fault in one behaviour
    FaultKinds,  \* which faults may occur
    Ports,       \* 1 is the preferred port 8001
    Nobody

Ops == {"upload", "continue_1", "continue_2", "continue_3", "resume", "force",
        "discover", "validate", "retry", "delete"}

ASSUME ProjectAssumption ==
    /\ MaxRuns \in Nat \ {0} /\ MaxFaults \in Nat
    /\ FaultKinds \subseteq {"work", "commit", "redis", "storage", "crash", "orphan"}
    /\ 1 \in Ports /\ Ports \subseteq Nat
    /\ Nobody \notin Requests
    /\ \A mix \in Mixes :
        /\ mix.known \in {"nothing", "uploaded", "understood", "generated", "unvalidated"}
        /\ mix.ops \in [Requests -> Ops \cup {"none"}]
        /\ \A r \in Requests : mix.ops[r] = "upload" =>
             mix.known = "nothing" /\ \A q \in Requests \ {r} : mix.ops[q] # "upload"
    /\ SuiteIds # {}

VARIABLES
    project,    \* status of the projects row; "absent", "deleted": no row
    disk,       \* the project's directory
    staged,     \* the directory renamed by a deletion
    deleting,   \* the request whose uncommitted DELETE locks the rows
    deps,       \* dependency_runs in order of creation
    scans,      \* security_scan_runs in order of creation
    rows,       \* the pipeline row of each dependency run
    order,      \* dependency runs in the order their rows were created
    runtimes,   \* runtime_validation_runs in order of creation
    cachedRun,  \* the Redis code-understanding entry of the sources; 0: none
    servers,    \* the child process of each request
    folders,    \* requests whose temporary runtime environment exists
    req,
    happened,   \* kinds of fault that occurred
    overlapped  \* two requests were active at once

vars == <<project, disk, staged, deleting, deps, scans, rows, order, runtimes,
          cachedRun, servers, folders, req, happened, overlapped>>

RunStatus == {"pending", "running", "completed", "failed"}
Files == {"none", "partial", "complete"}
Runs == 0..MaxRuns

Pc == {"ready", "done",
       "directory", "extract", "record",
       "state", "dependency", "processing", "discover", "found", "publish",
       "unfound", "unpublish", "join",
       "admit", "pending", "source", "stage3", "stage4", "quality", "plan",
       "complete", "force", "generate", "regenerate", "restore",
       "retry", "rerun", "relock", "revalidate", "validate", "created", "targets", "port", "existing",
       "folder", "launch", "poll", "execute", "outcome", "fail_runtime",
       "fail_source", "retried",
       "stage_files", "delete_rows", "delete_files", "commit_delete"}

NoServer == [state |-> "none", port |-> 0]
Server == [state : {"none", "starting", "up", "exited"}, port : Ports \cup {0}]

Request == [pc : Pc, op : Ops \cup {"none"}, stage : 1..3, dep : Runs, cu : Runs,
            row : Row, payload : Result,
            branch : {"none", "ahead", "running", "ok", "failed"},
            scan : Runs, scanSeen : RunStatus \cup {"none"}, error : BOOLEAN,
            run : Nat, port : Ports \cup {0}]

NewRequest(op) ==
    [pc |-> IF op = "none" THEN "done" ELSE "ready", op |-> op, stage |-> 1,
     dep |-> 0, cu |-> 0, row |-> NoRow, payload |-> EmptyResult,
     branch |-> "none", scan |-> 0, scanSeen |-> "none",
     error |-> FALSE, run |-> 0, port |-> 0]

Alive == project \notin {"absent", "deleted"}
Pipeline(r) == req[r].op \in {"resume", "force", "retry"}

\* The projects a request may find: as uploaded, and as earlier requests
\* left them.
S1 == CHOOSE s \in Suite : TRUE
Understood == [NoRow EXCEPT !.status = "completed", !.lastOk = "stage_3",
                            !.result.summary = TRUE, !.result.stamp = 1]
Generated == SaveTestGeneration(Understood, S1)
Stored(known) ==
    [row |-> CASE known = "understood" -> Understood
               [] known = "generated" -> Generated
               [] known = "unvalidated" -> FailRun(Generated, "runtime_validation")
               [] OTHER -> NoRow,
     runtimes |-> IF known = "unvalidated" THEN <<[source |-> 1, status |-> "failed"]>>
                  ELSE <<>>,
     project |-> CASE known = "nothing" -> "absent"
                   [] known = "uploaded" -> "uploaded"
                   [] OTHER -> "ready",
     runs |-> IF known \in {"nothing", "uploaded"} THEN <<>> ELSE <<"completed">>]

Init ==
    \E mix \in Mixes :
        LET stored == Stored(mix.known) IN
        /\ project = stored.project
        /\ disk = IF project = "absent" THEN "none" ELSE "complete"
        /\ staged = "none" /\ deleting = Nobody
        /\ deps = stored.runs /\ scans = stored.runs
        /\ rows = [d \in 1..MaxRuns |-> IF d = 1 THEN stored.row ELSE NoRow]
        /\ order = IF stored.row.status = "absent" THEN <<>> ELSE <<1>>
        /\ runtimes = stored.runtimes
        /\ cachedRun = Len(order)
        /\ servers = [r \in Requests |-> NoServer]
        /\ folders = {}
        /\ req = [r \in Requests |-> NewRequest(mix.ops[r])]
        /\ happened = {} /\ overlapped = FALSE

----------------------------------------------------------------------------
(* Steps.                                                                  *)

Latest(runs) == IF runs = <<>> THEN "none" ELSE runs[Len(runs)]

At(r, pc) == req[r].pc = pc
To(r, next) == req' = [req EXCEPT ![r] = next]
Goto(r, pc) == req' = [req EXCEPT ![r].pc = pc]
End(r) == Goto(r, "done")

\* Other sessions wait for the locks of an uncommitted DELETE; once it is
\* committed their own commits fail.
CanCommit == deleting = Nobody /\ Alive

\* A fault of this kind may occur now.
Fault(kind) ==
    /\ kind \in FaultKinds
    /\ Cardinality(happened \cup {kind}) <= MaxFaults
    /\ happened' = happened \cup {kind}
Works == UNCHANGED happened

Stores == <<project, deps, scans, rows, order, runtimes>>
Disks == <<disk, staged, deleting>>
Sut == <<servers, folders>>

\* A row as the session of the request has it: a row it has loaded is not
\* read again.
SeenRow(r, d) == IF req[r].cu = d THEN req[r].row ELSE rows[d]

\* A step that only moves the request.
Quiet == UNCHANGED <<Stores, Disks, Sut, cachedRun>>

\* Commit next.row, the session's copy of pipeline row next.cu, as "new".
CommitRow(r, new, next) ==
    LET stored == Merge(next.row, new, rows[next.cu]) IN
    /\ CanCommit
    /\ rows' = [rows EXCEPT ![next.cu] = stored]
    /\ To(r, [next EXCEPT !.row = stored])
    /\ UNCHANGED <<project, deps, scans, runtimes, Disks, Sut>>

\* The next commit of a request whose project has been deleted fails, and so
\* does the one that would record the failure.
Committing == {"processing", "found", "publish", "unfound", "unpublish", "dependency",
               "admit", "pending", "stage3", "stage4", "quality", "plan",
               "complete", "force", "generate", "regenerate", "restore",
               "retry", "rerun", "relock", "revalidate", "validate", "created", "outcome",
               "fail_runtime", "fail_source", "retried"}
CommitAfterDeletion(r) ==
    /\ project = "deleted" /\ deleting = Nobody
    /\ req[r].pc \in Committing
    /\ req[r].branch \notin {"ahead", "running"}
    /\ End(r) /\ Works /\ Quiet

Begin(r) ==
    /\ At(r, "ready")
    /\ req[r].op = "upload" \/ Alive
    /\ req[r].op = "retry" => order # <<>>
    /\ Goto(r, CASE req[r].op = "upload" -> "directory"
                 [] req[r].op = "discover" -> "dependency"
                 [] req[r].op \in {"validate", "retry"} -> req[r].op
                 [] req[r].op = "delete" -> "stage_files"
                 [] OTHER -> "state")
    /\ Works /\ Quiet
=============================================================================
