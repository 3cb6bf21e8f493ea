----------------------------- MODULE SecurityScan ------------------------------
(***************************************************************************)
(* The security scan runs of one project: scan, retry and workflow resume  *)
(* requests of several workers over the rows, a partial unique index       *)
(* (one row "running" per project) and the row lock of retry().            *)
(*                                                                         *)
(* Of a row only the status is kept. A request that dies stays "dead": its *)
(* worker is not used again, which bounds the crashes.                     *)
(***************************************************************************)
EXTENDS Sequences, Integers, FiniteSets

CONSTANTS
    Workers, \* requests served at the same time
    Ops,     \* requests that arrive: "scan", "retry", "resume"
    MaxRuns, \* bound on the rows
    Nobody   \* holder of a free row lock

ASSUME WorkersAssumption == IsFiniteSet(Workers) /\ Nobody \notin Workers
ASSUME MaxRunsAssumption == MaxRuns \in Nat

ScanStatus == {"running", "completed", "failed"}
RunId == 1..MaxRuns

(* The copy of a row in a request's session; id 0 before it has one.       *)
Seen == [id : RunId \cup {0}, status : ScanStatus]
NothingSeen == [id |-> 0, status |-> "running"]

ScanPc == {"idle", "look", "admit", "scan", "dead"}
Request == [pc : ScanPc, resume : BOOLEAN, seen : Seen]
IdleRequest == [pc |-> "idle", resume |-> FALSE, seen |-> NothingSeen]

VARIABLES
    runs, \* status of each row, in the order of creation
    lock, \* row -> worker that holds it FOR UPDATE
    req   \* worker -> its request

scanVars == <<runs, lock, req>>

ScanInit ==
    /\ runs = <<>>
    /\ lock = [r \in RunId |-> Nobody]
    /\ req = [w \in Workers |-> IdleRequest]

-----------------------------------------------------------------------------
Running(r) == runs[r] = "running"

(* The index lets a row become "running".                                  *)
IndexAllows(r) == \A other \in DOMAIN runs \ {r} : ~Running(other)

(* An UPDATE of a row waits for the row's lock.                            *)
Writable(w, r) == lock[r] \in {Nobody, w}

(* Commit, rollback and the end of the session give up every lock.         *)
Released(w) == [r \in RunId |-> IF lock[r] = w THEN Nobody ELSE lock[r]]

(* get_latest_by_project_id: the row as the database has it, but for a row *)
(* that is in the session already, which is returned as it was loaded.     *)
Latest(seen) ==
    IF runs = <<>> THEN NothingSeen
    ELSE IF Len(runs) = seen.id THEN seen
    ELSE [id |-> Len(runs), status |-> runs[Len(runs)]]

(* Requests that may still add a row.                                      *)
Admitting == {w \in Workers : req[w].pc \in {"look", "admit"}}

(* Those find room for their row within MaxRuns.                           *)
Room == Len(runs) + Cardinality(Admitting) < MaxRuns

Enter(w, resume, seen) ==
    req' = [req EXCEPT ![w] = [pc |-> "look", resume |-> resume, seen |-> seen]]

Leave(w) ==
    /\ req' = [req EXCEPT ![w] = IdleRequest]
    /\ lock' = Released(w)

-----------------------------------------------------------------------------
(* Requests.                                                               *)

Scan(w) ==
    /\ "scan" \in Ops /\ req[w].pc = "idle" /\ Room
    /\ Enter(w, FALSE, NothingSeen)
    /\ UNCHANGED <<runs, lock>>

(* WorkflowService.resume and continue_from read the latest row first.     *)
Resume(w) ==
    /\ "resume" \in Ops /\ req[w].pc = "idle" /\ Room
    /\ Latest(NothingSeen).status # "completed"
    /\ Enter(w, TRUE, Latest(NothingSeen))
    /\ UNCHANGED <<runs, lock>>

(* For a mutant: retry() does not look at the status.                      *)
RetryAnything(w, r) ==
    /\ "retry" \in Ops /\ req[w].pc = "idle" /\ Room
    /\ lock[r] = Nobody
    /\ Enter(w, TRUE, [id |-> r, status |-> runs[r]])
    /\ lock' = [lock EXCEPT ![r] = w]
    /\ UNCHANGED runs

(* retry() of a run that is not failed changes nothing.                    *)
Retry(w, r) ==
    /\ "retry" \in Ops /\ req[w].pc = "idle" /\ Room
    /\ lock[r] = Nobody
    /\ runs[r] = "failed"
    /\ Enter(w, TRUE, [id |-> r, status |-> runs[r]])
    /\ lock' = [lock EXCEPT ![r] = w]
    /\ UNCHANGED runs

(* A completed scan is returned.                                           *)
Look(w) ==
    /\ req[w].pc = "look"
    /\ IF Latest(req[w].seen).status = "completed"
       THEN Leave(w)
       ELSE /\ req' = [req EXCEPT ![w].pc = "admit",
                                  ![w].seen = Latest(req[w].seen)]
            /\ UNCHANGED lock
    /\ UNCHANGED runs

(* The row retry() has locked need not be the latest.                      *)
Reopens(w) == req[w].resume /\ req[w].seen.id # 0 /\ req[w].seen.status = "failed"

Execute(w, r) ==
    req' = [req EXCEPT ![w].pc = "scan", ![w].seen = [id |-> r, status |-> "running"]]

PrepareRetry(w) ==
    /\ req[w].pc = "admit" /\ Reopens(w)
    /\ Writable(w, req[w].seen.id) /\ IndexAllows(req[w].seen.id)
    /\ runs' = [runs EXCEPT ![req[w].seen.id] = "running"]
    /\ Execute(w, req[w].seen.id)
    /\ lock' = Released(w)

(* IntegrityError, which only create() is prepared for.                    *)
RetryRefused(w) ==
    /\ req[w].pc = "admit" /\ Reopens(w)
    /\ Writable(w, req[w].seen.id) /\ ~IndexAllows(req[w].seen.id)
    /\ Leave(w)
    /\ UNCHANGED runs

Create(w) ==
    /\ req[w].pc = "admit" /\ ~Reopens(w)
    /\ IndexAllows(0)
    /\ runs' = Append(runs, "running")
    /\ Execute(w, Len(runs) + 1)
    /\ lock' = Released(w)

(* For a mutant: the request waits for the running scan.                   *)
AwaitConcurrent(w) ==
    /\ req[w].pc = "admit" /\ ~Reopens(w)
    /\ ~IndexAllows(0)
    /\ UNCHANGED scanVars

(* The running scan is returned, or the error raised if it is not latest.  *)
ReuseConcurrent(w) ==
    /\ req[w].pc = "admit" /\ ~Reopens(w)
    /\ ~IndexAllows(0)
    /\ Leave(w)
    /\ UNCHANGED runs

Complete(w) ==
    /\ req[w].pc = "scan" /\ Writable(w, req[w].seen.id)
    /\ runs' = [runs EXCEPT ![req[w].seen.id] = "completed"]
    /\ Leave(w)

(* For a mutant: the failure is raised but not recorded.                   *)
FailUnrecorded(w) ==
    /\ req[w].pc = "scan" /\ Writable(w, req[w].seen.id)
    /\ Leave(w)
    /\ UNCHANGED runs

(* The scanner's error or timeout, or an error in complete().              *)
Fail(w) ==
    /\ req[w].pc = "scan" /\ Writable(w, req[w].seen.id)
    /\ runs' = [runs EXCEPT ![req[w].seen.id] = "failed"]
    /\ Leave(w)

(* The request dies with its process, or cannot record how its scan ended; *)
(* the database takes back its lock.                                       *)
Die(w) ==
    /\ req[w].pc \in {"look", "admit", "scan"}
    /\ req' = [req EXCEPT ![w] =
                 [pc |-> "dead", resume |-> FALSE,
                  seen |-> IF req[w].pc = "scan" THEN req[w].seen ELSE NothingSeen]]
    /\ lock' = Released(w)
    /\ UNCHANGED runs

Progress(w) ==
    \/ Look(w) \/ PrepareRetry(w) \/ RetryRefused(w)
    \/ Create(w) \/ ReuseConcurrent(w) \/ Complete(w) \/ Fail(w)

ScanNext ==
    \E w \in Workers :
       \/ Scan(w) \/ Resume(w) \/ \E r \in DOMAIN runs : Retry(w, r)
       \/ Progress(w) \/ Die(w)

ScanSpec == ScanInit /\ [][ScanNext]_scanVars

(* The scanner has a timeout, and PostgreSQL hands a row lock to those who *)
(* wait for it in turn: nobody who waits is overtaken for ever.            *)
FairSpec == ScanSpec /\ \A w \in Workers : SF_scanVars(Progress(w))
-----------------------------------------------------------------------------
(* Properties.                                                             *)

(* Types of the rows, the locks and the requests.                          *)
ScanTypeOK ==
    /\ runs \in Seq(ScanStatus) /\ Len(runs) <= MaxRuns
    /\ lock \in [RunId -> Workers \cup {Nobody}]
    /\ req \in [Workers -> Request]

(* Whatever retries, resumes and scans overlap, a row is "running" only    *)
(* while a request scans it, or because the one that scanned it died:      *)
(* nothing else makes the index refuse the project's further scans.        *)
RunningHasScanner ==
    \A r \in DOMAIN runs :
       Running(r) =>
         \E w \in Workers : req[w].pc \in {"scan", "dead"} /\ req[w].seen.id = r

(* The failed status retry() has checked under the row's lock stands until *)
(* the retry commits, whatever resumes of the project do meanwhile.        *)
RetryDecisionHolds ==
    \A r \in DOMAIN runs : lock[r] # Nobody => runs[r] = "failed"

(* No request waits for ever, for a lock or for another request, even one  *)
(* that died.                                                              *)
EveryRequestEnds ==
    \A w \in Workers : req[w].pc # "idle" ~> req[w].pc \in {"idle", "dead"}
================================================================================
