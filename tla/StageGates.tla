----------------------------- MODULE StageGates -----------------------------
(***************************************************************************)
(* Stage 2 and the approvals around it: WorkflowService reconstructs the   *)
(* approval state from the stored runs, admits one transition, and runs    *)
(* the dependency discovery on the thread of the request and the security  *)
(* scan on a worker thread.                                                *)
(***************************************************************************)
EXTENDS ProjectState

(* WorkflowService.state: the approval state, from the newest run of each  *)
(* kind.                                                                   *)

NewestRow(r) == IF order = <<>> THEN NoRow ELSE SeenRow(r, order[Len(order)])
SeenScan(r) ==
    IF scans = <<>> THEN "none"
    ELSE IF req[r].scan = Len(scans) THEN req[r].scanSeen ELSE Latest(scans)

State(dep, scan, row) ==
    IF row.status # "absent"
    THEN IF row.result.generation # NoSuite
         THEN [stage |-> 4, status |-> "waiting"]
         ELSE [stage |-> IF row.status = "failed" /\ row.failedStage = "stage_4"
                         THEN 4 ELSE 3,
               status |-> IF row.status = "failed" THEN "failed" ELSE "waiting"]
    ELSE IF dep = "none" /\ scan = "none" THEN [stage |-> 1, status |-> "waiting"]
    ELSE [stage |-> 2,
          status |-> IF "failed" \in {dep, scan} THEN "failed"
                     ELSE IF {dep, scan} = {"completed"} THEN "waiting" ELSE "running"]

StateSeen(r) == State(Latest(deps), SeenScan(r), NewestRow(r))

\* The request once it has loaded the newest runs.
Loaded(r) ==
    [req[r] EXCEPT !.dep = Len(deps), !.scan = Len(scans), !.scanSeen = SeenScan(r),
                   !.cu = IF order = <<>> THEN 0 ELSE order[Len(order)],
                   !.row = NewestRow(r)]

\* _run_stage_two: what is not complete runs, both concurrently when neither is.
StageTwo(next, dep, scan) ==
    [next EXCEPT !.pc = IF dep = "completed" THEN "join" ELSE "dependency",
                 !.branch = IF scan = "completed" THEN "none" ELSE "ahead"]

ContinuesFrom(r, stage) ==
    /\ At(r, "state")
    /\ \/ req[r].op = "upload" /\ req[r].stage = stage
       \/ req[r].op = "continue_1" /\ stage = 1
       \/ req[r].op = "continue_2" /\ stage = 2
       \/ req[r].op = "continue_3" /\ stage = 3

MayStageTwo(r) ==
    \/ StateSeen(r).stage = 1
    \/ StateSeen(r).stage = 2 /\ StateSeen(r).status = "failed"

\* For a mutant: the security scan is not asked for.
MayUnderstandUnscanned(r) ==
    /\ ~(StateSeen(r).stage = 3 /\ StateSeen(r).status # "failed")
    /\ Latest(deps) = "completed"

MayUnderstand(r) ==
    /\ ~(StateSeen(r).stage = 3 /\ StateSeen(r).status # "failed")
    /\ Latest(deps) = "completed" /\ SeenScan(r) = "completed"

RetriesStageFour(r) ==
    StateSeen(r).stage = 4 /\ StateSeen(r).status = "failed"

MayGenerate(r) ==
    /\ NewestRow(r).result.generation = NoSuite
    /\ RetriesStageFour(r) \/ NewestRow(r).status = "completed"

ContinueStageTwo(r) ==
    /\ ContinuesFrom(r, 1) /\ MayStageTwo(r)
    /\ To(r, StageTwo(Loaded(r), Latest(deps), SeenScan(r)))
    /\ Works /\ Quiet

ContinueStageThree(r) ==
    /\ ContinuesFrom(r, 2) /\ MayUnderstand(r)
    /\ To(r, [Loaded(r) EXCEPT !.pc = "admit"])
    /\ Works /\ Quiet

ContinueStageFour(r) ==
    /\ ContinuesFrom(r, 3) /\ MayGenerate(r)
    /\ To(r, [Loaded(r) EXCEPT !.pc = IF RetriesStageFour(r) THEN "regenerate"
                                      ELSE "generate"])
    /\ Works /\ Quiet

\* WorkflowError: the transition is not open.
Refuse(r) ==
    /\ \/ ContinuesFrom(r, 1) /\ ~MayStageTwo(r)
       \/ ContinuesFrom(r, 2) /\ ~MayUnderstand(r)
       \/ ContinuesFrom(r, 3) /\ ~MayGenerate(r)
    /\ End(r) /\ Works /\ Quiet

\* resume looks for a completed dependency run, the newest scan and row.
CompletedDeps == {d \in DOMAIN deps : deps[d] = "completed"}
LastCompleted ==
    IF CompletedDeps = {} THEN 0
    ELSE CHOOSE d \in CompletedDeps : \A e \in CompletedDeps : e <= d

Resume(r) ==
    /\ At(r, "state") /\ req[r].op \in {"resume", "force"}
    /\ To(r, StageTwo([Loaded(r) EXCEPT !.dep = LastCompleted],
                      IF LastCompleted = 0 THEN "none" ELSE "completed",
                      SeenScan(r)))
    /\ Works /\ Quiet

----------------------------------------------------------------------------
(* DependencyService.run, on the thread of the request.                    *)

\* clear_project swallows a Redis error, the entry then stays.
CreateDependencyRun(r) ==
    /\ At(r, "dependency") /\ CanCommit
    /\ Len(deps) < MaxRuns
    /\ \/ cachedRun' = 0 /\ Works
       \/ cachedRun' = cachedRun /\ cachedRun # 0 /\ Fault("redis")
    /\ deps' = Append(deps, "running")
    /\ To(r, [req[r] EXCEPT !.pc = "processing", !.dep = Len(deps) + 1])
    /\ UNCHANGED <<project, scans, rows, order, runtimes, Disks, Sut>>

SetProject(r, from, status, to) ==
    /\ At(r, from) /\ CanCommit
    /\ project' = status
    /\ Goto(r, to)
    /\ UNCHANGED <<deps, scans, rows, order, runtimes, Disks, Sut, cachedRun>>

MarkProcessing(r) == SetProject(r, "processing", "processing", "discover") /\ Works

\* No source file is found where the directory is gone.
DiscoverFiles(r) ==
    /\ At(r, "discover")
    /\ \/ disk # "none" /\ Goto(r, "found") /\ Works
       \/ disk # "complete" /\ Goto(r, "unfound") /\ Works
       \/ Goto(r, "unfound") /\ Fault("work")
    /\ Quiet

SetDependencyRun(r, from, status, to) ==
    /\ At(r, from) /\ CanCommit
    /\ deps' = [deps EXCEPT ![req[r].dep] = status]
    /\ Goto(r, to)
    /\ UNCHANGED <<project, scans, rows, order, runtimes, Disks, Sut, cachedRun>>

CompleteDependencyRun(r) == SetDependencyRun(r, "found", "completed", "publish") /\ Works

MarkReady(r) == SetProject(r, "publish", "ready", "join") /\ Works

\* A commit fails inside the try block.
DiscoveryCommitFails(r) ==
    /\ req[r].pc \in {"found", "publish"}
    /\ Fault("commit")
    /\ Goto(r, "unfound") /\ Quiet

\* For a mutant: the handler records nothing for the run.
LeaveDependencyRun(r) ==
    /\ At(r, "unfound") /\ CanCommit
    /\ Goto(r, "unpublish") /\ Works /\ Quiet

FailDependencyRun(r) == SetDependencyRun(r, "unfound", "failed", "unpublish") /\ Works

MarkFailed(r) ==
    /\ At(r, "unpublish") /\ CanCommit
    /\ project' = "failed"
    /\ To(r, [req[r] EXCEPT !.pc = "join", !.error = TRUE])
    /\ Works
    /\ UNCHANGED <<deps, scans, rows, order, runtimes, Disks, Sut, cachedRun>>

----------------------------------------------------------------------------
(* SecurityScanService.run, on its worker thread.  It looks at the newest  *)
(* scan as its session knows it; the index on running scans refuses a      *)
(* second one.                                                             *)

StartScan(r) ==
    /\ req[r].branch = "ahead"
    /\ IF SeenScan(r) = "completed"
       THEN /\ To(r, [req[r] EXCEPT !.branch = "ok"])
            /\ UNCHANGED scans
       ELSE IF SeenScan(r) = "failed"
       THEN /\ CanCommit
            /\ scans' = [scans EXCEPT ![Len(scans)] = "running"]
            /\ To(r, [req[r] EXCEPT !.branch = "running", !.scan = Len(scans),
                                    !.scanSeen = "running"])
       ELSE IF \E i \in DOMAIN scans : scans[i] = "running"
       THEN /\ CanCommit
            /\ To(r, [req[r] EXCEPT
                        !.branch = IF Latest(scans) = "running" THEN "ok" ELSE "failed",
                        !.scan = Len(scans), !.scanSeen = Latest(scans)])
            /\ UNCHANGED scans
       ELSE /\ CanCommit /\ Len(scans) < MaxRuns
            /\ scans' = Append(scans, "running")
            /\ To(r, [req[r] EXCEPT !.branch = "running", !.scan = Len(scans) + 1,
                                    !.scanSeen = "running"])
    /\ Works
    /\ UNCHANGED <<project, deps, rows, order, runtimes, Disks, Sut, cachedRun>>

FinishScan(r) ==
    /\ req[r].branch = "running" /\ CanCommit
    /\ \/ /\ disk # "none" /\ Works
          /\ scans' = [scans EXCEPT ![req[r].scan] = "completed"]
          /\ To(r, [req[r] EXCEPT !.branch = "ok", !.scanSeen = "completed"])
       \/ /\ IF disk # "complete" THEN Works ELSE Fault("work")
          /\ scans' = [scans EXCEPT ![req[r].scan] = "failed"]
          /\ To(r, [req[r] EXCEPT !.branch = "failed", !.scanSeen = "failed"])
    /\ UNCHANGED <<project, deps, rows, order, runtimes, Disks, Sut, cachedRun>>

ScanAfterDeletion(r) ==
    /\ project = "deleted" /\ deleting = Nobody
    /\ req[r].branch \in {"ahead", "running"}
    /\ To(r, [req[r] EXCEPT !.branch = "failed"]) /\ Works /\ Quiet

\* The executor waits for the scan even when the discovery has failed.
Join(r) ==
    /\ At(r, "join")
    /\ req[r].branch \notin {"ahead", "running"}
    /\ To(r, IF req[r].error \/ req[r].branch = "failed"
             THEN [req[r] EXCEPT !.pc = "done"]
             ELSE [req[r] EXCEPT !.stage = 2, !.branch = "none",
                      !.pc = CASE req[r].op = "upload" -> "state"
                               [] req[r].op = "resume" -> "admit"
                               [] req[r].op = "force" -> "force"
                               [] OTHER -> "done"])
    /\ Works /\ Quiet
=============================================================================
