-------------------------- MODULE ProjectPipeline ---------------------------
(***************************************************************************)
(* The pipeline of a project as the stage gates drive it:                  *)
(* CodeUnderstandingService, one commit per step.  PipelineRun has its     *)
(* admission in smaller steps, with the lock it takes; here it is one.     *)
(***************************************************************************)
EXTENDS ProjectState

VersionMatches(row) == row.result.stamp # NoStamp
IsLegacy(row) == ~VersionMatches(row) /\ row.result.summary

\* The pipeline service returns: run_through_stage_four goes on.
Returned(next) ==
    IF next.op = "upload" THEN [next EXCEPT !.pc = "state", !.stage = 3]
    ELSE [next EXCEPT !.pc = "done"]

\* The request as it finds the row of its dependency run.
Admitting(r) == [req[r] EXCEPT !.cu = req[r].dep, !.row = SeenRow(r, req[r].dep)]

AdmitNothing(r) ==
    LET row == Admitting(r).row IN
    /\ At(r, "admit") /\ Alive
    /\ \/ row.status = "running" /\ End(r)
       \/ row.status = "completed" /\ VersionMatches(row) /\ To(r, Returned(Admitting(r)))
    /\ Works /\ Quiet

AdmitCreate(r) ==
    /\ At(r, "admit") /\ Admitting(r).row.status = "absent"
    /\ CommitRow(r, CreateRun, [Admitting(r) EXCEPT !.pc = "pending"])
    /\ order' = Append(order, req[r].dep)
    /\ Works /\ UNCHANGED cachedRun

MarkCreatedRunning(r) ==
    /\ At(r, "pending")
    /\ CommitRow(r, MarkRunning(req[r].row), [req[r] EXCEPT !.pc = "source"])
    /\ Works /\ UNCHANGED <<order, cachedRun>>

AdmitAgain(r) ==
    LET row == Admitting(r).row
        next == [Admitting(r) EXCEPT !.pc = "source"]
        resumed == [next EXCEPT !.payload = row.result] IN
    /\ At(r, "admit") /\ row.status \notin {"absent", "running"}
    /\ \/ /\ VersionMatches(row) /\ row.status # "completed"
          /\ CommitRow(r, MarkRunning(row), resumed)
          /\ UNCHANGED cachedRun
       \/ /\ IsLegacy(row)
          /\ CommitRow(r, PrepareForcedRerun(row), resumed)
          /\ UNCHANGED cachedRun
       \/ /\ ~VersionMatches(row) /\ ~IsLegacy(row)
          /\ CommitRow(r, PrepareArtifactRegeneration, next)
          /\ cachedRun' = 0
    /\ Works /\ UNCHANGED order

\* force_rerun
ForceRerun(r) ==
    /\ At(r, "force")
    /\ IF Admitting(r).row.status = "completed"
       THEN CommitRow(r, PrepareForcedRerun(Admitting(r).row),
                      [Admitting(r) EXCEPT !.pc = "relock"])
       ELSE End(r) /\ UNCHANGED <<rows, project, deps, scans, runtimes, Disks, Sut>>
    /\ Works /\ UNCHANGED <<order, cachedRun>>

\* The retry endpoint looks at one row ...
LoadRetried(r) ==
    /\ At(r, "retry") /\ order # <<>>
    /\ \E i \in DOMAIN order :
        LET d == order[i]
            runs == {k \in DOMAIN runtimes : runtimes[k].source = d}
            newest == IF runs = {} THEN "none"
                      ELSE runtimes[CHOOSE k \in runs : \A l \in runs : l <= k].status
            failed == rows[d].status = "failed"
            atValidation == rows[d].failedStage = "runtime_validation"
            loaded == [req[r] EXCEPT !.cu = d, !.dep = d, !.row = rows[d]] IN
        To(r, [loaded EXCEPT !.pc =
                CASE failed /\ ~atValidation -> "rerun"
                  [] failed /\ atValidation /\ newest = "failed" -> "revalidate"
                  [] OTHER -> "done"])
    /\ Works /\ Quiet

\* ... and prepares it for the pipeline or for Runtime Validation.
PrepareRetried(r) ==
    /\ req[r].pc \in {"rerun", "revalidate"}
    /\ CommitRow(r, PrepareRetry(req[r].row),
                 [req[r] EXCEPT !.pc = IF At(r, "rerun") THEN "relock" ELSE "validate"])
    /\ Works /\ UNCHANGED <<order, cachedRun>>

\* _execute_understanding with resume_run_id.
Relock(r) ==
    /\ At(r, "relock") /\ Alive
    /\ IF deps[req[r].dep] # "completed"
       THEN /\ End(r)
            /\ UNCHANGED <<rows, project, deps, scans, runtimes, Disks, Sut, cachedRun>>
       ELSE IF VersionMatches(req[r].row)
       THEN /\ To(r, [req[r] EXCEPT !.pc = "source", !.payload = req[r].row.result])
            /\ UNCHANGED <<rows, project, deps, scans, runtimes, Disks, Sut, cachedRun>>
       ELSE /\ CommitRow(r, PrepareArtifactRegeneration, [req[r] EXCEPT !.pc = "source"])
            /\ cachedRun' = 0
    /\ Works /\ UNCHANGED order

\* Before the try block: the source directory, then (Stage 3 alone) the cache
\* of finished runs.  What ends the request here leaves its row RUNNING.
CacheHit(r) ==
    /\ ~Pipeline(r) /\ cachedRun # 0
    /\ SeenRow(r, cachedRun).status = "completed"
    /\ VersionMatches(SeenRow(r, cachedRun))

ResolveSources(r) ==
    /\ At(r, "source")
    /\ \/ disk # "complete" /\ End(r)
       \/ disk # "none" /\ CacheHit(r) /\ To(r, Returned(req[r]))
       \/ disk # "none" /\ ~CacheHit(r) /\ Goto(r, "stage3")
    /\ Works /\ Quiet

SkipStage(r) ==
    /\ \/ /\ At(r, "stage3") /\ req[r].payload.summary
          /\ Goto(r, IF Pipeline(r) THEN "stage4" ELSE "complete")
       \/ /\ At(r, "stage4") /\ req[r].payload.generation # NoSuite
          /\ Goto(r, "quality")
       \/ /\ At(r, "quality") /\ req[r].payload.optimization # NoSuite
          /\ Goto(r, IF req[r].payload.plan = NoSuite THEN "plan" ELSE "complete")
    /\ Works /\ Quiet

RunStage(r) ==
    LET q == req[r]
        payload == q.payload
        Saved(new, derived, next) ==
            CommitRow(r, new, [q EXCEPT !.payload = derived, !.pc = next])
    IN
    /\ \/ /\ At(r, "stage3") /\ ~payload.summary
          /\ LET found == [EmptyResult EXCEPT !.summary = TRUE] IN
             Saved(SaveStage3Result(q.row, found), found,
                   IF Pipeline(r) THEN "stage4" ELSE "complete")
       \/ /\ At(r, "stage4") /\ payload.generation = NoSuite
          /\ Saved(SaveTestGeneration(q.row, S1),
                   [payload EXCEPT !.generation = S1], "quality")
       \/ /\ At(r, "quality") /\ payload.optimization = NoSuite
          /\ Saved(SaveQualityOptimization(q.row, payload.generation, FALSE),
                   [payload EXCEPT !.verification = payload.generation,
                                   !.optimization = payload.generation], "plan")
       \/ /\ At(r, "plan")
          /\ Saved(SaveRuntimeExecutionPlan(q.row, payload.optimization),
                   [payload EXCEPT !.plan = payload.optimization], "complete")
    /\ Works /\ UNCHANGED <<order, cachedRun>>

CompletePipeline(r) ==
    /\ At(r, "complete")
    /\ CommitRow(r, Complete(req[r].row, [req[r].payload EXCEPT !.stamp = 1]),
                 Returned(req[r]))
    /\ cachedRun' = req[r].cu
    /\ Works /\ UNCHANGED order

StageAt(pc) == CASE pc = "stage3" -> "stage_3"
                 [] pc \in {"stage4", "generate"} -> "stage_4"
                 [] pc = "quality" -> "stage_6"
                 [] pc \in {"plan", "complete"} -> "runtime_preparation"

\* Stages 3 and 5 read the source files.
StageFails(r) ==
    /\ req[r].pc \in {"stage3", "stage4", "quality", "plan", "generate"}
    /\ \/ Fault("work")
       \/ req[r].pc \in {"stage3", "quality"} /\ disk # "complete" /\ Works
    /\ CommitRow(r, FailRun(req[r].row, StageAt(req[r].pc)),
                 [req[r] EXCEPT !.pc = "done"])
    /\ UNCHANGED <<order, cachedRun>>

\* generate_test_cases, and retry_test_generation before it.
PrepareGeneration(r) ==
    /\ At(r, "regenerate")
    /\ CommitRow(r, PrepareRetry(req[r].row),
                 [req[r] EXCEPT !.pc = "restore", !.payload = req[r].row.result])
    /\ Works /\ UNCHANGED <<order, cachedRun>>

RestoreUnderstanding(r) ==
    /\ At(r, "restore")
    /\ CommitRow(r, [Complete(req[r].row, req[r].payload) EXCEPT !.failedStage = "none"],
                 [req[r] EXCEPT !.pc = "generate"])
    /\ Works /\ UNCHANGED <<order, cachedRun>>

GenerateTestCases(r) ==
    /\ At(r, "generate")
    /\ CommitRow(r, SaveTestGeneration(req[r].row, S1), [req[r] EXCEPT !.pc = "done"])
    /\ Works /\ UNCHANGED <<order, cachedRun>>
=============================================================================
