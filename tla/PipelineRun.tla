----------------------------- MODULE PipelineRun -----------------------------
(***************************************************************************)
(* CodeUnderstandingService: concurrent HTTP requests that create, resume, *)
(* retry, force-rerun and extend the persisted pipeline run of a           *)
(* dependency run, one database commit per step.                           *)
(*                                                                         *)
(* A request keeps the row it loaded (its SQLAlchemy session's copy,       *)
(* refreshed at every commit of its own) and the in-memory stage3_payload. *)
(* The project row lock (SELECT ... FOR UPDATE) is released by the first   *)
(* commit of the request that holds it, or when its session closes.        *)
(* Requests that are refused change nothing and are not steps.             *)
(***************************************************************************)
EXTENDS CodeUnderstandingRepository

CONSTANTS
    Workers,    \* request threads of the web server
    DepRuns,    \* completed dependency runs of one project, same source text
    Ops,        \* entry points the clients use
    Faults,     \* which of "fail", "lost", "restart", "deploy" may occur
    NoDep,      \* no cached run
    Nobody      \* the project lock is free

AllOps == {"run", "understand", "retry", "force_rerun", "generate",
           "retry_generation", "verify", "optimize"}
AllFaults == {"fail", "lost", "restart", "deploy"}

ASSUME OpsAssumption == Ops \subseteq AllOps
ASSUME FaultsAssumption == Faults \subseteq AllFaults
ASSUME NobodyAssumption == Nobody \notin Workers
ASSUME NoDepAssumption == NoDep \notin DepRuns

VARIABLES
    rows,       \* the code_understanding_runs row of each dependency run
    lock,       \* holder of the project row's FOR UPDATE lock
    cachedRun,  \* Redis code-understanding entry: the run it names
    savedPoint, \* Redis quality-checkpoint entry of each run
    active,     \* manifest version of the deployed code
    req         \* the request each worker is serving

vars == <<rows, lock, cachedRun, savedPoint, active, req>>

(* Where a request can be.  "admit": holds the lock and has read the row;  *)
(* "pending": created the row, not yet marked running; "retry", "force",   *)
(* "restore", "reopen": read the row and is about to rewrite it; "relock": *)
(* waiting for the lock with resume_run_id; "precheck": before the try.    *)
Pc == {"idle", "admit", "pending", "retry", "force", "restore", "reopen",
       "relock", "precheck", "stage3", "stage4", "quality", "plan",
       "complete", "generate", "verify", "optimize", "optimize_plan"}

(* Inside the try block of _execute_understanding.                         *)
Executing == {"stage3", "stage4", "quality", "plan", "complete"}

IdleRequest ==
    [pc |-> "idle", op |-> "none", dep |-> NoDep, row |-> NoRow,
     payload |-> EmptyResult, stage |-> "none", base |-> NoSuite]

Request == [pc : Pc, op : AllOps \cup {"none"}, dep : DepRuns \cup {NoDep},
            row : Row, payload : Result, stage : Stage, base : Artifact]

Init ==
    /\ rows = [d \in DepRuns |-> NoRow]
    /\ lock = Nobody
    /\ cachedRun = NoDep
    /\ savedPoint = [d \in DepRuns |-> NoSuite]
    /\ active = 1
    /\ req = [w \in Workers |-> IdleRequest]

-----------------------------------------------------------------------------
(* Helpers.                                                                *)

VersionMatches(res) == res.stamp = active

(* A result of an older build without a version key but with Stage 3.      *)
IsLegacy(res) == res.stamp = NoStamp /\ res.summary

(* is_current_output: generated by the deployed planner.                   *)
IsCurrentOutput(artifact) == artifact # NoSuite /\ artifact.ver = active

NewSuites == {s \in Suite : s.ver = active}

ReleaseLock(w) == lock' = IF lock = w THEN Nobody ELSE lock

(* Commit row "new" for w; the session refreshes its copy afterwards.      *)
Committed(w, new) == Merge(req[w].row, new, rows[req[w].dep])

(* For a mutant: the session's copy is not refreshed after the commit.     *)
CommitWithoutRefresh(w, new, rest) ==
    /\ rows' = [rows EXCEPT ![req[w].dep] = Committed(w, new)]
    /\ req' = [req EXCEPT ![w] = rest]
    /\ ReleaseLock(w)

CommitTo(w, new, rest) ==
    /\ rows' = [rows EXCEPT ![req[w].dep] = Committed(w, new)]
    /\ req' = [req EXCEPT ![w] = [rest EXCEPT !.row = Committed(w, new)]]
    /\ ReleaseLock(w)

(* The last commit of a request: its session closes.                       *)
CommitAndEnd(w, new) ==
    /\ rows' = [rows EXCEPT ![req[w].dep] = Committed(w, new)]
    /\ req' = [req EXCEPT ![w] = IdleRequest]
    /\ ReleaseLock(w)

(* CacheManager swallows Redis errors: a write or a delete may be lost.    *)
CacheUnchanged == UNCHANGED <<cachedRun, savedPoint>>
ClearProjectCache ==
    /\ cachedRun' \in {cachedRun, NoDep}
    /\ savedPoint' \in {savedPoint, [d \in DepRuns |-> NoSuite]}

Start(w, op, d, pc, payload, base) ==
    req' = [req EXCEPT ![w] =
              [pc |-> pc, op |-> op, dep |-> d, row |-> rows[d],
               payload |-> payload, stage |-> "none", base |-> base]]

-----------------------------------------------------------------------------
(* _execute_understanding, admission of run() and understand().            *)

(* For a mutant: the lookup without the RUNNING check.                     *)
BeginRunAlthoughRunning(w, op, d) ==
    /\ op \in Ops \cap {"run", "understand"}
    /\ req[w].pc = "idle"
    /\ lock = Nobody
    /\ ~(rows[d].status = "completed" /\ VersionMatches(rows[d].result))
    /\ lock' = w
    /\ Start(w, op, d, "admit", EmptyResult, NoSuite)
    /\ UNCHANGED <<rows, active>> /\ CacheUnchanged

(* Lock the project and read the newest run.  A RUNNING run refuses the    *)
(* request, a completed run of the active version is returned as it is.    *)
BeginRun(w, op, d) ==
    /\ op \in Ops \cap {"run", "understand"}
    /\ req[w].pc = "idle"
    /\ lock = Nobody
    /\ rows[d].status # "running"
    /\ ~(rows[d].status = "completed" /\ VersionMatches(rows[d].result))
    /\ lock' = w
    /\ Start(w, op, d, "admit", EmptyResult, NoSuite)
    /\ UNCHANGED <<rows, active>> /\ CacheUnchanged

Admitting(w, isCase) == req[w].pc = "admit" /\ isCase

AdmitCreate(w) ==
    /\ Admitting(w, req[w].row.status = "absent")
    /\ CommitTo(w, CreateRun, [req[w] EXCEPT !.pc = "pending"])
    /\ UNCHANGED active /\ CacheUnchanged

MarkCreatedRunning(w) ==
    /\ req[w].pc = "pending"
    /\ CommitTo(w, MarkRunning(req[w].row),
                [req[w] EXCEPT !.pc = "precheck"])
    /\ UNCHANGED active /\ CacheUnchanged

(* The payload is read before the row is stripped of Stage 4 and later.    *)
AdmitLegacy(w) ==
    LET row == req[w].row IN
    /\ Admitting(w, /\ row.status # "absent"
                    /\ ~VersionMatches(row.result) /\ IsLegacy(row.result))
    /\ CommitTo(w, PrepareForcedRerun(row),
                [req[w] EXCEPT !.pc = "precheck", !.payload = row.result])
    /\ UNCHANGED active /\ CacheUnchanged

AdmitStale(w) ==
    LET row == req[w].row IN
    /\ Admitting(w, /\ row.status # "absent"
                    /\ ~VersionMatches(row.result) /\ ~IsLegacy(row.result))
    /\ CommitTo(w, PrepareArtifactRegeneration,
                [req[w] EXCEPT !.pc = "precheck"])
    /\ ClearProjectCache
    /\ UNCHANGED active

AdmitResume(w) ==
    LET row == req[w].row IN
    /\ Admitting(w, row.status # "absent" /\ VersionMatches(row.result))
    /\ CommitTo(w, MarkRunning(row),
                [req[w] EXCEPT !.pc = "precheck", !.payload = row.result])
    /\ UNCHANGED active /\ CacheUnchanged

-----------------------------------------------------------------------------
(* retry() and force_rerun(): read and prepare the row without the lock,   *)
(* then enter _execute_understanding with resume_run_id.                   *)

BeginRetry(w, d) ==
    /\ "retry" \in Ops
    /\ req[w].pc = "idle"
    /\ rows[d].status = "failed"
    /\ Start(w, "retry", d, "retry", EmptyResult, NoSuite)
    /\ UNCHANGED <<rows, lock, active>> /\ CacheUnchanged

CommitRetry(w) ==
    /\ req[w].pc = "retry"
    /\ CommitTo(w, PrepareRetry(req[w].row), [req[w] EXCEPT !.pc = "relock"])
    /\ UNCHANGED active /\ CacheUnchanged

BeginForcedRerun(w, d) ==
    /\ "force_rerun" \in Ops
    /\ req[w].pc = "idle"
    /\ rows[d].status = "completed"
    /\ Start(w, "force_rerun", d, "force", EmptyResult, NoSuite)
    /\ UNCHANGED <<rows, lock, active>> /\ CacheUnchanged

CommitForcedRerun(w) ==
    /\ req[w].pc = "force"
    /\ CommitTo(w, PrepareForcedRerun(req[w].row),
                [req[w] EXCEPT !.pc = "relock"])
    /\ UNCHANGED active /\ CacheUnchanged

(* The session's copy of the row is reused.  A matching version needs no   *)
(* commit here, so the lock is kept until the first stage commits.         *)
RelockCurrent(w) ==
    /\ req[w].pc = "relock"
    /\ lock = Nobody
    /\ VersionMatches(req[w].row.result)
    /\ lock' = w
    /\ req' = [req EXCEPT ![w].pc = "precheck",
                          ![w].payload = req[w].row.result]
    /\ UNCHANGED <<rows, active>> /\ CacheUnchanged

RelockStale(w) ==
    /\ req[w].pc = "relock"
    /\ lock = Nobody
    /\ ~VersionMatches(req[w].row.result)
    /\ CommitTo(w, PrepareArtifactRegeneration,
                [req[w] EXCEPT !.pc = "precheck"])
    /\ ClearProjectCache
    /\ UNCHANGED active

-----------------------------------------------------------------------------
(* Between admission and the try block: the Stage 3 cache lookup.          *)

(* _load_cached_run resolves the entry to its database row.                *)
CacheHit(w) ==
    /\ req[w].op = "understand"
    /\ cachedRun \notin {NoDep, req[w].dep}
    /\ rows[cachedRun].status = "completed"
    /\ VersionMatches(rows[cachedRun].result)

(* The cached run is returned; the admitted run is not looked at again.    *)
ReturnCachedRun(w) ==
    /\ req[w].pc = "precheck"
    /\ CacheHit(w)
    /\ req' = [req EXCEPT ![w] = IdleRequest]
    /\ ReleaseLock(w)
    /\ UNCHANGED <<rows, active>> /\ CacheUnchanged

(* A cached run of another version is deleted from the cache.  Redis may   *)
(* also miss an entry it had.                                              *)
EnterTry(w) ==
    /\ req[w].pc = "precheck"
    /\ \/ CacheUnchanged
       \/ cachedRun' = NoDep /\ UNCHANGED savedPoint
    /\ req' = [req EXCEPT ![w].pc = "stage3", ![w].stage = "stage_3"]
    /\ UNCHANGED <<rows, lock, active>>

-----------------------------------------------------------------------------
(* The stages.  AfterStageN is where the code goes next.                   *)

AfterStage3(r) ==
    IF r.op = "understand"
    THEN [r EXCEPT !.pc = "complete"]
    ELSE [r EXCEPT !.pc = "stage4", !.stage = "stage_4"]

SkipStage3(w) ==
    /\ req[w].pc = "stage3"
    /\ req[w].payload.summary
    /\ req' = [req EXCEPT ![w] = AfterStage3(req[w])]
    /\ UNCHANGED <<rows, lock, active>> /\ CacheUnchanged

RunStage3(w) ==
    LET fresh == [EmptyResult EXCEPT !.summary = TRUE] IN
    /\ req[w].pc = "stage3"
    /\ ~req[w].payload.summary
    /\ CommitTo(w, SaveStage3Result(req[w].row, fresh),
                AfterStage3([req[w] EXCEPT !.payload = fresh]))
    /\ UNCHANGED active /\ CacheUnchanged

AfterStage4(r) ==
    IF r.payload.optimization = NoSuite
    THEN [r EXCEPT !.pc = "quality", !.stage = "stage_6"]
    ELSE IF r.payload.plan = NoSuite
         THEN [r EXCEPT !.pc = "plan", !.stage = "runtime_preparation"]
         ELSE [r EXCEPT !.pc = "complete", !.stage = "stage_5"]

SkipStage4(w) ==
    /\ req[w].pc = "stage4"
    /\ IsCurrentOutput(req[w].payload.generation)
    /\ req' = [req EXCEPT ![w] = AfterStage4(req[w])]
    /\ UNCHANGED <<rows, lock, active>> /\ CacheUnchanged

(* For a mutant: the artifacts derived from a stale suite stay.            *)
RunStage4KeepingDerived(w) ==
    /\ req[w].pc = "stage4"
    /\ ~IsCurrentOutput(req[w].payload.generation)
    /\ \E s \in NewSuites :
         CommitTo(w, SaveTestGeneration(req[w].row, s),
                  AfterStage4([req[w] EXCEPT !.payload.generation = s]))
    /\ UNCHANGED active /\ CacheUnchanged

(* A stale suite takes every artifact derived from it along.               *)
RunStage4(w) ==
    /\ req[w].pc = "stage4"
    /\ ~IsCurrentOutput(req[w].payload.generation)
    /\ \E s \in NewSuites :
         LET kept == IF req[w].payload.generation = NoSuite
                     THEN req[w].payload
                     ELSE DropFromVerification(req[w].payload)
         IN  CommitTo(w, SaveTestGeneration(req[w].row, s),
                      AfterStage4([req[w] EXCEPT
                        !.payload = [kept EXCEPT !.generation = s]]))
    /\ UNCHANGED active /\ CacheUnchanged

(* QualityLoopService.run without checkpoints: an improved suite of the    *)
(* same lineage, completed or partial_success.                             *)
RunQualityLoop(w) ==
    LET s == req[w].payload.generation IN
    /\ req[w].pc = "quality"
    /\ \E partial \in BOOLEAN :
         CommitTo(w, SaveQualityOptimization(req[w].row, s, partial),
                  [req[w] EXCEPT !.pc = "plan",
                                 !.stage = "runtime_preparation",
                                 !.payload.verification = s,
                                 !.payload.optimization = s])
    /\ UNCHANGED active /\ CacheUnchanged

RunRuntimePreparation(w) ==
    LET s == req[w].payload.optimization IN
    /\ req[w].pc = "plan"
    /\ CommitTo(w, SaveRuntimeExecutionPlan(req[w].row, s),
                [req[w] EXCEPT !.pc = "complete", !.payload.plan = s])
    /\ UNCHANGED active /\ CacheUnchanged

(* Stamp the payload, complete the row and cache the run.                  *)
CompleteRun(w) ==
    /\ req[w].pc = "complete"
    /\ CommitAndEnd(w, Complete(req[w].row,
                                [req[w].payload EXCEPT !.stamp = active]))
    /\ cachedRun' \in {cachedRun, req[w].dep}
    /\ UNCHANGED <<active, savedPoint>>

-----------------------------------------------------------------------------
(* The endpoints of single stages.  _load_stage3_artifact requires a       *)
(* completed run with a result.                                            *)

LoadStage3Artifact(w, op, d, pc, base) ==
    /\ op \in Ops
    /\ req[w].pc = "idle"
    /\ rows[d].status = "completed"
    /\ Start(w, op, d, pc, EmptyResult, base)
    /\ UNCHANGED <<rows, lock, active>> /\ CacheUnchanged

BeginGenerate(w, d) == LoadStage3Artifact(w, "generate", d, "generate", NoSuite)

BeginVerify(w, d, s) == LoadStage3Artifact(w, "verify", d, "verify", s)

(* The loop resumes from the row's checkpoint, else from Redis's, else     *)
(* starts from the submitted suite.                                        *)
ResumeSuite(d, s) ==
    IF rows[d].result.checkpoint # NoSuite THEN rows[d].result.checkpoint
    ELSE IF savedPoint[d] # NoSuite THEN savedPoint[d]
    ELSE s

BeginOptimize(w, d, s) ==
    LoadStage3Artifact(w, "optimize", d, "optimize", ResumeSuite(d, s))

SaveGeneration(w) ==
    /\ req[w].pc = "generate"
    /\ \E s \in NewSuites :
         CommitAndEnd(w, SaveTestGeneration(req[w].row, s))
    /\ UNCHANGED active /\ CacheUnchanged

SaveVerification(w) ==
    /\ req[w].pc = "verify"
    /\ CommitAndEnd(w, SaveTestVerification(req[w].row, req[w].base))
    /\ UNCHANGED active /\ CacheUnchanged

SaveCheckpoint(w) ==
    LET d == req[w].dep IN
    /\ req[w].pc = "optimize"
    /\ \E verified \in BOOLEAN :
         CommitTo(w, SaveQualityCheckpoint(req[w].row, req[w].base, verified),
                  req[w])
    /\ savedPoint' \in {savedPoint, [savedPoint EXCEPT ![d] = req[w].base]}
    /\ UNCHANGED <<active, cachedRun>>

SaveOptimization(w) ==
    /\ req[w].pc = "optimize"
    /\ \E partial \in BOOLEAN :
         CommitTo(w,
                  SaveQualityOptimization(req[w].row, req[w].base, partial),
                  [req[w] EXCEPT !.pc = "optimize_plan"])
    /\ UNCHANGED active /\ CacheUnchanged

PersistRuntimePlan(w) ==
    /\ req[w].pc = "optimize_plan"
    /\ CommitAndEnd(w, SaveRuntimeExecutionPlan(req[w].row, req[w].base))
    /\ UNCHANGED active /\ CacheUnchanged

(* retry_test_generation: prepare_retry, then complete with the result as  *)
(* it was before, then Stage 4.                                            *)
BeginRetryGeneration(w, d) ==
    /\ "retry_generation" \in Ops
    /\ req[w].pc = "idle"
    /\ rows[d].status = "failed" /\ rows[d].failedStage = "stage_4"
    /\ Start(w, "retry_generation", d, "reopen", rows[d].result, NoSuite)
    /\ UNCHANGED <<rows, lock, active>> /\ CacheUnchanged

ReopenForGeneration(w) ==
    /\ req[w].pc = "reopen"
    /\ CommitTo(w, PrepareRetry(req[w].row), [req[w] EXCEPT !.pc = "restore"])
    /\ UNCHANGED active /\ CacheUnchanged

RestoreForGeneration(w) ==
    /\ req[w].pc = "restore"
    /\ CommitTo(w, [Complete(req[w].row, req[w].payload) EXCEPT
                        !.failedStage = "none"],
                [req[w] EXCEPT !.pc = "generate", !.payload = EmptyResult])
    /\ UNCHANGED active /\ CacheUnchanged

-----------------------------------------------------------------------------
(* Failures.                                                               *)

(* failed_stage of an exception that is recorded.                          *)
FailedStageOf(r) ==
    CASE r.pc \in Executing -> r.stage
      [] r.pc = "generate" -> "stage_4"
      [] r.pc = "verify" -> "stage_5"
      [] r.pc = "optimize" -> "stage_6"
      [] r.pc = "optimize_plan" -> "runtime_preparation"

Fail(w) ==
    /\ "fail" \in Faults
    /\ req[w].pc \in Executing \cup {"generate", "verify", "optimize",
                                     "optimize_plan"}
    /\ CommitAndEnd(w, FailRun(req[w].row, FailedStageOf(req[w])))
    /\ UNCHANGED active /\ CacheUnchanged

(* An exception before the try block, or one whose FAILED transition could *)
(* not be stored: _safe_fail_run swallows the database error.              *)
DieUnrecorded(w) ==
    /\ "lost" \in Faults
    /\ req[w].pc # "idle"
    /\ req' = [req EXCEPT ![w] = IdleRequest]
    /\ ReleaseLock(w)
    /\ UNCHANGED <<rows, active>> /\ CacheUnchanged

(* The server process restarts, possibly with newer code.                  *)
Restart ==
    /\ "restart" \in Faults
    /\ req' = [w \in Workers |-> IdleRequest]
    /\ lock' = Nobody
    /\ IF "deploy" \in Faults
       THEN active' \in active..MaxVersion
       ELSE UNCHANGED active
    /\ UNCHANGED rows /\ CacheUnchanged

-----------------------------------------------------------------------------
(* The steps a request takes on its own once it has begun.                 *)
Progress(w) ==
    \/ AdmitCreate(w) \/ MarkCreatedRunning(w) \/ AdmitLegacy(w)
    \/ AdmitStale(w) \/ AdmitResume(w)
    \/ CommitRetry(w) \/ CommitForcedRerun(w)
    \/ RelockCurrent(w) \/ RelockStale(w)
    \/ ReturnCachedRun(w) \/ EnterTry(w)
    \/ SkipStage3(w) \/ RunStage3(w) \/ SkipStage4(w) \/ RunStage4(w)
    \/ RunQualityLoop(w) \/ RunRuntimePreparation(w) \/ CompleteRun(w)
    \/ SaveGeneration(w) \/ SaveVerification(w)
    \/ SaveOptimization(w) \/ PersistRuntimePlan(w)
    \/ ReopenForGeneration(w) \/ RestoreForGeneration(w)

Begin(w) ==
    \E d \in DepRuns :
       \/ BeginRun(w, "run", d) \/ BeginRun(w, "understand", d)
       \/ BeginRetry(w, d) \/ BeginForcedRerun(w, d)
       \/ BeginGenerate(w, d) \/ BeginRetryGeneration(w, d)
       \/ \E s \in Suite : BeginVerify(w, d, s) \/ BeginOptimize(w, d, s)

Next ==
    \/ \E w \in Workers :
          Begin(w) \/ Progress(w) \/ SaveCheckpoint(w) \/ Fail(w)
          \/ DieUnrecorded(w)
    \/ Restart

Spec == Init /\ [][Next]_vars

(* A request thread keeps running: nothing suspends it but its own waits.  *)
FairSpec == Spec /\ \A w \in Workers : WF_vars(Progress(w))

-----------------------------------------------------------------------------
(* Properties.                                                             *)

(* Types of the persisted rows, the lock, Redis and the requests.          *)
TypeOK ==
    /\ rows \in [DepRuns -> Row]
    /\ lock \in Workers \cup {Nobody}
    /\ cachedRun \in DepRuns \cup {NoDep}
    /\ savedPoint \in [DepRuns -> Artifact]
    /\ active \in Version
    /\ req \in [Workers -> Request]

(* A request about to insert the run of a dependency run is the only one   *)
(* that can: nobody inserted it since the request looked (the project lock *)
(* spans the lookup and create_run's commit), so a dependency run has at   *)
(* most one pipeline run.                                                  *)
CreateExclusion ==
    \A w \in Workers :
       req[w].pc = "admit" /\ req[w].row.status = "absent"
          => rows[req[w].dep].status = "absent"

InFlight(w) == req[w].pc \in Executing \cup {"precheck"}

(* At most one request executes the stages of a run: the others are told   *)
(* "Workflow resume is already running for this project".                  *)
ExclusiveExecution ==
    \A v, w \in Workers :
       InFlight(v) /\ InFlight(w) /\ req[v].dep = req[w].dep => v = w

(* get_latest_pipeline_state publishes a completed row of this version.    *)
Publishable(d) ==
    rows[d].status = "completed" /\ VersionMatches(rows[d].result)

Derived(res) == {res.generation, res.verification, res.optimization, res.plan}

(* What is published is never partial or stale: Stage 3 with either no     *)
(* later artifact, or a suite of the deployed generator together with the  *)
(* verification, the optimization and the runtime plan of that same suite. *)
PublishedCoherent ==
    \A d \in DepRuns : Publishable(d) =>
       LET res == rows[d].result IN
       /\ res.summary
       /\ \/ Derived(res) = {NoSuite}
          \/ Derived(res) = {res.generation} /\ IsCurrentOutput(res.generation)

(* Resuming never throws away a Stage 3 that is persisted and not known to *)
(* be of another version: neither a failure nor a crash nor an admission   *)
(* removes it, unless its stamp says it is stale.                          *)
Stage3Kept ==
    [][\A d \in DepRuns :
          /\ rows[d].result.summary
          /\ rows[d].result.stamp \in {NoStamp, active}
          => rows'[d].result.summary]_vars

(* The run() that finds a completed run of the active version reuses it:   *)
(* no request rewrites such a row.                                         *)
CompletedIsFinal ==
    [][\A d \in DepRuns :
          Publishable(d) /\ active' = active => rows'[d] = rows[d]]_vars

(* The row an executing request holds in its session is the row in the     *)
(* database, so none of its commits overwrites somebody else's.            *)
RowInHandIsCurrent ==
    \A w \in Workers : InFlight(w) => req[w].row = rows[req[w].dep]

(* An understand() that returns has persisted its run's Stage 3.  A cache  *)
(* hit after mark_running does not keep it.  (README, known disagreements) *)
UnderstandPersists ==
    [][\A w \in Workers :
          /\ req[w].op = "understand" /\ req[w].pc = "precheck"
          /\ req'[w].pc = "idle"
          => rows'[req[w].dep].status # "running"]_vars

Quiescent == \A w \in Workers : req[w].pc = "idle"

(* Between requests, the runtime plan of a completed run was prepared from *)
(* the suite the run holds.                                                *)
PlanMatchesSuite ==
    \A d \in DepRuns :
       Quiescent /\ rows[d].status = "completed" /\ rows[d].result.plan # NoSuite
         => rows[d].result.plan = rows[d].result.generation

(* Without crashes every run that is RUNNING eventually completes or fails *)
(* (it is otherwise unusable: every later request is refused).             *)
EveryRunEnds ==
    \A d \in DepRuns :
       rows[d].status = "running" ~> rows[d].status \in {"completed", "failed"}
=============================================================================
