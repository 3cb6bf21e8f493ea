---------------------------- MODULE PipelineProofs ----------------------------
(***************************************************************************)
(* Proofs about PipelineRun and PipelineResume, for every set of workers,  *)
(* dependency runs, suites and versions:                                   *)
(*   - types (TypeSafety);                                                 *)
(*   - the insertion of a run (OnePipelineRunPerDependencyRun);            *)
(*   - the exclusion of run() and understand() on existing runs            *)
(*     (AtMostOneExecutor, NoLostUpdate), and that these two leave a       *)
(*     completed run alone (CompletedStays);                               *)
(*   - what is published (PublishedIsCoherent, ResumedIsCoherent);         *)
(*   - what is kept of Stage 3 (Stage3IsKept);                             *)
(*   - the runtime plan and the single stages (PlanIsOfItsSuite).          *)
(***************************************************************************)
EXTENDS PipelineResume, TLAPS

-----------------------------------------------------------------------------
(* The repository's operators return rows.                                 *)

(* Removing artifact keys, as the invalidations do, leaves a result.       *)
LEMMA DroppingKeepsType ==
    ASSUME NEW res \in Result
    PROVE  /\ DropPlan(res) \in Result
           /\ DropOptimization(res) \in Result
           /\ DropFromVerification(res) \in Result
           /\ DropFromGeneration(res) \in Result
  BY DEF Result, Artifact, DropPlan, DropOptimization, DropFromVerification,
         DropFromGeneration

(* The empty result is a result and the row not yet inserted a row.        *)
LEMMA EmptyTypes == EmptyResult \in Result /\ NoRow \in Row
  BY DEF EmptyResult, NoRow, Result, Row, Artifact, Version, NoStamp, Status,
         Stage

(* The methods that open a run (create_run, mark_running, prepare_retry,   *)
(* prepare_forced_rerun, prepare_artifact_regeneration) produce rows.      *)
LEMMA PrepareTypes ==
    ASSUME NEW row \in Row
    PROVE  /\ CreateRun \in Row
           /\ MarkRunning(row) \in Row
           /\ PrepareRetry(row) \in Row
           /\ PrepareForcedRerun(row) \in Row
           /\ PrepareArtifactRegeneration \in Row
<1>1. row.result \in Result
  BY DEF Row
<1>2. RetainedByRetry(row) \in Result
  BY <1>1, DroppingKeepsType, EmptyTypes DEF RetainedByRetry
<1>3. DropFromGeneration(row.result) \in Result
  BY <1>1, DroppingKeepsType
<1>4. CreateRun \in Row /\ PrepareArtifactRegeneration \in Row
  BY EmptyTypes DEF CreateRun, PrepareArtifactRegeneration, NoRow, Row, Status
<1>5. MarkRunning(row) \in Row
  BY DEF MarkRunning, Row, Status
<1>6. PrepareRetry(row) \in Row
  BY <1>2 DEF PrepareRetry, Row, Status
<1>7. PrepareForcedRerun(row) \in Row
  BY <1>3 DEF PrepareForcedRerun, Row, Status, Stage
<1> QED BY <1>4, <1>5, <1>6, <1>7

(* save_test_generation returns a row.                                     *)
LEMMA SavedGenerationTyped ==
    ASSUME NEW row \in Row, NEW s \in Suite
    PROVE  SaveTestGeneration(row, s) \in Row
<1>1. row.result \in Result
  BY DEF Row
<1>2. [DropFromVerification(row.result) EXCEPT
         !.generation = s, !.history = @ \cup {s}] \in Result
  BY <1>1, DroppingKeepsType DEF Result, Artifact
<1> QED BY <1>2 DEF SaveTestGeneration, Row, Stage

(* The methods that store a verification, an optimization, a checkpoint or *)
(* a plan of the suite s return rows.                                      *)
LEMMA SavedSuiteTyped ==
    ASSUME NEW row \in Row, NEW s \in Artifact, NEW flag \in BOOLEAN
    PROVE  /\ SaveTestVerification(row, s) \in Row
           /\ SaveQualityOptimization(row, s, flag) \in Row
           /\ SaveQualityCheckpoint(row, s, flag) \in Row
           /\ SaveRuntimeExecutionPlan(row, s) \in Row
<1>1. row.result \in Result
  BY DEF Row
<1>2. [DropOptimization(row.result) EXCEPT !.verification = s] \in Result
  BY <1>1, DroppingKeepsType DEF Result
<1>3. SaveTestVerification(row, s) \in Row
  BY <1>2 DEF SaveTestVerification, Row, Stage
<1>4. [row.result EXCEPT !.generation = s, !.verification = s,
          !.optimization = s,
          !.checkpoint = IF flag THEN @ ELSE NoSuite] \in Result
  BY <1>1 DEF Result, Artifact
<1>5. SaveQualityOptimization(row, s, flag) \in Row
  BY <1>4 DEF SaveQualityOptimization, Row, Stage
<1>6. [row.result EXCEPT !.checkpoint = s, !.generation = s,
          !.verification = IF flag THEN s ELSE @] \in Result
  BY <1>1 DEF Result
<1>7. SaveQualityCheckpoint(row, s, flag) \in Row
  BY <1>6 DEF SaveQualityCheckpoint, Row
<1>8. [row.result EXCEPT !.plan = s] \in Result
  BY <1>1 DEF Result
<1>9. SaveRuntimeExecutionPlan(row, s) \in Row
  BY <1>8 DEF SaveRuntimeExecutionPlan, Row, Stage
<1> QED BY <1>3, <1>5, <1>7, <1>9

(* A three-way merge of rows is a row.                                     *)
LEMMA MergeType ==
    ASSUME NEW loaded \in Row, NEW new \in Row, NEW db \in Row
    PROVE  Merge(loaded, new, db) \in Row
  BY DEF Merge, Row

(* Committing over the row one has loaded stores exactly the new row.      *)
LEMMA MergeCurrent ==
    ASSUME NEW row \in Row, NEW new \in Row
    PROVE  Merge(row, new, row) = new
  BY DEF Merge, Row
-----------------------------------------------------------------------------
(* Type correctness.  A request that has begun names a dependency run, and *)
(* a request that verifies or optimizes works on a suite or on none.       *)

RequestsTyped ==
    \A w \in Workers : req[w].pc # "idle" => req[w].dep \in DepRuns

TypeInv == TypeOK /\ RequestsTyped

(* A worker that serves nothing is typed.                                  *)
LEMMA IdleTyped == IdleRequest \in Request
  BY EmptyTypes
  DEF IdleRequest, Request, Pc, Artifact, Stage

(* A commit whose request goes on keeps the rows, the lock and the         *)
(* requests typed.                                                         *)
LEMMA CommitToTyped ==
    ASSUME TypeInv, NEW w \in Workers, req[w].pc # "idle",
           NEW new \in Row, NEW rest \in Request, rest.dep = req[w].dep,
           CommitTo(w, new, rest)
    PROVE  /\ rows' \in [DepRuns -> Row]
           /\ lock' \in Workers \cup {Nobody}
           /\ req' \in [Workers -> Request]
           /\ RequestsTyped'
<1> DEFINE merged == Committed(w, new)
<1>1. /\ req[w] \in Request /\ req[w].dep \in DepRuns
      /\ req[w].row \in Row /\ rows[req[w].dep] \in Row
  BY DEF TypeInv, TypeOK, RequestsTyped, Request
<1>2. merged \in Row
  BY <1>1, MergeType DEF Committed
<1>3. [rest EXCEPT !.row = merged] \in Request
  BY <1>2 DEF Request
<1>4. [rest EXCEPT !.row = merged].dep = req[w].dep
  BY DEF Request
<1>5. rows' \in [DepRuns -> Row]
  BY <1>2 DEF CommitTo, TypeInv, TypeOK
<1>6. lock' \in Workers \cup {Nobody}
  BY DEF CommitTo, ReleaseLock, TypeInv, TypeOK
<1>7. req' \in [Workers -> Request]
  BY <1>3 DEF CommitTo, TypeInv, TypeOK
<1>8. RequestsTyped'
  BY <1>1, <1>4 DEF CommitTo, TypeInv, TypeOK, RequestsTyped
<1> QED BY <1>5, <1>6, <1>7, <1>8

(* So does the commit that ends its request.                               *)
LEMMA CommitAndEndTyped ==
    ASSUME TypeInv, NEW w \in Workers, req[w].pc # "idle",
           NEW new \in Row, CommitAndEnd(w, new)
    PROVE  /\ rows' \in [DepRuns -> Row]
           /\ lock' \in Workers \cup {Nobody}
           /\ req' \in [Workers -> Request]
           /\ RequestsTyped'
<1> DEFINE merged == Committed(w, new)
<1>1. /\ req[w] \in Request /\ req[w].dep \in DepRuns
      /\ req[w].row \in Row /\ rows[req[w].dep] \in Row
  BY DEF TypeInv, TypeOK, RequestsTyped, Request
<1>2. merged \in Row
  BY <1>1, MergeType DEF Committed
<1>3. rows' \in [DepRuns -> Row]
  BY <1>2 DEF CommitAndEnd, TypeInv, TypeOK
<1>4. lock' \in Workers \cup {Nobody}
  BY DEF CommitAndEnd, ReleaseLock, TypeInv, TypeOK
<1>5. req' \in [Workers -> Request]
  BY IdleTyped DEF CommitAndEnd, TypeInv, TypeOK
<1>6. RequestsTyped'
  BY DEF CommitAndEnd, TypeInv, TypeOK, RequestsTyped, IdleRequest
<1> QED BY <1>3, <1>4, <1>5, <1>6

(* A request that begins: idle, then the row of d in hand.                 *)
LEMMA StartTyped ==
    ASSUME TypeInv, NEW w \in Workers, NEW op \in AllOps, NEW d \in DepRuns,
           NEW pc \in Pc, NEW payload \in Result, NEW base \in Artifact,
           Start(w, op, d, pc, payload, base)
    PROVE  req' \in [Workers -> Request] /\ RequestsTyped'
<1>1. [pc |-> pc, op |-> op, dep |-> d, row |-> rows[d], payload |-> payload,
       stage |-> "none", base |-> base] \in Request
  BY DEF TypeInv, TypeOK, Request, Stage
<1>2. req' \in [Workers -> Request]
  BY <1>1 DEF Start, TypeInv, TypeOK
<1>3. RequestsTyped'
  BY DEF Start, TypeInv, TypeOK, RequestsTyped
<1> QED BY <1>2, <1>3

(* A step that leaves Redis alone or clears the project's entries keeps    *)
(* both entries typed.                                                     *)
LEMMA CacheTyped ==
    ASSUME TypeInv
    PROVE  /\ CacheUnchanged => /\ cachedRun' \in DepRuns \cup {NoDep}
                                /\ savedPoint' \in [DepRuns -> Artifact]
           /\ ClearProjectCache => /\ cachedRun' \in DepRuns \cup {NoDep}
                                   /\ savedPoint' \in [DepRuns -> Artifact]
  BY DEF TypeInv, TypeOK, CacheUnchanged, ClearProjectCache, Artifact

(* The initial states of both specifications are well typed.               *)
LEMMA InitTyped == Init \/ InitExisting => TypeInv
<1>1. NoRow \in Row /\ IdleRequest \in Request
  BY EmptyTypes, IdleTyped
<1>2. 1 \in Version
  BY MaxVersionAssumption DEF Version
<1>3. Init => TypeInv
  BY <1>1, <1>2
  DEF Init, TypeInv, TypeOK, RequestsTyped, IdleRequest, Artifact
<1>4. InitExisting => TypeInv
  BY <1>1, <1>2, ExistingRowsAssumption
  DEF InitExisting, TypeInv, TypeOK, RequestsTyped, IdleRequest, Artifact
<1> QED BY <1>3, <1>4

(* What is known of a request that has begun.                              *)
LEMMA BegunTyped ==
    ASSUME TypeInv, NEW w \in Workers, req[w].pc # "idle"
    PROVE  /\ req[w] \in Request
           /\ req[w].dep \in DepRuns
           /\ req[w].row \in Row
           /\ req[w].row.result \in Result
           /\ req[w].payload \in Result
           /\ req[w].base \in Artifact
           /\ req[w].stage \in Stage
           /\ rows[req[w].dep] \in Row
           /\ active \in Version
  BY DEF TypeInv, TypeOK, RequestsTyped, Request, Row

(* A request moved on by its own step keeps its type.                      *)
LEMMA MovedTyped ==
    ASSUME TypeInv, NEW w \in Workers, req[w].pc # "idle",
           NEW rest \in Request, rest.dep = req[w].dep,
           req' = [req EXCEPT ![w] = rest]
    PROVE  req' \in [Workers -> Request] /\ RequestsTyped'
<1>1. req \in [Workers -> Request] /\ req[w].dep \in DepRuns
  BY BegunTyped DEF TypeInv, TypeOK
<1> QED BY <1>1 DEF TypeInv, RequestsTyped

(* A request that ends keeps the requests well typed.                      *)
LEMMA EndedTyped ==
    ASSUME TypeInv, NEW w \in Workers, req' = [req EXCEPT ![w] = IdleRequest]
    PROVE  req' \in [Workers -> Request] /\ RequestsTyped'
  BY IdleTyped DEF TypeInv, TypeOK, RequestsTyped, IdleRequest

(* The three ways a step ends, with everything it must leave well typed.   *)
LEMMA CommitToKeepsType ==
    ASSUME TypeInv, NEW w \in Workers, req[w].pc # "idle",
           NEW new \in Row, NEW rest \in Request, rest.dep = req[w].dep,
           CommitTo(w, new, rest), active' = active,
           CacheUnchanged \/ ClearProjectCache
    PROVE  TypeInv'
  BY CommitToTyped, CacheTyped DEF TypeInv, TypeOK

(* A step of one request without a database write keeps TypeInv.           *)
LEMMA MoveKeepsType ==
    ASSUME TypeInv, NEW w \in Workers, req[w].pc # "idle",
           NEW rest \in Request, rest.dep = req[w].dep,
           req' = [req EXCEPT ![w] = rest],
           rows' = rows, lock' \in {lock, w, Nobody}, active' = active,
           savedPoint' = savedPoint, cachedRun' \in {cachedRun, NoDep}
    PROVE  TypeInv'
  BY MovedTyped DEF TypeInv, TypeOK

(* A request that begins keeps TypeInv.                                    *)
LEMMA StartKeepsType ==
    ASSUME TypeInv, NEW w \in Workers, NEW op \in AllOps, NEW d \in DepRuns,
           NEW pc \in Pc, NEW payload \in Result, NEW base \in Artifact,
           Start(w, op, d, pc, payload, base),
           rows' = rows, lock' \in {lock, w}, active' = active, CacheUnchanged
    PROVE  TypeInv'
  BY StartTyped, CacheTyped DEF TypeInv, TypeOK

(* Admission, retry and forced rerun.                                      *)
LEMMA AdmissionTyped ==
    ASSUME TypeInv, NEW w \in Workers,
           \/ AdmitCreate(w) \/ MarkCreatedRunning(w) \/ AdmitLegacy(w)
           \/ AdmitStale(w) \/ AdmitResume(w) \/ CommitRetry(w)
           \/ CommitForcedRerun(w) \/ RelockCurrent(w) \/ RelockStale(w)
           \/ ReopenForGeneration(w) \/ RestoreForGeneration(w)
    PROVE  TypeInv'
<1>1. req[w].pc # "idle"
  BY DEF AdmitCreate, MarkCreatedRunning, AdmitLegacy, AdmitStale,
         AdmitResume, CommitRetry, CommitForcedRerun, RelockCurrent,
         RelockStale, ReopenForGeneration, RestoreForGeneration, Admitting
<1>2. /\ req[w] \in Request /\ req[w].row \in Row
      /\ req[w].row.result \in Result /\ req[w].payload \in Result
  BY <1>1, BegunTyped
<1>3. {"pending", "precheck", "relock", "restore", "generate"} \subseteq Pc
  BY DEF Pc
<1>4. /\ CreateRun \in Row /\ MarkRunning(req[w].row) \in Row
      /\ PrepareRetry(req[w].row) \in Row
      /\ PrepareForcedRerun(req[w].row) \in Row
      /\ PrepareArtifactRegeneration \in Row
  BY <1>2, PrepareTypes
<1>5. CASE AdmitCreate(w)
  <2>1. [req[w] EXCEPT !.pc = "pending"] \in Request
        /\ [req[w] EXCEPT !.pc = "pending"].dep = req[w].dep
    BY <1>2, <1>3 DEF Request
  <2> QED BY <1>1, <1>4, <1>5, <2>1, CommitToKeepsType DEF AdmitCreate
<1>6. CASE MarkCreatedRunning(w)
  <2> DEFINE rest == [req[w] EXCEPT !.pc = "precheck"]
  <2>1. rest \in Request /\ rest.dep = req[w].dep
    BY <1>2, <1>3 DEF Request
  <2> QED BY <1>1, <1>4, <1>6, <2>1, CommitToKeepsType DEF MarkCreatedRunning
<1>7. CASE AdmitLegacy(w)
  <2> DEFINE rest == [req[w] EXCEPT !.pc = "precheck",
                                    !.payload = req[w].row.result]
  <2>1. rest \in Request /\ rest.dep = req[w].dep
    BY <1>2, <1>3 DEF Request
  <2> QED BY <1>1, <1>4, <1>7, <2>1, CommitToKeepsType DEF AdmitLegacy
<1>8. CASE AdmitStale(w)
  <2> DEFINE rest == [req[w] EXCEPT !.pc = "precheck"]
  <2>1. rest \in Request /\ rest.dep = req[w].dep
    BY <1>2, <1>3 DEF Request
  <2> QED BY <1>1, <1>4, <1>8, <2>1, CommitToKeepsType DEF AdmitStale
<1>9. CASE AdmitResume(w)
  <2> DEFINE rest == [req[w] EXCEPT !.pc = "precheck",
                                    !.payload = req[w].row.result]
  <2>1. rest \in Request /\ rest.dep = req[w].dep
    BY <1>2, <1>3 DEF Request
  <2> QED BY <1>1, <1>4, <1>9, <2>1, CommitToKeepsType DEF AdmitResume
<1>10. CASE CommitRetry(w)
  <2> DEFINE rest == [req[w] EXCEPT !.pc = "relock"]
  <2>1. rest \in Request /\ rest.dep = req[w].dep
    BY <1>2, <1>3 DEF Request
  <2> QED BY <1>1, <1>4, <1>10, <2>1, CommitToKeepsType DEF CommitRetry
<1>11. CASE CommitForcedRerun(w)
  <2> DEFINE rest == [req[w] EXCEPT !.pc = "relock"]
  <2>1. rest \in Request /\ rest.dep = req[w].dep
    BY <1>2, <1>3 DEF Request
  <2> QED BY <1>1, <1>4, <1>11, <2>1, CommitToKeepsType DEF CommitForcedRerun
<1>12. CASE RelockStale(w)
  <2> DEFINE rest == [req[w] EXCEPT !.pc = "precheck"]
  <2>1. rest \in Request /\ rest.dep = req[w].dep
    BY <1>2, <1>3 DEF Request
  <2> QED BY <1>1, <1>4, <1>12, <2>1, CommitToKeepsType DEF RelockStale
<1>13. CASE ReopenForGeneration(w)
  <2> DEFINE rest == [req[w] EXCEPT !.pc = "restore"]
  <2>1. rest \in Request /\ rest.dep = req[w].dep
    BY <1>2, <1>3 DEF Request
  <2> QED BY <1>1, <1>4, <1>13, <2>1, CommitToKeepsType DEF ReopenForGeneration
<1>14. CASE RelockCurrent(w)
  <2> DEFINE rest == [req[w] EXCEPT !.pc = "precheck",
                                    !.payload = req[w].row.result]
  <2>1. rest \in Request /\ rest.dep = req[w].dep
    BY <1>2, <1>3 DEF Request
  <2>2. req' = [req EXCEPT ![w] = rest]
    BY <1>14 DEF RelockCurrent, TypeInv, TypeOK
  <2> QED BY <1>1, <1>14, <2>1, <2>2, MoveKeepsType
          DEF RelockCurrent, CacheUnchanged
<1>15. CASE RestoreForGeneration(w)
  <2> DEFINE rest == [req[w] EXCEPT !.pc = "generate",
                                    !.payload = EmptyResult]
             new == [Complete(req[w].row, req[w].payload) EXCEPT
                        !.failedStage = "none"]
  <2>1. rest \in Request /\ rest.dep = req[w].dep
    BY <1>2, <1>3, EmptyTypes DEF Request
  <2>2. new \in Row
    BY <1>2 DEF Complete, Row, Status, Stage
  <2> QED BY <1>1, <1>15, <2>1, <2>2, CommitToKeepsType
          DEF RestoreForGeneration
<1> QED BY <1>5, <1>6, <1>7, <1>8, <1>9, <1>10, <1>11, <1>12, <1>13, <1>14,
           <1>15

(* The forms a step of a stage or of an endpoint has: it stores a row and  *)
(* goes on, stores a row and ends, only goes on, or only ends.             *)
CachesTyped == /\ cachedRun' \in DepRuns \cup {NoDep}
               /\ savedPoint' \in [DepRuns -> Artifact]

GoesOn(w, rest) ==
    /\ rest.dep = req[w].dep
    /\ rest.pc \notin {"idle", "admit"}
    /\ InFlight(w) => rest.pc \in Executing

Stores(w) ==
    \E new \in Row, rest \in Request :
       /\ new.status = req[w].row.status
       /\ GoesOn(w, rest)
       /\ CommitTo(w, new, rest)

StoresLast(w) ==
    \E new \in Row :
       /\ new.status \in {req[w].row.status, "completed", "failed"}
       /\ CommitAndEnd(w, new)

Moves(w) ==
    \E rest \in Request :
       /\ GoesOn(w, rest)
       /\ rest.row = req[w].row
       /\ req' = [req EXCEPT ![w] = rest]
       /\ rows' = rows /\ lock' = lock

Leaves(w) ==
    req' = [req EXCEPT ![w] = IdleRequest] /\ rows' = rows /\ ReleaseLock(w)

StepForm(w) ==
    /\ req[w].pc # "idle"
    /\ active' = active
    /\ CachesTyped
    /\ Stores(w) \/ StoresLast(w) \/ Moves(w) \/ Leaves(w)

StageStep(w) ==
    \/ ReturnCachedRun(w) \/ EnterTry(w) \/ SkipStage3(w)
    \/ RunStage3(w) \/ SkipStage4(w) \/ RunStage4(w)
    \/ RunQualityLoop(w) \/ RunRuntimePreparation(w) \/ CompleteRun(w)

(* Where AfterStage3 and AfterStage4 send an executing request.            *)
LEMMA AfterStageForms ==
    ASSUME NEW r \in Request
    PROVE  /\ AfterStage3(r) \in Request /\ AfterStage4(r) \in Request
           /\ AfterStage3(r).dep = r.dep /\ AfterStage4(r).dep = r.dep
           /\ AfterStage3(r).row = r.row /\ AfterStage4(r).row = r.row
           /\ AfterStage3(r).pc \in Executing
           /\ AfterStage4(r).pc \in Executing
  BY DEF AfterStage3, AfterStage4, Request, Pc, Stage, Executing

(* The stages of _execute_understanding.                                   *)
LEMMA StageForms ==
    ASSUME TypeInv, NEW w \in Workers, StageStep(w)
    PROVE  InFlight(w) /\ StepForm(w)
<1>1. InFlight(w)
  BY DEF StageStep, ReturnCachedRun, EnterTry, SkipStage3, RunStage3,
         SkipStage4, RunStage4, RunQualityLoop, RunRuntimePreparation,
         CompleteRun, InFlight, Executing
<1>2. req[w].pc # "idle" /\ \A r \in Request : r.pc \in Executing =>
                               r.pc \notin {"idle", "admit"}
  BY <1>1 DEF InFlight, Executing
<1>3. /\ req[w] \in Request /\ req[w].row \in Row /\ req[w].dep \in DepRuns
      /\ req[w].payload \in Result /\ req[w].payload.generation \in Artifact
      /\ req[w].payload.optimization \in Artifact
      /\ active \in Version /\ req \in [Workers -> Request]
  BY <1>2, BegunTyped DEF Result, TypeInv, TypeOK
<1>4. active' = active
  BY DEF StageStep, ReturnCachedRun, EnterTry, SkipStage3, RunStage3,
         SkipStage4, RunStage4, RunQualityLoop, RunRuntimePreparation,
         CompleteRun
<1>5. CachesTyped
  BY <1>3, CacheTyped
  DEF StageStep, ReturnCachedRun, EnterTry, SkipStage3, RunStage3,
      SkipStage4, RunStage4, RunQualityLoop, RunRuntimePreparation,
      CompleteRun, CachesTyped, CacheUnchanged, TypeInv, TypeOK
<1>6. CASE ReturnCachedRun(w)
  <2>1. Leaves(w)
    BY <1>6 DEF ReturnCachedRun, Leaves
  <2> QED BY <1>1, <1>2, <1>4, <1>5, <2>1 DEF StepForm
<1>7. CASE EnterTry(w)
  <2> DEFINE rest == [req[w] EXCEPT !.pc = "stage3", !.stage = "stage_3"]
  <2>1. rest \in Request /\ rest.dep = req[w].dep /\ rest.row = req[w].row
        /\ rest.pc = "stage3"
    BY <1>3 DEF Request, Pc, Stage
  <2>2. req' = [req EXCEPT ![w] = rest] /\ rows' = rows /\ lock' = lock
    BY <1>3, <1>7 DEF EnterTry
  <2> HIDE DEF rest
  <2>3. Moves(w)
    BY <2>1, <2>2 DEF Moves, GoesOn, Executing
  <2> QED BY <1>1, <1>2, <1>4, <1>5, <2>3 DEF StepForm
<1>8. CASE SkipStage3(w)
  <2>1. Moves(w)
    BY <1>2, <1>3, <1>8, AfterStageForms DEF SkipStage3, Moves, GoesOn
  <2> QED BY <1>1, <1>2, <1>4, <1>5, <2>1 DEF StepForm
<1>9. CASE SkipStage4(w)
  <2>1. Moves(w)
    BY <1>2, <1>3, <1>9, AfterStageForms DEF SkipStage4, Moves, GoesOn
  <2> QED BY <1>1, <1>2, <1>4, <1>5, <2>1 DEF StepForm
<1>10. CASE RunStage3(w)
  <2> DEFINE fresh == [EmptyResult EXCEPT !.summary = TRUE]
             sent == [req[w] EXCEPT !.payload = fresh]
             new == SaveStage3Result(req[w].row, fresh)
  <2>1. fresh \in Result
    BY EmptyTypes DEF Result
  <2>2. sent \in Request /\ sent.dep = req[w].dep
    BY <1>3, <2>1 DEF Request
  <2>3. new \in Row /\ new.status = req[w].row.status
    BY <1>3, <2>1 DEF SaveStage3Result, Row, Stage
  <2>4. CommitTo(w, new, AfterStage3(sent))
    BY <1>10 DEF RunStage3
  <2> HIDE DEF fresh, sent, new
  <2>5. Stores(w)
    BY <1>2, <2>2, <2>3, <2>4, AfterStageForms DEF Stores, GoesOn
  <2> QED BY <1>1, <1>2, <1>4, <1>5, <2>5 DEF StepForm
<1>11. CASE RunStage4(w)
  <2> DEFINE kept == IF req[w].payload.generation = NoSuite
                     THEN req[w].payload
                     ELSE DropFromVerification(req[w].payload)
             sent(s) == [req[w] EXCEPT
                           !.payload = [kept EXCEPT !.generation = s]]
             new(s) == SaveTestGeneration(req[w].row, s)
  <2>1. PICK s \in NewSuites : CommitTo(w, new(s), AfterStage4(sent(s)))
    BY <1>11 DEF RunStage4
  <2>2. s \in Suite
    BY <2>1 DEF NewSuites
  <2>3. kept \in Result
    BY <1>3, DroppingKeepsType
  <2>4. [kept EXCEPT !.generation = s] \in Result
    BY <2>2, <2>3 DEF Result, Artifact
  <2>5. sent(s) \in Request /\ sent(s).dep = req[w].dep
    BY <1>3, <2>4 DEF Request
  <2>6. new(s) \in Row
    BY <1>3, <2>2, SavedGenerationTyped
  <2>7. new(s).status = req[w].row.status
    BY <1>3 DEF SaveTestGeneration, Row
  <2> HIDE DEF sent, new
  <2>8. Stores(w)
    BY <1>2, <2>1, <2>5, <2>6, <2>7, AfterStageForms DEF Stores, GoesOn
  <2> QED BY <1>1, <1>2, <1>4, <1>5, <2>8 DEF StepForm
<1>12. CASE RunQualityLoop(w)
  <2> DEFINE s == req[w].payload.generation
             rest == [req[w] EXCEPT !.pc = "plan",
                                    !.stage = "runtime_preparation",
                                    !.payload.verification = s,
                                    !.payload.optimization = s]
             new(partial) == SaveQualityOptimization(req[w].row, s, partial)
  <2>1. PICK partial \in BOOLEAN : CommitTo(w, new(partial), rest)
    BY <1>12 DEF RunQualityLoop
  <2>2. [req[w].payload EXCEPT !.verification = s, !.optimization = s]
          \in Result
    BY <1>3 DEF Result
  <2>3. rest = [req[w] EXCEPT !.pc = "plan", !.stage = "runtime_preparation",
                  !.payload = [req[w].payload EXCEPT !.verification = s,
                                                     !.optimization = s]]
    BY <1>3 DEF Request
  <2>4. rest \in Request /\ rest.dep = req[w].dep /\ rest.pc = "plan"
    BY <1>3, <2>2, <2>3 DEF Request, Pc, Stage
  <2>5. new(partial) \in Row
    BY <1>3, <2>1, SavedSuiteTyped
  <2>6. new(partial).status = req[w].row.status
    BY <1>3 DEF SaveQualityOptimization, Row
  <2> HIDE DEF rest, new
  <2>7. Stores(w)
    BY <2>1, <2>4, <2>5, <2>6 DEF Stores, GoesOn, Executing
  <2> QED BY <1>1, <1>2, <1>4, <1>5, <2>7 DEF StepForm
<1>13. CASE RunRuntimePreparation(w)
  <2> DEFINE s == req[w].payload.optimization
             rest == [req[w] EXCEPT !.pc = "complete", !.payload.plan = s]
             new == SaveRuntimeExecutionPlan(req[w].row, s)
  <2>1. [req[w].payload EXCEPT !.plan = s] \in Result
    BY <1>3 DEF Result
  <2>2. rest = [req[w] EXCEPT !.pc = "complete",
                  !.payload = [req[w].payload EXCEPT !.plan = s]]
    BY <1>3 DEF Request
  <2>3. rest \in Request /\ rest.dep = req[w].dep /\ rest.pc = "complete"
    BY <1>3, <2>1, <2>2 DEF Request, Pc
  <2>4. new \in Row
    BY <1>3, SavedSuiteTyped
  <2>5. new.status = req[w].row.status
    BY <1>3 DEF SaveRuntimeExecutionPlan, Row
  <2>6. CommitTo(w, new, rest)
    BY <1>13 DEF RunRuntimePreparation
  <2> HIDE DEF rest, new
  <2>7. Stores(w)
    BY <2>3, <2>4, <2>5, <2>6 DEF Stores, GoesOn, Executing
  <2> QED BY <1>1, <1>2, <1>4, <1>5, <2>7 DEF StepForm
<1>14. CASE CompleteRun(w)
  <2> DEFINE new == Complete(req[w].row,
                             [req[w].payload EXCEPT !.stamp = active])
  <2>1. [req[w].payload EXCEPT !.stamp = active] \in Result
    BY <1>3 DEF Result
  <2>2. new \in Row /\ new.status = "completed"
    BY <1>3, <2>1 DEF Complete, Row, Status
  <2>3. CommitAndEnd(w, new)
    BY <1>14 DEF CompleteRun
  <2> HIDE DEF new
  <2>4. StoresLast(w)
    BY <2>2, <2>3 DEF StoresLast
  <2> QED BY <1>1, <1>2, <1>4, <1>5, <2>4 DEF StepForm
<1> QED BY <1>6, <1>7, <1>8, <1>9, <1>10, <1>11, <1>12, <1>13, <1>14
        DEF StageStep

EndpointStep(w) ==
    \/ SaveGeneration(w) \/ SaveVerification(w) \/ SaveCheckpoint(w)
    \/ SaveOptimization(w) \/ PersistRuntimePlan(w)
    \/ Fail(w) \/ DieUnrecorded(w)

(* The endpoints of single stages, and the failures of one request.        *)
LEMMA EndpointForms ==
    ASSUME TypeInv, NEW w \in Workers, EndpointStep(w)
    PROVE  StepForm(w)
<1>1. req[w].pc # "idle"
  BY DEF EndpointStep, SaveGeneration, SaveVerification, SaveCheckpoint,
         SaveOptimization, PersistRuntimePlan, Fail, DieUnrecorded, Executing
<1>2. /\ req[w] \in Request /\ req[w].row \in Row /\ req[w].dep \in DepRuns
      /\ req[w].base \in Artifact /\ req[w].stage \in Stage
      /\ active \in Version
  BY <1>1, BegunTyped
<1>3. active' = active
  BY DEF EndpointStep, SaveGeneration, SaveVerification, SaveCheckpoint,
         SaveOptimization, PersistRuntimePlan, Fail, DieUnrecorded
<1>4. CachesTyped
  BY <1>2
  DEF EndpointStep, SaveGeneration, SaveVerification, SaveCheckpoint,
      SaveOptimization, PersistRuntimePlan, Fail, DieUnrecorded, CachesTyped,
      CacheUnchanged, TypeInv, TypeOK
<1>5. CASE SaveGeneration(w)
  <2> DEFINE new(s) == SaveTestGeneration(req[w].row, s)
  <2>1. PICK s \in NewSuites : CommitAndEnd(w, new(s))
    BY <1>5 DEF SaveGeneration
  <2>2. new(s) \in Row
    BY <1>2, <2>1, SavedGenerationTyped DEF NewSuites
  <2>3. new(s).status = req[w].row.status
    BY <1>2 DEF SaveTestGeneration, Row
  <2> HIDE DEF new
  <2> QED BY <1>1, <1>3, <1>4, <2>1, <2>2, <2>3 DEF StepForm, StoresLast
<1>6. CASE SaveVerification(w)
  <2> DEFINE new == SaveTestVerification(req[w].row, req[w].base)
  <2>1. new \in Row
    BY <1>2, SavedSuiteTyped
  <2>2. new.status = req[w].row.status
    BY <1>2 DEF SaveTestVerification, Row
  <2>3. CommitAndEnd(w, new)
    BY <1>6 DEF SaveVerification
  <2> HIDE DEF new
  <2> QED BY <1>1, <1>3, <1>4, <2>1, <2>2, <2>3 DEF StepForm, StoresLast
<1>7. CASE SaveCheckpoint(w)
  <2> DEFINE new(verified) ==
               SaveQualityCheckpoint(req[w].row, req[w].base, verified)
  <2>1. PICK verified \in BOOLEAN : CommitTo(w, new(verified), req[w])
    BY <1>7 DEF SaveCheckpoint
  <2>2. new(verified) \in Row
    BY <1>2, <2>1, SavedSuiteTyped
  <2>3. new(verified).status = req[w].row.status
    BY <1>2 DEF SaveQualityCheckpoint, Row
  <2>4. GoesOn(w, req[w])
    BY <1>7 DEF SaveCheckpoint, GoesOn, InFlight, Executing
  <2> HIDE DEF new
  <2>5. Stores(w)
    BY <1>2, <2>1, <2>2, <2>3, <2>4 DEF Stores
  <2> QED BY <1>1, <1>3, <1>4, <2>5 DEF StepForm
<1>8. CASE SaveOptimization(w)
  <2> DEFINE rest == [req[w] EXCEPT !.pc = "optimize_plan"]
             new(partial) ==
               SaveQualityOptimization(req[w].row, req[w].base, partial)
  <2>1. PICK partial \in BOOLEAN : CommitTo(w, new(partial), rest)
    BY <1>8 DEF SaveOptimization
  <2>2. new(partial) \in Row
    BY <1>2, <2>1, SavedSuiteTyped
  <2>3. new(partial).status = req[w].row.status
    BY <1>2 DEF SaveQualityOptimization, Row
  <2>4. rest \in Request /\ rest.dep = req[w].dep
        /\ rest.pc = "optimize_plan"
    BY <1>2 DEF Request, Pc
  <2>5. ~InFlight(w)
    BY <1>8 DEF SaveOptimization, InFlight, Executing
  <2> HIDE DEF rest, new
  <2>6. Stores(w)
    BY <2>1, <2>2, <2>3, <2>4, <2>5 DEF Stores, GoesOn
  <2> QED BY <1>1, <1>3, <1>4, <2>6 DEF StepForm
<1>9. CASE PersistRuntimePlan(w)
  <2> DEFINE new == SaveRuntimeExecutionPlan(req[w].row, req[w].base)
  <2>1. new \in Row
    BY <1>2, SavedSuiteTyped
  <2>2. new.status = req[w].row.status
    BY <1>2 DEF SaveRuntimeExecutionPlan, Row
  <2>3. CommitAndEnd(w, new)
    BY <1>9 DEF PersistRuntimePlan
  <2> HIDE DEF new
  <2> QED BY <1>1, <1>3, <1>4, <2>1, <2>2, <2>3 DEF StepForm, StoresLast
<1>10. CASE Fail(w)
  <2> DEFINE new == FailRun(req[w].row, FailedStageOf(req[w]))
  <2>1. FailedStageOf(req[w]) \in Stage
    BY <1>2, <1>10 DEF Fail, FailedStageOf, Executing, Stage
  <2>2. new \in Row /\ new.status = "failed"
    BY <1>2, <2>1 DEF FailRun, Row, Status
  <2>3. CommitAndEnd(w, new)
    BY <1>10 DEF Fail
  <2> HIDE DEF new
  <2> QED BY <1>1, <1>3, <1>4, <2>2, <2>3 DEF StepForm, StoresLast
<1>11. CASE DieUnrecorded(w)
  <2>1. Leaves(w)
    BY <1>11 DEF DieUnrecorded, Leaves
  <2> QED BY <1>1, <1>3, <1>4, <2>1 DEF StepForm
<1> QED BY <1>5, <1>6, <1>7, <1>8, <1>9, <1>10, <1>11 DEF EndpointStep

(* A step of one of these forms keeps everything well typed.               *)
LEMMA StepFormTyped ==
    ASSUME TypeInv, NEW w \in Workers, StepForm(w)
    PROVE  TypeInv'
<1>1. req[w].pc # "idle" /\ active' = active /\ CachesTyped
  BY DEF StepForm
<1>2. CASE Stores(w)
  BY <1>1, <1>2, CommitToTyped DEF Stores, GoesOn, CachesTyped, TypeInv, TypeOK
<1>3. CASE StoresLast(w)
  BY <1>1, <1>3, CommitAndEndTyped DEF StoresLast, CachesTyped, TypeInv, TypeOK
<1>4. CASE Moves(w)
  BY <1>1, <1>4, MovedTyped DEF Moves, GoesOn, CachesTyped, TypeInv, TypeOK
<1>5. CASE Leaves(w)
  BY <1>1, <1>5, EndedTyped
  DEF Leaves, ReleaseLock, CachesTyped, TypeInv, TypeOK
<1> QED BY <1>2, <1>3, <1>4, <1>5 DEF StepForm

(* A request that begins.                                                  *)
LEMMA BeginTyped ==
    ASSUME TypeInv, NEW w \in Workers, Begin(w)
    PROVE  TypeInv'
<1>1. PICK d \in DepRuns :
        \/ BeginRun(w, "run", d) \/ BeginRun(w, "understand", d)
        \/ BeginRetry(w, d) \/ BeginForcedRerun(w, d)
        \/ BeginGenerate(w, d) \/ BeginRetryGeneration(w, d)
        \/ \E s \in Suite : BeginVerify(w, d, s) \/ BeginOptimize(w, d, s)
  BY DEF Begin
<1>2. /\ rows[d].result \in Result
      /\ rows[d].result.checkpoint \in Artifact /\ savedPoint[d] \in Artifact
  BY DEF TypeInv, TypeOK, Row, Result
<1>3. EmptyResult \in Result /\ NoSuite \in Artifact
  BY EmptyTypes DEF Artifact
<1>4. CASE BeginRun(w, "run", d) \/ BeginRun(w, "understand", d)
  BY <1>3, <1>4, StartKeepsType DEF BeginRun, AllOps, Pc
<1>5. CASE BeginRetry(w, d)
  BY <1>3, <1>5, StartKeepsType DEF BeginRetry, AllOps, Pc
<1>6. CASE BeginForcedRerun(w, d)
  BY <1>3, <1>6, StartKeepsType DEF BeginForcedRerun, AllOps, Pc
<1>7. CASE BeginGenerate(w, d)
  BY <1>3, <1>7, StartKeepsType
  DEF BeginGenerate, LoadStage3Artifact, AllOps, Pc
<1>8. CASE BeginRetryGeneration(w, d)
  BY <1>2, <1>3, <1>8, StartKeepsType DEF BeginRetryGeneration, AllOps, Pc
<1>9. ASSUME NEW s \in Suite, BeginVerify(w, d, s)
      PROVE  TypeInv'
  <2>1. s \in Artifact
    BY DEF Artifact
  <2> QED BY <1>3, <1>9, <2>1, StartKeepsType
          DEF BeginVerify, LoadStage3Artifact, AllOps, Pc
<1>10. ASSUME NEW s \in Suite, BeginOptimize(w, d, s)
       PROVE  TypeInv'
  <2>1. ResumeSuite(d, s) \in Artifact
    BY <1>2 DEF ResumeSuite, Artifact
  <2> QED BY <1>3, <1>10, <2>1, StartKeepsType
          DEF BeginOptimize, LoadStage3Artifact, AllOps, Pc
<1> QED BY <1>1, <1>4, <1>5, <1>6, <1>7, <1>8, <1>9, <1>10

(* A restart of the server.                                                *)
LEMMA RestartTyped ==
    ASSUME TypeInv, Restart
    PROVE  TypeInv'
<1>1. active' \in Version
  BY DEF Restart, TypeInv, TypeOK, Version
<1>2. req' \in [Workers -> Request] /\ RequestsTyped'
  BY IdleTyped DEF Restart, RequestsTyped, IdleRequest
<1> QED BY <1>1, <1>2 DEF Restart, CacheUnchanged, TypeInv, TypeOK

(* TypeInv is inductive.                                                   *)
LEMMA NextTyped ==
    ASSUME TypeInv, [Next]_vars
    PROVE  TypeInv'
<1>1. CASE UNCHANGED vars
  BY <1>1 DEF vars, TypeInv, TypeOK, RequestsTyped
<1>2. ASSUME NEW w \in Workers, Begin(w)
      PROVE  TypeInv'
  BY <1>2, BeginTyped
<1>3. ASSUME NEW w \in Workers, Progress(w)
      PROVE  TypeInv'
  BY <1>3, AdmissionTyped, StageForms, EndpointForms, StepFormTyped
  DEF Progress, StageStep, EndpointStep
<1>4. ASSUME NEW w \in Workers,
             SaveCheckpoint(w) \/ Fail(w) \/ DieUnrecorded(w)
      PROVE  TypeInv'
  BY <1>4, EndpointForms, StepFormTyped DEF EndpointStep
<1>5. CASE Restart
  BY <1>5, RestartTyped
<1> QED BY <1>1, <1>2, <1>3, <1>4, <1>5 DEF Next

(* Whatever the requests, the failures and the restarts do, the persisted  *)
(* rows, the lock, the Redis entries and the requests stay well typed, in  *)
(* particular a row never leaves the statuses and stages the code defines. *)
THEOREM TypeSafety == Spec => []TypeOK
<1>1. Init => TypeInv
  BY InitTyped
<1>2. TypeInv /\ [Next]_vars => TypeInv'
  BY NextTyped
<1>3. TypeInv => TypeOK
  BY DEF TypeInv
<1> QED BY <1>1, <1>2, <1>3, PTL DEF Spec

-----------------------------------------------------------------------------
(* Admission.  What makes CreateExclusion inductive: a request that looks  *)
(* a run up keeps the project lock until its first commit, and a request   *)
(* past its first commit works on a row that exists, so nobody else's      *)
(* commit can bring the missing row into being.                            *)

AdmitHoldsLock == \A w \in Workers : req[w].pc = "admit" => lock = w

Exists(row) == row.status # "absent"

AdmittedExists ==
    \A w \in Workers : req[w].pc \notin {"idle", "admit"} =>
       Exists(req[w].row) /\ Exists(rows[req[w].dep])

SeenStillExists ==
    \A w \in Workers : req[w].pc = "admit" /\ Exists(req[w].row)
       => Exists(rows[req[w].dep])

AdmissionInv ==
    AdmitHoldsLock /\ AdmittedExists /\ SeenStillExists /\ CreateExclusion

(* A commit by the lock holder, or by a request whose row exists, of a row *)
(* that exists: the others' knowledge of what exists stays valid.          *)
LEMMA CommitKeepsOthers ==
    ASSUME TypeInv, AdmissionInv, NEW w \in Workers, req[w].pc # "idle",
           NEW new \in Row, Exists(new),
           rows' = [rows EXCEPT ![req[w].dep] = Committed(w, new)],
           NEW next \in Request, req' = [req EXCEPT ![w] = next],
           ReleaseLock(w)
    PROVE  /\ Exists(Committed(w, new))
           /\ \A v \in Workers \ {w} :
                 /\ req'[v] = req[v]
                 /\ req[v].pc = "admit" => lock' = v
                 /\ req[v].pc \notin {"idle", "admit"} =>
                       Exists(req[v].row) /\ Exists(rows'[req[v].dep])
                 /\ req[v].pc = "admit" =>
                       rows'[req[v].dep] = rows[req[v].dep]
                       \/ (Exists(req[v].row) /\ Exists(rows'[req[v].dep]))
<1>1. /\ req[w].dep \in DepRuns /\ req[w].row \in Row
      /\ rows[req[w].dep] \in Row
      /\ rows \in [DepRuns -> Row] /\ req \in [Workers -> Request]
  BY BegunTyped DEF TypeInv, TypeOK
<1>2. Exists(Committed(w, new))
  <2>1. CASE req[w].pc = "admit" /\ ~Exists(req[w].row)
    BY <1>1, <2>1 DEF Committed, Merge, Exists
  <2>2. CASE req[w].pc # "admit" \/ Exists(req[w].row)
    <3>1. Exists(rows[req[w].dep])
      BY <2>2 DEF AdmissionInv, AdmittedExists, SeenStillExists
    <3> QED BY <1>1, <3>1 DEF Committed, Merge, Exists
  <2> QED BY <2>1, <2>2
<1>3. ASSUME NEW v \in Workers \ {w}
      PROVE  /\ req'[v] = req[v]
             /\ req[v].pc = "admit" => lock' = v
             /\ req[v].pc \notin {"idle", "admit"} =>
                   Exists(req[v].row) /\ Exists(rows'[req[v].dep])
             /\ req[v].pc = "admit" =>
                   rows'[req[v].dep] = rows[req[v].dep]
                   \/ (Exists(req[v].row) /\ Exists(rows'[req[v].dep]))
  <2>1. req'[v] = req[v]
    BY <1>1
  <2>2. req[v].pc = "admit" => lock' = v
    BY DEF ReleaseLock, AdmissionInv, AdmitHoldsLock
  <2>3. req[v].pc # "idle" => req[v].dep \in DepRuns
    BY DEF TypeInv, RequestsTyped
  <2>4. req[v].pc # "idle" =>
           \/ rows'[req[v].dep] = rows[req[v].dep]
           \/ req[v].dep = req[w].dep /\ Exists(rows'[req[v].dep])
    BY <1>1, <1>2, <2>3
  <2>5. req[v].pc \notin {"idle", "admit"} =>
           Exists(req[v].row) /\ Exists(rows'[req[v].dep])
    BY <2>4 DEF AdmissionInv, AdmittedExists
  <2>6. req[v].pc = "admit" => req[w].pc # "admit"
    BY DEF AdmissionInv, AdmitHoldsLock
  <2>7. req[v].pc = "admit" =>
           rows'[req[v].dep] = rows[req[v].dep]
           \/ (Exists(req[v].row) /\ Exists(rows'[req[v].dep]))
    BY <2>4, <2>6
    DEF AdmissionInv, AdmittedExists, CreateExclusion, Exists
  <2> QED BY <2>1, <2>2, <2>5, <2>7
<1> QED BY <1>2, <1>3

(* A commit by w keeps AdmissionInv: it releases the lock only if w held   *)
(* it, and touches only the row of its own dependency run.                 *)
LEMMA CommitToKeepsAdmission ==
    ASSUME TypeInv, AdmissionInv, NEW w \in Workers, req[w].pc # "idle",
           NEW new \in Row, Exists(new), NEW rest \in Request,
           rest.dep = req[w].dep, rest.pc \notin {"idle", "admit"},
           CommitTo(w, new, rest)
    PROVE  AdmissionInv'
<1> DEFINE merged == Committed(w, new)
           next == [rest EXCEPT !.row = merged]
<1>1. /\ req[w].dep \in DepRuns /\ req[w].row \in Row
      /\ rows[req[w].dep] \in Row
      /\ rows \in [DepRuns -> Row] /\ req \in [Workers -> Request]
  BY BegunTyped DEF TypeInv, TypeOK
<1>2. merged \in Row
  BY <1>1, MergeType DEF Committed
<1>3. next \in Request /\ next.dep = req[w].dep /\ next.row = merged
      /\ next.pc \notin {"idle", "admit"}
  BY <1>2 DEF Request
<1>4. /\ rows' = [rows EXCEPT ![req[w].dep] = merged]
      /\ req' = [req EXCEPT ![w] = next]
      /\ ReleaseLock(w)
  BY DEF CommitTo
<1> HIDE DEF merged, next
<1>5. /\ Exists(merged)
      /\ \A v \in Workers \ {w} :
            /\ req'[v] = req[v]
            /\ req[v].pc = "admit" => lock' = v
            /\ req[v].pc \notin {"idle", "admit"} =>
                  Exists(req[v].row) /\ Exists(rows'[req[v].dep])
            /\ req[v].pc = "admit" =>
                  rows'[req[v].dep] = rows[req[v].dep]
                  \/ (Exists(req[v].row) /\ Exists(rows'[req[v].dep]))
  BY <1>3, <1>4, CommitKeepsOthers DEF merged
<1>6. req'[w] = next /\ rows'[req[w].dep] = merged
  BY <1>1, <1>4
<1>7. AdmitHoldsLock'
  BY <1>3, <1>5, <1>6 DEF AdmitHoldsLock
<1>8. AdmittedExists'
  BY <1>3, <1>5, <1>6 DEF AdmittedExists
<1>9. SeenStillExists'
  BY <1>3, <1>5, <1>6 DEF SeenStillExists, AdmissionInv
<1>10. CreateExclusion'
  BY <1>3, <1>5, <1>6 DEF CreateExclusion, AdmissionInv, Exists
<1> QED BY <1>7, <1>8, <1>9, <1>10 DEF AdmissionInv

(* The same for the commit that ends its request.                          *)
LEMMA CommitAndEndKeepsAdmission ==
    ASSUME TypeInv, AdmissionInv, NEW w \in Workers, req[w].pc # "idle",
           NEW new \in Row, Exists(new), CommitAndEnd(w, new)
    PROVE  AdmissionInv'
<1>1. req \in [Workers -> Request] /\ IdleRequest \in Request
  BY IdleTyped DEF TypeInv, TypeOK
<1>2. \A v \in Workers \ {w} :
         /\ req'[v] = req[v]
         /\ req[v].pc = "admit" => lock' = v
         /\ req[v].pc \notin {"idle", "admit"} =>
               Exists(req[v].row) /\ Exists(rows'[req[v].dep])
         /\ req[v].pc = "admit" =>
               rows'[req[v].dep] = rows[req[v].dep]
               \/ (Exists(req[v].row) /\ Exists(rows'[req[v].dep]))
  BY <1>1, CommitKeepsOthers DEF CommitAndEnd
<1>3. req'[w].pc = "idle"
  BY <1>1 DEF CommitAndEnd, IdleRequest
<1>4. AdmitHoldsLock'
  BY <1>2, <1>3 DEF AdmitHoldsLock
<1>5. AdmittedExists'
  BY <1>2, <1>3 DEF AdmittedExists
<1>6. SeenStillExists'
  BY <1>2, <1>3 DEF SeenStillExists, AdmissionInv
<1>7. CreateExclusion'
  BY <1>2, <1>3 DEF CreateExclusion, AdmissionInv, Exists
<1> QED BY <1>4, <1>5, <1>6, <1>7 DEF AdmissionInv

(* A step that commits nothing and leaves the lock to whoever holds it.    *)
LEMMA MoveKeepsAdmission ==
    ASSUME TypeInv, AdmissionInv, NEW w \in Workers,
           rows' = rows, NEW rest, req' = [req EXCEPT ![w] = rest],
           rest.pc # "admit",
           rest.pc = "idle" \/ (Exists(rest.row) /\ Exists(rows[rest.dep])),
           \/ lock' = lock
           \/ lock = Nobody
           \/ ReleaseLock(w)
    PROVE  AdmissionInv'
<1>1. req'[w] = rest /\ \A v \in Workers \ {w} : req'[v] = req[v]
  BY DEF TypeInv, TypeOK
<1>2. \A v \in Workers \ {w} : lock = v => lock' = v
  BY NobodyAssumption DEF ReleaseLock
<1>3. AdmitHoldsLock'
  BY <1>1, <1>2 DEF AdmissionInv, AdmitHoldsLock
<1>4. AdmittedExists'
  BY <1>1 DEF AdmissionInv, AdmittedExists
<1>5. SeenStillExists'
  BY <1>1 DEF AdmissionInv, SeenStillExists
<1>6. CreateExclusion'
  BY <1>1 DEF AdmissionInv, CreateExclusion
<1> QED BY <1>3, <1>4, <1>5, <1>6 DEF AdmissionInv

(* A request that begins by looking an existing run up.                    *)
LEMMA StartKeepsAdmission ==
    ASSUME TypeInv, AdmissionInv, NEW w \in Workers, NEW op, NEW d \in DepRuns,
           NEW pc, NEW payload, NEW base, pc # "admit", Exists(rows[d]),
           Start(w, op, d, pc, payload, base), rows' = rows, lock' = lock
    PROVE  AdmissionInv'
<1> DEFINE rest == [pc |-> pc, op |-> op, dep |-> d, row |-> rows[d],
                    payload |-> payload, stage |-> "none", base |-> base]
<1>1. req' = [req EXCEPT ![w] = rest]
  BY DEF Start
<1>2. rest.pc # "admit" /\ Exists(rest.row) /\ Exists(rows[rest.dep])
  OBVIOUS
<1> HIDE DEF rest
<1> QED BY <1>1, <1>2, MoveKeepsAdmission

(* run() and understand() enter admission holding the lock, with the row   *)
(* as the database has it.                                                 *)
LEMMA BeginRunKeepsAdmission ==
    ASSUME TypeInv, AdmissionInv, NEW w \in Workers, NEW d \in DepRuns,
           NEW op \in AllOps, BeginRun(w, op, d)
    PROVE  AdmissionInv'
<1> DEFINE rest == [pc |-> "admit", op |-> op, dep |-> d, row |-> rows[d],
                    payload |-> EmptyResult, stage |-> "none",
                    base |-> NoSuite]
<1>1. req' = [req EXCEPT ![w] = rest] /\ rows' = rows
      /\ lock = Nobody /\ lock' = w
  BY DEF BeginRun, Start
<1>2. req'[w] = rest /\ \A v \in Workers \ {w} : req'[v] = req[v]
  BY <1>1 DEF TypeInv, TypeOK
<1>3. \A v \in Workers : req[v].pc # "admit"
  BY <1>1, NobodyAssumption DEF AdmissionInv, AdmitHoldsLock
<1>4. AdmitHoldsLock'
  BY <1>1, <1>2, <1>3 DEF AdmitHoldsLock
<1>5. AdmittedExists'
  BY <1>1, <1>2 DEF AdmissionInv, AdmittedExists
<1>6. SeenStillExists'
  BY <1>1, <1>2, <1>3 DEF SeenStillExists
<1>7. CreateExclusion'
  BY <1>1, <1>2, <1>3 DEF CreateExclusion
<1> QED BY <1>4, <1>5, <1>6, <1>7 DEF AdmissionInv

(* No request that begins breaks AdmissionInv: the other entry points      *)
(* neither hold the lock nor look for an absent row.                       *)
LEMMA BeginKeepsAdmission ==
    ASSUME TypeInv, AdmissionInv, NEW w \in Workers, Begin(w)
    PROVE  AdmissionInv'
<1>1. PICK d \in DepRuns :
        \/ BeginRun(w, "run", d) \/ BeginRun(w, "understand", d)
        \/ BeginRetry(w, d) \/ BeginForcedRerun(w, d)
        \/ BeginGenerate(w, d) \/ BeginRetryGeneration(w, d)
        \/ \E s \in Suite : BeginVerify(w, d, s) \/ BeginOptimize(w, d, s)
  BY DEF Begin
<1>2. CASE BeginRun(w, "run", d) \/ BeginRun(w, "understand", d)
  BY <1>2, BeginRunKeepsAdmission DEF AllOps
<1>3. CASE BeginRetry(w, d)
  BY <1>3, StartKeepsAdmission DEF BeginRetry, Exists
<1>4. CASE BeginForcedRerun(w, d)
  BY <1>4, StartKeepsAdmission DEF BeginForcedRerun, Exists
<1>5. CASE BeginGenerate(w, d)
  BY <1>5, StartKeepsAdmission DEF BeginGenerate, LoadStage3Artifact, Exists
<1>6. CASE BeginRetryGeneration(w, d)
  BY <1>6, StartKeepsAdmission DEF BeginRetryGeneration, Exists
<1>7. ASSUME NEW s \in Suite, BeginVerify(w, d, s) \/ BeginOptimize(w, d, s)
      PROVE  AdmissionInv'
  BY <1>7, StartKeepsAdmission
  DEF BeginVerify, BeginOptimize, LoadStage3Artifact, Exists
<1> QED BY <1>1, <1>2, <1>3, <1>4, <1>5, <1>6, <1>7

(* The repository's methods never bring a row back to "absent".            *)
LEMMA MethodsKeepExistence ==
    ASSUME NEW row \in Row, Exists(row)
    PROVE  /\ Exists(MarkRunning(row)) /\ Exists(PrepareRetry(row))
           /\ Exists(PrepareForcedRerun(row))
           /\ Exists(PrepareArtifactRegeneration) /\ Exists(CreateRun)
           /\ \A payload : Exists(Complete(row, payload))
           /\ \A payload : Exists(SaveStage3Result(row, payload))
           /\ \A s : Exists(SaveTestGeneration(row, s))
           /\ \A s : Exists(SaveTestVerification(row, s))
           /\ \A s, flag : Exists(SaveQualityOptimization(row, s, flag))
           /\ \A s, flag : Exists(SaveQualityCheckpoint(row, s, flag))
           /\ \A s : Exists(SaveRuntimeExecutionPlan(row, s))
           /\ \A stage : Exists(FailRun(row, stage))
  BY DEF Exists, Row, MarkRunning, PrepareRetry, PrepareForcedRerun,
         PrepareArtifactRegeneration, CreateRun, NoRow, Complete,
         SaveStage3Result, SaveTestGeneration, SaveTestVerification,
         SaveQualityOptimization, SaveQualityCheckpoint,
         SaveRuntimeExecutionPlan, FailRun

(* Each step that creates, resumes, invalidates or relocks a run keeps     *)
(* AdmissionInv.                                                           *)
LEMMA AdmissionKeepsAdmission ==
    ASSUME TypeInv, AdmissionInv, NEW w \in Workers,
           \/ AdmitCreate(w) \/ MarkCreatedRunning(w) \/ AdmitLegacy(w)
           \/ AdmitStale(w) \/ AdmitResume(w) \/ CommitRetry(w)
           \/ CommitForcedRerun(w) \/ RelockCurrent(w) \/ RelockStale(w)
           \/ ReopenForGeneration(w) \/ RestoreForGeneration(w)
    PROVE  AdmissionInv'
<1>1. req[w].pc # "idle"
  BY DEF AdmitCreate, MarkCreatedRunning, AdmitLegacy, AdmitStale,
         AdmitResume, CommitRetry, CommitForcedRerun, RelockCurrent,
         RelockStale, ReopenForGeneration, RestoreForGeneration, Admitting
<1>2. /\ req[w] \in Request /\ req[w].row \in Row
      /\ req[w].row.result \in Result /\ req[w].payload \in Result
      /\ req \in [Workers -> Request]
  BY <1>1, BegunTyped DEF TypeInv, TypeOK
<1>3. {"pending", "precheck", "relock", "restore", "generate"} \subseteq Pc
  BY DEF Pc
<1>4. req[w].pc # "admit" => Exists(req[w].row) /\ Exists(rows[req[w].dep])
  BY <1>1 DEF AdmissionInv, AdmittedExists
<1>5. /\ CreateRun \in Row /\ MarkRunning(req[w].row) \in Row
      /\ PrepareRetry(req[w].row) \in Row
      /\ PrepareForcedRerun(req[w].row) \in Row
      /\ PrepareArtifactRegeneration \in Row
  BY <1>2, PrepareTypes
<1>6. Exists(CreateRun) /\ Exists(PrepareArtifactRegeneration)
  BY DEF Exists, CreateRun, PrepareArtifactRegeneration, NoRow
<1>7. CASE AdmitCreate(w)
  <2> DEFINE rest == [req[w] EXCEPT !.pc = "pending"]
  <2>1. rest \in Request /\ rest.dep = req[w].dep
        /\ rest.pc \notin {"idle", "admit"}
    BY <1>2, <1>3 DEF Request
  <2> QED BY <1>1, <1>5, <1>6, <1>7, <2>1, CommitToKeepsAdmission
          DEF AdmitCreate
<1>8. CASE MarkCreatedRunning(w)
  <2> DEFINE rest == [req[w] EXCEPT !.pc = "precheck"]
  <2>1. rest \in Request /\ rest.dep = req[w].dep
        /\ rest.pc \notin {"idle", "admit"}
    BY <1>2, <1>3 DEF Request
  <2>2. Exists(req[w].row)
    BY <1>4, <1>8 DEF MarkCreatedRunning
  <2> QED BY <1>1, <1>2, <1>5, <1>8, <2>1, <2>2, MethodsKeepExistence,
             CommitToKeepsAdmission DEF MarkCreatedRunning
<1>9. CASE AdmitLegacy(w)
  <2> DEFINE rest == [req[w] EXCEPT !.pc = "precheck",
                                    !.payload = req[w].row.result]
  <2>1. rest \in Request /\ rest.dep = req[w].dep
        /\ rest.pc \notin {"idle", "admit"}
    BY <1>2, <1>3 DEF Request
  <2>2. Exists(req[w].row)
    BY <1>4, <1>9 DEF Admitting, Exists, AdmitLegacy
  <2> QED BY <1>1, <1>2, <1>5, <1>9, <2>1, <2>2, MethodsKeepExistence,
             CommitToKeepsAdmission DEF AdmitLegacy
<1>10. CASE AdmitStale(w)
  <2> DEFINE rest == [req[w] EXCEPT !.pc = "precheck"]
  <2>1. rest \in Request /\ rest.dep = req[w].dep
        /\ rest.pc \notin {"idle", "admit"}
    BY <1>2, <1>3 DEF Request
  <2> QED BY <1>1, <1>5, <1>6, <1>10, <2>1, CommitToKeepsAdmission
          DEF AdmitStale
<1>11. CASE AdmitResume(w)
  <2> DEFINE rest == [req[w] EXCEPT !.pc = "precheck",
                                    !.payload = req[w].row.result]
  <2>1. rest \in Request /\ rest.dep = req[w].dep
        /\ rest.pc \notin {"idle", "admit"}
    BY <1>2, <1>3 DEF Request
  <2>2. Exists(req[w].row)
    BY <1>4, <1>11 DEF Admitting, Exists, AdmitResume
  <2> QED BY <1>1, <1>2, <1>5, <1>11, <2>1, <2>2, MethodsKeepExistence,
             CommitToKeepsAdmission DEF AdmitResume
<1>12. CASE CommitRetry(w)
  <2> DEFINE rest == [req[w] EXCEPT !.pc = "relock"]
  <2>1. rest \in Request /\ rest.dep = req[w].dep
        /\ rest.pc \notin {"idle", "admit"}
    BY <1>2, <1>3 DEF Request
  <2>2. Exists(req[w].row)
    BY <1>4, <1>12 DEF CommitRetry
  <2> QED BY <1>1, <1>2, <1>5, <1>12, <2>1, <2>2, MethodsKeepExistence,
             CommitToKeepsAdmission DEF CommitRetry
<1>13. CASE CommitForcedRerun(w)
  <2> DEFINE rest == [req[w] EXCEPT !.pc = "relock"]
  <2>1. rest \in Request /\ rest.dep = req[w].dep
        /\ rest.pc \notin {"idle", "admit"}
    BY <1>2, <1>3 DEF Request
  <2>2. Exists(req[w].row)
    BY <1>4, <1>13 DEF CommitForcedRerun
  <2> QED BY <1>1, <1>2, <1>5, <1>13, <2>1, <2>2, MethodsKeepExistence,
             CommitToKeepsAdmission DEF CommitForcedRerun
<1>14. CASE RelockStale(w)
  <2> DEFINE rest == [req[w] EXCEPT !.pc = "precheck"]
  <2>1. rest \in Request /\ rest.dep = req[w].dep
        /\ rest.pc \notin {"idle", "admit"}
    BY <1>2, <1>3 DEF Request
  <2> QED BY <1>1, <1>5, <1>6, <1>14, <2>1, CommitToKeepsAdmission
          DEF RelockStale
<1>15. CASE ReopenForGeneration(w)
  <2> DEFINE rest == [req[w] EXCEPT !.pc = "restore"]
  <2>1. rest \in Request /\ rest.dep = req[w].dep
        /\ rest.pc \notin {"idle", "admit"}
    BY <1>2, <1>3 DEF Request
  <2>2. Exists(req[w].row)
    BY <1>4, <1>15 DEF ReopenForGeneration
  <2> QED BY <1>1, <1>2, <1>5, <1>15, <2>1, <2>2, MethodsKeepExistence,
             CommitToKeepsAdmission DEF ReopenForGeneration
<1>16. CASE RelockCurrent(w)
  <2> DEFINE rest == [req[w] EXCEPT !.pc = "precheck",
                                    !.payload = req[w].row.result]
  <2>1. rest.pc = "precheck" /\ rest.row = req[w].row
        /\ rest.dep = req[w].dep
    BY <1>2 DEF Request
  <2>2. req' = [req EXCEPT ![w] = rest]
    BY <1>2, <1>16 DEF RelockCurrent
  <2>3. Exists(req[w].row) /\ Exists(rows[req[w].dep])
    BY <1>4, <1>16 DEF RelockCurrent
  <2>4. rows' = rows /\ lock = Nobody
    BY <1>16 DEF RelockCurrent
  <2> HIDE DEF rest
  <2> QED BY <2>1, <2>2, <2>3, <2>4, MoveKeepsAdmission
<1>17. CASE RestoreForGeneration(w)
  <2> DEFINE rest == [req[w] EXCEPT !.pc = "generate",
                                    !.payload = EmptyResult]
             new == [Complete(req[w].row, req[w].payload) EXCEPT
                        !.failedStage = "none"]
  <2>1. rest \in Request /\ rest.dep = req[w].dep /\ rest.pc = "generate"
    BY <1>2, <1>3, EmptyTypes DEF Request
  <2>2. new \in Row /\ Exists(new)
    BY <1>2 DEF Complete, Row, Status, Stage, Exists
  <2> QED BY <1>1, <1>17, <2>1, <2>2, CommitToKeepsAdmission
          DEF RestoreForGeneration
<1> QED BY <1>7, <1>8, <1>9, <1>10, <1>11, <1>12, <1>13, <1>14, <1>15, <1>16,
           <1>17

(* Each shape a later step can have keeps AdmissionInv.                    *)
LEMMA StepFormKeepsAdmission ==
    ASSUME TypeInv, AdmissionInv, NEW w \in Workers, StepForm(w),
           req[w].pc # "admit" \/ Leaves(w)
    PROVE  AdmissionInv'
<1>1. CASE Leaves(w)
  <2>1. IdleRequest.pc = "idle"
    BY DEF IdleRequest
  <2> QED BY <1>1, <2>1, MoveKeepsAdmission DEF Leaves
<1>2. CASE ~Leaves(w)
  <2>1. req[w].pc # "idle" /\ req[w] \in Request
    BY BegunTyped DEF StepForm
  <2>2. Exists(req[w].row) /\ Exists(rows[req[w].dep])
    BY <1>2, <2>1 DEF AdmissionInv, AdmittedExists
  <2>3. CASE Stores(w)
    BY <2>1, <2>2, <2>3, CommitToKeepsAdmission DEF Stores, GoesOn, Exists
  <2>4. CASE StoresLast(w)
    BY <2>1, <2>2, <2>4, CommitAndEndKeepsAdmission DEF StoresLast, Exists
  <2>5. CASE Moves(w)
    BY <2>2, <2>5, MoveKeepsAdmission DEF Moves, GoesOn
  <2> QED BY <1>2, <2>3, <2>4, <2>5 DEF StepForm
<1> QED BY <1>1, <1>2

(* A restart frees the lock and forgets every request.                     *)
LEMMA RestartKeepsAdmission ==
    ASSUME TypeInv, AdmissionInv, Restart
    PROVE  AdmissionInv'
  BY DEF Restart, AdmissionInv, AdmitHoldsLock, AdmittedExists,
         SeenStillExists, CreateExclusion, IdleRequest

(* AdmissionInv is inductive.                                              *)
LEMMA NextKeepsAdmission ==
    ASSUME TypeInv, AdmissionInv, [Next]_vars
    PROVE  AdmissionInv'
<1>1. CASE UNCHANGED vars
  BY <1>1 DEF vars, AdmissionInv, AdmitHoldsLock, AdmittedExists,
              SeenStillExists, CreateExclusion, Exists
<1>2. ASSUME NEW w \in Workers, Begin(w)
      PROVE  AdmissionInv'
  BY <1>2, BeginKeepsAdmission
<1>3. ASSUME NEW w \in Workers, StageStep(w)
      PROVE  AdmissionInv'
  BY <1>3, StageForms, StepFormKeepsAdmission DEF InFlight, Executing
<1>4. ASSUME NEW w \in Workers, EndpointStep(w)
      PROVE  AdmissionInv'
  <2>1. StepForm(w)
    BY <1>4, EndpointForms
  <2>2. req[w].pc # "admit" \/ Leaves(w)
    BY <1>4 DEF EndpointStep, SaveGeneration, SaveVerification,
       SaveCheckpoint, SaveOptimization, PersistRuntimePlan, Fail,
       DieUnrecorded, Leaves, Executing
  <2> QED BY <2>1, <2>2, StepFormKeepsAdmission
<1>5. ASSUME NEW w \in Workers, Progress(w)
      PROVE  AdmissionInv'
  BY <1>3, <1>4, <1>5, AdmissionKeepsAdmission
  DEF Progress, StageStep, EndpointStep
<1>6. CASE Restart
  BY <1>6, RestartKeepsAdmission
<1> QED BY <1>1, <1>2, <1>4, <1>5, <1>6 DEF Next, EndpointStep

(* A dependency run gets at most one pipeline run: however many requests   *)
(* look it up at once, whatever retries, endpoints, failures and restarts  *)
(* run beside them, when one inserts the row nobody has inserted it since  *)
(* it looked.                                                              *)
THEOREM OnePipelineRunPerDependencyRun == Spec => []CreateExclusion
<1>1. Init => TypeInv
  BY InitTyped
<1>2. Init => AdmissionInv
  BY DEF Init, AdmissionInv, AdmitHoldsLock, AdmittedExists,
         SeenStillExists, CreateExclusion, IdleRequest
<1>3. TypeInv /\ AdmissionInv /\ [Next]_vars => TypeInv' /\ AdmissionInv'
  BY NextTyped, NextKeepsAdmission
<1>4. AdmissionInv => CreateExclusion
  BY DEF AdmissionInv
<1> QED BY <1>1, <1>2, <1>3, <1>4, PTL DEF Spec
-----------------------------------------------------------------------------
(* run() and understand() on runs that exist already exclude one another,  *)
(* for every set of existing rows, with failures, lost failures, restarts  *)
(* and deployments.  A request checks the row and marks it RUNNING under   *)
(* one hold of the project lock.  From then on RUNNING itself refuses      *)
(* every other request, until the executing request stores the end of the  *)
(* run.  A restart may leave the row RUNNING for ever, but then nobody     *)
(* executes it.                                                            *)

(* Only run() and understand() are in use; the rows all exist.             *)
OnlyPipelineRequests ==
    \A w \in Workers :
       req[w].pc \in {"idle", "admit", "precheck"} \cup Executing

RowsExist ==
    \A d \in DepRuns : rows[d].status \in {"running", "completed", "failed"}

(* While it holds the lock, what a request has read is still so, and was   *)
(* not a reason to refuse it or to return the completed run.               *)
AdmittedIsFresh ==
    \A w \in Workers : req[w].pc = "admit" =>
       /\ lock = w
       /\ req[w].row = rows[req[w].dep]
       /\ rows[req[w].dep].status # "running"
       /\ ~Publishable(req[w].dep)

(* An executing request's row is RUNNING, and is the one it has in hand.   *)
InFlightIsRunning ==
    \A w \in Workers : InFlight(w) =>
       rows[req[w].dep].status = "running" /\ req[w].row = rows[req[w].dep]

ExecutionInv ==
    /\ OnlyPipelineRequests /\ RowsExist /\ AdmittedIsFresh
    /\ InFlightIsRunning /\ ExclusiveExecution

(* Whoever commits has the current row in hand, so exactly its new row is  *)
(* stored, and no other request is admitting or executing that run.        *)
LEMMA CommitterIsAlone ==
    ASSUME TypeInv, ExecutionInv, NEW w \in Workers, req[w].pc # "idle",
           NEW new \in Row
    PROVE  /\ Committed(w, new) = new
           /\ \A v \in Workers \ {w} :
                 req[v].pc # "idle" => req[v].dep # req[w].dep
<1>1. req[w].row \in Row /\ req[w].dep \in DepRuns
  BY BegunTyped
<1>2. req[w].pc = "admit" \/ InFlight(w)
  BY DEF ExecutionInv, OnlyPipelineRequests, InFlight
<1>3. req[w].row = rows[req[w].dep]
  BY <1>2 DEF ExecutionInv, AdmittedIsFresh, InFlightIsRunning
<1>4. Committed(w, new) = new
  BY <1>1, <1>3, MergeCurrent DEF Committed
<1>5. ASSUME NEW v \in Workers \ {w}, req[v].pc # "idle",
             req[v].dep = req[w].dep
      PROVE  FALSE
  <2>1. req[v].pc = "admit" \/ InFlight(v)
    BY <1>5 DEF ExecutionInv, OnlyPipelineRequests, InFlight
  <2>2. CASE req[v].pc = "admit" /\ req[w].pc = "admit"
    BY <2>2 DEF ExecutionInv, AdmittedIsFresh
  <2>3. CASE InFlight(v) /\ InFlight(w)
    BY <1>5, <2>3 DEF ExecutionInv, ExclusiveExecution
  <2>4. CASE req[v].pc = "admit" /\ InFlight(w)
    BY <1>5, <2>4 DEF ExecutionInv, AdmittedIsFresh, InFlightIsRunning
  <2>5. CASE InFlight(v) /\ req[w].pc = "admit"
    BY <1>5, <2>5 DEF ExecutionInv, AdmittedIsFresh, InFlightIsRunning
  <2> QED BY <1>2, <2>1, <2>2, <2>3, <2>4, <2>5
<1> QED BY <1>4, <1>5

(* A commit that goes on executes the run; a commit that ends does not.    *)
LEMMA CommitToKeepsExecution ==
    ASSUME TypeInv, ExecutionInv, NEW w \in Workers, req[w].pc # "idle",
           NEW new \in Row, new.status = "running", NEW rest \in Request,
           rest.dep = req[w].dep, rest.pc \in Executing \cup {"precheck"},
           CommitTo(w, new, rest), active' = active
    PROVE  ExecutionInv'
<1> DEFINE next == [rest EXCEPT !.row = new]
<1>1. /\ req[w].dep \in DepRuns
      /\ rows \in [DepRuns -> Row] /\ req \in [Workers -> Request]
  BY BegunTyped DEF TypeInv, TypeOK
<1>2. /\ Committed(w, new) = new
      /\ \A v \in Workers \ {w} :
            req[v].pc # "idle" => req[v].dep # req[w].dep
  BY CommitterIsAlone
<1>3. next.dep = req[w].dep /\ next.row = new /\ next.pc = rest.pc
  BY DEF Request
<1>4. /\ rows' = [rows EXCEPT ![req[w].dep] = new]
      /\ req' = [req EXCEPT ![w] = next]
      /\ ReleaseLock(w)
  BY <1>2 DEF CommitTo
<1> HIDE DEF next
<1>5. /\ req'[w] = next /\ rows'[req[w].dep] = new
      /\ \A v \in Workers \ {w} :
            /\ req'[v] = req[v]
            /\ req[v].pc # "idle" =>
                  rows'[req[v].dep] = rows[req[v].dep]
                  /\ req[v].dep # req[w].dep
            /\ lock = v => lock' = v
  BY <1>1, <1>2, <1>4 DEF ReleaseLock, TypeInv, RequestsTyped
<1>6. OnlyPipelineRequests'
  BY <1>3, <1>5 DEF ExecutionInv, OnlyPipelineRequests
<1>7. RowsExist'
  BY <1>1, <1>4 DEF ExecutionInv, RowsExist
<1>8. next.pc # "admit" /\ next.pc # "idle"
  BY <1>3 DEF Executing
<1>9. AdmittedIsFresh'
  BY <1>5, <1>8
  DEF ExecutionInv, AdmittedIsFresh, Publishable, VersionMatches
<1>10. InFlightIsRunning'
  BY <1>3, <1>5 DEF ExecutionInv, InFlightIsRunning, InFlight, Executing
<1>11. ExclusiveExecution'
  BY <1>3, <1>5, <1>8
  DEF ExecutionInv, ExclusiveExecution, InFlight, Executing
<1> QED BY <1>6, <1>7, <1>9, <1>10, <1>11 DEF ExecutionInv

(* The same for the commit that ends its request.                          *)
LEMMA CommitAndEndKeepsExecution ==
    ASSUME TypeInv, ExecutionInv, NEW w \in Workers, req[w].pc # "idle",
           NEW new \in Row, new.status \in {"running", "completed", "failed"},
           CommitAndEnd(w, new), active' = active
    PROVE  ExecutionInv'
<1>1. /\ req[w].dep \in DepRuns
      /\ rows \in [DepRuns -> Row] /\ req \in [Workers -> Request]
  BY BegunTyped DEF TypeInv, TypeOK
<1>2. /\ Committed(w, new) = new
      /\ \A v \in Workers \ {w} :
            req[v].pc # "idle" => req[v].dep # req[w].dep
  BY CommitterIsAlone
<1>3. /\ rows' = [rows EXCEPT ![req[w].dep] = new]
      /\ req' = [req EXCEPT ![w] = IdleRequest]
      /\ ReleaseLock(w)
  BY <1>2 DEF CommitAndEnd
<1>4. /\ req'[w].pc = "idle"
      /\ \A v \in Workers \ {w} :
            /\ req'[v] = req[v]
            /\ req[v].pc # "idle" => rows'[req[v].dep] = rows[req[v].dep]
            /\ lock = v => lock' = v
  BY <1>1, <1>2, <1>3 DEF ReleaseLock, TypeInv, RequestsTyped, IdleRequest
<1>5. OnlyPipelineRequests'
  BY <1>4 DEF ExecutionInv, OnlyPipelineRequests
<1>6. RowsExist'
  BY <1>1, <1>3 DEF ExecutionInv, RowsExist
<1>7. AdmittedIsFresh'
  BY <1>4 DEF ExecutionInv, AdmittedIsFresh, Publishable, VersionMatches
<1>8. InFlightIsRunning'
  BY <1>4 DEF ExecutionInv, InFlightIsRunning, InFlight, Executing
<1>9. ExclusiveExecution'
  BY <1>4 DEF ExecutionInv, ExclusiveExecution, InFlight, Executing
<1> QED BY <1>5, <1>6, <1>7, <1>8, <1>9 DEF ExecutionInv

(* A step that commits nothing: the request goes on executing, or ends.    *)
LEMMA MoveKeepsExecution ==
    ASSUME TypeInv, ExecutionInv, NEW w \in Workers,
           rows' = rows, active' = active,
           NEW rest, req' = [req EXCEPT ![w] = rest],
           \/ rest.pc = "idle"
           \/ /\ InFlight(w) /\ rest.pc \in Executing
              /\ rest.dep = req[w].dep /\ rest.row = req[w].row,
           lock' = lock \/ ReleaseLock(w)
    PROVE  ExecutionInv'
<1>1. /\ req'[w] = rest
      /\ \A v \in Workers \ {w} : req'[v] = req[v] /\ (lock = v => lock' = v)
  BY DEF TypeInv, TypeOK, ReleaseLock
<1>2. OnlyPipelineRequests'
  BY <1>1 DEF ExecutionInv, OnlyPipelineRequests
<1>3. RowsExist'
  BY DEF ExecutionInv, RowsExist
<1>4. AdmittedIsFresh'
  BY <1>1
  DEF ExecutionInv, AdmittedIsFresh, Publishable, VersionMatches, Executing
<1>5. InFlightIsRunning'
  BY <1>1 DEF ExecutionInv, InFlightIsRunning, InFlight, Executing
<1>6. ExclusiveExecution'
  BY <1>1 DEF ExecutionInv, ExclusiveExecution, InFlight, Executing
<1> QED BY <1>2, <1>3, <1>4, <1>5, <1>6 DEF ExecutionInv

(* The project lock is taken over a row that is neither RUNNING nor a      *)
(* completed run of this version.                                          *)
LEMMA BeginRunKeepsExecution ==
    ASSUME TypeInv, ExecutionInv, NEW w \in Workers, NEW d \in DepRuns,
           NEW op, BeginRun(w, op, d)
    PROVE  ExecutionInv'
<1> DEFINE rest == [pc |-> "admit", op |-> op, dep |-> d, row |-> rows[d],
                    payload |-> EmptyResult, stage |-> "none",
                    base |-> NoSuite]
<1>1. /\ req' = [req EXCEPT ![w] = rest]
      /\ rows' = rows /\ active' = active /\ lock = Nobody /\ lock' = w
      /\ rows[d].status # "running" /\ ~Publishable(d)
  BY DEF BeginRun, Start, Publishable
<1>2. /\ rest.pc = "admit" /\ rest.dep = d /\ rest.row = rows[d]
  OBVIOUS
<1> HIDE DEF rest
<1>3. req'[w] = rest /\ \A v \in Workers \ {w} : req'[v] = req[v]
  BY <1>1 DEF TypeInv, TypeOK
<1>4. \A v \in Workers : req[v].pc # "admit"
  BY <1>1, NobodyAssumption DEF ExecutionInv, AdmittedIsFresh
<1>5. OnlyPipelineRequests'
  BY <1>2, <1>3 DEF ExecutionInv, OnlyPipelineRequests
<1>6. RowsExist'
  BY <1>1 DEF ExecutionInv, RowsExist
<1>7. AdmittedIsFresh'
  BY <1>1, <1>2, <1>3, <1>4 DEF AdmittedIsFresh, Publishable, VersionMatches
<1>8. InFlightIsRunning'
  BY <1>1, <1>2, <1>3
  DEF ExecutionInv, InFlightIsRunning, InFlight, Executing
<1>9. ExclusiveExecution'
  BY <1>1, <1>2, <1>3
  DEF ExecutionInv, ExclusiveExecution, InFlight, Executing
<1> QED BY <1>5, <1>6, <1>7, <1>8, <1>9 DEF ExecutionInv

(* Admission of a row that exists: the commit marks it RUNNING.            *)
LEMMA AdmitKeepsExecution ==
    ASSUME TypeInv, ExecutionInv, NEW w \in Workers,
           \/ AdmitCreate(w) \/ AdmitLegacy(w) \/ AdmitStale(w)
           \/ AdmitResume(w)
    PROVE  ExecutionInv'
<1>1. req[w].pc = "admit"
  BY DEF AdmitCreate, AdmitLegacy, AdmitStale, AdmitResume, Admitting
<1>2. /\ req[w] \in Request /\ req[w].row \in Row
      /\ req[w].row.result \in Result /\ req[w].dep \in DepRuns
  BY <1>1, BegunTyped
<1>3. req[w].row.status # "absent"
  BY <1>1, <1>2 DEF ExecutionInv, AdmittedIsFresh, RowsExist
<1>4. /\ MarkRunning(req[w].row) \in Row
      /\ PrepareForcedRerun(req[w].row) \in Row
      /\ PrepareArtifactRegeneration \in Row
  BY <1>2, PrepareTypes
<1>5. /\ MarkRunning(req[w].row).status = "running"
      /\ PrepareForcedRerun(req[w].row).status = "running"
      /\ PrepareArtifactRegeneration.status = "running"
  BY <1>2
  DEF MarkRunning, PrepareForcedRerun, PrepareArtifactRegeneration, NoRow, Row
<1> DEFINE rest == [req[w] EXCEPT !.pc = "precheck"]
           loaded == [req[w] EXCEPT !.pc = "precheck",
                                    !.payload = req[w].row.result]
<1>6. /\ rest \in Request /\ rest.dep = req[w].dep /\ rest.pc = "precheck"
      /\ loaded \in Request /\ loaded.dep = req[w].dep
      /\ loaded.pc = "precheck"
  BY <1>2 DEF Request, Pc
<1>7. CASE AdmitCreate(w)
  BY <1>3, <1>7 DEF AdmitCreate, Admitting
<1>8. CASE AdmitLegacy(w)
  <2>1. CommitTo(w, PrepareForcedRerun(req[w].row), loaded) /\ active' = active
    BY <1>8 DEF AdmitLegacy
  <2> HIDE DEF loaded
  <2> QED BY <1>1, <1>4, <1>5, <1>6, <2>1, CommitToKeepsExecution
<1>9. CASE AdmitStale(w)
  <2>1. CommitTo(w, PrepareArtifactRegeneration, rest) /\ active' = active
    BY <1>9 DEF AdmitStale
  <2> HIDE DEF rest
  <2> QED BY <1>1, <1>4, <1>5, <1>6, <2>1, CommitToKeepsExecution
<1>10. CASE AdmitResume(w)
  <2>1. CommitTo(w, MarkRunning(req[w].row), loaded) /\ active' = active
    BY <1>10 DEF AdmitResume
  <2> HIDE DEF loaded
  <2> QED BY <1>1, <1>4, <1>5, <1>6, <2>1, CommitToKeepsExecution
<1> QED BY <1>7, <1>8, <1>9, <1>10

(* The stages, and the recorded failure of one.                            *)
LEMMA StepFormKeepsExecution ==
    ASSUME TypeInv, ExecutionInv, NEW w \in Workers, StepForm(w), InFlight(w)
    PROVE  ExecutionInv'
<1>1. /\ req[w].pc # "idle" /\ active' = active /\ req[w].row \in Row
  BY BegunTyped DEF StepForm
<1>2. req[w].row.status = "running"
  BY DEF ExecutionInv, InFlightIsRunning
<1>3. CASE Stores(w)
  BY <1>1, <1>2, <1>3, CommitToKeepsExecution DEF Stores, GoesOn
<1>4. CASE StoresLast(w)
  BY <1>1, <1>2, <1>4, CommitAndEndKeepsExecution DEF StoresLast
<1>5. CASE Moves(w)
  BY <1>1, <1>5, MoveKeepsExecution DEF Moves, GoesOn
<1>6. CASE Leaves(w)
  <2>1. IdleRequest.pc = "idle"
    BY DEF IdleRequest
  <2> QED BY <1>1, <1>6, <2>1, MoveKeepsExecution DEF Leaves
<1> QED BY <1>3, <1>4, <1>5, <1>6 DEF StepForm

(* A request that dies unrecorded leaves the rows as they are.             *)
LEMMA DieKeepsExecution ==
    ASSUME TypeInv, ExecutionInv, NEW w \in Workers, DieUnrecorded(w)
    PROVE  ExecutionInv'
<1>1. IdleRequest.pc = "idle"
  BY DEF IdleRequest
<1> QED BY <1>1, MoveKeepsExecution DEF DieUnrecorded

(* After a restart nobody executes.                                        *)
LEMMA RestartKeepsExecution ==
    ASSUME TypeInv, ExecutionInv, Restart
    PROVE  ExecutionInv'
  BY DEF Restart, ExecutionInv, OnlyPipelineRequests, RowsExist,
         AdmittedIsFresh, InFlightIsRunning, ExclusiveExecution, InFlight,
         Executing, IdleRequest

(* With only run() and understand() in use no other entry point begins,    *)
(* and no request is ever in the middle of one.                            *)
LEMMA PipelineStepsOnly ==
    ASSUME TypeInv, ExecutionInv, Next, Ops \subseteq {"run", "understand"}
    PROVE  \/ Restart
           \/ \E w \in Workers :
                 \/ \E d \in DepRuns, op \in AllOps : BeginRun(w, op, d)
                 \/ AdmitCreate(w) \/ AdmitLegacy(w) \/ AdmitStale(w)
                 \/ AdmitResume(w)
                 \/ StageStep(w)
                 \/ Fail(w) /\ InFlight(w)
                 \/ DieUnrecorded(w)
<1>1. ASSUME NEW w \in Workers, Begin(w)
      PROVE  \E d \in DepRuns, op \in AllOps : BeginRun(w, op, d)
  BY <1>1
  DEF Begin, BeginRetry, BeginForcedRerun, BeginGenerate, BeginVerify,
      BeginOptimize, BeginRetryGeneration, LoadStage3Artifact, AllOps
<1>2. ASSUME NEW w \in Workers, Progress(w)
      PROVE  \/ AdmitCreate(w) \/ AdmitLegacy(w) \/ AdmitStale(w)
             \/ AdmitResume(w) \/ StageStep(w)
  <2>1. req[w].pc \in {"idle", "admit", "precheck"} \cup Executing
    BY DEF ExecutionInv, OnlyPipelineRequests
  <2>2. /\ ~MarkCreatedRunning(w) /\ ~CommitRetry(w)
        /\ ~CommitForcedRerun(w) /\ ~RelockCurrent(w) /\ ~RelockStale(w)
        /\ ~SaveGeneration(w) /\ ~SaveVerification(w)
        /\ ~SaveOptimization(w) /\ ~PersistRuntimePlan(w)
        /\ ~ReopenForGeneration(w) /\ ~RestoreForGeneration(w)
    BY <2>1
    DEF MarkCreatedRunning, CommitRetry, CommitForcedRerun, RelockCurrent,
        RelockStale, SaveGeneration, SaveVerification, SaveOptimization,
        PersistRuntimePlan, ReopenForGeneration, RestoreForGeneration,
        Executing
  <2> QED BY <1>2, <2>2 DEF Progress, StageStep
<1>3. ASSUME NEW w \in Workers
      PROVE  ~SaveCheckpoint(w) /\ (Fail(w) => InFlight(w))
  BY DEF ExecutionInv, OnlyPipelineRequests, SaveCheckpoint, Fail, InFlight,
         Executing
<1> QED BY <1>1, <1>2, <1>3 DEF Next

(* ExecutionInv is inductive for run() and understand().                   *)
LEMMA NextKeepsExecution ==
    ASSUME TypeInv, ExecutionInv, [Next]_vars,
           Ops \subseteq {"run", "understand"}
    PROVE  ExecutionInv'
<1>1. CASE UNCHANGED vars
  BY <1>1
  DEF vars, ExecutionInv, OnlyPipelineRequests, RowsExist, AdmittedIsFresh,
      InFlightIsRunning, ExclusiveExecution, InFlight, Publishable,
      VersionMatches
<1>2. CASE Restart
  BY <1>2, RestartKeepsExecution
<1>3. ASSUME NEW w \in Workers, NEW d \in DepRuns, NEW op \in AllOps,
             BeginRun(w, op, d)
      PROVE  ExecutionInv'
  BY <1>3, BeginRunKeepsExecution
<1>4. ASSUME NEW w \in Workers,
             \/ AdmitCreate(w) \/ AdmitLegacy(w) \/ AdmitStale(w)
             \/ AdmitResume(w)
      PROVE  ExecutionInv'
  BY <1>4, AdmitKeepsExecution
<1>5. ASSUME NEW w \in Workers, StageStep(w)
      PROVE  ExecutionInv'
  BY <1>5, StageForms, StepFormKeepsExecution
<1>6. ASSUME NEW w \in Workers, Fail(w), InFlight(w)
      PROVE  ExecutionInv'
  BY <1>6, EndpointForms, StepFormKeepsExecution DEF EndpointStep
<1>7. ASSUME NEW w \in Workers, DieUnrecorded(w)
      PROVE  ExecutionInv'
  BY <1>7, DieKeepsExecution
<1> QED BY <1>1, <1>2, <1>3, <1>4, <1>5, <1>6, <1>7, PipelineStepsOnly

(* The invariant holds of every database of completed and failed runs.     *)
LEMMA InitExistingExecution == InitExisting => ExecutionInv
<1>1. ASSUME InitExisting
      PROVE  ExecutionInv
  <2>1. \A d \in DepRuns : rows[d].status \in {"completed", "failed"}
    BY <1>1, ExistingRowsAssumption DEF InitExisting
  <2>2. \A w \in Workers : req[w].pc = "idle"
    BY <1>1 DEF InitExisting, IdleRequest
  <2> QED BY <2>1, <2>2
          DEF ExecutionInv, OnlyPipelineRequests, RowsExist, AdmittedIsFresh,
              InFlightIsRunning, ExclusiveExecution, InFlight, Executing
<1> QED BY <1>1
-----------------------------------------------------------------------------
(* On runs that exist, at most one run() or understand() request executes  *)
(* the stages of a run at a time, whatever fails, dies or restarts.        *)
THEOREM AtMostOneExecutor ==
    ASSUME Ops \subseteq {"run", "understand"}
    PROVE  SpecExisting => []ExclusiveExecution
<1>1. InitExisting => TypeInv /\ ExecutionInv
  BY InitTyped, InitExistingExecution
<1>2. TypeInv /\ ExecutionInv /\ [Next]_vars => TypeInv' /\ ExecutionInv'
  BY NextTyped, NextKeepsExecution
<1>3. ExecutionInv => ExclusiveExecution
  BY DEF ExecutionInv
<1> QED BY <1>1, <1>2, <1>3, PTL DEF SpecExisting

(* The executing request's session copy is the database row, so none of    *)
(* its column-wise commits overwrites or revives somebody else's write.    *)
THEOREM NoLostUpdate ==
    ASSUME Ops \subseteq {"run", "understand"}
    PROVE  SpecExisting => []RowInHandIsCurrent
<1>1. InitExisting => TypeInv /\ ExecutionInv
  BY InitTyped, InitExistingExecution
<1>2. TypeInv /\ ExecutionInv /\ [Next]_vars => TypeInv' /\ ExecutionInv'
  BY NextTyped, NextKeepsExecution
<1>3. ExecutionInv => RowInHandIsCurrent
  BY DEF ExecutionInv, InFlightIsRunning, RowInHandIsCurrent
<1> QED BY <1>1, <1>2, <1>3, PTL DEF SpecExisting

(* Only the row of a request that has begun is written, and that row is    *)
(* not a completed one of this version.                                    *)
LEMMA NextKeepsCompleted ==
    ASSUME TypeInv, ExecutionInv, [Next]_vars,
           Ops \subseteq {"run", "understand"},
           NEW d \in DepRuns, Publishable(d), active' = active
    PROVE  rows'[d] = rows[d]
<1>1. ASSUME NEW w \in Workers, req[w].pc = "admit" \/ InFlight(w), NEW new,
             rows' = [rows EXCEPT ![req[w].dep] = new]
      PROVE  rows'[d] = rows[d]
  <2>1. ~Publishable(req[w].dep)
    BY <1>1 DEF ExecutionInv, AdmittedIsFresh, InFlightIsRunning, Publishable
  <2> QED BY <1>1, <2>1 DEF TypeInv, TypeOK
<1>2. ASSUME NEW w \in Workers,
             \/ AdmitCreate(w) \/ AdmitLegacy(w) \/ AdmitStale(w)
             \/ AdmitResume(w)
      PROVE  rows'[d] = rows[d]
  BY <1>1, <1>2
  DEF AdmitCreate, AdmitLegacy, AdmitStale, AdmitResume, Admitting, CommitTo
<1>3. ASSUME NEW w \in Workers, StepForm(w), InFlight(w)
      PROVE  rows'[d] = rows[d]
  <2>1. CASE Stores(w) \/ StoresLast(w)
    BY <1>1, <1>3, <2>1 DEF Stores, StoresLast, CommitTo, CommitAndEnd
  <2>2. CASE Moves(w) \/ Leaves(w)
    BY <2>2 DEF Moves, Leaves
  <2> QED BY <1>3, <2>1, <2>2 DEF StepForm
<1>4. ASSUME NEW w \in Workers, StageStep(w) \/ (Fail(w) /\ InFlight(w))
      PROVE  rows'[d] = rows[d]
  BY <1>3, <1>4, StageForms, EndpointForms DEF EndpointStep
<1>5. ASSUME NEW w \in Workers, DieUnrecorded(w)
      PROVE  rows'[d] = rows[d]
  BY <1>5 DEF DieUnrecorded
<1>6. ASSUME NEW w \in Workers, NEW e \in DepRuns, NEW op \in AllOps,
             BeginRun(w, op, e)
      PROVE  rows'[d] = rows[d]
  BY <1>6 DEF BeginRun
<1>7. CASE Restart \/ UNCHANGED vars
  BY <1>7 DEF Restart, vars
<1> QED BY <1>2, <1>4, <1>5, <1>6, <1>7, PipelineStepsOnly

(* Over existing rows and without a deployment in between, no number of    *)
(* overlapping run() and understand() requests, faults and restarts        *)
(* rewrites a completed run of the deployed version.  retry(), a forced    *)
(* rerun and the single-stage endpoints rewrite it by design; the theorem  *)
(* says nothing of them.                                                   *)
THEOREM CompletedStays ==
    ASSUME Ops \subseteq {"run", "understand"}
    PROVE  SpecExisting => CompletedIsFinal
<1>1. InitExisting => TypeInv /\ ExecutionInv
  BY InitTyped, InitExistingExecution
<1>2. TypeInv /\ ExecutionInv /\ [Next]_vars => TypeInv' /\ ExecutionInv'
  BY NextTyped, NextKeepsExecution
<1>3. TypeInv /\ ExecutionInv /\ [Next]_vars =>
         [\A d \in DepRuns :
             Publishable(d) /\ active' = active => rows'[d] = rows[d]]_vars
  BY NextKeepsCompleted
<1> QED BY <1>1, <1>2, <1>3, PTL DEF SpecExisting, CompletedIsFinal

-----------------------------------------------------------------------------
(* What a request commits when the row it has in hand is the current one:  *)
(* exactly the row its method built.                                       *)

InHand ==
    \A w \in Workers :
       req[w].pc # "idle" => req[w].row = rows[req[w].dep]

Writes(w, new, rest) ==
    /\ rows' = [rows EXCEPT ![req[w].dep] = new]
    /\ req' = [req EXCEPT ![w] = [rest EXCEPT !.row = new]]

WritesLast(w, new) ==
    /\ rows' = [rows EXCEPT ![req[w].dep] = new]
    /\ req' = [req EXCEPT ![w] = IdleRequest]

MovesTo(w, rest) == rows' = rows /\ req' = [req EXCEPT ![w] = rest]

(* A commit of a row in hand is a write of it.                             *)
LEMMA CommitInHand ==
    ASSUME TypeInv, InHand, NEW w \in Workers, req[w].pc # "idle",
           NEW new \in Row
    PROVE  /\ \A rest : CommitTo(w, new, rest) => Writes(w, new, rest)
           /\ CommitAndEnd(w, new) => WritesLast(w, new)
<1>1. req[w].row \in Row /\ req[w].row = rows[req[w].dep]
  BY BegunTyped DEF InHand
<1>2. Committed(w, new) = new
  BY <1>1, MergeCurrent DEF Committed
<1> QED BY <1>2 DEF CommitTo, CommitAndEnd, Writes, WritesLast

(* The payload of a Stage 3 that has just run.                             *)
Fresh == [EmptyResult EXCEPT !.summary = TRUE]

(* The suite of the payload that Stage 4 replaces takes what was derived   *)
(* from it along.                                                          *)
KeptByStage4(payload) ==
    IF payload.generation = NoSuite THEN payload
    ELSE DropFromVerification(payload)

(* The rows that admission, retry and the reopening of a run write.        *)
LEMMA AdmissionWrites ==
    ASSUME TypeInv, InHand, NEW w \in Workers
    PROVE  /\ AdmitCreate(w) =>
              Writes(w, CreateRun, [req[w] EXCEPT !.pc = "pending"])
           /\ MarkCreatedRunning(w) =>
              Writes(w, MarkRunning(req[w].row),
                     [req[w] EXCEPT !.pc = "precheck"])
           /\ AdmitLegacy(w) =>
              Writes(w, PrepareForcedRerun(req[w].row),
                     [req[w] EXCEPT !.pc = "precheck",
                                     !.payload = req[w].row.result])
           /\ AdmitStale(w) =>
              Writes(w, PrepareArtifactRegeneration,
                     [req[w] EXCEPT !.pc = "precheck"])
           /\ AdmitResume(w) =>
              Writes(w, MarkRunning(req[w].row),
                     [req[w] EXCEPT !.pc = "precheck",
                                     !.payload = req[w].row.result])
           /\ CommitRetry(w) =>
              Writes(w, PrepareRetry(req[w].row),
                     [req[w] EXCEPT !.pc = "relock"])
           /\ CommitForcedRerun(w) =>
              Writes(w, PrepareForcedRerun(req[w].row),
                     [req[w] EXCEPT !.pc = "relock"])
           /\ RelockStale(w) =>
              Writes(w, PrepareArtifactRegeneration,
                     [req[w] EXCEPT !.pc = "precheck"])
           /\ ReopenForGeneration(w) =>
              Writes(w, PrepareRetry(req[w].row),
                     [req[w] EXCEPT !.pc = "restore"])
           /\ RestoreForGeneration(w) =>
              Writes(w, [Complete(req[w].row, req[w].payload) EXCEPT
                            !.failedStage = "none"],
                     [req[w] EXCEPT !.pc = "generate", !.payload = EmptyResult])
<1>1. ASSUME AdmitCreate(w)
      PROVE  Writes(w, CreateRun, [req[w] EXCEPT !.pc = "pending"])
  <2>1. req[w].pc # "idle"
    BY <1>1 DEF AdmitCreate, Admitting
  <2> QED BY <1>1, <2>1, BegunTyped, PrepareTypes, CommitInHand DEF AdmitCreate
<1>2. ASSUME MarkCreatedRunning(w)
      PROVE  Writes(w, MarkRunning(req[w].row),
                    [req[w] EXCEPT !.pc = "precheck"])
  <2>1. req[w].pc # "idle"
    BY <1>2 DEF MarkCreatedRunning
  <2> QED BY <1>2, <2>1, BegunTyped, PrepareTypes, CommitInHand
          DEF MarkCreatedRunning
<1>3. ASSUME AdmitLegacy(w)
      PROVE  Writes(w, PrepareForcedRerun(req[w].row),
                    [req[w] EXCEPT !.pc = "precheck",
                                    !.payload = req[w].row.result])
  <2>1. req[w].pc # "idle"
    BY <1>3 DEF AdmitLegacy, Admitting
  <2> QED BY <1>3, <2>1, BegunTyped, PrepareTypes, CommitInHand DEF AdmitLegacy
<1>4. ASSUME AdmitStale(w)
      PROVE  Writes(w, PrepareArtifactRegeneration,
                    [req[w] EXCEPT !.pc = "precheck"])
  <2>1. req[w].pc # "idle"
    BY <1>4 DEF AdmitStale, Admitting
  <2> QED BY <1>4, <2>1, BegunTyped, PrepareTypes, CommitInHand DEF AdmitStale
<1>5. ASSUME AdmitResume(w)
      PROVE  Writes(w, MarkRunning(req[w].row),
                    [req[w] EXCEPT !.pc = "precheck",
                                    !.payload = req[w].row.result])
  <2>1. req[w].pc # "idle"
    BY <1>5 DEF AdmitResume, Admitting
  <2> QED BY <1>5, <2>1, BegunTyped, PrepareTypes, CommitInHand DEF AdmitResume
<1>6. ASSUME CommitRetry(w)
      PROVE  Writes(w, PrepareRetry(req[w].row),
                    [req[w] EXCEPT !.pc = "relock"])
  <2>1. req[w].pc # "idle"
    BY <1>6 DEF CommitRetry
  <2> QED BY <1>6, <2>1, BegunTyped, PrepareTypes, CommitInHand DEF CommitRetry
<1>7. ASSUME CommitForcedRerun(w)
      PROVE  Writes(w, PrepareForcedRerun(req[w].row),
                    [req[w] EXCEPT !.pc = "relock"])
  <2>1. req[w].pc # "idle"
    BY <1>7 DEF CommitForcedRerun
  <2> QED BY <1>7, <2>1, BegunTyped, PrepareTypes, CommitInHand
          DEF CommitForcedRerun
<1>8. ASSUME RelockStale(w)
      PROVE  Writes(w, PrepareArtifactRegeneration,
                    [req[w] EXCEPT !.pc = "precheck"])
  <2>1. req[w].pc # "idle"
    BY <1>8 DEF RelockStale
  <2> QED BY <1>8, <2>1, BegunTyped, PrepareTypes, CommitInHand DEF RelockStale
<1>9. ASSUME ReopenForGeneration(w)
      PROVE  Writes(w, PrepareRetry(req[w].row),
                    [req[w] EXCEPT !.pc = "restore"])
  <2>1. req[w].pc # "idle"
    BY <1>9 DEF ReopenForGeneration
  <2> QED BY <1>9, <2>1, BegunTyped, PrepareTypes, CommitInHand
          DEF ReopenForGeneration
<1>10. ASSUME RestoreForGeneration(w)
      PROVE  Writes(w, [Complete(req[w].row, req[w].payload) EXCEPT
                           !.failedStage = "none"],
                    [req[w] EXCEPT !.pc = "generate", !.payload = EmptyResult])
  <2>1. req[w].pc # "idle"
    BY <1>10 DEF RestoreForGeneration
  <2>2. [Complete(req[w].row, req[w].payload) EXCEPT !.failedStage = "none"]
          \in Row
    BY <2>1, BegunTyped DEF Complete, Row, Status, Stage
  <2> QED BY <1>10, <2>1, <2>2, CommitInHand DEF RestoreForGeneration
<1> QED BY <1>1, <1>2, <1>3, <1>4, <1>5, <1>6, <1>7,
           <1>8, <1>9, <1>10

(* The rows that the stages write.                                         *)
LEMMA StageWrites ==
    ASSUME TypeInv, InHand, NEW w \in Workers
    PROVE  /\ RunStage3(w) =>
              Writes(w, SaveStage3Result(req[w].row, Fresh),
                     AfterStage3([req[w] EXCEPT !.payload = Fresh]))
           /\ RunStage4(w) =>
              \E s \in NewSuites :
                 Writes(w, SaveTestGeneration(req[w].row, s),
                        AfterStage4([req[w] EXCEPT !.payload =
                           [KeptByStage4(req[w].payload) EXCEPT
                               !.generation = s]]))
           /\ RunQualityLoop(w) =>
              LET s == req[w].payload.generation IN
              \E partial \in BOOLEAN :
                 Writes(w, SaveQualityOptimization(req[w].row, s, partial),
                        [req[w] EXCEPT !.pc = "plan",
                                        !.stage = "runtime_preparation",
                                        !.payload.verification = s,
                                        !.payload.optimization = s])
           /\ RunRuntimePreparation(w) =>
              LET s == req[w].payload.optimization IN
              Writes(w, SaveRuntimeExecutionPlan(req[w].row, s),
                     [req[w] EXCEPT !.pc = "complete", !.payload.plan = s])
           /\ CompleteRun(w) =>
              WritesLast(w, Complete(req[w].row,
                               [req[w].payload EXCEPT !.stamp = active]))
<1>1. ASSUME RunStage3(w)
      PROVE  Writes(w, SaveStage3Result(req[w].row, Fresh),
                    AfterStage3([req[w] EXCEPT !.payload = Fresh]))
  <2>1. req[w].pc # "idle"
    BY <1>1 DEF RunStage3
  <2>2. Fresh \in Result
    BY EmptyTypes DEF Fresh, Result
  <2>3. SaveStage3Result(req[w].row, Fresh) \in Row
    BY <2>1, <2>2, BegunTyped DEF SaveStage3Result, Row, Stage
  <2> QED BY <1>1, <2>1, <2>3, CommitInHand DEF RunStage3, Fresh
<1>2. ASSUME RunStage4(w)
      PROVE  \E s \in NewSuites :
                Writes(w, SaveTestGeneration(req[w].row, s),
                       AfterStage4([req[w] EXCEPT !.payload =
                          [KeptByStage4(req[w].payload) EXCEPT
                              !.generation = s]]))
  <2>1. req[w].pc # "idle"
    BY <1>2 DEF RunStage4
  <2>2. PICK s \in NewSuites :
           CommitTo(w, SaveTestGeneration(req[w].row, s),
                    AfterStage4([req[w] EXCEPT !.payload =
                       [KeptByStage4(req[w].payload) EXCEPT
                           !.generation = s]]))
    BY <1>2 DEF RunStage4, KeptByStage4
  <2>3. SaveTestGeneration(req[w].row, s) \in Row
    BY <2>1, BegunTyped, SavedGenerationTyped DEF NewSuites
  <2> QED BY <2>1, <2>2, <2>3, CommitInHand
<1>3. ASSUME RunQualityLoop(w)
      PROVE  LET s == req[w].payload.generation IN
             \E partial \in BOOLEAN :
                Writes(w, SaveQualityOptimization(req[w].row, s, partial),
                       [req[w] EXCEPT !.pc = "plan",
                                       !.stage = "runtime_preparation",
                                       !.payload.verification = s,
                                       !.payload.optimization = s])
  <2>1. req[w].pc # "idle"
    BY <1>3 DEF RunQualityLoop
  <2>2. req[w].row \in Row /\ req[w].payload.generation \in Artifact
    BY <2>1, BegunTyped DEF Result
  <2> QED BY <1>3, <2>1, <2>2, SavedSuiteTyped, CommitInHand
          DEF RunQualityLoop
<1>4. ASSUME RunRuntimePreparation(w)
      PROVE  LET s == req[w].payload.optimization IN
             Writes(w, SaveRuntimeExecutionPlan(req[w].row, s),
                    [req[w] EXCEPT !.pc = "complete", !.payload.plan = s])
  <2>1. req[w].pc # "idle"
    BY <1>4 DEF RunRuntimePreparation
  <2>2. req[w].row \in Row /\ req[w].payload.optimization \in Artifact
    BY <2>1, BegunTyped DEF Result
  <2> QED BY <1>4, <2>1, <2>2, SavedSuiteTyped, CommitInHand
          DEF RunRuntimePreparation
<1>5. ASSUME CompleteRun(w)
      PROVE  WritesLast(w, Complete(req[w].row,
                              [req[w].payload EXCEPT !.stamp = active]))
  <2>1. req[w].pc # "idle"
    BY <1>5 DEF CompleteRun
  <2>2. /\ req[w].row \in Row
        /\ [req[w].payload EXCEPT !.stamp = active] \in Result
    BY <2>1, BegunTyped DEF Result
  <2>3. Complete(req[w].row, [req[w].payload EXCEPT !.stamp = active]) \in Row
    BY <2>2 DEF Complete, Row, Status
  <2> QED BY <1>5, <2>1, <2>3, CommitInHand DEF CompleteRun
<1> QED BY <1>1, <1>2, <1>3, <1>4, <1>5
-----------------------------------------------------------------------------
(* What is published is coherent (PublishedCoherent), for the pipeline     *)
(* entry points run(), retry() and force_rerun() and requests that have    *)
(* the current row in hand.  A result is stored piece by piece, so what is *)
(* kept of a failed or interrupted run is described first.                 *)

(* An optimization is that of the suite the result holds, and so are the   *)
(* verification and the plan that go with it.                              *)
SuiteChain(res) ==
    res.optimization # NoSuite =>
       /\ res.generation = res.optimization
       /\ res.verification = res.optimization
       /\ res.plan \in {NoSuite, res.optimization}

(* A stamped result, one that was once complete, has no plan without the   *)
(* optimization that the plan was prepared from.                           *)
StampedPlan(res) ==
    res.stamp # NoStamp /\ res.optimization = NoSuite => res.plan = NoSuite

(* Stage 3 alone, or with everything that is derived from one suite of the *)
(* stamped version.                                                        *)
WholeOrBare(res) ==
    /\ res.summary
    /\ \/ Derived(res) = {NoSuite}
       \/ /\ Derived(res) = {res.generation}
          /\ res.generation # NoSuite
          /\ res.generation.ver = res.stamp

CoherentRow(row) ==
    /\ SuiteChain(row.result)
    /\ StampedPlan(row.result)
    /\ row.status = "completed" => WholeOrBare(row.result)

(* An executing request's payload and its row.  The row of a legacy result *)
(* was stripped, its payload was not: the two agree on the optimization    *)
(* unless the row has none.  While the loop is still ahead of a request    *)
(* that needs it, its row holds no plan.                                   *)
BeforePlan == {"precheck", "stage3", "stage4", "quality"}

Carries(r, now) ==
    /\ SuiteChain(IF r.pc = "plan" THEN DropPlan(r.payload) ELSE r.payload)
    /\ r.row.result.optimization \in {NoSuite, r.payload.optimization}
    /\ r.row.result.stamp # NoStamp =>
          r.row.result.optimization = r.payload.optimization
    /\ r.pc \in BeforePlan /\ r.row.result.plan # NoSuite =>
          r.payload.optimization # NoSuite
    /\ r.pc \in Executing \ {"stage3"} => r.payload.summary
    /\ r.pc \in {"quality", "plan", "complete"} =>
          /\ r.payload.generation # NoSuite
          /\ r.payload.generation.ver = now
    /\ r.pc = "quality" => r.payload.optimization = NoSuite
    /\ r.pc \in {"plan", "complete"} => r.payload.optimization # NoSuite
    /\ r.pc = "complete" => r.payload.plan # NoSuite

CoherentRequest(r, now) ==
    /\ r.op # "understand"
    /\ r.pc \in {"idle", "admit", "pending", "retry", "force", "relock",
                 "precheck"} \cup Executing
    /\ r.pc \in {"admit", "pending", "retry", "force", "relock"} =>
          r.payload = EmptyResult
    /\ r.pc = "pending" => r.row = CreateRun
    /\ r.pc \in Executing \cup {"relock", "precheck"} =>
          r.row.status = "running"
    /\ r.pc \in Executing \cup {"precheck"} => Carries(r, now)

CoherentRows == \A d \in DepRuns : CoherentRow(rows[d])

CoherentRequests == \A w \in Workers : CoherentRequest(req[w], active)

(* What is coherent is published coherent.                                 *)
LEMMA CoherentIsPublished ==
    ASSUME TypeInv, CoherentRows
    PROVE  PublishedCoherent
<1> SUFFICES ASSUME NEW d \in DepRuns, Publishable(d)
             PROVE  /\ rows[d].result.summary
                    /\ \/ Derived(rows[d].result) = {NoSuite}
                       \/ /\ Derived(rows[d].result)
                                = {rows[d].result.generation}
                          /\ IsCurrentOutput(rows[d].result.generation)
  BY DEF PublishedCoherent
<1>1. WholeOrBare(rows[d].result) /\ rows[d].result.stamp = active
  BY DEF CoherentRows, CoherentRow, Publishable, VersionMatches
<1> QED BY <1>1 DEF WholeOrBare, IsCurrentOutput

(* The methods that open a run, and its failure, keep its row coherent.    *)
LEMMA PreparedCoherent ==
    ASSUME NEW row \in Row, CoherentRow(row)
    PROVE  /\ CoherentRow(CreateRun)
           /\ CoherentRow(PrepareArtifactRegeneration)
           /\ CoherentRow(MarkRunning(row))
           /\ CoherentRow(PrepareRetry(row))
           /\ CoherentRow(PrepareForcedRerun(row))
           /\ \A stage \in Stage : CoherentRow(FailRun(row, stage))
<1>1. row.result \in Result /\ SuiteChain(row.result)
      /\ StampedPlan(row.result)
  BY DEF Row, CoherentRow
<1>2. SuiteChain(EmptyResult) /\ StampedPlan(EmptyResult)
  BY DEF SuiteChain, StampedPlan, EmptyResult
<1>3. /\ SuiteChain(DropPlan(row.result))
      /\ StampedPlan(DropPlan(row.result))
      /\ SuiteChain(DropPlan(DropOptimization(row.result)))
      /\ StampedPlan(DropPlan(DropOptimization(row.result)))
      /\ SuiteChain(DropFromVerification(row.result))
      /\ StampedPlan(DropFromVerification(row.result))
      /\ SuiteChain(DropFromGeneration(row.result))
      /\ StampedPlan(DropFromGeneration(row.result))
  BY <1>1 DEF SuiteChain, StampedPlan, Result, DropPlan, DropOptimization,
              DropFromVerification, DropFromGeneration
<1>4. /\ SuiteChain(RetainedByRetry(row))
      /\ StampedPlan(RetainedByRetry(row))
  BY <1>1, <1>2, <1>3 DEF RetainedByRetry
<1>5. CoherentRow(CreateRun) /\ CoherentRow(PrepareArtifactRegeneration)
  BY <1>2 DEF CoherentRow, CreateRun, PrepareArtifactRegeneration, NoRow
<1>6. CoherentRow(MarkRunning(row))
  BY <1>1 DEF CoherentRow, MarkRunning, Row
<1>7. CoherentRow(PrepareRetry(row))
  BY <1>4 DEF CoherentRow, PrepareRetry, Row
<1>8. CoherentRow(PrepareForcedRerun(row))
  BY <1>3 DEF CoherentRow, PrepareForcedRerun
<1>9. ASSUME NEW stage \in Stage
      PROVE  CoherentRow(FailRun(row, stage))
  BY <1>1 DEF CoherentRow, FailRun, Row
<1> QED BY <1>5, <1>6, <1>7, <1>8, <1>9

(* The methods that open a run mark it RUNNING.                            *)
LEMMA PreparedRunning ==
    ASSUME NEW row \in Row
    PROVE  /\ MarkRunning(row).status = "running"
           /\ PrepareRetry(row).status = "running"
           /\ PrepareForcedRerun(row).status = "running"
           /\ PrepareArtifactRegeneration.status = "running"
  BY DEF MarkRunning, PrepareRetry, PrepareForcedRerun,
         PrepareArtifactRegeneration, NoRow, Row

(* A write of a coherent row by a request that stays coherent.             *)
LEMMA WritesCohere ==
    ASSUME TypeInv, CoherentRows, CoherentRequests, NEW w \in Workers,
           req[w].pc # "idle", NEW new, CoherentRow(new),
           active' = active,
           \/ \E rest : /\ CoherentRequest([rest EXCEPT !.row = new], active)
                        /\ Writes(w, new, rest)
           \/ WritesLast(w, new)
    PROVE  CoherentRows' /\ CoherentRequests'
<1>1. CoherentRequest(IdleRequest, active)
  BY DEF CoherentRequest, IdleRequest, Executing
<1>2. /\ req[w].dep \in DepRuns
      /\ rows \in [DepRuns -> Row] /\ req \in [Workers -> Request]
  BY BegunTyped DEF TypeInv, TypeOK
<1>3. PICK next : /\ CoherentRequest(next, active)
                  /\ rows' = [rows EXCEPT ![req[w].dep] = new]
                  /\ req' = [req EXCEPT ![w] = next]
  BY <1>1 DEF Writes, WritesLast
<1>4. CoherentRows'
  BY <1>2, <1>3 DEF CoherentRows
<1>5. CoherentRequests'
  BY <1>2, <1>3 DEF CoherentRequests
<1> QED BY <1>4, <1>5

(* A step of one request that writes nothing.                              *)
LEMMA MovesCohere ==
    ASSUME TypeInv, CoherentRows, CoherentRequests, NEW w \in Workers,
           NEW next, CoherentRequest(next, active),
           req' = [req EXCEPT ![w] = next], rows' = rows, active' = active
    PROVE  CoherentRows' /\ CoherentRequests'
<1>1. CoherentRows'
  BY DEF CoherentRows
<1>2. CoherentRequests'
  BY DEF CoherentRequests, TypeInv, TypeOK
<1> QED BY <1>1, <1>2

(* Where the stages send a request, and what it carries there.             *)
LEMMA AfterStageFields ==
    ASSUME NEW r \in Request, r.op # "understand"
    PROVE  /\ AfterStage3(r) = [r EXCEPT !.pc = "stage4",
                                         !.stage = "stage_4"]
           /\ \E pc \in {"quality", "plan", "complete"}, stage \in Stage :
                 /\ AfterStage4(r) = [r EXCEPT !.pc = pc, !.stage = stage]
                 /\ pc = "quality" <=> r.payload.optimization = NoSuite
                 /\ pc = "plan" => r.payload.plan = NoSuite
                 /\ pc = "complete" => r.payload.plan # NoSuite
<1>1. AfterStage3(r) = [r EXCEPT !.pc = "stage4", !.stage = "stage_4"]
  BY DEF AfterStage3
<1>2. {"stage_6", "runtime_preparation", "stage_5"} \subseteq Stage
  BY DEF Stage
<1>3. CASE r.payload.optimization = NoSuite
  <2>1. AfterStage4(r) = [r EXCEPT !.pc = "quality", !.stage = "stage_6"]
    BY <1>3 DEF AfterStage4
  <2> QED BY <1>1, <1>2, <1>3, <2>1
<1>4. CASE r.payload.optimization # NoSuite /\ r.payload.plan = NoSuite
  <2>1. AfterStage4(r) = [r EXCEPT !.pc = "plan",
                                   !.stage = "runtime_preparation"]
    BY <1>4 DEF AfterStage4
  <2> QED BY <1>1, <1>2, <1>4, <2>1
<1>5. CASE r.payload.optimization # NoSuite /\ r.payload.plan # NoSuite
  <2>1. AfterStage4(r) = [r EXCEPT !.pc = "complete", !.stage = "stage_5"]
    BY <1>5 DEF AfterStage4
  <2> QED BY <1>1, <1>2, <1>5, <2>1
<1> QED BY <1>3, <1>4, <1>5

(* Admission, retry and forced rerun.                                      *)
LEMMA AdmissionCoheres ==
    ASSUME TypeInv, InHand, CoherentRows, CoherentRequests, NEW w \in Workers,
           \/ AdmitCreate(w) \/ MarkCreatedRunning(w) \/ AdmitLegacy(w)
           \/ AdmitStale(w) \/ AdmitResume(w) \/ CommitRetry(w)
           \/ CommitForcedRerun(w) \/ RelockCurrent(w) \/ RelockStale(w)
    PROVE  CoherentRows' /\ CoherentRequests'
<1> DEFINE r == req[w]
<1>1. req[w].pc # "idle" /\ active' = active
  BY DEF AdmitCreate, MarkCreatedRunning, AdmitLegacy, AdmitStale,
         AdmitResume, CommitRetry, CommitForcedRerun, RelockCurrent,
         RelockStale, Admitting
<1>2. /\ r \in Request /\ r.row \in Row /\ r.row.result \in Result
      /\ CoherentRow(r.row) /\ CoherentRequest(r, active)
  BY <1>1, BegunTyped DEF InHand, CoherentRows, CoherentRequests
<1>3. /\ CoherentRow(CreateRun)
      /\ CoherentRow(PrepareArtifactRegeneration)
      /\ CoherentRow(MarkRunning(r.row))
      /\ CoherentRow(PrepareRetry(r.row))
      /\ CoherentRow(PrepareForcedRerun(r.row))
      /\ MarkRunning(r.row).status = "running"
      /\ PrepareRetry(r.row).status = "running"
      /\ PrepareForcedRerun(r.row).status = "running"
      /\ PrepareArtifactRegeneration.status = "running"
  BY <1>2, PreparedCoherent, PreparedRunning
<1>4. active # NoStamp
  BY <1>1, BegunTyped DEF Version, NoStamp
<1>5. CASE AdmitCreate(w)
  <2> DEFINE rest == [r EXCEPT !.pc = "pending"]
  <2>1. Writes(w, CreateRun, rest) /\ r.pc = "admit"
    BY <1>5, AdmissionWrites DEF AdmitCreate, Admitting
  <2>2. CoherentRequest([rest EXCEPT !.row = CreateRun], active)
    BY <1>2, <2>1 DEF CoherentRequest, Request, Executing
  <2> QED BY <1>1, <1>3, <2>1, <2>2, WritesCohere
<1>6. CASE MarkCreatedRunning(w)
  <2> DEFINE rest == [r EXCEPT !.pc = "precheck"]
             new == MarkRunning(r.row)
  <2>1. Writes(w, new, rest) /\ r.pc = "pending"
    BY <1>6, AdmissionWrites DEF MarkCreatedRunning
  <2>2. r.payload = EmptyResult /\ new.result = EmptyResult
    BY <1>2, <2>1 DEF CoherentRequest, CreateRun, MarkRunning, NoRow
  <2>3. CoherentRequest([rest EXCEPT !.row = new], active)
    BY <1>2, <1>3, <2>1, <2>2
    DEF CoherentRequest, Carries, SuiteChain, EmptyResult, Request, Executing
  <2> QED BY <1>1, <1>3, <2>1, <2>3, WritesCohere
<1>7. CASE AdmitLegacy(w)
  <2> DEFINE rest == [r EXCEPT !.pc = "precheck", !.payload = r.row.result]
             new == PrepareForcedRerun(r.row)
  <2>1. Writes(w, new, rest) /\ r.pc = "admit" /\ IsLegacy(r.row.result)
    BY <1>7, AdmissionWrites DEF AdmitLegacy, Admitting
  <2>2. /\ new.result.optimization = NoSuite /\ new.result.plan = NoSuite
        /\ new.result.stamp = NoStamp
    BY <1>2, <2>1 DEF PrepareForcedRerun, DropFromGeneration,
                      DropFromVerification, IsLegacy, Result
  <2>3. CoherentRequest([rest EXCEPT !.row = new], active)
    BY <1>2, <1>3, <2>1, <2>2
    DEF CoherentRequest, Carries, CoherentRow, Request, Executing
  <2> QED BY <1>1, <1>3, <2>1, <2>3, WritesCohere
<1>8. CASE AdmitStale(w) \/ RelockStale(w)
  <2> DEFINE rest == [r EXCEPT !.pc = "precheck"]
             new == PrepareArtifactRegeneration
  <2>1. Writes(w, new, rest) /\ r.pc \in {"admit", "relock"}
    BY <1>8, AdmissionWrites DEF AdmitStale, RelockStale, Admitting
  <2>2. r.payload = EmptyResult /\ new.result = EmptyResult
    BY <1>2, <2>1 DEF CoherentRequest, PrepareArtifactRegeneration, NoRow
  <2>3. CoherentRequest([rest EXCEPT !.row = new], active)
    BY <1>2, <1>3, <2>1, <2>2
    DEF CoherentRequest, Carries, SuiteChain, EmptyResult, Request, Executing
  <2> QED BY <1>1, <1>3, <2>1, <2>3, WritesCohere
<1>9. CASE AdmitResume(w)
  <2> DEFINE rest == [r EXCEPT !.pc = "precheck", !.payload = r.row.result]
             new == MarkRunning(r.row)
  <2>1. /\ Writes(w, new, rest) /\ r.pc = "admit"
        /\ r.row.result.stamp = active
    BY <1>9, AdmissionWrites DEF AdmitResume, Admitting, VersionMatches
  <2>2. new.result = r.row.result
    BY <1>2 DEF MarkRunning, Row
  <2>3. CoherentRequest([rest EXCEPT !.row = new], active)
    BY <1>2, <1>3, <1>4, <2>1, <2>2
    DEF CoherentRequest, Carries, CoherentRow, StampedPlan, Request, Executing
  <2> QED BY <1>1, <1>3, <2>1, <2>3, WritesCohere
<1>10. CASE RelockCurrent(w)
  <2> DEFINE rest == [r EXCEPT !.pc = "precheck", !.payload = r.row.result]
  <2>1. /\ req' = [req EXCEPT ![w] = rest] /\ rows' = rows
        /\ r.pc = "relock" /\ r.row.result.stamp = active
    BY <1>2, <1>10 DEF RelockCurrent, VersionMatches, Request
  <2>2. CoherentRequest(rest, active)
    BY <1>2, <1>4, <2>1
    DEF CoherentRequest, Carries, CoherentRow, StampedPlan, Request, Executing
  <2> QED BY <1>1, <2>1, <2>2, MovesCohere
<1>11. CASE CommitRetry(w)
  <2> DEFINE rest == [r EXCEPT !.pc = "relock"]
             new == PrepareRetry(r.row)
  <2>1. Writes(w, new, rest) /\ r.pc = "retry"
    BY <1>11, AdmissionWrites DEF CommitRetry
  <2>2. CoherentRequest([rest EXCEPT !.row = new], active)
    BY <1>2, <1>3, <2>1 DEF CoherentRequest, Request, Executing
  <2> QED BY <1>1, <1>3, <2>1, <2>2, WritesCohere
<1>12. CASE CommitForcedRerun(w)
  <2> DEFINE rest == [r EXCEPT !.pc = "relock"]
             new == PrepareForcedRerun(r.row)
  <2>1. Writes(w, new, rest) /\ r.pc = "force"
    BY <1>12, AdmissionWrites DEF CommitForcedRerun
  <2>2. CoherentRequest([rest EXCEPT !.row = new], active)
    BY <1>2, <1>3, <2>1 DEF CoherentRequest, Request, Executing
  <2> QED BY <1>1, <1>3, <2>1, <2>2, WritesCohere
<1> QED BY <1>5, <1>6, <1>7, <1>8, <1>9, <1>10, <1>11, <1>12

(* The stages.                                                             *)
LEMMA StagesCohere ==
    ASSUME TypeInv, InHand, CoherentRows, CoherentRequests, NEW w \in Workers,
           StageStep(w)
    PROVE  CoherentRows' /\ CoherentRequests'
<1> DEFINE r == req[w]
<1>1. req[w].pc # "idle" /\ active' = active
  BY StageForms DEF StepForm
<1>2. /\ r \in Request /\ r.row \in Row /\ r.row.result \in Result
      /\ r.payload \in Result
      /\ CoherentRow(r.row) /\ CoherentRequest(r, active)
  BY <1>1, BegunTyped DEF InHand, CoherentRows, CoherentRequests
<1>3. /\ Carries(r, active) /\ r.op # "understand"
      /\ r.pc \in Executing \cup {"precheck"}
  BY <1>2, StageForms DEF CoherentRequest, InFlight
<1>4. CASE ReturnCachedRun(w)
  BY <1>3, <1>4 DEF ReturnCachedRun, CacheHit
<1>5. CASE EnterTry(w)
  <2> DEFINE rest == [r EXCEPT !.pc = "stage3", !.stage = "stage_3"]
  <2>1. /\ req' = [req EXCEPT ![w] = rest] /\ rows' = rows
        /\ r.pc = "precheck"
    BY <1>2, <1>5 DEF EnterTry, Request
  <2>2. CoherentRequest(rest, active)
    BY <1>2, <1>3, <2>1
    DEF CoherentRequest, Carries, BeforePlan, Request, Executing
  <2> QED BY <1>1, <2>1, <2>2, MovesCohere
<1>6. CASE SkipStage3(w)
  <2> DEFINE rest == [r EXCEPT !.pc = "stage4", !.stage = "stage_4"]
  <2>1. /\ req' = [req EXCEPT ![w] = rest] /\ rows' = rows
        /\ r.pc = "stage3" /\ r.payload.summary
    BY <1>2, <1>3, <1>6, AfterStageFields DEF SkipStage3
  <2>2. CoherentRequest(rest, active)
    BY <1>2, <1>3, <2>1
    DEF CoherentRequest, Carries, BeforePlan, Request, Executing
  <2> QED BY <1>1, <2>1, <2>2, MovesCohere
<1>7. CASE RunStage3(w)
  <2> DEFINE sent == [r EXCEPT !.payload = Fresh]
             rest == [r EXCEPT !.payload = Fresh, !.pc = "stage4",
                               !.stage = "stage_4"]
             new == SaveStage3Result(r.row, Fresh)
  <2>1. Fresh \in Result
    BY EmptyTypes DEF Fresh, Result
  <2>2. sent \in Request /\ sent.op # "understand"
        /\ [sent EXCEPT !.pc = "stage4", !.stage = "stage_4"] = rest
    BY <1>2, <1>3, <2>1 DEF Request
  <2>3. Writes(w, new, rest) /\ r.pc = "stage3"
    BY <1>7, <2>2, StageWrites, AfterStageFields DEF RunStage3
  <2>4. new.result = Fresh /\ new.status = r.row.status
    BY <1>2 DEF SaveStage3Result, Row
  <2>5. CoherentRow(new)
    BY <1>2, <1>3, <2>3, <2>4
    DEF CoherentRow, CoherentRequest, SuiteChain, StampedPlan, Fresh,
        EmptyResult, Executing
  <2>6. CoherentRequest([rest EXCEPT !.row = new], active)
    BY <1>2, <1>3, <2>1, <2>3, <2>4
    DEF CoherentRequest, Carries, BeforePlan, SuiteChain, Fresh, EmptyResult,
        Request, Executing
  <2> QED BY <1>1, <2>3, <2>5, <2>6, WritesCohere
<1>8. CASE SkipStage4(w)
  <2>1. PICK pc \in {"quality", "plan", "complete"}, stage \in Stage :
           /\ req' = [req EXCEPT ![w] = [r EXCEPT !.pc = pc, !.stage = stage]]
           /\ pc = "quality" <=> r.payload.optimization = NoSuite
           /\ pc = "plan" => r.payload.plan = NoSuite
           /\ pc = "complete" => r.payload.plan # NoSuite
    BY <1>2, <1>3, <1>8, AfterStageFields DEF SkipStage4
  <2> DEFINE rest == [r EXCEPT !.pc = pc, !.stage = stage]
  <2>2. /\ rows' = rows /\ r.pc = "stage4"
        /\ r.payload.generation # NoSuite
        /\ r.payload.generation.ver = active
    BY <1>8 DEF SkipStage4, IsCurrentOutput
  <2>3. SuiteChain(DropPlan(r.payload))
    BY <1>2, <1>3, <2>2 DEF Carries, SuiteChain, DropPlan, Result
  <2>4. CoherentRequest(rest, active)
    BY <1>2, <1>3, <2>1, <2>2, <2>3
    DEF CoherentRequest, Carries, BeforePlan, Request, Executing
  <2> QED BY <1>1, <2>1, <2>2, <2>4, MovesCohere
<1>9. CASE RunStage4(w)
  <2> DEFINE kept == KeptByStage4(r.payload)
             payload(s) == [kept EXCEPT !.generation = s]
             new(s) == SaveTestGeneration(r.row, s)
  <2>1. PICK s \in NewSuites :
           Writes(w, new(s), AfterStage4([r EXCEPT !.payload = payload(s)]))
    BY <1>9, StageWrites
  <2>11. r.pc = "stage4" /\ s \in Suite
    BY <1>9, <2>1 DEF RunStage4, NewSuites
  <2>12. SuiteChain(r.payload)
    BY <1>3, <2>11 DEF Carries
  <2>13. /\ kept \in Result /\ kept.optimization = NoSuite
        /\ kept.summary = r.payload.summary
    BY <1>2, <2>12
    DEF KeptByStage4, DropFromVerification, Result, Artifact, SuiteChain
  <2> HIDE DEF kept
  <2>2. /\ payload(s) \in Result
        /\ payload(s).generation = s
        /\ payload(s).optimization = NoSuite
        /\ payload(s).summary = r.payload.summary
    BY <2>11, <2>13 DEF Result, Artifact
  <2>3. /\ new(s).result.optimization = NoSuite
        /\ new(s).result.plan = NoSuite
        /\ new(s).status = "running"
    BY <1>2, <1>3
    DEF SaveTestGeneration, DropFromVerification, Row, Result,
        CoherentRequest
  <2>4. CoherentRow(new(s))
    BY <2>3 DEF CoherentRow, SuiteChain, StampedPlan
  <2> HIDE DEF payload, new
  <2>5. /\ [r EXCEPT !.payload = payload(s)] \in Request
        /\ [r EXCEPT !.payload = payload(s)].op # "understand"
        /\ [r EXCEPT !.payload = payload(s)].payload = payload(s)
    BY <1>2, <1>3, <2>2 DEF Request
  <2>6. PICK stage \in Stage :
           AfterStage4([r EXCEPT !.payload = payload(s)]) =
              [r EXCEPT !.payload = payload(s), !.pc = "quality",
                        !.stage = stage]
    <3>1. PICK pc \in {"quality", "plan", "complete"}, stage \in Stage :
             /\ AfterStage4([r EXCEPT !.payload = payload(s)]) =
                   [[r EXCEPT !.payload = payload(s)]
                       EXCEPT !.pc = pc, !.stage = stage]
             /\ pc = "quality"
      BY <2>2, <2>5, AfterStageFields
    <3> QED BY <1>2, <3>1 DEF Request
  <2> DEFINE rest == [r EXCEPT !.payload = payload(s), !.pc = "quality",
                               !.stage = stage]
  <2>7. s # NoSuite /\ s.ver = active
    BY NoSuiteAssumption DEF NewSuites, Suite, Version
  <2>8. CoherentRequest([rest EXCEPT !.row = new(s)], active)
    BY <1>2, <1>3, <2>11, <2>2, <2>3, <2>7
    DEF CoherentRequest, Carries, BeforePlan, SuiteChain, Request, Executing
  <2> QED BY <1>1, <2>1, <2>4, <2>6, <2>8, WritesCohere
<1>10. CASE RunQualityLoop(w)
  <2> DEFINE s == r.payload.generation
             payload == [r.payload EXCEPT !.verification = s,
                                          !.optimization = s]
             rest == [r EXCEPT !.pc = "plan",
                               !.stage = "runtime_preparation",
                               !.payload.verification = s,
                               !.payload.optimization = s]
             new(partial) == SaveQualityOptimization(r.row, s, partial)
  <2>1. PICK partial \in BOOLEAN : Writes(w, new(partial), rest)
    BY <1>10, StageWrites
  <2>2. /\ r.pc = "quality" /\ s # NoSuite /\ s.ver = active
        /\ r.row.result.plan = NoSuite
        /\ r.row.status = "running"
    BY <1>2, <1>3, <1>10
    DEF RunQualityLoop, Carries, BeforePlan, CoherentRequest, Executing
  <2>3. /\ new(partial).result.generation = s
        /\ new(partial).result.verification = s
        /\ new(partial).result.optimization = s
        /\ new(partial).result.plan = NoSuite
        /\ new(partial).status = "running"
    BY <1>2, <2>2 DEF SaveQualityOptimization, Row, Result
  <2>4. CoherentRow(new(partial))
    BY <2>2, <2>3 DEF CoherentRow, SuiteChain, StampedPlan
  <2>5. /\ payload.generation = s /\ payload.verification = s
        /\ payload.optimization = s
        /\ payload.summary = r.payload.summary
        /\ SuiteChain(DropPlan(payload))
    BY <1>2 DEF Result, SuiteChain, DropPlan
  <2>6. rest = [r EXCEPT !.pc = "plan", !.stage = "runtime_preparation",
                         !.payload = payload]
    BY <1>2 DEF Request
  <2> HIDE DEF new, payload
  <2> DEFINE next == [rest EXCEPT !.row = new(partial)]
  <2>7. /\ next.pc = "plan" /\ next.op = r.op
        /\ next.payload = payload /\ next.row = new(partial)
    BY <1>2, <2>6 DEF Request
  <2> HIDE DEF next
  <2>8. CoherentRequest(next, active)
    BY <1>3, <2>2, <2>3, <2>5, <2>7
    DEF CoherentRequest, Carries, BeforePlan, Executing
  <2> QED BY <1>1, <2>1, <2>4, <2>8, WritesCohere DEF next
<1>11. CASE RunRuntimePreparation(w)
  <2> DEFINE s == r.payload.optimization
             payload == [r.payload EXCEPT !.plan = s]
             rest == [r EXCEPT !.pc = "complete", !.payload.plan = s]
             new == SaveRuntimeExecutionPlan(r.row, s)
  <2>1. Writes(w, new, rest)
    BY <1>11, StageWrites
  <2>2. /\ r.pc = "plan" /\ s # NoSuite
        /\ r.payload.generation = s /\ r.payload.verification = s
        /\ s.ver = active
        /\ r.row.status = "running"
    BY <1>2, <1>3, <1>11
    DEF RunRuntimePreparation, Carries, SuiteChain, DropPlan, Result,
        CoherentRequest, Executing
  <2>3. /\ new.result = [r.row.result EXCEPT !.plan = s]
        /\ new.status = "running"
    BY <1>2, <2>2 DEF SaveRuntimeExecutionPlan, Row
  <2>4. r.row.result.optimization \in {NoSuite, s}
        /\ (r.row.result.stamp # NoStamp => r.row.result.optimization = s)
    BY <1>3 DEF Carries
  <2>5. CoherentRow(new)
    BY <1>2, <2>2, <2>3, <2>4
    DEF CoherentRow, SuiteChain, StampedPlan, Result
  <2>6. /\ payload.generation = s /\ payload.verification = s
        /\ payload.optimization = s /\ payload.plan = s
        /\ payload.summary = r.payload.summary
    BY <1>2, <2>2 DEF Result
  <2>7. rest = [r EXCEPT !.pc = "complete", !.payload = payload]
    BY <1>2 DEF Request
  <2>8. /\ new.result.optimization = r.row.result.optimization
        /\ new.result.stamp = r.row.result.stamp
    BY <1>2, <2>3 DEF Result
  <2> HIDE DEF new, payload
  <2> DEFINE next == [rest EXCEPT !.row = new]
  <2>9. /\ next.pc = "complete" /\ next.op = r.op
        /\ next.payload = payload /\ next.row = new
    BY <1>2, <2>7 DEF Request
  <2> HIDE DEF next
  <2>10. Carries(next, active)
    BY <1>3, <2>2, <2>4, <2>6, <2>8, <2>9
    DEF Carries, BeforePlan, SuiteChain, Executing
  <2>11. CoherentRequest(next, active)
    BY <1>3, <2>3, <2>9, <2>10 DEF CoherentRequest, Executing
  <2> QED BY <1>1, <2>1, <2>5, <2>11, WritesCohere DEF next
<1>12. CASE CompleteRun(w)
  <2> DEFINE payload == [r.payload EXCEPT !.stamp = active]
             new == Complete(r.row, payload)
             s == r.payload.generation
  <2>1. WritesLast(w, new) /\ r.pc = "complete"
    BY <1>12, StageWrites DEF CompleteRun
  <2>2. /\ s # NoSuite /\ s.ver = active /\ r.payload.summary
        /\ r.payload.verification = s /\ r.payload.optimization = s
        /\ r.payload.plan = s
    BY <1>3, <2>1 DEF Carries, SuiteChain, Executing
  <2>3. new.result = payload
    BY <1>2 DEF Complete, Row
  <2>4. /\ payload.summary /\ payload.stamp = active
        /\ payload.generation = s /\ payload.verification = s
        /\ payload.optimization = s /\ payload.plan = s
    BY <1>2, <2>2 DEF Result
  <2> HIDE DEF payload
  <2>5. CoherentRow(new)
    BY <2>2, <2>3, <2>4
    DEF CoherentRow, SuiteChain, StampedPlan, WholeOrBare, Derived
  <2> QED BY <1>1, <2>1, <2>5, WritesCohere
<1> QED BY <1>4, <1>5, <1>6, <1>7, <1>8, <1>9, <1>10, <1>11, <1>12
        DEF StageStep

(* Every step of these entry points is one of the following.               *)
LEMMA CoherentSteps ==
    ASSUME TypeInv, CoherentRequests, Next,
           Ops \subseteq {"run", "retry", "force_rerun"}
    PROVE  \/ Restart
           \/ \E w \in Workers :
                 \/ \E d \in DepRuns : \/ BeginRun(w, "run", d)
                                       \/ BeginRetry(w, d)
                                       \/ BeginForcedRerun(w, d)
                 \/ AdmitCreate(w) \/ MarkCreatedRunning(w) \/ AdmitLegacy(w)
                 \/ AdmitStale(w) \/ AdmitResume(w) \/ CommitRetry(w)
                 \/ CommitForcedRerun(w) \/ RelockCurrent(w) \/ RelockStale(w)
                 \/ StageStep(w)
                 \/ Fail(w) /\ InFlight(w)
                 \/ DieUnrecorded(w)
<1>1. ASSUME NEW w \in Workers, Begin(w)
      PROVE  \E d \in DepRuns : \/ BeginRun(w, "run", d)
                                \/ BeginRetry(w, d)
                                \/ BeginForcedRerun(w, d)
  BY <1>1
  DEF Begin, BeginRun, BeginGenerate, BeginVerify, BeginOptimize,
      BeginRetryGeneration, LoadStage3Artifact
<1>2. ASSUME NEW w \in Workers
      PROVE  /\ req[w].pc \in {"idle", "admit", "pending", "retry", "force",
                               "relock", "precheck"} \cup Executing
             /\ ~SaveCheckpoint(w) /\ (Fail(w) => InFlight(w))
  BY DEF CoherentRequests, CoherentRequest, SaveCheckpoint, Fail, InFlight,
         Executing
<1>3. ASSUME NEW w \in Workers
      PROVE  /\ ~SaveGeneration(w) /\ ~SaveVerification(w)
             /\ ~SaveOptimization(w) /\ ~PersistRuntimePlan(w)
             /\ ~ReopenForGeneration(w) /\ ~RestoreForGeneration(w)
  BY <1>2
  DEF SaveGeneration, SaveVerification, SaveOptimization, PersistRuntimePlan,
      ReopenForGeneration, RestoreForGeneration, Executing
<1> QED BY <1>1, <1>2, <1>3 DEF Next, Progress, StageStep

(* A request that begins has nothing in hand but the row.                  *)
LEMMA BeginningCoheres ==
    ASSUME TypeInv, CoherentRows, CoherentRequests, NEW w \in Workers,
           NEW d \in DepRuns,
           BeginRun(w, "run", d) \/ BeginRetry(w, d) \/ BeginForcedRerun(w, d)
    PROVE  CoherentRows' /\ CoherentRequests'
<1>1. PICK pc \in {"admit", "retry", "force"},
           op \in {"run", "retry", "force_rerun"} :
         Start(w, op, d, pc, EmptyResult, NoSuite)
  BY DEF BeginRun, BeginRetry, BeginForcedRerun
<1> DEFINE next == [pc |-> pc, op |-> op, dep |-> d, row |-> rows[d],
                    payload |-> EmptyResult, stage |-> "none",
                    base |-> NoSuite]
<1>2. CoherentRequest(next, active)
  BY DEF CoherentRequest, Executing
<1>3. /\ req' = [req EXCEPT ![w] = next] /\ rows' = rows
      /\ active' = active
  BY <1>1 DEF Start, BeginRun, BeginRetry, BeginForcedRerun
<1> QED BY <1>2, <1>3, MovesCohere

(* Coherence is inductive for requests with the current row in hand.       *)
LEMMA NextCoheres ==
    ASSUME TypeInv, InHand, CoherentRows, CoherentRequests, [Next]_vars,
           Ops \subseteq {"run", "retry", "force_rerun"}
    PROVE  CoherentRows' /\ CoherentRequests'
<1>1. CASE UNCHANGED vars
  BY <1>1 DEF vars, CoherentRows, CoherentRequests
<1>2. /\ CoherentRequest(IdleRequest, active)
      /\ CoherentRequest(IdleRequest, active')
  BY DEF CoherentRequest, IdleRequest, Executing
<1>3. CASE Restart
  BY <1>2, <1>3 DEF Restart, CoherentRows, CoherentRequests
<1>4. ASSUME NEW w \in Workers, Fail(w), InFlight(w)
      PROVE  CoherentRows' /\ CoherentRequests'
  <2>1. /\ req[w].pc # "idle" /\ req[w].pc \in Executing
        /\ active' = active
    BY <1>4 DEF Fail, InFlight, Executing
  <2>2. /\ req[w].row \in Row /\ req[w].stage \in Stage
        /\ CoherentRow(req[w].row)
    BY <2>1, BegunTyped DEF InHand, CoherentRows
  <2>3. FailedStageOf(req[w]) \in Stage
    BY <2>1, <2>2 DEF FailedStageOf, Executing
  <2> DEFINE new == FailRun(req[w].row, FailedStageOf(req[w]))
  <2>4. new \in Row
    BY <2>2, <2>3 DEF FailRun, Row, Status
  <2>5. CoherentRow(new)
    BY <2>2, <2>3, PreparedCoherent
  <2>6. CommitAndEnd(w, new)
    BY <1>4 DEF Fail
  <2>7. WritesLast(w, new)
    BY <2>1, <2>4, <2>6, CommitInHand
  <2> QED BY <2>1, <2>5, <2>7, WritesCohere
<1>5. ASSUME NEW w \in Workers, DieUnrecorded(w)
      PROVE  CoherentRows' /\ CoherentRequests'
  BY <1>2, <1>5, MovesCohere DEF DieUnrecorded
<1> QED BY <1>1, <1>3, <1>4, <1>5, CoherentSteps, BeginningCoheres,
           AdmissionCoheres, StagesCohere

(* A server with one request thread.                                       *)
OneWorker == \A v, w \in Workers : v = w

(* Each step of it leaves its request with the row that is in the          *)
(* database.                                                               *)
LEMMA AloneInHand ==
    ASSUME OneWorker, TypeInv, InHand, [Next]_vars
    PROVE  InHand'
<1>1. ASSUME NEW w \in Workers, req[w].pc # "idle", NEW new,
             \/ \E rest \in Request :
                   CommitTo(w, new, rest) /\ rest.dep = req[w].dep
             \/ CommitAndEnd(w, new)
      PROVE  InHand'
  <2>1. req[w].dep \in DepRuns
    BY <1>1, BegunTyped
  <2>2. rows'[req[w].dep] = Committed(w, new)
    BY <1>1, <2>1 DEF CommitTo, CommitAndEnd, TypeInv, TypeOK
  <2>3. CASE CommitAndEnd(w, new)
    BY <2>3 DEF OneWorker, InHand, CommitAndEnd, IdleRequest, TypeInv, TypeOK
  <2>4. ASSUME NEW rest \in Request, CommitTo(w, new, rest),
               rest.dep = req[w].dep
        PROVE  InHand'
    <3>1. /\ req'[w].dep = req[w].dep
          /\ req'[w].row = Committed(w, new)
      BY <2>4 DEF CommitTo, TypeInv, TypeOK, Request
    <3> QED BY <2>2, <3>1 DEF OneWorker, InHand
  <2> QED BY <1>1, <2>3, <2>4
<1>2. ASSUME NEW w \in Workers, StepForm(w)
      PROVE  InHand'
  <2>1. CASE Stores(w) \/ StoresLast(w)
    BY <1>1, <1>2, <2>1 DEF StepForm, Stores, StoresLast, GoesOn
  <2>2. CASE Moves(w) \/ Leaves(w)
    BY <1>2, <2>2
    DEF OneWorker, StepForm, Moves, Leaves, GoesOn, InHand, IdleRequest,
        TypeInv, TypeOK
  <2> QED BY <1>2, <2>1, <2>2 DEF StepForm
<1>3. ASSUME NEW w \in Workers,
             \/ AdmitCreate(w) \/ MarkCreatedRunning(w) \/ AdmitLegacy(w)
             \/ AdmitStale(w) \/ AdmitResume(w) \/ CommitRetry(w)
             \/ CommitForcedRerun(w) \/ RelockStale(w)
             \/ ReopenForGeneration(w) \/ RestoreForGeneration(w)
      PROVE  InHand'
  <2>1. req[w].pc # "idle"
    BY <1>3
    DEF AdmitCreate, MarkCreatedRunning, AdmitLegacy, AdmitStale,
        AdmitResume, CommitRetry, CommitForcedRerun, RelockStale,
        ReopenForGeneration, RestoreForGeneration, Admitting
  <2>2. req[w] \in Request /\ req[w].row.result \in Result
    BY <2>1, BegunTyped
  <2>3. \A pc \in Pc, payload \in Result :
           /\ [req[w] EXCEPT !.pc = pc] \in Request
           /\ [req[w] EXCEPT !.pc = pc].dep = req[w].dep
           /\ [req[w] EXCEPT !.pc = pc, !.payload = payload] \in Request
           /\ [req[w] EXCEPT !.pc = pc, !.payload = payload].dep = req[w].dep
    BY <2>2 DEF Request
  <2>4. {"pending", "precheck", "relock", "restore", "generate"} \subseteq Pc
    BY DEF Pc
  <2>5. ASSUME NEW pc \in {"pending", "precheck", "relock", "restore"},
               NEW new, CommitTo(w, new, [req[w] EXCEPT !.pc = pc])
        PROVE  InHand'
    <3> DEFINE rest == [req[w] EXCEPT !.pc = pc]
    <3>1. rest \in Request /\ rest.dep = req[w].dep /\ CommitTo(w, new, rest)
      BY <2>2, <2>3, <2>4, <2>5
    <3> QED BY <1>1, <2>1, <3>1
  <2>6. ASSUME NEW pc \in {"precheck", "generate"}, NEW payload \in Result,
               NEW new,
               CommitTo(w, new, [req[w] EXCEPT !.pc = pc,
                                               !.payload = payload])
        PROVE  InHand'
    <3> DEFINE rest == [req[w] EXCEPT !.pc = pc, !.payload = payload]
    <3>1. rest \in Request /\ rest.dep = req[w].dep /\ CommitTo(w, new, rest)
      BY <2>3, <2>4, <2>6
    <3> QED BY <1>1, <2>1, <3>1
  <2>7. CASE AdmitCreate(w) \/ MarkCreatedRunning(w)
    BY <2>5, <2>7 DEF AdmitCreate, MarkCreatedRunning
  <2>8. CASE AdmitStale(w) \/ RelockStale(w)
    BY <2>5, <2>8 DEF AdmitStale, RelockStale
  <2>9. CASE CommitRetry(w) \/ CommitForcedRerun(w)
             \/ ReopenForGeneration(w)
    BY <2>5, <2>9 DEF CommitRetry, CommitForcedRerun, ReopenForGeneration
  <2>10. CASE AdmitLegacy(w) \/ AdmitResume(w)
    BY <2>2, <2>6, <2>10 DEF AdmitLegacy, AdmitResume
  <2>11. CASE RestoreForGeneration(w)
    BY <2>6, <2>11, EmptyTypes DEF RestoreForGeneration
  <2> QED BY <1>3, <2>7, <2>8, <2>9, <2>10, <2>11
<1>4. ASSUME NEW w \in Workers, RelockCurrent(w)
      PROVE  InHand'
  <2>1. /\ req'[w].dep = req[w].dep /\ req'[w].row = req[w].row
        /\ req[w].pc = "relock" /\ rows' = rows
    BY <1>4, BegunTyped DEF RelockCurrent, TypeInv, TypeOK, Request
  <2> QED BY <2>1 DEF OneWorker, InHand
<1>5. ASSUME NEW w \in Workers, NEW op, NEW d \in DepRuns, NEW pc,
             NEW payload, NEW base, Start(w, op, d, pc, payload, base),
             rows' = rows
      PROVE  InHand'
  BY <1>5 DEF Start, OneWorker, InHand, TypeInv, TypeOK
<1>6. ASSUME NEW w \in Workers, Begin(w)
      PROVE  InHand'
  BY <1>5, <1>6
  DEF Begin, BeginRun, BeginRetry, BeginForcedRerun, BeginGenerate,
      BeginVerify, BeginOptimize, BeginRetryGeneration, LoadStage3Artifact
<1>7. ASSUME NEW w \in Workers, DieUnrecorded(w)
      PROVE  InHand'
  BY <1>7 DEF DieUnrecorded, OneWorker, InHand, IdleRequest, TypeInv, TypeOK
<1>8. CASE Restart \/ UNCHANGED vars
  BY <1>8 DEF Restart, vars, InHand, IdleRequest
<1>9. ASSUME NEW w \in Workers,
             \/ Progress(w) \/ SaveCheckpoint(w) \/ Fail(w)
      PROVE  InHand'
  <2>1. CASE StageStep(w)
    BY <1>2, <2>1, StageForms
  <2>2. CASE EndpointStep(w)
    BY <1>2, <2>2, EndpointForms
  <2> QED BY <1>3, <1>4, <1>9, <2>1, <2>2
          DEF Progress, StageStep, EndpointStep
<1> QED BY <1>6, <1>7, <1>8, <1>9 DEF Next

(* Nobody has a row in hand when the server starts.                        *)
LEMMA InitInHand == Init \/ InitExisting => InHand
  BY DEF Init, InitExisting, InHand, IdleRequest

(* Served one request at a time, run(), retry() and force_rerun() never    *)
(* leave a partial or stale run published, whatever fails, is lost or      *)
(* restarts and whenever a new version is deployed.                        *)
THEOREM PublishedIsCoherent ==
    ASSUME OneWorker, Ops \subseteq {"run", "retry", "force_rerun"}
    PROVE  Spec => []PublishedCoherent
<1> DEFINE Inv == TypeInv /\ InHand /\ CoherentRows /\ CoherentRequests
<1>1. Init => Inv
  <2>1. ASSUME Init
        PROVE  CoherentRows /\ CoherentRequests
    BY <2>1
    DEF Init, CoherentRows, CoherentRequests, CoherentRow, CoherentRequest,
        SuiteChain, StampedPlan, NoRow, EmptyResult, IdleRequest, Executing
  <2> QED BY <2>1, InitTyped, InitInHand
<1>2. Inv /\ [Next]_vars => Inv'
  BY NextTyped, AloneInHand, NextCoheres
<1>3. Inv => PublishedCoherent
  BY CoherentIsPublished
<1> QED BY <1>1, <1>2, <1>3, PTL DEF Spec

(* So do any number of concurrent run() requests on runs that exist and    *)
(* are coherent: the exclusion of AtMostOneExecutor keeps the row in hand  *)
(* of each of them current.                                                *)
THEOREM ResumedIsCoherent ==
    ASSUME Ops \subseteq {"run"},
           \A row \in ExistingRows : CoherentRow(row)
    PROVE  SpecExisting => []PublishedCoherent
<1> DEFINE Inv == /\ TypeInv /\ ExecutionInv
                  /\ CoherentRows /\ CoherentRequests
<1>1. InitExisting => Inv
  <2>1. ASSUME InitExisting
        PROVE  CoherentRows /\ CoherentRequests
    BY <2>1
    DEF InitExisting, CoherentRows, CoherentRequests, CoherentRequest,
        IdleRequest, Executing
  <2> QED BY <2>1, InitTyped, InitExistingExecution
<1>2. ExecutionInv => InHand
  BY DEF ExecutionInv, OnlyPipelineRequests, AdmittedIsFresh,
         InFlightIsRunning, InFlight, InHand
<1>3. Inv /\ [Next]_vars => Inv'
  <2>1. Ops \subseteq {"run", "understand"}
    OBVIOUS
  <2>2. Ops \subseteq {"run", "retry", "force_rerun"}
    OBVIOUS
  <2> QED BY <1>2, <2>1, <2>2, NextTyped, NextKeepsExecution, NextCoheres
<1>4. Inv => PublishedCoherent
  BY CoherentIsPublished
<1> QED BY <1>1, <1>3, <1>4, PTL DEF SpecExisting
-----------------------------------------------------------------------------
(* Resuming keeps a persisted Stage 3 (Stage3Kept).  What a request stores *)
(* when it completes is its payload, so the payload must hold Stage 3 by   *)
(* then, whether the request ran it or took it over.                       *)

PastStage3 ==
    \A w \in Workers :
       req[w].pc \in Executing \ {"stage3"} => req[w].payload.summary

(* A step that leaves a request before Stage 3, or carrying a Stage 3.     *)
LEMMA StepPastStage3 ==
    ASSUME TypeInv, PastStage3, NEW w \in Workers, NEW next,
           req' = [req EXCEPT ![w] = next],
           next.pc \in Executing \ {"stage3"} => next.payload.summary
    PROVE  PastStage3'
  BY DEF PastStage3, TypeInv, TypeOK

(* Past Stage 3 the payload carries its result.                            *)
LEMMA NextPastStage3 ==
    ASSUME TypeInv, ExecutionInv, InHand, PastStage3, [Next]_vars,
           Ops \subseteq {"run", "understand"}
    PROVE  PastStage3'
<1>1. CASE UNCHANGED vars \/ Restart
  BY <1>1 DEF vars, Restart, PastStage3, IdleRequest, Executing
<1>2. ASSUME NEW w \in Workers, NEW d \in DepRuns, NEW op \in AllOps,
             BeginRun(w, op, d)
      PROVE  PastStage3'
  BY <1>2, StepPastStage3 DEF BeginRun, Start, Executing
<1>3. ASSUME NEW w \in Workers,
             \/ AdmitCreate(w) \/ AdmitLegacy(w) \/ AdmitStale(w)
             \/ AdmitResume(w)
      PROVE  PastStage3'
  <2>1. req[w].pc # "idle"
    BY <1>3 DEF AdmitCreate, AdmitLegacy, AdmitStale, AdmitResume, Admitting
  <2>2. req[w] \in Request
    BY <2>1, BegunTyped
  <2>3. ASSUME NEW pc \in {"pending", "precheck"}, NEW new, NEW payload,
               \/ Writes(w, new, [req[w] EXCEPT !.pc = pc])
               \/ Writes(w, new, [req[w] EXCEPT !.pc = pc,
                                                !.payload = payload])
        PROVE  PastStage3'
    <3> DEFINE moved == [[req[w] EXCEPT !.pc = pc] EXCEPT !.row = new]
               loaded == [[req[w] EXCEPT !.pc = pc, !.payload = payload]
                             EXCEPT !.row = new]
    <3>1. moved.pc = pc /\ loaded.pc = pc
      BY <2>2 DEF Request
    <3> HIDE DEF moved, loaded
    <3>2. \/ req' = [req EXCEPT ![w] = moved]
          \/ req' = [req EXCEPT ![w] = loaded]
      BY <2>3 DEF Writes, moved, loaded
    <3>3. PICK next : req' = [req EXCEPT ![w] = next] /\ next.pc = pc
      BY <3>1, <3>2
    <3> QED BY <3>3, StepPastStage3 DEF Executing
  <2>4. CASE AdmitCreate(w)
    BY <2>3, <2>4, AdmissionWrites
  <2>5. CASE AdmitLegacy(w)
    BY <2>3, <2>5, AdmissionWrites
  <2>6. CASE AdmitStale(w)
    BY <2>3, <2>6, AdmissionWrites
  <2>7. CASE AdmitResume(w)
    BY <2>3, <2>7, AdmissionWrites
  <2> QED BY <1>3, <2>4, <2>5, <2>6, <2>7
<1>4. ASSUME NEW w \in Workers, Fail(w) \/ DieUnrecorded(w)
      PROVE  PastStage3'
  BY <1>4, StepPastStage3
  DEF Fail, DieUnrecorded, CommitAndEnd, IdleRequest, Executing
<1>5. ASSUME NEW w \in Workers, StageStep(w)
      PROVE  PastStage3'
  <2> DEFINE r == req[w]
  <2>1. req[w].pc # "idle"
    BY <1>5, StageForms DEF StepForm
  <2>2. r \in Request /\ r.payload \in Result
    BY <2>1, BegunTyped
  <2>3. CASE ReturnCachedRun(w) \/ CompleteRun(w)
    BY <2>3, StepPastStage3
    DEF ReturnCachedRun, CompleteRun, CommitAndEnd, IdleRequest, Executing
  <2>4. CASE EnterTry(w)
    <3>1. /\ req' = [req EXCEPT ![w] = [r EXCEPT !.pc = "stage3",
                                                 !.stage = "stage_3"]]
          /\ [r EXCEPT !.pc = "stage3", !.stage = "stage_3"].pc = "stage3"
      BY <2>2, <2>4 DEF EnterTry, Request
    <3> QED BY <3>1, StepPastStage3
  <2>5. ASSUME NEW q \in Request, q.payload.summary
        PROVE  AfterStage3(q).payload.summary /\ AfterStage4(q).payload.summary
    BY <2>5 DEF AfterStage3, AfterStage4, Request
  <2>6. CASE SkipStage3(w)
    BY <2>2, <2>5, <2>6, StepPastStage3 DEF SkipStage3
  <2>7. CASE SkipStage4(w)
    <3>1. r.payload.summary
      BY <2>7 DEF SkipStage4, PastStage3, Executing
    <3> QED BY <2>2, <2>5, <2>7, <3>1, StepPastStage3 DEF SkipStage4
  <2>8. ASSUME NEW new, NEW rest \in Request, rest.payload.summary,
               Writes(w, new, rest)
        PROVE  PastStage3'
    <3>1. [rest EXCEPT !.row = new].payload.summary
      BY <2>8 DEF Request
    <3> QED BY <2>8, <3>1, StepPastStage3 DEF Writes
  <2>9. CASE RunStage3(w)
    <3> DEFINE sent == [r EXCEPT !.payload = Fresh]
    <3>1. Fresh \in Result /\ Fresh.summary
      BY EmptyTypes DEF Fresh, Result
    <3>2. sent \in Request /\ sent.payload.summary
      BY <2>2, <3>1 DEF Request
    <3>3. Writes(w, SaveStage3Result(r.row, Fresh), AfterStage3(sent))
      BY <2>9, StageWrites
    <3> HIDE DEF sent
    <3>4. AfterStage3(sent) \in Request /\ AfterStage3(sent).payload.summary
      BY <2>5, <3>2, AfterStageForms
    <3> QED BY <2>8, <3>3, <3>4
  <2>10. CASE RunStage4(w)
    <3> DEFINE kept == KeptByStage4(r.payload)
               sent(s) == [r EXCEPT !.payload = [kept EXCEPT !.generation = s]]
    <3>1. r.payload.summary
      BY <2>10 DEF RunStage4, PastStage3, Executing
    <3>2. kept \in Result /\ kept.summary
      BY <2>2, <3>1 DEF KeptByStage4, DropFromVerification, Result, Artifact
    <3>3. PICK s \in NewSuites :
             Writes(w, SaveTestGeneration(r.row, s), AfterStage4(sent(s)))
      BY <2>10, StageWrites
    <3> HIDE DEF kept
    <3>4. [kept EXCEPT !.generation = s] \in Result
          /\ [kept EXCEPT !.generation = s].summary
      BY <3>2, <3>3 DEF Result, Artifact, NewSuites
    <3>5. sent(s) \in Request /\ sent(s).payload.summary
      BY <2>2, <3>4 DEF Request
    <3> HIDE DEF sent
    <3>6. AfterStage4(sent(s)) \in Request
          /\ AfterStage4(sent(s)).payload.summary
      BY <2>5, <3>5, AfterStageForms
    <3> QED BY <2>8, <3>3, <3>6
  <2>11. CASE RunQualityLoop(w)
    <3> DEFINE s == r.payload.generation
               payload == [r.payload EXCEPT !.verification = s,
                                            !.optimization = s]
               rest == [r EXCEPT !.pc = "plan",
                                 !.stage = "runtime_preparation",
                                 !.payload.verification = s,
                                 !.payload.optimization = s]
    <3>1. r.payload.summary
      BY <2>11 DEF RunQualityLoop, PastStage3, Executing
    <3>2. payload \in Result /\ payload.summary
      BY <2>2, <3>1 DEF Result
    <3>3. rest = [r EXCEPT !.pc = "plan", !.stage = "runtime_preparation",
                           !.payload = payload]
      BY <2>2 DEF Request
    <3>4. rest \in Request /\ rest.payload.summary
      BY <2>2, <3>2, <3>3 DEF Request, Pc, Stage
    <3>5. \E new : Writes(w, new, rest)
      BY <2>11, StageWrites
    <3> HIDE DEF rest
    <3> QED BY <2>8, <3>4, <3>5
  <2>12. CASE RunRuntimePreparation(w)
    <3> DEFINE payload == [r.payload EXCEPT !.plan = r.payload.optimization]
               rest == [r EXCEPT !.pc = "complete",
                                 !.payload.plan = r.payload.optimization]
    <3>1. r.payload.summary
      BY <2>12 DEF RunRuntimePreparation, PastStage3, Executing
    <3>2. payload \in Result /\ payload.summary
      BY <2>2, <3>1 DEF Result
    <3>3. rest = [r EXCEPT !.pc = "complete", !.payload = payload]
      BY <2>2 DEF Request
    <3>4. rest \in Request /\ rest.payload.summary
      BY <2>2, <3>2, <3>3 DEF Request, Pc
    <3>5. \E new : Writes(w, new, rest)
      BY <2>12, StageWrites
    <3> HIDE DEF rest
    <3> QED BY <2>8, <3>4, <3>5
  <2> QED BY <1>5, <2>3, <2>4, <2>6, <2>7, <2>9, <2>10, <2>11, <2>12
          DEF StageStep
<1> QED BY <1>1, <1>2, <1>3, <1>4, <1>5, PipelineStepsOnly

(* A result that holds a Stage 3 not known to be of another version.       *)
HoldsStage3(res) == res.summary /\ res.stamp \in {NoStamp, active}

(* No step takes such a Stage 3 from a row.                                *)
LEMMA NextKeepsStage3 ==
    ASSUME TypeInv, ExecutionInv, InHand, PastStage3, [Next]_vars,
           Ops \subseteq {"run", "understand"},
           NEW d \in DepRuns, HoldsStage3(rows[d].result)
    PROVE  rows'[d].result.summary
<1>1. ASSUME NEW w \in Workers, req[w].pc # "idle", NEW new,
             rows' = [rows EXCEPT ![req[w].dep] = new],
             HoldsStage3(req[w].row.result) => new.result.summary
      PROVE  rows'[d].result.summary
  <2>1. /\ req[w].dep \in DepRuns /\ req[w].row = rows[req[w].dep]
        /\ rows \in [DepRuns -> Row]
    BY <1>1, BegunTyped DEF InHand, TypeInv, TypeOK
  <2>2. CASE d = req[w].dep
    BY <1>1, <2>1, <2>2
  <2>3. CASE d # req[w].dep
    BY <1>1, <2>1, <2>3 DEF HoldsStage3
  <2> QED BY <2>2, <2>3
<1>2. CASE rows' = rows
  BY <1>2 DEF HoldsStage3
<1>3. ASSUME NEW w \in Workers, req[w].pc # "idle"
      PROVE  req[w].row \in Row /\ req[w].row.result \in Result
  BY <1>3, BegunTyped
<1>4. ASSUME NEW w \in Workers,
             \/ AdmitCreate(w) \/ AdmitLegacy(w) \/ AdmitStale(w)
             \/ AdmitResume(w)
      PROVE  rows'[d].result.summary
  <2> DEFINE row == req[w].row
  <2>1. req[w].pc = "admit" /\ req[w].pc # "idle"
    BY <1>4 DEF AdmitCreate, AdmitLegacy, AdmitStale, AdmitResume, Admitting
  <2>2. row \in Row /\ row.result \in Result
    BY <1>3, <2>1
  <2>3. CASE AdmitCreate(w)
    <3>1. FALSE
      BY <2>1, <2>3, BegunTyped
      DEF AdmitCreate, Admitting, ExecutionInv, AdmittedIsFresh, RowsExist
    <3> QED BY <3>1
  <2>4. CASE AdmitLegacy(w)
    <3>1. rows' = [rows EXCEPT ![req[w].dep] = PrepareForcedRerun(row)]
      BY <2>4, AdmissionWrites DEF Writes
    <3>2. HoldsStage3(row.result) => PrepareForcedRerun(row).result.summary
      BY <2>2 DEF HoldsStage3, PrepareForcedRerun, DropFromGeneration,
                  DropFromVerification, Result
    <3> QED BY <1>1, <2>1, <3>1, <3>2
  <2>5. CASE AdmitStale(w)
    <3>1. rows' = [rows EXCEPT ![req[w].dep] = PrepareArtifactRegeneration]
      BY <2>5, AdmissionWrites DEF Writes
    <3>2. ~HoldsStage3(row.result)
      BY <2>5 DEF AdmitStale, Admitting, HoldsStage3, VersionMatches, IsLegacy
    <3> QED BY <1>1, <2>1, <3>1, <3>2
  <2>6. CASE AdmitResume(w)
    <3>1. rows' = [rows EXCEPT ![req[w].dep] = MarkRunning(row)]
      BY <2>6, AdmissionWrites DEF Writes
    <3>2. HoldsStage3(row.result) => MarkRunning(row).result.summary
      BY <2>2 DEF HoldsStage3, MarkRunning, Row
    <3> QED BY <1>1, <2>1, <3>1, <3>2
  <2> QED BY <1>4, <2>3, <2>4, <2>5, <2>6
<1>5. ASSUME NEW w \in Workers, StageStep(w)
      PROVE  rows'[d].result.summary
  <2> DEFINE r == req[w]
  <2>1. r.pc # "idle"
    BY <1>5, StageForms DEF StepForm
  <2>2. r.row \in Row /\ r.row.result \in Result /\ r.payload \in Result
    BY <2>1, BegunTyped
  <2>3. CASE \/ ReturnCachedRun(w) \/ EnterTry(w) \/ SkipStage3(w)
             \/ SkipStage4(w)
    BY <1>2, <2>3 DEF ReturnCachedRun, EnterTry, SkipStage3, SkipStage4
  <2>4. CASE RunStage3(w)
    <3>1. rows' = [rows EXCEPT ![r.dep] = SaveStage3Result(r.row, Fresh)]
      BY <2>4, StageWrites DEF Writes
    <3>2. SaveStage3Result(r.row, Fresh).result.summary
      BY <2>2 DEF SaveStage3Result, Fresh, EmptyResult, Row
    <3> QED BY <1>1, <2>1, <3>1, <3>2
  <2>5. CASE RunStage4(w)
    <3>1. PICK s : rows' = [rows EXCEPT ![r.dep] = SaveTestGeneration(r.row, s)]
      BY <2>5, StageWrites DEF Writes
    <3>2. HoldsStage3(r.row.result) =>
             SaveTestGeneration(r.row, s).result.summary
      BY <2>2 DEF HoldsStage3, SaveTestGeneration, DropFromVerification, Row,
                  Result
    <3> QED BY <1>1, <2>1, <3>1, <3>2
  <2>6. CASE RunQualityLoop(w)
    <3> DEFINE s == r.payload.generation
    <3>1. PICK partial \in BOOLEAN :
             rows' = [rows EXCEPT ![r.dep] =
                         SaveQualityOptimization(r.row, s, partial)]
      BY <2>6, StageWrites DEF Writes
    <3>2. HoldsStage3(r.row.result) =>
             SaveQualityOptimization(r.row, s, partial).result.summary
      BY <2>2 DEF HoldsStage3, SaveQualityOptimization, Row, Result
    <3> QED BY <1>1, <2>1, <3>1, <3>2
  <2>7. CASE RunRuntimePreparation(w)
    <3>1. PICK s : rows' = [rows EXCEPT ![r.dep] =
                               SaveRuntimeExecutionPlan(r.row, s)]
      BY <2>7, StageWrites DEF Writes
    <3>2. HoldsStage3(r.row.result) =>
             SaveRuntimeExecutionPlan(r.row, s).result.summary
      BY <2>2 DEF HoldsStage3, SaveRuntimeExecutionPlan, Row, Result
    <3> QED BY <1>1, <2>1, <3>1, <3>2
  <2>8. CASE CompleteRun(w)
    <3> DEFINE payload == [r.payload EXCEPT !.stamp = active]
    <3>1. rows' = [rows EXCEPT ![r.dep] = Complete(r.row, payload)]
      BY <2>8, StageWrites DEF WritesLast
    <3>2. r.payload.summary
      BY <2>8 DEF CompleteRun, PastStage3, Executing
    <3>3. payload.summary
      BY <2>2, <3>2 DEF Result
    <3>4. Complete(r.row, payload).result.summary
      BY <2>2, <3>3 DEF Complete, Row
    <3> QED BY <1>1, <2>1, <3>1, <3>4
  <2> QED BY <1>5, <2>3, <2>4, <2>5, <2>6, <2>7, <2>8 DEF StageStep
<1>6. ASSUME NEW w \in Workers, Fail(w), InFlight(w)
      PROVE  rows'[d].result.summary
  <2> DEFINE new == FailRun(req[w].row, FailedStageOf(req[w]))
  <2>1. /\ req[w].pc # "idle" /\ req[w].pc \in Executing
        /\ CommitAndEnd(w, new)
    BY <1>6 DEF Fail, InFlight, Executing
  <2>2. req[w].row \in Row /\ req[w].stage \in Stage
    BY <2>1, BegunTyped
  <2>3. FailedStageOf(req[w]) \in Stage
    BY <2>1, <2>2 DEF FailedStageOf, Executing
  <2>4. new \in Row /\ new.result = req[w].row.result
    BY <2>2, <2>3 DEF FailRun, Row, Status
  <2>5. rows' = [rows EXCEPT ![req[w].dep] = new]
    BY <2>1, <2>4, CommitInHand DEF WritesLast
  <2>6. HoldsStage3(req[w].row.result) => new.result.summary
    BY <2>4 DEF HoldsStage3
  <2> QED BY <1>1, <2>1, <2>5, <2>6
<1>7. ASSUME NEW w \in Workers, NEW e \in DepRuns, NEW op \in AllOps,
             BeginRun(w, op, e)
      PROVE  rows'[d].result.summary
  BY <1>2, <1>7 DEF BeginRun
<1>8. CASE Restart \/ UNCHANGED vars
  BY <1>2, <1>8 DEF Restart, vars
<1>9. ASSUME NEW w \in Workers, DieUnrecorded(w)
      PROVE  rows'[d].result.summary
  BY <1>2, <1>9 DEF DieUnrecorded
<1> QED BY <1>4, <1>5, <1>6, <1>7, <1>8, <1>9, PipelineStepsOnly

(* Neither a failure, a crash, a restart nor a new admission by run() or   *)
(* understand() throws a persisted Stage 3 away, unless its stamp says     *)
(* that it is of another version.                                          *)
THEOREM Stage3IsKept ==
    ASSUME Ops \subseteq {"run", "understand"}
    PROVE  SpecExisting => Stage3Kept
<1>1. InitExisting => TypeInv /\ ExecutionInv /\ PastStage3
  <2>1. InitExisting => PastStage3
    BY DEF InitExisting, PastStage3, IdleRequest, Executing
  <2> QED BY <2>1, InitTyped, InitExistingExecution
<1>2. ExecutionInv => InHand
  BY DEF ExecutionInv, OnlyPipelineRequests, AdmittedIsFresh,
         InFlightIsRunning, InFlight, InHand
<1>3. TypeInv /\ ExecutionInv /\ PastStage3 /\ [Next]_vars
         => TypeInv' /\ ExecutionInv' /\ PastStage3'
  BY <1>2, NextTyped, NextKeepsExecution, NextPastStage3
<1>4. TypeInv /\ ExecutionInv /\ PastStage3 /\ [Next]_vars =>
         [\A d \in DepRuns :
             /\ rows[d].result.summary
             /\ rows[d].result.stamp \in {NoStamp, active}
             => rows'[d].result.summary]_vars
  BY <1>2, NextKeepsStage3 DEF HoldsStage3
<1> QED BY <1>1, <1>3, <1>4, PTL DEF SpecExisting, Stage3Kept
-----------------------------------------------------------------------------
(* Between requests the runtime plan of a completed run is that of its     *)
(* suite (PlanMatchesSuite), with one request thread, for retry(),         *)
(* force_rerun() and the endpoints of single stages, when what fails is    *)
(* recorded.                                                               *)

(* Neither the plan nor the optimization is of a replaced suite.           *)
PlanFits(res) ==
    /\ res.plan \in {NoSuite, res.generation}
    /\ res.optimization \in {NoSuite, res.generation}

(* What a request can find.  A failed run may hold the plan of a replaced  *)
(* suite, but then its retry removes the plan, by the stage that failed.   *)
(* retry_test_generation() keeps the result of a failed Stage 4 whole.     *)
SettledRow(row) ==
    /\ row.status = "completed" => PlanFits(row.result)
    /\ row.status = "failed" => PlanFits(RetainedByRetry(row))
    /\ row.status = "failed" /\ row.failedStage = "stage_4" =>
          PlanFits(row.result)

Served(d) == \E w \in Workers : req[w].pc # "idle" /\ req[w].dep = d

RowsSettled == \A d \in DepRuns : Served(d) \/ SettledRow(rows[d])

(* What a request has in hand.  Only the optimization endpoint lets the    *)
(* plan be of another suite, from its first checkpoint until it stores the *)
(* plan of its own.                                                        *)
FittingRequest(r) ==
    /\ r.op # "understand" /\ r.pc \notin {"admit", "pending"}
    /\ r.pc = "retry" => r.row.status = "failed" /\ SettledRow(r.row)
    /\ r.pc \in {"retry", "force", "relock"} => r.payload = EmptyResult
    /\ r.pc \in {"relock", "precheck", "generate", "verify"} \cup Executing =>
          PlanFits(r.row.result)
    /\ r.pc \in {"precheck"} \cup Executing =>
          /\ PlanFits(r.payload)
          /\ r.row.result.generation = r.payload.generation
    /\ r.pc \in {"reopen", "restore"} => PlanFits(r.payload)
    /\ r.pc \in {"generate", "verify", "optimize", "optimize_plan"} =>
          r.row.status = "completed"
    /\ r.pc = "optimize_plan" =>
          /\ r.row.result.generation = r.base
          /\ r.row.result.optimization = r.base

RequestsFit == \A w \in Workers : FittingRequest(req[w])

(* Removing artifacts keeps what is left fitting, and a retry of a failed  *)
(* optimization makes it fit.                                              *)
LEMMA RetainedFits ==
    ASSUME NEW row \in Row
    PROVE  /\ PlanFits(EmptyResult)
           /\ PlanFits(DropFromGeneration(row.result))
           /\ PlanFits(row.result) => PlanFits(RetainedByRetry(row))
           /\ row.failedStage = "stage_6" => PlanFits(RetainedByRetry(row))
           /\ row.failedStage = "runtime_preparation"
                 /\ row.result.optimization \in {NoSuite, row.result.generation}
                 => PlanFits(RetainedByRetry(row))
<1>1. row.result \in Result
  BY DEF Row
<1>2. /\ PlanFits(EmptyResult)
      /\ PlanFits(DropFromGeneration(row.result))
      /\ PlanFits(DropFromVerification(row.result))
      /\ PlanFits(DropPlan(DropOptimization(row.result)))
      /\ row.result.optimization \in {NoSuite, row.result.generation}
            => PlanFits(DropPlan(row.result))
  BY <1>1
  DEF PlanFits, EmptyResult, DropFromGeneration, DropFromVerification,
      DropPlan, DropOptimization, Result
<1>3. PlanFits(row.result) => PlanFits(RetainedByRetry(row))
  BY <1>2 DEF RetainedByRetry, PlanFits
<1>4. row.failedStage = "stage_6" => PlanFits(RetainedByRetry(row))
  BY <1>2 DEF RetainedByRetry
<1>5. row.failedStage = "runtime_preparation"
         /\ row.result.optimization \in {NoSuite, row.result.generation}
         => PlanFits(RetainedByRetry(row))
  BY <1>2 DEF RetainedByRetry
<1> QED BY <1>2, <1>3, <1>4, <1>5

(* A write or a move by the request that serves a run.                     *)
LEMMA ServingFits ==
    ASSUME TypeInv, RowsSettled, RequestsFit, NEW w \in Workers,
           req[w].pc # "idle", NEW new, NEW next, FittingRequest(next),
           req' = [req EXCEPT ![w] = next],
           rows' = rows \/ rows' = [rows EXCEPT ![req[w].dep] = new],
           \/ next.pc # "idle" /\ next.dep = req[w].dep
           \/ SettledRow(new) /\ rows' = [rows EXCEPT ![req[w].dep] = new]
    PROVE  RowsSettled' /\ RequestsFit'
<1>1. /\ req[w].dep \in DepRuns
      /\ rows \in [DepRuns -> Row] /\ req \in [Workers -> Request]
  BY BegunTyped DEF TypeInv, TypeOK
<1>2. RequestsFit'
  BY <1>1 DEF RequestsFit
<1>3. ASSUME NEW d \in DepRuns
      PROVE  Served(d)' \/ SettledRow(rows'[d])
  <2>1. CASE d = req[w].dep
    BY <1>1, <2>1 DEF Served
  <2>2. CASE d # req[w].dep
    <3>1. rows'[d] = rows[d]
      BY <1>1, <2>2
    <3>2. Served(d) => Served(d)'
      BY <1>1, <2>2 DEF Served
    <3> QED BY <3>1, <3>2 DEF RowsSettled
  <2> QED BY <2>1, <2>2
<1> QED BY <1>2, <1>3 DEF RowsSettled

(* The steps of these entry points.                                        *)
LEMMA EndpointSteps ==
    ASSUME TypeInv, RequestsFit, Next, Ops \cap {"run", "understand"} = {},
           Faults \subseteq {"fail"}
    PROVE  \E w \in Workers :
              \/ Begin(w) /\ req[w].pc = "idle"
              \/ CommitRetry(w) \/ CommitForcedRerun(w)
              \/ RelockCurrent(w) \/ RelockStale(w)
              \/ ReopenForGeneration(w) \/ RestoreForGeneration(w)
              \/ StageStep(w)
              \/ SaveGeneration(w) \/ SaveVerification(w)
              \/ SaveCheckpoint(w) \/ SaveOptimization(w)
              \/ PersistRuntimePlan(w)
              \/ Fail(w)
<1>1. ~Restart /\ \A w \in Workers : ~DieUnrecorded(w)
  BY DEF Restart, DieUnrecorded
<1>2. ASSUME NEW w \in Workers
      PROVE  /\ ~AdmitCreate(w) /\ ~MarkCreatedRunning(w) /\ ~AdmitLegacy(w)
             /\ ~AdmitStale(w) /\ ~AdmitResume(w)
  BY DEF RequestsFit, FittingRequest, AdmitCreate, MarkCreatedRunning,
         AdmitLegacy, AdmitStale, AdmitResume, Admitting
<1>3. ASSUME NEW w \in Workers, Begin(w)
      PROVE  req[w].pc = "idle"
  BY <1>3
  DEF Begin, BeginRun, BeginRetry, BeginForcedRerun, BeginGenerate,
      BeginVerify, BeginOptimize, BeginRetryGeneration, LoadStage3Artifact
<1> QED BY <1>1, <1>2, <1>3 DEF Next, Progress, StageStep

(* A request that begins, when nothing is under way.                       *)
LEMMA BeginFits ==
    ASSUME OneWorker, TypeInv, RowsSettled, RequestsFit, NEW w \in Workers,
           Begin(w), req[w].pc = "idle", Ops \cap {"run", "understand"} = {}
    PROVE  RowsSettled' /\ RequestsFit'
<1>1. \A d \in DepRuns : SettledRow(rows[d])
  BY DEF OneWorker, RowsSettled, Served
<1>2. ASSUME NEW d \in DepRuns, NEW op, NEW pc, NEW payload, NEW base,
             Start(w, op, d, pc, payload, base), rows' = rows,
             FittingRequest([pc |-> pc, op |-> op, dep |-> d,
                             row |-> rows[d], payload |-> payload,
                             stage |-> "none", base |-> base])
      PROVE  RowsSettled' /\ RequestsFit'
  <2>1. RowsSettled'
    BY <1>1, <1>2 DEF RowsSettled
  <2>2. RequestsFit'
    BY <1>2 DEF Start, RequestsFit, TypeInv, TypeOK
  <2> QED BY <2>1, <2>2
<1>3. ASSUME NEW d \in DepRuns, BeginRetry(w, d)
      PROVE  RowsSettled' /\ RequestsFit'
  BY <1>1, <1>2, <1>3 DEF BeginRetry, FittingRequest, Executing
<1>4. ASSUME NEW d \in DepRuns, BeginForcedRerun(w, d)
      PROVE  RowsSettled' /\ RequestsFit'
  BY <1>1, <1>2, <1>4 DEF BeginForcedRerun, FittingRequest, Executing
<1>5. ASSUME NEW d \in DepRuns, BeginRetryGeneration(w, d)
      PROVE  RowsSettled' /\ RequestsFit'
  BY <1>1, <1>2, <1>5
  DEF BeginRetryGeneration, SettledRow, FittingRequest, Executing
<1>6. ASSUME NEW d \in DepRuns, NEW op \in Ops,
             NEW pc \in {"generate", "verify", "optimize"}, NEW base,
             LoadStage3Artifact(w, op, d, pc, base)
      PROVE  RowsSettled' /\ RequestsFit'
  BY <1>1, <1>2, <1>6
  DEF LoadStage3Artifact, SettledRow, FittingRequest, Executing
<1>7. ASSUME NEW d \in DepRuns,
             \/ BeginGenerate(w, d)
             \/ \E s \in Suite : BeginVerify(w, d, s) \/ BeginOptimize(w, d, s)
      PROVE  RowsSettled' /\ RequestsFit'
  BY <1>6, <1>7
  DEF BeginGenerate, BeginVerify, BeginOptimize, LoadStage3Artifact
<1> QED BY <1>3, <1>4, <1>5, <1>7 DEF Begin, BeginRun

(* Retry, forced rerun and the reopening for generation.                   *)
LEMMA PreparingFits ==
    ASSUME TypeInv, InHand, RowsSettled, RequestsFit, NEW w \in Workers,
           \/ CommitRetry(w) \/ CommitForcedRerun(w) \/ RelockCurrent(w)
           \/ RelockStale(w) \/ ReopenForGeneration(w)
           \/ RestoreForGeneration(w)
    PROVE  RowsSettled' /\ RequestsFit'
<1> DEFINE r == req[w]
<1>1. req[w].pc # "idle"
  BY DEF CommitRetry, CommitForcedRerun, RelockCurrent, RelockStale,
         ReopenForGeneration, RestoreForGeneration
<1>2. /\ r \in Request /\ r.row \in Row /\ r.row.result \in Result
      /\ FittingRequest(r)
  BY <1>1, BegunTyped DEF RequestsFit
<1>3. ASSUME NEW new, NEW rest \in Request, Writes(w, new, rest),
             rest.pc # "idle", rest.dep = r.dep,
             FittingRequest([rest EXCEPT !.row = new])
      PROVE  RowsSettled' /\ RequestsFit'
  <2> DEFINE next == [rest EXCEPT !.row = new]
  <2>1. next.pc # "idle" /\ next.dep = r.dep
    BY <1>3 DEF Request
  <2>2. /\ req' = [req EXCEPT ![w] = next]
        /\ rows' = [rows EXCEPT ![req[w].dep] = new]
    BY <1>3 DEF Writes
  <2> QED BY <1>1, <1>3, <2>1, <2>2, ServingFits
<1>4. CASE CommitRetry(w)
  <2> DEFINE rest == [r EXCEPT !.pc = "relock"]
             new == PrepareRetry(r.row)
  <2>1. Writes(w, new, rest) /\ r.pc = "retry"
    BY <1>4, AdmissionWrites DEF CommitRetry
  <2>2. PlanFits(new.result)
    BY <1>2, <2>1 DEF FittingRequest, SettledRow, PrepareRetry, Row
  <2>3. rest \in Request /\ rest.pc # "idle" /\ rest.dep = r.dep
    BY <1>2 DEF Request, Pc
  <2>4. FittingRequest([rest EXCEPT !.row = new])
    BY <1>2, <2>1, <2>2 DEF FittingRequest, Request, Executing
  <2> QED BY <1>3, <2>1, <2>3, <2>4
<1>5. CASE CommitForcedRerun(w)
  <2> DEFINE rest == [r EXCEPT !.pc = "relock"]
             new == PrepareForcedRerun(r.row)
  <2>1. Writes(w, new, rest) /\ r.pc = "force"
    BY <1>5, AdmissionWrites DEF CommitForcedRerun
  <2>2. PlanFits(new.result)
    BY <1>2, RetainedFits DEF PrepareForcedRerun
  <2>3. rest \in Request /\ rest.pc # "idle" /\ rest.dep = r.dep
    BY <1>2 DEF Request, Pc
  <2>4. FittingRequest([rest EXCEPT !.row = new])
    BY <1>2, <2>1, <2>2 DEF FittingRequest, Request, Executing
  <2> QED BY <1>3, <2>1, <2>3, <2>4
<1>6. CASE RelockCurrent(w)
  <2> DEFINE rest == [r EXCEPT !.pc = "precheck", !.payload = r.row.result]
  <2>1. /\ req' = [req EXCEPT ![w] = rest] /\ rows' = rows
        /\ r.pc = "relock"
    BY <1>2, <1>6 DEF RelockCurrent, Request
  <2>2. /\ FittingRequest(rest) /\ rest.pc # "idle" /\ rest.dep = r.dep
    BY <1>2, <2>1 DEF FittingRequest, Request, Executing
  <2> QED BY <1>1, <2>1, <2>2, ServingFits
<1>7. CASE RelockStale(w)
  <2> DEFINE rest == [r EXCEPT !.pc = "precheck"]
             new == PrepareArtifactRegeneration
  <2>1. Writes(w, new, rest) /\ r.pc = "relock"
    BY <1>7, AdmissionWrites DEF RelockStale
  <2>2. new.result = EmptyResult /\ r.payload = EmptyResult
    BY <1>2, <2>1 DEF FittingRequest, PrepareArtifactRegeneration, NoRow
  <2>3. rest \in Request /\ rest.pc # "idle" /\ rest.dep = r.dep
    BY <1>2 DEF Request, Pc
  <2>4. FittingRequest([rest EXCEPT !.row = new])
    BY <1>2, <2>1, <2>2, RetainedFits DEF FittingRequest, Request, Executing
  <2> QED BY <1>3, <2>1, <2>3, <2>4
<1>8. CASE ReopenForGeneration(w)
  <2> DEFINE rest == [r EXCEPT !.pc = "restore"]
             new == PrepareRetry(r.row)
  <2>1. Writes(w, new, rest) /\ r.pc = "reopen"
    BY <1>8, AdmissionWrites DEF ReopenForGeneration
  <2>2. rest \in Request /\ rest.pc # "idle" /\ rest.dep = r.dep
    BY <1>2 DEF Request, Pc
  <2>3. FittingRequest([rest EXCEPT !.row = new])
    BY <1>2, <2>1 DEF FittingRequest, Request, Executing
  <2> QED BY <1>3, <2>1, <2>2, <2>3
<1>9. CASE RestoreForGeneration(w)
  <2> DEFINE rest == [r EXCEPT !.pc = "generate", !.payload = EmptyResult]
             new == [Complete(r.row, r.payload) EXCEPT !.failedStage = "none"]
  <2>1. Writes(w, new, rest) /\ r.pc = "restore"
    BY <1>9, AdmissionWrites DEF RestoreForGeneration
  <2>2. new.result = r.payload /\ new.status = "completed"
    BY <1>2 DEF Complete, Row
  <2>3. rest \in Request /\ rest.pc # "idle" /\ rest.dep = r.dep
    BY <1>2, EmptyTypes DEF Request, Pc
  <2>4. FittingRequest([rest EXCEPT !.row = new])
    BY <1>2, <2>1, <2>2 DEF FittingRequest, Request, Executing
  <2> QED BY <1>3, <2>1, <2>3, <2>4
<1> QED BY <1>4, <1>5, <1>6, <1>7, <1>8, <1>9

(* Stage 4 sends on a request that carries another payload.                *)
LEMMA AfterStage4Carries ==
    ASSUME NEW r \in Request, r.op # "understand", NEW payload \in Result
    PROVE  \E pc \in {"quality", "plan", "complete"}, stage \in Stage :
              AfterStage4([r EXCEPT !.payload = payload]) =
                 [r EXCEPT !.pc = pc, !.stage = stage, !.payload = payload]
<1> DEFINE sent == [r EXCEPT !.payload = payload]
           at(pc, stage) == [r EXCEPT !.pc = pc, !.stage = stage,
                                      !.payload = payload]
<1>1. sent.payload = payload
  BY DEF Request
<1>2. {"stage_6", "runtime_preparation", "stage_5"} \subseteq Stage
  BY DEF Stage
<1>3. CASE payload.optimization = NoSuite
  <2>1. AfterStage4(sent) = at("quality", "stage_6")
    BY <1>1, <1>3 DEF AfterStage4, Request
  <2> QED BY <1>2, <2>1
<1>4. CASE payload.optimization # NoSuite /\ payload.plan = NoSuite
  <2>1. AfterStage4(sent) = at("plan", "runtime_preparation")
    BY <1>1, <1>4 DEF AfterStage4, Request
  <2> QED BY <1>2, <2>1
<1>5. CASE payload.optimization # NoSuite /\ payload.plan # NoSuite
  <2>1. AfterStage4(sent) = at("complete", "stage_5")
    BY <1>1, <1>5 DEF AfterStage4, Request
  <2> QED BY <1>2, <2>1
<1> QED BY <1>3, <1>4, <1>5

(* The stages of a retried or forced run.                                  *)
LEMMA StagesFit ==
    ASSUME TypeInv, InHand, RowsSettled, RequestsFit, NEW w \in Workers,
           StageStep(w)
    PROVE  RowsSettled' /\ RequestsFit'
<1> DEFINE r == req[w]
<1>1. req[w].pc # "idle"
  BY StageForms DEF StepForm
<1>2. /\ r \in Request /\ r.row \in Row /\ r.row.result \in Result
      /\ r.payload \in Result /\ FittingRequest(r)
  BY <1>1, BegunTyped DEF RequestsFit
<1>3. /\ r.op # "understand" /\ r.pc \in Executing \cup {"precheck"}
      /\ PlanFits(r.row.result) /\ PlanFits(r.payload)
      /\ r.row.result.generation = r.payload.generation
  BY <1>2, StageForms DEF FittingRequest, InFlight
<1>4. ASSUME NEW next, next.op = r.op, next.pc \in Executing,
             PlanFits(next.payload), PlanFits(next.row.result),
             next.row.result.generation = next.payload.generation
      PROVE  FittingRequest(next) /\ next.pc # "idle"
  BY <1>3, <1>4 DEF FittingRequest, Executing
<1>5. ASSUME NEW pc \in Executing, NEW stage \in Stage,
             rows' = rows,
             req' = [req EXCEPT ![w] = [r EXCEPT !.pc = pc, !.stage = stage]]
      PROVE  RowsSettled' /\ RequestsFit'
  <2> DEFINE next == [r EXCEPT !.pc = pc, !.stage = stage]
  <2>1. /\ next.pc = pc /\ next.op = r.op /\ next.dep = r.dep
        /\ next.payload = r.payload /\ next.row = r.row
    BY <1>2 DEF Request
  <2> HIDE DEF next
  <2>2. FittingRequest(next) /\ next.pc # "idle"
    BY <1>3, <1>4, <2>1
  <2> QED BY <1>1, <1>5, <2>1, <2>2, ServingFits DEF next
<1>6. ASSUME NEW pc \in Executing, NEW stage \in Stage,
             NEW payload \in Result, NEW new,
             Writes(w, new, [r EXCEPT !.pc = pc, !.stage = stage,
                                      !.payload = payload]),
             PlanFits(payload), PlanFits(new.result),
             new.result.generation = payload.generation
      PROVE  RowsSettled' /\ RequestsFit'
  <2> DEFINE next == [[r EXCEPT !.pc = pc, !.stage = stage,
                                !.payload = payload] EXCEPT !.row = new]
  <2>1. /\ next.pc = pc /\ next.op = r.op /\ next.dep = r.dep
        /\ next.payload = payload /\ next.row = new
    BY <1>2 DEF Request
  <2>2. /\ req' = [req EXCEPT ![w] = next]
        /\ rows' = [rows EXCEPT ![req[w].dep] = new]
    BY <1>6 DEF Writes
  <2> HIDE DEF next
  <2>3. FittingRequest(next) /\ next.pc # "idle"
    BY <1>4, <1>6, <2>1
  <2> QED BY <1>1, <2>1, <2>2, <2>3, ServingFits
<1>7. CASE ReturnCachedRun(w)
  BY <1>3, <1>7 DEF ReturnCachedRun, CacheHit
<1>8. CASE EnterTry(w)
  <2>1. /\ req' = [req EXCEPT ![w] = [r EXCEPT !.pc = "stage3",
                                               !.stage = "stage_3"]]
        /\ rows' = rows
    BY <1>2, <1>8 DEF EnterTry, Request
  <2> QED BY <1>5, <2>1 DEF Executing, Stage
<1>9. CASE SkipStage3(w)
  <2>1. /\ req' = [req EXCEPT ![w] = [r EXCEPT !.pc = "stage4",
                                               !.stage = "stage_4"]]
        /\ rows' = rows
    BY <1>2, <1>3, <1>9, AfterStageFields DEF SkipStage3
  <2> QED BY <1>5, <2>1 DEF Executing, Stage
<1>10. CASE RunStage3(w)
  <2> DEFINE sent == [r EXCEPT !.payload = Fresh]
             new == SaveStage3Result(r.row, Fresh)
  <2>1. Fresh \in Result /\ PlanFits(Fresh)
    BY EmptyTypes DEF Fresh, Result, PlanFits, EmptyResult
  <2>2. /\ sent \in Request /\ sent.op # "understand"
        /\ [sent EXCEPT !.pc = "stage4", !.stage = "stage_4"] =
              [r EXCEPT !.pc = "stage4", !.stage = "stage_4",
                        !.payload = Fresh]
    BY <1>2, <1>3, <2>1 DEF Request
  <2>3. Writes(w, new, AfterStage3(sent))
    BY <1>10, StageWrites
  <2>4. new.result = Fresh
    BY <1>2 DEF SaveStage3Result, Row
  <2> HIDE DEF new, sent
  <2>5. AfterStage3(sent) = [r EXCEPT !.pc = "stage4", !.stage = "stage_4",
                                      !.payload = Fresh]
    BY <2>2, AfterStageFields
  <2> QED BY <1>6, <2>1, <2>3, <2>4, <2>5 DEF Executing, Stage
<1>11. CASE SkipStage4(w)
  <2>1. PICK pc \in {"quality", "plan", "complete"}, stage \in Stage :
           req' = [req EXCEPT ![w] = [r EXCEPT !.pc = pc, !.stage = stage]]
    BY <1>2, <1>3, <1>11, AfterStageFields DEF SkipStage4
  <2>2. rows' = rows
    BY <1>11 DEF SkipStage4
  <2> QED BY <1>5, <2>1, <2>2 DEF Executing
<1>12. CASE RunStage4(w)
  <2> DEFINE kept == KeptByStage4(r.payload)
             payload(s) == [kept EXCEPT !.generation = s]
             new(s) == SaveTestGeneration(r.row, s)
  <2>1. PICK s \in NewSuites :
           Writes(w, new(s), AfterStage4([r EXCEPT !.payload = payload(s)]))
    BY <1>12, StageWrites
  <2>2. s \in Suite
    BY <2>1 DEF NewSuites
  <2>3. /\ kept \in Result /\ kept.plan = NoSuite
        /\ kept.optimization = NoSuite
    BY <1>2, <1>3
    DEF KeptByStage4, DropFromVerification, Result, Artifact, PlanFits
  <2> HIDE DEF kept
  <2>4. /\ payload(s) \in Result /\ payload(s).generation = s
        /\ PlanFits(payload(s))
    BY <2>2, <2>3 DEF Result, Artifact, PlanFits
  <2>5. new(s).result.generation = s /\ PlanFits(new(s).result)
    BY <1>2 DEF SaveTestGeneration, DropFromVerification, Row, Result,
                PlanFits
  <2> HIDE DEF payload, new
  <2>6. r \in Request /\ r.op # "understand" /\ payload(s) \in Result
    BY <1>2, <1>3, <2>4
  <2> HIDE DEF r
  <2>7. PICK pc \in {"quality", "plan", "complete"}, stage \in Stage :
           AfterStage4([r EXCEPT !.payload = payload(s)]) =
              [r EXCEPT !.pc = pc, !.stage = stage, !.payload = payload(s)]
    BY <2>6, AfterStage4Carries
  <2>8. Writes(w, new(s), [r EXCEPT !.pc = pc, !.stage = stage,
                                    !.payload = payload(s)])
    BY <2>1, <2>7
  <2>9. pc \in Executing
    BY DEF Executing
  <2> QED BY <1>6, <2>4, <2>5, <2>8, <2>9
<1>13. CASE RunQualityLoop(w)
  <2> DEFINE s == r.payload.generation
             payload == [r.payload EXCEPT !.verification = s,
                                          !.optimization = s]
             rest == [r EXCEPT !.pc = "plan",
                               !.stage = "runtime_preparation",
                               !.payload.verification = s,
                               !.payload.optimization = s]
             new(partial) == SaveQualityOptimization(r.row, s, partial)
  <2>1. PICK partial \in BOOLEAN : Writes(w, new(partial), rest)
    BY <1>13, StageWrites
  <2>2. rest = [r EXCEPT !.pc = "plan", !.stage = "runtime_preparation",
                         !.payload = payload]
    BY <1>2 DEF Request
  <2>3. /\ payload \in Result /\ payload.generation = s
        /\ PlanFits(payload)
    BY <1>2, <1>3 DEF Result, PlanFits
  <2>4. /\ new(partial).result.generation = s
        /\ PlanFits(new(partial).result)
    BY <1>2, <1>3 DEF SaveQualityOptimization, Row, Result, PlanFits
  <2> HIDE DEF new, rest, payload
  <2> QED BY <1>6, <2>1, <2>2, <2>3, <2>4 DEF Executing, Stage
<1>14. CASE RunRuntimePreparation(w)
  <2> DEFINE s == r.payload.optimization
             payload == [r.payload EXCEPT !.plan = s]
             rest == [r EXCEPT !.pc = "complete", !.payload.plan = s]
             new == SaveRuntimeExecutionPlan(r.row, s)
  <2>1. Writes(w, new, rest) /\ r.stage \in Stage
    BY <1>2, <1>14, StageWrites DEF Request
  <2>2. rest = [r EXCEPT !.pc = "complete", !.stage = r.stage,
                         !.payload = payload]
    BY <1>2 DEF Request
  <2>3. /\ payload \in Result /\ payload.generation = r.payload.generation
        /\ PlanFits(payload)
    BY <1>2, <1>3 DEF Result, PlanFits
  <2>4. /\ new.result.generation = r.payload.generation
        /\ PlanFits(new.result)
    BY <1>2, <1>3 DEF SaveRuntimeExecutionPlan, Row, Result, PlanFits
  <2> HIDE DEF new, rest, payload
  <2> QED BY <1>6, <2>1, <2>2, <2>3, <2>4 DEF Executing
<1>15. CASE CompleteRun(w)
  <2> DEFINE payload == [r.payload EXCEPT !.stamp = active]
             new == Complete(r.row, payload)
  <2>1. WritesLast(w, new)
    BY <1>15, StageWrites
  <2>2. PlanFits(payload)
    BY <1>2, <1>3 DEF Result, PlanFits
  <2>3. new.result = payload /\ new.status = "completed"
    BY <1>2 DEF Complete, Row
  <2>4. SettledRow(new)
    BY <2>2, <2>3 DEF SettledRow
  <2>5. FittingRequest(IdleRequest)
    BY DEF FittingRequest, IdleRequest, Executing
  <2> QED BY <1>1, <2>1, <2>4, <2>5, ServingFits DEF WritesLast
<1> QED BY <1>7, <1>8, <1>9, <1>10, <1>11, <1>12, <1>13, <1>14, <1>15
        DEF StageStep

(* The endpoints of single stages, and recorded failures.                  *)
LEMMA EndpointsFit ==
    ASSUME TypeInv, InHand, RowsSettled, RequestsFit, NEW w \in Workers,
           \/ SaveGeneration(w) \/ SaveVerification(w) \/ SaveCheckpoint(w)
           \/ SaveOptimization(w) \/ PersistRuntimePlan(w) \/ Fail(w)
    PROVE  RowsSettled' /\ RequestsFit'
<1> DEFINE r == req[w]
<1>1. req[w].pc # "idle"
  BY DEF SaveGeneration, SaveVerification, SaveCheckpoint, SaveOptimization,
         PersistRuntimePlan, Fail, Executing
<1>2. /\ r \in Request /\ r.row \in Row /\ r.row.result \in Result
      /\ r.base \in Artifact /\ r.stage \in Stage /\ FittingRequest(r)
  BY <1>1, BegunTyped DEF RequestsFit
<1>3. FittingRequest(IdleRequest)
  BY DEF FittingRequest, IdleRequest, Executing
<1>4. ASSUME NEW new \in Row, CommitAndEnd(w, new), SettledRow(new)
      PROVE  RowsSettled' /\ RequestsFit'
  <2>1. WritesLast(w, new)
    BY <1>1, <1>4, CommitInHand
  <2> QED BY <1>1, <1>3, <1>4, <2>1, ServingFits DEF WritesLast
<1>5. ASSUME NEW new \in Row, NEW rest \in Request, CommitTo(w, new, rest),
             rest.pc # "idle", rest.dep = r.dep,
             FittingRequest([rest EXCEPT !.row = new])
      PROVE  RowsSettled' /\ RequestsFit'
  <2> DEFINE next == [rest EXCEPT !.row = new]
  <2>1. Writes(w, new, rest)
    BY <1>1, <1>5, CommitInHand
  <2>2. next.pc # "idle" /\ next.dep = r.dep
    BY <1>5 DEF Request
  <2> QED BY <1>1, <1>5, <2>1, <2>2, ServingFits DEF Writes
<1>6. CASE SaveGeneration(w)
  <2>1. PICK s \in NewSuites : CommitAndEnd(w, SaveTestGeneration(r.row, s))
    BY <1>6 DEF SaveGeneration
  <2>2. r.row.status = "completed"
    BY <1>2, <1>6 DEF SaveGeneration, FittingRequest
  <2>3. SaveTestGeneration(r.row, s) \in Row
    BY <1>2, <2>1, SavedGenerationTyped DEF NewSuites
  <2>4. SettledRow(SaveTestGeneration(r.row, s))
    BY <1>2, <2>2
    DEF SettledRow, PlanFits, SaveTestGeneration, DropFromVerification, Row,
        Result
  <2> QED BY <1>4, <2>1, <2>3, <2>4
<1>7. CASE SaveVerification(w)
  <2> DEFINE new == SaveTestVerification(r.row, r.base)
  <2>1. CommitAndEnd(w, new)
    BY <1>7 DEF SaveVerification
  <2>2. r.row.status = "completed" /\ PlanFits(r.row.result)
    BY <1>2, <1>7 DEF SaveVerification, FittingRequest
  <2>3. new \in Row
    BY <1>2, SavedSuiteTyped
  <2>4. SettledRow(new)
    BY <1>2, <2>2
    DEF SettledRow, PlanFits, SaveTestVerification, DropOptimization, Row,
        Result
  <2> QED BY <1>4, <2>1, <2>3, <2>4
<1>8. CASE SaveCheckpoint(w)
  <2> DEFINE new(verified) == SaveQualityCheckpoint(r.row, r.base, verified)
  <2>1. PICK verified \in BOOLEAN : CommitTo(w, new(verified), r)
    BY <1>8 DEF SaveCheckpoint
  <2>2. r.pc = "optimize" /\ r.row.status = "completed"
    BY <1>2, <1>8 DEF SaveCheckpoint, FittingRequest
  <2>3. new(verified) \in Row /\ new(verified).status = "completed"
    BY <1>2, <2>2, SavedSuiteTyped DEF SaveQualityCheckpoint, Row
  <2>4. FittingRequest([r EXCEPT !.row = new(verified)])
    BY <1>2, <2>2, <2>3 DEF FittingRequest, Request, Executing
  <2> QED BY <1>1, <1>2, <1>5, <2>1, <2>3, <2>4
<1>9. CASE SaveOptimization(w)
  <2> DEFINE new(partial) == SaveQualityOptimization(r.row, r.base, partial)
             rest == [r EXCEPT !.pc = "optimize_plan"]
  <2>1. PICK partial \in BOOLEAN : CommitTo(w, new(partial), rest)
    BY <1>9 DEF SaveOptimization
  <2>2. r.row.status = "completed"
    BY <1>2, <1>9 DEF SaveOptimization, FittingRequest
  <2>3. /\ new(partial) \in Row /\ new(partial).status = "completed"
        /\ new(partial).result.generation = r.base
        /\ new(partial).result.optimization = r.base
    BY <1>2, <2>2, SavedSuiteTyped DEF SaveQualityOptimization, Row, Result
  <2>4. rest \in Request /\ rest.pc # "idle" /\ rest.dep = r.dep
    BY <1>2 DEF Request, Pc
  <2>5. FittingRequest([rest EXCEPT !.row = new(partial)])
    BY <1>2, <2>3 DEF FittingRequest, Request, Executing
  <2> QED BY <1>5, <2>1, <2>3, <2>4, <2>5
<1>10. CASE PersistRuntimePlan(w)
  <2> DEFINE new == SaveRuntimeExecutionPlan(r.row, r.base)
  <2>1. CommitAndEnd(w, new)
    BY <1>10 DEF PersistRuntimePlan
  <2>2. /\ r.row.status = "completed"
        /\ r.row.result.generation = r.base
        /\ r.row.result.optimization = r.base
    BY <1>2, <1>10 DEF PersistRuntimePlan, FittingRequest
  <2>3. new \in Row
    BY <1>2, SavedSuiteTyped
  <2>4. SettledRow(new)
    BY <1>2, <2>2
    DEF SettledRow, PlanFits, SaveRuntimeExecutionPlan, Row, Result
  <2> QED BY <1>4, <2>1, <2>3, <2>4
<1>11. CASE Fail(w)
  <2> DEFINE stage == FailedStageOf(r)
             new == FailRun(r.row, stage)
  <2>1. /\ CommitAndEnd(w, new)
        /\ r.pc \in Executing \cup {"generate", "verify", "optimize",
                                    "optimize_plan"}
    BY <1>11 DEF Fail
  <2>2. /\ stage \in Stage
        /\ r.pc = "optimize" => stage = "stage_6"
        /\ r.pc = "optimize_plan" => stage = "runtime_preparation"
    BY <1>2, <2>1 DEF FailedStageOf, Executing, Stage
  <2> HIDE DEF stage
  <2>3. /\ new \in Row /\ new.status = "failed" /\ new.failedStage = stage
        /\ new.result = r.row.result
    BY <1>2, <2>2 DEF FailRun, Row, Status
  <2> HIDE DEF new
  <2>4. CASE r.pc \notin {"optimize", "optimize_plan"}
    <3>1. PlanFits(new.result)
      BY <1>2, <2>1, <2>3, <2>4 DEF FittingRequest
    <3> QED BY <1>4, <2>1, <2>3, <3>1, RetainedFits DEF SettledRow
  <2>5. CASE r.pc = "optimize"
    BY <1>4, <2>1, <2>2, <2>3, <2>5, RetainedFits DEF SettledRow
  <2>6. CASE r.pc = "optimize_plan"
    <3>1. new.result.optimization \in {NoSuite, new.result.generation}
      BY <1>2, <2>3, <2>6 DEF FittingRequest
    <3> QED BY <1>4, <2>1, <2>2, <2>3, <2>6, <3>1, RetainedFits
            DEF SettledRow
  <2> QED BY <2>4, <2>5, <2>6
<1> QED BY <1>6, <1>7, <1>8, <1>9, <1>10, <1>11

(* Served one request at a time, and as long as every failure is recorded, *)
(* the endpoints of single stages, retries and forced reruns leave no      *)
(* completed run with the runtime plan of another suite.                   *)
THEOREM PlanIsOfItsSuite ==
    ASSUME OneWorker, Ops \cap {"run", "understand"} = {},
           Faults \subseteq {"fail"},
           \A row \in ExistingRows : SettledRow(row)
    PROVE  SpecExisting => []PlanMatchesSuite
<1> DEFINE Inv == TypeInv /\ InHand /\ RowsSettled /\ RequestsFit
<1>1. InitExisting => Inv
  <2>1. ASSUME InitExisting
        PROVE  RowsSettled /\ RequestsFit
    BY <2>1
    DEF InitExisting, RowsSettled, RequestsFit, FittingRequest, IdleRequest,
        Executing
  <2> QED BY <2>1, InitTyped, InitInHand
<1>2. Inv /\ [Next]_vars => Inv'
  <2>1. ASSUME Inv, UNCHANGED vars
        PROVE  RowsSettled' /\ RequestsFit'
    BY <2>1 DEF vars, RowsSettled, RequestsFit, Served
  <2>2. ASSUME Inv, Next
        PROVE  RowsSettled' /\ RequestsFit'
    BY <2>2, EndpointSteps, BeginFits, PreparingFits, StagesFit, EndpointsFit
  <2> QED BY <2>1, <2>2, NextTyped, AloneInHand
<1>3. Inv => PlanMatchesSuite
  BY DEF RowsSettled, Served, SettledRow, PlanFits, PlanMatchesSuite,
         Quiescent
<1> QED BY <1>1, <1>2, <1>3, PTL DEF SpecExisting
=============================================================================
