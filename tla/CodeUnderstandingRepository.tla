--------------------- MODULE CodeUnderstandingRepository ---------------------
(***************************************************************************)
(* The persisted row of a pipeline run (CodeUnderstandingRun) and the      *)
(* state transitions of CodeUnderstandingRepository, one operator per      *)
(* method: each takes the in-memory row and returns the row the method     *)
(* hands to the commit.                                                    *)
(*                                                                         *)
(* run.result is a JSON object whose keys are the pipeline's artifacts.    *)
(* An artifact is abstracted to the suite it was derived from, which is    *)
(* all that coherence depends on: "verification = s" is a Stage 5 report   *)
(* about suite s, "plan = s" a runtime execution plan prepared from s.     *)
(* quality_evaluation and quality_optimization are always written and      *)
(* removed together (save_quality_optimization, the invalidation tables,   *)
(* save_test_verification) and are the one field "optimization".           *)
(***************************************************************************)
EXTENDS Integers

CONSTANTS
    SuiteIds,   \* identities of generated test suites
    MaxVersion, \* number of deployed generations of the pipeline's code
    NoSuite     \* an artifact key that is absent from the result

ASSUME MaxVersionAssumption == MaxVersion \in Nat \ {0}
ASSUME NoSuiteAssumption ==
    NoSuite \notin [id : SuiteIds, ver : 1..MaxVersion]

(* Versions of the artifact manifest (semantic contract, generator,        *)
(* verifier); NoStamp is a result without the _artifact_version key.       *)
Version == 1..MaxVersion
NoStamp == 0

(* A suite remembers the version of the generator that produced it.        *)
Suite == [id : SuiteIds, ver : Version]
Artifact == Suite \cup {NoSuite}

Status == {"absent", "pending", "running", "completed", "failed"}
Stage == {"none", "stage_3", "stage_4", "stage_5", "stage_6",
          "runtime_preparation", "runtime_validation"}

(* summary: the Stage 3 keys (project_summary ...) are present.  history:  *)
(* the test_generation snapshots of artifact_versions.                     *)
Result == [summary : BOOLEAN, stamp : Version \cup {NoStamp},
           generation : Artifact, verification : Artifact,
           optimization : Artifact, checkpoint : Artifact, plan : Artifact,
           history : SUBSET Suite]

Row == [status : Status, result : Result, failedStage : Stage,
        lastOk : Stage]

EmptyResult ==
    [summary |-> FALSE, stamp |-> NoStamp, generation |-> NoSuite,
     verification |-> NoSuite, optimization |-> NoSuite,
     checkpoint |-> NoSuite, plan |-> NoSuite, history |-> {}]

NoRow == [status |-> "absent", result |-> EmptyResult,
          failedStage |-> "none", lastOk |-> "none"]

-----------------------------------------------------------------------------
(* Removing artifact keys from a result.                                   *)

DropPlan(res) == [res EXCEPT !.plan = NoSuite]
DropOptimization(res) == [res EXCEPT !.optimization = NoSuite]
(* For a mutant: the runtime plan of the replaced suite stays.             *)
DropFromVerificationButPlan(res) ==
    [res EXCEPT !.verification = NoSuite, !.optimization = NoSuite,
                !.checkpoint = NoSuite]
DropFromVerification(res) ==
    [res EXCEPT !.verification = NoSuite, !.optimization = NoSuite,
                !.checkpoint = NoSuite, !.plan = NoSuite]
DropFromGeneration(res) ==
    [DropFromVerification(res) EXCEPT !.generation = NoSuite]

-----------------------------------------------------------------------------
(* The repository's methods.                                               *)

CreateRun == [NoRow EXCEPT !.status = "pending"]

MarkRunning(row) == [row EXCEPT !.status = "running"]

(* What a retry removes depends on the stage that failed.  failed_stage is *)
(* left as it was.                                                         *)
RetainedByRetry(row) ==
    CASE row.failedStage = "stage_3" ->
            IF row.lastOk = "none" THEN EmptyResult ELSE row.result
      [] row.failedStage = "stage_4" -> DropFromGeneration(row.result)
      [] row.failedStage = "stage_5" -> DropFromVerification(row.result)
      [] row.failedStage = "stage_6" -> DropPlan(DropOptimization(row.result))
      [] row.failedStage = "runtime_preparation" -> DropPlan(row.result)
      [] OTHER -> row.result

PrepareRetry(row) ==
    [row EXCEPT !.status = "running", !.result = RetainedByRetry(row)]

PrepareForcedRerun(row) ==
    [status |-> "running", result |-> DropFromGeneration(row.result),
     failedStage |-> "none", lastOk |-> "stage_3"]

PrepareArtifactRegeneration == [NoRow EXCEPT !.status = "running"]

(* For a mutant: the status stays RUNNING.                                 *)
CompleteResultOnly(row, payload) == [row EXCEPT !.result = payload]

(* complete leaves failed_stage and last_successful_stage alone and        *)
(* replaces the whole result by the payload it is given.                   *)
Complete(row, payload) ==
    [row EXCEPT !.status = "completed", !.result = payload]

SaveStage3Result(row, payload) ==
    [row EXCEPT !.result = payload, !.lastOk = "stage_3"]

SaveTestGeneration(row, suite) ==
    [row EXCEPT
        !.result = [DropFromVerification(row.result) EXCEPT
                        !.generation = suite,
                        !.history = @ \cup {suite}],
        !.lastOk = "stage_4"]

SaveTestVerification(row, suite) ==
    [row EXCEPT
        !.result = [DropOptimization(row.result) EXCEPT !.verification = suite],
        !.lastOk = "stage_5"]

(* A partial_success keeps the checkpoint for a later resume.              *)
SaveQualityOptimization(row, suite, partial) ==
    [row EXCEPT
        !.result = [row.result EXCEPT
                        !.generation = suite,
                        !.verification = suite,
                        !.optimization = suite,
                        !.checkpoint = IF partial THEN @ ELSE NoSuite],
        !.lastOk = "stage_6"]

(* A "generation" or "generation_batch" checkpoint carries no verification. *)
SaveQualityCheckpoint(row, suite, verified) ==
    [row EXCEPT
        !.result = [row.result EXCEPT
                        !.checkpoint = suite,
                        !.generation = suite,
                        !.verification = IF verified THEN suite ELSE @]]

SaveRuntimeExecutionPlan(row, suite) ==
    [row EXCEPT !.result.plan = suite, !.lastOk = "runtime_preparation"]

(* For a mutant: a failure that drops the result.                          *)
FailRunResultDropped(row, stage) ==
    [row EXCEPT !.status = "failed", !.failedStage = stage,
                !.result = EmptyResult]

(* The result is retained so that the run can be resumed.                  *)
FailRun(row, stage) ==
    [row EXCEPT !.status = "failed", !.failedStage = stage]

-----------------------------------------------------------------------------
(* _commit_and_refresh.  The UPDATE writes the columns whose in-memory     *)
(* value differs from the one last loaded; the others keep what the        *)
(* database holds by then.                                                 *)

Merge(loaded, new, db) ==
    [status |-> IF new.status # loaded.status THEN new.status ELSE db.status,
     result |-> IF new.result # loaded.result THEN new.result ELSE db.result,
     failedStage |-> IF new.failedStage # loaded.failedStage
                     THEN new.failedStage ELSE db.failedStage,
     lastOk |-> IF new.lastOk # loaded.lastOk THEN new.lastOk ELSE db.lastOk]
=============================================================================
