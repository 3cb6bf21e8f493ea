-------------------------- MODULE MCPipelineResume --------------------------
EXTENDS PipelineResume, TLC

CONSTANTS a, b

(* Rows earlier requests can have left behind: a completed Stage 3, a      *)
(* pipeline that failed in Stage 3, one that failed in Stage 6.            *)
Stage3Only == [EmptyResult EXCEPT !.summary = TRUE]

Understood ==
    [status |-> "completed", result |-> [Stage3Only EXCEPT !.stamp = 1],
     failedStage |-> "none", lastOk |-> "stage_3"]

FailedAtOnce == [NoRow EXCEPT !.status = "failed", !.failedStage = "stage_3"]

FailedInQuality ==
    [status |-> "failed",
     result |-> [Stage3Only EXCEPT !.generation = [id |-> a, ver |-> 1],
                                   !.history = {[id |-> a, ver |-> 1]}],
     failedStage |-> "stage_6", lastOk |-> "stage_4"]

UnderstoodOnly == {Understood}
SomeExisting == {Understood, FailedAtOnce, FailedInQuality}
Ids == {a, b}
OneId == {a}

(* Requests and dependency runs are interchangeable.                       *)
Interchangeable == Permutations(Workers) \cup Permutations(DepRuns)
=============================================================================
