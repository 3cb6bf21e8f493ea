---------------------------- MODULE PipelineResume ----------------------------
(***************************************************************************)
(* PipelineRun started from a database that already holds a completed or   *)
(* failed run for every dependency run.  run() and understand() then admit *)
(* an existing row: the check of its status and the commit that marks it   *)
(* RUNNING happen under one hold of the project lock.                      *)
(***************************************************************************)
EXTENDS PipelineRun

CONSTANT ExistingRows

ASSUME ExistingRowsAssumption ==
    \A r \in ExistingRows : r \in Row /\ r.status \in {"completed", "failed"}

InitExisting ==
    /\ rows \in [DepRuns -> ExistingRows]
    /\ lock = Nobody
    /\ cachedRun = NoDep
    /\ savedPoint = [d \in DepRuns |-> NoSuite]
    /\ active = 1
    /\ req = [w \in Workers |-> IdleRequest]

SpecExisting == InitExisting /\ [][Next]_vars

(* A request thread keeps running, as in FairSpec.                         *)
FairSpecExisting == SpecExisting /\ \A w \in Workers : WF_vars(Progress(w))
=============================================================================
