------------------------- MODULE MCTestCaseWorkflow -------------------------
(* One workflow; an earlier one may have cached a result for its input.    *)
EXTENDS TestCaseWorkflow, TLC
CONSTANTS w1, given, corrected
=============================================================================
