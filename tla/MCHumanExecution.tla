--------------------------- MODULE MCHumanExecution ---------------------------
(* A person who acts twice, two requests to finish and one to cancel.      *)
EXTENDS HumanExecution
CONSTANTS a1, a2, f1, f2, c1
=============================================================================
