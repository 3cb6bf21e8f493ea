-------------------------- MODULE MCScriptExecution --------------------------
(* A generation of three scripts, or of a blocked one that Redis has kept, *)
(* and two jobs with two workers each.                                     *)
EXTENDS ScriptExecution, TLC

CONSTANTS g1, j1, j2, a, b

Steps == <<<<a>>, <<b>>, <<>>>>
Selected == {<<"Valid", "Valid", "Valid">>, <<"Blocked">>}
Kept == {<<"Blocked">>}
Interchangeable == Permutations(Jobs)
=============================================================================
