------------------------------- MODULE BestSuite -------------------------------
(***************************************************************************)
(* What the quality loop promises about the best suite it has evaluated:   *)
(* once a score is kept, failures, crashes and resumed loops may raise it  *)
(* and never lower it, and what is delivered is at least as good.          *)
(***************************************************************************)
EXTENDS Integers

CONSTANT Nothing \* no checkpoint is kept, nothing was delivered

VARIABLES
    kept,     \* best score in the row's checkpoint, -1 before an evaluation
    delivered \* score of the persisted quality_optimization

bestVars == <<kept, delivered>>

Nowhere == -1

Init == kept = Nothing /\ delivered = Nothing

(* The first checkpoint of a loop, or one with a better suite.             *)
Keep ==
    /\ kept' \in Nat \cup {Nowhere}
    /\ kept = Nothing \/ kept' > kept
    /\ UNCHANGED delivered

Deliver ==
    /\ delivered' \in Nat
    /\ kept # Nothing /\ delivered' >= kept
    /\ kept' \in {kept, Nothing}

(* The suite the loop was working on is replaced.                          *)
Discard == kept' = Nothing /\ delivered' = Nothing

Next == Keep \/ Deliver \/ Discard

Spec == Init /\ [][Next]_bestVars
================================================================================
