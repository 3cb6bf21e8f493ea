--------------------------- MODULE MCStoryWorkflow ---------------------------
(* Two requests on one workflow: any request and a shorter one.             *)
EXTENDS StoryWorkflow, TLC

CONSTANTS r1, r2, r3, e1, e2, s1, w1, w2, t1, t2

Pair(x, y) == (r1 :> x) @@ (r2 :> y)

\* The pairs whose interleavings are explored.
Overlaps ==
    {Pair("start", "get"), Pair("start", "undo"), Pair("modify", "regenerate"),
     Pair("generate", "undo"), Pair("validate", "undo"), Pair("review", "undo"),
     Pair("review", "approve"), Pair("modify", "modify"), Pair("retry", "modify"),
     Pair("retry", "undo"), Pair("regenerate", "regenerate"), Pair("modify", "undo")}

Reviewer == [{r1, r2, r3} -> {"regenerate", "undo"}]
OtherPlan == {[e \in {e1} |-> w2]}
=============================================================================
