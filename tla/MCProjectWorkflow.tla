------------------------- MODULE MCProjectWorkflow -------------------------
(* The requests on one project whose interleavings are explored.           *)
EXTENDS ProjectWorkflow, TLC

CONSTANTS r1, r2, r3, s1

Mix(known, x, y, z) ==
    [known |-> known, ops |-> (r1 :> x) @@ (r2 :> y) @@ (r3 :> z)]

Overlaps ==
    {Mix("nothing", "upload", "delete", "none"),
     Mix("nothing", "upload", "resume", "none"),
     Mix("uploaded", "continue_1", "continue_1", "continue_2"),
     Mix("uploaded", "resume", "continue_2", "none"),
     Mix("uploaded", "resume", "retry", "none"),
     Mix("understood", "discover", "continue_3", "resume"),
     Mix("understood", "continue_3", "continue_3", "retry"),
     Mix("understood", "force", "continue_3", "validate"),
     Mix("generated", "validate", "validate", "retry"),
     Mix("generated", "validate", "delete", "none"),
     Mix("generated", "discover", "discover", "continue_2"),
     Mix("unvalidated", "retry", "retry", "none"),
     Mix("unvalidated", "retry", "resume", "validate"),
     Mix("unvalidated", "retry", "delete", "delete")}
=============================================================================
