----------------------------- MODULE MCQualityLoop -----------------------------
EXTENDS QualityLoop

CONSTANTS c1, c2, c3

(* The id c2 is c1 with other capitals.                                     *)
CapitalsFolded == [id \in CaseIds |-> IF id = c2 THEN c1 ELSE id]

Succeeds(scenario) == [scenario |-> scenario, expected |-> "success"]

(* What a client submits: a case of each scenario, the first supported, the *)
(* second verified or partial and possibly a duplicate; or both are         *)
(* verified and found duplicates.                                           *)
OnePerScenario == [id \in {c1, c3} |-> Succeeds(IF id = c1 THEN "s1" ELSE "s2")]

TwoCases ==
    {[suite |-> OnePerScenario, verification |-> v] :
        v \in {w \in Verifications(OnePerScenario) :
                  \/ Supported(w[c1]) /\ w[c3].status \in {"verified", "partial"}
                  \/ \A id \in {c1, c3} : w[id].status = "verified" /\ w[id].duplicate}}
================================================================================
