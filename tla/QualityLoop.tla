------------------------------ MODULE QualityLoop ------------------------------
(***************************************************************************)
(* QualityLoopService.run as optimize_test_quality drives it: evaluate the *)
(* suite, regenerate weak cases in batches, merge what verifies better,    *)
(* and start over, with a checkpoint at each point from which a later call *)
(* resumes after a failure or a crash.                                     *)
(*                                                                         *)
(* A test case is its id and its content; the content is the scenario it   *)
(* exercises and the outcome it expects (Deduplicator's scenario key and   *)
(* canonical expectation; every case names a route or a symbol).  A check  *)
(* is the verifier's result about one content.  The order of the cases is  *)
(* open, and so is what the verifier's evidence decides among equal ranks. *)
(***************************************************************************)
EXTENDS Integers, FiniteSets

CONSTANTS
    CaseIds,        \* ids a test case can have
    Folded,         \* an id without the difference of upper and lower case
    Scenarios,      \* scenario keys
    Expectations,   \* expected outcomes
    MaxIterations,  \* configured limit, at most MAX_QUALITY_ITERATIONS
    MaxBatches,     \* regeneration batches per iteration
    MaxScore,       \* overall scores are 0..MaxScore
    Threshold,      \* score that satisfies the evaluation
    Submissions,    \* suites the clients submit, with their verifications
    NoVerification, \* "verification": None in a checkpoint
    NoCheckpoint    \* no checkpoint in the row, or in Redis

ASSUME CaseIdsAssumption == IsFiniteSet(CaseIds)
ASSUME FoldedAssumption == Folded \in [CaseIds -> CaseIds]
ASSUME MaxIterationsAssumption == MaxIterations \in 1..2
ASSUME MaxBatchesAssumption == MaxBatches \in Nat \ {0}
ASSUME MaxScoreAssumption == MaxScore \in Nat

Score == 0..MaxScore

(* What the findings other than "duplicate" amount to; "unsupported":      *)
(* failed with one that no code can satisfy.                               *)
Status == {"unsupported", "failed", "partial", "verified"}

Content == [scenario : Scenarios, expected : Expectations]
Check == [content : Content, status : Status, duplicate : BOOLEAN]

PartialFunctions(D, R) == UNION {[S -> R] : S \in SUBSET D}
Suite == PartialFunctions(CaseIds, Content)
Verification == PartialFunctions(CaseIds, Check)

ASSUME NoVerificationAssumption == NoVerification \notin Verification

Empty == [id \in {} |-> 0]

(* best_score is -inf until a suite has been evaluated.                    *)
NoBest == [score |-> -1, suite |-> Empty, checks |-> Empty]

Pc == {"idle", "verified", "evaluate", "generate", "finish"}

Best == [score : Score \cup {-1}, suite : Suite, checks : Verification]

CheckpointRecord ==
    [suite : Suite, checks : Verification \cup {NoVerification},
     next : Nat, best : Best]

ASSUME NoCheckpointAssumption ==
    NoCheckpoint \notin CheckpointRecord \cup Int

Loop == [pc : Pc, suite : Suite, checks : Verification, iteration : Nat,
         best : Best, batches : 0..MaxBatches, fresh : Suite,
         partial : BOOLEAN]

VARIABLES
    loop,   \* the running call of QualityLoopService.run
    stored, \* quality_checkpoint of the row
    cached, \* its copy in Redis
    outcome \* quality_optimization of the row

vars == <<loop, stored, cached, outcome>>

IdleLoop == [pc |-> "idle", suite |-> Empty, checks |-> Empty, iteration |-> 1,
             best |-> NoBest, batches |-> 0, fresh |-> Empty,
             partial |-> FALSE]

Init ==
    /\ loop = IdleLoop
    /\ stored = NoCheckpoint
    /\ cached = NoCheckpoint
    /\ outcome = NoBest

-----------------------------------------------------------------------------
(* Verification and deduplication.                                         *)

(* Checks without their "duplicate" findings.                              *)
WithoutDuplicateFindings(suite) ==
    {[id \in DOMAIN suite |-> [content |-> suite[id], status |-> result[id],
                               duplicate |-> FALSE]] :
        result \in [DOMAIN suite -> Status]}

WithoutDuplicateFinding(check) == [check EXCEPT !.duplicate = FALSE]

WithDuplicates(checks, copies) ==
    [id \in DOMAIN checks |-> [checks[id] EXCEPT !.duplicate = id \in copies]]

(* Of cases that behave alike each is found a duplicate.                   *)
Verifications(suite) ==
    {WithDuplicates(checks, copies) :
        checks \in WithoutDuplicateFindings(suite),
        copies \in {S \in SUBSET DOMAIN suite : Cardinality(S) # 1}}

(* For a mutant: the severity the verifier's _strongest_status ranks by.   *)
Severity(check) ==
    CASE check.status = "verified" -> 0
      [] check.status = "partial" -> 1
      [] OTHER -> 2

(* The rank _verification_strength compares first; of two checks of one    *)
(* rank either may be the stronger.                                        *)
Strength(check) ==
    CASE check.status = "verified" -> 2
      [] check.status = "partial" -> 1
      [] OTHER -> 0

Supported(check) == check.status = "verified" /\ ~check.duplicate

Weak(checks) == {id \in DOMAIN checks : ~Supported(checks[id])}

Only(f, S) == [x \in DOMAIN f \cap S |-> f[x]]

(* Of two cases with one id or one scenario the first stays.  Titles and   *)
(* steps, which are compared too, are not in the model.                    *)
Deduplicated(first, second) ==
    LET added == {id \in DOMAIN second \ DOMAIN first :
                    \A other \in DOMAIN first :
                       first[other].scenario # second[id].scenario}
    IN  [id \in DOMAIN first \cup added |->
           IF id \in added THEN second[id] ELSE first[id]]

ScenariosDiffer(suite) ==
    \A i, j \in DOMAIN suite : suite[i].scenario = suite[j].scenario => i = j

GeneratedSuites == {s \in Suite : s # Empty /\ ScenariosDiffer(s)}

ASSUME SubmissionsAssumption ==
    \A request \in Submissions :
       /\ request.suite \in Suite
       /\ request.verification \in Verifications(request.suite)

-----------------------------------------------------------------------------
(* _merge_regenerated.                                                     *)

(* A replacement replaces a weaker case; without the rest of the strength, *)
(* one of the same rank may or may not.                                    *)
AcceptedUpdates(suite, checks, newChecks, updates) ==
    LET replaced == updates \cap DOMAIN suite \cap DOMAIN checks
                            \cap DOMAIN newChecks
        stronger == {id \in replaced :
                       Strength(newChecks[id]) > Strength(checks[id])}
        equal == {id \in replaced :
                       Strength(newChecks[id]) = Strength(checks[id])}
    IN  {stronger \cup some : some \in SUBSET equal}

AcceptedAdditions(suite, checks, newChecks, updates) ==
    {id \in DOMAIN newChecks \ (DOMAIN suite \cup (updates \cap DOMAIN checks)) :
        Strength(newChecks[id]) > 0}

(* The scan comes to a candidate: it joins the selected ones it has no     *)
(* clash with, or it or a rival stays, the stronger.                       *)
Admit(selected, id, clash, checks) ==
    LET rivals == {other \in selected : <<other, id>> \in clash}
        Beats(i, j) == Strength(checks[i]) >= Strength(checks[j])
    IN  IF rivals = {}
        THEN {selected \cup {id}}
        ELSE {selected : other \in {o \in rivals : Beats(o, id)}} \cup
             {(selected \ {other}) \cup {id} :
                other \in {o \in rivals : Beats(id, o)}}

(* What a scan of the candidates, in any order, can end with.              *)
Selected(ids, clash, checks) ==
    LET selections[seen \in SUBSET ids] ==
          IF seen = {} THEN {{}}
          ELSE UNION {UNION {Admit(selected, id, clash, checks) :
                               selected \in selections[seen \ {id}]} :
                        id \in seen}
    IN  selections[ids]

(* Cases of one id, letter case aside, or of one behaviour.                *)
Alike(cases) ==
    {pair \in (DOMAIN cases) \X (DOMAIN cases) :
        \/ Folded[pair[1]] = Folded[pair[2]]
        \/ cases[pair[1]] = cases[pair[2]]}

(* Cases of one scenario that expect different outcomes.                   *)
Contradicting(cases) ==
    {pair \in (DOMAIN cases) \X (DOMAIN cases) :
        /\ cases[pair[1]].scenario = cases[pair[2]].scenario
        /\ cases[pair[1]].expected # cases[pair[2]].expected}

(* The suites that merging the new cases leads to: of the cases alike one  *)
(* stays; then no unsupported case; and of contradicting cases one.        *)
MergedWith(suite, checks, replacements, newChecks, new) ==
    LET ids == (DOMAIN suite \cap DOMAIN checks) \cup new
        cases == [id \in ids |-> IF id \in new THEN replacements[id] ELSE suite[id]]
        results == [id \in ids |-> IF id \in new THEN newChecks[id]
                                  ELSE WithoutDuplicateFinding(checks[id])]
        Possible(S) == {id \in S : results[id].status # "unsupported"}
    IN  {[suite |-> Only(cases, chosen), checks |-> Only(results, chosen)] :
           chosen \in UNION {Selected(Possible(S), Contradicting(cases), results) :
                               S \in Selected(ids, Alike(cases), results)}}

(* A case without a check is dropped.                                      *)
Merged(suite, checks, replacements, newChecks, updates) ==
    UNION {MergedWith(suite, checks, replacements, newChecks,
                      accepted \cup AcceptedAdditions(suite, checks, newChecks,
                                                      updates)) :
             accepted \in AcceptedUpdates(suite, checks, newChecks, updates)}

-----------------------------------------------------------------------------
(* Checkpoints: the row's is committed, Redis's may be lost.               *)

Checkpoint(suite, checks, next, best) ==
    [suite |-> suite, checks |-> checks, next |-> next, best |-> best]

SaveCheckpoint(checkpoint) ==
    /\ stored' = checkpoint
    /\ cached' \in {cached, checkpoint}

ResumeState == IF stored # NoCheckpoint THEN stored ELSE cached

(* For a mutant: the resumed loop forgets the best suite.                  *)
BeginForgettingBest(suite, verification) ==
    /\ loop.pc = "idle"
    /\ loop' = [IdleLoop EXCEPT
         !.pc = "verified",
         !.suite = IF ResumeState = NoCheckpoint THEN suite ELSE ResumeState.suite,
         !.checks = IF \/ ResumeState = NoCheckpoint
                       \/ ResumeState.checks = NoVerification
                    THEN verification ELSE ResumeState.checks,
         !.iteration = IF ResumeState = NoCheckpoint THEN 1 ELSE ResumeState.next]
    /\ UNCHANGED <<stored, cached, outcome>>

(* What the checkpoint does not carry is taken from the client's request.  *)
Begin(suite, verification) ==
    /\ loop.pc = "idle"
    /\ loop' =
         IF ResumeState = NoCheckpoint
         THEN [IdleLoop EXCEPT !.pc = "verified", !.suite = suite,
                               !.checks = verification]
         ELSE [IdleLoop EXCEPT
                 !.pc = "verified",
                 !.suite = ResumeState.suite,
                 !.checks = IF ResumeState.checks = NoVerification
                            THEN verification ELSE ResumeState.checks,
                 !.iteration = ResumeState.next,
                 !.best = ResumeState.best]
    /\ UNCHANGED <<stored, cached, outcome>>

-----------------------------------------------------------------------------
(* One iteration.                                                          *)

CheckpointVerification ==
    /\ loop.pc = "verified"
    /\ loop' = [loop EXCEPT !.pc = "evaluate"]
    /\ SaveCheckpoint(Checkpoint(loop.suite, loop.checks, loop.iteration,
                                 loop.best))
    /\ UNCHANGED outcome

BestAfter(score) ==
    IF score > loop.best.score
    THEN [score |-> score, suite |-> loop.suite, checks |-> loop.checks]
    ELSE loop.best

(* A better suite is checkpointed at once.                                 *)
Evaluate(score) ==
    IF BestAfter(score) # loop.best
    THEN SaveCheckpoint(Checkpoint(loop.suite, loop.checks, loop.iteration,
                                   BestAfter(score)))
    ELSE UNCHANGED <<stored, cached>>

(* threshold_met, max_iterations or no_further_gaps_identifiable.          *)
StopLooping(score) ==
    /\ loop.pc = "evaluate"
    /\ \/ score >= Threshold
       \/ loop.iteration = MaxIterations
       \/ Weak(loop.checks) = {}
    /\ loop' = [loop EXCEPT !.pc = "finish", !.best = BestAfter(score)]
    /\ Evaluate(score)
    /\ UNCHANGED outcome

(* The score is at most the coverage and the completeness, so it alone     *)
(* decides whether the threshold is met.                                   *)
RequestRegeneration(score) ==
    /\ loop.pc = "evaluate"
    /\ score < Threshold
    /\ loop.iteration < MaxIterations
    /\ \E batches \in 1..MaxBatches :
         loop' = [loop EXCEPT !.pc = "generate", !.best = BestAfter(score),
                              !.batches = batches, !.fresh = Empty]
    /\ Evaluate(score)
    /\ UNCHANGED outcome

(* The generated cases are checkpointed unverified, beside the old suite.  *)
GenerateBatch(generated) ==
    /\ loop.pc = "generate" /\ loop.batches > 0
    /\ LET fresh == Deduplicated(loop.fresh, generated) IN
         /\ loop' = [loop EXCEPT !.batches = @ - 1, !.fresh = fresh]
         /\ SaveCheckpoint(Checkpoint(Deduplicated(loop.suite, fresh),
                                      NoVerification, loop.iteration + 1,
                                      loop.best))
    /\ UNCHANGED outcome

(* An empty batch with a reason ends the batches.                          *)
GenerateNothing ==
    /\ loop.pc = "generate" /\ loop.batches > 0
    /\ \E rest \in {0, loop.batches - 1} : loop' = [loop EXCEPT !.batches = rest]
    /\ UNCHANGED <<stored, cached, outcome>>

(* provider_exhausted is a partial_success.                                *)
NoReplacements ==
    /\ loop.pc = "generate" /\ loop.batches = 0 /\ loop.fresh = Empty
    /\ \E exhausted \in BOOLEAN :
         loop' = [loop EXCEPT !.pc = "finish", !.partial = exhausted]
    /\ UNCHANGED <<stored, cached, outcome>>

(* The merge looks at the replacements' other findings only.               *)
MergeReplacements ==
    /\ loop.pc = "generate" /\ loop.batches = 0 /\ loop.fresh # Empty
    /\ \E newChecks \in WithoutDuplicateFindings(loop.fresh),
          updates \in SUBSET Weak(loop.checks) :
         \E merged \in Merged(loop.suite, loop.checks, loop.fresh, newChecks,
                              updates) :
           /\ loop' = [loop EXCEPT !.pc = "verified",
                                   !.suite = merged.suite,
                                   !.checks = merged.checks,
                                   !.iteration = @ + 1,
                                   !.fresh = Empty]
           /\ SaveCheckpoint(Checkpoint(merged.suite, NoVerification,
                                        loop.iteration + 1, loop.best))
    /\ UNCHANGED outcome

-----------------------------------------------------------------------------
(* _finalize_verified_suite: the verified cases, the strongest per         *)
(* scenario; then save_quality_optimization.                               *)

(* Of the ids with one key, a strongest.                                   *)
StrongestPer(ids, Key(_), checks) ==
    {chosen \in SUBSET ids :
       /\ \A i, j \in chosen : Key(i) = Key(j) => i = j
       /\ \A i \in ids : \E j \in chosen :
             Key(i) = Key(j) /\ Strength(checks[j]) >= Strength(checks[i])}

FinalSuites(best) ==
    LET ids == {id \in DOMAIN best.suite \cap DOMAIN best.checks :
                   Supported(best.checks[id])}
        Scenario(id) == best.suite[id].scenario
    IN  {[score |-> best.score, suite |-> Only(best.suite, chosen),
          checks |-> Only(best.checks, chosen)] :
            chosen \in StrongestPer(ids, Scenario, best.checks)}

Finish ==
    /\ loop.pc = "finish"
    /\ outcome' \in FinalSuites(loop.best)
    /\ stored' = IF loop.partial THEN stored ELSE NoCheckpoint
    /\ loop' = IdleLoop
    /\ UNCHANGED cached

-----------------------------------------------------------------------------
(* An exception or a crash ends the call; the row's checkpoint stays, and  *)
(* run() completes a failed row with it.                                   *)
Abort ==
    /\ loop.pc # "idle"
    /\ loop' = IdleLoop
    /\ UNCHANGED <<stored, cached, outcome>>

(* save_test_generation, prepare_forced_rerun.                             *)
ReplaceSuite ==
    /\ loop.pc = "idle"
    /\ stored' = NoCheckpoint
    /\ outcome' = NoBest
    /\ UNCHANGED <<loop, cached>>

(* The Redis entry expires, or cannot be read.                             *)
Expire ==
    /\ cached' = NoCheckpoint
    /\ UNCHANGED <<loop, stored, outcome>>

Next ==
    \/ \E request \in Submissions : Begin(request.suite, request.verification)
    \/ CheckpointVerification
    \/ \E score \in Score : StopLooping(score) \/ RequestRegeneration(score)
    \/ \E generated \in GeneratedSuites : GenerateBatch(generated)
    \/ GenerateNothing \/ NoReplacements \/ MergeReplacements
    \/ Finish \/ Abort \/ ReplaceSuite \/ Expire

Spec == Init /\ [][Next]_vars
-----------------------------------------------------------------------------
(* Properties.                                                             *)

(* Types of the running loop, the two checkpoints and the outcome.         *)
TypeOK ==
    /\ loop \in Loop
    /\ stored \in CheckpointRecord \cup {NoCheckpoint}
    /\ cached \in CheckpointRecord \cup {NoCheckpoint}
    /\ outcome \in Best

(* The best suite evaluated so far survives every failure, crash and       *)
(* resume: the score in the row's checkpoint never falls, and the outcome  *)
(* is at least as good.                                                    *)
KeptScore == IF stored = NoCheckpoint THEN NoCheckpoint ELSE stored.best.score
DeliveredScore == IF outcome = NoBest THEN NoCheckpoint ELSE outcome.score

Promise == INSTANCE BestSuite WITH
    Nothing <- NoCheckpoint, kept <- KeptScore, delivered <- DeliveredScore

BestNeverLost == Promise!Spec

HasVerified(scenario, suite, checks) ==
    \E id \in DOMAIN suite \cap DOMAIN checks :
       suite[id].scenario = scenario /\ Supported(checks[id])

MergeKeeps ==
    \A scenario \in Scenarios :
       HasVerified(scenario, loop.suite, loop.checks) =>
         HasVerified(scenario, loop'.suite, loop'.checks)

(* Ids that differ in letter case only are of one scenario.                *)
TwinsShareScenario ==
    \A s, t \in {loop.suite, loop.fresh} :
       \A i \in DOMAIN s, j \in DOMAIN t :
          i # j /\ Folded[i] = Folded[j] => s[i].scenario = t[j].scenario

(* Regeneration is not destructive, unless ids of different scenarios      *)
(* differ in letter case only: a scenario the suite has a verified case    *)
(* for, found no duplicate, has one after the merge, whatever the          *)
(* replacements, in whatever order the scans remove duplicates,            *)
(* unsupported cases and contradicting ones.                               *)
MergeKeepsVerified ==
    [][loop.pc = "generate" /\ loop'.pc = "verified" /\ TwinsShareScenario
         => MergeKeeps]_vars

(* Regeneration is not destructive: not so when a new case's id differs    *)
(* from that of another scenario's case in letter case only.  (README,     *)
(* known disagreements)                                                    *)
NonDestructiveMerge ==
    [][loop.pc = "generate" /\ loop'.pc = "verified" => MergeKeeps]_vars

(* A resumed loop has an iteration left: it evaluates at least one suite,  *)
(* without which it ends in an error and leaves the checkpoint as it is.   *)
ResumeEvaluates ==
    \A checkpoint \in {stored, cached} \ {NoCheckpoint} :
       checkpoint.next <= MaxIterations

(* The delivered suite holds the contents its verification is about: not   *)
(* so when a loop that regenerated cases crashes before it verified them.  *)
(* (README, known disagreements)                                           *)
DeliveredAsVerified ==
    \A id \in DOMAIN outcome.suite :
       outcome.checks[id].content = outcome.suite[id]

(* Without an interrupted loop in the row, the loop starts from the suite  *)
(* that was submitted: not so when Redis still has the checkpoint of an    *)
(* earlier loop.  (README, known disagreements)                            *)
OptimizesSupplied ==
    [][loop.pc = "idle" /\ loop'.pc = "verified" /\ stored = NoCheckpoint =>
         /\ \E request \in Submissions : loop'.suite = request.suite
         /\ loop'.iteration = 1 /\ loop'.best = NoBest]_vars
================================================================================
