-------------------------- MODULE QualityAndScanProofs --------------------------
(***************************************************************************)
(* Proofs about QualityLoop for every set of cases, every limit and every  *)
(* score: types, iterations left on resume, merges that keep verified      *)
(* cases, and the refinement of BestSuite.  Proofs about SecurityScan for  *)
(* every finite set of workers, every set of operations and every bound on *)
(* the rows.  The two modules share no variable.                           *)
(***************************************************************************)
EXTENDS QualityLoop, SecurityScan, FiniteSetTheorems, WellFoundedInduction,
        TLAPS

-----------------------------------------------------------------------------
(* Partial functions.                                                      *)

(* A function from a subset of D to R is a partial function.               *)
LEMMA PartialFunctionIntro ==
    ASSUME NEW D, NEW R, NEW S \in SUBSET D, NEW f \in [S -> R]
    PROVE  f \in PartialFunctions(D, R)
  BY DEF PartialFunctions

(* And the other way round.                                                *)
LEMMA PartialFunctionElim ==
    ASSUME NEW D, NEW R, NEW f \in PartialFunctions(D, R)
    PROVE  /\ DOMAIN f \in SUBSET D
           /\ f \in [DOMAIN f -> R]
  BY DEF PartialFunctions

(* The empty function is a suite and a verification.                       *)
LEMMA EmptyTyped == Empty \in Suite /\ Empty \in Verification
<1>1. Empty \in [{} -> Content] /\ Empty \in [{} -> Check]
  BY DEF Empty
<1> QED
  BY <1>1, PartialFunctionIntro DEF Suite, Verification

(* Restricting a suite or a verification to some ids.                      *)
LEMMA OnlyTyped ==
    ASSUME NEW D, NEW R, NEW f \in PartialFunctions(D, R), NEW S
    PROVE  Only(f, S) \in PartialFunctions(D, R)
<1>1. Only(f, S) \in [DOMAIN f \cap S -> R]
  BY PartialFunctionElim DEF Only
<1>2. DOMAIN f \cap S \in SUBSET D
  BY PartialFunctionElim
<1> QED
  BY <1>1, <1>2, PartialFunctionIntro

(* A deduplicated union of two suites is a suite.                          *)
LEMMA DeduplicatedTyped ==
    ASSUME NEW first \in Suite, NEW second \in Suite
    PROVE  Deduplicated(first, second) \in Suite
<1> DEFINE added == {id \in DOMAIN second \ DOMAIN first :
                       \A other \in DOMAIN first :
                          first[other].scenario # second[id].scenario}
<1>1. first \in [DOMAIN first -> Content] /\ DOMAIN first \in SUBSET CaseIds
  BY PartialFunctionElim DEF Suite
<1>2. second \in [DOMAIN second -> Content] /\ DOMAIN second \in SUBSET CaseIds
  BY PartialFunctionElim DEF Suite
<1>3. added \in SUBSET DOMAIN second
  OBVIOUS
<1>4. [id \in DOMAIN first \cup added |->
         IF id \in added THEN second[id] ELSE first[id]]
        \in [DOMAIN first \cup added -> Content]
  BY <1>1, <1>2, <1>3
<1>5. DOMAIN first \cup added \in SUBSET CaseIds
  BY <1>1, <1>2, <1>3
<1>6. Deduplicated(first, second) =
        [id \in DOMAIN first \cup added |->
           IF id \in added THEN second[id] ELSE first[id]]
  BY DEF Deduplicated
<1> HIDE DEF added
<1> QED
  BY <1>4, <1>5, <1>6, PartialFunctionIntro DEF Suite

(* What the verifier says about a suite is a verification, about its ids.  *)
LEMMA JudgementsTyped ==
    ASSUME NEW suite \in Suite, NEW v \in WithoutDuplicateFindings(suite)
    PROVE  v \in Verification /\ DOMAIN v = DOMAIN suite
<1>1. suite \in [DOMAIN suite -> Content] /\ DOMAIN suite \in SUBSET CaseIds
  BY PartialFunctionElim DEF Suite
<1>2. PICK result \in [DOMAIN suite -> Status] :
        v = [id \in DOMAIN suite |->
               [content |-> suite[id], status |-> result[id],
                duplicate |-> FALSE]]
  BY DEF WithoutDuplicateFindings
<1>3. v \in [DOMAIN suite -> Check]
  BY <1>1, <1>2 DEF Check
<1> QED
  BY <1>1, <1>3, PartialFunctionIntro DEF Verification

(* And so is what the verifier finds duplicates in.                       *)
LEMMA VerificationsTyped ==
    ASSUME NEW suite \in Suite, NEW v \in Verifications(suite)
    PROVE  v \in Verification
<1>1. PICK checks \in WithoutDuplicateFindings(suite) :
        \E copies : v = WithDuplicates(checks, copies)
  BY DEF Verifications
<1>2. PICK copies : v = WithDuplicates(checks, copies)
  BY <1>1
<1>3. /\ checks \in [DOMAIN suite -> Check] /\ DOMAIN checks = DOMAIN suite
      /\ DOMAIN suite \in SUBSET CaseIds
  BY JudgementsTyped, PartialFunctionElim DEF Verification, Suite
<1>4. ASSUME NEW id \in DOMAIN suite
      PROVE  [checks[id] EXCEPT !.duplicate = id \in copies] \in Check
  <2>1. (id \in copies) \in BOOLEAN
    OBVIOUS
  <2> QED BY <1>3, <2>1 DEF Check
<1>5. v \in [DOMAIN suite -> Check]
  BY <1>2, <1>3, <1>4 DEF WithDuplicates
<1> QED
  BY <1>3, <1>5, PartialFunctionIntro DEF Verification

(* Merging returns a suite and a verification.                             *)
LEMMA MergedWithTyped ==
    ASSUME NEW suite \in Suite, NEW checks \in Verification,
           NEW replacements \in Suite,
           NEW newChecks \in Verification, DOMAIN newChecks = DOMAIN replacements,
           NEW new \in SUBSET DOMAIN newChecks,
           NEW merged \in MergedWith(suite, checks, replacements, newChecks, new)
    PROVE  merged.suite \in Suite /\ merged.checks \in Verification
<1> DEFINE ids == (DOMAIN suite \cap DOMAIN checks) \cup new
           cases == [id \in ids |-> IF id \in new THEN replacements[id] ELSE suite[id]]
           results == [id \in ids |-> IF id \in new THEN newChecks[id]
                                     ELSE WithoutDuplicateFinding(checks[id])]
<1>2. /\ suite \in [DOMAIN suite -> Content] /\ DOMAIN suite \subseteq CaseIds
      /\ replacements \in [DOMAIN replacements -> Content]
      /\ DOMAIN replacements \subseteq CaseIds
  BY PartialFunctionElim DEF Suite
<1>3. /\ checks \in [DOMAIN checks -> Check] /\ DOMAIN checks \subseteq CaseIds
      /\ newChecks \in [DOMAIN newChecks -> Check]
  BY PartialFunctionElim DEF Verification
<1>4. PICK chosen : merged = [suite |-> Only(cases, chosen),
                              checks |-> Only(results, chosen)]
  BY Zenon DEF MergedWith
<1>5. ASSUME NEW id \in DOMAIN checks
      PROVE  WithoutDuplicateFinding(checks[id]) \in Check
  BY <1>3 DEF WithoutDuplicateFinding, Check
<1>6. cases \in [ids -> Content] /\ results \in [ids -> Check]
  BY <1>2, <1>3, <1>5
<1>7. ids \in SUBSET CaseIds
  BY <1>2, <1>3
<1> HIDE DEF ids, cases, results
<1>8. cases \in Suite /\ results \in Verification
  BY <1>6, <1>7, PartialFunctionIntro DEF Suite, Verification
<1>9. Only(cases, chosen) \in Suite /\ Only(results, chosen) \in Verification
  BY <1>8, OnlyTyped DEF Suite, Verification
<1> QED
  BY <1>4, <1>9

(* What is merged into a suite has been checked.                           *)
LEMMA MergedCases ==
    ASSUME NEW suite, NEW checks, NEW replacements, NEW newChecks, NEW updates,
           NEW merged \in Merged(suite, checks, replacements, newChecks, updates)
    PROVE  \E new \in SUBSET DOMAIN newChecks :
              /\ merged \in MergedWith(suite, checks, replacements, newChecks, new)
              /\ \A id \in new : id \in updates \/ id \notin DOMAIN suite
<1> DEFINE additions == AcceptedAdditions(suite, checks, newChecks, updates)
<1>1. PICK accepted \in AcceptedUpdates(suite, checks, newChecks, updates) :
        merged \in MergedWith(suite, checks, replacements, newChecks,
                              accepted \cup additions)
  BY Zenon DEF Merged
<1>2. accepted \subseteq updates \cap DOMAIN newChecks
  BY DEF AcceptedUpdates
<1>3. additions \subseteq DOMAIN newChecks \ DOMAIN suite
  BY DEF AcceptedAdditions
<1> DEFINE new == accepted \cup additions
<1>4. /\ new \in SUBSET DOMAIN newChecks
      /\ \A id \in new : id \in updates \/ id \notin DOMAIN suite
  BY <1>2, <1>3
<1>5. merged \in MergedWith(suite, checks, replacements, newChecks, new)
  BY <1>1
<1> HIDE DEF new
<1> QED BY <1>4, <1>5

(* Merging returns a suite and a verification, whatever it merges.         *)
LEMMA MergedTyped ==
    ASSUME NEW suite \in Suite, NEW checks \in Verification,
           NEW replacements \in Suite,
           NEW newChecks \in Verification, DOMAIN newChecks = DOMAIN replacements,
           NEW updates,
           NEW merged \in Merged(suite, checks, replacements, newChecks, updates)
    PROVE  merged.suite \in Suite /\ merged.checks \in Verification
<1>1. PICK new \in SUBSET DOMAIN newChecks :
        merged \in MergedWith(suite, checks, replacements, newChecks, new)
  BY MergedCases
<1> QED BY <1>1, MergedWithTyped

(* The suite that is delivered is a suite, with a verification.            *)
LEMMA FinalSuitesTyped ==
    ASSUME NEW best \in Best, NEW final \in FinalSuites(best)
    PROVE  final \in Best /\ final.score = best.score
<1>1. PICK chosen : final = [score |-> best.score,
                             suite |-> Only(best.suite, chosen),
                             checks |-> Only(best.checks, chosen)]
  BY Zenon DEF FinalSuites
<1>2. best.suite \in Suite /\ best.checks \in Verification
  BY DEF Best
<1>3. Only(best.suite, chosen) \in Suite /\ Only(best.checks, chosen) \in Verification
  BY <1>2, OnlyTyped DEF Suite, Verification
<1> QED
  BY <1>1, <1>3 DEF Best

(* Checkpoints are checkpoint records.                                     *)
LEMMA CheckpointTyped ==
    ASSUME NEW suite \in Suite, NEW checks \in Verification \cup {NoVerification},
           NEW next \in Nat, NEW best \in Best
    PROVE  Checkpoint(suite, checks, next, best) \in CheckpointRecord
  BY DEF Checkpoint, CheckpointRecord

(* The loop between two calls, and the best of a loop that evaluated none. *)
LEMMA IdleTyped == NoBest \in Best /\ IdleLoop \in Loop
<1>1. NoBest \in Best
  BY EmptyTyped DEF NoBest, Best
<1> QED
  BY <1>1, EmptyTyped, MaxBatchesAssumption DEF IdleLoop, Loop, Pc

(* An evaluated suite is as good a best as any.                            *)
LEMMA BestAfterTyped ==
    ASSUME NEW score \in Score, loop \in Loop
    PROVE  /\ BestAfter(score) \in Best
           /\ BestAfter(score).score \in Score
           /\ \/ BestAfter(score) = loop.best
              \/ BestAfter(score).score > loop.best.score
  BY MaxScoreAssumption DEF BestAfter, Loop, Best, Score

-----------------------------------------------------------------------------
(* Types.                                                                  *)

(* Saving a checkpoint keeps the two checkpoints typed.                    *)
LEMMA SaveTyped ==
    ASSUME TypeOK, NEW checkpoint \in CheckpointRecord, SaveCheckpoint(checkpoint)
    PROVE  /\ stored' \in CheckpointRecord \cup {NoCheckpoint}
           /\ cached' \in CheckpointRecord \cup {NoCheckpoint}
  BY DEF TypeOK, SaveCheckpoint

(* Evaluating a suite keeps the two checkpoints typed.                     *)
LEMMA EvaluateTyped ==
    ASSUME TypeOK, NEW score \in Score, Evaluate(score)
    PROVE  /\ stored' \in CheckpointRecord \cup {NoCheckpoint}
           /\ cached' \in CheckpointRecord \cup {NoCheckpoint}
<1>1. loop.suite \in Suite /\ loop.checks \in Verification /\ loop.iteration \in Nat
  BY DEF TypeOK, Loop
<1>2. BestAfter(score) \in Best
  BY BestAfterTyped DEF TypeOK
<1> QED
  BY <1>1, <1>2, CheckpointTyped, SaveTyped DEF Evaluate, TypeOK

(* Every step keeps the types.                                             *)
LEMMA NextTyped ==
    ASSUME TypeOK, [Next]_vars
    PROVE  TypeOK'
<1> USE DEF TypeOK
<1>1. ASSUME NEW request \in Submissions,
             Begin(request.suite, request.verification)
      PROVE  TypeOK'
  <2> DEFINE suite == request.suite
             v == request.verification
  <2>1. suite \in Suite /\ v \in Verification
    BY SubmissionsAssumption, VerificationsTyped
  <2>2. CASE ResumeState = NoCheckpoint
    BY <1>1, <2>1, <2>2, IdleTyped DEF Begin, Loop, Pc
  <2>3. CASE ResumeState # NoCheckpoint
    <3>1. ResumeState \in CheckpointRecord
      BY <2>3 DEF ResumeState
    <3>2. /\ ResumeState.suite \in Suite /\ ResumeState.next \in Nat
          /\ ResumeState.best \in Best
          /\ ResumeState.checks \in Verification \cup {NoVerification}
      BY <3>1 DEF CheckpointRecord
    <3> QED BY <1>1, <2>1, <2>3, <3>2, IdleTyped DEF Begin, Loop, Pc
  <2> QED BY <2>2, <2>3
<1>2. CASE CheckpointVerification
  <2>1. Checkpoint(loop.suite, loop.checks, loop.iteration, loop.best)
          \in CheckpointRecord
    BY CheckpointTyped DEF Loop
  <2> QED BY <1>2, <2>1, SaveTyped DEF CheckpointVerification, Loop, Pc
<1>3. ASSUME NEW score \in Score, StopLooping(score)
      PROVE  TypeOK'
  BY <1>3, BestAfterTyped, EvaluateTyped DEF StopLooping, Loop, Pc
<1>4. ASSUME NEW score \in Score, RequestRegeneration(score)
      PROVE  TypeOK'
  <2>1. PICK batches \in 1..MaxBatches :
          loop' = [loop EXCEPT !.pc = "generate", !.best = BestAfter(score),
                               !.batches = batches, !.fresh = Empty]
    BY <1>4 DEF RequestRegeneration
  <2>2. BestAfter(score) \in Best /\ batches \in 0..MaxBatches
    BY BestAfterTyped, MaxBatchesAssumption
  <2>3. loop' \in Loop
    BY <2>1, <2>2, EmptyTyped DEF Loop, Pc
  <2> QED BY <1>4, <2>3, EvaluateTyped DEF RequestRegeneration
<1>5. ASSUME NEW generated \in GeneratedSuites, GenerateBatch(generated)
      PROVE  TypeOK'
  <2> DEFINE fresh == Deduplicated(loop.fresh, generated)
             suite == Deduplicated(loop.suite, fresh)
  <2>1. fresh \in Suite
    BY <1>5, DeduplicatedTyped DEF GeneratedSuites, Loop
  <2>2. suite \in Suite
    BY <2>1, DeduplicatedTyped DEF Loop
  <2>3. loop' = [loop EXCEPT !.batches = @ - 1, !.fresh = fresh]
    BY <1>5 DEF GenerateBatch
  <2>4. SaveCheckpoint(Checkpoint(suite, NoVerification, loop.iteration + 1,
                                  loop.best))
    BY <1>5 DEF GenerateBatch
  <2> HIDE DEF fresh, suite
  <2>5. loop.batches \in 0..MaxBatches /\ loop.batches > 0
    BY <1>5 DEF GenerateBatch, Loop
  <2>6. loop.batches - 1 \in 0..MaxBatches
    BY <2>5, MaxBatchesAssumption
  <2>7. loop' \in Loop
    BY <2>1, <2>3, <2>6 DEF Loop
  <2>8. Checkpoint(suite, NoVerification, loop.iteration + 1, loop.best)
          \in CheckpointRecord
    BY <2>2, CheckpointTyped DEF Loop
  <2> QED BY <1>5, <2>4, <2>7, <2>8, SaveTyped DEF GenerateBatch
<1>6. CASE GenerateNothing
  BY <1>6, MaxBatchesAssumption DEF GenerateNothing, Loop
<1>7. CASE NoReplacements
  BY <1>7 DEF NoReplacements, Loop, Pc
<1>8. CASE MergeReplacements
  <2>1. PICK newChecks \in WithoutDuplicateFindings(loop.fresh),
             updates \in SUBSET Weak(loop.checks) :
          \E merged \in Merged(loop.suite, loop.checks, loop.fresh, newChecks,
                               updates) :
            /\ loop' = [loop EXCEPT !.pc = "verified",
                                    !.suite = merged.suite,
                                    !.checks = merged.checks,
                                    !.iteration = @ + 1,
                                    !.fresh = Empty]
            /\ SaveCheckpoint(Checkpoint(merged.suite, NoVerification,
                                         loop.iteration + 1, loop.best))
    BY <1>8 DEF MergeReplacements
  <2>2. PICK merged \in Merged(loop.suite, loop.checks, loop.fresh, newChecks,
                               updates) :
            /\ loop' = [loop EXCEPT !.pc = "verified",
                                    !.suite = merged.suite,
                                    !.checks = merged.checks,
                                    !.iteration = @ + 1,
                                    !.fresh = Empty]
            /\ SaveCheckpoint(Checkpoint(merged.suite, NoVerification,
                                         loop.iteration + 1, loop.best))
    BY <2>1
  <2>3. /\ loop.suite \in Suite /\ loop.checks \in Verification
        /\ loop.fresh \in Suite
    BY DEF Loop
  <2>4. newChecks \in Verification /\ DOMAIN newChecks = DOMAIN loop.fresh
    BY <2>3, JudgementsTyped
  <2>5. merged.suite \in Suite /\ merged.checks \in Verification
    BY <2>2, <2>3, <2>4, MergedTyped
  <2> DEFINE suite == merged.suite
             checks == merged.checks
  <2>6. loop.iteration + 1 \in Nat /\ loop.best \in Best
    BY DEF Loop
  <2> HIDE DEF suite, checks
  <2>7. Checkpoint(suite, NoVerification, loop.iteration + 1, loop.best)
          \in CheckpointRecord
    BY <2>5, <2>6, CheckpointTyped DEF suite
  <2>8. loop' = [loop EXCEPT !.pc = "verified", !.suite = suite,
                             !.checks = checks, !.iteration = @ + 1,
                             !.fresh = Empty]
    BY <2>2 DEF suite, checks
  <2>9. suite \in Suite /\ checks \in Verification
    BY <2>5 DEF suite, checks
  <2>10. loop' \in Loop
    BY <2>6, <2>8, <2>9, EmptyTyped DEF Loop, Pc
  <2> QED BY <1>8, <2>2, <2>7, <2>10, SaveTyped DEF MergeReplacements, suite
<1>9. CASE Finish
  <2>1. loop.best \in Best
    BY DEF Loop
  <2> QED BY <1>9, <2>1, FinalSuitesTyped, IdleTyped DEF Finish
<1>10. CASE Abort
  BY <1>10, IdleTyped DEF Abort
<1>11. CASE ReplaceSuite
  BY <1>11, IdleTyped DEF ReplaceSuite
<1>12. CASE Expire
  BY <1>12 DEF Expire
<1>13. CASE UNCHANGED vars
  BY <1>13 DEF vars
<1> QED
  BY <1>1, <1>2, <1>3, <1>4, <1>5, <1>6, <1>7, <1>8, <1>9, <1>10, <1>11, <1>12,
     <1>13 DEF Next

(* The running loop, both checkpoints and the outcome keep their types     *)
(* through every resume, merge, failure and crash.                         *)
THEOREM LoopTypes == Spec => []TypeOK
<1>1. Init => TypeOK
  BY IdleTyped DEF Init, TypeOK
<1> QED BY <1>1, NextTyped, PTL DEF Spec

-----------------------------------------------------------------------------
(* Iterations.                                                             *)

(* No loop is beyond the limit, and one that regenerates is below it.      *)
IterationInv ==
    /\ loop.iteration \in 1..MaxIterations
    /\ loop.pc = "generate" => loop.iteration < MaxIterations
    /\ \A checkpoint \in {stored, cached} \ {NoCheckpoint} :
          checkpoint.next \in 1..MaxIterations

(* A checkpoint says at which iteration to resume.                         *)
LEMMA SaveKeepsIterations ==
    ASSUME IterationInv, NEW suite, NEW checks, NEW best,
           NEW next \in 1..MaxIterations,
           SaveCheckpoint(Checkpoint(suite, checks, next, best))
    PROVE  \A checkpoint \in {stored', cached'} \ {NoCheckpoint} :
              checkpoint.next \in 1..MaxIterations
  BY DEF IterationInv, SaveCheckpoint, Checkpoint

(* Evaluating checkpoints the iteration the loop is at.                    *)
LEMMA EvaluateKeepsIterations ==
    ASSUME IterationInv, NEW score, Evaluate(score)
    PROVE  \A checkpoint \in {stored', cached'} \ {NoCheckpoint} :
              checkpoint.next \in 1..MaxIterations
<1>1. loop.iteration \in 1..MaxIterations
  BY DEF IterationInv
<1> QED
  BY <1>1, SaveKeepsIterations DEF Evaluate, IterationInv

(* IterationInv is inductive.                                              *)
LEMMA NextKeepsIterations ==
    ASSUME TypeOK, IterationInv, [Next]_vars
    PROVE  IterationInv'
<1> USE MaxIterationsAssumption
<1>1. loop \in Loop
  BY DEF TypeOK
<1>2. ASSUME loop' = IdleLoop, stored' \in {stored, NoCheckpoint},
             cached' = cached
      PROVE  IterationInv'
  BY <1>2 DEF IterationInv, IdleLoop
<1>3. ASSUME NEW suite, NEW v, Begin(suite, v)
      PROVE  IterationInv'
  <2>1. ResumeState # NoCheckpoint => ResumeState.next \in 1..MaxIterations
    BY DEF ResumeState, IterationInv
  <2>2. loop'.iteration \in 1..MaxIterations /\ loop'.pc = "verified"
    BY <1>3, <2>1 DEF Begin, IdleLoop
  <2> QED BY <1>3, <2>2 DEF Begin, IterationInv
<1>4. CASE CheckpointVerification
  <2>1. loop'.iteration = loop.iteration /\ loop'.pc = "evaluate"
    BY <1>1, <1>4 DEF CheckpointVerification, Loop
  <2>2. loop.iteration \in 1..MaxIterations
    BY DEF IterationInv
  <2> QED
    BY <1>4, <2>1, <2>2, SaveKeepsIterations
    DEF CheckpointVerification, IterationInv
<1>5. ASSUME NEW score \in Score, StopLooping(score)
      PROVE  IterationInv'
  <2>1. loop'.iteration = loop.iteration /\ loop'.pc = "finish"
    BY <1>1, <1>5 DEF StopLooping, Loop
  <2> QED
    BY <1>5, <2>1, EvaluateKeepsIterations DEF StopLooping, IterationInv
<1>6. ASSUME NEW score \in Score, RequestRegeneration(score)
      PROVE  IterationInv'
  <2>1. loop'.iteration = loop.iteration
    BY <1>1, <1>6 DEF RequestRegeneration, Loop
  <2> QED
    BY <1>6, <2>1, EvaluateKeepsIterations DEF RequestRegeneration, IterationInv
<1>7. ASSUME NEW generated, GenerateBatch(generated)
      PROVE  IterationInv'
  <2>1. loop'.iteration = loop.iteration
    BY <1>1, <1>7 DEF GenerateBatch, Loop
  <2>2. loop.iteration + 1 \in 1..MaxIterations
    BY <1>7 DEF GenerateBatch, IterationInv
  <2>3. loop.iteration < MaxIterations
    BY <1>7 DEF GenerateBatch, IterationInv
  <2> QED
    BY <1>7, <2>1, <2>2, <2>3, SaveKeepsIterations DEF GenerateBatch, IterationInv
<1>8. CASE GenerateNothing
  BY <1>1, <1>8 DEF GenerateNothing, IterationInv, Loop
<1>9. CASE NoReplacements
  BY <1>1, <1>9 DEF NoReplacements, IterationInv, Loop
<1>10. CASE MergeReplacements
  <2>1. loop'.iteration = loop.iteration + 1 /\ loop'.pc = "verified"
    BY <1>1, <1>10 DEF MergeReplacements, Loop
  <2>2. loop.iteration + 1 \in 1..MaxIterations
    BY <1>10 DEF MergeReplacements, IterationInv
  <2>3. PICK suite : SaveCheckpoint(Checkpoint(suite, NoVerification,
                                     loop.iteration + 1, loop.best))
    BY <1>10 DEF MergeReplacements
  <2> QED
    BY <2>1, <2>2, <2>3, SaveKeepsIterations DEF IterationInv
<1>11. CASE Finish
  BY <1>2, <1>11 DEF Finish
<1>12. CASE Abort
  BY <1>2, <1>12 DEF Abort
<1>13. CASE ReplaceSuite
  BY <1>13 DEF ReplaceSuite, IterationInv
<1>14. CASE Expire
  BY <1>14 DEF Expire, IterationInv
<1>15. CASE UNCHANGED vars
  BY <1>15 DEF vars, IterationInv
<1> QED
  BY <1>3, <1>4, <1>5, <1>6, <1>7, <1>8, <1>9, <1>10, <1>11, <1>12, <1>13,
     <1>14, <1>15 DEF Next

(* Whatever checkpoint a call resumes from, written in any iteration and   *)
(* at any point of it, there is an iteration left to evaluate a suite in.  *)
THEOREM ResumedLoopEvaluates == Spec => []ResumeEvaluates
<1>1. Init => TypeOK /\ IterationInv
  BY IdleTyped, MaxIterationsAssumption
  DEF Init, TypeOK, IterationInv, IdleLoop
<1>2. TypeOK /\ IterationInv /\ [Next]_vars => TypeOK' /\ IterationInv'
  BY NextTyped, NextKeepsIterations
<1>3. IterationInv => ResumeEvaluates
  BY MaxIterationsAssumption DEF IterationInv, ResumeEvaluates
<1> QED BY <1>1, <1>2, <1>3, PTL DEF Spec

-----------------------------------------------------------------------------
(* Merging.                                                                *)

(* "verified" is the strongest a check can be.                             *)
LEMMA StrengthOfVerified ==
    ASSUME NEW check
    PROVE  /\ Strength(check) \in 0..2
           /\ Strength(check) = 2 <=> check.status = "verified"
  BY DEF Strength

(* The function a scan's selections are defined by, one step of it.        *)
SelectionStep(f, seen, clash, checks) ==
    IF seen = {} THEN {{}}
    ELSE UNION {UNION {Admit(selected, id, clash, checks) :
                         selected \in f[seen \ {id}]} :
                  id \in seen}

(* What a step of a scan that has seen some candidate can end with.        *)
LEMMA SelectionStepMember ==
    ASSUME NEW f, NEW seen, NEW clash, NEW checks, NEW x, seen # {}
    PROVE  x \in SelectionStep(f, seen, clash, checks) <=>
             \E id \in seen : \E selected \in f[seen \ {id}] :
                x \in Admit(selected, id, clash, checks)
  BY DEF SelectionStep

(* The scans of at most n of the candidates.                               *)
Small(ids, n) == {seen \in SUBSET ids : Cardinality(seen) <= n}

(* A set of natural numbers that has a member has a least one.             *)
LEMMA LeastNumber ==
    ASSUME NEW T \in SUBSET Nat, T # {}
    PROVE  \E n \in T : \A m \in T : n <= m
<1>1. PICK n \in T : \A m \in T : <<m, n>> \notin OpToRel(<, Nat)
  BY WFMin, NatLessThanWellFounded
<1>2. ASSUME NEW m \in T
      PROVE  n <= m
  <2>1. m \in Nat /\ n \in Nat
    OBVIOUS
  <2>2. ~(m < n)
    BY <1>1, <2>1 DEF OpToRel
  <2> QED BY <2>1, <2>2
<1> QED BY <1>2

(* Without the last candidate there is one candidate less.                 *)
LEMMA RemoveFrom ==
    ASSUME NEW ids, IsFiniteSet(ids), NEW seen \in SUBSET ids, NEW id \in seen
    PROVE  /\ Cardinality(seen) \in Nat
           /\ Cardinality(seen) # 0
           /\ seen \ {id} \in SUBSET ids
           /\ Cardinality(seen \ {id}) = Cardinality(seen) - 1
<1>1. IsFiniteSet(seen)
  BY FS_Subset
<1> QED
  BY <1>1, FS_RemoveElement, FS_CardinalityType, FS_EmptySet

(* The recursive definition of the scan has a solution: by the number of   *)
(* candidates, of which a least one without a solution does not exist.     *)
LEMMA SelectionsExist ==
    ASSUME NEW ids, IsFiniteSet(ids), NEW clash, NEW checks
    PROVE  \E f : f = [seen \in SUBSET ids |->
                         SelectionStep(f, seen, clash, checks)]
<1> DEFINE On(f, n) == f = [seen \in Small(ids, n) |->
                              SelectionStep(f, seen, clash, checks)]
           Missing == {n \in Nat : ~ \E f : On(f, n)}
<1>1. Missing = {}
  <2> SUFFICES ASSUME Missing # {} PROVE FALSE
    OBVIOUS
  <2>1. PICK n \in Missing : \A m \in Missing : n <= m
    BY LeastNumber
  <2>2. CASE n = 0
    <3> DEFINE f == [seen \in Small(ids, 0) |-> {{}}]
    <3>1. \A seen \in Small(ids, 0) : seen = {}
      BY FS_Subset, FS_CardinalityType, FS_EmptySet DEF Small
    <3>2. On(f, 0)
      BY <3>1 DEF SelectionStep
    <3> QED BY <2>1, <2>2, <3>2
  <2>3. CASE n # 0
    <3>1. PICK f : On(f, n - 1)
      <4>1. n - 1 \in Nat /\ n - 1 \notin Missing
        BY <2>1, <2>3
      <4> QED BY <4>1
    <3> DEFINE g == [seen \in Small(ids, n) |->
                       SelectionStep(f, seen, clash, checks)]
    <3>2. ASSUME NEW seen \in Small(ids, n)
          PROVE  SelectionStep(g, seen, clash, checks)
                   = SelectionStep(f, seen, clash, checks)
      <4>1. \A id \in seen : /\ seen \ {id} \in Small(ids, n - 1)
                             /\ seen \ {id} \in Small(ids, n)
        BY RemoveFrom, <2>1 DEF Small
      <4>2. \A id \in seen : g[seen \ {id}] = f[seen \ {id}]
        BY <3>1, <4>1
      <4> HIDE DEF g
      <4>3. ASSUME NEW x
            PROVE  x \in SelectionStep(g, seen, clash, checks) <=>
                     x \in SelectionStep(f, seen, clash, checks)
        <5>1. (\E id \in seen : \E selected \in g[seen \ {id}] :
                  x \in Admit(selected, id, clash, checks)) <=>
              (\E id \in seen : \E selected \in f[seen \ {id}] :
                  x \in Admit(selected, id, clash, checks))
          BY <4>2, Zenon
        <5>2. CASE seen = {}
          BY <5>2 DEF SelectionStep
        <5>3. CASE seen # {}
          BY <5>1, <5>3, SelectionStepMember, Zenon
        <5> QED BY <5>2, <5>3
      <4> QED BY <4>3, Zenon
    <3>3. On(g, n)
      <4>1. g = [seen \in Small(ids, n) |-> SelectionStep(g, seen, clash, checks)]
        BY <3>2
      <4> QED BY <4>1
    <3> QED BY <2>1, <3>3
  <2> QED BY <2>2, <2>3
<1>2. Cardinality(ids) \in Nat
  BY FS_CardinalityType
<1>3. Small(ids, Cardinality(ids)) = SUBSET ids
  BY FS_Subset, FS_CardinalityType DEF Small
<1>4. PICK f : On(f, Cardinality(ids))
  BY <1>1, <1>2
<1> QED BY <1>3, <1>4

(* f solves it.                                                            *)
SelectionsOf(f, ids, clash, checks) ==
    \A seen \in SUBSET ids : f[seen] = SelectionStep(f, seen, clash, checks)

(* Selected is what a solution says about all the candidates.              *)
LEMMA SelectedBySteps ==
    ASSUME NEW ids, IsFiniteSet(ids), NEW clash, NEW checks
    PROVE  \E f : /\ SelectionsOf(f, ids, clash, checks)
                  /\ Selected(ids, clash, checks) = f[ids]
<1> DEFINE f == CHOOSE f : f = [seen \in SUBSET ids |->
                      SelectionStep(f, seen, clash, checks)]
<1>1. f = [seen \in SUBSET ids |-> SelectionStep(f, seen, clash, checks)]
  BY SelectionsExist
<1>2. Selected(ids, clash, checks) = f[ids]
  BY DEF Selected, SelectionStep
<1> HIDE DEF f
<1>3. SelectionsOf(f, ids, clash, checks)
  BY <1>1 DEF SelectionsOf
<1> QED BY <1>2, <1>3


(* Every candidate seen has a selected one of its key, as strong.          *)
Covers(selected, seen, key, checks) ==
    /\ selected \subseteq seen
    /\ \A i \in seen : \E j \in selected :
          key[i] = key[j] /\ Strength(checks[j]) >= Strength(checks[i])

(* A step of a scan whose clashes are within a key keeps the keys covered. *)
LEMMA AdmitCovers ==
    ASSUME NEW seen, NEW id \in seen, NEW selected, NEW clash, NEW key,
           NEW checks,
           Covers(selected, seen \ {id}, key, checks),
           \A i \in seen : <<i, id>> \in clash => key[i] = key[id],
           NEW admitted \in Admit(selected, id, clash, checks)
    PROVE  Covers(admitted, seen, key, checks)
<1> DEFINE rivals == {other \in selected : <<other, id>> \in clash}
<1>1. CASE admitted = selected \cup {id}
  <2>1. admitted \subseteq seen
    BY <1>1 DEF Covers
  <2>2. ASSUME NEW i \in seen
        PROVE  \E j \in admitted : key[i] = key[j]
                  /\ Strength(checks[j]) >= Strength(checks[i])
    <3>1. CASE i = id
      BY <1>1, <3>1, StrengthOfVerified
    <3>2. CASE i # id
      BY <1>1, <3>2 DEF Covers
    <3> QED BY <3>1, <3>2
  <2> QED BY <2>1, <2>2 DEF Covers
<1>2. ASSUME NEW other \in rivals, admitted = selected,
             Strength(checks[other]) >= Strength(checks[id])
      PROVE  Covers(admitted, seen, key, checks)
  <2>1. admitted \subseteq seen /\ key[other] = key[id]
    BY <1>2 DEF Covers
  <2>2. ASSUME NEW i \in seen
        PROVE  \E j \in admitted : key[i] = key[j]
                  /\ Strength(checks[j]) >= Strength(checks[i])
    <3>1. CASE i = id
      BY <1>2, <2>1, <3>1
    <3>2. CASE i # id
      BY <1>2, <3>2 DEF Covers
    <3> QED BY <3>1, <3>2
  <2> QED BY <2>1, <2>2 DEF Covers
<1>3. ASSUME NEW other \in rivals, admitted = (selected \ {other}) \cup {id},
             Strength(checks[id]) >= Strength(checks[other])
      PROVE  Covers(admitted, seen, key, checks)
  <2>1. admitted \subseteq seen /\ key[other] = key[id]
    BY <1>3 DEF Covers
  <2>2. ASSUME NEW i \in seen
        PROVE  \E j \in admitted : key[i] = key[j]
                  /\ Strength(checks[j]) >= Strength(checks[i])
    <3>1. CASE i = id
      BY <1>3, <3>1, StrengthOfVerified
    <3>2. CASE i # id
      <4>1. PICK j \in selected : key[i] = key[j]
                  /\ Strength(checks[j]) >= Strength(checks[i])
        BY <3>2 DEF Covers
      <4>2. CASE j = other
        BY <1>3, <2>1, <4>1, <4>2, StrengthOfVerified
      <4>3. CASE j # other
        BY <1>3, <4>1, <4>3
      <4> QED BY <4>2, <4>3
    <3> QED BY <3>1, <3>2
  <2> QED BY <2>1, <2>2 DEF Covers
<1>4. \/ admitted = selected \cup {id}
      \/ \E other \in rivals : admitted = selected
            /\ Strength(checks[other]) >= Strength(checks[id])
      \/ \E other \in rivals : admitted = (selected \ {other}) \cup {id}
            /\ Strength(checks[id]) >= Strength(checks[other])
  BY DEF Admit
<1> QED BY <1>1, <1>2, <1>3, <1>4

(* And so the whole scan: there is no smallest set of candidates that a    *)
(* scan leaves uncovered.                                                  *)
LEMMA SelectedCovers ==
    ASSUME NEW ids, IsFiniteSet(ids), NEW clash, NEW key, NEW checks,
           \A i, j \in ids : <<i, j>> \in clash => key[i] = key[j],
           NEW chosen \in Selected(ids, clash, checks)
    PROVE  Covers(chosen, ids, key, checks)
<1>1. PICK f : /\ SelectionsOf(f, ids, clash, checks)
               /\ Selected(ids, clash, checks) = f[ids]
  BY SelectedBySteps
<1> DEFINE Uncovered == {seen \in SUBSET ids :
                           \E s \in f[seen] : ~Covers(s, seen, key, checks)}
           Sizes == {n \in Nat : \E seen \in Uncovered : Cardinality(seen) = n}
<1>2. Uncovered = {}
  <2> SUFFICES ASSUME Uncovered # {} PROVE FALSE
    OBVIOUS
  <2>1. Sizes # {}
    BY FS_Subset, FS_CardinalityType
  <2>2. PICK n \in Sizes : \A m \in Sizes : n <= m
    BY <2>1, LeastNumber
  <2>3. PICK seen \in Uncovered : Cardinality(seen) = n
    BY <2>2
  <2>4. PICK s \in f[seen] : ~Covers(s, seen, key, checks)
    BY <2>3
  <2>5. s \in SelectionStep(f, seen, clash, checks)
    BY <1>1, <2>3, <2>4 DEF SelectionsOf
  <2>6. seen # {}
    BY <2>4, <2>5 DEF SelectionStep, Covers
  <2>7. PICK id \in seen : \E selected \in f[seen \ {id}] :
                               s \in Admit(selected, id, clash, checks)
    BY <2>5, <2>6, SelectionStepMember, Zenon
  <2>9. PICK selected \in f[seen \ {id}] : s \in Admit(selected, id, clash, checks)
    BY <2>7
  <2>8. Covers(selected, seen \ {id}, key, checks)
    <3>1. seen \in SUBSET ids
      BY <2>3
    <3>2. /\ n \in Nat /\ n # 0
          /\ seen \ {id} \in SUBSET ids
          /\ Cardinality(seen \ {id}) = n - 1
      BY <2>3, <3>1, RemoveFrom
    <3>3. n - 1 \in Nat /\ n - 1 \notin Sizes
      BY <2>2, <3>2
    <3>4. seen \ {id} \notin Uncovered
      BY <3>2, <3>3
    <3> QED BY <2>9, <3>2, <3>4
  <2> QED
    BY <2>3, <2>4, <2>9, <2>8, AdmitCovers
<1> QED BY <1>1, <1>2

(* Ids of two suites that differ in letter case only share their scenario. *)
TwinsShare(suite, replacements) ==
    \A s, t \in {suite, replacements} :
       \A i \in DOMAIN s, j \in DOMAIN t :
          i # j /\ Folded[i] = Folded[j] => s[i].scenario = t[j].scenario

(* Whatever is merged into a suite, a scenario with a verified case keeps  *)
(* one.                                                                    *)
LEMMA MergedWithKeepsVerified ==
    ASSUME NEW suite \in Suite, NEW checks \in Verification,
           NEW replacements \in Suite, TwinsShare(suite, replacements),
           NEW newChecks, NEW new \in SUBSET DOMAIN replacements,
           \A i \in new : newChecks[i].duplicate = FALSE,
           NEW merged \in MergedWith(suite, checks, replacements, newChecks, new),
           NEW id \in (DOMAIN suite \cap DOMAIN checks) \ new,
           Supported(checks[id])
    PROVE  HasVerified(suite[id].scenario, merged.suite, merged.checks)
<1> DEFINE ids == (DOMAIN suite \cap DOMAIN checks) \cup new
           cases == [i \in ids |-> IF i \in new THEN replacements[i] ELSE suite[i]]
           results == [i \in ids |-> IF i \in new THEN newChecks[i]
                                    ELSE WithoutDuplicateFinding(checks[i])]
           Possible(S) == {i \in S : results[i].status # "unsupported"}
           key == [i \in ids |-> cases[i].scenario]
<1>1. IsFiniteSet(ids) /\ \A S \in SUBSET ids : IsFiniteSet(S)
  <2>1. ids \in SUBSET CaseIds
    BY PartialFunctionElim DEF Suite
  <2> QED BY <2>1, CaseIdsAssumption, FS_Subset
<1>2. PICK S \in Selected(ids, Alike(cases), results) :
        \E chosen \in Selected(Possible(S), Contradicting(cases), results) :
           merged = [suite |-> Only(cases, chosen), checks |-> Only(results, chosen)]
  BY Zenon DEF MergedWith
<1>3. PICK chosen \in Selected(Possible(S), Contradicting(cases), results) :
        merged = [suite |-> Only(cases, chosen), checks |-> Only(results, chosen)]
  BY <1>2
<1>4. DOMAIN cases = ids /\ DOMAIN results = ids
  OBVIOUS
<1>5. \A i, j \in ids : <<i, j>> \in Alike(cases) => key[i] = key[j]
  <2> SUFFICES ASSUME NEW i \in ids, NEW j \in ids, <<i, j>> \in Alike(cases)
               PROVE  cases[i].scenario = cases[j].scenario
    OBVIOUS
  <2>1. Folded[i] = Folded[j] \/ cases[i] = cases[j]
    BY DEF Alike
  <2>2. CASE Folded[i] = Folded[j] /\ i # j
    BY <2>2 DEF TwinsShare
  <2> QED BY <2>1, <2>2
<1>6. \A i, j \in ids : <<i, j>> \in Contradicting(cases) => key[i] = key[j]
  BY <1>4 DEF Contradicting
<1>7. \A i \in ids : results[i].duplicate = FALSE
  <2>1. \A i \in DOMAIN checks : checks[i] \in Check
    BY PartialFunctionElim DEF Verification
  <2>2. \A i \in DOMAIN checks : WithoutDuplicateFinding(checks[i]).duplicate = FALSE
    BY <2>1 DEF WithoutDuplicateFinding, Check
  <2> QED BY <2>2
<1>8. /\ id \in ids /\ cases[id] = suite[id] /\ results[id].status = "verified"
      /\ key[id] = suite[id].scenario
  <2>1. checks[id] \in Check
    BY PartialFunctionElim DEF Verification
  <2> QED BY <2>1 DEF Supported, WithoutDuplicateFinding, Check
<1>9. \A i \in ids : key[i] = cases[i].scenario
  OBVIOUS
<1> HIDE DEF ids, cases, results, key
<1>10. Covers(S, ids, key, results)
  BY <1>1, <1>5, SelectedCovers
<1>11. Possible(S) \subseteq ids /\ IsFiniteSet(Possible(S))
  BY <1>1, <1>10 DEF Covers
<1>12. Covers(chosen, Possible(S), key, results)
  <2> DEFINE P == Possible(S)
  <2> HIDE DEF P
  <2>1. /\ P \subseteq ids /\ IsFiniteSet(P)
        /\ chosen \in Selected(P, Contradicting(cases), results)
    BY <1>3, <1>11 DEF P
  <2>2. Covers(chosen, P, key, results)
    BY <1>6, <2>1, SelectedCovers
  <2> QED BY <2>2 DEF P
<1>13. PICK j \in S : key[id] = key[j]
                      /\ Strength(results[j]) >= Strength(results[id])
  BY <1>8, <1>10 DEF Covers
<1>14. results[j].status = "verified" /\ j \in Possible(S)
  BY <1>8, <1>13, StrengthOfVerified
<1>15. PICK kept \in chosen : key[j] = key[kept]
                              /\ Strength(results[kept]) >= Strength(results[j])
  BY <1>12, <1>14 DEF Covers
<1>16. results[kept].status = "verified" /\ kept \in ids
  BY <1>11, <1>12, <1>14, <1>15, StrengthOfVerified DEF Covers
<1>17. /\ kept \in DOMAIN Only(cases, chosen) \cap DOMAIN Only(results, chosen)
       /\ Only(cases, chosen)[kept] = cases[kept]
       /\ Only(results, chosen)[kept] = results[kept]
  BY <1>4, <1>15, <1>16 DEF Only
<1>18. cases[kept].scenario = suite[id].scenario
  BY <1>8, <1>9, <1>13, <1>15, <1>16
<1> QED
  BY <1>3, <1>7, <1>16, <1>17, <1>18 DEF HasVerified, Supported

(* Whatever the merge accepts of the replacements.                         *)
LEMMA MergedKeepsVerified ==
    ASSUME NEW suite \in Suite, NEW checks \in Verification,
           NEW replacements \in Suite, TwinsShare(suite, replacements),
           NEW newChecks \in WithoutDuplicateFindings(replacements),
           NEW updates \in SUBSET Weak(checks),
           NEW merged \in Merged(suite, checks, replacements, newChecks, updates),
           NEW scenario, HasVerified(scenario, suite, checks)
    PROVE  HasVerified(scenario, merged.suite, merged.checks)
<1>1. PICK id \in DOMAIN suite \cap DOMAIN checks :
        suite[id].scenario = scenario /\ Supported(checks[id])
  BY DEF HasVerified
<1>2. PICK new \in SUBSET DOMAIN newChecks :
        /\ merged \in MergedWith(suite, checks, replacements, newChecks, new)
        /\ \A i \in new : i \in updates \/ i \notin DOMAIN suite
  BY MergedCases
<1>3. id \notin new
  BY <1>1, <1>2 DEF Weak
<1>4. /\ DOMAIN newChecks = DOMAIN replacements
      /\ \A i \in DOMAIN newChecks : newChecks[i].duplicate = FALSE
  BY DEF WithoutDuplicateFindings
<1> QED BY <1>1, <1>2, <1>3, <1>4, MergedWithKeepsVerified

(* Regeneration is never destructive as long as ids that differ in letter  *)
(* case only are of one scenario: no merge of any loop takes the last      *)
(* verified case of a scenario away, however many cases there are and      *)
(* whichever of them clash.                                                *)
THEOREM RegenerationNotDestructive == Spec => MergeKeepsVerified
<1> DEFINE Kept ==
      loop.pc = "generate" /\ loop'.pc = "verified" /\ TwinsShareScenario
        => MergeKeeps
<1>1. ASSUME TypeOK, [Next]_vars
      PROVE  [Kept]_vars
  <2> SUFFICES ASSUME loop.pc = "generate", loop'.pc = "verified",
                      TwinsShareScenario,
                      NEW scenario \in Scenarios,
                      HasVerified(scenario, loop.suite, loop.checks)
               PROVE  HasVerified(scenario, loop'.suite, loop'.checks)
    BY DEF MergeKeeps
  <2>1. loop \in Loop
    BY <1>1 DEF TypeOK
  <2>2. ASSUME NEW suite, NEW v
        PROVE  ~Begin(suite, v)
    BY DEF Begin
  <2>3. ~CheckpointVerification /\ ~NoReplacements
    BY <2>1 DEF CheckpointVerification, NoReplacements, Loop
  <2>4. ASSUME NEW score
        PROVE  ~StopLooping(score) /\ ~RequestRegeneration(score)
    BY DEF StopLooping, RequestRegeneration
  <2>5. ASSUME NEW generated
        PROVE  ~GenerateBatch(generated)
    BY <2>1 DEF GenerateBatch, Loop
  <2>6. ~GenerateNothing
    BY <2>1 DEF GenerateNothing, Loop
  <2>7. ~Finish /\ ~Abort
    BY DEF Finish, Abort, IdleLoop
  <2>8. ~ReplaceSuite /\ ~Expire /\ ~UNCHANGED vars
    BY DEF ReplaceSuite, Expire, vars
  <2>9. MergeReplacements
    BY <1>1, <2>2, <2>3, <2>4, <2>5, <2>6, <2>7, <2>8 DEF Next
  <2>10. PICK newChecks \in WithoutDuplicateFindings(loop.fresh),
              updates \in SUBSET Weak(loop.checks) :
           \E merged \in Merged(loop.suite, loop.checks, loop.fresh, newChecks,
                                updates) :
             /\ loop' = [loop EXCEPT !.pc = "verified",
                                     !.suite = merged.suite,
                                     !.checks = merged.checks,
                                     !.iteration = @ + 1,
                                     !.fresh = Empty]
             /\ SaveCheckpoint(Checkpoint(merged.suite, NoVerification,
                                          loop.iteration + 1, loop.best))
    BY <2>9 DEF MergeReplacements
  <2>11. PICK merged \in Merged(loop.suite, loop.checks, loop.fresh, newChecks,
                                updates) :
            loop' = [loop EXCEPT !.pc = "verified",
                                 !.suite = merged.suite,
                                 !.checks = merged.checks,
                                 !.iteration = @ + 1,
                                 !.fresh = Empty]
    BY <2>10
  <2>12. loop'.suite = merged.suite /\ loop'.checks = merged.checks
    BY <2>1, <2>11 DEF Loop
  <2>13. /\ loop.suite \in Suite /\ loop.checks \in Verification
         /\ loop.fresh \in Suite /\ TwinsShare(loop.suite, loop.fresh)
    BY <2>1 DEF Loop, TwinsShare, TwinsShareScenario
  <2>14. HasVerified(scenario, merged.suite, merged.checks)
    BY <2>13, MergedKeepsVerified
  <2> QED BY <2>12, <2>14
<1>2. Init => TypeOK
  BY IdleTyped DEF Init, TypeOK
<1>3. TypeOK /\ [Next]_vars => TypeOK'
  BY NextTyped
<1> QED BY <1>1, <1>2, <1>3, PTL DEF Spec, MergeKeepsVerified

-----------------------------------------------------------------------------
(* The refinement of BestSuite.                                            *)

(* What the loop holds as its best is what the row's checkpoint holds,     *)
(* from the first checkpoint of the call on.                               *)
BestInv ==
    /\ loop.pc = "verified" => stored = NoCheckpoint \/ stored.best = loop.best
    /\ loop.pc \in {"evaluate", "generate", "finish"} =>
          stored # NoCheckpoint /\ stored.best = loop.best
    /\ loop.pc \in {"generate", "finish"} => loop.best.score \in Score

(* What a saved checkpoint does to the row's.                              *)
LEMMA SaveStoresBest ==
    ASSUME NEW suite \in Suite, NEW checks \in Verification \cup {NoVerification},
           NEW next \in Nat, NEW best \in Best,
           SaveCheckpoint(Checkpoint(suite, checks, next, best))
    PROVE  stored' # NoCheckpoint /\ stored'.best = best
<1>1. stored' = Checkpoint(suite, checks, next, best)
  BY DEF SaveCheckpoint
<1>2. Checkpoint(suite, checks, next, best) \in CheckpointRecord
  BY CheckpointTyped
<1>3. Checkpoint(suite, checks, next, best).best = best
  BY DEF Checkpoint
<1> QED BY <1>1, <1>2, <1>3, NoCheckpointAssumption

(* A step that leaves the row's best and the outcome alone is a stutter.   *)
LEMMA SameBestStutters ==
    ASSUME stored # NoCheckpoint, stored' # NoCheckpoint,
           stored'.best = stored.best, UNCHANGED outcome
    PROVE  UNCHANGED Promise!bestVars
  BY DEF KeptScore, DeliveredScore, Promise!bestVars

(* Evaluating keeps the best, or keeps a better one.                       *)
LEMMA EvaluateKeepsBest ==
    ASSUME TypeOK, BestInv, NEW score \in Score, loop.pc = "evaluate",
           Evaluate(score), UNCHANGED outcome
    PROVE  /\ [Promise!Next]_(Promise!bestVars)
           /\ stored' # NoCheckpoint /\ stored'.best = BestAfter(score)
           /\ BestAfter(score).score \in Score
<1>1. /\ loop.suite \in Suite /\ loop.checks \in Verification
      /\ loop.iteration \in Nat /\ loop.best \in Best
  BY DEF TypeOK, Loop
<1>2. stored # NoCheckpoint /\ stored.best = loop.best
  BY DEF BestInv
<1>3. /\ BestAfter(score) \in Best /\ BestAfter(score).score \in Score
      /\ \/ BestAfter(score) = loop.best
         \/ BestAfter(score).score > loop.best.score
  BY BestAfterTyped DEF TypeOK
<1>4. CASE BestAfter(score) = loop.best
  <2>1. stored' = stored
    BY <1>4 DEF Evaluate
  <2> QED BY <1>2, <1>3, <1>4, <2>1, SameBestStutters
<1>5. CASE BestAfter(score) # loop.best
  <2>1. stored' # NoCheckpoint /\ stored'.best = BestAfter(score)
    BY <1>1, <1>3, <1>5, SaveStoresBest DEF Evaluate
  <2>2. KeptScore' = BestAfter(score).score /\ KeptScore = loop.best.score
    BY <1>2, <2>1 DEF KeptScore
  <2>3. DeliveredScore' = DeliveredScore
    BY DEF DeliveredScore
  <2>4. BestAfter(score).score \in Nat
    BY <1>3, MaxScoreAssumption DEF Score
  <2>5. Promise!Keep
    BY <1>3, <1>5, <2>2, <2>3, <2>4 DEF Promise!Keep
  <2> QED BY <1>3, <2>1, <2>5 DEF Promise!Next
<1> QED BY <1>4, <1>5

(* Every step keeps BestInv and is a step of BestSuite, or a stutter.      *)
LEMMA NextKeepsBest ==
    ASSUME TypeOK, BestInv, [Next]_vars
    PROVE  BestInv' /\ [Promise!Next]_(Promise!bestVars)
<1> DEFINE Refines == [Promise!Next]_(Promise!bestVars)
<1>1. /\ loop \in Loop /\ loop.suite \in Suite /\ loop.checks \in Verification
      /\ loop.iteration \in Nat /\ loop.best \in Best /\ loop.fresh \in Suite
  BY DEF TypeOK, Loop
<1>0. /\ loop.iteration + 1 \in Nat
      /\ NoVerification \in Verification \cup {NoVerification}
  BY <1>1
<1>2. ASSUME UNCHANGED <<stored, outcome>>
      PROVE  Refines
  BY <1>2 DEF KeptScore, DeliveredScore, Promise!bestVars
<1>3. ASSUME NEW suite, NEW v, Begin(suite, v)
      PROVE  BestInv' /\ Refines
  <2>1. loop'.pc = "verified"
    BY <1>3 DEF Begin, IdleLoop
  <2>2. stored # NoCheckpoint => loop'.best = stored.best
    BY <1>3 DEF Begin, ResumeState, IdleLoop
  <2> QED BY <1>2, <1>3, <2>1, <2>2 DEF Begin, BestInv
<1>4. CASE CheckpointVerification
  <2>1. stored' # NoCheckpoint /\ stored'.best = loop.best
    BY <1>1, <1>4, SaveStoresBest DEF CheckpointVerification
  <2>2. loop'.pc = "evaluate" /\ loop'.best = loop.best
    BY <1>1, <1>4 DEF CheckpointVerification, Loop
  <2>3. BestInv'
    BY <2>1, <2>2 DEF BestInv
  <2>4. CASE stored = NoCheckpoint
    <3>1. KeptScore = NoCheckpoint /\ KeptScore' = loop.best.score
      BY <2>1, <2>4 DEF KeptScore
    <3>2. DeliveredScore' = DeliveredScore
      BY <1>4 DEF CheckpointVerification, DeliveredScore
    <3>3. loop.best.score \in Nat \cup {Promise!Nowhere}
      BY <1>1, MaxScoreAssumption DEF Best, Score, Promise!Nowhere
    <3>4. Promise!Keep
      BY <3>1, <3>2, <3>3 DEF Promise!Keep
    <3> QED BY <2>3, <3>4 DEF Promise!Next
  <2>5. CASE stored # NoCheckpoint
    <3>1. stored.best = loop.best
      BY <1>4, <2>5 DEF CheckpointVerification, BestInv
    <3> QED
      BY <1>4, <2>1, <2>3, <2>5, <3>1, SameBestStutters
      DEF CheckpointVerification
  <2> QED BY <2>4, <2>5
<1>5. ASSUME NEW score \in Score, StopLooping(score)
      PROVE  BestInv' /\ Refines
  <2>1. loop'.pc = "finish" /\ loop'.best = BestAfter(score)
    BY <1>1, <1>5 DEF StopLooping, Loop
  <2> QED BY <1>5, <2>1, EvaluateKeepsBest DEF StopLooping, BestInv
<1>6. ASSUME NEW score \in Score, RequestRegeneration(score)
      PROVE  BestInv' /\ Refines
  <2>1. loop'.pc = "generate" /\ loop'.best = BestAfter(score)
    BY <1>1, <1>6 DEF RequestRegeneration, Loop
  <2> QED BY <1>6, <2>1, EvaluateKeepsBest DEF RequestRegeneration, BestInv
<1>7. ASSUME NEW generated \in GeneratedSuites, GenerateBatch(generated)
      PROVE  BestInv' /\ Refines
  <2> DEFINE fresh == Deduplicated(loop.fresh, generated)
             suite == Deduplicated(loop.suite, fresh)
  <2>1. suite \in Suite
    BY <1>1, DeduplicatedTyped DEF GeneratedSuites
  <2>2. /\ SaveCheckpoint(Checkpoint(suite, NoVerification, loop.iteration + 1,
                                     loop.best))
        /\ UNCHANGED outcome
    BY <1>7 DEF GenerateBatch
  <2>3. loop'.pc = "generate" /\ loop'.best = loop.best
    BY <1>1, <1>7 DEF GenerateBatch, Loop
  <2> HIDE DEF suite
  <2>4. stored' # NoCheckpoint /\ stored'.best = loop.best
    BY <1>1, <1>0, <2>1, <2>2, SaveStoresBest
  <2>5. /\ stored # NoCheckpoint /\ stored.best = loop.best
        /\ loop.best.score \in Score
    BY <1>7 DEF GenerateBatch, BestInv
  <2> QED BY <2>2, <2>3, <2>4, <2>5, SameBestStutters DEF BestInv
<1>8. CASE GenerateNothing
  <2>1. loop'.pc = "generate" /\ loop'.best = loop.best
    BY <1>1, <1>8 DEF GenerateNothing, Loop
  <2> QED BY <1>2, <1>8, <2>1 DEF GenerateNothing, BestInv
<1>9. CASE NoReplacements
  <2>1. loop'.pc = "finish" /\ loop'.best = loop.best
    BY <1>1, <1>9 DEF NoReplacements, Loop
  <2> QED BY <1>2, <1>9, <2>1 DEF NoReplacements, BestInv
<1>10. CASE MergeReplacements
  <2>1. PICK newChecks \in WithoutDuplicateFindings(loop.fresh),
             updates \in SUBSET Weak(loop.checks) :
          \E merged \in Merged(loop.suite, loop.checks, loop.fresh, newChecks,
                               updates) :
            /\ loop' = [loop EXCEPT !.pc = "verified",
                                    !.suite = merged.suite,
                                    !.checks = merged.checks,
                                    !.iteration = @ + 1,
                                    !.fresh = Empty]
            /\ SaveCheckpoint(Checkpoint(merged.suite, NoVerification,
                                         loop.iteration + 1, loop.best))
    BY <1>10 DEF MergeReplacements
  <2>2. PICK merged \in Merged(loop.suite, loop.checks, loop.fresh, newChecks,
                               updates) :
            /\ loop' = [loop EXCEPT !.pc = "verified",
                                    !.suite = merged.suite,
                                    !.checks = merged.checks,
                                    !.iteration = @ + 1,
                                    !.fresh = Empty]
            /\ SaveCheckpoint(Checkpoint(merged.suite, NoVerification,
                                         loop.iteration + 1, loop.best))
    BY <2>1
  <2>3. newChecks \in Verification /\ DOMAIN newChecks = DOMAIN loop.fresh
    BY <1>1, JudgementsTyped
  <2>4. merged.suite \in Suite
    BY <1>1, <2>2, <2>3, MergedTyped
  <2>5. loop'.pc = "verified" /\ loop'.best = loop.best
    BY <1>1, <2>2 DEF Loop
  <2> DEFINE suite == merged.suite
  <2>6. SaveCheckpoint(Checkpoint(suite, NoVerification, loop.iteration + 1,
                                  loop.best))
    BY <2>2
  <2> HIDE DEF suite
  <2>7. suite \in Suite
    BY <2>4 DEF suite
  <2>8. stored' # NoCheckpoint /\ stored'.best = loop.best
    BY <1>1, <1>0, <2>6, <2>7, SaveStoresBest
  <2>9. stored # NoCheckpoint /\ stored.best = loop.best
    BY <1>10 DEF MergeReplacements, BestInv
  <2> QED
    BY <1>10, <2>5, <2>8, <2>9, SameBestStutters DEF MergeReplacements, BestInv
<1>11. CASE Finish
  <2>1. BestInv'
    BY <1>11 DEF Finish, BestInv, IdleLoop
  <2>2. /\ stored # NoCheckpoint /\ stored.best = loop.best
        /\ loop.best.score \in Score
    BY <1>11 DEF Finish, BestInv
  <2>3. outcome'.score = loop.best.score
    BY <1>1, <1>11, FinalSuitesTyped DEF Finish
  <2>4. outcome' # NoBest
    BY <2>2, <2>3 DEF NoBest, Score
  <2>5. DeliveredScore' = loop.best.score /\ KeptScore = loop.best.score
    BY <2>2, <2>3, <2>4 DEF DeliveredScore, KeptScore
  <2>6. loop.best.score \in Nat /\ loop.best.score # NoCheckpoint
    BY <2>2, MaxScoreAssumption, NoCheckpointAssumption DEF Score
  <2>7. KeptScore' \in {KeptScore, NoCheckpoint}
    BY <1>11 DEF Finish, KeptScore
  <2>8. Promise!Deliver
    BY <2>5, <2>6, <2>7 DEF Promise!Deliver
  <2> QED BY <2>1, <2>8 DEF Promise!Next
<1>12. CASE Abort
  BY <1>2, <1>12 DEF Abort, BestInv, IdleLoop
<1>13. CASE ReplaceSuite
  <2>1. Promise!Discard
    BY <1>13 DEF ReplaceSuite, Promise!Discard, KeptScore, DeliveredScore
  <2> QED BY <1>13, <2>1 DEF ReplaceSuite, BestInv, Promise!Next
<1>14. CASE Expire
  BY <1>2, <1>14 DEF Expire, BestInv
<1>15. CASE UNCHANGED vars
  BY <1>2, <1>15 DEF vars, BestInv
<1> QED
  BY <1>3, <1>4, <1>5, <1>6, <1>7, <1>8, <1>9, <1>10, <1>11, <1>12, <1>13,
     <1>14, <1>15 DEF Next

(* The loop implements BestSuite: no failure, crash, resume or worse       *)
(* regenerated suite makes the row's best score fall, and what is          *)
(* delivered is the best.                                                  *)
THEOREM LoopImplementsBestSuite == Spec => BestNeverLost
<1>1. Init => TypeOK /\ BestInv /\ Promise!Init
  BY IdleTyped
  DEF Init, TypeOK, BestInv, IdleLoop, Promise!Init, KeptScore, DeliveredScore
<1>2. TypeOK /\ BestInv /\ [Next]_vars =>
        TypeOK' /\ BestInv' /\ [Promise!Next]_(Promise!bestVars)
  BY NextTyped, NextKeepsBest
<1> QED BY <1>1, <1>2, PTL DEF Spec, BestNeverLost, Promise!Spec

--------------------------------------------------------------------------------
(* Security scan runs.                                                     *)

(* Every step but a request's own leaves a worker's request alone.         *)
Others(w) == \A v \in Workers \ {w} : req'[v] = req[v]

(* The rows fit their bound together with those requests may still add.    *)
RoomInv == Len(runs) + Cardinality(Admitting) <= MaxRuns

(* The types, which need the room: a new row must have an id.              *)
TypeInv == ScanTypeOK /\ RoomInv

-----------------------------------------------------------------------------
(* The set of requests that may still add a row, as a request comes, stays *)
(* and goes.                                                               *)
LEMMA AdmittingFinite == IsFiniteSet(Admitting) /\ Cardinality(Admitting) \in Nat
<1>1. Admitting \in SUBSET Workers
  BY DEF Admitting
<1>2. IsFiniteSet(Admitting)
  BY <1>1, WorkersAssumption, FS_Subset
<1> QED BY <1>2, FS_CardinalityType

LEMMA AdmittingJoins ==
    ASSUME NEW w \in Workers, Others(w), req'[w].pc = "look"
    PROVE  /\ Cardinality(Admitting') \in Nat
           /\ Cardinality(Admitting') <= Cardinality(Admitting) + 1
<1>1. Admitting' = Admitting \cup {w}
  BY DEF Admitting, Others
<1>2. Cardinality(Admitting \cup {w}) =
         IF w \in Admitting THEN Cardinality(Admitting) ELSE Cardinality(Admitting) + 1
  BY AdmittingFinite, FS_AddElement
<1> QED BY <1>1, <1>2, AdmittingFinite

LEMMA AdmittingStays ==
    ASSUME NEW w \in Workers, Others(w), w \in Admitting, req'[w].pc = "admit"
    PROVE  Admitting' = Admitting
  BY DEF Admitting, Others

LEMMA AdmittingLeaves ==
    ASSUME NEW w \in Workers, Others(w), req'[w].pc \notin {"look", "admit"}
    PROVE  /\ Cardinality(Admitting') \in Nat
           /\ Cardinality(Admitting') <= Cardinality(Admitting)
           /\ w \in Admitting =>
                 /\ Cardinality(Admitting') = Cardinality(Admitting) - 1
                 /\ Cardinality(Admitting) >= 1
<1>1. Admitting' = Admitting \ {w}
  BY DEF Admitting, Others
<1>2. Cardinality(Admitting \ {w}) =
         IF w \in Admitting THEN Cardinality(Admitting) - 1 ELSE Cardinality(Admitting)
  BY AdmittingFinite, FS_RemoveElement
<1>3. Cardinality(Admitting \ {w}) \in Nat
  BY AdmittingFinite, FS_RemoveElement, FS_CardinalityType
<1> QED BY <1>1, <1>2, <1>3, AdmittingFinite

(* What the database or the session answers is a view of some row.         *)
LEMMA LatestType ==
    ASSUME ScanTypeOK, NEW seen \in Seen
    PROVE  Latest(seen) \in Seen
  BY DEF ScanTypeOK, Latest, Seen, RunId, ScanStatus, NothingSeen

(* Locks that are given up leave a lock table.                             *)
LEMMA ReleasedType ==
    ASSUME ScanTypeOK, NEW w
    PROVE  Released(w) \in [RunId -> Workers \cup {Nobody}]
  BY DEF ScanTypeOK, Released

(* A status written to a row keeps the rows.                               *)
LEMMA RowWritten ==
    ASSUME ScanTypeOK, NEW r, NEW s \in ScanStatus
    PROVE  /\ [runs EXCEPT ![r] = s] \in Seq(ScanStatus)
           /\ Len([runs EXCEPT ![r] = s]) = Len(runs)
           /\ DOMAIN [runs EXCEPT ![r] = s] = DOMAIN runs
<1> DEFINE written == [runs EXCEPT ![r] = s]
<1>1. runs \in [1..Len(runs) -> ScanStatus] /\ Len(runs) \in Nat
  BY DEF ScanTypeOK
<1>2. written \in [1..Len(runs) -> ScanStatus]
  BY <1>1
<1>3. written \in Seq(ScanStatus) /\ Len(written) = Len(runs)
  BY <1>1, <1>2
<1> QED BY <1>1, <1>2, <1>3

-----------------------------------------------------------------------------
(* Type correctness.                                                       *)

LEMMA TypeInit == ScanInit => TypeInv
<1> SUFFICES ASSUME ScanInit PROVE TypeInv
  OBVIOUS
<1>1. Admitting = {}
  BY DEF ScanInit, IdleRequest, Admitting
<1>2. Cardinality(Admitting) = 0
  BY <1>1, FS_EmptySet
<1>3. ScanTypeOK
  BY MaxRunsAssumption DEF ScanInit, ScanTypeOK, IdleRequest, Request, ScanPc, Seen, NothingSeen, ScanStatus
<1> QED BY <1>2, <1>3, MaxRunsAssumption DEF TypeInv, RoomInv, ScanInit

(* A request that comes finds room for the row it may add.                 *)
LEMMA EnterKeepsTypes ==
    ASSUME TypeInv, NEW w \in Workers, Room, req[w].pc = "idle",
           NEW resume \in BOOLEAN, NEW seen \in Seen,
           Enter(w, resume, seen), runs' = runs,
           lock' \in [RunId -> Workers \cup {Nobody}]
    PROVE  TypeInv'
<1>1. req' \in [Workers -> Request] /\ Others(w) /\ req'[w].pc = "look"
  BY DEF TypeInv, ScanTypeOK, Enter, Request, ScanPc, Others
<1>2. ScanTypeOK'
  BY <1>1 DEF TypeInv, ScanTypeOK
<1>3. /\ Cardinality(Admitting') \in Nat
      /\ Cardinality(Admitting') <= Cardinality(Admitting) + 1
  BY <1>1, AdmittingJoins
<1>4. RoomInv'
  BY <1>3, AdmittingFinite, MaxRunsAssumption DEF TypeInv, ScanTypeOK, Room, RoomInv
<1> QED BY <1>2, <1>4 DEF TypeInv

(* A request that ends or starts a scan has used up its room.              *)
LEMMA EndKeepsTypes ==
    ASSUME TypeInv, NEW w \in Workers, Others(w), req' \in [Workers -> Request],
           req'[w].pc \notin {"look", "admit"},
           runs' \in Seq(ScanStatus), Len(runs') = Len(runs),
           lock' \in [RunId -> Workers \cup {Nobody}]
    PROVE  TypeInv'
<1>1. ScanTypeOK'
  BY DEF TypeInv, ScanTypeOK
<1>2. /\ Cardinality(Admitting') \in Nat
      /\ Cardinality(Admitting') <= Cardinality(Admitting)
  BY AdmittingLeaves
<1>3. RoomInv'
  BY <1>2, AdmittingFinite, MaxRunsAssumption DEF TypeInv, ScanTypeOK, RoomInv
<1> QED BY <1>1, <1>3 DEF TypeInv

(* Every step keeps the types and the room.                                *)
LEMMA TypeStep == TypeInv /\ [ScanNext]_scanVars => TypeInv'
<1> SUFFICES ASSUME TypeInv, [ScanNext]_scanVars PROVE TypeInv'
  OBVIOUS
<1> USE DEF TypeInv
<1>1. CASE UNCHANGED scanVars
  BY <1>1 DEF scanVars, ScanTypeOK, RoomInv, Admitting
<1>2. ASSUME NEW w \in Workers, Scan(w) PROVE TypeInv'
  <2>1. NothingSeen \in Seen
    BY DEF NothingSeen, Seen, ScanStatus
  <2> QED BY <1>2, <2>1, EnterKeepsTypes DEF Scan, ScanTypeOK
<1>3. ASSUME NEW w \in Workers, Resume(w) PROVE TypeInv'
  <2>1. Latest(NothingSeen) \in Seen
    BY LatestType DEF NothingSeen, Seen, ScanStatus
  <2> QED BY <1>3, <2>1, EnterKeepsTypes DEF Resume, ScanTypeOK
<1>4. ASSUME NEW w \in Workers, NEW r \in DOMAIN runs, Retry(w, r) PROVE TypeInv'
  <2>1. [id |-> r, status |-> runs[r]] \in Seen
    <3>1. r \in 1..Len(runs) /\ runs[r] \in ScanStatus
      BY DEF ScanTypeOK
    <3>2. r \in RunId
      BY <3>1, MaxRunsAssumption DEF ScanTypeOK, RunId
    <3> QED BY <3>1, <3>2 DEF Seen
  <2>2. lock' \in [RunId -> Workers \cup {Nobody}]
    BY <1>4 DEF Retry, ScanTypeOK
  <2> QED BY <1>4, <2>1, <2>2, EnterKeepsTypes DEF Retry
<1>5. ASSUME NEW w \in Workers, Leave(w), runs' \in Seq(ScanStatus),
             Len(runs') = Len(runs)
      PROVE  TypeInv'
  <2>1. /\ req' \in [Workers -> Request] /\ Others(w)
        /\ req'[w].pc \notin {"look", "admit"}
    BY <1>5 DEF Leave, ScanTypeOK, IdleRequest, NothingSeen, Request, ScanPc, Seen, ScanStatus, Others
  <2> QED BY <1>5, <2>1, ReleasedType, EndKeepsTypes DEF Leave
<1>6. ASSUME NEW w \in Workers, NEW r \in RunId, Execute(w, r)
      PROVE  /\ req' \in [Workers -> Request] /\ Others(w)
             /\ req'[w].pc \notin {"look", "admit"}
  BY <1>6 DEF Execute, ScanTypeOK, Request, ScanPc, Seen, ScanStatus, Others
<1>7. ASSUME NEW w \in Workers, Look(w) PROVE TypeInv'
  <2>1. CASE Latest(req[w].seen).status = "completed"
    BY <1>7, <2>1, <1>5 DEF Look, ScanTypeOK
  <2>2. CASE Latest(req[w].seen).status # "completed"
    <3>1. Latest(req[w].seen) \in Seen
      BY LatestType DEF ScanTypeOK, Request
    <3>2. /\ req' = [req EXCEPT ![w].pc = "admit", ![w].seen = Latest(req[w].seen)]
          /\ UNCHANGED <<runs, lock>> /\ req[w].pc = "look"
      BY <1>7, <2>2 DEF Look
    <3>3. req' \in [Workers -> Request]
      BY <3>1, <3>2 DEF ScanTypeOK, Request, ScanPc
    <3>4. Others(w) /\ w \in Admitting /\ req'[w].pc = "admit"
      BY <3>2 DEF ScanTypeOK, Others, Admitting
    <3>5. Admitting' = Admitting
      BY <3>4, AdmittingStays
    <3> QED BY <3>2, <3>3, <3>5 DEF ScanTypeOK, RoomInv
  <2> QED BY <2>1, <2>2
<1>8. ASSUME NEW w \in Workers, PrepareRetry(w) PROVE TypeInv'
  <2>1. req[w].seen.id \in RunId
    BY <1>8 DEF PrepareRetry, Reopens, ScanTypeOK, Request, Seen
  <2>2. runs' \in Seq(ScanStatus) /\ Len(runs') = Len(runs)
    BY <1>8, RowWritten DEF PrepareRetry, ScanStatus
  <2> QED BY <1>8, <2>1, <2>2, <1>6, ReleasedType, EndKeepsTypes DEF PrepareRetry
<1>9. ASSUME NEW w \in Workers, RetryRefused(w) PROVE TypeInv'
  BY <1>9, <1>5 DEF RetryRefused, ScanTypeOK
<1>10. ASSUME NEW w \in Workers, Create(w) PROVE TypeInv'
  <2>1. Len(runs) + 1 \in RunId /\ w \in Admitting
    <3>1. w \in Admitting
      BY <1>10 DEF Create, Admitting
    <3>2. Cardinality(Admitting) >= 1
      <4>1. Cardinality(Admitting \ {w}) = Cardinality(Admitting) - 1
        BY <3>1, AdmittingFinite, FS_RemoveElement
      <4>2. Cardinality(Admitting \ {w}) \in Nat
        BY AdmittingFinite, FS_RemoveElement, FS_CardinalityType
      <4> QED BY <4>1, <4>2, AdmittingFinite
    <3> QED BY <3>1, <3>2, AdmittingFinite, MaxRunsAssumption DEF ScanTypeOK, RoomInv, RunId
  <2>2. /\ req' \in [Workers -> Request] /\ Others(w)
        /\ req'[w].pc \notin {"look", "admit"}
    BY <1>10, <2>1, <1>6 DEF Create
  <2>3. runs' \in Seq(ScanStatus) /\ Len(runs') = Len(runs) + 1
    BY <1>10 DEF Create, ScanTypeOK, ScanStatus
  <2>4. /\ Cardinality(Admitting') \in Nat
        /\ Cardinality(Admitting') = Cardinality(Admitting) - 1
    BY <2>1, <2>2, AdmittingLeaves
  <2>5. ScanTypeOK'
    BY <1>10, <2>1, <2>2, <2>3, ReleasedType, MaxRunsAssumption DEF Create, ScanTypeOK, RunId
  <2>6. RoomInv'
    BY <2>3, <2>4, AdmittingFinite, MaxRunsAssumption DEF ScanTypeOK, RoomInv
  <2> QED BY <2>5, <2>6
<1>11. ASSUME NEW w \in Workers, ReuseConcurrent(w) PROVE TypeInv'
  BY <1>11, <1>5 DEF ReuseConcurrent, ScanTypeOK
<1>12. ASSUME NEW w \in Workers, Complete(w) \/ Fail(w) PROVE TypeInv'
  <2>1. runs' \in Seq(ScanStatus) /\ Len(runs') = Len(runs)
    BY <1>12, RowWritten DEF Complete, Fail, ScanStatus
  <2> QED BY <1>12, <2>1, <1>5 DEF Complete, Fail
<1>13. ASSUME NEW w \in Workers, Die(w) PROVE TypeInv'
  <2>1. /\ req' \in [Workers -> Request] /\ Others(w)
        /\ req'[w].pc \notin {"look", "admit"}
    BY <1>13 DEF Die, ScanTypeOK, NothingSeen, Request, ScanPc, Seen, ScanStatus, Others
  <2> QED BY <1>13, <2>1, ReleasedType, EndKeepsTypes DEF Die, ScanTypeOK
<1> QED BY <1>1, <1>2, <1>3, <1>4, <1>7, <1>8, <1>9, <1>10, <1>11, <1>12, <1>13
       DEF ScanNext, Progress

(* Rows, locks and requests keep their types, and the rows their bound.    *)
THEOREM ScanTypes == ScanSpec => []ScanTypeOK
<1>1. ScanSpec => []TypeInv
  BY TypeInit, TypeStep, PTL DEF ScanSpec
<1> QED BY <1>1, PTL DEF TypeInv

-----------------------------------------------------------------------------
(* Running rows and locked rows.                                           *)

(* The locks are on rows there are, and their holder found them failed.    *)
LockedFailed ==
    \A r \in RunId : lock[r] # Nobody => r \in DOMAIN runs /\ runs[r] = "failed"

ScanInv == ScanTypeOK /\ RunningHasScanner /\ LockedFailed

(* A request that scans nothing and goes on to scan nothing disturbs no    *)
(* running row.                                                            *)
LEMMA BystanderKeepsScanners ==
    ASSUME RunningHasScanner, NEW w \in Workers, Others(w), runs' = runs,
           req[w].pc \notin {"scan", "dead"}
    PROVE  RunningHasScanner'
  BY DEF RunningHasScanner, Running, Others

(* The end of a scan takes its row out of "running", and only that row     *)
(* could lose its scanner.                                                 *)
LEMMA EndedScanKeepsScanners ==
    ASSUME ScanTypeOK, RunningHasScanner, NEW w \in Workers, Others(w), req[w].pc = "scan",
           NEW s \in {"completed", "failed"}, runs' = [runs EXCEPT ![req[w].seen.id] = s]
    PROVE  RunningHasScanner'
<1> SUFFICES ASSUME NEW r \in DOMAIN runs', runs'[r] = "running"
             PROVE  \E v \in Workers :
                      req'[v].pc \in {"scan", "dead"} /\ req'[v].seen.id = r
  BY DEF RunningHasScanner, Running
<1>1. r \in DOMAIN runs /\ runs[r] = "running" /\ r # req[w].seen.id
  BY DEF ScanTypeOK
<1>2. PICK v \in Workers : req[v].pc \in {"scan", "dead"} /\ req[v].seen.id = r
  BY <1>1 DEF RunningHasScanner, Running
<1> QED BY <1>1, <1>2 DEF Others

(* A row that becomes "running" is scanned by the request that made it so, *)
(* and the index has made sure that no other row runs.                     *)
LEMMA NewScanKeepsScanners ==
    ASSUME ScanTypeOK, NEW w \in Workers, NEW r, IndexAllows(r), Execute(w, r),
           \A other \in DOMAIN runs' \ {r} :
              other \in DOMAIN runs /\ runs'[other] = runs[other]
    PROVE  RunningHasScanner'
<1>1. req'[w].pc = "scan" /\ req'[w].seen.id = r
  BY DEF Execute, ScanTypeOK, Request
<1>2. \A other \in DOMAIN runs' : runs'[other] = "running" => other = r
  BY DEF IndexAllows, Running
<1> QED BY <1>1, <1>2 DEF RunningHasScanner, Running

(* A row written under its lock, or while nobody holds it, is free after   *)
(* the commit.                                                             *)
LEMMA CommitKeepsLocks ==
    ASSUME ScanTypeOK, LockedFailed, NEW w \in Workers, NEW r, Writable(w, r),
           NEW s, runs' = [runs EXCEPT ![r] = s], lock' = Released(w)
    PROVE  LockedFailed'
<1> SUFFICES ASSUME NEW q \in RunId, lock'[q] # Nobody
             PROVE  q \in DOMAIN runs' /\ runs'[q] = "failed"
  BY DEF LockedFailed
<1>1. lock[q] # Nobody /\ lock[q] # w
  BY DEF Released
<1>2. q # r
  BY <1>1 DEF Writable
<1> QED BY <1>1, <1>2 DEF LockedFailed, ScanTypeOK

LEMMA ReleaseKeepsLocks ==
    ASSUME LockedFailed, NEW w, runs' = runs, lock' = Released(w)
    PROVE  LockedFailed'
  BY DEF LockedFailed, Released

LEMMA ScanInvInit == ScanInit => ScanInv
<1> SUFFICES ASSUME ScanInit PROVE ScanInv
  OBVIOUS
<1>1. ScanTypeOK
  BY TypeInit DEF TypeInv
<1>2. DOMAIN runs = {} /\ LockedFailed
  BY DEF ScanInit, LockedFailed
<1> QED BY <1>1, <1>2 DEF ScanInv, RunningHasScanner

(* Every step keeps the scanners of the running rows and the locked rows.  *)
LEMMA ScanInvStep == ScanInv /\ ScanTypeOK' /\ [ScanNext]_scanVars => ScanInv'
<1> SUFFICES ASSUME ScanInv, ScanTypeOK', [ScanNext]_scanVars
             PROVE  RunningHasScanner' /\ LockedFailed'
  BY DEF ScanInv
<1> USE DEF ScanInv
<1>1. CASE UNCHANGED scanVars
  BY <1>1 DEF scanVars, RunningHasScanner, Running, LockedFailed
<1>2. ASSUME NEW w \in Workers, Leave(w), runs' = runs,
             req[w].pc \notin {"scan", "dead"}
      PROVE  RunningHasScanner' /\ LockedFailed'
  BY <1>2, BystanderKeepsScanners, ReleaseKeepsLocks DEF Leave, Others, ScanTypeOK
<1>3. ASSUME NEW w \in Workers, Scan(w) \/ Resume(w)
      PROVE  RunningHasScanner' /\ LockedFailed'
  <2>1. Others(w) /\ runs' = runs /\ lock' = lock /\ req[w].pc = "idle"
    BY <1>3 DEF Scan, Resume, Enter, Others, ScanTypeOK
  <2> QED BY <2>1, BystanderKeepsScanners DEF LockedFailed
<1>4. ASSUME NEW w \in Workers, NEW r \in DOMAIN runs, Retry(w, r)
      PROVE  RunningHasScanner' /\ LockedFailed'
  <2>1. Others(w) /\ runs' = runs /\ req[w].pc = "idle"
    BY <1>4 DEF Retry, Enter, Others, ScanTypeOK
  <2>2. LockedFailed'
    BY <1>4 DEF Retry, LockedFailed, ScanTypeOK
  <2> QED BY <2>1, <2>2, BystanderKeepsScanners
<1>5. ASSUME NEW w \in Workers, Look(w)
      PROVE  RunningHasScanner' /\ LockedFailed'
  <2>1. CASE Latest(req[w].seen).status = "completed"
    BY <1>5, <2>1, <1>2 DEF Look
  <2>2. CASE Latest(req[w].seen).status # "completed"
    <3>1. Others(w) /\ UNCHANGED <<runs, lock>> /\ req[w].pc = "look"
      BY <1>5, <2>2 DEF Look, Others, ScanTypeOK
    <3> QED BY <3>1, BystanderKeepsScanners DEF LockedFailed
  <2> QED BY <2>1, <2>2
<1>6. ASSUME NEW w \in Workers, PrepareRetry(w)
      PROVE  RunningHasScanner' /\ LockedFailed'
  <2> DEFINE id == req[w].seen.id
  <2>1. /\ Writable(w, id) /\ IndexAllows(id) /\ Execute(w, id)
        /\ runs' = [runs EXCEPT ![id] = "running"] /\ lock' = Released(w)
    BY <1>6 DEF PrepareRetry
  <2>2. \A other \in DOMAIN runs' \ {id} :
           other \in DOMAIN runs /\ runs'[other] = runs[other]
    BY <2>1 DEF ScanTypeOK
  <2> QED BY <2>1, <2>2, NewScanKeepsScanners, CommitKeepsLocks
<1>7. ASSUME NEW w \in Workers, RetryRefused(w) \/ ReuseConcurrent(w)
      PROVE  RunningHasScanner' /\ LockedFailed'
  BY <1>7, <1>2 DEF RetryRefused, ReuseConcurrent
<1>8. ASSUME NEW w \in Workers, Create(w)
      PROVE  RunningHasScanner' /\ LockedFailed'
  <2> DEFINE id == Len(runs) + 1
  <2>1. \A other \in DOMAIN runs' \ {id} :
           other \in DOMAIN runs /\ runs'[other] = runs[other]
    BY <1>8 DEF Create, ScanTypeOK
  <2>2. IndexAllows(id) /\ Execute(w, id)
    BY <1>8 DEF Create, IndexAllows, ScanTypeOK
  <2>3. RunningHasScanner'
    BY <2>1, <2>2, NewScanKeepsScanners
  <2>4. \A r \in DOMAIN runs : r \in DOMAIN runs' /\ runs'[r] = runs[r]
    BY <1>8 DEF Create, ScanTypeOK
  <2>5. LockedFailed'
    BY <1>8, <2>4 DEF Create, LockedFailed, Released
  <2> QED BY <2>3, <2>5
<1>9. ASSUME NEW w \in Workers, NEW s \in {"completed", "failed"},
             req[w].pc = "scan", Writable(w, req[w].seen.id), Leave(w),
             runs' = [runs EXCEPT ![req[w].seen.id] = s]
      PROVE  RunningHasScanner' /\ LockedFailed'
  <2>1. Others(w) /\ lock' = Released(w)
    BY <1>9 DEF Leave, Others, ScanTypeOK
  <2> QED BY <1>9, <2>1, EndedScanKeepsScanners, CommitKeepsLocks
<1>10. ASSUME NEW w \in Workers, Complete(w) \/ Fail(w)
       PROVE  RunningHasScanner' /\ LockedFailed'
  BY <1>10, <1>9 DEF Complete, Fail
<1>11. ASSUME NEW w \in Workers, Die(w)
       PROVE  RunningHasScanner' /\ LockedFailed'
  <2>1. Others(w) /\ runs' = runs /\ lock' = Released(w)
    BY <1>11 DEF Die, Others, ScanTypeOK
  <2>2. CASE req[w].pc = "scan"
    <3>1. req'[w].pc = "dead" /\ req'[w].seen = req[w].seen
      BY <1>11, <2>2 DEF Die, ScanTypeOK
    <3>2. RunningHasScanner'
      BY <2>1, <3>1 DEF RunningHasScanner, Running, Others
    <3> QED BY <2>1, <3>2, ReleaseKeepsLocks
  <2>3. CASE req[w].pc \in {"look", "admit"}
    BY <2>1, <2>3, BystanderKeepsScanners, ReleaseKeepsLocks
  <2> QED BY <1>11, <2>2, <2>3 DEF Die
<1> QED BY <1>1, <1>3, <1>4, <1>5, <1>6, <1>7, <1>8, <1>10, <1>11 DEF ScanNext, Progress

LEMMA ScanInvariant == ScanSpec => []ScanInv
<1>1. ScanInit => ScanInv
  BY ScanInvInit
<1> QED BY <1>1, ScanInvStep, ScanTypes, PTL DEF ScanSpec

(* Whatever overlaps, a row is left "running" without a request only by a  *)
(* request that died: the index blocks a project for no other reason.      *)
THEOREM RunningRowsAreScanned == ScanSpec => []RunningHasScanner
<1>1. ScanInv => RunningHasScanner
  BY DEF ScanInv
<1> QED BY <1>1, ScanInvariant, PTL

(* What retry() has checked under the row's lock stands until it commits.  *)
THEOREM RetryChecksUnderLock == ScanSpec => []RetryDecisionHolds
<1>1. ScanInv => RetryDecisionHolds
  <2> SUFFICES ASSUME ScanInv, NEW r \in DOMAIN runs, lock[r] # Nobody
               PROVE  runs[r] = "failed"
    BY DEF RetryDecisionHolds
  <2>1. r \in RunId
    BY MaxRunsAssumption DEF ScanInv, ScanTypeOK, RunId
  <2> QED BY <2>1 DEF ScanInv, LockedFailed
<1> QED BY <1>1, ScanInvariant, PTL
================================================================================
