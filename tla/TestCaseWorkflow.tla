-------------------------- MODULE TestCaseWorkflow --------------------------
(***************************************************************************)
(* The workflow service of Test-Case-Generation.  A workflow is a state    *)
(* object that several things write: graph tasks, which work on a copy and *)
(* replace the object when they end, the task that continues after an      *)
(* approval, which writes the object itself, single-item regenerations,    *)
(* which hold on to the object while a model answers, and the requests of  *)
(* a reviewer.  Tasks share one event loop: a step is the code between two *)
(* suspensions, and only the generating agents and the graph suspend.      *)
(***************************************************************************)
EXTENDS Naturals, Sequences, FiniteSets, Functions

CONSTANTS Workflows,
          Inputs,        \* the payloads a workflow can be started with
          Corrected,     \* the payload a reviewer can correct them to
          MaxAttempts,   \* settings.max_validation_attempts
          MaxTasks,      \* bound: tasks and regenerations
          MaxRestarts    \* bound: restarts of the server

ASSUME WorkflowAssumption ==
    /\ MaxAttempts \in Nat \ {0}
    /\ MaxTasks \in Nat
    /\ MaxRestarts \in Nat

VARIABLES
    objects,   \* per workflow, the state objects made so far
    current,   \* _states: the object a reader sees; 0 for none
    payload,   \* input_payload, one dictionary shared by all the objects
    tasks,     \* per workflow, its tasks and single-item regenerations
    newest,    \* _tasks: the only task that cancel() knows; 0 for none
    file,      \* the persisted object, or Nothing
    cache,     \* Redis: completed results by fingerprint
    restarts

vars == <<objects, current, payload, tasks, newest, file, cache, restarts>>

Nothing == <<>>
Unjudged == [of |-> Nothing, verdict |-> "none"]

(* initial_state.  "scenarios" and "cases" name the generation that made   *)
(* them, "judged" what a validation or a reviewer said of which ones.      *)
InitialState(key) ==
    [status |-> "pending", key |-> key, context |-> Nothing,
     scenarios |-> Nothing, scenarioJudged |-> Unjudged, scenarioCount |-> 0,
     cases |-> Nothing, caseJudged |-> Unjudged, caseCount |-> 0,
     rejected |-> FALSE]

Reviewable == {"scenario_manual_review", "testcase_manual_review"}
Settled == {"completed", "failed", "cancelled"} \cup Reviewable

(* What a workflow of an earlier server completed; Redis outlives servers. *)
EarlierResult(input) ==
    LET scenarios == [run |-> 0, n |-> 0, edits |-> 0, input |-> input]
        cases     == [run |-> 0, n |-> 0, edits |-> 0, of |-> scenarios]
    IN  [context |-> input,
         scenarios |-> scenarios, scenarioJudged |-> [of |-> scenarios, verdict |-> "passed"],
         cases |-> cases, caseJudged |-> [of |-> cases, verdict |-> "passed"]]

Init ==
    /\ objects = [w \in Workflows |-> <<>>]
    /\ current = [w \in Workflows |-> 0]
    /\ payload = [w \in Workflows |-> Nothing]
    /\ tasks = [w \in Workflows |-> <<>>]
    /\ newest = [w \in Workflows |-> 0]
    /\ file = [w \in Workflows |-> Nothing]
    /\ \E known \in SUBSET Inputs : cache = [i \in known |-> EarlierResult(i)]
    /\ restarts = 0

State(w) == objects[w][current[w]]
Known(w) == current[w] # 0
SetObject(w, o, s) == objects' = [objects EXCEPT ![w][o] = s]
SetState(w, s) == SetObject(w, current[w], s)

Live(t) == t.at # "done"
Task(kind, ref, mine, at) == [kind |-> kind, ref |-> ref, mine |-> mine, at |-> at, n |-> 0]
Ended(kind) == Task(kind, 0, Nothing, "done")
Bounded == SumFunctionOnSet([w \in Workflows |-> Len(tasks[w])], Workflows) < MaxTasks
CreateTask(w, kind) ==
    /\ Bounded
    /\ tasks' = [tasks EXCEPT ![w] = Append(@, Task(kind, 0, Nothing, "created"))]
    /\ newest' = [newest EXCEPT ![w] = Len(tasks[w]) + 1]

(* What _cache_completed stores, under the key computed at the start.      *)
Result(s) == [context |-> s.context, scenarios |-> s.scenarios,
              scenarioJudged |-> s.scenarioJudged, cases |-> s.cases,
              caseJudged |-> s.caseJudged]
StoreResult(s) ==
    \/ cache' = [i \in DOMAIN cache \cup {s.key} |-> IF i = s.key THEN Result(s) ELSE cache[i]]
    \/ UNCHANGED cache     \* Redis does not answer

(* The file is written, the result cached; nothing unless completed.       *)
Persist(w, s) == file' = [file EXCEPT ![w] = [state |-> s, payload |-> payload[w]]]
(* For a mutant: the status is not looked at.                              *)
CacheAnything(w, s) == StoreResult(s) /\ Persist(w, s)

CacheCompleted(w, s) ==
    IF s.status = "completed"
    THEN StoreResult(s) /\ Persist(w, s)
    ELSE UNCHANGED <<cache, file>>
-----------------------------------------------------------------------------
(* start: an input that was completed before is answered from the cache.   *)
Start(w, input) ==
    /\ objects[w] = <<>> /\ tasks[w] = <<>> /\ file[w] = Nothing
    /\ payload' = [payload EXCEPT ![w] = input]
    /\ current' = [current EXCEPT ![w] = 1]
    /\ \/ /\ input \in DOMAIN cache
          /\ LET hit == cache[input]
                 s == [InitialState(input) EXCEPT !.status = "completed",
                       !.context = hit.context,
                       !.scenarios = hit.scenarios, !.scenarioJudged = hit.scenarioJudged,
                       !.cases = hit.cases, !.caseJudged = hit.caseJudged]
             IN  /\ objects' = [objects EXCEPT ![w] = <<s>>]
                 /\ file' = [file EXCEPT ![w] = [state |-> s, payload |-> input]]
          /\ UNCHANGED <<tasks, newest>>
       \/ /\ objects' = [objects EXCEPT ![w] = <<InitialState(input)>>]
          /\ CreateTask(w, "graph")
          /\ UNCHANGED file
    /\ UNCHANGED <<cache, restarts>>

(* cancel: the newest task is cancelled, at its suspension, and the object *)
(* shows it.                                                               *)
(* For a mutant: the task is left running.                                 *)
CancelFlagOnly(w) ==
    /\ Known(w)
    /\ SetState(w, [State(w) EXCEPT !.status = "cancelled"])
    /\ UNCHANGED <<current, payload, tasks, newest, file, cache, restarts>>

Cancel(w) ==
    /\ Known(w)
    /\ SetState(w, [State(w) EXCEPT !.status = "cancelled"])
    /\ tasks' = IF newest[w] # 0 /\ Live(tasks[w][newest[w]])
                THEN [tasks EXCEPT ![w][newest[w]] = Ended(@.kind)]
                ELSE tasks
    /\ UNCHANGED <<current, payload, newest, file, cache, restarts>>

(* resume: one counter is reset and the whole graph runs again, over the   *)
(* payload with the corrections; the status stays as it is.                *)
Resume(w, stage) ==
    /\ Known(w)
    /\ State(w).status \in Reviewable
    /\ \E corrected \in {payload[w], Corrected} :
          payload' = [payload EXCEPT ![w] = corrected]
    /\ SetState(w, IF stage = "scenario_manual_review"
                   THEN [State(w) EXCEPT !.scenarioCount = 0]
                   ELSE [State(w) EXCEPT !.caseCount = 0])
    /\ CreateTask(w, "graph")
    /\ UNCHANGED <<current, file, cache, restarts>>

(* approve_review of the scenarios: the test cases follow in a task.       *)
ApproveScenarios(w) ==
    /\ Known(w)
    /\ State(w).status = "scenario_manual_review"
    /\ SetState(w, [State(w) EXCEPT
           !.scenarioJudged = [of |-> State(w).scenarios, verdict |-> "approved"],
           !.status = "generating_test_cases"])
    /\ CreateTask(w, "continue")
    /\ UNCHANGED <<current, payload, file, cache, restarts>>

(* approve_review of the test cases completes the workflow.                *)
ApproveCases(w) ==
    LET s == [State(w) EXCEPT
                !.caseJudged = [of |-> State(w).cases, verdict |-> "approved"],
                !.rejected = FALSE, !.status = "completed"]
    IN  /\ Known(w)
        /\ State(w).status = "testcase_manual_review"
        /\ SetState(w, s)
        /\ CacheCompleted(w, s)
        /\ UNCHANGED <<current, payload, tasks, newest, restarts>>

(* decide, decide_all: the report of an execution reads the rejections.    *)
Decide(w) ==
    /\ Known(w)
    /\ State(w).cases # Nothing
    /\ Bounded
    /\ \E verdict \in BOOLEAN : SetState(w, [State(w) EXCEPT !.rejected = verdict])
    /\ UNCHANGED <<current, payload, tasks, newest, file, cache, restarts>>

(* regenerate_entity: the object is looked up once, then a model is asked. *)
Regenerate(w, what) ==
    /\ Known(w)
    /\ State(w)[what] # Nothing
    /\ Bounded
    /\ tasks' = [tasks EXCEPT ![w] = Append(@, Task(what, current[w], Nothing, "asking"))]
    /\ UNCHANGED <<objects, current, payload, newest, file, cache, restarts>>
-----------------------------------------------------------------------------
SetTask(w, t, k) == tasks' = [tasks EXCEPT ![w][t] = k]
EndTask(w, t) == SetTask(w, t, Ended(tasks[w][t].kind))
Of(w, t, kind, place) == tasks[w][t].kind = kind /\ tasks[w][t].at = place
Mine(w, t) == tasks[w][t].mine
Judged(items, passed) == [of |-> items, verdict |-> IF passed THEN "passed" ELSE "failed"]

(* What the n-th answer to a task's questions brings.                      *)
Scenarios(w, t) ==
    [run |-> t, n |-> tasks[w][t].n, edits |-> 0, input |-> Mine(w, t).context]
Cases(w, t, scenarios) ==
    [run |-> t, n |-> tasks[w][t].n, edits |-> 0, of |-> scenarios]

(* A graph task takes a copy of the object a reader sees at that moment.   *)
GraphBegin(w, t) ==
    /\ Of(w, t, "graph", "created")
    /\ SetTask(w, t, [tasks[w][t] EXCEPT !.ref = current[w], !.mine = State(w),
                                         !.at = "preparing"])
    /\ UNCHANGED <<objects, current, payload, newest, file, cache, restarts>>

GraphPrepare(w, t) ==
    /\ Of(w, t, "graph", "preparing")
    /\ SetTask(w, t, [tasks[w][t] EXCEPT !.mine.context = payload[w], !.at = "scenarios"])
    /\ UNCHANGED <<objects, current, payload, newest, file, cache, restarts>>

(* generate_scenarios or regenerate_scenarios, validate_scenarios and the  *)
(* route taken; what the nodes write is the graph's own, so that one step  *)
(* stands for them.                                                        *)
GraphScenarios(w, t) ==
    /\ Of(w, t, "graph", "scenarios")
    /\ \E passed \in BOOLEAN :
        LET new  == Scenarios(w, t)
            mine == [Mine(w, t) EXCEPT !.scenarios = new, !.scenarioCount = @ + 1,
                                       !.scenarioJudged = Judged(new, passed)]
            k == [tasks[w][t] EXCEPT !.mine = mine, !.n = @ + 1]
        IN  SetTask(w, t,
              IF passed THEN [k EXCEPT !.at = "cases"]
              ELSE IF mine.scenarioCount >= MaxAttempts
              THEN [k EXCEPT !.mine.status = "scenario_manual_review", !.at = "end"]
              ELSE k)
    /\ UNCHANGED <<objects, current, payload, newest, file, cache, restarts>>

(* What a validation of test cases leads to: completion, a review once the *)
(* attempts are used up, or another attempt.                               *)
(* For a mutant: the last attempt is taken as it is.                       *)
JudgeCasesOnce(s, passed) ==
    LET judged == [s EXCEPT !.caseJudged = Judged(s.cases, passed), !.caseCount = @ + 1]
    IN  IF passed \/ judged.caseCount >= MaxAttempts
        THEN [judged EXCEPT !.status = "completed"]
        ELSE [judged EXCEPT !.status = "generating_test_cases"]

JudgeCases(s, passed) ==
    LET judged == [s EXCEPT !.caseJudged = Judged(s.cases, passed), !.caseCount = @ + 1]
    IN  IF passed THEN [judged EXCEPT !.status = "completed"]
        ELSE IF judged.caseCount >= MaxAttempts
        THEN [judged EXCEPT !.status = "testcase_manual_review"]
        ELSE [judged EXCEPT !.status = "generating_test_cases"]

(* generate_test_cases or regenerate_test_cases, validate_test_cases and   *)
(* the route taken.                                                        *)
GraphCases(w, t) ==
    /\ Of(w, t, "graph", "cases")
    /\ \E passed \in BOOLEAN :
        LET mine == JudgeCases([Mine(w, t) EXCEPT
                                  !.cases = Cases(w, t, Mine(w, t).scenarios)], passed)
        IN  SetTask(w, t, [tasks[w][t] EXCEPT !.mine = mine, !.n = @ + 1,
                  !.at = IF mine.status \in Settled THEN "end" ELSE "cases"])
    /\ UNCHANGED <<objects, current, payload, newest, file, cache, restarts>>

(* The graph is through: its copy, without the keys that are not in its    *)
(* schema, becomes the object that a reader sees.                          *)
GraphEnd(w, t) ==
    LET s == [Mine(w, t) EXCEPT !.rejected = FALSE]
    IN  /\ Of(w, t, "graph", "end")
        /\ objects' = [objects EXCEPT ![w] = Append(@, s)]
        /\ current' = [current EXCEPT ![w] = Len(objects[w]) + 1]
        /\ CacheCompleted(w, s)
        /\ EndTask(w, t)
        /\ UNCHANGED <<payload, newest, restarts>>

(* An exception: the object the graph was started on is the one that fails.*)
(* For a mutant: a failed graph starts over.                               *)
GraphFailRetried(w, t) ==
    /\ tasks[w][t].kind = "graph"
    /\ tasks[w][t].at \in {"preparing", "scenarios", "cases"}
    /\ SetTask(w, t, [tasks[w][t] EXCEPT !.at = "created", !.n = 0])
    /\ UNCHANGED <<objects, current, payload, newest, file, cache, restarts>>

GraphFail(w, t) ==
    LET ref == tasks[w][t].ref
    IN  /\ tasks[w][t].kind = "graph"
        /\ tasks[w][t].at \in {"preparing", "scenarios", "cases"}
        /\ SetObject(w, ref, [objects[w][ref] EXCEPT !.status = "failed"])
        /\ current' = [current EXCEPT ![w] = ref]
        /\ EndTask(w, t)
        /\ UNCHANGED <<payload, newest, file, cache, restarts>>
-----------------------------------------------------------------------------
(* _continue_after_scenario_approval works on the object itself; "mine"    *)
(* are the scenarios it asked a model about.                               *)
ContinueBegin(w, t) ==
    /\ Of(w, t, "continue", "created")
    /\ SetState(w, [State(w) EXCEPT !.status = "generating_test_cases"])
    /\ SetTask(w, t, [tasks[w][t] EXCEPT !.ref = current[w], !.mine = State(w).scenarios,
                                         !.at = "cases"])
    /\ UNCHANGED <<current, payload, newest, file, cache, restarts>>

(* The test cases arrive, are validated and the next ones asked for.       *)
ContinueCases(w, t) ==
    LET ref == tasks[w][t].ref
        old == [objects[w][ref] EXCEPT !.cases = Cases(w, t, Mine(w, t))]
    IN  /\ Of(w, t, "continue", "cases")
        /\ \E passed \in BOOLEAN :
            LET s == JudgeCases(old, passed)
            IN  /\ SetObject(w, ref, s)
                /\ CacheCompleted(w, s)
                /\ IF s.status \in Settled
                   THEN /\ current' = [current EXCEPT ![w] = ref]
                        /\ EndTask(w, t)
                   ELSE /\ UNCHANGED current
                        /\ SetTask(w, t, [tasks[w][t] EXCEPT !.mine = s.scenarios, !.n = @ + 1])
        /\ UNCHANGED <<payload, newest, restarts>>

(* For a mutant: the status is left behind.                                *)
ContinueFailSilent(w, t) ==
    /\ Of(w, t, "continue", "cases")
    /\ EndTask(w, t)
    /\ UNCHANGED <<objects, current, payload, newest, file, cache, restarts>>

ContinueFail(w, t) ==
    LET ref == tasks[w][t].ref
    IN  /\ Of(w, t, "continue", "cases")
        /\ SetObject(w, ref, [objects[w][ref] EXCEPT !.status = "failed"])
        /\ current' = [current EXCEPT ![w] = ref]
        /\ EndTask(w, t)
        /\ UNCHANGED <<payload, newest, file, cache, restarts>>

(* The regenerated item replaces its original in the object the request    *)
(* held on to, all of them are judged again and the object is persisted.   *)
RegenerateAnswer(w, t) ==
    LET ref  == tasks[w][t].ref
        what == tasks[w][t].kind
        s    == [objects[w][ref] EXCEPT ![what].edits = @ + 1]
    IN  /\ what \in {"scenarios", "cases"}
        /\ tasks[w][t].at = "asking"
        /\ \E passed \in BOOLEAN :
            LET new == IF what = "scenarios"
                       THEN [s EXCEPT !.scenarioJudged = Judged(s.scenarios, passed)]
                       ELSE [s EXCEPT !.caseJudged = Judged(s.cases, passed)]
            IN  SetObject(w, ref, new) /\ Persist(w, new)
        /\ EndTask(w, t)
        /\ UNCHANGED <<current, payload, newest, cache, restarts>>

(* The model fails, or the item is gone.                                   *)
RegenerateFail(w, t) ==
    /\ tasks[w][t].at = "asking"
    /\ EndTask(w, t)
    /\ UNCHANGED <<objects, current, payload, newest, file, cache, restarts>>
-----------------------------------------------------------------------------
(* The server restarts: what was in memory is lost.                        *)
Restart ==
    /\ restarts < MaxRestarts
    /\ restarts' = restarts + 1
    /\ objects' = [w \in Workflows |-> <<>>]
    /\ current' = [w \in Workflows |-> 0]
    /\ payload' = [w \in Workflows |-> Nothing]
    /\ newest' = [w \in Workflows |-> 0]
    /\ tasks' = [w \in Workflows |->
                    [t \in DOMAIN tasks[w] |-> Ended(tasks[w][t].kind)]]
    /\ UNCHANGED <<file, cache>>

(* get: the persisted object is read back.                                 *)
Load(w) ==
    /\ ~Known(w)
    /\ file[w] # Nothing
    /\ objects' = [objects EXCEPT ![w] = <<file[w].state>>]
    /\ current' = [current EXCEPT ![w] = 1]
    /\ payload' = [payload EXCEPT ![w] = file[w].payload]
    /\ UNCHANGED <<tasks, newest, file, cache, restarts>>

TaskStep(w, t) ==
    /\ t \in DOMAIN tasks[w]
    /\ \/ GraphBegin(w, t) \/ GraphPrepare(w, t) \/ GraphScenarios(w, t)
       \/ GraphCases(w, t) \/ GraphEnd(w, t) \/ GraphFail(w, t)
       \/ ContinueBegin(w, t) \/ ContinueCases(w, t) \/ ContinueFail(w, t)
       \/ RegenerateAnswer(w, t) \/ RegenerateFail(w, t)

Request(w) ==
    \/ \E input \in Inputs : Start(w, input)
    \/ Cancel(w)
    \/ \E stage \in Reviewable : Resume(w, stage)
    \/ ApproveScenarios(w)
    \/ ApproveCases(w)
    \/ Decide(w)
    \/ \E what \in {"scenarios", "cases"} : Regenerate(w, what)
    \/ Load(w)

Next ==
    \/ \E w \in Workflows : Request(w) \/ \E t \in 1..MaxTasks : TaskStep(w, t)
    \/ Restart

(* The event loop runs what is ready; a model answers or times out.        *)
Spec == Init /\ [][Next]_vars
             /\ WF_vars(\E w \in Workflows, t \in 1..MaxTasks : TaskStep(w, t))
-----------------------------------------------------------------------------
Contexts == Inputs \cup {Corrected, Nothing}
ScenarioSets == [run : Nat, n : Nat, edits : Nat, input : Contexts]
CaseSets == [run : Nat, n : Nat, edits : Nat, of : ScenarioSets \cup {Nothing}]
Verdicts == {"none", "passed", "failed", "approved"}
Results == [context : Contexts,
            scenarios : ScenarioSets \cup {Nothing},
            scenarioJudged : [of : ScenarioSets \cup {Nothing}, verdict : Verdicts],
            cases : CaseSets \cup {Nothing},
            caseJudged : [of : CaseSets \cup {Nothing}, verdict : Verdicts]]
StateObjects ==
    [status : Settled \cup {"pending", "generating_test_cases"}, key : Inputs,
     context : Contexts,
     scenarios : ScenarioSets \cup {Nothing},
     scenarioJudged : [of : ScenarioSets \cup {Nothing}, verdict : Verdicts],
     scenarioCount : Nat,
     cases : CaseSets \cup {Nothing},
     caseJudged : [of : CaseSets \cup {Nothing}, verdict : Verdicts],
     caseCount : Nat,
     rejected : BOOLEAN]

GraphTasks ==
    [kind : {"graph"}, ref : Nat, mine : StateObjects \cup {Nothing}, n : Nat,
     at : {"created", "preparing", "scenarios", "cases", "end", "done"}]
Continuations ==
    [kind : {"continue"}, ref : Nat, mine : ScenarioSets \cup {Nothing}, n : Nat,
     at : {"created", "cases", "done"}]
Regenerations ==
    [kind : {"scenarios", "cases"}, ref : Nat, mine : {Nothing}, n : Nat,
     at : {"asking", "done"}]
Tasks == GraphTasks \cup Continuations \cup Regenerations

ObjectsTyped == objects \in [Workflows -> Seq(StateObjects)]
TasksTyped == tasks \in [Workflows -> Seq(Tasks)]
PointersTyped ==
    /\ current \in [Workflows -> Nat] /\ newest \in [Workflows -> Nat]
    /\ \A w \in Workflows : current[w] <= Len(objects[w]) /\ newest[w] <= Len(tasks[w])
PayloadTyped == payload \in [Workflows -> Contexts]
FileTyped == file \in [Workflows -> [state : StateObjects, payload : Contexts] \cup {Nothing}]
CacheTyped == DOMAIN cache \subseteq Inputs /\ cache \in [DOMAIN cache -> Results]

(* Objects, tasks, files and cached results are of their kinds.            *)
TypeOK ==
    /\ ObjectsTyped /\ TasksTyped /\ PointersTyped /\ PayloadTyped
    /\ FileTyped /\ CacheTyped
    /\ restarts \in 0..MaxRestarts

SameGeneration(a, b) == a.run = b.run /\ a.n = b.n

(* The test cases of a result are the ones that a validation passed or a   *)
(* reviewer approved, and were made from the scenarios beside them.        *)
CasesValidated(r) ==
    /\ r.caseJudged.of = r.cases
    /\ r.caseJudged.verdict \in {"passed", "approved"}
    /\ SameGeneration(r.cases.of, r.scenarios)

(* What the cache answers other workflows with are validated test cases    *)
(* beside the scenarios they were made from, whichever of the overlapping  *)
(* tasks, approvals and regenerations stored it.  (_cache_completed)       *)
CachedValidated == \A key \in DOMAIN cache : CasesValidated(cache[key])

(* So is what a reader sees of a completed workflow, unless a test case    *)
(* was regenerated since.  (regenerate_entity, approve_review, get)        *)
CompletedValidated ==
    \A w \in Workflows : Known(w) /\ State(w).status = "completed"
        => CasesValidated(
             IF State(w).cases.edits = 0 THEN State(w)
             ELSE [State(w) EXCEPT !.caseJudged = [of |-> State(w).cases, verdict |-> "passed"]])

(* docs/redis-cache.md: what is cached are validated test scenarios.  An   *)
(* approval overtaken by a resumed graph does not keep it.  (README, known *)
(* disagreements)                                                          *)
CachedScenariosValidated ==
    \A key \in DOMAIN cache :
        LET r == cache[key]
        IN  r.scenarioJudged.verdict \in {"passed", "approved"} \/ r.scenarios.edits > 0

(* A workflow of which nothing runs shows a status that ends its event     *)
(* stream and that a reviewer can act on.  (events, cancel, the tasks)     *)
SettledWhenIdle ==
    restarts = 0 => \A w \in Workflows :
        (Known(w) /\ \A t \in DOMAIN tasks[w] : ~Live(tasks[w][t]))
        => State(w).status \in Settled

(* A cancelled workflow is revived only by a task that is not the newest,  *)
(* which cancel() does not know, or by a restart.                          *)
OnlyOrphansRevive ==
    [][\A w \in Workflows :
         (Known(w) /\ State(w).status = "cancelled" /\ restarts' = restarts
            /\ State(w)'.status # "cancelled")
         => \E t \in DOMAIN tasks[w] : t # newest[w] /\ Live(tasks[w][t])]_vars

(* Every task and every regeneration ends: no sequence of failed           *)
(* validations, resets of the counters and restarts keeps one going.       *)
AllEnd == \A w \in Workflows : \A t \in DOMAIN tasks[w] : ~Live(tasks[w][t])
TasksEnd == []<>AllEnd
=============================================================================
