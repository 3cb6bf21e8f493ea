--------------------------- MODULE ScriptExecution ---------------------------
(***************************************************************************)
(* Generated scripts and their execution in Test-Case-Generation's         *)
(* automation service.  A generation is a manifest in memory and on disk;  *)
(* an execution job splits its scripts over workers, each with a browser,  *)
(* which recover failing steps with learned locators or by asking          *)
(* Seacrawl; reports are saved per worker and for the whole.  Everything   *)
(* runs in one event loop: a step is the code between two suspensions that *)
(* others can notice.  The service may restart.                            *)
(***************************************************************************)
EXTENDS Integers, Sequences, FiniteSets

CONSTANTS Generations,    \* generations of one workflow
          NoGeneration,
          Selections,     \* what a generator can make: scripts and lifecycles
          MadeBefore,     \* those of them Redis already holds
          NScripts,       \* the scripts of a generation, numbered
          Controls,       \* what a step acts on
          StepsOf,        \* the steps of each script
          Jobs,           \* execution jobs
          MaxWorkers,     \* automation_execution_workers
          CallsPerTest,   \* seacrawl_max_calls_per_test
          CallsPerRun,    \* seacrawl_max_calls_per_run
          MaxFaults       \* bound on exceptions of a worker and restarts

Scripts == 1..NScripts
Lifecycles == {"Valid", "Blocked", "Superseded"}

ASSUME LimitsAssumption ==
    /\ NScripts \in Nat /\ MaxWorkers \in Nat \ {0}
    /\ CallsPerTest \in Nat /\ CallsPerRun \in Nat /\ MaxFaults \in Nat
ASSUME ScriptsAssumption ==
    /\ StepsOf \in [Scripts -> Seq(Controls)]
    /\ \A life \in Selections : /\ DOMAIN life \subseteq Scripts
                                /\ life \in [DOMAIN life -> {"Valid", "Blocked"}]
    /\ MadeBefore \subseteq Selections
ASSUME NoGenerationAssumption == NoGeneration \notin Generations

Slots == 0..(MaxWorkers - 1)
Workers == Jobs \X Slots

(* Uuids: the id of a worker is not that of a generation.                  *)
ASSUME IdsAssumption == Generations \cap Workers = {}

VARIABLES
    memory,     \* _generations: manifests by id (a child's is its parent's)
    disk,       \* the files generation.json
    hints,      \* Redis: locators learned, of any generation
    madeScripts,\* Redis: cached scripts
    status,     \* _execution_jobs
    target,     \* the generation of a job
    count,      \* its workers
    at,         \* where a worker is suspended
    todo,       \* the scripts it has not finished
    step,       \* the step of the first of them
    results,    \* its results so far
    calls,      \* its calls to Seacrawl, in this test and in this run
    reports,    \* saved reports
    faults      \* exceptions and restarts so far

stores == <<memory, disk, hints, madeScripts>>
jobs == <<status, target, count>>
progress == <<at, todo, step, results, calls>>
scriptVars == <<stores, jobs, progress, reports, faults>>

Empty == [x \in {} |-> {}]
Put(f, x, v) == [y \in DOMAIN f \cup {x} |-> IF y = x THEN v ELSE f[y]]
NoCalls == [test |-> 0, run |-> 0]

ScriptInit ==
    /\ memory = Empty /\ disk = Empty
    /\ hints = {} /\ madeScripts = MadeBefore
    /\ status = [j \in Jobs |-> "none"]
    /\ target = [j \in Jobs |-> NoGeneration]
    /\ count = [j \in Jobs |-> 0]
    /\ at = [w \in Workers |-> "idle"]
    /\ todo = [w \in Workers |-> {}]
    /\ step = [w \in Workers |-> 1]
    /\ results = [w \in Workers |-> Empty]
    /\ calls = [w \in Workers |-> NoCalls]
    /\ reports = {}
    /\ faults = 0

Fault == faults < MaxFaults /\ faults' = faults + 1
-----------------------------------------------------------------------------
(* generate: earlier manifests of the workflow are marked on disk, whatever*)
(* they said; memory keeps what it has.  Why a script is superseded        *)
(* (obsolete, other requirements, another map) makes no difference here.   *)
MarkPrior(mark) ==
    [h \in DOMAIN disk |-> [disk[h] EXCEPT !.life = [s \in DOMAIN disk[h].life |-> mark]]]
StoreGeneration(g, life) ==
    LET manifest == [life |-> life, learned |-> {}] IN
    /\ memory' = Put(memory, g, manifest)
    /\ \E mark \in {"Valid", "Superseded"} : disk' = Put(MarkPrior(mark), g, manifest)

Generate(g) ==
    /\ g \notin DOMAIN disk
    /\ \E life \in Selections :
          StoreGeneration(g, life) /\ madeScripts' = madeScripts \cup {life}
    /\ UNCHANGED <<hints, jobs, progress, reports, faults>>

(* The scripts of an earlier generation, found under the same versions.    *)
GenerateFromCache(g) ==
    /\ g \notin DOMAIN disk
    /\ \E life \in madeScripts : StoreGeneration(g, life)
    /\ UNCHANGED <<hints, madeScripts, jobs, progress, reports, faults>>
-----------------------------------------------------------------------------
(* start_execution_job; the task begins later.                             *)
StartJob(j, g) ==
    /\ status[j] = "none" /\ g \in DOMAIN disk
    /\ status' = [status EXCEPT ![j] = "queued"]
    /\ target' = [target EXCEPT ![j] = g]
    /\ UNCHANGED <<count, stores, progress, reports, faults>>

(* For a mutant: the locators are not read back.                           *)
GenerationForgetful(g) ==
    IF g \in DOMAIN memory THEN memory[g] ELSE [disk[g] EXCEPT !.learned = {}]
(* generation(): memory, or else the manifest on disk.                     *)
Generation(g) == IF g \in DOMAIN memory THEN memory[g] ELSE disk[g]

WorkersFor(S) == IF Cardinality(S) = 0 THEN 1
                 ELSE IF Cardinality(S) < MaxWorkers THEN Cardinality(S) ELSE MaxWorkers
Rank(S, s) == Cardinality({r \in S : r < s})
(* For a mutant: the slice misses the first script.                        *)
ChunkShort(S, k, n) == {s \in S : Rank(S, s) % n = k /\ Rank(S, s) > 0}
(* scripts[k::n]                                                           *)
Chunk(S, k, n) == {s \in S : Rank(S, s) % n = k}

(* execute: one worker runs under the generation's own id, several run     *)
(* under ids of their own, with the same directory and learned locators.   *)
Begin(j) ==
    LET g == target[j]
        S == DOMAIN Generation(g).life
        n == WorkersFor(S) IN
    /\ status[j] = "queued"
    /\ status' = [status EXCEPT ![j] = "running"]
    /\ memory' = Put(memory, g, Generation(g))
    /\ count' = [count EXCEPT ![j] = n]
    /\ at' = [w \in Workers |-> IF w[1] = j /\ w[2] < n THEN "next" ELSE at[w]]
    /\ todo' = [w \in Workers |-> IF w[1] = j /\ w[2] < n THEN Chunk(S, w[2], n) ELSE todo[w]]
    /\ UNCHANGED <<target, disk, hints, madeScripts, step, results, calls, reports, faults>>

ScriptsWith(res, outcome) == {s \in DOMAIN res : res[s] = outcome}
PriorFailures(id) == UNION {ScriptsWith(r.results, "failed") : r \in {q \in reports : q.id = id}}
(* _save_report: a failure or a pass is compared with the saved reports of *)
(* the same generation id.  What else a ticket depends on is left out.     *)
SaveReport(j, id, res) ==
    reports' = reports \cup
        {[job |-> j, id |-> id, results |-> res,
          reproduced |-> ScriptsWith(res, "failed") \cap PriorFailures(id),
          verified |-> ScriptsWith(res, "passed") \cap PriorFailures(id)]}
EndJob(j, s) == status' = [status EXCEPT ![j] = s]

(* Manual mode: nothing is run.                                            *)
ExecuteManually(j) ==
    LET g == target[j] IN
    /\ status[j] = "queued"
    /\ EndJob(j, "completed")
    /\ memory' = Put(memory, g, Generation(g))
    /\ SaveReport(j, g, [s \in DOMAIN Generation(g).life |-> "skipped"])
    /\ UNCHANGED <<target, count, disk, hints, madeScripts, progress, faults>>
-----------------------------------------------------------------------------
(* A worker and its scripts, in their order.                               *)
At(w, place) == at[w] = place
Goto(w, place) == at' = [at EXCEPT ![w] = place]
First(w, s) == s \in todo[w] /\ \A r \in todo[w] : s <= r
Own(w) == target[w[1]]

ResultOf(w, s, outcome) ==
    /\ results' = [results EXCEPT ![w] = Put(results[w], s, outcome)]
    /\ todo' = [todo EXCEPT ![w] = todo[w] \ {s}]
    /\ Goto(w, "next")
    /\ step' = [step EXCEPT ![w] = 1]
    /\ calls' = [calls EXCEPT ![w].test = 0]

(* What is left of a worker that has returned, or raised.                  *)
Returns(w, res) ==
    /\ results' = [results EXCEPT ![w] = res]
    /\ todo' = [todo EXCEPT ![w] = {}]
    /\ step' = [step EXCEPT ![w] = 1]
    /\ calls' = [calls EXCEPT ![w] = NoCalls]

(* The browser or a context cannot be had: the exception ends the worker.  *)
WorkerRaises(w) ==
    /\ At(w, "next") /\ Fault
    /\ Goto(w, "raised") /\ Returns(w, Empty)
    /\ UNCHANGED <<stores, jobs, reports>>

SkipBlocked(w, s) ==
    /\ At(w, "next") /\ First(w, s) /\ memory[Own(w)].life[s] = "Blocked"
    /\ ResultOf(w, s, "blocked")
    /\ UNCHANGED <<stores, jobs, reports, faults>>

OpenPage(w, s) ==
    /\ At(w, "next") /\ First(w, s) /\ memory[Own(w)].life[s] # "Blocked"
    /\ Goto(w, "step")
    /\ UNCHANGED <<stores, jobs, todo, step, results, calls, reports, faults>>

(* Navigation, login, a step nothing recovers, an assertion, or a write.   *)
ScriptFails(w, s) ==
    /\ at[w] \in {"step", "seacrawl", "saving"} /\ First(w, s)
    /\ ResultOf(w, s, "failed")
    /\ UNCHANGED <<stores, jobs, reports, faults>>

ScriptPasses(w, s) ==
    /\ At(w, "step") /\ First(w, s) /\ step[w] > Len(StepsOf[s])
    /\ ResultOf(w, s, "passed")
    /\ UNCHANGED <<stores, jobs, reports, faults>>

ToNextStep(w) ==
    /\ step' = [step EXCEPT ![w] = @ + 1]
    /\ Goto(w, "step")
    /\ UNCHANGED <<todo, results, calls>>
(* With its own locator, or with one that was learned.                     *)
StepPerformed(w, s) ==
    /\ At(w, "step") /\ First(w, s) /\ step[w] <= Len(StepsOf[s])
    /\ ToNextStep(w)
    /\ UNCHANGED <<stores, jobs, reports, faults>>

(* After a failure Redis may know a locator that memory does not.          *)
Control(w, s) == StepsOf[s][step[w]]
Learn(w, c) == memory' = [memory EXCEPT ![Own(w)].learned = @ \cup {c}]
HintFound(w, s) ==
    /\ At(w, "step") /\ First(w, s) /\ step[w] <= Len(StepsOf[s])
    /\ Control(w, s) \in hints \ memory[Own(w)].learned
    /\ Learn(w, Control(w, s))
    /\ UNCHANGED <<disk, hints, madeScripts, jobs, progress, reports, faults>>

(* There is none, or it does not work either: Seacrawl, while the test and *)
(* the run may still ask.                                                  *)
MayAsk(w) == calls[w].test < CallsPerTest /\ calls[w].run < CallsPerRun
AskSeacrawl(w, s) ==
    /\ At(w, "step") /\ First(w, s) /\ step[w] <= Len(StepsOf[s]) /\ MayAsk(w)
    /\ calls' = [calls EXCEPT ![w] = [test |-> @.test + 1, run |-> @.run + 1]]
    /\ Goto(w, "seacrawl")
    /\ UNCHANGED <<stores, jobs, todo, step, results, reports, faults>>

(* Its locator works: _save_learned_locator remembers it and sends it to   *)
(* Redis, and then stores the manifest under the worker's own id, which    *)
(* has the worker's scripts and the directory of the whole generation.     *)
SeacrawlHelps(w, s) ==
    /\ At(w, "seacrawl") /\ First(w, s)
    /\ Learn(w, Control(w, s))
    /\ hints' = hints \cup {Control(w, s)}
    /\ Goto(w, "saving")
    /\ UNCHANGED <<disk, madeScripts, jobs, todo, step, results, calls, reports, faults>>
ChunkOf(w) == Chunk(DOMAIN memory[Own(w)].life, w[2], count[w[1]])
ManifestOf(w) ==
    [life |-> [s \in ChunkOf(w) |-> memory[Own(w)].life[s]],
     learned |-> memory[Own(w)].learned]
LearnedSaved(w, s) ==
    /\ At(w, "saving") /\ First(w, s)
    /\ disk' = [disk EXCEPT ![Own(w)] = ManifestOf(w)]
    /\ ToNextStep(w)
    /\ UNCHANGED <<memory, hints, madeScripts, jobs, reports, faults>>

(* The report of a worker, under its own id, or of the only worker.        *)
WorkerIdParents(w) == Own(w)
WorkerId(w) == w
SaveWorkerReport(w) ==
    /\ At(w, "next") /\ todo[w] = {} /\ count[w[1]] > 1
    /\ SaveReport(w[1], WorkerId(w), results[w])
    /\ Goto(w, "done") /\ Returns(w, results[w])
    /\ UNCHANGED <<stores, jobs, faults>>
SaveOnlyReport(w) ==
    /\ At(w, "next") /\ todo[w] = {} /\ count[w[1]] = 1
    /\ SaveReport(w[1], Own(w), results[w])
    /\ EndJob(w[1], "completed")
    /\ Goto(w, "done") /\ Returns(w, Empty)
    /\ UNCHANGED <<stores, target, count, faults>>
-----------------------------------------------------------------------------
(* The job waits for all workers, or for the first exception: the other    *)
(* workers then go on by themselves.                                       *)
Team(j) == {j} \X (0..(count[j] - 1))
MergedResults(j) ==
    [s \in UNION {DOMAIN results[w] : w \in Team(j)} |->
        results[CHOOSE w \in Team(j) : s \in DOMAIN results[w]][s]]
MergeReports(j) ==
    /\ status[j] = "running" /\ count[j] > 1 /\ \A w \in Team(j) : At(w, "done")
    /\ SaveReport(j, target[j], MergedResults(j))
    /\ EndJob(j, "completed")
    /\ results' = [w \in Workers |-> IF w[1] = j THEN Empty ELSE results[w]]
    /\ UNCHANGED <<stores, target, count, at, todo, step, calls, faults>>
JobFails(j) ==
    /\ status[j] = "running" /\ \E w \in Team(j) : At(w, "raised")
    /\ EndJob(j, "failed")
    /\ UNCHANGED <<stores, target, count, progress, reports, faults>>

(* The service restarts: jobs and memory are gone, files and Redis stay.   *)
ServiceRestart ==
    /\ Fault
    /\ memory' = Empty
    /\ status' = [j \in Jobs |-> IF status[j] = "none" THEN "none" ELSE "lost"]
    /\ at' = [w \in Workers |-> "idle"]
    /\ todo' = [w \in Workers |-> {}]
    /\ step' = [w \in Workers |-> 1]
    /\ results' = [w \in Workers |-> Empty]
    /\ calls' = [w \in Workers |-> NoCalls]
    /\ UNCHANGED <<disk, hints, madeScripts, target, count, reports>>
-----------------------------------------------------------------------------
ScriptStep(w, s) ==
    \/ SkipBlocked(w, s) \/ OpenPage(w, s) \/ ScriptFails(w, s) \/ ScriptPasses(w, s)
    \/ StepPerformed(w, s) \/ HintFound(w, s) \/ AskSeacrawl(w, s)
    \/ SeacrawlHelps(w, s) \/ LearnedSaved(w, s)
WorkerStep(w) ==
    \/ WorkerRaises(w) \/ SaveWorkerReport(w) \/ SaveOnlyReport(w)
    \/ \E s \in Scripts : ScriptStep(w, s)
JobStep(j) == Begin(j) \/ ExecuteManually(j) \/ MergeReports(j) \/ JobFails(j)
ServiceStep ==
    \/ \E j \in Jobs : JobStep(j)
    \/ \E w \in Workers : WorkerStep(w)

Requests ==
    \/ \E g \in Generations : Generate(g) \/ GenerateFromCache(g)
    \/ \E j \in Jobs, g \in Generations : StartJob(j, g)

ScriptNext == ServiceStep \/ Requests \/ ServiceRestart

(* The loop runs what is ready, and every await has a timeout.             *)
ScriptSpec == ScriptInit /\ [][ScriptNext]_scriptVars /\ WF_scriptVars(ServiceStep)
-----------------------------------------------------------------------------
Places == {"idle", "next", "step", "seacrawl", "saving",
           "done", "raised"}
Statuses == {"none", "queued", "running", "completed", "failed", "lost"}
Outcomes == {"passed", "failed", "blocked", "skipped"}

Manifests == [life : UNION {[S -> Lifecycles] : S \in SUBSET Scripts}, learned : SUBSET Controls]
ResultSets == UNION {[S -> Outcomes] : S \in SUBSET Scripts}

(* Manifests, jobs, the positions of the workers and reports keep their    *)
(* types.                                                                  *)
StoresTyped ==
    /\ DOMAIN memory \subseteq DOMAIN disk /\ DOMAIN disk \subseteq Generations
    /\ \A g \in DOMAIN memory : memory[g] \in Manifests
    /\ \A g \in DOMAIN disk : disk[g] \in Manifests
    /\ hints \subseteq Controls /\ madeScripts \subseteq Selections
JobsTyped ==
    /\ status \in [Jobs -> Statuses]
    /\ target \in [Jobs -> Generations \cup {NoGeneration}]
    /\ count \in [Jobs -> 0..MaxWorkers]
ProgressTyped ==
    /\ at \in [Workers -> Places]
    /\ todo \in [Workers -> SUBSET Scripts]
    /\ step \in [Workers -> Nat \ {0}]
    /\ results \in [Workers -> ResultSets]
    /\ calls \in [Workers -> [test : 0..CallsPerTest, run : 0..CallsPerRun]]
ReportsTyped == \A r \in reports : r.job \in Jobs /\ r.results \in ResultSets
ScriptTypeOK ==
    /\ StoresTyped /\ JobsTyped /\ ProgressTyped /\ ReportsTyped
    /\ faults \in 0..MaxFaults

(* A failure counts as reproduced, and a pass as a verified fix, only when *)
(* an earlier execution of the generation saw the script fail: what the    *)
(* workers of the same execution save does not count.                      *)
(* (_has_prior_failure, _save_report)                                      *)
EarlierFailure(r, s) ==
    \E q \in reports : q.id = r.id /\ q.job # r.job /\ s \in ScriptsWith(q.results, "failed")
TicketsReproduced ==
    [][\A r \in reports' \ reports :
          \A s \in r.reproduced \cup r.verified : EarlierFailure(r, s)]_scriptVars

(* A job that completes has a report with a result for every script of the *)
(* generation, whatever workers they ran on, and says "blocked" of the     *)
(* blocked ones only.  (execute)                                           *)
Complete(r) ==
    LET life == Generation(r.id).life IN
    /\ DOMAIN r.results = DOMAIN life
    /\ \A s \in DOMAIN life :
          /\ life[s] = "Blocked" => r.results[s] \in {"blocked", "skipped"}
          /\ r.results[s] = "blocked" => life[s] = "Blocked"
ReportComplete ==
    [][\A j \in Jobs : status[j] # "completed" /\ status'[j] = "completed" =>
          \E r \in reports' \ reports : r.job = j /\ r.id = target[j] /\ Complete(r)]_scriptVars

(* A learned locator that reached the manifest on disk stays there,        *)
(* whichever worker of whichever job writes the file next, and after a     *)
(* restart too.  (_save_learned_locator, generation)                       *)
LearnedKept ==
    [][\A g \in DOMAIN disk :
          g \in DOMAIN disk' /\ disk[g].learned \subseteq disk'[g].learned]_scriptVars

(* Every job that was started ends, whatever its workers run into.         *)
(* (start_execution_job, execute)                                          *)
JobsEnd == \A j \in Jobs : status[j] \in {"queued", "running"} ~> status[j] \notin {"queued", "running"}

(* Stronger statements the code does not keep (README).                    *)
ManifestComplete == \A g \in DOMAIN memory \cap DOMAIN disk :
                        DOMAIN memory[g].life \subseteq DOMAIN disk[g].life
BlockedStays == \A g \in DOMAIN memory : \A s \in DOMAIN memory[g].life \cap DOMAIN disk[g].life :
                    memory[g].life[s] = "Blocked" => disk[g].life[s] = "Blocked"
RunBudget == \A j \in Jobs : \A v, w \in Team(j) :
                v # w => calls[v].run + calls[w].run <= CallsPerRun
=============================================================================
