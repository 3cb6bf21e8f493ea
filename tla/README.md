# Verification of the accelerators in this repository

This directory holds TLA+ models of the stateful parts of the repository, the
TLC configurations that check them on small instances, and TLAPS proofs of
their main invariants for every instance. The models are written from the code
under `src/`; `PROJECT.json` names, for every definition that stands for code,
the file and the lines.

Paths below are relative to `src/test-case-accelerator/backend/app/` (called
TCA) unless they start with `src/`; TCG is `src/Test-Case-Generation/backend/`,
FBA `src/Final-BA/Final-BA/backend/`.

## 1. Inventory

The repository integrates four applications that share no state. TCA carries
most of the persistent, concurrent protocol logic; TCG and FBA each have a
workflow with a reviewer in it; cd-se-accelerators is a sequential pipeline.

| Component | State | Operations | Interacts with | What is hard |
|---|---|---|---|---|
| Code-understanding repository (`database/repositories/code_understanding_repository.py`, `database/models/code_understanding.py`) | one `code_understanding_runs` row per dependency run: status, `result` JSON (artifacts of the stages), failed stage, last successful stage | `create_run`, `mark_running`, `prepare_*`, `save_*`, `complete`, `fail` | service, PostgreSQL | every method rewrites columns from the session's copy |
| Code-understanding service (`services/code_understanding/`) | the in-memory payload of a request, the project row lock, the Redis entries | `run`, `understand`, `retry`, `force_rerun`, `generate_test_cases`, `retry_test_generation`, `verify_test_cases`, `optimize_test_quality` | repository, Redis, agents, quality loop | requests that overlap, commits that release the lock, crashes, deployments of another version |
| Quality loop (`services/quality_loop_service.py`) | suite, verification, best suite, iteration; checkpoints in the row and in Redis | `run`, resume, merge, finalise | agents, service | resume after a failure at any commit, destructive merges |
| Security scan runs (`services/security_scan/`, its repository and model) | `security_scan_runs` rows, row locks, a partial unique index | `run`, `retry` | workflow service, Semgrep, storage | look-then-create, stale session copies, rows left `running` |
| Workflow service (`services/workflow_service.py`) | none of its own: reads the rows of all stages | `run_through_stage_four`, `continue_from`, `resume`, `state` | all services; runs Stage 2 in two threads | check-then-act over rows others change |
| Dependency discovery (`services/dependency/`) | `dependency_runs` row, project status | `run` | ingestion, workflow, Redis | several commits |
| Runtime validation (`services/runtime/runtime_validation_service.py`) | runtime run row; fails and completes the pipeline run | `run`, `retry_pipeline` | repository, SUT manager, execution manager | two rows in two commits, exceptions before the `try` |
| SUT backend manager (`services/runtime/sut_backend_manager.py`) | process under test, lease, port | `ensure_running` | operating system | port chosen before it is bound, start-up timeout, child that outlives the server |
| Ingestion and deletion (`services/ingestion/`) | project row, directory, staged directory | upload, clone, delete | storage, database | compensation of a half-done deletion |
| Redis cache (`infrastructure/redis/`) | entries with a TTL | `get`, `set`, `delete`, `clear_project` | service, loop | errors are swallowed: writes and deletes may be lost |
| Commit retry (`database/retry.py`) | none | bounded retry of a transient error | repositories | rollback releases locks, values are replayed |
| Agents (`agents/`) | none | generate, verify, evaluate | model providers | their answers are arbitrary |
| TCG crawl jobs (`src/.../services/automation_service.py`) | process-wide crawl limits, reports by address, discovery cache, a job's frontier | start, stop, the crawl, the look-up of a report | browser, application under test | overlapping jobs on shared settings; stops; truncated crawls |
| TCG generated scripts and their execution (same file, `services/seacrawl_service.py`) | generations in memory and on disk, execution jobs, learned locators, reports | generate, execute on several workers, recover a step, report | browsers, Seacrawl, Redis | workers of several jobs share one manifest and one history of reports; an exception of one; restarts |
| TCG workflow service (`services/workflow_service.py`, `orchestrator/`) | state objects, tasks, a file per workflow, cached results | start, cancel, resume, decide, regenerate, approve, restart | agents, Redis | several tasks write one state; restarts |
| TCG model client (`llm/client.py`) | semaphores, time of the last request, cooldowns, shared by all workflows | ask, retry, fail over | providers | cancellation at an await, nested retries |
| Human execution (`src/Test-Case-Generation/human_execution/`, called HX) | a session in memory and its row, a headed browser, the newest task, a lock | start, record, finish, cancel | Playwright, PostgreSQL, TCG's generation manifests | requests, callbacks and failures that fall between a task's awaits |
| FBA story workflow (`app/orchestrator`, `app/services`) | versions of one JSON document in PostgreSQL, the latest in Redis | run, retry, regenerate, modify, undo, approve | agents, Redis | whole documents read, changed and written without a lock |
| cd-se-accelerators | run records | a sequential pipeline | analysers | best-effort database updates |

What makes the components correct:

* **Pipeline run** - a dependency run has one pipeline run; one request at a
  time executes it; a request never overwrites what another one stored; what is
  published is complete, of one suite and of the deployed version; a persisted
  Stage 3 survives failures; a run that is RUNNING ends.
* **Quality loop** - the best suite is never lost, a merge never removes the
  last verified case of a scenario (as long as ids that differ in letter case only
  are of one scenario), a resumed loop can still evaluate.
* **Security scans** - only a dead request blocks a project; the status
  `retry()` checked stands until it commits; a request never waits for ever.
* **Project workflow** - when nobody is served nothing is under way; Stage 3
  stands on a completed discovery and scan; a validation that failed can be
  retried; a validation talks to the server it started and leaves none behind.
* **Crawl jobs** - a crawl that is published or cached as complete left out
  nothing of what its owner was asked for; a stop is obeyed.
* **Script execution** - a completed job has a result for every script; a failure
  counts as reproduced only after an earlier execution; what was learned stays.
* **Test-case workflow** - only what was validated or approved is cached or
  shown as completed; a cancelled workflow stays cancelled; an idle one shows a
  status somebody can act on.
* **Model client** - requests keep their distance; retries, regenerations and
  failovers are bounded; a finished generation has every scenario.
* **Human execution** - whoever ends a session closes its browser; one recording
  is published once; no failure leaves a session half-way.
* **Story workflow** - Redis shows only what PostgreSQL holds; COMPLETED means
  judged; the snapshots of an artifact are numbered without gaps.

`PROJECT.json` lists every component, the unmodelled ones with the reason, and
the hazards with their lines and the properties that watch them.

## 2. Modules

| Module | Content |
|---|---|
| `CodeUnderstandingRepository` | the row, its `result` and one operator per repository method; `Merge`, what an ORM commit writes: the columns that changed, over the row in the database |
| `PipelineRun` | the service: concurrent requests, one commit per step, over the repository's operators, the project lock, Redis and the deployed version |
| `PipelineResume` | the same steps from a database that already holds completed or failed runs |
| `BestSuite` | abstract: what the quality loop promises about the best score |
| `QualityLoop` | the loop of `optimize_test_quality` with its checkpoints; implements `BestSuite` |
| `SecurityScan` | the scan runs of a project: scan, retry and resume requests, the row lock, the unique index, requests that die |
| `ProjectState` | one project: the rows of all its runs, its files, the requests on it |
| `StageGates` | the workflow service over that state: approvals, Stage 2 on two threads |
| `ProjectPipeline` | the pipeline as the stage gates drive it, over the repository's operators |
| `RuntimeValidation` | the validation of a pipeline row, the server under test and its lease |
| `ProjectWorkflow` | upload and deletion; the composition of the four modules above it |
| `ApplicationCrawl` | TCG's crawl jobs over one application |
| `ScriptExecution` | TCG's generations of scripts, their execution by workers and its reports |
| `TestCaseWorkflow` | TCG's workflow service, graph and result cache |
| `ModelClient` | TCG's model client under its test-case agent, in ticks |
| `HumanExecution` | HX: one recorded session and its tasks |
| `StoryWorkflow` | FBA's workflow: documents, versions, Redis and overlapping requests |
| `*Proofs` | theorems and proofs of the module they are named after; `PipelineProofs` of `PipelineRun` and `PipelineResume`, `QualityAndScanProofs` of `QualityLoop` and `SecurityScan`, `ProjectProofs` of `ProjectWorkflow`, `TestCaseAndScriptProofs` of `TestCaseWorkflow` and `ScriptExecution` |
| `MC*` | values of the constants for TLC |

A definition whose comment says "For a mutant" is a plausible bug of a
definition after it. No specification uses it; `PROJECT.json` pairs it with the
property that must notice it.

### How state and actions correspond to the code

**PipelineRun.** `rows[d]` is the row of dependency run `d`. A request (`req[w]`)
carries the row its SQLAlchemy session holds and the in-memory payload
(`stage3_payload`). Steps are the commits of the code: between two of them
other requests run. `CommitTo` writes only the columns the method changed
(ORM update), refreshes the session's copy and, because a commit ends the
transaction, releases the `FOR UPDATE` lock on the project. Admission
(`_execute_understanding`) is `BeginRun`, then one of `AdmitCreate`,
`AdmitLegacy`, `AdmitStale`, `AdmitResume`; `retry()` and `force_rerun()` check
and rewrite the row without the lock before they ask for it (`RelockCurrent`,
`RelockStale`). Then the Stage 3 cache look-up (`ReturnCachedRun`, `EnterTry`)
and the stages, each skipped when its artifact is in the payload. `Fail` is an
exception that is recorded, `DieUnrecorded` one that is not (before the `try`,
or when `_safe_fail_run` cannot store it), `Restart` ends every request and may
deploy another version. Suites are an id and the generator's version; a
verification, an optimization and a plan are represented by the suite they were
computed from. A refused request changes nothing and is not a step.

**QualityLoop.** `loop` is the running call, `stored` the row's
`quality_checkpoint`, `cached` Redis's copy, `outcome` the delivered
`quality_optimization`. A case is its id and its content (scenario and expected
outcome), a check a verifier status about one content. `Begin` resumes from the
checkpoint or starts afresh, `CheckpointVerification`, `Evaluate`,
`GenerateBatch` and `MergeReplacements` each end in the commit the code makes
there, `Abort` is an exception or a crash at any point. A check also says whether
its case was found a duplicate. `Merged` is `_merge_regenerated`: each selected
case takes a replacement that is stronger, new ones join, then a scan keeps one of
the cases alike (one behaviour, or one id by `str.casefold`, here `Folded`), the
unsupported ones go, and a second scan keeps one of those that contradict each other
(`Selected`). Of the strength of a case only the rank of its verification is
modelled: between equal ranks, and in the order of a scan, the model is free. The
score is any number
within `Score`; since the overall score is at most coverage and completeness it
decides alone whether the threshold is met. `ReplaceSuite` stands for
`save_test_generation` and `prepare_forced_rerun`, which the pipeline calls
between loops. The pipeline's own call of the loop, without checkpoints, is
`RunQualityLoop` in `PipelineRun`.

**SecurityScan.** `runs` are the rows' statuses in creation order, `lock` the
`FOR UPDATE` row locks, `req[w].seen` the copy the request's session has: a row
already in the session is returned as it was loaded (`Latest`), whatever the
database says now. `Look` and `Create`/`PrepareRetry` are separate steps because
nothing holds the row between them. `IndexAllows` is the partial unique index.
A request that dies stays `dead` with the row it was scanning.

**ProjectWorkflow and its parts.** The variables are the tables and directories
of one project: `project`, `deps`, `scans`, `rows`, `runtimes`, `disk`,
`staged`, `cachedRun` (the Redis entry a pipeline may hit), the running `servers`
and their `folders`. A request is a program counter over the statements of its
handler, with the copies its session holds (`row`, `scanSeen`). `StageGates`
computes the approval state from the newest run of each kind, admits one
transition and runs discovery and scan as the two branches of Stage 2, which
`Join` waits for. `ProjectPipeline` reuses the repository's operators, with the
admission under the lock as one step. In `RuntimeValidation` a validation
chooses a port, starts a child, polls it, executes and closes it; the child
binds the port by itself, or finds it taken and exits (`ServerStarts`), and a poll
is answered by whoever bound the port. `ProjectWorkflow` adds upload and
deletion with their compensations, faults (a stage's work, a commit, Redis,
storage) and a stop of the server, with (`orphan`) or without a child that was
just starting.

**ApplicationCrawl.** `settings` are the process-wide limits a job overrides and
restores, `shown` which job's report each address shows, `found` the discovery
cache. A job goes through the statements of `crawl_and_generate` and `_discover`
that a suspension separates; `pending`, `visited`, `queued` are the frontier
(breadth first, in the order the code sorts it), `gap` that something was left
out. A single-page crawl lists only the page at the address it was asked for
(`Listed`). The application is a constant: pages, redirects, links, buttons.

**ScriptExecution.** `memory` and `disk` are the manifests of the generations
(`_generations`, `generation.json`): the lifecycle of every script and the
locators learned for it. `hints` and `madeScripts` are what Redis holds. A job
splits the scripts over its workers as the slices do (`Chunk`); a worker is
suspended at `at[w]`, with its results and its calls to Seacrawl. A worker runs
under an identifier of its own, here the worker itself, and a job's only worker
under the generation's (`SaveWorkerReport`, `SaveOnlyReport`); the manifest a
worker stores has its own scripts and the directory of the whole
(`LearnedSaved`). An exception outside a script ends the worker and with it the
job, while the other workers go on (`WorkerRaises`, `JobFails`).

**TestCaseWorkflow.** `objects[w]` are the state objects that tasks have made
for a workflow and `current[w]` the one a reader sees: the graph works on a copy
and replaces the object when it ends, a continuation and a single-item
regeneration write the object they hold. Scenarios and cases are the generation
that made them plus the number of edits; `scenarioJudged`, `caseJudged` say what
a validation or a reviewer said of which of them. `file` and `cache` are what a
restart and a later workflow read.

**ModelClient.** `agents[a]` is the call stack of one generation: batch, what it
has, provider and attempt of the request. `queue`, `since` and `cooling` are the
registries all clients share. A free semaphore is taken without a suspension, so
asking and sending are one step when nobody holds it. `Tick` is time.

**HumanExecution.** A task (the launch, the report of a lost browser, an action,
a request to finish with the task it creates, a cancellation) is suspended at
`at[t]`, which names what it awaits; a step is the code up to its next `await`.
`waiting` is the session's lock with its queue, `browser` and `closing` are the
recorder's window and `closed_by_user`. Every write suspends its task and may
fail; where the exception goes is the difference between `SaveFailsTask`,
`FinalSaveFails`, `FinishFails` and `AppendFails`. A browser that is still
starting when its launch is stopped ends with its driver.

**StoryWorkflow.** `rows` are the versions in PostgreSQL, `cache` the document in
Redis, `planCache` the planning cache of the project. A request is the program
of its handler (`stage`) around reads and saves (`io`) in the order of the code:
flush, commit, Redis. `mine` is its copy of the whole document; the graph's copy has
no `artifact_versions`, which is no key of its state (`InGraph`), so a run drops the
snapshots of the document it began with. A request may bring any part of the
planning along (`Merged`), and the graph begins after the latest stage it has.

## 3. Runs

Bounds are the CONSTANTS of each `.cfg`. All runs but `ModelClient` say
`CHECK_DEADLOCK FALSE`: with no request that can be admitted (a run left RUNNING
by a fault, no room for another row, every request made) the service rests, and
a refused request is not a step. In `ModelClient` time goes on.

| Run | Question | Bounds and why they suffice |
|---|---|---|
| `PipelineRestart` | with retries, forced reruns, failures, crashes and deployments at every commit, is what is published always coherent (`PublishedCoherent`)? | one request at a time, two suites (one can replace another), two versions (one deployment makes everything stale) |
| `ResumeExclusion` | over existing rows: one executor (`ExclusiveExecution`), no lost update (`RowInHandIsCurrent`), Stage 3 kept (`Stage3Kept`) | three workers, two dependency runs with each kind of row earlier requests can leave, all faults, two versions; workers and dependency runs are symmetric and no property is temporal beyond one step |
| `StagedEndpoints` | every single-stage endpoint, retry and forced rerun in any sequence: the plan belongs to the suite (`PlanMatchesSuite`), a started run ends (`EveryRunEnds`) | one request at a time, two suites, failures; `run` is left out, with it the plan can be stale (section 6) |
| `QualityLoop` | failures and resumes at any commit, regenerated cases that clash with others by id, behaviour or expectation: the loop implements `BestSuite` (`BestNeverLost`), merges keep verified scenarios (`MergeKeepsVerified`) | three cases, two of which have one id but for letter case, two scenarios, two outcomes (duplicates and contradictions occur); a case of each scenario is submitted, verified, partial or a duplicate; two iterations (the code's maximum) of two batches, two scores |
| `SecurityScan` | three overlapping requests of any kind, each of which may die: a running row has its scanner (`RunningHasScanner`), what `retry()` checked holds (`RetryDecisionHolds`), nobody waits for ever (`EveryRequestEnds`) | three workers: a retry that waits for another's lock while a third runs; up to four rows, so a failed row can be older than another failed row |
| `ProjectWorkflow` | requests of all kinds on one project: nothing is left under way (`Settled`), Stage 3 keeps its gate (`StageThreeGate`), a failed validation can be retried (`RuntimeRetryable`), a validation has its own server (`ServerOwned`), every request ends (`RequestsEnd`) | 14 mixes of two or three requests on a project in five stored conditions, one kind of fault per behaviour, three ports, four runs of each kind; one project, since projects share nothing but ports; a mix is chosen so that every pair of operations that write a common row overlaps |
| `ApplicationCrawl` | two crawls of one application, stopped, blocked or failing at any step: a crawl reported or cached as complete, by the job itself or an overlapping one, left out nothing of what its owner was asked for (`PublishedCovers`, `CacheCovers`), a stop is obeyed (`StopBounds`), every job ends (`JobEnds`) | two jobs (each overrides the other's limits), one possibly of one page, which may redirect; an application with a redirect, a cycle, a page only a button opens and a foreign page; limits that can cut it and that cannot |
| `TestCaseWorkflow` | tasks, regenerations and a reviewer on one workflow, with a restart: only judged results are cached or completed (`CachedValidated`, `CompletedValidated`), a cancelled workflow revives only by an orphan (`OnlyOrphansRevive`), an idle one is settled (`SettledWhenIdle`), every task ends (`TasksEnd`) | three tasks (a graph, a continuation and a regeneration, or two of a kind), two attempts (one regeneration), one restart, a cache that may hold an earlier workflow's result; a reviewer's corrections restore the original payload, since the model only tells judged from unjudged |
| `ModelClient` | two generations over two shared providers that fail in every way and are cancelled anywhere: requests keep their distance (`SpacingKept`), a finished generation is complete (`RunsComplete`), every generation ends (`RequestsEnd`) | one slot, one retry, two scenarios in a batch (an answer can leave one out); interval, cooldown and waits of one tick |
| `StoryWorkflow` | pairs of overlapping requests on one workflow, one fault: Redis shows what PostgreSQL holds (`CacheCommitted`), COMPLETED means judged (`CompletedJudged`), the snapshots a document has are numbered (`HistorySound`), a request leaves the workflow settled (`Settled`), every request ends (`RequestsEnd`) | twelve pairs of requests, each made once and cut anywhere by the other; one epic and one story with two wordings; two planning nodes instead of five (the three left out only save the document again); one failed write, lost cache write or expiry |
| `ScriptExecution` | two executions of one generation on two workers each, with an exception or a restart at any point: a failure is reproduced only after an earlier execution (`TicketsReproduced`), a completed job has every result (`ReportComplete`), a learned locator stays on disk (`LearnedKept`) | three scripts on two workers (an uneven split; a script without steps), two controls, so that a worker can learn what another one asked for; one generation, one of whose forms is blocked and already in Redis; one call to Seacrawl for each test and run; jobs are symmetric |
| `HumanExecution` | one session with overlapping requests, a browser that may be lost and one failing write: whoever ends a session closes its browser (`NoBrowserLeft`), without a failing write it records or is over (`Settled`), only a request to finish takes up a session that is over (`OverUnlessFinishing`), every task ends (`TasksEnd`) | two actions, one a navigation (the lock is waited for; a recording can have nothing to execute), two requests to finish, one cancellation, one fault at any write; a second fault only ends a task that has already failed |

`EveryRunEnds` is stated without the `lost` and `restart` faults: with them the
code does leave rows RUNNING (section 6). `PublishedCoherent` passes only where
the full pipeline completes runs. `ExclusiveExecution` passes over existing rows
without `retry`; on creation there is a window (section 4). In
`ScriptExecution` every job also ends (`JobsEnd`, checked with two scripts); it
is left out of the run because it needs every job told apart. In
`ProjectWorkflow`, `Settled` and `RuntimeRetryable` speak of requests made one
after the other, as `ServerOwned` does of the port; the other properties, and
the part of `StageThreeGate` that concerns the discovery, of any overlap.

### Fairness

`FairSpec` of the pipeline is weak fairness of `Progress(w)` for every worker: a
request thread is scheduled until its request ends. Stages run under the
client's timeouts, whose expiry is an exception (`Fail`). Nothing is assumed
about `Begin`, faults or the number of quality checkpoints beyond that.
`FairSpec` of the scans is strong fairness of `Progress(w)`: the scanner has a
timeout, and PostgreSQL queues those who wait for a row lock, so a waiting
request is not overtaken for ever. `Die` is not fair.

`ApplicationCrawl` has weak fairness of every job's steps: the event loop runs
what is ready and every await on the browser has a timeout. The other models
have one weak fairness condition on the steps of all requests together
(`ProjectWorkflow`, `StoryWorkflow`, `TestCaseWorkflow`, `ModelClient`,
`HumanExecution`): since
each request can take only finitely many steps unless the code loops, and the
number of requests is bounded, that is enough, and it assumes no order between
them. `ModelClient` also needs time to pass (`Tick`). Requests, cancellations,
the person at the browser and its loss, faults, restarts and the start of a child process are never fair.

## 4. Findings

### Known disagreements

The models contain further definitions that state what a document or a comment
says and that the code does not keep. They are not among the properties of a
run; TLC refutes each of them with the constants given here.

| Definition | Says | What the code does | Refuted with |
|---|---|---|---|
| `ExclusiveExecution` on creation | `code_understanding_service.py:269` "Workflow resume is already running for this project", and `tests/unit/test_stage_pipeline_service.py`, where a second execution is refused | `create_run` commits, and so unlocks, a PENDING row; a second request executes the same run before `mark_running` | `PipelineRun`, two workers, one dependency run, `Ops = {"run"}`, no fault |
| `Stage3Kept` with `retry` | `code_understanding_service.py:143` "Resume a failed pipeline run from its first incomplete stage." | only `complete()` stamps the version, so `retry()` takes an interrupted run for a stale one and clears its result | `PipelineRun`, one worker, `Ops = {"run", "retry"}`, `Faults = {"fail"}` |
| `PublishedCoherent` with `understand` | `code_understanding_service.py:1311` "Suppressing partial or stale pipeline artifacts" | `understand()` on a run that failed in a later stage completes and stamps the whole old payload: a suite without verification is published | `PipelineRun`, one worker, `Ops = {"run", "understand"}`, `Faults = {"fail"}` |
| `UnderstandPersists` | `code_understanding_service.py:218` "Run and persist Stage 3 only." | a cache hit after `mark_running` returns another run and leaves the request's own run RUNNING, which refuses all later requests | `PipelineRun`, two dependency runs, `Ops = {"run", "understand"}` |
| `DeliveredAsVerified` | `quality_loop_service.py:913` "Enforce final-suite uniqueness and deterministic support." and `tests/unit/test_quality_loop_service.py:174` | a checkpoint of regenerated cases has no verification; the resumed loop takes the client's, about other cases with the same ids | `QualityLoop.cfg` |
| `OptimizesSupplied` | `code_understanding_service.py:934` "Run the independent Stage 6 optimization loop from supplied Stage 5 data." | Redis's checkpoint outlives its loop and replaces the suite a later call submits | `QualityLoop.cfg` |
| `NonDestructiveMerge` | `quality_loop_service.py:84` "quality-ranked-non-destructive-merge-v2" | ids are compared without letter case: a stronger new case whose id differs from that of another scenario's verified case in letter case only replaces it, and that scenario has no case left | `QualityLoop.cfg` |
| `LimitsRestored` | `automation_service.py:2677` (TCG) "Temporarily override crawl limits for this request" | a second job remembers the first one's limits as the originals and puts them back for good | `ApplicationCrawl.cfg` |
| `PublishedAsAsked` | `src/Test-Case-Generation/frontend/testCase Frontend/pages/UrlCrawlerPage.tsx:237` "Full Application (Discover & Crawl Sub-links)" | a whole-site job that finds the report of an overlapping single-page job at its address publishes that one page as its completed crawl | `ApplicationCrawl.cfg` |
| `ManifestComplete` | `automation_service.py:2955` (TCG) "The full source is stored in the Redis generation manifest." | a worker that learns a locator overwrites `generation.json` with the scripts of its own slice | `ScriptExecution.cfg` |
| `BlockedStays` | `automation_service.py:2266` (TCG) "Marked as BLOCKED." | a later generation of the workflow marks every script of the earlier manifests on disk, the blocked ones too | `ScriptExecution.cfg` with two generations |
| `RunBudget` | `docs/playwright-skyvern-automation.md` (TCG) `SEACRAWL_MAX_CALLS_PER_RUN` | the calls are counted by each worker | `ScriptExecution.cfg` |
| `CachedScenariosValidated` | `docs/redis-cache.md:9` (TCG) "Validated test scenarios and validation result" | an approval overtaken by a resumed graph caches scenarios nobody judged | `TestCaseWorkflow.cfg` |
| `PlanKept` | `workflow_service.py:310` (FBA) "Regenerate one epic while preserving the remainder of the plan." | `regenerate_epic` starts from the planning cache, which an undo does not touch: the undone epic comes back | three requests of `Reviewer`, two epics, `Plans = {}`, `Planning = 5`, `EpicNode = 3`, no fault |
| `SnapshotsKept` | `workflow_service.py:405` (FBA) "Undo an artifact to a previous version." | `artifact_versions` is no key of the graph's state: a validation or a review that runs the graph saves the document without the snapshots made before, and an undo answers 404; a generation numbers its own from 1 again | `StoryWorkflow.cfg` |
| `TerminalIsFinal` | `api.py:103` (HX) stops the live socket of a session that is completed, failed or cancelled | a request to finish that waits for the login check when the session is cancelled goes on: it generates, stores and publishes, and the session is completed | `HumanExecution.cfg` |
| `RecordingHasBrowser` | `README.md:55` (HX) "checks that the browser is open" before a recording can be finished | a browser lost while the launch announces it is reported before the session records, which nobody notices: it then records without a browser, and can only be cancelled | `HumanExecution.cfg` |

## 5. Proofs

All theorems hold for every value of the constants that satisfies the named
assumptions. Liveness stays with TLC.

* `PipelineProofs` - `TypeSafety` (`TypeOK`), and
  `OnePipelineRunPerDependencyRun` (`CreateExclusion`, which no run repeats). It is not
  inductive: a request about to insert must be known to hold the lock, any other
  request that writes the row must hold an existing row, and rows are never
  removed. `AdmissionInv` adds these three facts (`AdmitHoldsLock`,
  `AdmittedExists`, `SeenStillExists`). The actions are first brought into five
  forms (start, move, commit, commit and end, restart), and each form is proved
  once.
  - Over existing rows: `AtMostOneExecutor`, `NoLostUpdate` and `CompletedStays`
    (`CompletedIsFinal`, which no run repeats), for any workers, dependency runs,
    suites, versions and faults, under the assumption that the requests are `run`
    and `understand` only. So `CompletedStays` says that those two never rewrite
    what the same code version has completed; retries, forced reruns and the
    single-stage endpoints rewrite it by design and are outside. `ExecutionInv` strengthens `ExclusiveExecution` with:
    the row read by an admitting request is the row in the database, and a run in
    flight is RUNNING. The second is why the admission's RUNNING check suffices;
    the first is why the check is still true at the commit. This is about
    requests of the pipeline's own endpoints: the workflow endpoints look at the
    newest row before they ask for the lock, and the lock does not refresh the
    copy their session holds, so that two of them can execute one row.
    `ProjectWorkflow` has these stale copies, and therefore no such property.
  - `Stage3IsKept` (`Stage3Kept`), under the same assumption: `PastStage3` adds
    that whoever executes a later stage holds a Stage 3 of the active version.
  - `PublishedIsCoherent` for one worker with `run`, `retry` and `force_rerun`,
    and `ResumedIsCoherent` for any number of workers that resume existing rows
    with `run` (both `PublishedCoherent`). A row is coherent if what follows an
    optimization is of its suite (`SuiteChain`), no stamped result has a plan
    without an optimization (`StampedPlan`), and a completed one holds Stage 3
    alone or everything derived from one suite (`WholeOrBare`); `Carries` says
    how the payload of a request agrees with its row, stage by stage. One worker, because `ExclusiveExecution` does not hold on
    creation (section 4); the existing rows are such as earlier requests leave.
  - `PlanIsOfItsSuite` (`PlanMatchesSuite`) for one worker, every endpoint but
    `run` and `understand`, and failures that are recorded: `RowsSettled` says
    what the plan of a row may be by its status and failed stage, `RequestsFit`
    the same of the copy a request works on. A failure between the optimization
    and its plan is the hard case: `SettledRow` has it end in a status from which
    a retry drops the old plan first.
* `QualityAndScanProofs` holds the theorems of two components that share nothing.
  - Of `QualityLoop`: `LoopTypes`; `ResumedLoopEvaluates` (`ResumeEvaluates`, which no
    run repeats) from `IterationInv` (every checkpoint's next iteration is within
    the limit); `RegenerationNotDestructive` (`MergeKeepsVerified`), through
    `MergedKeepsVerified`, which follows a verified case through update, addition
    and the two scans. A scan is a recursive function over sets of candidates:
    `SelectionsExist` shows that its definition has a solution and
    `SelectedCovers` that a scan whose clashes stay within a scenario leaves each
    scenario a case as strong as before, both because there is no smallest set of
    candidates for which it fails (`LeastNumber`). The hypothesis is that ids that
    differ in letter case only are of one scenario; without it the statement is
    false (`NonDestructiveMerge`, section 4). Then `LoopImplementsBestSuite`, the refinement. Its invariant `BestInv`
    says that from the first evaluation on the row's checkpoint holds the loop's
    own best suite, so a crash loses nothing.
  - Of `SecurityScan` (whose specification is `ScanSpec`): `ScanTypes`, for which
    `RoomInv` counts the rows that requests may still add; `RunningRowsAreScanned`
    and `RetryChecksUnderLock`, by `ScanInv`: a row becomes running only together
    with its scanner, leaves that status when any of its scanners ends it, and
    whoever writes a row holds or frees its lock in the same commit.
* `ProjectProofs` - `ProjectTypes`; `GateOfStageThree` (`StageThreeGate`),
  `FailureIsRetryable` (`RuntimeRetryable`) and `ServersAreOwned` (`ServerOwned`), for
  any requests, stored conditions, faults and ports, all from `ProjectInv`. Next to
  the types it says of the stores: one request at most makes the project
  (`UploadInv`), every pipeline row and every copy of one belongs to a discovery that
  nobody else writes (`GateInv`), for requests one after the other to a completed
  newest scan (`ScanInv`), and the newest validation of a row that failed at Runtime
  Validation failed too (`RuntimeInv`). Of every request it says, by its place in
  its handler, how the copies in its session agree with the stores (`Suits`):
  while nothing overlapped, its row is the row of the database, its validation the
  newest one, the scan it has seen the newest one, and the port it has found is
  free until its own child binds it. Nearly every one of the actions only moves a
  request, commits a pipeline row or writes one other store; these six forms are
  proved once each (`MoveKeeps`, `CommitKeeps`, `DiscoverKeeps`, `ScanKeeps`,
  `JudgeKeeps`, `ServeKeeps`), upload, deletion, a stop of the server and a starting
  child by themselves.
  - `ProjectSettles` (`Settled`), with any number of requests one after the other and
    any faults in their work or their commits, for mixes without a retry beside an
    approval of Stage 3 (`RetriesApart`; the end of this section says why).
    That nothing is left under way once no request is served is not inductive; what
    is (`SettledInv`) is an account of who is answerable: every run that is pending
    or running, a status of the project behind its last discovery and files that are
    not the project's belong to the request that is served, at a place of its handler
    from which it will still finish them (`RunsOf`, `StatusOf`, `FilesOf`). Three
    facts carry the cases that could go wrong. A request knows enough at each place
    not to be turned away half-way (`Knows`): the project is still there, the run it
    writes is the newest one, a row it has under way is still unfinished. A row that
    failed at Runtime Validation can be validated again, so a retry that has marked
    it RUNNING is admitted (`RowsSound`). And the cached run is that of the newest
    completed discovery (`CacheOf`), so a pipeline never takes the cache hit
    that would leave its own row RUNNING; only a retry of an older row breaks this, and
    then only an approval of Stage 3 looks at the cache. Steps are again of a few
    forms, proved once each (`LooseSteps`, `WithinStep`, `RowAccounts`,
    `DiscoveringAccounts`, `JudgingAccounts`, `FileAccounts`). TLC checked
    `SettledInv` before it was proved, for all triples of operations that meet
    `RetriesApart` on every stored project.
* `ApplicationCrawlProofs` - `CrawlTypes`; `StopIsObeyed` (`StopBounds`);
  `CachedCrawlsCover` (`CacheCovers`) and `PublishedCrawlsCover`, for any jobs,
  pages, links, redirects and limits. `CrawlInv` says what is still ahead: every
  link of a page in the inventory is visited, queued, at hand or foreign
  (`Frontier`), unless the crawl has given something up, and then it can neither
  be completed nor cached; a stopped job's inventory stays within what it was
  when the stop arrived (`Stopped`). What a job publishes may be another job's
  report: the one an address shows belongs to a job that was asked for that address
  (`ShownAtRoot`) and lists what its owner was asked for (`AsAsked`). The theorem
  therefore speaks of the owner's request; that it need not be the publisher's is
  `PublishedAsAsked` in section 4. A step of one job leaves the others' tasks as
  they are (`Apart`), so each part is proved for the job that moves.
* `ModelClientProofs` - `ClientTypes`; `CompleteWhenDone` (`RunsComplete`), by
  `ClientInv`: every batch before the present one is complete, and who asks for
  one scenario alone asks for exactly one; `RequestsAdvance` (`CallsBounded`, which no
  run repeats), because every answer either changes the request or moves it on by
  provider, attempt or regeneration; and `RequestsSpaced` (`SpacingKept`) for one
  slot per provider, the default: nobody else can hold the slot of a provider, so
  the interval a request waits for cannot start again meanwhile. With more slots
  the property fails, as the code then lets two holders wait for the same interval.
* `HumanExecutionProofs` - `SessionTypes`; `OneActionAtATime`; `OnePublication`
  (`PublishedOnce`, which no run repeats); `BrowserIsClosed` (`NoBrowserLeft`),
  `NothingHalfWay` (`Settled`) and `OverStaysOver` (`OverUnlessFinishing`), for any actions, requests and number of
  failing writes. `SessionInvariant` adds to the types: until the launch ends it is
  the newest task and no other request has begun (`LaunchFirst`); who is past the script's insert
  owns its row (`ScriptStored`); who appends holds the lock (`LockHeld`); and a
  browser that is open under a session that is over has somebody on the way to
  close it (`BrowserClosing`). For `NothingHalfWay`, unless a write failed, a
  session that neither records nor is over has a task on its way to end it
  (`Carried`).
* `TestCaseAndScriptProofs` holds the theorems of two components that share nothing.
  - Of `TestCaseWorkflow`: `WorkflowTypes`; `CacheValidated` (`CachedValidated`),
    `ShownValidated` (`CompletedValidated`), `IdleSettled` (`SettledWhenIdle`) and
    `CancelledStays` (`OnlyOrphansRevive`), for any workflows, inputs, attempts,
    tasks and restarts. Objects are shared by tasks, the reviewer, the file and the
    cache, so `WorkflowInv` says of all of them what `ShownValidated` says of the
    one shown, and of a task what it holds on to until it stores (`TaskSound`): a
    graph that is through has a result that may be shown, a continuation has
    scenarios of the generation its object still has. For `IdleSettled`, whoever has
    a task is in memory (a reload from the file would hide the object the task
    writes), and until a restart somebody is at work on every workflow that is not
    settled; for `CancelledStays`, the task that `cancel()` knows of a cancelled
    workflow is over.
  - Of `ScriptExecution` (whose specification is `ScriptSpec`): `ScriptTypes`,
    `OnlyEarlierFailures` (`TicketsReproduced`), `CompletedReports` (`ReportComplete`)
    and `LearnedNeverLost` (`LearnedKept`), for any generations, scripts, jobs,
    workers, call limits, exceptions and restarts; TLC checked the same
    `ScriptInvariant` on the run's instance before it was proved. `MemoryAhead`: a
    manifest in memory has learned everything its file has, so whichever worker
    writes the file next loses nothing. `WorkerKnown`: until a worker reports, its
    results and the scripts it has left are together its slice of the generation
    (`Share`), and a result is "blocked" exactly for a blocked script; the slices
    cover the generation (`ChunksCover`), whatever its size and the number of
    workers. `JobKnown`: a queued or lost job has no worker under way.
    `ReportKnown`: a report under a generation's id is the last of its job and one
    under a worker's id the last of that worker, so what a job compares its failures
    with was saved by another job. A worker and a generation never have the same id
    (`IdsAssumption`): a worker's ends in a uuid of its own.
* `StoryWorkflowProofs` - `StoryTypes`; `CacheIsCommitted` (`CacheCommitted`),
  `CompletedIsJudged` (`CompletedJudged`) and `HistoryIsSound` (`HistorySound`),
  for any requests, artifacts, verdicts, budgets and faults, however the requests
  overlap; `WorkflowSettles` (`Settled`) for requests one at a time. A document
  travels from a request to a version, to Redis and into the next request, so
  `StoryInv` says of every copy that it is `Sound`: its histories are numbered 1
  to n and its COMPLETED is earned. `Fit` says where a request goes after each
  read and save, so that a copy is there when a stage needs it. Numbering is only
  about the snapshots a document has: a graph run forgets them all (`InGraphIsSound`)
  and an undo the later ones, and either way the rest are numbered 1 to n, which is
  why counting them gives the next number. What is about to
  be published or to refresh the cache is committed (`FromRows`). `OneAtATime`
  says, as long as nothing overlapped or failed, which copy Redis and the request
  have and that whoever recorded RUNNING is still to replace it; `Topped` (there is a newest version) is why
  the next number is above all others.

Assumptions used: `WorkersAssumption` (finite workers, the free lock is none of
them), `MaxRunsAssumption`, `MaxVersionAssumption`, `NoSuiteAssumption`,
`OpsAssumption`, `FaultsAssumption`, `NobodyAssumption`, `NoDepAssumption`,
`ExistingRowsAssumption`, `NoJobAssumption`, in `QualityLoop` those on the limits,
on `NoVerification` and `NoCheckpoint`, `CaseIdsAssumption` (finitely many ids),
`FoldedAssumption` and `SubmissionsAssumption`, in `ProjectState`
`ProjectAssumption` (a project is made by one upload, before anything else of it is
stored; there are suites), in `ApplicationCrawl`
`PagesAssumption` and `RequestsAssumption`, in `ModelClient` `ClientAssumption`,
`WorkAssumption` (every agent has a batch) and `BackoffAssumption` (a power of two is
a number, which the provers do not know), in `HumanExecution`
`SessionAssumption` and `DistinctAssumption`, in `TestCaseWorkflow`
`WorkflowAssumption`, in `ScriptExecution` `LimitsAssumption`, `ScriptsAssumption`
and `IdsAssumption`, in `StoryWorkflow` `StoryAssumption` (validation can pass;
there are stories and texts to give them); all say that a marker is not
a value, that a bound is a number or that a constant has its type. TLC evaluates
each of them in some run.

The type invariants of the modules with a proof are proved and not repeated in
a run. Only model-checked:

* liveness (`EveryRunEnds`, `EveryRequestEnds`, `RequestsEnd`, `JobEnds`,
  `TasksEnd`), which the provers do not do.

`Settled` of `ProjectWorkflow` is proved under `RetriesApart` because it does not hold
without: after a forced rerun that failed in Stage 3, a new discovery, a retry of the
older row and `continue_2`, the cache hit of `UnderstandPersists` (section 4) leaves
the new row RUNNING. That takes four requests, with a retry and an approval of Stage 3
among them; no mix of the run has both.

## 6. Abstractions, and what is not modelled

* Prompts, model answers, findings and artifact contents: any answer of the
  right kind. A generator's own removal of cases with one title and steps, the reasons of regeneration
  actions and the metrics of the quality result are left out; ties are open.
* `MAX_QUALITY_ITERATIONS = 2` makes the stop by improvement delta and the list
  of attempted actions unreachable; they are not in the model.
* `QualityLoop` runs one loop at a time; `PipelineRun` interleaves the
  endpoints' commits without the loop's contents. The look-up of a finished
  optimization of the same inputs in Redis (`code_understanding_service.py:985`),
  which answers without the loop, and cases without a route or symbol, which have
  no scenario key, are left out.
* The retry of a commit after a transient database error
  (`database/retry.py`) is not modelled: a commit succeeds or the request fails.
  With one, the lock is gone while the retry sleeps and the replay writes every
  column; the proofs are about behaviours without it.
* `mark_stage_completed` only advances the last successful stage and has no
  caller.
* `ProjectWorkflow`: one project and one deployed version; the admission under
  the lock, the reads of `state()` and the admission of a scan are one step each
  (`PipelineRun` and `SecurityScan` have the first and the last in detail); the
  quality loop's body is one step; a validation that "completed" stands for
  PARTIAL too; the expiry of Redis entries and the generation cache are left
  out; a clone is stored by the same steps as an upload.
* `ApplicationCrawl`: the inspection of a page is one step that yields its links
  and what its buttons open.
* `ScriptExecution`: how a script is derived from the crawl, repaired and
  asserted is left out: a selection of lifecycles is made or found in Redis, a
  script passes or fails. Local files are always written. The copy of a manifest
  in Redis, read only when the file is gone, and the credentials of an execution
  are left out.
* `TestCaseWorkflow`: agents return or raise; what they return is known by the
  generation and by who judged it.
* `ModelClient`: one generation per workflow; the repair of malformed JSON is
  off, as in the default settings.
* `HumanExecution`: one session, since sessions share nothing; the contents of
  its row, and so writes that overtake each other, the thread that runs the
  browser under Windows, the text of the script and the execution of a published
  generation are left out.
* `StoryWorkflow`: one workflow per project; the retrieval hook is off, as in the
  default settings; a generic PATCH is used as the frontend does, to approve an
  outline; the scope filter of epic candidates is abstracted to any subset; a retry
  request brings all stories or none. LangGraph's recursion limit, a second bound
  on a validation that keeps asking for a retry, is left out.
* Not modelled at all: the components with status `not_modelled`. Most of the
  repository's lines are parsers, prompt builders, source analysers, generators
  of scripts and exports: sequential processing of text with no state between
  calls, for which a model would only be a transliteration.

Behaviour the models reach that contradicts no document, and so is neither a
property nor a finding:

* a server that stops leaves its RUNNING rows RUNNING, for pipeline runs,
  scans, discoveries and validations; nothing at start-up resets them;
* `complete()` replaces the result that accumulated `artifact_versions`;
* the quality checkpoint is put back by a pipeline completion that had it in
  its payload; `resume_point = generation_batch_N` is written and never read;
* two scan retries can reopen and scan the same row, because `retry()` locks the
  run it is given and `run()` reopens the latest failed one; the row then has
  the findings of both; a resume whose session saw a failed scan reopens the row
  after another request completed it, and clears its findings;
* a deletion whose `rmtree` fails half-way restores an incomplete directory; one
  whose commit fails, or that a stop interrupts, leaves a project without
  sources or a staged directory nobody looks for; a pipeline run of such a
  project stays RUNNING, because the directory is looked up outside the `try`;
* two overlapping validations of a row can leave it failed with a completed
  newest validation, which no retry accepts;
* in TCG, a resume from the test-case review runs the whole graph again
  (`docs/ai-workflow.md:11` says it continues from that stage), and corrections do not
  change the key under which the result is cached; a rate limit overwrites a
  longer cooldown another workflow has set;
* `PlanMatchesSuite` does not hold once `run` is among the operations: after an
  optimization that was stored without its plan, a full run skips the stages it
  finds and completes with the older plan;
* in HX, a request to finish whose write fails leaves the session
  `generating_scripts` with its browser open, for a cancellation to end; an action
  still waiting for the lock when the script is generated is in the published
  steps and not in the script;
* in TCG, a single-page crawl whose address redirects is published and cached as
  complete without a page, because only the page at the address asked is kept;
* in FBA, a request that overlaps a run is overwritten by the run's next save;
  `retry_count` survives into the next run; a workflow that was never validated
  is reported as VALIDATION_PASSED.

## 7. Plan

Done: pipeline runs, their exclusion and the coherence of what they publish; the
quality loop and its refinement; security scans; the project workflow with its
stage gates, runtime validation, ingestion and deletion; TCG's crawl jobs, script
executions, workflow service and model client; HX's sessions; FBA's story
workflow. Every safety property of the runs is proved.

Worth doing next: two quality loops at once, within `PipelineRun`; the retry of a
commit after a transient error; Final-BA's retrieval and its cache of agents' answers.
