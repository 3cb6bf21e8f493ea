---------------------------- MODULE StoryWorkflow ----------------------------
(***************************************************************************)
(* One workflow of the Final-BA backend: the LangGraph run that turns a    *)
(* document into epics and user stories, and the requests a reviewer makes *)
(* meanwhile (WorkflowApiService, UserStoryOrchestrator, LangGraphWorkflow,*)
(* WorkflowNodes).  The state of a workflow is one JSON document.  Every   *)
(* request reads the whole document (Redis first, PostgreSQL on a miss),   *)
(* changes its own copy and appends the whole copy as a new version, then  *)
(* refreshes Redis; nothing locks it.  A run saves its copy after every    *)
(* node.                                                                   *)
(*                                                                         *)
(* A request is a record of the function req: stage is the next statement  *)
(* of the handler, io the step of a read or a save under way, mine its copy*)
(* of the document.  Texts are members of small sets.                      *)
(***************************************************************************)
EXTENDS Integers, FiniteSets, FiniteSetsExt

CONSTANTS
    Agents,          \* requests in flight, the background run among them
    Mixes,           \* which operations the requests perform together
    Epics, Stories,  \* identifiers
    Wordings, Texts, \* what an epic, a story may say
    FirstWording,    \* what a run makes its epics say
    Plans,           \* planning that a story request may bring along
    Verdicts,        \* what the validation agent may conclude
    Budgets,         \* max_retry_attempts of a request
    DefaultRetries,  \* the value used for a request without the field
    Attempts,        \* retry_attempt of a retry request
    FinalModes,      \* may validationMode be "final"?
    Planning,        \* number of planning nodes: 5
    EpicNode,        \* the one that writes the epics: 3
    MaxFaults,       \* bound on failed flushes, lost cache writes and expiries
    NoState          \* no document

Ops == {"start", "generate", "validate", "review", "modify", "retry",
        "regenerate", "undo", "approve", "get"}

ASSUME StoryAssumption ==
    /\ Epics \cap Stories = {}
    /\ Mixes \subseteq [Agents -> Ops]
    /\ Plans \subseteq [Epics -> Wordings]
    /\ Verdicts \subseteq {"passed", "retry", "review", "failed"} /\ "passed" \in Verdicts
    /\ Budgets \cup Attempts \cup {DefaultRetries, MaxFaults} \subseteq Nat
    /\ FinalModes \subseteq BOOLEAN
    /\ Planning \in Nat /\ EpicNode \in 1..Planning
    /\ Texts # {} /\ Stories # {}
    /\ FirstWording \in Wordings

VARIABLES
    rows,      \* workflow_states: versions of the document
    cache,     \* the document in Redis
    planCache, \* the epics of the project in Redis (regenerate_epic only)
    req,       \* the requests
    faults,
    clean      \* ghost: no two requests overlapped and nothing failed

vars == <<rows, cache, planCache, req, faults, clean>>

----------------------------------------------------------------------------
(* The document.                                                           *)

None == <<>>    \* no epics, no stories
Statuses == {"PENDING", "RUNNING", "COMPLETED", "FAILED", "RETRY_REQUIRED",
             "REVIEW_REQUIRED", "OUTLINE_APPROVED", "VALIDATION_PASSED",
             "VALIDATION_FAILED"}

\* The document set_state makes when there is none (keys that are missing
\* have the values their readers take by default).
Blank == [status |-> "PENDING", file |-> FALSE, plan |-> 0, epics |-> None,
          stories |-> None, verdict |-> "none", retries |-> 0,
          max |-> DefaultRetries, review |-> FALSE, final |-> FALSE,
          history |-> {}]

Initial(max, final) == [Blank EXCEPT !.file = TRUE, !.max = max, !.final = final]

\* The nodes by their place in the graph: the planning nodes (preprocessing,
\* requirement_analysis, epic_generation, feature_generation,
\* one_line_story_generation), then the others.  plan is the number of planning
\* nodes whose output the document holds.
FirstNode(s) == s.plan + 1
StoryGeneration == Planning + 1
Validation == Planning + 2
HumanReview == Planning + 3
End == 0

\* For a mutant: the version number counts the records of all artifacts.
RecordByTotal(s, contents) ==
    [s EXCEPT !.history = @ \cup
        {[id |-> i, content |-> contents[i], version |-> 1 + Cardinality(s.history)] :
                i \in DOMAIN contents}]

\* A snapshot of an artifact gets the next version number of that artifact.
Record(s, contents) ==
    [s EXCEPT !.history = @ \cup
        {[id |-> i, content |-> contents[i],
          version |-> 1 + Cardinality({v \in s.history : v.id = i})] :
                i \in DOMAIN contents}]

Put(f, i, x) == [j \in DOMAIN f \cup {i} |-> IF j = i THEN x ELSE f[j]]

\* An undo puts the snapshot back and forgets the versions after it.
Undone(s, v) ==
    [s EXCEPT !.epics = IF v.id \in DOMAIN @ THEN Put(@, v.id, v.content) ELSE @,
              !.stories = IF v.id \in DOMAIN @ THEN Put(@, v.id, v.content) ELSE @,
              !.history = {h \in @ : h.id = v.id => h.version <= v.version}]

ShouldRetry(s, verdict) == verdict = "retry" /\ s.retries < s.max

\* For a mutant: the end-to-end mode is not asked for.
JudgedLoosely(s, verdict) ==
    IF verdict = "passed" \/ ~ShouldRetry(s, verdict)
    THEN [s EXCEPT !.verdict = verdict, !.status = "COMPLETED", !.review = FALSE]
    ELSE [s EXCEPT !.verdict = verdict, !.status = "RETRY_REQUIRED",
                   !.retries = @ + 1, !.review = FALSE]

\* For a mutant: the retry is not counted.
JudgedUncounted(s, verdict) ==
    IF ShouldRetry(s, verdict)
    THEN [s EXCEPT !.verdict = verdict, !.status = "RETRY_REQUIRED", !.review = FALSE]
    ELSE [s EXCEPT !.verdict = verdict, !.review = verdict # "passed" /\ ~s.final,
                   !.status = IF verdict = "passed" \/ s.final
                              THEN "COMPLETED" ELSE "REVIEW_REQUIRED"]

\* The validation node and the transition its wrapper adds.
Judged(s, verdict) ==
    LET judged == [s EXCEPT !.verdict = verdict, !.review = FALSE]
    IN  CASE verdict = "passed" -> [judged EXCEPT !.status = "COMPLETED"]
          [] ShouldRetry(s, verdict) ->
                [judged EXCEPT !.status = "RETRY_REQUIRED", !.retries = @ + 1]
          [] verdict # "passed" /\ ~ShouldRetry(s, verdict) /\ s.final ->
                [judged EXCEPT !.status = "COMPLETED"]
          [] OTHER -> [judged EXCEPT !.status = "REVIEW_REQUIRED", !.review = TRUE]

\* What the graph keeps of a document: artifact_versions is no key of its state.
InGraph(s) == [s EXCEPT !.history = {}]

AfterValidation(s) ==
    CASE s.status = "RETRY_REQUIRED" -> StoryGeneration
      [] s.status = "REVIEW_REQUIRED" -> HumanReview
      [] OTHER -> End

\* The status a response reports, which the orchestrator then records.
PipelineStatus(s) ==
    CASE s.status = "RETRY_REQUIRED" -> "RETRY_REQUIRED"
      [] s.status # "RETRY_REQUIRED" /\ (s.review \/ s.verdict = "review") -> "REVIEW_REQUIRED"
      [] s.status # "RETRY_REQUIRED" /\ ~s.review /\ s.verdict = "retry" -> "RETRY_REQUIRED"
      [] s.status # "RETRY_REQUIRED" /\ ~s.review /\ s.verdict \in {"passed", "none"} ->
            "VALIDATION_PASSED"
      [] OTHER -> "VALIDATION_FAILED"

ValidationStatus(s) ==
    IF s.verdict \in {"passed", "none"} THEN "VALIDATION_PASSED" ELSE "VALIDATION_FAILED"

----------------------------------------------------------------------------
(* The requests.  A request is at an I/O step; between two of them it only *)
(* changes its own record, so that belongs to the step before.  The        *)
(* operators of this part give the set of records that a request may have  *)
(* when it comes to its next I/O.                                          *)

Idle == [op |-> "get", stage |-> "idle", io |-> "none", after |-> "none",
         err |-> "done", mine |-> NoState, base |-> NoState, view |-> None,
         ver |-> 0, node |-> 0, again |-> FALSE, said |-> "PENDING", broken |-> FALSE]

Done(r) == [Idle EXCEPT !.op = r.op, !.stage = "done", !.broken = r.broken]

\* Read the document and go on at stage next, or at err if that raises.
Reading(r, next, err) == [r EXCEPT !.io = "cache", !.stage = next, !.err = err]

\* Save s; then go on at next, after reading the document if after is "cache".
Saving(r, s, next, after, err) ==
    [r EXCEPT !.mine = s, !.io = "version", !.stage = next, !.after = after, !.err = err]

Document(r) == IF r.mine = NoState THEN Blank ELSE r.mine

\* The background run works on the document its request created.
Launched(r, s) ==
    [Saving(r, s, "node", "none", "done") EXCEPT !.node = 1, !.base = s]

Started(op) ==
    CASE op = "start" ->
            {Launched([Idle EXCEPT !.op = op], Initial(max, final)) :
                    max \in Budgets, final \in FinalModes}
      [] op \in {"generate", "validate", "review", "modify"} ->
            {Reading([Idle EXCEPT !.op = op], "opening", "done")}
      [] op = "retry" -> {Reading([Idle EXCEPT !.op = op], "retry", "fail")}
      [] OTHER -> {Reading([Idle EXCEPT !.op = op], op, "done")}

\* The story endpoints record RUNNING first, outside the try.
Opening(r) ==
    {IF r.op = "modify"
     THEN Saving(r, [Document(r) EXCEPT !.status = "RUNNING"], "modify", "cache", "done")
     ELSE Saving(r, [Document(r) EXCEPT !.status = "RUNNING"], "merge", "cache", "done")}

Later(m, n) == IF m > n THEN m ELSE n

\* _execute_story_workflow: the fields of the request that are not empty
\* replace those of the document, the limits always do (a review decision has
\* none, so it brings the defaults).  brought is the latest planning node whose
\* output the request has, p its epics; the graph skips the nodes before.
Merged(s, op, p, brought, t, max) ==
    [s EXCEPT !.status = "RUNNING", !.max = max,
              !.plan = Later(Later(@, brought), IF p # None THEN EpicNode ELSE 0),
              !.epics = IF p # None THEN p ELSE @,
              !.stories = IF op = "validate"
                          THEN [i \in Stories |-> [text |-> t, tries |-> 0]] ELSE @]

\* The graph starts on the merged document once that is saved.
Begun(r, s, again) ==
    [Saving(r, s, "node", "none", "fail")
     EXCEPT !.base = s, !.node = FirstNode(s), !.again = again]

Merge(r) ==
    {Begun(r, s, again) :
        s \in {Merged(Document(r), r.op, p, brought, t, max) :
                  p \in IF r.op = "review" THEN {None} ELSE Plans \cup {None},
                  brought \in IF r.op = "review" THEN {0} ELSE 0..Planning,
                  t \in Texts,
                  max \in IF r.op = "review" THEN {DefaultRetries} ELSE Budgets},
        again \in {b \in BOOLEAN : b => r.op = "validate"}}

\* A node has completed with the document s: its wrapper saves s, only logs a
\* failure to do so, and the graph goes on with node n.
NodeDone(r, s, n, again) ==
    [Saving(r, InGraph(s), IF n = End THEN "finish" ELSE "node", "none", "ignore")
     EXCEPT !.node = n, !.again = again]

\* The planning nodes do nothing when their output is there already.
PlanningNode(r) ==
    IF r.node = 1 /\ ~r.mine.file THEN {}
    ELSE {NodeDone(r, [r.mine EXCEPT !.status = "RUNNING",
                          !.plan = IF r.node > @ THEN r.node ELSE @,
                          !.epics = IF r.node = EpicNode /\ r.mine.plan < EpicNode
                                    THEN [e \in Epics |-> FirstWording] ELSE @],
                   r.node + 1, r.again)}

\* The stories are generated once; a second pass generates them again only if
\* one of them could not be generated the first time (and is still an object,
\* not the dictionary that a reload makes of it).
StoriesThere(r) == r.mine.stories # None /\ ~r.again

StoryNode(r) ==
    IF StoriesThere(r)
    THEN {NodeDone(r, [r.mine EXCEPT !.status = "RUNNING"], Validation, FALSE)}
    ELSE {NodeDone(r, [r.mine EXCEPT !.status = "RUNNING",
                          !.stories = [i \in Stories |-> [text |-> t, tries |-> 0]]],
                   Validation, failed) : t \in Texts, failed \in BOOLEAN}

ValidationNode(r) ==
    {NodeDone(r, Judged(r.mine, verdict), AfterValidation(Judged(r.mine, verdict)), r.again) :
        verdict \in {v \in Verdicts : v = "passed" => r.mine.stories # None}}

ReviewHook(r) ==
    {NodeDone(r, [r.mine EXCEPT !.status = IF r.mine.review /\ ~r.mine.final
                                           THEN "REVIEW_REQUIRED" ELSE "RUNNING"],
              End, r.again)}

\* A node raises.  The background run saves its copy as FAILED; a story
\* request saves the copy it started the graph with, then records FAILED.
NodeFails(r) ==
    IF r.node = HumanReview \/ (r.node = StoryGeneration /\ StoriesThere(r)) THEN {}
    ELSE IF r.op = "start"
         THEN {Saving(r, InGraph([r.mine EXCEPT !.status = "FAILED"]), "done", "none", "done")}
         ELSE {Saving(r, r.base, "failing", "cache", "fail")}

RunNode(r) ==
    NodeFails(r) \cup
        (CASE r.node <= Planning -> PlanningNode(r)
           [] r.node = StoryGeneration -> StoryNode(r)
           [] r.node = Validation -> ValidationNode(r)
           [] OTHER -> ReviewHook(r))

\* After the graph: the background run records its artifacts and saves (if
\* that raises, it saves the document it began with); a story request saves,
\* and generate saves once more with its stories recorded.
Finish(r) ==
    {CASE r.op = "start" -> Saving(r, Record(Record(r.mine, r.mine.epics), r.mine.stories),
                                   "done", "none", "restart")
       [] r.op = "generate" -> Saving(r, r.mine, "record", "none", "fail")
       [] OTHER -> Saving(r, r.mine, "close", "none", "fail")}

RecordStories(r) ==
    {Saving(r, Record(r.mine, r.mine.stories), "close", "none", "fail")}

\* The response is computed, then its status recorded in a fresh copy.
Close(r) ==
    {[Reading(r, "closing", "done") EXCEPT
        !.said = IF r.op = "validate" THEN ValidationStatus(r.mine) ELSE PipelineStatus(r.mine)]}

Closing(r) == {Saving(r, [Document(r) EXCEPT !.status = r.said], "done", "none", "done")}
Failing(r) == {Saving(r, [Document(r) EXCEPT !.status = "FAILED"], "done", "none", "done")}

\* For a mutant: the orchestrator lets it pass.
FailsUnrecorded(r) == Done(r)

\* An exception of the service reaches the orchestrator, which records FAILED.
Fails(r) == Reading(r, "failing", "done")

\* The document with a new text of story i, put forward for review and recorded.
Modified(s, i, t) ==
    LET new == [text |-> t, tries |-> s.stories[i].tries]
    IN  Record([s EXCEPT !.stories = Put(@, i, new), !.status = "REVIEW_REQUIRED",
                         !.review = TRUE], [j \in {i} |-> new])

Modify(r) ==
    {Saving(r, Modified(r.mine, i, t), "close", "none", "fail") :
        i \in IF r.mine = NoState THEN {} ELSE DOMAIN r.mine.stories, t \in Texts}
    \cup {Fails(r)}   \* no such workflow or story

Newest(versions) == {v \in versions : \A w \in versions : w.version <= v.version}
WithStories(versions) == {v \in versions : v.state.stories # None}

\* The stored stories a retry starts from: those of the document, or of the
\* version with most of them.
Retriable(s) ==
    LET kept == {v.state.stories : v \in Newest(WithStories(rows))}
    IN  IF s.stories # None \/ kept = {} THEN {s.stories} ELSE kept

\* The stories that a retry request brings along, all or none; they go before
\* the stored ones.
Given == {None} \cup [Stories -> [text : Texts, tries : {0} \cup Budgets]]
Previous(stored, given) == IF given = None THEN stored ELSE given

\* Those to replace have a try left.
Renewed(old, wanted, t, max) ==
    [i \in DOMAIN old |-> IF i \in wanted /\ old[i].tries < max
                          THEN [text |-> t, tries |-> old[i].tries + 1] ELSE old[i]]

Retried(s, new, wanted, attempt) ==
    Record([s EXCEPT !.status = "REVIEW_REQUIRED", !.review = TRUE, !.retries = attempt,
                     !.stories = new], [i \in wanted |-> new[i]])

\* Only stories that are there can be replaced and recorded.
RetrySaved(r, old, wanted, t, max, attempt) ==
    LET found == wanted \cap DOMAIN old
    IN  Saving(r, Retried(Document(r), Renewed(old, found, t, max), found, attempt),
               "done", "none", "fail")

Retry(r) ==
    {RetrySaved(r, Previous(stored, given), wanted, t, max, attempt) :
        stored \in Retriable(Document(r)), given \in Given, wanted \in SUBSET Stories,
        t \in Texts, max \in Budgets, attempt \in Attempts}
    \cup {Fails(r)}

Undo(r) ==
    (IF r.mine = NoState THEN {}
     ELSE {Saving(r, Undone(r.mine, v), "done", "none", "done") : v \in r.mine.history})
    \cup {Done(r)}   \* no such workflow or version: 404

Approve(r) ==
    IF r.mine = NoState THEN {Done(r)}
    ELSE {Saving(r, [r.mine EXCEPT !.status = "OUTLINE_APPROVED"], "done", "none", "done")}

\* regenerate_epic: the agent's wording in the plan, or the old one if it finds
\* no other of the same scope.
EpicSaved(r, e, w) ==
    [Saving(r, Record([r.mine EXCEPT !.epics = Put(r.view, e, w)], [i \in {e} |-> w]),
            "share", "none", "done") EXCEPT !.view = Put(r.view, e, w)]

RegenerateEpic(r) ==
    {EpicSaved(r, e, w) : e \in DOMAIN r.view, w \in Wordings}
    \cup {Done(r)}   \* no such epic, or the agent raised

Continue(r) ==
    CASE r.stage = "opening" -> Opening(r)
      [] r.stage = "merge"   -> Merge(r)
      [] r.stage = "node"    -> RunNode(r)
      [] r.stage = "finish"  -> Finish(r)
      [] r.stage = "record"  -> RecordStories(r)
      [] r.stage = "restart" -> {Saving(r, r.base, "done", "none", "done")}
      [] r.stage = "close"   -> Close(r)
      [] r.stage = "closing" -> Closing(r)
      [] r.stage = "failing" -> Failing(r)
      [] r.stage = "modify"  -> Modify(r)
      [] r.stage = "retry"   -> Retry(r)
      [] r.stage = "undo"    -> Undo(r)
      [] r.stage = "approve" -> Approve(r)
      [] r.stage = "regenerate" ->
            {IF r.mine = NoState THEN Done(r) ELSE [r EXCEPT !.io = "plan"]}
      [] r.stage = "epic"    -> RegenerateEpic(r)
      [] r.stage = "share"   -> {[r EXCEPT !.io = "share"]}
      [] OTHER -> {Done(r)}

\* What an exception of a read or a save leads to.
Raised(r) ==
    CASE r.err = "fail"  -> {Fails(r)}
      [] r.err = "ignore" -> Continue(r)
      [] r.err = "restart" -> Continue([r EXCEPT !.stage = "restart"])
      [] OTHER -> {Done(r)}

----------------------------------------------------------------------------
(* The I/O steps.                                                          *)

Become(a, records) == \E r \in records : req' = [req EXCEPT ![a] = r]

InFlight(a) == req[a].io # "none"

Begin(a) ==
    /\ req[a].stage = "idle"
    /\ Become(a, Started(req[a].op))
    /\ clean' = (clean /\ \A b \in Agents : ~InFlight(b))
    /\ UNCHANGED <<rows, cache, planCache, faults>>

ReadCache(a) ==
    /\ req[a].io = "cache"
    /\ IF cache # NoState
       THEN Become(a, Continue([req[a] EXCEPT !.mine = cache]))
       ELSE Become(a, {[req[a] EXCEPT !.io = "db"]})
    /\ UNCHANGED <<rows, cache, planCache, faults, clean>>

\* A session whose flush failed refuses everything.
ReadDatabase(a) ==
    /\ req[a].io = "db"
    /\ CASE req[a].broken -> Become(a, Raised(req[a]))
         [] ~req[a].broken /\ rows = {} -> Become(a, Continue([req[a] EXCEPT !.mine = NoState]))
         [] OTHER -> Become(a, {[req[a] EXCEPT !.mine = v.state, !.io = "refresh"] :
                                    v \in Newest(rows)})
    /\ UNCHANGED <<rows, cache, planCache, faults, clean>>

RefreshCache(a) ==
    /\ req[a].io = "refresh"
    /\ cache' = req[a].mine
    /\ Become(a, Continue(req[a]))
    /\ UNCHANGED <<rows, planCache, faults, clean>>

\* For a mutant: the cache is refreshed before the flush.
NextVersionCached(a) ==
    /\ req[a].io = "version"
    /\ IF req[a].broken
       THEN Become(a, Raised(req[a])) /\ UNCHANGED cache
       ELSE /\ Become(a, {[req[a] EXCEPT !.ver = 1 + Max({0} \cup {v.version : v \in rows}),
                                         !.io = "commit"]})
            /\ cache' = req[a].mine
    /\ UNCHANGED <<rows, planCache, faults, clean>>

NextVersion(a) ==
    /\ req[a].io = "version"
    /\ IF req[a].broken
       THEN Become(a, Raised(req[a]))
       ELSE Become(a, {[req[a] EXCEPT !.ver = 1 + Max({0} \cup {v.version : v \in rows}),
                                      !.io = "commit"]})
    /\ UNCHANGED <<rows, cache, planCache, faults, clean>>

\* The flush inserts the version, and the row of the workflow with the first
\* one; two requests that both saw no workflow cannot both insert it.  Nobody
\* rolls the session back.
Collides(a) == req[a].ver = 1 /\ rows # {}

FlushFails(a) ==
    /\ req[a].io = "commit"
    /\ \/ Collides(a) /\ UNCHANGED faults
       \/ ~Collides(a) /\ faults < MaxFaults /\ faults' = faults + 1
    /\ Become(a, Raised([req[a] EXCEPT !.broken = TRUE]))
    /\ clean' = FALSE
    /\ UNCHANGED <<rows, cache, planCache>>

Commit(a) ==
    /\ req[a].io = "commit"
    /\ ~Collides(a)
    /\ rows' = rows \cup {[version |-> req[a].ver, state |-> req[a].mine]}
    /\ Become(a, {[req[a] EXCEPT !.io = "publish"]})
    /\ UNCHANGED <<cache, planCache, faults, clean>>

\* A write of the cache that fails is only logged.
UpdateCache(a) ==
    /\ req[a].io = "publish"
    /\ \/ cache' = req[a].mine /\ UNCHANGED <<faults, clean>>
       \/ /\ faults < MaxFaults /\ faults' = faults + 1
          /\ clean' = FALSE
          /\ UNCHANGED cache
    /\ Become(a, IF req[a].after = "cache" THEN {[req[a] EXCEPT !.io = "cache"]}
                 ELSE Continue(req[a]))
    /\ UNCHANGED <<rows, planCache>>

\* regenerate_epic takes the plan in Redis if there is one, else it puts the
\* document's there.
ReadPlan(a) ==
    /\ req[a].io = "plan"
    /\ IF planCache # None
       THEN Become(a, Continue([req[a] EXCEPT !.view = planCache, !.stage = "epic"]))
       ELSE Become(a, {[req[a] EXCEPT !.view = req[a].mine.epics, !.io = "warm"]})
    /\ UNCHANGED <<rows, cache, planCache, faults, clean>>

WarmPlan(a) ==
    /\ req[a].io = "warm"
    /\ planCache' = req[a].view
    /\ Become(a, Continue([req[a] EXCEPT !.stage = "epic"]))
    /\ UNCHANGED <<rows, cache, faults, clean>>

SharePlan(a) ==
    /\ req[a].io = "share"
    /\ planCache' = req[a].view
    /\ Become(a, {Done(req[a])})
    /\ UNCHANGED <<rows, cache, faults, clean>>

Expire ==
    /\ cache # NoState
    /\ faults < MaxFaults /\ faults' = faults + 1
    /\ cache' = NoState
    /\ UNCHANGED <<rows, planCache, req, clean>>

----------------------------------------------------------------------------

\* A workflow delivered by an earlier run, or none.
Delivered ==
    LET t == CHOOSE t \in Texts : TRUE
        s == [Initial(DefaultRetries, FALSE) EXCEPT
                !.status = "COMPLETED", !.plan = Planning, !.verdict = "passed",
                !.epics = [e \in Epics |-> FirstWording],
                !.stories = [i \in Stories |-> [text |-> t, tries |-> 0]]]
    IN  Record(Record(s, s.epics), s.stories)

Init ==
    /\ rows \in {{}, {[version |-> 1, state |-> Delivered]}}
    /\ cache = NoState
    /\ planCache = None
    /\ req \in {[a \in Agents |-> [Idle EXCEPT !.op = mix[a]]] : mix \in Mixes}
    /\ faults = 0
    /\ clean = TRUE

Handle(a) ==
    \/ Begin(a)
    \/ ReadCache(a) \/ ReadDatabase(a) \/ RefreshCache(a)
    \/ NextVersion(a) \/ Commit(a) \/ FlushFails(a) \/ UpdateCache(a)
    \/ ReadPlan(a) \/ WarmPlan(a) \/ SharePlan(a)

Next == Expire \/ \E a \in Agents : Handle(a)

Spec == Init /\ [][Next]_vars /\ WF_vars(\E a \in Agents : Handle(a))

----------------------------------------------------------------------------
(* Properties.                                                             *)

Versions == [id : Epics \cup Stories, version : Nat \ {0},
             content : Wordings \cup [text : Texts, tries : Nat]]

Documents ==
    [status : Statuses, file : BOOLEAN, plan : 0..Planning,
     epics : [Epics -> Wordings] \cup {None},
     stories : [Stories -> [text : Texts, tries : Nat]] \cup {None},
     verdict : Verdicts \cup {"none"}, retries : Nat, max : Budgets \cup {DefaultRetries},
     review : BOOLEAN, final : BOOLEAN, history : SUBSET Versions]

\* Every stored version is a document.  Every row, the cached document and
\* every copy a request holds has the fields and values of a document.
TypeOK ==
    /\ \A v \in rows : v.version \in Nat \ {0} /\ v.state \in Documents
    /\ cache \in Documents \cup {NoState}
    /\ planCache \in [Epics -> Wordings] \cup {None}
    /\ \A a \in Agents : req[a].mine \in Documents \cup {NoState}

\* "Update Cache ONLY after successful database commit": the document in
\* Redis is one that PostgreSQL holds, whatever failed and whoever raced.
CacheCommitted == cache = NoState \/ \E v \in rows : v.state = cache

\* A version says COMPLETED only if the validation in the same document
\* passed, or if the end-to-end mode used up its retries; no other request's
\* copy turns a failed validation into a completed workflow.
CompletedJudged ==
    \A v \in rows : v.state.status = "COMPLETED" =>
        \/ v.state.verdict = "passed" /\ v.state.stories # None
        \/ v.state.final /\ ~ShouldRetry(v.state, v.state.verdict)

\* In every version the snapshots of an artifact are numbered 1, 2, ... with
\* no number given twice and none left out, whichever copies of the document
\* overlapping requests saved: after an undo, which forgets the later ones,
\* and after a run of the graph, which forgets all, the numbers go on from
\* what is left.
HistorySound ==
    \A v \in rows : \A i \in Epics \cup Stories :
        LET mine == {h \in v.state.history : h.id = i}
        IN  {h.version : h \in mine} = 1..Cardinality(mine)

\* "Undo an artifact to a previous version.": with requests handled one at a
\* time, only an undo and a new run forget snapshots.  A story request that
\* runs the graph does not keep them.  (README, known disagreements)
SnapshotsKept ==
    [][\A a \in Agents :
          (clean /\ req[a].op \notin {"undo", "start"} /\ Commit(a)) =>
             \A v \in Newest(rows) : v.state.history \subseteq (req[a].mine).history]_vars

\* Requests handled one at a time, with no failed write, leave the workflow
\* settled: the latest version is not RUNNING, and Redis has it or nothing.
Settled ==
    (clean /\ \A a \in Agents : ~InFlight(a)) =>
        \A v \in Newest(rows) : v.state.status # "RUNNING" /\ cache \in {NoState, v.state}

\* Every request that begins ends, also a run whose validation keeps asking
\* for a retry.
RequestsEnd == <>[](\A a \in Agents : ~InFlight(a))

\* "Regenerate one epic while preserving the remainder of the plan": with
\* requests handled one at a time, the version that regenerate_epic commits
\* differs from the one before it in at most one epic.  An undo in between
\* does not keep it.  (README, known disagreements)
PlanKept ==
    [][\A a \in Agents :
          (clean /\ req[a].op = "regenerate" /\ Commit(a)) =>
             \A v \in Newest(rows) :
                Cardinality({e \in DOMAIN v.state.epics :
                               (req[a].mine).epics[e] # v.state.epics[e]}) <= 1]_vars
=============================================================================
