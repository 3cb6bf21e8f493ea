----------------------- MODULE TestCaseAndScriptProofs -----------------------
(***************************************************************************)
(* Proofs about Test-Case-Generation.  First TestCaseWorkflow, for any     *)
(* workflows, inputs, attempts, tasks and restarts: what may be cached or  *)
(* shown as completed, what an idle workflow shows, and what revives a     *)
(* cancelled one.  Then ScriptExecution, for any generations, scripts,     *)
(* jobs and workers: the reports jobs end with, what they call reproduced, *)
(* and the locators that were learned.                                     *)
(***************************************************************************)
EXTENDS TestCaseWorkflow, ScriptExecution, FiniteSetTheorems, TLAPS

(* An object up for the review of its test cases, or completed, has test   *)
(* cases of its own scenarios; completed ones were judged, unless they     *)
(* were edited since.                                                      *)
ObjectSound(s) ==
    /\ s.status \in {"completed", "testcase_manual_review"} =>
         s.cases # Nothing /\ SameGeneration(s.cases.of, s.scenarios)
    /\ s.status = "completed" /\ s.cases.edits = 0 =>
         s.caseJudged.of = s.cases /\ s.caseJudged.verdict \in {"passed", "approved"}

(* A graph that is through holds a result that may be shown, and cached if *)
(* it is completed; a continuation works from scenarios of the generation  *)
(* its object still has; a regeneration has something to replace.          *)
Underway == {"preparing", "scenarios", "cases", "end"}
TaskSound(k, objs) ==
    /\ k.kind = "graph" /\ k.at \in Underway => k.ref \in DOMAIN objs /\ k.mine # Nothing
    /\ k.kind = "graph" /\ k.at = "end" =>
         /\ k.mine.status \in Settled \ {"cancelled"}
         /\ ObjectSound(k.mine)
         /\ k.mine.status = "completed" => CasesValidated(k.mine)
    /\ k.kind = "continue" /\ k.at = "cases" =>
         k.ref \in DOMAIN objs /\ SameGeneration(k.mine, objs[k.ref].scenarios)
    /\ k.at = "asking" => k.ref \in DOMAIN objs /\ objs[k.ref][k.kind] # Nothing

ObjectsSound == \A w \in Workflows : \A o \in DOMAIN objects[w] : ObjectSound(objects[w][o])
TasksSound == \A w \in Workflows : \A t \in DOMAIN tasks[w] : TaskSound(tasks[w][t], objects[w])
FilesSound == \A w \in Workflows : file[w] # Nothing => ObjectSound(file[w].state)
CacheSound == \A key \in DOMAIN cache : cache[key].cases # Nothing /\ CasesValidated(cache[key])

(* Whoever has a task is in memory.                                        *)
TasksKnown == \A w \in Workflows : \A t \in DOMAIN tasks[w] : Live(tasks[w][t]) => Known(w)

(* Until the server restarts, somebody is at work on a workflow that is    *)
(* not settled, and whatever has a file is in memory too.                  *)
Attended(w) ==
    /\ Known(w) /\ State(w).status \notin Settled =>
         \E t \in DOMAIN tasks[w] :
            Live(tasks[w][t]) /\ tasks[w][t].kind \in {"graph", "continue"}
    /\ file[w] # Nothing => Known(w)
FirstServer == restarts = 0 => \A w \in Workflows : Attended(w)

(* The task that cancel() knows of a cancelled workflow is over.           *)
NewestStopped ==
    \A w \in Workflows : Known(w) /\ State(w).status = "cancelled" =>
        newest[w] = 0 \/ ~Live(tasks[w][newest[w]])

WorkflowInv ==
    /\ TypeOK
    /\ ObjectsSound /\ TasksSound /\ FilesSound /\ CacheSound
    /\ TasksKnown
    /\ FirstServer
    /\ NewestStopped
-----------------------------------------------------------------------------
(* Sequences that grow by one, and that are written at one place.          *)
LEMMA Appended ==
    ASSUME NEW S, NEW s \in Seq(S), NEW x \in S
    PROVE  /\ Append(s, x) \in Seq(S)
           /\ Len(Append(s, x)) = Len(s) + 1
           /\ Append(s, x)[Len(s) + 1] = x
           /\ \A i \in DOMAIN s : Append(s, x)[i] = s[i]
           /\ DOMAIN s = 1..Len(s) /\ DOMAIN Append(s, x) = 1..(Len(s) + 1)
  OBVIOUS

LEMMA Replaced ==
    ASSUME NEW S, NEW s \in Seq(S), NEW x \in S, NEW i \in DOMAIN s
    PROVE  /\ [s EXCEPT ![i] = x] \in Seq(S)
           /\ Len([s EXCEPT ![i] = x]) = Len(s)
           /\ DOMAIN [s EXCEPT ![i] = x] = DOMAIN s
           /\ [s EXCEPT ![i] = x][i] = x
           /\ \A j \in DOMAIN s \ {i} : [s EXCEPT ![i] = x][j] = s[j]
  OBVIOUS

(* The two ways in which a step writes objects, and tasks.                 *)
LEMMA ObjectWritten ==
    ASSUME ObjectsTyped, NEW w \in Workflows, NEW o \in DOMAIN objects[w],
           NEW s \in StateObjects, SetObject(w, o, s)
    PROVE  /\ ObjectsTyped'
           /\ \A v \in Workflows : /\ Len(objects'[v]) = Len(objects[v])
                                    /\ DOMAIN objects'[v] = DOMAIN objects[v]
           /\ objects'[w][o] = s
           /\ \A v \in Workflows : \A p \in DOMAIN objects[v] :
                 (v # w \/ p # o) => objects'[v][p] = objects[v][p]
<1> DEFINE new == [objects[w] EXCEPT ![o] = s]
<1>1. objects[w] \in Seq(StateObjects)
  BY DEF ObjectsTyped
<1>2. /\ new \in Seq(StateObjects)
      /\ Len(new) = Len(objects[w])
      /\ DOMAIN new = DOMAIN objects[w]
      /\ new[o] = s
      /\ \A p \in DOMAIN objects[w] \ {o} : new[p] = objects[w][p]
  BY <1>1, Replaced
<1>3. objects' = [objects EXCEPT ![w] = new]
  BY DEF SetObject
<1> HIDE DEF new
<1> QED
  BY <1>2, <1>3 DEF ObjectsTyped

LEMMA ObjectAdded ==
    ASSUME ObjectsTyped, NEW w \in Workflows, NEW s \in StateObjects,
           objects' = [objects EXCEPT ![w] = Append(@, s)]
    PROVE  /\ ObjectsTyped'
           /\ Len(objects'[w]) = Len(objects[w]) + 1
           /\ DOMAIN objects'[w] = 1..(Len(objects[w]) + 1)
           /\ objects'[w][Len(objects[w]) + 1] = s
           /\ \A v \in Workflows \ {w} : objects'[v] = objects[v]
           /\ \A p \in DOMAIN objects[w] : objects'[w][p] = objects[w][p]
<1> DEFINE new == Append(objects[w], s)
<1>1. objects[w] \in Seq(StateObjects)
  BY DEF ObjectsTyped
<1>2. /\ new \in Seq(StateObjects)
      /\ Len(new) = Len(objects[w]) + 1
      /\ DOMAIN new = 1..(Len(objects[w]) + 1)
      /\ new[Len(objects[w]) + 1] = s
      /\ \A p \in DOMAIN objects[w] : new[p] = objects[w][p]
  BY <1>1, Appended
<1>3. objects' = [objects EXCEPT ![w] = new]
  OBVIOUS
<1> HIDE DEF new
<1> QED
  BY <1>2, <1>3 DEF ObjectsTyped

LEMMA TaskWritten ==
    ASSUME TasksTyped, NEW w \in Workflows, NEW t \in DOMAIN tasks[w],
           NEW k \in Tasks, SetTask(w, t, k)
    PROVE  /\ TasksTyped'
           /\ \A v \in Workflows : /\ Len(tasks'[v]) = Len(tasks[v])
                                    /\ DOMAIN tasks'[v] = DOMAIN tasks[v]
           /\ tasks'[w][t] = k
           /\ \A v \in Workflows : \A u \in DOMAIN tasks[v] :
                 (v # w \/ u # t) => tasks'[v][u] = tasks[v][u]
<1> DEFINE new == [tasks[w] EXCEPT ![t] = k]
<1>1. tasks[w] \in Seq(Tasks)
  BY DEF TasksTyped
<1>2. /\ new \in Seq(Tasks)
      /\ Len(new) = Len(tasks[w])
      /\ DOMAIN new = DOMAIN tasks[w]
      /\ new[t] = k
      /\ \A u \in DOMAIN tasks[w] \ {t} : new[u] = tasks[w][u]
  BY <1>1, Replaced
<1>3. tasks' = [tasks EXCEPT ![w] = new]
  BY DEF SetTask
<1> HIDE DEF new
<1> QED
  BY <1>2, <1>3 DEF TasksTyped

LEMMA TaskAdded ==
    ASSUME TasksTyped, NEW w \in Workflows, NEW k \in Tasks,
           tasks' = [tasks EXCEPT ![w] = Append(@, k)]
    PROVE  /\ TasksTyped'
           /\ Len(tasks'[w]) = Len(tasks[w]) + 1
           /\ DOMAIN tasks'[w] = 1..(Len(tasks[w]) + 1)
           /\ DOMAIN tasks[w] = 1..Len(tasks[w])
           /\ tasks'[w][Len(tasks[w]) + 1] = k
           /\ \A v \in Workflows \ {w} : tasks'[v] = tasks[v]
           /\ \A u \in DOMAIN tasks[w] : tasks'[w][u] = tasks[w][u]
<1> DEFINE new == Append(tasks[w], k)
<1>1. tasks[w] \in Seq(Tasks)
  BY DEF TasksTyped
<1>2. /\ new \in Seq(Tasks)
      /\ Len(new) = Len(tasks[w]) + 1
      /\ DOMAIN new = 1..(Len(tasks[w]) + 1)
      /\ DOMAIN tasks[w] = 1..Len(tasks[w])
      /\ new[Len(tasks[w]) + 1] = k
      /\ \A u \in DOMAIN tasks[w] : new[u] = tasks[w][u]
  BY <1>1, Appended
<1>3. tasks' = [tasks EXCEPT ![w] = new]
  OBVIOUS
<1> HIDE DEF new
<1> QED
  BY <1>2, <1>3 DEF TasksTyped
-----------------------------------------------------------------------------
(* An object is written over by one that has something wherever it had     *)
(* something, and scenarios of the same generation.                        *)
Follows(x, y) ==
    /\ SameGeneration(x.scenarios, y.scenarios)
    /\ x.scenarios # Nothing => y.scenarios # Nothing
    /\ x.cases # Nothing => y.cases # Nothing
Onward(a, b) == \A o \in DOMAIN a : o \in DOMAIN b /\ Follows(a[o], b[o])

LEMMA FollowsItself == \A x : Follows(x, x)
  BY DEF Follows, SameGeneration

(* What a task relies on is not taken from it by the others.               *)
LEMMA TaskStands ==
    ASSUME NEW k \in Tasks, NEW a, NEW b, TaskSound(k, a), Onward(a, b)
    PROVE  TaskSound(k, b)
<1>1. k.at = "asking" => k.ref \in DOMAIN b /\ b[k.ref][k.kind] # Nothing
  <2> SUFFICES ASSUME k.at = "asking"
               PROVE  k.ref \in DOMAIN b /\ b[k.ref][k.kind] # Nothing
    OBVIOUS
  <2>1. k.kind = "scenarios" \/ k.kind = "cases"
    BY DEF Tasks, GraphTasks, Continuations, Regenerations
  <2>2. /\ k.ref \in DOMAIN b /\ Follows(a[k.ref], b[k.ref])
        /\ a[k.ref][k.kind] # Nothing
    BY DEF TaskSound, Onward
  <2>3. CASE k.kind = "scenarios"
    BY <2>2, <2>3 DEF Follows
  <2>4. CASE k.kind = "cases"
    BY <2>2, <2>4 DEF Follows
  <2> QED
    BY <2>1, <2>3, <2>4
<1>2. k.kind = "continue" /\ k.at = "cases" =>
        k.ref \in DOMAIN b /\ SameGeneration(k.mine, b[k.ref].scenarios)
  BY DEF TaskSound, Onward, Follows, SameGeneration
<1> QED
  BY <1>1, <1>2 DEF TaskSound, Onward

LEMMA TasksStand ==
    ASSUME TasksTyped, TasksSound,
           \A v \in Workflows : Onward(objects[v], objects'[v]),
           \A v \in Workflows : \A t \in DOMAIN tasks'[v] :
              \/ t \in DOMAIN tasks[v] /\ tasks'[v][t] = tasks[v][t]
              \/ TaskSound(tasks'[v][t], objects'[v])
    PROVE  TasksSound'
<1> SUFFICES ASSUME NEW v \in Workflows, NEW t \in DOMAIN tasks'[v]
             PROVE  TaskSound(tasks'[v][t], objects'[v])
  BY DEF TasksSound
<1>1. CASE TaskSound(tasks'[v][t], objects'[v])
  BY <1>1
<1>2. CASE t \in DOMAIN tasks[v] /\ tasks'[v][t] = tasks[v][t]
  <2>1. tasks[v][t] \in Tasks
    BY <1>2 DEF TasksTyped
  <2>2. TaskSound(tasks[v][t], objects[v])
    BY <1>2 DEF TasksSound
  <2> QED
    BY <1>2, <2>1, <2>2, TaskStands
<1> QED
  BY <1>1, <1>2

LEMMA ObjectWrittenSound ==
    ASSUME ObjectsTyped, ObjectsSound, NEW w \in Workflows, NEW o \in DOMAIN objects[w],
           NEW s \in StateObjects, SetObject(w, o, s), ObjectSound(s),
           Follows(objects[w][o], s)
    PROVE  /\ ObjectsSound'
           /\ \A v \in Workflows : Onward(objects[v], objects'[v])
  BY ObjectWritten, FollowsItself DEF ObjectsSound, Onward

LEMMA ObjectAddedSound ==
    ASSUME ObjectsTyped, ObjectsSound, NEW w \in Workflows, NEW s \in StateObjects,
           objects' = [objects EXCEPT ![w] = Append(@, s)], ObjectSound(s)
    PROVE  /\ ObjectsSound'
           /\ \A v \in Workflows : Onward(objects[v], objects'[v])
<1>1. objects[w] \in Seq(StateObjects) /\ DOMAIN objects[w] = 1..Len(objects[w])
      /\ Len(objects[w]) \in Nat
  BY DEF ObjectsTyped
<1>2. ObjectsSound'
  BY <1>1, ObjectAdded DEF ObjectsSound
<1>3. \A v \in Workflows : Onward(objects[v], objects'[v])
  BY <1>1, ObjectAdded, FollowsItself DEF Onward
<1> QED
  BY <1>2, <1>3

LEMMA ObjectsUntouched ==
    ASSUME ObjectsSound, UNCHANGED objects
    PROVE  /\ ObjectsSound'
           /\ \A v \in Workflows : Onward(objects[v], objects'[v])
  BY FollowsItself DEF ObjectsSound, Onward
-----------------------------------------------------------------------------
(* Results and files.                                                      *)
LEMMA ResultStored ==
    ASSUME CacheTyped, CacheSound, NEW s \in StateObjects, StoreResult(s),
           s.cases # Nothing, CasesValidated(s)
    PROVE  CacheTyped' /\ CacheSound'
<1>1. CASE UNCHANGED cache
  BY <1>1 DEF CacheTyped, CacheSound
<1>2. CASE cache' = [i \in DOMAIN cache \cup {s.key} |-> IF i = s.key THEN Result(s) ELSE cache[i]]
  <2>1. s.key \in Inputs /\ Result(s) \in Results
    BY DEF StateObjects, Result, Results
  <2>2. Result(s).cases # Nothing /\ CasesValidated(Result(s))
    BY DEF Result, CasesValidated
  <2>3. DOMAIN cache' = DOMAIN cache \cup {s.key}
    BY <1>2
  <2>4. \A i \in DOMAIN cache' : cache'[i] = Result(s) \/ (i \in DOMAIN cache /\ cache'[i] = cache[i])
    BY <1>2
  <2>5. CacheTyped'
    <3>1. \A i \in DOMAIN cache' : cache'[i] \in Results
      BY <2>1, <2>4 DEF CacheTyped
    <3>2. cache' = [i \in DOMAIN cache' |-> cache'[i]]
      BY <1>2
    <3> QED
      BY <2>1, <2>3, <3>1, <3>2 DEF CacheTyped
  <2> QED
    BY <2>2, <2>4, <2>5 DEF CacheSound
<1> QED
  BY <1>1, <1>2 DEF StoreResult

LEMMA Persisted ==
    ASSUME FileTyped, FilesSound, PayloadTyped,
           NEW w \in Workflows, NEW s \in StateObjects, ObjectSound(s), Persist(w, s)
    PROVE  FileTyped' /\ FilesSound'
<1>1. [state |-> s, payload |-> payload[w]] \in [state : StateObjects, payload : Contexts]
  BY DEF PayloadTyped
<1>2. FileTyped'
  BY <1>1 DEF FileTyped, PayloadTyped, Persist
<1>3. file'[w].state = s /\ \A v \in Workflows \ {w} : file'[v] = file[v]
  BY DEF FileTyped, PayloadTyped, Persist
<1> QED
  BY <1>2, <1>3 DEF FilesSound

LEMMA CompletedCached ==
    ASSUME FileTyped, FilesSound, CacheTyped, CacheSound,
           PayloadTyped,
           NEW w \in Workflows, NEW s \in StateObjects, ObjectSound(s), CacheCompleted(w, s),
           s.status = "completed" => s.cases # Nothing /\ CasesValidated(s)
    PROVE  FileTyped' /\ FilesSound' /\ CacheTyped' /\ CacheSound'
<1>1. CASE s.status = "completed"
  BY <1>1, ResultStored, Persisted DEF CacheCompleted
<1>2. CASE s.status # "completed"
  BY <1>2 DEF CacheCompleted, FileTyped, FilesSound, CacheTyped, CacheSound
<1> QED
  BY <1>1, <1>2
-----------------------------------------------------------------------------
(* Whatever writes, the results, objects, files and tasks remain sound.    *)
Sound == TypeOK /\ ObjectsSound /\ TasksSound /\ FilesSound /\ CacheSound

(* A task that begins, or that is over, claims nothing.                    *)
LEMMA TaskBegins ==
    ASSUME NEW kind \in {"graph", "continue"}
    PROVE  /\ Task(kind, 0, Nothing, "created") \in Tasks
           /\ \A objs : TaskSound(Task(kind, 0, Nothing, "created"), objs)
<1>1. Task(kind, 0, Nothing, "created") \in Tasks
  BY DEF Task, Tasks, GraphTasks, Continuations
<1>2. \A objs : TaskSound(Task(kind, 0, Nothing, "created"), objs)
  BY DEF Task, TaskSound, Underway
<1> QED
  BY <1>1, <1>2

LEMMA TaskEnds ==
    ASSUME NEW k \in Tasks
    PROVE  /\ Ended(k.kind) \in Tasks
           /\ \A objs : TaskSound(Ended(k.kind), objs)
<1>1. k.kind \in {"graph", "continue", "scenarios", "cases"}
  BY DEF Tasks, GraphTasks, Continuations, Regenerations
<1>2. Ended(k.kind) \in Tasks
  BY <1>1 DEF Ended, Task, Tasks, GraphTasks, Continuations, Regenerations
<1>3. \A objs : TaskSound(Ended(k.kind), objs)
  BY DEF Ended, Task, TaskSound, Underway
<1> QED
  BY <1>2, <1>3

LEMMA ObjectIsSomething == \A s \in StateObjects : s # Nothing
<1> SUFFICES ASSUME NEW s \in StateObjects, s = <<>>
             PROVE  FALSE
  BY DEF Nothing
<1>1. "status" \in DOMAIN s
  BY DEF StateObjects
<1>2. DOMAIN s = 1..0
  OBVIOUS
<1> QED
  BY <1>1, <1>2

(* A reader's object.                                                      *)
LEMMA CurrentObject ==
    ASSUME TypeOK, NEW w \in Workflows, Known(w)
    PROVE  /\ current[w] \in DOMAIN objects[w]
           /\ State(w) \in StateObjects
           /\ State(w) = objects[w][current[w]]
<1>1. objects[w] \in Seq(StateObjects) /\ current[w] \in 1..Len(objects[w])
  BY DEF TypeOK, ObjectsTyped, PointersTyped, Known
<1> QED
  BY <1>1 DEF State

LEMMA TaskTyped ==
    ASSUME TypeOK, NEW w \in Workflows, NEW t \in DOMAIN tasks[w]
    PROVE  tasks[w][t] \in Tasks /\ t \in Nat
  BY DEF TypeOK, TasksTyped
-----------------------------------------------------------------------------
(* The requests.                                                           *)
LEMMA StartSound ==
    ASSUME Sound, NEW w \in Workflows, NEW input \in Inputs, Start(w, input)
    PROVE  Sound'
<1>1. TypeOK
  BY DEF Sound
<1>2. InitialState(input) \in StateObjects /\ ObjectSound(InitialState(input))
  BY DEF InitialState, StateObjects, Unjudged, Contexts, Verdicts, ObjectSound
<1>3. PayloadTyped' /\ current' \in [Workflows -> Nat]
      /\ current'[w] = 1 /\ \A v \in Workflows \ {w} : current'[v] = current[v]
  BY <1>1 DEF Start, Contexts, TypeOK, PayloadTyped, PointersTyped
<1>4. objects[w] = <<>> /\ Len(objects[w]) = 0 /\ DOMAIN objects[w] = {}
      /\ tasks[w] = <<>> /\ Len(tasks[w]) = 0
  BY DEF Start
<1>5. ASSUME NEW s \in StateObjects, ObjectSound(s), objects' = [objects EXCEPT ![w] = <<s>>]
      PROVE  /\ ObjectsTyped' /\ ObjectsSound'
             /\ Len(objects'[w]) = 1
             /\ \A v \in Workflows \ {w} : objects'[v] = objects[v]
             /\ \A v \in Workflows : Onward(objects[v], objects'[v])
  <2>1. Append(objects[w], s) = <<s>>
    BY <1>4
  <2>2. objects' = [objects EXCEPT ![w] = Append(@, s)]
    BY <1>5, <2>1
  <2>3. ObjectsTyped /\ ObjectsSound
    BY <1>1 DEF Sound, TypeOK
  <2>4. /\ ObjectsTyped' /\ Len(objects'[w]) = 1
        /\ \A v \in Workflows \ {w} : objects'[v] = objects[v]
    <3>1. ObjectsTyped' /\ Len(objects'[w]) = Len(objects[w]) + 1
          /\ \A v \in Workflows \ {w} : objects'[v] = objects[v]
      BY <1>5, <2>2, <2>3, ObjectAdded
    <3>2. Len(objects[w]) = 0
      BY <1>4
    <3> QED
      BY <3>1, <3>2
  <2>5. ObjectsSound' /\ \A v \in Workflows : Onward(objects[v], objects'[v])
    BY <1>5, <2>2, <2>3, ObjectAddedSound
  <2> QED
    BY <2>4, <2>5
<1>6. CASE /\ input \in DOMAIN cache
           /\ LET hit == cache[input]
                  s == [InitialState(input) EXCEPT !.status = "completed",
                       !.context = hit.context,
                       !.scenarios = hit.scenarios, !.scenarioJudged = hit.scenarioJudged,
                       !.cases = hit.cases, !.caseJudged = hit.caseJudged]
              IN  /\ objects' = [objects EXCEPT ![w] = <<s>>]
                  /\ file' = [file EXCEPT ![w] = [state |-> s, payload |-> input]]
           /\ UNCHANGED <<tasks, newest>>
  <2> DEFINE hit == cache[input]
             s == [InitialState(input) EXCEPT !.status = "completed",
                       !.context = hit.context,
                       !.scenarios = hit.scenarios, !.scenarioJudged = hit.scenarioJudged,
                       !.cases = hit.cases, !.caseJudged = hit.caseJudged]
  <2>1. hit \in Results /\ hit.cases # Nothing /\ CasesValidated(hit)
    BY <1>1, <1>6 DEF Sound, CacheSound, TypeOK, CacheTyped
  <2>2. s \in StateObjects
    BY <1>2, <2>1 DEF StateObjects, Results, Settled
  <2>3. ObjectSound(s)
    <3>1. s.cases = hit.cases /\ s.scenarios = hit.scenarios /\ s.caseJudged = hit.caseJudged
      BY DEF InitialState
    <3> HIDE DEF s, hit
    <3> QED
      BY <2>1, <3>1 DEF ObjectSound, CasesValidated
  <2>4. objects' = [objects EXCEPT ![w] = <<s>>]
        /\ file' = [file EXCEPT ![w] = [state |-> s, payload |-> input]]
    BY <1>6
  <2> HIDE DEF s, hit
  <2>5. [state |-> s, payload |-> input] \in [state : StateObjects, payload : Contexts]
    BY <2>2 DEF Contexts
  <2>6. FileTyped' /\ FilesSound'
    <3>1. file \in [Workflows -> [state : StateObjects, payload : Contexts] \cup {Nothing}]
      BY <1>1 DEF TypeOK, FileTyped
    <3>2. FileTyped'
      BY <2>4, <2>5, <3>1 DEF FileTyped
    <3>3. file'[w].state = s /\ \A v \in Workflows \ {w} : file'[v] = file[v]
      BY <2>4, <3>1
    <3> QED
      BY <2>3, <3>2, <3>3 DEF Sound, FilesSound
  <2>7. UNCHANGED <<tasks, newest, cache, restarts>>
    BY <1>6 DEF Start
  <2>8. TasksSound'
    BY <1>1, <1>5, <2>2, <2>3, <2>4, <2>7, TasksStand DEF Sound, TypeOK
  <2>9. TypeOK'
    <3>1. ObjectsTyped' /\ Len(objects'[w]) = 1
          /\ \A v \in Workflows \ {w} : objects'[v] = objects[v]
      BY <1>5, <2>2, <2>3, <2>4
    <3>2. PointersTyped'
      <4>1. \A v \in Workflows : current[v] <= Len(objects[v]) /\ newest[v] <= Len(tasks[v])
        BY <1>1 DEF TypeOK, PointersTyped
      <4>2. current'[w] <= Len(objects'[w]) /\ newest'[w] <= Len(tasks'[w])
        BY <1>3, <2>7, <3>1, <4>1
      <4>3. \A v \in Workflows \ {w} :
              current'[v] <= Len(objects'[v]) /\ newest'[v] <= Len(tasks'[v])
        BY <1>3, <2>7, <3>1, <4>1
      <4> QED
        BY <1>1, <1>3, <2>7, <4>2, <4>3 DEF TypeOK, PointersTyped
    <3> QED
      BY <1>1, <1>3, <2>6, <2>7, <3>1, <3>2 DEF TypeOK, TasksTyped, CacheTyped
  <2> QED
    BY <1>5, <2>2, <2>3, <2>4, <2>6, <2>7, <2>8, <2>9 DEF Sound, CacheSound
<1>7. CASE /\ objects' = [objects EXCEPT ![w] = <<InitialState(input)>>]
           /\ CreateTask(w, "graph")
           /\ UNCHANGED file
  <2>1. tasks' = [tasks EXCEPT ![w] = Append(@, Task("graph", 0, Nothing, "created"))]
        /\ newest' = [newest EXCEPT ![w] = Len(tasks[w]) + 1]
    BY <1>7 DEF CreateTask
  <2>2. UNCHANGED <<file, cache, restarts>>
    BY <1>7 DEF Start
  <2>3. /\ TasksTyped' /\ Len(tasks'[w]) = 1 /\ DOMAIN tasks'[w] = 1..1
        /\ tasks'[w][1] = Task("graph", 0, Nothing, "created")
        /\ \A v \in Workflows \ {w} : tasks'[v] = tasks[v]
    <3>1. TasksTyped /\ Task("graph", 0, Nothing, "created") \in Tasks
      BY <1>1, TaskBegins DEF TypeOK
    <3>2. /\ TasksTyped' /\ Len(tasks'[w]) = Len(tasks[w]) + 1
          /\ DOMAIN tasks'[w] = 1..(Len(tasks[w]) + 1)
          /\ tasks'[w][Len(tasks[w]) + 1] = Task("graph", 0, Nothing, "created")
          /\ \A v \in Workflows \ {w} : tasks'[v] = tasks[v]
      BY <2>1, <3>1, TaskAdded
    <3>3. Len(tasks[w]) = 0
      BY <1>4
    <3> QED
      BY <3>2, <3>3
  <2>4. TasksSound'
    <3>1. TasksTyped /\ TasksSound
      BY <1>1 DEF Sound, TypeOK
    <3>2. \A v \in Workflows : Onward(objects[v], objects'[v])
      BY <1>2, <1>5, <1>7
    <3>3. \A v \in Workflows : \A t \in DOMAIN tasks'[v] :
              \/ t \in DOMAIN tasks[v] /\ tasks'[v][t] = tasks[v][t]
              \/ TaskSound(tasks'[v][t], objects'[v])
      BY <2>3, TaskBegins
    <3> QED
      BY <3>1, <3>2, <3>3, TasksStand
  <2>5. newest' \in [Workflows -> Nat] /\ newest'[w] = 1
        /\ \A v \in Workflows \ {w} : newest'[v] = newest[v]
    BY <1>1, <1>4, <2>1 DEF TypeOK, PointersTyped
  <2>6. TypeOK'
    <3>1. ObjectsTyped' /\ Len(objects'[w]) = 1
          /\ \A v \in Workflows \ {w} : objects'[v] = objects[v]
      BY <1>2, <1>5, <1>7
    <3>2. PointersTyped'
      <4>1. \A v \in Workflows : current[v] <= Len(objects[v]) /\ newest[v] <= Len(tasks[v])
        BY <1>1 DEF TypeOK, PointersTyped
      <4>2. current'[w] <= Len(objects'[w]) /\ newest'[w] <= Len(tasks'[w])
        BY <1>3, <2>3, <2>5, <3>1
      <4>3. \A v \in Workflows \ {w} :
              current'[v] <= Len(objects'[v]) /\ newest'[v] <= Len(tasks'[v])
        BY <1>3, <2>3, <2>5, <3>1, <4>1
      <4> QED
        BY <1>3, <2>5, <4>2, <4>3 DEF TypeOK, PointersTyped
    <3> QED
      BY <1>1, <1>3, <2>2, <2>3, <3>1, <3>2 DEF TypeOK, FileTyped, CacheTyped
  <2> QED
    BY <1>2, <1>5, <1>7, <2>2, <2>4, <2>6 DEF Sound, FilesSound, CacheSound
<1> QED
  BY <1>6, <1>7 DEF Start

(* An update of the object a reader sees, with the tasks left alone or     *)
(* with a new one.                                                         *)
LEMMA StateWritten ==
    ASSUME Sound, NEW w \in Workflows, Known(w), NEW s, SetState(w, s),
           s \in StateObjects, ObjectSound(s), Follows(State(w), s),
           PayloadTyped', UNCHANGED <<current, restarts>>,
           FileTyped' /\ FilesSound' /\ CacheTyped' /\ CacheSound',
           \/ UNCHANGED <<tasks, newest>>
           \/ \E kind \in {"graph", "continue"} : CreateTask(w, kind)
    PROVE  Sound'
<1>1. TypeOK /\ current[w] \in DOMAIN objects[w] /\ Follows(objects[w][current[w]], s)
      /\ SetObject(w, current[w], s)
  BY CurrentObject DEF Sound, SetState
<1>2. /\ ObjectsTyped'
      /\ \A v \in Workflows : Len(objects'[v]) = Len(objects[v])
  BY <1>1, ObjectWritten DEF TypeOK
<1>3. /\ ObjectsSound'
      /\ \A v \in Workflows : Onward(objects[v], objects'[v])
  BY <1>1, ObjectWrittenSound DEF Sound, TypeOK
<1>4. CASE UNCHANGED <<tasks, newest>>
  <2>1. TasksSound'
    BY <1>1, <1>3, <1>4, TasksStand DEF Sound, TypeOK
  <2>2. TypeOK'
    BY <1>1, <1>2, <1>4 DEF TypeOK, PointersTyped, TasksTyped
  <2> QED
    BY <1>3, <2>1, <2>2 DEF Sound
<1>5. ASSUME NEW kind \in {"graph", "continue"}, CreateTask(w, kind)
      PROVE  Sound'
  <2> DEFINE k == Task(kind, 0, Nothing, "created")
  <2>1. tasks' = [tasks EXCEPT ![w] = Append(@, k)]
        /\ newest' = [newest EXCEPT ![w] = Len(tasks[w]) + 1]
    BY <1>5 DEF CreateTask
  <2>2. k \in Tasks /\ \A objs : TaskSound(k, objs)
    BY TaskBegins
  <2> HIDE DEF k
  <2>3. /\ TasksTyped'
        /\ Len(tasks'[w]) = Len(tasks[w]) + 1
        /\ DOMAIN tasks'[w] = 1..(Len(tasks[w]) + 1)
        /\ DOMAIN tasks[w] = 1..Len(tasks[w])
        /\ tasks'[w][Len(tasks[w]) + 1] = k
        /\ \A v \in Workflows \ {w} : tasks'[v] = tasks[v]
        /\ \A u \in DOMAIN tasks[w] : tasks'[w][u] = tasks[w][u]
    BY <1>1, <2>1, <2>2, TaskAdded DEF TypeOK
  <2>4. Len(tasks[w]) \in Nat
    BY <1>1 DEF TypeOK, TasksTyped
  <2>5. TasksSound'
    BY <1>1, <1>3, <2>2, <2>3, <2>4, TasksStand DEF Sound, TypeOK
  <2>6. newest' \in [Workflows -> Nat]
        /\ \A v \in Workflows : newest'[v] <= Len(tasks'[v])
    BY <1>1, <2>1, <2>3, <2>4 DEF TypeOK, PointersTyped
  <2>7. TypeOK'
    BY <1>1, <1>2, <2>3, <2>6
      DEF TypeOK, PointersTyped
  <2> QED
    BY <1>3, <2>5, <2>7 DEF Sound
<1> QED
  BY <1>4, <1>5

LEMMA ResumeSound ==
    ASSUME Sound, NEW w \in Workflows, NEW stage \in Reviewable, Resume(w, stage)
    PROVE  Sound'
<1> DEFINE s == IF stage = "scenario_manual_review"
                THEN [State(w) EXCEPT !.scenarioCount = 0]
                ELSE [State(w) EXCEPT !.caseCount = 0]
<1>1. TypeOK /\ Known(w) /\ State(w) \in StateObjects
      /\ State(w) = objects[w][current[w]] /\ current[w] \in DOMAIN objects[w]
  BY CurrentObject DEF Sound, Resume
<1>2. ObjectSound(State(w))
  BY <1>1 DEF Sound, ObjectsSound
<1>3. s \in StateObjects
  BY <1>1 DEF StateObjects
<1>4. /\ s.status = State(w).status /\ s.scenarios = State(w).scenarios
      /\ s.cases = State(w).cases /\ s.caseJudged = State(w).caseJudged
  BY <1>1 DEF StateObjects
<1>5. ObjectSound(s) /\ Follows(State(w), s)
  BY <1>2, <1>4 DEF ObjectSound, Follows, SameGeneration
<1>6. /\ PayloadTyped' /\ SetState(w, s) /\ CreateTask(w, "graph")
      /\ UNCHANGED <<current, file, cache, restarts>>
  BY <1>1 DEF Resume, TypeOK, PayloadTyped, Contexts
<1>7. FileTyped' /\ FilesSound' /\ CacheTyped' /\ CacheSound'
  BY <1>6 DEF Sound, TypeOK, FileTyped, FilesSound, CacheTyped, CacheSound
<1> HIDE DEF s
<1> QED
  BY <1>1, <1>3, <1>5, <1>6, <1>7, StateWritten

LEMMA ApproveScenariosSound ==
    ASSUME Sound, NEW w \in Workflows, ApproveScenarios(w)
    PROVE  Sound'
<1> DEFINE s == [State(w) EXCEPT
                   !.scenarioJudged = [of |-> State(w).scenarios, verdict |-> "approved"],
                   !.status = "generating_test_cases"]
<1>1. TypeOK /\ Known(w) /\ State(w) \in StateObjects
  BY CurrentObject DEF Sound, ApproveScenarios
<1>2. s \in StateObjects
  BY <1>1 DEF StateObjects, Verdicts
<1>3. /\ s.status = "generating_test_cases" /\ s.scenarios = State(w).scenarios
      /\ s.cases = State(w).cases
  BY <1>1 DEF StateObjects
<1>4. ObjectSound(s) /\ Follows(State(w), s)
  BY <1>3 DEF ObjectSound, Follows, SameGeneration
<1>5. /\ PayloadTyped' /\ SetState(w, s) /\ CreateTask(w, "continue")
      /\ UNCHANGED <<current, file, cache, restarts>>
  BY <1>1 DEF ApproveScenarios, TypeOK, PayloadTyped
<1>6. FileTyped' /\ FilesSound' /\ CacheTyped' /\ CacheSound'
  BY <1>5 DEF Sound, TypeOK, FileTyped, FilesSound, CacheTyped, CacheSound
<1> HIDE DEF s
<1> QED
  BY <1>1, <1>2, <1>4, <1>5, <1>6, StateWritten

(* The reviewer judges the test cases that are there: they belong to the   *)
(* scenarios beside them because the workflow is up for their review.      *)
LEMMA ApproveCasesSound ==
    ASSUME Sound, NEW w \in Workflows, ApproveCases(w)
    PROVE  Sound'
<1> DEFINE s == [State(w) EXCEPT
                !.caseJudged = [of |-> State(w).cases, verdict |-> "approved"],
                !.rejected = FALSE, !.status = "completed"]
<1>1. TypeOK /\ Known(w) /\ State(w) \in StateObjects
      /\ State(w) = objects[w][current[w]] /\ current[w] \in DOMAIN objects[w]
  BY CurrentObject DEF Sound, ApproveCases
<1>2. /\ State(w).cases # Nothing /\ SameGeneration(State(w).cases.of, State(w).scenarios)
  BY <1>1 DEF Sound, ObjectsSound, ObjectSound, ApproveCases
<1>3. s \in StateObjects
  BY <1>1 DEF StateObjects, Verdicts, Settled
<1>4. /\ s.status = "completed" /\ s.scenarios = State(w).scenarios
      /\ s.cases = State(w).cases
      /\ s.caseJudged = [of |-> State(w).cases, verdict |-> "approved"]
  BY <1>1 DEF StateObjects
<1>5. /\ ObjectSound(s) /\ Follows(State(w), s)
      /\ s.cases # Nothing /\ CasesValidated(s)
  BY <1>2, <1>4 DEF ObjectSound, Follows, SameGeneration, CasesValidated
<1>6. /\ PayloadTyped' /\ SetState(w, s) /\ CacheCompleted(w, s)
      /\ UNCHANGED <<current, tasks, newest, restarts>>
  BY <1>1 DEF ApproveCases, TypeOK, PayloadTyped
<1> HIDE DEF s
<1>7. FileTyped' /\ FilesSound' /\ CacheTyped' /\ CacheSound'
  BY <1>3, <1>5, <1>6, CompletedCached DEF Sound, TypeOK
<1> QED
  BY <1>1, <1>3, <1>5, <1>6, <1>7, StateWritten

LEMMA DecideSound ==
    ASSUME Sound, NEW w \in Workflows, Decide(w)
    PROVE  Sound'
<1>1. TypeOK /\ Known(w) /\ State(w) \in StateObjects
      /\ State(w) = objects[w][current[w]] /\ current[w] \in DOMAIN objects[w]
  BY CurrentObject DEF Sound, Decide
<1>2. PICK verdict \in BOOLEAN : SetState(w, [State(w) EXCEPT !.rejected = verdict])
  BY DEF Decide
<1> DEFINE s == [State(w) EXCEPT !.rejected = verdict]
<1>3. s \in StateObjects
  BY <1>1 DEF StateObjects
<1>4. /\ s.status = State(w).status /\ s.scenarios = State(w).scenarios
      /\ s.cases = State(w).cases /\ s.caseJudged = State(w).caseJudged
  BY <1>1 DEF StateObjects
<1>5. ObjectSound(s) /\ Follows(State(w), s)
  <2>1. ObjectSound(State(w))
    BY <1>1 DEF Sound, ObjectsSound
  <2> QED
    BY <1>4, <2>1 DEF ObjectSound, Follows, SameGeneration
<1>6. UNCHANGED <<current, payload, tasks, newest, file, cache, restarts>>
  BY DEF Decide
<1>7. PayloadTyped' /\ FileTyped' /\ FilesSound' /\ CacheTyped' /\ CacheSound'
  BY <1>6 DEF Sound, TypeOK, PayloadTyped, FileTyped, FilesSound, CacheTyped, CacheSound
<1> HIDE DEF s
<1> QED
  BY <1>1, <1>2, <1>3, <1>5, <1>6, <1>7, StateWritten DEF s

(* A task is suspended somewhere else, or over, with what it wrote.        *)
LEMMA TaskMoved ==
    ASSUME Sound, NEW w \in Workflows, NEW t \in DOMAIN tasks[w], NEW k \in Tasks,
           SetTask(w, t, k), TaskSound(k, objects'[w]),
           ObjectsTyped', ObjectsSound',
           \A v \in Workflows : Onward(objects[v], objects'[v]),
           current' \in [Workflows -> Nat],
           \A v \in Workflows : current'[v] <= Len(objects'[v]),
           FileTyped' /\ FilesSound' /\ CacheTyped' /\ CacheSound',
           UNCHANGED <<payload, newest, restarts>>
    PROVE  Sound'
<1>1. TypeOK /\ TasksTyped /\ TasksSound
  BY DEF Sound, TypeOK
<1>2. /\ TasksTyped'
      /\ \A v \in Workflows : /\ Len(tasks'[v]) = Len(tasks[v])
                               /\ DOMAIN tasks'[v] = DOMAIN tasks[v]
      /\ tasks'[w][t] = k
      /\ \A v \in Workflows : \A u \in DOMAIN tasks[v] :
            (v # w \/ u # t) => tasks'[v][u] = tasks[v][u]
  BY <1>1, TaskWritten
<1>3. \A v \in Workflows : \A u \in DOMAIN tasks'[v] :
        \/ u \in DOMAIN tasks[v] /\ tasks'[v][u] = tasks[v][u]
        \/ TaskSound(tasks'[v][u], objects'[v])
  BY <1>2
<1>4. TasksSound'
  BY <1>1, <1>3, TasksStand
<1>5. PointersTyped'
  BY <1>1, <1>2 DEF TypeOK, PointersTyped
<1>6. TypeOK'
  BY <1>1, <1>2, <1>5 DEF TypeOK, PayloadTyped
<1> QED
  BY <1>4, <1>6 DEF Sound

LEMMA TaskMovedAlone ==
    ASSUME Sound, NEW w \in Workflows, NEW t \in DOMAIN tasks[w], NEW k \in Tasks,
           SetTask(w, t, k), TaskSound(k, objects[w]),
           UNCHANGED <<objects, current, payload, newest, file, cache, restarts>>
    PROVE  Sound'
<1>1. /\ ObjectsTyped' /\ ObjectsSound'
      /\ \A v \in Workflows : Onward(objects[v], objects'[v])
  BY ObjectsUntouched DEF Sound, TypeOK, ObjectsTyped
<1>2. /\ current' \in [Workflows -> Nat]
      /\ \A v \in Workflows : current'[v] <= Len(objects'[v])
  BY DEF Sound, TypeOK, PointersTyped
<1>3. FileTyped' /\ FilesSound' /\ CacheTyped' /\ CacheSound'
  BY DEF Sound, TypeOK, FileTyped, FilesSound, CacheTyped, CacheSound
<1> QED
  BY <1>1, <1>2, <1>3, TaskMoved

LEMMA CancelSound ==
    ASSUME Sound, NEW w \in Workflows, Cancel(w)
    PROVE  Sound'
<1> DEFINE s == [State(w) EXCEPT !.status = "cancelled"]
<1>1. TypeOK /\ Known(w) /\ State(w) \in StateObjects
      /\ State(w) = objects[w][current[w]] /\ current[w] \in DOMAIN objects[w]
  BY CurrentObject DEF Sound, Cancel
<1>2. s \in StateObjects
  BY <1>1 DEF StateObjects, Settled
<1>3. /\ s.status = "cancelled" /\ s.scenarios = State(w).scenarios
      /\ s.cases = State(w).cases
  BY <1>1 DEF StateObjects
<1>4. ObjectSound(s) /\ Follows(State(w), s)
  BY <1>3 DEF ObjectSound, Follows, SameGeneration
<1>5. SetState(w, s) /\ UNCHANGED <<current, payload, newest, file, cache, restarts>>
  BY DEF Cancel
<1> HIDE DEF s
<1>6. PayloadTyped' /\ FileTyped' /\ FilesSound' /\ CacheTyped' /\ CacheSound'
  BY <1>5 DEF Sound, TypeOK, PayloadTyped, FileTyped, FilesSound, CacheTyped, CacheSound
<1>7. CASE newest[w] # 0 /\ Live(tasks[w][newest[w]])
  <2> DEFINE t == newest[w]
             k == Ended(tasks[w][t].kind)
  <2>1. t \in DOMAIN tasks[w]
    <3>1. tasks[w] \in Seq(Tasks) /\ newest[w] \in Nat /\ newest[w] <= Len(tasks[w])
      BY <1>1 DEF TypeOK, TasksTyped, PointersTyped
    <3> QED
      BY <1>7, <3>1
  <2>2. SetTask(w, t, k)
    BY <1>7 DEF Cancel, SetTask
  <2>3. k \in Tasks /\ TaskSound(k, objects'[w])
    BY <1>1, <2>1, TaskTyped, TaskEnds
  <2>4. SetObject(w, current[w], s) /\ Follows(objects[w][current[w]], s)
    BY <1>1, <1>4, <1>5 DEF SetState
  <2>5. /\ ObjectsTyped' /\ ObjectsSound'
        /\ \A v \in Workflows : Onward(objects[v], objects'[v])
    BY <1>1, <1>2, <1>4, <2>4, ObjectWritten, ObjectWrittenSound DEF Sound, TypeOK
  <2>6. \A v \in Workflows : Len(objects'[v]) = Len(objects[v])
    BY <1>1, <1>2, <2>4, ObjectWritten DEF TypeOK
  <2>7. /\ current' \in [Workflows -> Nat]
        /\ \A v \in Workflows : current'[v] <= Len(objects'[v])
    BY <1>1, <1>5, <2>6 DEF TypeOK, PointersTyped
  <2> HIDE DEF t, k
  <2> QED
    BY <1>5, <1>6, <2>1, <2>2, <2>3, <2>5, <2>7, TaskMoved
<1>8. CASE ~(newest[w] # 0 /\ Live(tasks[w][newest[w]]))
  <2>1. UNCHANGED <<tasks, newest>>
    BY <1>5, <1>8 DEF Cancel
  <2> QED
    BY <1>1, <1>2, <1>4, <1>5, <1>6, <2>1, StateWritten
<1> QED
  BY <1>7, <1>8

LEMMA RegenerateSound ==
    ASSUME Sound, NEW w \in Workflows, NEW what \in {"scenarios", "cases"}, Regenerate(w, what)
    PROVE  Sound'
<1> DEFINE k == Task(what, current[w], Nothing, "asking")
<1>1. TypeOK /\ Known(w) /\ State(w) = objects[w][current[w]]
      /\ current[w] \in DOMAIN objects[w] /\ current[w] \in Nat
  BY CurrentObject DEF Sound, Regenerate, TypeOK, PointersTyped
<1>2. k \in Tasks
  BY <1>1 DEF Task, Tasks, Regenerations
<1>3. TaskSound(k, objects[w])
  BY <1>1 DEF Task, TaskSound, Regenerate
<1>4. tasks' = [tasks EXCEPT ![w] = Append(@, k)]
      /\ UNCHANGED <<objects, current, payload, newest, file, cache, restarts>>
  BY DEF Regenerate
<1> HIDE DEF k
<1>5. /\ TasksTyped'
      /\ Len(tasks'[w]) = Len(tasks[w]) + 1
      /\ DOMAIN tasks'[w] = 1..(Len(tasks[w]) + 1)
      /\ DOMAIN tasks[w] = 1..Len(tasks[w])
      /\ tasks'[w][Len(tasks[w]) + 1] = k
      /\ \A v \in Workflows \ {w} : tasks'[v] = tasks[v]
      /\ \A u \in DOMAIN tasks[w] : tasks'[w][u] = tasks[w][u]
  BY <1>1, <1>2, <1>4, TaskAdded DEF TypeOK
<1>6. Len(tasks[w]) \in Nat
  BY <1>1 DEF TypeOK, TasksTyped
<1>7. ObjectsSound' /\ \A v \in Workflows : Onward(objects[v], objects'[v])
  BY <1>4, ObjectsUntouched DEF Sound
<1>8. \A v \in Workflows : \A t \in DOMAIN tasks'[v] :
        \/ t \in DOMAIN tasks[v] /\ tasks'[v][t] = tasks[v][t]
        \/ TaskSound(tasks'[v][t], objects'[v])
  BY <1>3, <1>4, <1>5, <1>6
<1>9. TasksSound'
  BY <1>1, <1>7, <1>8, TasksStand DEF Sound, TypeOK
<1>10. PointersTyped'
  BY <1>1, <1>4, <1>5, <1>6 DEF TypeOK, PointersTyped
<1>11. TypeOK'
  BY <1>1, <1>4, <1>5, <1>10 DEF TypeOK, ObjectsTyped, PayloadTyped, FileTyped, CacheTyped
<1> QED
  BY <1>4, <1>7, <1>9, <1>11 DEF Sound, FilesSound, CacheSound
-----------------------------------------------------------------------------
(* The graph: everything before its end is in the copy of the task.        *)
LEMMA GraphBeginSound ==
    ASSUME Sound, NEW w \in Workflows, NEW t \in DOMAIN tasks[w], GraphBegin(w, t), Known(w)
    PROVE  Sound'
<1> DEFINE k == [tasks[w][t] EXCEPT !.ref = current[w], !.mine = State(w), !.at = "preparing"]
<1>1. tasks[w][t] \in GraphTasks
  BY TaskTyped DEF Sound, GraphBegin, Of, Tasks, Continuations, Regenerations
<1>2. /\ current[w] \in DOMAIN objects[w] /\ current[w] \in Nat
      /\ State(w) \in StateObjects
  BY CurrentObject DEF Sound, TypeOK, PointersTyped
<1>3. k \in GraphTasks
  BY <1>1, <1>2 DEF GraphTasks
<1>4. State(w) # Nothing
  BY <1>2, ObjectIsSomething
<1>5. k.at = "preparing" /\ k.kind = "graph" /\ k.ref = current[w] /\ k.mine = State(w)
  BY <1>1 DEF GraphTasks
<1>6. TaskSound(k, objects[w])
  BY <1>2, <1>4, <1>5 DEF TaskSound
<1>7. SetTask(w, t, k) /\ UNCHANGED <<objects, current, payload, newest, file, cache, restarts>>
  BY DEF GraphBegin
<1> HIDE DEF k
<1> QED
  BY <1>3, <1>6, <1>7, TaskMovedAlone DEF Tasks

(* A graph past its begin has a copy.                                      *)
LEMMA GraphUnderway ==
    ASSUME Sound, NEW w \in Workflows, NEW t \in DOMAIN tasks[w],
           tasks[w][t].kind = "graph", tasks[w][t].at \in Underway
    PROVE  /\ tasks[w][t] \in GraphTasks
           /\ Mine(w, t) \in StateObjects /\ Mine(w, t) = tasks[w][t].mine
           /\ tasks[w][t].ref \in DOMAIN objects[w]
           /\ t \in Nat
<1>1. tasks[w][t] \in GraphTasks /\ t \in Nat
  BY TaskTyped DEF Sound, Tasks, Continuations, Regenerations
<1>2. tasks[w][t].mine # Nothing /\ tasks[w][t].ref \in DOMAIN objects[w]
  BY DEF Sound, TasksSound, TaskSound
<1> QED
  BY <1>1, <1>2 DEF GraphTasks, Mine

LEMMA GraphPrepareSound ==
    ASSUME Sound, NEW w \in Workflows, NEW t \in DOMAIN tasks[w], GraphPrepare(w, t)
    PROVE  Sound'
<1> DEFINE mine == [Mine(w, t) EXCEPT !.context = payload[w]]
           k == [tasks[w][t] EXCEPT !.mine = mine, !.at = "scenarios"]
<1>1. /\ tasks[w][t] \in GraphTasks /\ Mine(w, t) \in StateObjects
      /\ Mine(w, t) = tasks[w][t].mine /\ tasks[w][t].ref \in DOMAIN objects[w]
  BY GraphUnderway DEF GraphPrepare, Of, Underway
<1>2. payload[w] \in Contexts
  BY DEF Sound, TypeOK, PayloadTyped
<1>3. mine \in StateObjects /\ mine # Nothing
  <2>1. mine \in StateObjects
    BY <1>1, <1>2 DEF StateObjects
  <2> QED
    BY <2>1, ObjectIsSomething
<1>4. SetTask(w, t, k)
  BY <1>1 DEF GraphPrepare, GraphTasks
<1> HIDE DEF mine
<1>5. k \in GraphTasks
  BY <1>1, <1>3 DEF GraphTasks
<1>6. k.at = "scenarios" /\ k.kind = "graph" /\ k.ref = tasks[w][t].ref /\ k.mine = mine
  BY <1>1 DEF GraphTasks
<1>7. TaskSound(k, objects[w])
  BY <1>1, <1>3, <1>6 DEF TaskSound
<1>8. UNCHANGED <<objects, current, payload, newest, file, cache, restarts>>
  BY DEF GraphPrepare
<1> HIDE DEF k
<1> QED
  BY <1>4, <1>5, <1>7, <1>8, TaskMovedAlone DEF Tasks

LEMMA JudgedTyped ==
    ASSUME NEW S, NEW items \in S, NEW passed \in BOOLEAN
    PROVE  Judged(items, passed) \in [of : S, verdict : Verdicts]
<1>1. (IF passed THEN "passed" ELSE "failed") \in Verdicts
  BY DEF Verdicts
<1> QED
  BY <1>1 DEF Judged

LEMMA GraphScenariosSound ==
    ASSUME Sound, NEW w \in Workflows, NEW t \in DOMAIN tasks[w], GraphScenarios(w, t)
    PROVE  Sound'
<1>1. /\ tasks[w][t] \in GraphTasks /\ Mine(w, t) \in StateObjects
      /\ Mine(w, t) = tasks[w][t].mine /\ tasks[w][t].ref \in DOMAIN objects[w]
      /\ t \in Nat
  BY GraphUnderway DEF GraphScenarios, Of, Underway
<1> DEFINE new == Scenarios(w, t)
           mine(passed) == [Mine(w, t) EXCEPT !.scenarios = new, !.scenarioCount = @ + 1,
                                              !.scenarioJudged = Judged(new, passed)]
           k(passed) == [tasks[w][t] EXCEPT !.mine = mine(passed), !.n = @ + 1]
           next(passed) ==
              IF passed THEN [k(passed) EXCEPT !.at = "cases"]
              ELSE IF mine(passed).scenarioCount >= MaxAttempts
              THEN [k(passed) EXCEPT !.mine.status = "scenario_manual_review", !.at = "end"]
              ELSE k(passed)
<1>2. PICK passed \in BOOLEAN : SetTask(w, t, next(passed))
  BY DEF GraphScenarios
<1>3. new \in ScenarioSets
  BY <1>1 DEF Scenarios, ScenarioSets, GraphTasks, StateObjects
<1> HIDE DEF new
<1>4. mine(passed) \in StateObjects
  <2>1. Judged(new, passed) \in [of : ScenarioSets \cup {Nothing}, verdict : Verdicts]
    BY <1>3, JudgedTyped
  <2>2. Mine(w, t).scenarioCount + 1 \in Nat
    BY <1>1 DEF StateObjects
  <2> QED
    BY <1>1, <1>3, <2>1, <2>2 DEF StateObjects
<1>5. mine(passed) # Nothing
  BY <1>4, ObjectIsSomething
<1> HIDE DEF mine
<1>6. k(passed) \in GraphTasks
  <2>1. tasks[w][t].n + 1 \in Nat
    BY <1>1 DEF GraphTasks
  <2> QED
    BY <1>1, <1>4, <2>1 DEF GraphTasks
<1>7. /\ k(passed).kind = "graph" /\ k(passed).ref = tasks[w][t].ref
      /\ k(passed).mine = mine(passed) /\ k(passed).at = "scenarios"
  BY <1>1 DEF GraphTasks, GraphScenarios, Of
<1> HIDE DEF k
<1>8. next(passed) \in GraphTasks /\ TaskSound(next(passed), objects[w])
  <2>1. CASE passed
    <3>1. next(passed) = [k(passed) EXCEPT !.at = "cases"]
      BY <2>1
    <3> HIDE DEF next
    <3>2. /\ next(passed) \in GraphTasks
          /\ next(passed).kind = "graph" /\ next(passed).ref = tasks[w][t].ref
          /\ next(passed).mine = mine(passed) /\ next(passed).at = "cases"
      BY <1>6, <1>7, <3>1 DEF GraphTasks
    <3> QED
      BY <1>1, <1>5, <3>2 DEF TaskSound
  <2>2. CASE ~passed /\ mine(passed).scenarioCount >= MaxAttempts
    <3> DEFINE review == [mine(passed) EXCEPT !.status = "scenario_manual_review"]
    <3>1. next(passed) = [k(passed) EXCEPT !.mine = review, !.at = "end"]
      BY <1>6, <1>7, <2>2 DEF GraphTasks
    <3>2. review \in StateObjects /\ review.status = "scenario_manual_review"
      BY <1>4 DEF StateObjects, Settled, Reviewable
    <3>3. review # Nothing
      BY <3>2, ObjectIsSomething
    <3> HIDE DEF next, review
    <3>4. /\ next(passed) \in GraphTasks
          /\ next(passed).kind = "graph" /\ next(passed).ref = tasks[w][t].ref
          /\ next(passed).mine = review /\ next(passed).at = "end"
      BY <1>6, <1>7, <3>1, <3>2 DEF GraphTasks
    <3>5. ObjectSound(review) /\ review.status \in Settled \ {"cancelled"}
      BY <3>2 DEF ObjectSound, Settled, Reviewable
    <3> QED
      BY <1>1, <3>2, <3>3, <3>4, <3>5 DEF TaskSound
  <2>3. CASE ~passed /\ ~(mine(passed).scenarioCount >= MaxAttempts)
    <3>1. next(passed) = k(passed)
      BY <2>3
    <3> QED
      BY <1>1, <1>5, <1>6, <1>7, <3>1 DEF TaskSound
  <2> QED
    BY <2>1, <2>2, <2>3
<1>9. UNCHANGED <<objects, current, payload, newest, file, cache, restarts>>
  BY DEF GraphScenarios
<1> HIDE DEF next
<1> QED
  BY <1>2, <1>8, <1>9, TaskMovedAlone DEF Tasks

(* A judgement of the test cases leaves an object that may be shown, and a *)
(* completed one only if they were validated.                              *)
LEMMA Judgement ==
    ASSUME NEW s \in StateObjects, NEW passed \in BOOLEAN, s.cases # Nothing,
           SameGeneration(s.cases.of, s.scenarios)
    PROVE  LET j == JudgeCases(s, passed)
           IN  /\ j \in StateObjects
               /\ j.status \in {"completed", "testcase_manual_review", "generating_test_cases"}
               /\ j.scenarios = s.scenarios /\ j.cases = s.cases
               /\ ObjectSound(j)
               /\ j.status = "completed" => CasesValidated(j)
<1> DEFINE judged == [s EXCEPT !.caseJudged = Judged(s.cases, passed), !.caseCount = @ + 1]
           j == JudgeCases(s, passed)
<1>1. judged \in StateObjects
  <2>1. Judged(s.cases, passed) \in [of : CaseSets \cup {Nothing}, verdict : Verdicts]
    BY JudgedTyped DEF StateObjects
  <2>2. s.caseCount + 1 \in Nat
    BY DEF StateObjects
  <2> QED
    BY <2>1, <2>2 DEF StateObjects
<1>2. /\ judged.scenarios = s.scenarios /\ judged.cases = s.cases
      /\ judged.caseJudged = Judged(s.cases, passed)
  BY DEF StateObjects
<1>3. \/ passed /\ j = [judged EXCEPT !.status = "completed"]
      \/ j = [judged EXCEPT !.status = "testcase_manual_review"]
      \/ j = [judged EXCEPT !.status = "generating_test_cases"]
  BY DEF JudgeCases
<1> HIDE DEF judged, j
<1>4. /\ j \in StateObjects
      /\ j.scenarios = s.scenarios /\ j.cases = s.cases
      /\ j.caseJudged = Judged(s.cases, passed)
      /\ \/ passed /\ j.status = "completed"
         \/ j.status \in {"testcase_manual_review", "generating_test_cases"}
  BY <1>1, <1>2, <1>3 DEF StateObjects, Settled, Reviewable
<1>5. ObjectSound(j) /\ (j.status = "completed" => CasesValidated(j))
  BY <1>4 DEF ObjectSound, CasesValidated, Judged
<1> QED
  BY <1>4, <1>5 DEF j

LEMMA CasesMade ==
    ASSUME Sound, NEW w \in Workflows, NEW t \in DOMAIN tasks[w],
           NEW scenarios \in ScenarioSets \cup {Nothing}
    PROVE  /\ Cases(w, t, scenarios) \in CaseSets
           /\ Cases(w, t, scenarios).of = scenarios
           /\ Cases(w, t, scenarios).edits = 0
           /\ Cases(w, t, scenarios) # Nothing
<1>1. tasks[w][t].n \in Nat /\ t \in Nat
  BY TaskTyped DEF Sound, Tasks, GraphTasks, Continuations, Regenerations
<1>2. Cases(w, t, scenarios) \in CaseSets
  BY <1>1 DEF Cases, CaseSets
<1>3. Cases(w, t, scenarios) # <<>>
  <2>1. "of" \in DOMAIN Cases(w, t, scenarios)
    BY DEF Cases
  <2> QED
    BY <2>1
<1> QED
  BY <1>2, <1>3 DEF Cases, Nothing

LEMMA GraphCasesSound ==
    ASSUME Sound, NEW w \in Workflows, NEW t \in DOMAIN tasks[w], GraphCases(w, t)
    PROVE  Sound'
<1>1. /\ tasks[w][t] \in GraphTasks /\ Mine(w, t) \in StateObjects
      /\ Mine(w, t) = tasks[w][t].mine /\ tasks[w][t].ref \in DOMAIN objects[w]
      /\ tasks[w][t].n + 1 \in Nat
      /\ tasks[w][t].at = "cases"
  BY GraphUnderway DEF GraphCases, Of, Underway, GraphTasks
<1> DEFINE cases == Cases(w, t, Mine(w, t).scenarios)
           made == [Mine(w, t) EXCEPT !.cases = cases]
           mine(passed) == JudgeCases(made, passed)
           k(passed) == [tasks[w][t] EXCEPT !.mine = mine(passed), !.n = @ + 1,
                  !.at = IF mine(passed).status \in Settled THEN "end" ELSE "cases"]
<1>2. PICK passed \in BOOLEAN : SetTask(w, t, k(passed))
  BY DEF GraphCases
<1>3. /\ cases \in CaseSets /\ cases # Nothing
      /\ cases.of = Mine(w, t).scenarios
  BY <1>1, CasesMade DEF StateObjects
<1> HIDE DEF cases
<1>4. made \in StateObjects /\ made.cases = cases /\ made.scenarios = Mine(w, t).scenarios
  BY <1>1, <1>3 DEF StateObjects
<1> HIDE DEF made
<1>5. /\ mine(passed) \in StateObjects
      /\ mine(passed).status \in {"completed", "testcase_manual_review", "generating_test_cases"}
      /\ ObjectSound(mine(passed))
      /\ mine(passed).status = "completed" => CasesValidated(mine(passed))
  BY <1>3, <1>4, Judgement DEF SameGeneration
<1>6. mine(passed) # Nothing
  BY <1>5, ObjectIsSomething
<1> HIDE DEF mine
<1>7. /\ k(passed) \in GraphTasks
      /\ k(passed).kind = "graph" /\ k(passed).ref = tasks[w][t].ref
      /\ k(passed).mine = mine(passed)
      /\ k(passed).at = IF mine(passed).status \in Settled THEN "end" ELSE "cases"
  BY <1>1, <1>5 DEF GraphTasks
<1> HIDE DEF k
<1>8. TaskSound(k(passed), objects[w])
  BY <1>1, <1>5, <1>6, <1>7 DEF TaskSound
<1>9. UNCHANGED <<objects, current, payload, newest, file, cache, restarts>>
  BY DEF GraphCases
<1> QED
  BY <1>2, <1>7, <1>8, <1>9, TaskMovedAlone DEF Tasks

LEMMA GraphEndSound ==
    ASSUME Sound, NEW w \in Workflows, NEW t \in DOMAIN tasks[w], GraphEnd(w, t)
    PROVE  Sound'
<1> DEFINE s == [Mine(w, t) EXCEPT !.rejected = FALSE]
           k == Ended(tasks[w][t].kind)
<1>1. /\ Mine(w, t) \in StateObjects /\ Mine(w, t) = tasks[w][t].mine
      /\ tasks[w][t].at = "end" /\ tasks[w][t].kind = "graph"
  BY GraphUnderway DEF GraphEnd, Of, Underway
<1>2. /\ ObjectSound(Mine(w, t))
      /\ Mine(w, t).status = "completed" => CasesValidated(Mine(w, t))
  BY <1>1 DEF Sound, TasksSound, TaskSound
<1>3. /\ s \in StateObjects
      /\ s.status = Mine(w, t).status /\ s.scenarios = Mine(w, t).scenarios
      /\ s.cases = Mine(w, t).cases /\ s.caseJudged = Mine(w, t).caseJudged
  BY <1>1 DEF StateObjects
<1>4. /\ objects' = [objects EXCEPT ![w] = Append(@, s)]
      /\ current' = [current EXCEPT ![w] = Len(objects[w]) + 1]
      /\ CacheCompleted(w, s)
      /\ SetTask(w, t, k)
      /\ UNCHANGED <<payload, newest, restarts>>
  BY DEF GraphEnd, EndTask
<1> HIDE DEF s
<1>5. ObjectSound(s) /\ (s.status = "completed" => s.cases # Nothing /\ CasesValidated(s))
  BY <1>2, <1>3 DEF ObjectSound, CasesValidated
<1>6. k \in Tasks /\ TaskSound(k, objects'[w])
  BY TaskTyped, TaskEnds DEF Sound
<1> HIDE DEF k
<1>7. FileTyped' /\ FilesSound' /\ CacheTyped' /\ CacheSound'
  BY <1>3, <1>4, <1>5, CompletedCached DEF Sound, TypeOK
<1>8. /\ ObjectsTyped' /\ ObjectsSound'
      /\ \A v \in Workflows : Onward(objects[v], objects'[v])
      /\ Len(objects'[w]) = Len(objects[w]) + 1 /\ Len(objects[w]) \in Nat
      /\ \A v \in Workflows \ {w} : objects'[v] = objects[v]
  <2>1. ObjectsTyped /\ ObjectsSound
    BY DEF Sound, TypeOK
  <2>2. ObjectsSound' /\ \A v \in Workflows : Onward(objects[v], objects'[v])
    BY <1>3, <1>4, <1>5, <2>1, ObjectAddedSound
  <2>3. /\ ObjectsTyped' /\ Len(objects'[w]) = Len(objects[w]) + 1
        /\ \A v \in Workflows \ {w} : objects'[v] = objects[v]
    BY <1>3, <1>4, <2>1, ObjectAdded
  <2>4. Len(objects[w]) \in Nat
    BY <2>1 DEF ObjectsTyped
  <2> QED
    BY <2>2, <2>3, <2>4
<1>9. /\ current' \in [Workflows -> Nat]
      /\ \A v \in Workflows : current'[v] <= Len(objects'[v])
  BY <1>4, <1>8 DEF Sound, TypeOK, PointersTyped
<1> QED
  BY <1>4, <1>6, <1>7, <1>8, <1>9, TaskMoved

(* A task writes the object it was started on, which may become the one    *)
(* that a reader sees.                                                     *)
LEMMA ObjectMoved ==
    ASSUME Sound, NEW w \in Workflows, NEW t \in DOMAIN tasks[w], NEW k \in Tasks,
           SetTask(w, t, k), NEW o \in DOMAIN objects[w], NEW s \in StateObjects,
           SetObject(w, o, s), ObjectSound(s), Follows(objects[w][o], s),
           TaskSound(k, objects'[w]),
           UNCHANGED current \/ current' = [current EXCEPT ![w] = o],
           FileTyped' /\ FilesSound' /\ CacheTyped' /\ CacheSound',
           UNCHANGED <<payload, newest, restarts>>
    PROVE  Sound'
<1>1. ObjectsTyped /\ ObjectsSound
  BY DEF Sound, TypeOK
<1>2. ObjectsSound' /\ \A v \in Workflows : Onward(objects[v], objects'[v])
  BY <1>1, ObjectWrittenSound
<1>3. ObjectsTyped' /\ \A v \in Workflows : Len(objects'[v]) = Len(objects[v])
  BY <1>1, ObjectWritten
<1>4. o \in Nat /\ o <= Len(objects[w])
  BY <1>1 DEF ObjectsTyped
<1>5. /\ current' \in [Workflows -> Nat]
      /\ \A v \in Workflows : current'[v] <= Len(objects'[v])
  BY <1>3, <1>4 DEF Sound, TypeOK, PointersTyped
<1> QED
  BY <1>2, <1>3, <1>5, TaskMoved

LEMMA ObjectFails ==
    ASSUME Sound, NEW w \in Workflows, NEW t \in DOMAIN tasks[w], EndTask(w, t),
           NEW o \in DOMAIN objects[w], SetObject(w, o, [objects[w][o] EXCEPT !.status = "failed"]),
           current' = [current EXCEPT ![w] = o],
           UNCHANGED <<payload, newest, file, cache, restarts>>
    PROVE  Sound'
<1> DEFINE s == [objects[w][o] EXCEPT !.status = "failed"]
           k == Ended(tasks[w][t].kind)
<1>1. objects[w][o] \in StateObjects
  BY DEF Sound, TypeOK, ObjectsTyped
<1>2. /\ s \in StateObjects /\ s.status = "failed"
      /\ s.scenarios = objects[w][o].scenarios /\ s.cases = objects[w][o].cases
  BY <1>1 DEF StateObjects, Settled
<1>3. SetObject(w, o, s) /\ SetTask(w, t, k)
  BY DEF EndTask
<1>4. k \in Tasks /\ TaskSound(k, objects'[w])
  BY TaskTyped, TaskEnds DEF Sound
<1> HIDE DEF s, k
<1>5. ObjectSound(s) /\ Follows(objects[w][o], s)
  BY <1>2 DEF ObjectSound, Follows, SameGeneration
<1>6. FileTyped' /\ FilesSound' /\ CacheTyped' /\ CacheSound'
  BY DEF Sound, TypeOK, FileTyped, FilesSound, CacheTyped, CacheSound
<1> QED
  BY <1>2, <1>3, <1>4, <1>5, <1>6, ObjectMoved

LEMMA GraphFailSound ==
    ASSUME Sound, NEW w \in Workflows, NEW t \in DOMAIN tasks[w], GraphFail(w, t)
    PROVE  Sound'
<1>1. tasks[w][t].ref \in DOMAIN objects[w]
  BY GraphUnderway DEF GraphFail, Underway
<1> QED
  BY <1>1, ObjectFails DEF GraphFail
-----------------------------------------------------------------------------
(* The continuation after an approval.                                     *)
LEMMA ContinueBeginSound ==
    ASSUME Sound, NEW w \in Workflows, NEW t \in DOMAIN tasks[w], ContinueBegin(w, t), Known(w)
    PROVE  Sound'
<1> DEFINE s == [State(w) EXCEPT !.status = "generating_test_cases"]
           k == [tasks[w][t] EXCEPT !.ref = current[w], !.mine = State(w).scenarios, !.at = "cases"]
<1>1. /\ State(w) \in StateObjects /\ State(w) = objects[w][current[w]]
      /\ current[w] \in DOMAIN objects[w] /\ current[w] \in Nat
  BY CurrentObject DEF Sound, TypeOK, PointersTyped
<1>2. /\ s \in StateObjects /\ s.status = "generating_test_cases"
      /\ s.scenarios = State(w).scenarios /\ s.cases = State(w).cases
  BY <1>1 DEF StateObjects
<1>3. ObjectSound(s) /\ Follows(objects[w][current[w]], s)
  BY <1>1, <1>2 DEF ObjectSound, Follows, SameGeneration
<1>4. SetObject(w, current[w], s) /\ SetTask(w, t, k)
      /\ UNCHANGED <<current, payload, newest, file, cache, restarts>>
  BY DEF ContinueBegin, SetState
<1>5. tasks[w][t] \in Continuations
  BY TaskTyped DEF Sound, ContinueBegin, Of, Tasks, GraphTasks, Regenerations
<1>6. State(w).scenarios \in ScenarioSets \cup {Nothing}
  BY <1>1 DEF StateObjects
<1>7. /\ k \in Continuations /\ k.kind = "continue" /\ k.at = "cases"
      /\ k.ref = current[w] /\ k.mine = State(w).scenarios
  BY <1>1, <1>5, <1>6 DEF Continuations
<1> HIDE DEF s, k
<1>8. /\ DOMAIN objects'[w] = DOMAIN objects[w]
      /\ objects'[w][current[w]] = s
  BY <1>1, <1>2, <1>4, ObjectWritten DEF Sound, TypeOK
<1>9. TaskSound(k, objects'[w])
  BY <1>1, <1>2, <1>7, <1>8 DEF TaskSound, SameGeneration
<1>10. FileTyped' /\ FilesSound' /\ CacheTyped' /\ CacheSound'
  BY <1>4 DEF Sound, TypeOK, FileTyped, FilesSound, CacheTyped, CacheSound
<1> QED
  BY <1>1, <1>2, <1>3, <1>4, <1>7, <1>9, <1>10, ObjectMoved DEF Tasks

(* A continuation that asked has an object, and scenarios of that object's *)
(* generation.                                                             *)
LEMMA ContinueUnderway ==
    ASSUME Sound, NEW w \in Workflows, NEW t \in DOMAIN tasks[w], Of(w, t, "continue", "cases")
    PROVE  /\ tasks[w][t] \in Continuations
           /\ tasks[w][t].ref \in DOMAIN objects[w]
           /\ objects[w][tasks[w][t].ref] \in StateObjects
           /\ Mine(w, t) \in ScenarioSets \cup {Nothing}
           /\ SameGeneration(Mine(w, t), objects[w][tasks[w][t].ref].scenarios)
           /\ tasks[w][t].n + 1 \in Nat
<1>1. tasks[w][t] \in Continuations
  BY TaskTyped DEF Sound, Of, Tasks, GraphTasks, Regenerations
<1>2. /\ tasks[w][t].ref \in DOMAIN objects[w]
      /\ SameGeneration(tasks[w][t].mine, objects[w][tasks[w][t].ref].scenarios)
  BY DEF Sound, TasksSound, TaskSound, Of
<1>3. objects[w][tasks[w][t].ref] \in StateObjects
  BY <1>2 DEF Sound, TypeOK, ObjectsTyped
<1> QED
  BY <1>1, <1>2, <1>3 DEF Continuations, Mine

LEMMA ContinueCasesSound ==
    ASSUME Sound, NEW w \in Workflows, NEW t \in DOMAIN tasks[w], ContinueCases(w, t)
    PROVE  Sound'
<1> DEFINE ref == tasks[w][t].ref
           cases == Cases(w, t, Mine(w, t))
           old == [objects[w][ref] EXCEPT !.cases = cases]
           s(passed) == JudgeCases(old, passed)
<1>1. Of(w, t, "continue", "cases")
  BY DEF ContinueCases
<1>2. /\ tasks[w][t] \in Continuations /\ ref \in DOMAIN objects[w]
      /\ objects[w][ref] \in StateObjects /\ Mine(w, t) \in ScenarioSets \cup {Nothing}
      /\ SameGeneration(Mine(w, t), objects[w][ref].scenarios)
      /\ tasks[w][t].n + 1 \in Nat
  BY <1>1, ContinueUnderway
<1>3. PICK passed \in BOOLEAN :
        /\ SetObject(w, ref, s(passed))
        /\ CacheCompleted(w, s(passed))
        /\ IF s(passed).status \in Settled
           THEN /\ current' = [current EXCEPT ![w] = ref]
                /\ EndTask(w, t)
           ELSE /\ UNCHANGED current
                /\ SetTask(w, t, [tasks[w][t] EXCEPT !.mine = s(passed).scenarios, !.n = @ + 1])
  BY DEF ContinueCases
<1>4. cases \in CaseSets /\ cases # Nothing /\ cases.of = Mine(w, t)
  BY <1>2, CasesMade
<1> HIDE DEF cases
<1>5. old \in StateObjects /\ old.cases = cases /\ old.scenarios = objects[w][ref].scenarios
  BY <1>2, <1>4 DEF StateObjects
<1> HIDE DEF old
<1>6. /\ s(passed) \in StateObjects
      /\ s(passed).scenarios = old.scenarios /\ s(passed).cases = old.cases
      /\ ObjectSound(s(passed))
      /\ s(passed).status = "completed" => CasesValidated(s(passed))
  BY <1>2, <1>4, <1>5, Judgement
<1> HIDE DEF s
<1>7. Follows(objects[w][ref], s(passed))
  BY <1>4, <1>5, <1>6 DEF Follows, SameGeneration
<1>8. FileTyped' /\ FilesSound' /\ CacheTyped' /\ CacheSound'
  BY <1>3, <1>4, <1>5, <1>6, CompletedCached DEF Sound, TypeOK
<1>9. UNCHANGED <<payload, newest, restarts>>
  BY DEF ContinueCases
<1>10. CASE s(passed).status \in Settled
  <2>1. Ended(tasks[w][t].kind) \in Tasks /\ TaskSound(Ended(tasks[w][t].kind), objects'[w])
    BY TaskTyped, TaskEnds DEF Sound
  <2>2. SetTask(w, t, Ended(tasks[w][t].kind)) /\ current' = [current EXCEPT ![w] = ref]
    BY <1>3, <1>10 DEF EndTask
  <2> HIDE DEF ref
  <2> QED
    BY <1>2, <1>3, <1>6, <1>7, <1>8, <1>9, <2>1, <2>2, ObjectMoved
<1>11. CASE s(passed).status \notin Settled
  <2> DEFINE k == [tasks[w][t] EXCEPT !.mine = s(passed).scenarios, !.n = @ + 1]
  <2>1. SetTask(w, t, k) /\ UNCHANGED current
    BY <1>3, <1>11
  <2>2. s(passed).scenarios \in ScenarioSets \cup {Nothing}
    BY <1>6 DEF StateObjects
  <2>3. /\ k \in Continuations /\ k.kind = "continue" /\ k.at = "cases"
        /\ k.ref = ref /\ k.mine = s(passed).scenarios
    BY <1>1, <1>2, <2>2 DEF Continuations, Of
  <2>4. DOMAIN objects'[w] = DOMAIN objects[w] /\ objects'[w][ref] = s(passed)
    BY <1>2, <1>3, <1>6, ObjectWritten DEF Sound, TypeOK
  <2> HIDE DEF k, ref
  <2>5. TaskSound(k, objects'[w])
    BY <1>2, <2>3, <2>4 DEF TaskSound, SameGeneration
  <2>6. k \in Tasks
    BY <2>3 DEF Tasks
  <2> QED
    BY <1>2, <1>3, <1>6, <1>7, <1>8, <1>9, <2>1, <2>5, <2>6, ObjectMoved
<1> QED
  BY <1>10, <1>11

LEMMA ContinueFailSound ==
    ASSUME Sound, NEW w \in Workflows, NEW t \in DOMAIN tasks[w], ContinueFail(w, t)
    PROVE  Sound'
<1>1. tasks[w][t].ref \in DOMAIN objects[w]
  BY ContinueUnderway DEF ContinueFail
<1> QED
  BY <1>1, ObjectFails DEF ContinueFail
-----------------------------------------------------------------------------
(* An edit keeps the generation; test cases that are edited show it.       *)
LEMMA Edited ==
    ASSUME NEW x \in StateObjects, NEW what \in {"scenarios", "cases"}, x[what] # Nothing,
           ObjectSound(x), NEW passed \in BOOLEAN
    PROVE  LET s == [x EXCEPT ![what].edits = @ + 1]
               new == IF what = "scenarios"
                      THEN [s EXCEPT !.scenarioJudged = Judged(s.scenarios, passed)]
                      ELSE [s EXCEPT !.caseJudged = Judged(s.cases, passed)]
           IN  /\ new \in StateObjects /\ ObjectSound(new) /\ Follows(x, new)
               /\ new.status = x.status
<1>1. CASE what = "scenarios"
  <2> DEFINE items == [x.scenarios EXCEPT !.edits = @ + 1]
             s == [x EXCEPT !.scenarios = items]
             new == [s EXCEPT !.scenarioJudged = Judged(items, passed)]
  <2>1. x.scenarios \in ScenarioSets
    BY <1>1 DEF StateObjects
  <2>2. items \in ScenarioSets /\ items.run = x.scenarios.run /\ items.n = x.scenarios.n
    BY <2>1 DEF ScenarioSets
  <2>3. items # Nothing
    <3>1. "run" \in DOMAIN items
      BY <2>2 DEF ScenarioSets
    <3> QED
      BY <3>1 DEF Nothing
  <2>4. [x EXCEPT ![what].edits = @ + 1] = s /\ s.scenarios = items
    BY <1>1 DEF StateObjects
  <2> HIDE DEF items
  <2>5. s \in StateObjects
    BY <2>2 DEF StateObjects
  <2>6. Judged(items, passed) \in [of : ScenarioSets \cup {Nothing}, verdict : Verdicts]
    BY <2>2, JudgedTyped
  <2>7. /\ new \in StateObjects /\ new.scenarios = items /\ new.cases = x.cases
        /\ new.caseJudged = x.caseJudged /\ new.status = x.status
    BY <2>2, <2>5, <2>6 DEF StateObjects
  <2>8. ObjectSound(new) /\ Follows(x, new)
    <3> HIDE DEF new
    <3> QED
      BY <2>2, <2>3, <2>7 DEF ObjectSound, Follows, SameGeneration
  <2> QED
    BY <1>1, <2>4, <2>7, <2>8
<1>2. CASE what = "cases"
  <2> DEFINE items == [x.cases EXCEPT !.edits = @ + 1]
             s == [x EXCEPT !.cases = items]
             new == [s EXCEPT !.caseJudged = Judged(items, passed)]
  <2>1. x.cases \in CaseSets
    BY <1>2 DEF StateObjects
  <2>2. items \in CaseSets /\ items.of = x.cases.of /\ items.edits # 0
    BY <2>1 DEF CaseSets
  <2>3. items # Nothing
    <3>1. "run" \in DOMAIN items
      BY <2>2 DEF CaseSets
    <3> QED
      BY <3>1 DEF Nothing
  <2>4. [x EXCEPT ![what].edits = @ + 1] = s /\ s.cases = items
    BY <1>2 DEF StateObjects
  <2> HIDE DEF items
  <2>5. s \in StateObjects
    BY <2>2 DEF StateObjects
  <2>6. Judged(items, passed) \in [of : CaseSets \cup {Nothing}, verdict : Verdicts]
    BY <2>2, JudgedTyped
  <2>7. /\ new \in StateObjects /\ new.scenarios = x.scenarios /\ new.cases = items
        /\ new.status = x.status
    BY <2>2, <2>5, <2>6 DEF StateObjects
  <2>8. ObjectSound(new) /\ Follows(x, new)
    <3> HIDE DEF new
    <3> QED
      BY <2>2, <2>3, <2>7 DEF ObjectSound, Follows, SameGeneration
  <2> QED
    BY <1>2, <2>4, <2>7, <2>8
<1> QED
  BY <1>1, <1>2

LEMMA RegenerateAnswerSound ==
    ASSUME Sound, NEW w \in Workflows, NEW t \in DOMAIN tasks[w], RegenerateAnswer(w, t)
    PROVE  Sound'
<1> DEFINE ref == tasks[w][t].ref
           what == tasks[w][t].kind
           x == objects[w][ref]
           s == [x EXCEPT ![what].edits = @ + 1]
           new(passed) == IF what = "scenarios"
                          THEN [s EXCEPT !.scenarioJudged = Judged(s.scenarios, passed)]
                          ELSE [s EXCEPT !.caseJudged = Judged(s.cases, passed)]
           k == Ended(tasks[w][t].kind)
<1>1. /\ what \in {"scenarios", "cases"} /\ tasks[w][t].at = "asking"
      /\ UNCHANGED <<current, payload, newest, cache, restarts>>
  BY DEF RegenerateAnswer
<1>2. PICK passed \in BOOLEAN : SetObject(w, ref, new(passed)) /\ Persist(w, new(passed))
  BY DEF RegenerateAnswer
<1>3. SetTask(w, t, k)
  BY DEF RegenerateAnswer, EndTask
<1>4. ref \in DOMAIN objects[w] /\ x[what] # Nothing
  BY <1>1 DEF Sound, TasksSound, TaskSound
<1>5. x \in StateObjects /\ ObjectSound(x)
  BY <1>4 DEF Sound, TypeOK, ObjectsTyped, ObjectsSound
<1>6. k \in Tasks /\ TaskSound(k, objects'[w])
  BY TaskTyped, TaskEnds DEF Sound
<1>7. new(passed) \in StateObjects /\ ObjectSound(new(passed)) /\ Follows(x, new(passed))
  <2> HIDE DEF x, what
  <2> QED
    BY <1>1, <1>4, <1>5, Edited
<1> HIDE DEF new, k
<1>8. FileTyped' /\ FilesSound' /\ CacheTyped' /\ CacheSound'
  BY <1>1, <1>2, <1>7, Persisted DEF Sound, TypeOK, CacheTyped, CacheSound
<1> HIDE DEF what
<1> QED
  BY <1>1, <1>2, <1>3, <1>4, <1>6, <1>7, <1>8, ObjectMoved

LEMMA RegenerateFailSound ==
    ASSUME Sound, NEW w \in Workflows, NEW t \in DOMAIN tasks[w], RegenerateFail(w, t)
    PROVE  Sound'
<1>1. /\ Ended(tasks[w][t].kind) \in Tasks
      /\ TaskSound(Ended(tasks[w][t].kind), objects[w])
  BY TaskTyped, TaskEnds DEF Sound
<1> QED
  BY <1>1, TaskMovedAlone DEF RegenerateFail, EndTask
-----------------------------------------------------------------------------
(* A restart leaves files and cached results; a load reads a file.         *)
LEMMA RestartSound ==
    ASSUME Sound, Restart
    PROVE  Sound'
<1>1. TypeOK /\ MaxRestarts \in Nat
  BY WorkflowAssumption DEF Sound
<1>2. /\ objects' = [w \in Workflows |-> <<>>]
      /\ current' = [w \in Workflows |-> 0] /\ newest' = [w \in Workflows |-> 0]
      /\ payload' = [w \in Workflows |-> Nothing]
      /\ tasks' = [w \in Workflows |-> [t \in DOMAIN tasks[w] |-> Ended(tasks[w][t].kind)]]
      /\ restarts' \in 0..MaxRestarts
      /\ UNCHANGED <<file, cache>>
  BY <1>1 DEF Restart, TypeOK
<1>3. \A w \in Workflows : \A t \in DOMAIN tasks[w] :
        /\ Ended(tasks[w][t].kind) \in Tasks
        /\ \A objs : TaskSound(Ended(tasks[w][t].kind), objs)
  BY <1>1, TaskTyped, TaskEnds
<1>4. TasksTyped'
  <2>1. \A w \in Workflows : [t \in DOMAIN tasks[w] |-> Ended(tasks[w][t].kind)] \in Seq(Tasks)
    <3> SUFFICES ASSUME NEW w \in Workflows
                 PROVE  [t \in DOMAIN tasks[w] |-> Ended(tasks[w][t].kind)] \in Seq(Tasks)
      OBVIOUS
    <3>1. DOMAIN tasks[w] = 1..Len(tasks[w]) /\ Len(tasks[w]) \in Nat
      BY <1>1 DEF TypeOK, TasksTyped
    <3>2. [t \in DOMAIN tasks[w] |-> Ended(tasks[w][t].kind)]
            \in [1..Len(tasks[w]) -> Tasks]
      BY <1>3, <3>1
    <3> QED
      BY <3>1, <3>2
  <2> QED
    BY <1>2, <2>1 DEF TasksTyped
<1>5. \A w \in Workflows : Len(objects'[w]) = 0 /\ DOMAIN objects'[w] = {}
  BY <1>2
<1>6. ObjectsTyped'
  BY <1>2 DEF ObjectsTyped
<1>7. PointersTyped'
  <2>1. \A w \in Workflows : Len(tasks'[w]) \in Nat
    BY <1>4 DEF TasksTyped
  <2> QED
    BY <1>2, <1>5, <2>1 DEF PointersTyped
<1>8. TypeOK'
  BY <1>1, <1>2, <1>4, <1>6, <1>7 DEF TypeOK, PayloadTyped, Contexts, FileTyped, CacheTyped
<1>9. TasksSound'
  <2>1. \A w \in Workflows : \A t \in DOMAIN tasks'[w] :
          t \in DOMAIN tasks[w] /\ tasks'[w][t] = Ended(tasks[w][t].kind)
    BY <1>2
  <2> QED
    BY <1>3, <2>1 DEF TasksSound
<1>10. ObjectsSound' /\ FilesSound' /\ CacheSound'
  BY <1>2, <1>5 DEF Sound, ObjectsSound, FilesSound, CacheSound
<1> QED
  BY <1>8, <1>9, <1>10 DEF Sound

LEMMA LoadSound ==
    ASSUME Sound, NEW w \in Workflows, Load(w),
           \A t \in DOMAIN tasks[w] : ~Live(tasks[w][t])
    PROVE  Sound'
<1> DEFINE s == file[w].state
<1>1. TypeOK
  BY DEF Sound
<1>2. s \in StateObjects /\ file[w].payload \in Contexts /\ ObjectSound(s)
  BY <1>1 DEF Load, Sound, TypeOK, FileTyped, FilesSound
<1>3. /\ objects' = [objects EXCEPT ![w] = <<s>>]
      /\ current' = [current EXCEPT ![w] = 1]
      /\ payload' = [payload EXCEPT ![w] = file[w].payload]
      /\ UNCHANGED <<tasks, newest, file, cache, restarts>>
  BY DEF Load
<1> HIDE DEF s
<1>4. <<s>> \in Seq(StateObjects) /\ Len(<<s>>) = 1 /\ DOMAIN <<s>> = 1..1 /\ <<s>>[1] = s
  BY <1>2
<1>5. ObjectsTyped' /\ objects'[w] = <<s>> /\ \A v \in Workflows \ {w} : objects'[v] = objects[v]
  BY <1>1, <1>3, <1>4 DEF TypeOK, ObjectsTyped
<1>6. ObjectsSound'
  <2>1. \A o \in DOMAIN objects'[w] : objects'[w][o] = s
    BY <1>4, <1>5
  <2> QED
    BY <1>2, <1>5, <2>1 DEF Sound, ObjectsSound
<1>7. TasksSound'
  <2> SUFFICES ASSUME NEW v \in Workflows, NEW t \in DOMAIN tasks[v]
               PROVE  TaskSound(tasks[v][t], objects'[v])
    BY <1>3 DEF TasksSound
  <2>1. CASE v = w
    BY <2>1 DEF TaskSound, Live, Underway
  <2>2. CASE v # w
    BY <1>5, <2>2 DEF Sound, TasksSound
  <2> QED
    BY <2>1, <2>2
<1>8. PointersTyped'
  <2>1. \A v \in Workflows \ {w} : current'[v] <= Len(objects'[v])
    BY <1>1, <1>3, <1>5 DEF TypeOK, PointersTyped
  <2>2. current'[w] = 1 /\ Len(objects'[w]) = 1
    BY <1>1, <1>3, <1>4, <1>5 DEF TypeOK, PointersTyped
  <2>3. \A v \in Workflows : current'[v] <= Len(objects'[v])
    BY <2>1, <2>2
  <2>4. current' \in [Workflows -> Nat]
    BY <1>1, <1>3 DEF TypeOK, PointersTyped
  <2>5. newest' \in [Workflows -> Nat] /\ \A v \in Workflows : newest'[v] <= Len(tasks'[v])
    BY <1>1, <1>3 DEF TypeOK, PointersTyped
  <2> QED
    BY <2>3, <2>4, <2>5 DEF PointersTyped
<1>9. TypeOK'
  BY <1>1, <1>2, <1>3, <1>5, <1>8 DEF TypeOK, TasksTyped, PayloadTyped, FileTyped, CacheTyped
<1> QED
  BY <1>3, <1>6, <1>7, <1>9 DEF Sound, FilesSound, CacheSound

(* Together.                                                               *)
LEMMA SoundKept ==
    ASSUME Sound, TasksKnown, [Next]_vars
    PROVE  Sound'
<1>1. CASE UNCHANGED vars
  BY <1>1 DEF vars, Sound, TypeOK, ObjectsTyped, TasksTyped, PointersTyped, PayloadTyped,
    FileTyped, CacheTyped, ObjectsSound, TasksSound, FilesSound, CacheSound
<1>2. ASSUME NEW w \in Workflows, Request(w)
      PROVE  Sound'
  <2>1. Load(w) => \A t \in DOMAIN tasks[w] : ~Live(tasks[w][t])
    BY DEF TasksKnown, Load
  <2> QED
    BY <1>2, <2>1, StartSound, CancelSound, ResumeSound, ApproveScenariosSound,
      ApproveCasesSound, DecideSound, RegenerateSound, LoadSound DEF Request
<1>3. ASSUME NEW w \in Workflows, NEW t \in 1..MaxTasks, TaskStep(w, t)
      PROVE  Sound'
  <2>1. t \in DOMAIN tasks[w]
    BY <1>3 DEF TaskStep
  <2>2. Live(tasks[w][t]) => Known(w)
    BY <2>1 DEF TasksKnown
  <2>3. CASE GraphBegin(w, t)
    BY <2>1, <2>2, <2>3, GraphBeginSound DEF GraphBegin, Of, Live
  <2>4. CASE ContinueBegin(w, t)
    BY <2>1, <2>2, <2>4, ContinueBeginSound DEF ContinueBegin, Of, Live
  <2> QED
    BY <1>3, <2>1, <2>3, <2>4, GraphPrepareSound, GraphScenariosSound, GraphCasesSound,
      GraphEndSound, GraphFailSound, ContinueCasesSound, ContinueFailSound,
      RegenerateAnswerSound, RegenerateFailSound DEF TaskStep
<1>4. CASE Restart
  BY <1>4, RestartSound
<1> QED
  BY <1>1, <1>2, <1>3, <1>4 DEF Next
-----------------------------------------------------------------------------
(* What a reader sees.  A request on a workflow leaves it in memory, and   *)
(* settled, or attended, or as it was; it cancels only by stopping the     *)
(* newest task, and nothing it does takes the cancellation back.           *)
Elsewhere(w) ==
    \A v \in Workflows \ {w} :
        /\ objects'[v] = objects[v] /\ current'[v] = current[v]
        /\ tasks'[v] = tasks[v] /\ newest'[v] = newest[v] /\ file'[v] = file[v]
Works(k) == Live(k) /\ k.kind \in {"graph", "continue"}
RequestShape(w) ==
    /\ Elsewhere(w) /\ restarts' = restarts
    /\ Known(w)'
    /\ \/ State(w)'.status \in Settled
       \/ \E t \in DOMAIN tasks'[w] : Works(tasks'[w][t])
       \/ /\ Known(w) /\ State(w)'.status = State(w).status
          /\ \A u \in DOMAIN tasks[w] : u \in DOMAIN tasks'[w] /\ tasks'[w][u] = tasks[w][u]
       \/ ~Known(w) /\ file[w] # Nothing
    /\ State(w)'.status = "cancelled" =>
          newest'[w] = 0 \/ ~Live(tasks'[w][newest'[w]])
    /\ Known(w) /\ State(w).status = "cancelled" => State(w)'.status = "cancelled"

LEMMA StartShape ==
    ASSUME TypeOK, NEW w \in Workflows, NEW input \in Inputs, Start(w, input)
    PROVE  RequestShape(w)
<1>1. /\ current' = [current EXCEPT ![w] = 1] /\ UNCHANGED restarts
      /\ objects[w] = <<>> /\ tasks[w] = <<>> /\ Len(objects[w]) = 0 /\ Len(tasks[w]) = 0
  BY DEF Start
<1>2. current'[w] = 1 /\ \A v \in Workflows \ {w} : current'[v] = current[v]
  BY <1>1 DEF TypeOK, PointersTyped
<1>3. ~Known(w)
  <2>1. current[w] <= 0 /\ current[w] \in Nat
    BY <1>1 DEF TypeOK, PointersTyped
  <2> QED
    BY <2>1 DEF Known
<1>4. ASSUME NEW s, objects' = [objects EXCEPT ![w] = <<s>>]
      PROVE  /\ State(w)' = s
             /\ \A v \in Workflows \ {w} : objects'[v] = objects[v]
  <2>1. objects'[w] = <<s>> /\ \A v \in Workflows \ {w} : objects'[v] = objects[v]
    BY <1>4 DEF TypeOK, ObjectsTyped
  <2> QED
    BY <1>2, <2>1 DEF State
<1>5. CASE /\ input \in DOMAIN cache
           /\ LET hit == cache[input]
                  s == [InitialState(input) EXCEPT !.status = "completed",
                       !.context = hit.context,
                       !.scenarios = hit.scenarios, !.scenarioJudged = hit.scenarioJudged,
                       !.cases = hit.cases, !.caseJudged = hit.caseJudged]
              IN  /\ objects' = [objects EXCEPT ![w] = <<s>>]
                  /\ file' = [file EXCEPT ![w] = [state |-> s, payload |-> input]]
           /\ UNCHANGED <<tasks, newest>>
  <2> DEFINE hit == cache[input]
             s == [InitialState(input) EXCEPT !.status = "completed",
                       !.context = hit.context,
                       !.scenarios = hit.scenarios, !.scenarioJudged = hit.scenarioJudged,
                       !.cases = hit.cases, !.caseJudged = hit.caseJudged]
  <2>1. s.status = "completed"
    BY DEF InitialState
  <2>2. /\ objects' = [objects EXCEPT ![w] = <<s>>]
        /\ file' = [file EXCEPT ![w] = [state |-> s, payload |-> input]]
    BY <1>5
  <2> HIDE DEF s
  <2>3. \A v \in Workflows \ {w} : file'[v] = file[v]
    BY <2>2 DEF TypeOK, FileTyped
  <2>4. State(w)'.status = "completed" /\ \A v \in Workflows \ {w} : objects'[v] = objects[v]
    BY <1>4, <2>1, <2>2
  <2> QED
    BY <1>1, <1>2, <1>3, <1>5, <2>3, <2>4 DEF RequestShape, Elsewhere, Known, Settled
<1>6. CASE /\ objects' = [objects EXCEPT ![w] = <<InitialState(input)>>]
           /\ CreateTask(w, "graph")
           /\ UNCHANGED file
  <2> DEFINE k == Task("graph", 0, Nothing, "created")
  <2>1. tasks' = [tasks EXCEPT ![w] = Append(@, k)]
        /\ newest' = [newest EXCEPT ![w] = Len(tasks[w]) + 1]
    BY <1>6 DEF CreateTask
  <2>2. k \in Tasks /\ Works(k)
    BY TaskBegins DEF Works, Live, Task
  <2> HIDE DEF k
  <2>3. /\ DOMAIN tasks'[w] = 1..(Len(tasks[w]) + 1)
        /\ tasks'[w][Len(tasks[w]) + 1] = k
        /\ \A v \in Workflows \ {w} : tasks'[v] = tasks[v]
    BY <2>1, <2>2, TaskAdded DEF TypeOK
  <2>4. 1 \in DOMAIN tasks'[w] /\ Works(tasks'[w][1])
    BY <1>1, <2>2, <2>3
  <2>5. \A v \in Workflows \ {w} : newest'[v] = newest[v]
    BY <2>1 DEF TypeOK, PointersTyped
  <2>6. State(w)'.status = "pending" /\ \A v \in Workflows \ {w} : objects'[v] = objects[v]
    <3> DEFINE s == InitialState(input)
    <3>1. s.status = "pending" /\ objects' = [objects EXCEPT ![w] = <<s>>]
      BY <1>6 DEF InitialState
    <3> HIDE DEF s
    <3> QED
      BY <1>4, <3>1
  <2> QED
    BY <1>1, <1>2, <1>3, <1>6, <2>3, <2>4, <2>5, <2>6 DEF RequestShape, Elsewhere, Known
<1> QED
  BY <1>5, <1>6 DEF Start

(* What a write to the object of a reader shows.                           *)
LEMMA StateShown ==
    ASSUME TypeOK, NEW w \in Workflows, Known(w), NEW s, SetState(w, s), UNCHANGED current
    PROVE  /\ State(w)' = s /\ Known(w)'
           /\ \A v \in Workflows \ {w} : objects'[v] = objects[v]
<1>1. current[w] \in DOMAIN objects[w]
  BY CurrentObject
<1> QED
  BY <1>1 DEF SetState, SetObject, State, Known, TypeOK, ObjectsTyped

LEMMA TaskCreated ==
    ASSUME TypeOK, NEW w \in Workflows, NEW kind \in {"graph", "continue"}, CreateTask(w, kind)
    PROVE  /\ \E t \in DOMAIN tasks'[w] : Works(tasks'[w][t])
           /\ \A v \in Workflows \ {w} : tasks'[v] = tasks[v] /\ newest'[v] = newest[v]
<1> DEFINE k == Task(kind, 0, Nothing, "created")
<1>1. tasks' = [tasks EXCEPT ![w] = Append(@, k)]
      /\ newest' = [newest EXCEPT ![w] = Len(tasks[w]) + 1]
  BY DEF CreateTask
<1>2. k \in Tasks /\ Works(k)
  BY TaskBegins DEF Works, Live, Task
<1> HIDE DEF k
<1>3. /\ DOMAIN tasks'[w] = 1..(Len(tasks[w]) + 1)
      /\ tasks'[w][Len(tasks[w]) + 1] = k
      /\ \A v \in Workflows \ {w} : tasks'[v] = tasks[v]
  BY <1>1, <1>2, TaskAdded DEF TypeOK
<1>4. Len(tasks[w]) \in Nat
  BY DEF TypeOK, TasksTyped
<1>5. Len(tasks[w]) + 1 \in DOMAIN tasks'[w]
  BY <1>3, <1>4
<1> QED
  BY <1>1, <1>2, <1>3, <1>5 DEF TypeOK, PointersTyped

LEMMA CancelShape ==
    ASSUME TypeOK, NEW w \in Workflows, Cancel(w)
    PROVE  RequestShape(w)
<1>1. /\ State(w)' = [State(w) EXCEPT !.status = "cancelled"] /\ Known(w)'
      /\ \A v \in Workflows \ {w} : objects'[v] = objects[v]
  BY StateShown DEF Cancel
<1>2. State(w)'.status = "cancelled"
  BY <1>1, CurrentObject DEF Cancel, StateObjects
<1>3. /\ \A v \in Workflows \ {w} : tasks'[v] = tasks[v]
      /\ newest[w] = 0 \/ ~Live(tasks'[w][newest[w]])
  <2>1. CASE newest[w] # 0 /\ Live(tasks[w][newest[w]])
    <3> DEFINE k == Ended(tasks[w][newest[w]].kind)
    <3>1. newest[w] \in DOMAIN tasks[w]
      <4>1. tasks[w] \in Seq(Tasks) /\ newest[w] \in Nat /\ newest[w] <= Len(tasks[w])
        BY DEF TypeOK, TasksTyped, PointersTyped
      <4> QED
        BY <2>1, <4>1
    <3>2. SetTask(w, newest[w], k)
      BY <2>1 DEF Cancel, SetTask
    <3>3. k.at = "done"
      BY DEF Ended, Task
    <3> HIDE DEF k
    <3>4. tasks'[w][newest[w]] = k /\ \A v \in Workflows \ {w} : tasks'[v] = tasks[v]
      BY <3>1, <3>2 DEF SetTask, TypeOK, TasksTyped
    <3> QED
      BY <3>3, <3>4 DEF Live
  <2>2. CASE ~(newest[w] # 0 /\ Live(tasks[w][newest[w]]))
    BY <2>2 DEF Cancel
  <2> QED
    BY <2>1, <2>2
<1> QED
  BY <1>1, <1>2, <1>3 DEF Cancel, RequestShape, Elsewhere, Settled

LEMMA ReviewShape ==
    ASSUME TypeOK, NewestStopped, NEW w \in Workflows,
           \/ \E stage \in Reviewable : Resume(w, stage)
           \/ ApproveScenarios(w) \/ ApproveCases(w) \/ Decide(w)
    PROVE  RequestShape(w)
<1>1. Known(w) /\ State(w) \in StateObjects
  BY CurrentObject DEF Resume, ApproveScenarios, ApproveCases, Decide
<1>2. ASSUME NEW stage \in Reviewable, Resume(w, stage)
      PROVE  RequestShape(w)
  <2> DEFINE s == IF stage = "scenario_manual_review"
                  THEN [State(w) EXCEPT !.scenarioCount = 0]
                  ELSE [State(w) EXCEPT !.caseCount = 0]
  <2>1. SetState(w, s) /\ CreateTask(w, "graph") /\ UNCHANGED <<current, file, restarts>>
    BY <1>2 DEF Resume
  <2>2. s.status = State(w).status /\ State(w).status \in Reviewable
    BY <1>1, <1>2 DEF Resume, StateObjects
  <2> HIDE DEF s
  <2>3. State(w)' = s /\ Known(w)' /\ \A v \in Workflows \ {w} : objects'[v] = objects[v]
    BY <1>1, <2>1, StateShown
  <2> QED
    BY <2>1, <2>2, <2>3, TaskCreated DEF RequestShape, Elsewhere, Reviewable
<1>3. ASSUME ApproveScenarios(w)
      PROVE  RequestShape(w)
  <2> DEFINE s == [State(w) EXCEPT
                     !.scenarioJudged = [of |-> State(w).scenarios, verdict |-> "approved"],
                     !.status = "generating_test_cases"]
  <2>1. SetState(w, s) /\ CreateTask(w, "continue") /\ UNCHANGED <<current, file, restarts>>
        /\ State(w).status = "scenario_manual_review"
    BY <1>3 DEF ApproveScenarios
  <2>2. s.status = "generating_test_cases"
    BY <1>1 DEF StateObjects
  <2> HIDE DEF s
  <2>3. State(w)' = s /\ Known(w)' /\ \A v \in Workflows \ {w} : objects'[v] = objects[v]
    BY <1>1, <2>1, StateShown
  <2> QED
    BY <2>1, <2>2, <2>3, TaskCreated DEF RequestShape, Elsewhere
<1>4. ASSUME ApproveCases(w)
      PROVE  RequestShape(w)
  <2> DEFINE s == [State(w) EXCEPT
                !.caseJudged = [of |-> State(w).cases, verdict |-> "approved"],
                !.rejected = FALSE, !.status = "completed"]
  <2>1. SetState(w, s) /\ UNCHANGED <<current, tasks, newest, restarts>>
        /\ State(w).status = "testcase_manual_review"
        /\ (UNCHANGED file \/ Persist(w, s))
    BY <1>4 DEF ApproveCases, CacheCompleted
  <2>2. s.status = "completed"
    BY <1>1 DEF StateObjects
  <2> HIDE DEF s
  <2>3. State(w)' = s /\ Known(w)' /\ \A v \in Workflows \ {w} : objects'[v] = objects[v]
    BY <1>1, <2>1, StateShown
  <2>4. \A v \in Workflows \ {w} : file'[v] = file[v]
    BY <2>1 DEF Persist, TypeOK, FileTyped
  <2> QED
    BY <2>1, <2>2, <2>3, <2>4 DEF RequestShape, Elsewhere, Settled
<1>5. ASSUME Decide(w)
      PROVE  RequestShape(w)
  <2>1. PICK verdict \in BOOLEAN : SetState(w, [State(w) EXCEPT !.rejected = verdict])
    BY <1>5 DEF Decide
  <2> DEFINE s == [State(w) EXCEPT !.rejected = verdict]
  <2>2. UNCHANGED <<current, tasks, newest, file, restarts>>
    BY <1>5 DEF Decide
  <2>3. s.status = State(w).status
    BY <1>1 DEF StateObjects
  <2> HIDE DEF s
  <2>4. State(w)' = s /\ Known(w)' /\ \A v \in Workflows \ {w} : objects'[v] = objects[v]
    BY <1>1, <2>1, <2>2, StateShown DEF s
  <2> QED
    BY <1>1, <2>2, <2>3, <2>4 DEF RequestShape, Elsewhere, NewestStopped
<1> QED
  BY <1>2, <1>3, <1>4, <1>5

LEMMA RegenerateShape ==
    ASSUME TypeOK, NewestStopped, NEW w \in Workflows,
           NEW what \in {"scenarios", "cases"}, Regenerate(w, what)
    PROVE  RequestShape(w)
<1> DEFINE k == Task(what, current[w], Nothing, "asking")
<1>1. /\ Known(w) /\ tasks' = [tasks EXCEPT ![w] = Append(@, k)]
      /\ UNCHANGED <<objects, current, newest, file, restarts>>
  BY DEF Regenerate
<1>2. k \in Tasks
  BY <1>1 DEF Task, Tasks, Regenerations, TypeOK, PointersTyped
<1> HIDE DEF k
<1>3. /\ DOMAIN tasks'[w] = 1..(Len(tasks[w]) + 1) /\ DOMAIN tasks[w] = 1..Len(tasks[w])
      /\ \A v \in Workflows \ {w} : tasks'[v] = tasks[v]
      /\ \A u \in DOMAIN tasks[w] : tasks'[w][u] = tasks[w][u]
  BY <1>1, <1>2, TaskAdded DEF TypeOK
<1>4. Len(tasks[w]) \in Nat /\ newest[w] \in Nat /\ newest[w] <= Len(tasks[w])
  BY DEF TypeOK, TasksTyped, PointersTyped
<1>5. DOMAIN tasks[w] \subseteq DOMAIN tasks'[w]
  BY <1>3, <1>4
<1>6. newest[w] # 0 => newest[w] \in DOMAIN tasks[w]
  BY <1>3, <1>4
<1>7. State(w)' = State(w) /\ Known(w)'
  BY <1>1 DEF State, Known
<1>8. State(w)'.status = "cancelled" => newest'[w] = 0 \/ ~Live(tasks'[w][newest'[w]])
  BY <1>1, <1>3, <1>6, <1>7 DEF NewestStopped
<1> QED
  BY <1>1, <1>3, <1>5, <1>7, <1>8 DEF RequestShape, Elsewhere

LEMMA LoadShape ==
    ASSUME TypeOK, TasksKnown, NEW w \in Workflows, Load(w)
    PROVE  RequestShape(w)
<1> DEFINE s == file[w].state
<1>1. /\ ~Known(w) /\ file[w] # Nothing
      /\ objects' = [objects EXCEPT ![w] = <<s>>] /\ current' = [current EXCEPT ![w] = 1]
      /\ UNCHANGED <<tasks, newest, file, restarts>>
  BY DEF Load
<1>2. /\ current'[w] = 1 /\ \A v \in Workflows \ {w} : current'[v] = current[v]
      /\ \A v \in Workflows \ {w} : objects'[v] = objects[v]
  BY <1>1 DEF TypeOK, PointersTyped, ObjectsTyped
<1>3. newest[w] = 0 \/ ~Live(tasks[w][newest[w]])
  <2>1. tasks[w] \in Seq(Tasks) /\ newest[w] \in Nat /\ newest[w] <= Len(tasks[w])
    BY DEF TypeOK, TasksTyped, PointersTyped
  <2>2. newest[w] # 0 => newest[w] \in DOMAIN tasks[w]
    BY <2>1
  <2> QED
    BY <1>1, <2>2 DEF TasksKnown
<1> QED
  BY <1>1, <1>2, <1>3 DEF RequestShape, Elsewhere, Known

LEMMA RequestShaped ==
    ASSUME TypeOK, TasksKnown, NewestStopped, NEW w \in Workflows, Request(w)
    PROVE  RequestShape(w)
BY StartShape, CancelShape, ReviewShape, RegenerateShape, LoadShape DEF Request
-----------------------------------------------------------------------------
(* A step of a task leaves the others where they are, and what a reader    *)
(* sees as it was, or as work in progress, or settled by the task.         *)
TaskShape(w, t) ==
    /\ Elsewhere(w) /\ restarts' = restarts /\ newest' = newest
    /\ Known(w)'
    /\ DOMAIN tasks'[w] = DOMAIN tasks[w]
    /\ tasks'[w][t].kind = tasks[w][t].kind
    /\ \A u \in DOMAIN tasks[w] \ {t} : tasks'[w][u] = tasks[w][u]
    /\ \/ /\ State(w)'.status = State(w).status
          /\ Works(tasks[w][t]) => Live(tasks'[w][t])
       \/ Works(tasks'[w][t]) /\ State(w)'.status # "cancelled"
       \/ State(w)'.status \in Settled \ {"cancelled"}

LEMMA TaskShaped ==
    ASSUME TypeOK, NEW w \in Workflows, NEW t \in DOMAIN tasks[w],
           NEW k, SetTask(w, t, k), k.kind = tasks[w][t].kind,
           UNCHANGED <<newest, restarts>>,
           \A v \in Workflows \ {w} :
              objects'[v] = objects[v] /\ current'[v] = current[v] /\ file'[v] = file[v],
           Known(w)',
           \/ State(w)'.status = State(w).status /\ (Works(tasks[w][t]) => Live(k))
           \/ Works(k) /\ State(w)'.status # "cancelled"
           \/ State(w)'.status \in Settled \ {"cancelled"}
    PROVE  TaskShape(w, t)
<1>1. /\ DOMAIN tasks'[w] = DOMAIN tasks[w] /\ tasks'[w][t] = k
      /\ \A u \in DOMAIN tasks[w] \ {t} : tasks'[w][u] = tasks[w][u]
      /\ \A v \in Workflows \ {w} : tasks'[v] = tasks[v]
  BY DEF SetTask, TypeOK, TasksTyped
<1> QED
  BY <1>1 DEF TaskShape, Elsewhere

(* The steps that write no object.                                         *)
LEMMA TaskAlone ==
    ASSUME TypeOK, NEW w \in Workflows, NEW t \in DOMAIN tasks[w], Known(w),
           NEW k, SetTask(w, t, k), k.kind = tasks[w][t].kind,
           Works(tasks[w][t]) => Live(k),
           UNCHANGED <<objects, current, newest, file, restarts>>
    PROVE  TaskShape(w, t)
<1>1. State(w)'.status = State(w).status /\ Known(w)'
  BY DEF State, Known
<1> QED
  BY <1>1, TaskShaped

LEMMA GraphShape ==
    ASSUME TypeOK, NEW w \in Workflows, NEW t \in DOMAIN tasks[w], Known(w),
           GraphBegin(w, t) \/ GraphPrepare(w, t) \/ GraphScenarios(w, t) \/ GraphCases(w, t)
    PROVE  TaskShape(w, t)
<1>1. tasks[w][t] \in GraphTasks
  BY TaskTyped DEF GraphBegin, GraphPrepare, GraphScenarios, GraphCases, Of, Tasks,
    Continuations, Regenerations
<1>2. UNCHANGED <<objects, current, newest, file, restarts>>
  BY DEF GraphBegin, GraphPrepare, GraphScenarios, GraphCases
<1>3. ASSUME NEW k, SetTask(w, t, k), k.kind = "graph", Live(k)
      PROVE  TaskShape(w, t)
  BY <1>1, <1>2, <1>3, TaskAlone DEF GraphTasks
<1>4. CASE GraphBegin(w, t)
  <2> DEFINE k == [tasks[w][t] EXCEPT !.ref = current[w], !.mine = State(w), !.at = "preparing"]
  <2>1. SetTask(w, t, k) /\ k.kind = "graph" /\ Live(k)
    BY <1>1, <1>4 DEF GraphBegin, GraphTasks, Live
  <2> HIDE DEF k
  <2> QED
    BY <1>3, <2>1
<1>5. CASE GraphPrepare(w, t)
  <2> DEFINE k == [tasks[w][t] EXCEPT !.mine.context = payload[w], !.at = "scenarios"]
  <2>1. SetTask(w, t, k) /\ k.kind = "graph" /\ Live(k)
    BY <1>1, <1>5 DEF GraphPrepare, GraphTasks, Live
  <2> HIDE DEF k
  <2> QED
    BY <1>3, <2>1
<1>6. CASE GraphScenarios(w, t)
  <2> DEFINE new == Scenarios(w, t)
             mine(passed) == [Mine(w, t) EXCEPT !.scenarios = new, !.scenarioCount = @ + 1,
                                                !.scenarioJudged = Judged(new, passed)]
             k(passed) == [tasks[w][t] EXCEPT !.mine = mine(passed), !.n = @ + 1]
             next(passed) ==
                IF passed THEN [k(passed) EXCEPT !.at = "cases"]
                ELSE IF mine(passed).scenarioCount >= MaxAttempts
                THEN [k(passed) EXCEPT !.mine.status = "scenario_manual_review", !.at = "end"]
                ELSE k(passed)
  <2>1. PICK passed \in BOOLEAN : SetTask(w, t, next(passed))
    BY <1>6 DEF GraphScenarios
  <2> HIDE DEF new, mine
  <2>2. /\ k(passed).kind = "graph" /\ k(passed).at = "scenarios"
        /\ DOMAIN k(passed) = {"kind", "ref", "mine", "n", "at"}
    BY <1>1, <1>6 DEF GraphTasks, GraphScenarios, Of
  <2> HIDE DEF k
  <2>3. next(passed).kind = "graph" /\ Live(next(passed))
    <3>1. CASE passed
      BY <2>2, <3>1 DEF Live
    <3>2. CASE ~passed /\ mine(passed).scenarioCount >= MaxAttempts
      BY <2>2, <3>2 DEF Live
    <3>3. CASE ~passed /\ ~(mine(passed).scenarioCount >= MaxAttempts)
      BY <2>2, <3>3 DEF Live
    <3> QED
      BY <3>1, <3>2, <3>3
  <2> HIDE DEF next
  <2> QED
    BY <1>3, <2>1, <2>3
<1>7. CASE GraphCases(w, t)
  <2> DEFINE mine(passed) == JudgeCases([Mine(w, t) EXCEPT
                                  !.cases = Cases(w, t, Mine(w, t).scenarios)], passed)
             k(passed) == [tasks[w][t] EXCEPT !.mine = mine(passed), !.n = @ + 1,
                  !.at = IF mine(passed).status \in Settled THEN "end" ELSE "cases"]
  <2>1. PICK passed \in BOOLEAN : SetTask(w, t, k(passed))
    BY <1>7 DEF GraphCases
  <2> HIDE DEF mine
  <2>2. k(passed).kind = "graph" /\ Live(k(passed))
    BY <1>1 DEF GraphTasks, Live
  <2> HIDE DEF k
  <2> QED
    BY <1>3, <2>1, <2>2
<1> QED
  BY <1>4, <1>5, <1>6, <1>7

(* The steps that write an object.                                         *)
LEMMA ObjectReplaced ==
    ASSUME TypeOK, NEW w \in Workflows, NEW o \in DOMAIN objects[w], NEW s, SetObject(w, o, s)
    PROVE  /\ \A v \in Workflows \ {w} : objects'[v] = objects[v]
           /\ objects'[w][o] = s
           /\ \A p \in DOMAIN objects[w] \ {o} : objects'[w][p] = objects[w][p]
  BY DEF SetObject, TypeOK, ObjectsTyped

LEMMA FilesElsewhere ==
    ASSUME TypeOK, NEW w \in Workflows, NEW s, Persist(w, s) \/ CacheCompleted(w, s)
    PROVE  \A v \in Workflows \ {w} : file'[v] = file[v]
<1>1. Persist(w, s) \/ UNCHANGED file
  BY DEF CacheCompleted
<1> QED
  BY <1>1 DEF Persist, TypeOK, FileTyped

LEMMA FailShape ==
    ASSUME TypeOK, NEW w \in Workflows, NEW t \in DOMAIN tasks[w], EndTask(w, t),
           NEW o \in DOMAIN objects[w], SetObject(w, o, [objects[w][o] EXCEPT !.status = "failed"]),
           current' = [current EXCEPT ![w] = o],
           UNCHANGED <<newest, file, restarts>>
    PROVE  TaskShape(w, t)
<1> DEFINE s == [objects[w][o] EXCEPT !.status = "failed"]
           k == Ended(tasks[w][t].kind)
<1>1. objects[w][o] \in StateObjects /\ o # 0
  BY DEF TypeOK, ObjectsTyped
<1>2. s.status = "failed" /\ SetObject(w, o, s)
  BY <1>1 DEF StateObjects
<1>3. SetTask(w, t, k) /\ k.kind = tasks[w][t].kind
  BY DEF EndTask, Ended, Task
<1> HIDE DEF s, k
<1>4. /\ current'[w] = o /\ \A v \in Workflows \ {w} : current'[v] = current[v]
  BY DEF TypeOK, PointersTyped
<1>5. \A v \in Workflows \ {w} : objects'[v] = objects[v]
  BY <1>2, ObjectReplaced
<1>6. Known(w)' /\ State(w)'.status = "failed"
  BY <1>1, <1>2, <1>4, ObjectReplaced DEF Known, State
<1> QED
  BY <1>3, <1>4, <1>5, <1>6, TaskShaped DEF Settled

LEMMA GraphEndShape ==
    ASSUME Sound, NEW w \in Workflows, NEW t \in DOMAIN tasks[w], GraphEnd(w, t)
    PROVE  TaskShape(w, t)
<1> DEFINE s == [Mine(w, t) EXCEPT !.rejected = FALSE]
           k == Ended(tasks[w][t].kind)
<1>1. TypeOK /\ tasks[w][t].kind = "graph" /\ tasks[w][t].at = "end"
  BY DEF Sound, GraphEnd, Of
<1>2. Mine(w, t) \in StateObjects /\ Mine(w, t) = tasks[w][t].mine
  BY <1>1, GraphUnderway DEF Underway
<1>3. Mine(w, t).status \in Settled \ {"cancelled"}
  BY <1>1, <1>2 DEF Sound, TasksSound, TaskSound
<1>4. s \in StateObjects /\ s.status \in Settled \ {"cancelled"}
  BY <1>2, <1>3 DEF StateObjects
<1>5. /\ objects' = [objects EXCEPT ![w] = Append(@, s)]
      /\ current' = [current EXCEPT ![w] = Len(objects[w]) + 1]
      /\ CacheCompleted(w, s)
      /\ SetTask(w, t, k) /\ k.kind = tasks[w][t].kind
      /\ UNCHANGED <<newest, restarts>>
  BY DEF GraphEnd, EndTask, Ended, Task
<1> HIDE DEF s, k
<1>6. /\ \A v \in Workflows \ {w} : objects'[v] = objects[v]
      /\ objects'[w][Len(objects[w]) + 1] = s /\ Len(objects[w]) \in Nat
  BY <1>1, <1>4, <1>5, ObjectAdded DEF TypeOK, ObjectsTyped
<1>7. /\ current'[w] = Len(objects[w]) + 1
      /\ \A v \in Workflows \ {w} : current'[v] = current[v]
  BY <1>1, <1>5 DEF TypeOK, PointersTyped
<1>8. Known(w)' /\ State(w)' = s
  BY <1>6, <1>7 DEF Known, State
<1>9. \A v \in Workflows \ {w} : file'[v] = file[v]
  BY <1>1, <1>5, FilesElsewhere
<1> QED
  BY <1>1, <1>4, <1>5, <1>6, <1>7, <1>8, <1>9, TaskShaped

LEMMA ContinueBeginShape ==
    ASSUME TypeOK, NEW w \in Workflows, NEW t \in DOMAIN tasks[w], Known(w), ContinueBegin(w, t)
    PROVE  TaskShape(w, t)
<1> DEFINE s == [State(w) EXCEPT !.status = "generating_test_cases"]
           k == [tasks[w][t] EXCEPT !.ref = current[w], !.mine = State(w).scenarios, !.at = "cases"]
<1>1. tasks[w][t] \in Continuations /\ State(w) \in StateObjects
  BY TaskTyped, CurrentObject DEF ContinueBegin, Of, Tasks, GraphTasks, Regenerations
<1>2. SetState(w, s) /\ SetTask(w, t, k) /\ UNCHANGED <<current, newest, file, restarts>>
  BY DEF ContinueBegin
<1>3. s.status = "generating_test_cases" /\ k.kind = "continue" /\ k.at = "cases"
  BY <1>1 DEF StateObjects, Continuations
<1> HIDE DEF s, k
<1>4. State(w)' = s /\ Known(w)' /\ \A v \in Workflows \ {w} : objects'[v] = objects[v]
  BY <1>2, StateShown
<1>5. k.kind = tasks[w][t].kind
  BY <1>1, <1>3 DEF Continuations
<1> QED
  BY <1>2, <1>3, <1>4, <1>5, TaskShaped DEF Works, Live

LEMMA ContinueCasesShape ==
    ASSUME Sound, NEW w \in Workflows, NEW t \in DOMAIN tasks[w], Known(w), ContinueCases(w, t)
    PROVE  TaskShape(w, t)
<1> DEFINE ref == tasks[w][t].ref
           cases == Cases(w, t, Mine(w, t))
           old == [objects[w][ref] EXCEPT !.cases = cases]
           s(passed) == JudgeCases(old, passed)
<1>1. Of(w, t, "continue", "cases") /\ TypeOK
  BY DEF ContinueCases, Sound
<1>2. /\ tasks[w][t] \in Continuations /\ ref \in DOMAIN objects[w]
      /\ objects[w][ref] \in StateObjects /\ Mine(w, t) \in ScenarioSets \cup {Nothing}
      /\ SameGeneration(Mine(w, t), objects[w][ref].scenarios)
  BY <1>1, ContinueUnderway
<1>3. PICK passed \in BOOLEAN :
        /\ SetObject(w, ref, s(passed))
        /\ CacheCompleted(w, s(passed))
        /\ IF s(passed).status \in Settled
           THEN /\ current' = [current EXCEPT ![w] = ref]
                /\ EndTask(w, t)
           ELSE /\ UNCHANGED current
                /\ SetTask(w, t, [tasks[w][t] EXCEPT !.mine = s(passed).scenarios, !.n = @ + 1])
  BY DEF ContinueCases
<1>4. cases \in CaseSets /\ cases # Nothing /\ cases.of = Mine(w, t)
  BY <1>2, CasesMade
<1> HIDE DEF cases
<1>5. old \in StateObjects /\ old.cases = cases /\ old.scenarios = objects[w][ref].scenarios
  BY <1>2, <1>4 DEF StateObjects
<1> HIDE DEF old
<1>6. s(passed).status \in {"completed", "testcase_manual_review", "generating_test_cases"}
  BY <1>2, <1>4, <1>5, Judgement
<1> HIDE DEF s
<1>7. UNCHANGED <<newest, restarts>> /\ \A v \in Workflows \ {w} : file'[v] = file[v]
  BY <1>1, <1>3, FilesElsewhere DEF ContinueCases
<1>8. ref # 0
  BY <1>1, <1>2 DEF TypeOK, ObjectsTyped
<1> HIDE DEF ref
<1>9. /\ \A v \in Workflows \ {w} : objects'[v] = objects[v]
      /\ objects'[w][ref] = s(passed)
      /\ \A p \in DOMAIN objects[w] \ {ref} : objects'[w][p] = objects[w][p]
  BY <1>1, <1>2, <1>3, ObjectReplaced
<1>10. CASE s(passed).status \in Settled
  <2> DEFINE k == Ended(tasks[w][t].kind)
  <2>1. SetTask(w, t, k) /\ k.kind = tasks[w][t].kind /\ current' = [current EXCEPT ![w] = ref]
    BY <1>3, <1>10 DEF EndTask, Ended, Task
  <2> HIDE DEF k
  <2>2. current'[w] = ref /\ \A v \in Workflows \ {w} : current'[v] = current[v]
    BY <1>1, <2>1 DEF TypeOK, PointersTyped
  <2>3. Known(w)' /\ State(w)' = s(passed)
    BY <1>8, <1>9, <2>2 DEF Known, State
  <2> QED
    BY <1>1, <1>6, <1>7, <1>9, <1>10, <2>1, <2>2, <2>3, TaskShaped
<1>11. CASE s(passed).status \notin Settled
  <2> DEFINE k == [tasks[w][t] EXCEPT !.mine = s(passed).scenarios, !.n = @ + 1]
  <2>1. SetTask(w, t, k) /\ UNCHANGED current
    BY <1>3, <1>11
  <2>2. k.kind = tasks[w][t].kind /\ Works(k)
    BY <1>1, <1>2 DEF Continuations, Of, Works, Live
  <2> HIDE DEF k
  <2>3. current[w] \in DOMAIN objects[w] /\ Known(w)'
    BY <1>1, <2>1, CurrentObject DEF Known
  <2>4. CASE current[w] = ref
    <3>1. State(w)'.status # "cancelled"
      BY <1>9, <1>11, <2>1, <2>4 DEF State, Settled
    <3> QED
      BY <1>1, <1>7, <1>9, <2>1, <2>2, <2>3, <3>1, TaskShaped
  <2>5. CASE current[w] # ref
    <3>1. State(w)' = State(w)
      BY <1>9, <2>1, <2>3, <2>5 DEF State
    <3> QED
      BY <1>1, <1>7, <1>9, <2>1, <2>2, <2>3, <3>1, TaskShaped DEF Works
  <2> QED
    BY <2>4, <2>5
<1> QED
  BY <1>10, <1>11

LEMMA RegenerationShape ==
    ASSUME Sound, NEW w \in Workflows, NEW t \in DOMAIN tasks[w], Known(w),
           RegenerateAnswer(w, t) \/ RegenerateFail(w, t)
    PROVE  TaskShape(w, t)
<1> DEFINE k == Ended(tasks[w][t].kind)
<1>1. TypeOK /\ tasks[w][t].at = "asking"
  BY DEF Sound, RegenerateAnswer, RegenerateFail
<1>2. tasks[w][t].kind \in {"scenarios", "cases"}
  BY <1>1, TaskTyped DEF Tasks, GraphTasks, Continuations, Regenerations
<1>3. SetTask(w, t, k) /\ k.kind = tasks[w][t].kind /\ ~Works(tasks[w][t])
  BY <1>2 DEF RegenerateAnswer, RegenerateFail, EndTask, Ended, Task, Works
<1> HIDE DEF k
<1>4. CASE RegenerateAnswer(w, t)
  <2> DEFINE ref == tasks[w][t].ref
             what == tasks[w][t].kind
             x == objects[w][ref]
             s == [x EXCEPT ![what].edits = @ + 1]
             new(passed) == IF what = "scenarios"
                            THEN [s EXCEPT !.scenarioJudged = Judged(s.scenarios, passed)]
                            ELSE [s EXCEPT !.caseJudged = Judged(s.cases, passed)]
  <2>1. PICK passed \in BOOLEAN : SetObject(w, ref, new(passed)) /\ Persist(w, new(passed))
    BY <1>4 DEF RegenerateAnswer
  <2>2. ref \in DOMAIN objects[w] /\ x[what] # Nothing
    BY <1>1 DEF Sound, TasksSound, TaskSound
  <2>3. x \in StateObjects /\ ObjectSound(x)
    BY <2>2 DEF Sound, TypeOK, ObjectsTyped, ObjectsSound
  <2>4. new(passed).status = x.status
    <3> HIDE DEF x, what
    <3> QED
      BY <1>2, <2>2, <2>3, Edited DEF what
  <2> HIDE DEF new
  <2>5. UNCHANGED <<current, newest, restarts>>
    BY <1>4 DEF RegenerateAnswer
  <2>6. current[w] \in DOMAIN objects[w] /\ Known(w)'
    BY <1>1, <2>5, CurrentObject DEF Known
  <2>7. /\ \A v \in Workflows \ {w} : objects'[v] = objects[v]
        /\ objects'[w][ref] = new(passed)
        /\ \A p \in DOMAIN objects[w] \ {ref} : objects'[w][p] = objects[w][p]
    BY <1>1, <2>1, <2>2, ObjectReplaced
  <2>8. State(w)'.status = State(w).status
    BY <2>4, <2>5, <2>6, <2>7 DEF State
  <2>9. \A v \in Workflows \ {w} : file'[v] = file[v]
    BY <1>1, <2>1, FilesElsewhere
  <2> QED
    BY <1>1, <1>3, <2>5, <2>6, <2>7, <2>8, <2>9, TaskShaped
<1>5. CASE RegenerateFail(w, t)
  BY <1>1, <1>3, <1>5, TaskAlone DEF RegenerateFail
<1> QED
  BY <1>4, <1>5

(* Whatever a task does, it was alive and its workflow in memory.          *)
LEMMA TaskStepShaped ==
    ASSUME Sound, TasksKnown, NEW w \in Workflows, NEW t, TaskStep(w, t)
    PROVE  /\ t \in DOMAIN tasks[w] /\ Live(tasks[w][t]) /\ Known(w)
           /\ TaskShape(w, t)
<1>1. t \in DOMAIN tasks[w] /\ TypeOK
  BY DEF TaskStep, Sound
<1>2. Live(tasks[w][t])
  BY DEF TaskStep, GraphBegin, GraphPrepare, GraphScenarios, GraphCases, GraphEnd, GraphFail,
    ContinueBegin, ContinueCases, ContinueFail, RegenerateAnswer, RegenerateFail, Of, Live
<1>3. Known(w)
  BY <1>1, <1>2 DEF TasksKnown
<1>4. CASE GraphFail(w, t)
  <2>1. tasks[w][t].ref \in DOMAIN objects[w]
    BY <1>1, <1>4, GraphUnderway DEF GraphFail, Underway
  <2> QED
    BY <1>1, <1>2, <1>3, <1>4, <2>1, FailShape DEF GraphFail
<1>5. CASE ContinueFail(w, t)
  <2>1. tasks[w][t].ref \in DOMAIN objects[w]
    BY <1>1, <1>5, ContinueUnderway DEF ContinueFail
  <2> QED
    BY <1>1, <1>2, <1>3, <1>5, <2>1, FailShape DEF ContinueFail
<1> QED
  BY <1>1, <1>2, <1>3, <1>4, <1>5, GraphShape, GraphEndShape, ContinueBeginShape,
    ContinueCasesShape, RegenerationShape DEF TaskStep
-----------------------------------------------------------------------------
(* What a reader sees is kept by every step.                               *)
Shown == TasksKnown /\ FirstServer /\ NewestStopped

LEMMA ElsewhereShown ==
    ASSUME NEW w, Elsewhere(w), NEW v \in Workflows \ {w}
    PROVE  /\ Known(v)' = Known(v) /\ State(v)' = State(v)
           /\ Attended(v) => Attended(v)'
  BY DEF Elsewhere, Known, State, Attended

LEMMA RequestShown ==
    ASSUME Shown, NEW w \in Workflows, RequestShape(w)
    PROVE  Shown'
<1>1. Elsewhere(w) /\ restarts' = restarts /\ Known(w)'
  BY DEF RequestShape
<1>2. TasksKnown'
  <2> SUFFICES ASSUME NEW v \in Workflows \ {w}, NEW t \in DOMAIN tasks'[v],
                      Live(tasks'[v][t])
               PROVE  Known(v)'
    BY <1>1 DEF TasksKnown
  <2> QED
    BY <1>1, ElsewhereShown DEF Elsewhere, Shown, TasksKnown
<1>3. FirstServer'
  <2> SUFFICES ASSUME restarts' = 0
               PROVE  Attended(w)'
    BY <1>1, ElsewhereShown DEF FirstServer, Shown
  <2>1. Attended(w)
    BY <1>1 DEF Shown, FirstServer
  <2>2. ASSUME State(w)'.status \notin Settled
        PROVE  \E t \in DOMAIN tasks'[w] : Works(tasks'[w][t])
    BY <2>1, <2>2 DEF RequestShape, Attended, Works
  <2> QED
    BY <1>1, <2>2 DEF Attended, Works
<1>4. NewestStopped'
  <2>1. \A v \in Workflows \ {w} : newest'[v] = newest[v] /\ tasks'[v] = tasks[v]
    BY <1>1 DEF Elsewhere
  <2> QED
    BY <1>1, <2>1, ElsewhereShown DEF NewestStopped, Shown, RequestShape
<1> QED
  BY <1>2, <1>3, <1>4 DEF Shown

LEMMA TaskShown ==
    ASSUME TypeOK, Shown, NEW w \in Workflows, NEW t \in DOMAIN tasks[w],
           Live(tasks[w][t]), Known(w), TaskShape(w, t)
    PROVE  Shown'
<1>1. /\ Elsewhere(w) /\ restarts' = restarts /\ newest' = newest /\ Known(w)'
      /\ DOMAIN tasks'[w] = DOMAIN tasks[w] /\ tasks'[w][t].kind = tasks[w][t].kind
      /\ \A u \in DOMAIN tasks[w] \ {t} : tasks'[w][u] = tasks[w][u]
  BY DEF TaskShape
<1>2. TasksKnown'
  <2> SUFFICES ASSUME NEW v \in Workflows \ {w}, NEW u \in DOMAIN tasks'[v],
                      Live(tasks'[v][u])
               PROVE  Known(v)'
    BY <1>1 DEF TasksKnown
  <2> QED
    BY <1>1, ElsewhereShown DEF Elsewhere, Shown, TasksKnown
<1>3. FirstServer'
  <2> SUFFICES ASSUME restarts' = 0
               PROVE  Attended(w)'
    BY <1>1, ElsewhereShown DEF FirstServer, Shown
  <2>1. Attended(w)
    BY <1>1 DEF Shown, FirstServer
  <2>2. ASSUME State(w)'.status \notin Settled
        PROVE  \E u \in DOMAIN tasks'[w] : Works(tasks'[w][u])
    <3>1. CASE /\ State(w)'.status = State(w).status
               /\ Works(tasks[w][t]) => Live(tasks'[w][t])
      <4>1. PICK u \in DOMAIN tasks[w] : Works(tasks[w][u])
        BY <2>1, <2>2, <3>1 DEF Attended, Works
      <4>2. Works(tasks'[w][u])
        BY <1>1, <3>1, <4>1 DEF Works
      <4> QED
        BY <1>1, <4>1, <4>2
    <3> QED
      BY <1>1, <2>2, <3>1 DEF TaskShape
  <2> QED
    BY <1>1, <2>2 DEF Attended, Works
<1>4. NewestStopped'
  <2>1. \A v \in Workflows \ {w} : tasks'[v] = tasks[v]
    BY <1>1 DEF Elsewhere
  <2>2. ASSUME State(w)'.status = "cancelled"
        PROVE  newest[w] = 0 \/ ~Live(tasks'[w][newest[w]])
    <3>1. State(w).status = "cancelled"
      BY <2>2 DEF TaskShape
    <3>2. newest[w] = 0 \/ ~Live(tasks[w][newest[w]])
      BY <3>1 DEF Shown, NewestStopped
    <3>3. newest[w] # 0 => newest[w] \in DOMAIN tasks[w]
      <4>1. tasks[w] \in Seq(Tasks) /\ newest[w] \in Nat /\ newest[w] <= Len(tasks[w])
        BY DEF TypeOK, TasksTyped, PointersTyped
      <4> QED
        BY <4>1
    <3> QED
      BY <1>1, <3>2, <3>3
  <2> QED
    BY <1>1, <2>1, <2>2, ElsewhereShown DEF NewestStopped, Shown
<1> QED
  BY <1>2, <1>3, <1>4 DEF Shown

LEMMA RestartShown ==
    ASSUME TypeOK, Restart
    PROVE  Shown'
<1>1. restarts' # 0
  BY WorkflowAssumption DEF Restart, TypeOK
<1>2. \A w \in Workflows : /\ current'[w] = 0
                            /\ \A t \in DOMAIN tasks'[w] : ~Live(tasks'[w][t])
  BY DEF Restart, Live, Ended, Task
<1> QED
  BY <1>1, <1>2 DEF Shown, TasksKnown, FirstServer, NewestStopped, Known
-----------------------------------------------------------------------------
LEMMA InvSplit == WorkflowInv <=> Sound /\ Shown
  BY DEF WorkflowInv, Sound, Shown

LEMMA InitInv == Init => WorkflowInv
<1> SUFFICES ASSUME Init
             PROVE  WorkflowInv
  OBVIOUS
<1>1. PICK known \in SUBSET Inputs : cache = [i \in known |-> EarlierResult(i)]
  BY DEF Init
<1>2. \A i \in Inputs : /\ EarlierResult(i) \in Results
                         /\ EarlierResult(i).cases # Nothing
                         /\ CasesValidated(EarlierResult(i))
  <2> SUFFICES ASSUME NEW i \in Inputs
               PROVE  /\ EarlierResult(i) \in Results
                      /\ EarlierResult(i).cases # Nothing
                      /\ CasesValidated(EarlierResult(i))
    OBVIOUS
  <2> DEFINE scenarios == [run |-> 0, n |-> 0, edits |-> 0, input |-> i]
             cases == [run |-> 0, n |-> 0, edits |-> 0, of |-> scenarios]
  <2>1. EarlierResult(i) =
          [context |-> i, scenarios |-> scenarios,
           scenarioJudged |-> [of |-> scenarios, verdict |-> "passed"],
           cases |-> cases, caseJudged |-> [of |-> cases, verdict |-> "passed"]]
    BY DEF EarlierResult
  <2>2. scenarios \in ScenarioSets
    BY DEF ScenarioSets, Contexts
  <2> HIDE DEF scenarios
  <2>3. cases \in CaseSets /\ cases.of = scenarios
    BY <2>2 DEF CaseSets
  <2>4. cases # Nothing
    <3>1. "of" \in DOMAIN cases
      OBVIOUS
    <3> QED
      BY <3>1 DEF Nothing
  <2> HIDE DEF cases
  <2>5. EarlierResult(i) \in Results
    BY <2>1, <2>2, <2>3 DEF Results, Verdicts, Contexts
  <2> QED
    BY <2>1, <2>3, <2>4, <2>5 DEF CasesValidated, SameGeneration
<1>3. CacheTyped /\ CacheSound
  <2>1. DOMAIN cache = known /\ \A i \in known : cache[i] = EarlierResult(i)
    BY <1>1
  <2>2. cache \in [known -> Results]
    BY <1>1, <1>2
  <2> QED
    BY <1>2, <2>1, <2>2 DEF CacheTyped, CacheSound
<1>4. \A w \in Workflows : /\ objects[w] = <<>> /\ tasks[w] = <<>> /\ current[w] = 0
                            /\ newest[w] = 0 /\ file[w] = Nothing
                            /\ Len(objects[w]) = 0 /\ Len(tasks[w]) = 0
                            /\ DOMAIN objects[w] = {} /\ DOMAIN tasks[w] = {}
  BY DEF Init
<1>5. TypeOK
  BY <1>3, <1>4, WorkflowAssumption DEF Init, TypeOK, ObjectsTyped, TasksTyped, PointersTyped,
    PayloadTyped, FileTyped, Contexts
<1>6. ObjectsSound /\ TasksSound /\ FilesSound
  BY <1>4 DEF ObjectsSound, TasksSound, FilesSound
<1>7. TasksKnown /\ FirstServer /\ NewestStopped
  BY <1>4 DEF TasksKnown, FirstServer, Attended, NewestStopped, Known
<1> QED
  BY <1>3, <1>5, <1>6, <1>7 DEF WorkflowInv

LEMMA StepInv == WorkflowInv /\ [Next]_vars => WorkflowInv'
<1> SUFFICES ASSUME Sound, Shown, [Next]_vars
             PROVE  Shown'
  BY InvSplit, SoundKept DEF WorkflowInv, Sound, Shown
<1>1. CASE UNCHANGED vars
  BY <1>1 DEF vars, Shown, TasksKnown, FirstServer, Attended, NewestStopped, Known, State
<1>2. ASSUME NEW w \in Workflows, Request(w)
      PROVE  Shown'
  BY <1>2, RequestShaped, RequestShown DEF Sound, Shown
<1>3. ASSUME NEW w \in Workflows, NEW t \in 1..MaxTasks, TaskStep(w, t)
      PROVE  Shown'
  BY <1>3, TaskStepShaped, TaskShown DEF Sound, Shown
<1>4. CASE Restart
  BY <1>4, RestartShown DEF Sound
<1> QED
  BY <1>1, <1>2, <1>3, <1>4 DEF Next

LEMMA WorkflowInvariant == Spec => []WorkflowInv
  BY InitInv, StepInv, PTL DEF Spec
-----------------------------------------------------------------------------
(* Objects, tasks, files and cached results are of their kinds, and every  *)
(* pointer is to an object or a task there is.                             *)
THEOREM WorkflowTypes == Spec => []TypeOK
  BY WorkflowInvariant, PTL DEF WorkflowInv

(* Other workflows are answered from the cache only with validated test    *)
(* cases beside the scenarios they were made from, whatever stored them    *)
(* and whatever ran meanwhile.  (_cache_completed, start)                  *)
THEOREM CacheValidated == Spec => []CachedValidated
<1>1. WorkflowInv => CachedValidated
  BY DEF WorkflowInv, CacheSound, CachedValidated
<1> QED
  BY <1>1, WorkflowInvariant, PTL

(* A completed workflow shows validated test cases made from the scenarios *)
(* beside them, unless one was regenerated since: then of these scenarios  *)
(* still.  (approve_review, regenerate_entity, _run_graph, get)            *)
THEOREM ShownValidated == Spec => []CompletedValidated
<1>1. ASSUME WorkflowInv, NEW w \in Workflows, Known(w), State(w).status = "completed"
      PROVE  CasesValidated(
               IF State(w).cases.edits = 0 THEN State(w)
               ELSE [State(w) EXCEPT !.caseJudged = [of |-> State(w).cases, verdict |-> "passed"]])
  <2>1. /\ current[w] \in DOMAIN objects[w] /\ State(w) \in StateObjects
        /\ State(w) = objects[w][current[w]]
    BY <1>1, CurrentObject DEF WorkflowInv
  <2>2. ObjectSound(State(w))
    BY <1>1, <2>1 DEF WorkflowInv, ObjectsSound
  <2>3. CASE State(w).cases.edits = 0
    BY <1>1, <2>2, <2>3 DEF ObjectSound, CasesValidated
  <2>4. CASE State(w).cases.edits # 0
    <3> DEFINE s == [State(w) EXCEPT
                       !.caseJudged = [of |-> State(w).cases, verdict |-> "passed"]]
    <3>1. /\ s.caseJudged = [of |-> State(w).cases, verdict |-> "passed"]
          /\ s.cases = State(w).cases /\ s.scenarios = State(w).scenarios
      BY <2>1 DEF StateObjects
    <3> HIDE DEF s
    <3>2. CasesValidated(s)
      BY <1>1, <2>2, <3>1 DEF ObjectSound, CasesValidated
    <3> QED
      BY <2>4, <3>2 DEF s
  <2> QED
    BY <2>3, <2>4
<1>2. WorkflowInv => CompletedValidated
  BY <1>1 DEF CompletedValidated
<1> QED
  BY <1>2, WorkflowInvariant, PTL

(* Until the server restarts, a workflow of which nothing runs shows a     *)
(* status that ends its event stream.  (events, _run_graph, cancel)        *)
THEOREM IdleSettled == Spec => []SettledWhenIdle
<1>1. WorkflowInv => SettledWhenIdle
  BY DEF WorkflowInv, FirstServer, Attended, SettledWhenIdle
<1> QED
  BY <1>1, WorkflowInvariant, PTL

(* Only a task that cancel() does not know revives a cancelled workflow.   *)
(* (cancel, _run_graph, _continue_after_scenario_approval)                 *)
THEOREM CancelledStays == Spec => OnlyOrphansRevive
<1> DEFINE Revived(w) ==
             (Known(w) /\ State(w).status = "cancelled" /\ restarts' = restarts
                /\ State(w)'.status # "cancelled")
             => \E t \in DOMAIN tasks[w] : t # newest[w] /\ Live(tasks[w][t])
           Orphans == \A w \in Workflows : Revived(w)
<1>1. ASSUME WorkflowInv, [Next]_vars, ~UNCHANGED vars, NEW w \in Workflows,
             Known(w), State(w).status = "cancelled", restarts' = restarts,
             State(w)'.status # "cancelled"
      PROVE  \E t \in DOMAIN tasks[w] : t # newest[w] /\ Live(tasks[w][t])
  <2>1. Sound /\ Shown
    BY <1>1, InvSplit
  <2>2. ~Restart
    BY <1>1 DEF Restart, WorkflowInv, TypeOK
  <2>3. ASSUME NEW v \in Workflows, Request(v)
        PROVE  FALSE
    <3>1. RequestShape(v)
      BY <2>1, <2>3, RequestShaped DEF Sound, Shown
    <3> QED
      BY <1>1, <3>1, ElsewhereShown DEF RequestShape
  <2>4. PICK v \in Workflows, t \in 1..MaxTasks : TaskStep(v, t)
    BY <1>1, <2>2, <2>3 DEF Next
  <2>5. t \in DOMAIN tasks[v] /\ Live(tasks[v][t]) /\ TaskShape(v, t)
    BY <2>1, <2>4, TaskStepShaped DEF Shown
  <2>6. v = w
    BY <1>1, <2>5, ElsewhereShown DEF TaskShape
  <2>7. newest[w] = 0 \/ ~Live(tasks[w][newest[w]])
    BY <1>1 DEF WorkflowInv, NewestStopped
  <2>8. t # 0
    BY <2>5, TaskTyped DEF WorkflowInv, TypeOK, TasksTyped
  <2> QED
    BY <2>5, <2>6, <2>7, <2>8
<1>2. WorkflowInv /\ [Next]_vars => [Orphans]_vars
  BY <1>1
<1> HIDE DEF Orphans
<1>3. Spec => [][Orphans]_vars
  BY <1>2, WorkflowInvariant, PTL DEF Spec
<1> QED
  BY <1>3, PTL DEF Orphans, OnlyOrphansRevive
-----------------------------------------------------------------------------
(* ScriptExecution.  Its invariant relates memory to the files, a job to   *)
(* its workers, a worker's results and remaining scripts to its slice of   *)
(* the generation, and a saved report to what became of who saved it.      *)

(* What memory has learned includes what reached the file.                 *)
MemoryAhead == \A g \in DOMAIN memory : disk[g].learned \subseteq memory[g].learned

(* A job that was started has its generation, and works only while it is   *)
(* running, or after it has failed.                                        *)
JobKnown(j) ==
    /\ status[j] # "none" => target[j] \in DOMAIN disk
    /\ status[j] \in {"none", "queued", "lost"} =>
         \A w \in Workers : w[1] = j => At(w, "idle")

(* A worker under way has the generation in memory and a share of it: its  *)
(* results and the scripts it has left, none counted twice as blocked.     *)
Working == {"next", "step", "seacrawl", "saving"}
InScript == {"step", "seacrawl", "saving"}
Life(w) == memory[Own(w)].life
Share(w) ==
    /\ Own(w) \in DOMAIN memory
    /\ w[2] < count[w[1]]
    /\ at[w] \in Working => DOMAIN results[w] \cup todo[w] = ChunkOf(w)
    /\ at[w] \in Working /\ count[w[1]] = 1 => status[w[1]] = "running"
    /\ At(w, "done") /\ count[w[1]] > 1 /\ status[w[1]] = "running" =>
         DOMAIN results[w] = ChunkOf(w)
BlockedKnown(w) ==
    /\ DOMAIN results[w] \subseteq DOMAIN Life(w)
    /\ \A s \in DOMAIN results[w] : results[w][s] = "blocked" <=> Life(w)[s] = "Blocked"
CurrentScript(w) ==
    \A s \in Scripts : First(w, s) =>
        /\ at[w] \in InScript => Life(w)[s] # "Blocked"
        /\ at[w] \in {"seacrawl", "saving"} => step[w] <= Len(StepsOf[s])
WorkerKnown(w) ==
    /\ At(w, "idle") => results[w] = Empty /\ todo[w] = {}
    /\ ~ At(w, "idle") => Share(w) /\ BlockedKnown(w) /\ CurrentScript(w)

(* A report under the generation's id is the last of its job, one under a  *)
(* worker's id the last of that worker.                                    *)
ReportKnown(q) ==
    /\ q.id \in Generations \cup Workers
    /\ q.id \in Generations => status[q.job] \in {"completed", "lost"}
    /\ q.id \in Workers => /\ q.id[1] = q.job
                           /\ At(q.id, "done") \/ status[q.job] = "lost"

ScriptInvariant ==
    /\ ScriptTypeOK
    /\ MemoryAhead
    /\ \A j \in Jobs : JobKnown(j)
    /\ \A w \in Workers : WorkerKnown(w)
    /\ \A q \in reports : ReportKnown(q)
-----------------------------------------------------------------------------
(* Manifests and sets of results, taken apart and put together.            *)
LEMMA ManifestParts ==
    ASSUME NEW m \in Manifests
    PROVE  /\ m = [life |-> m.life, learned |-> m.learned]
           /\ DOMAIN m.life \subseteq Scripts
           /\ m.life \in [DOMAIN m.life -> Lifecycles]
           /\ m.learned \subseteq Controls
<1>1. PICK S \in SUBSET Scripts : m.life \in [S -> Lifecycles]
  BY DEF Manifests
<1>2. DOMAIN m.life = S
  BY <1>1
<1> QED
  BY <1>1, <1>2 DEF Manifests

LEMMA ManifestMade ==
    ASSUME NEW life, DOMAIN life \subseteq Scripts, life \in [DOMAIN life -> Lifecycles],
           NEW learned \in SUBSET Controls
    PROVE  [life |-> life, learned |-> learned] \in Manifests
<1>1. life \in UNION {[S -> Lifecycles] : S \in SUBSET Scripts}
  OBVIOUS
<1> QED
  BY <1>1 DEF Manifests

LEMMA ResultsParts ==
    ASSUME NEW res \in ResultSets
    PROVE  /\ DOMAIN res \subseteq Scripts
           /\ res \in [DOMAIN res -> Outcomes]
<1>1. PICK S \in SUBSET Scripts : res \in [S -> Outcomes]
  BY DEF ResultSets
<1>2. DOMAIN res = S
  BY <1>1
<1> QED
  BY <1>1, <1>2

LEMMA ResultsMade ==
    ASSUME NEW res, DOMAIN res \subseteq Scripts, res \in [DOMAIN res -> Outcomes]
    PROVE  res \in ResultSets
  BY DEF ResultSets

LEMMA EmptyResults ==
    /\ Empty \in ResultSets
    /\ DOMAIN Empty = {}
<1>1. /\ DOMAIN Empty = {}
      /\ Empty \in [{} -> Outcomes]
  BY DEF Empty
<1> QED
  BY <1>1, ResultsMade

LEMMA PutFacts ==
    ASSUME NEW f, NEW x, NEW v
    PROVE  /\ DOMAIN Put(f, x, v) = DOMAIN f \cup {x}
           /\ Put(f, x, v)[x] = v
           /\ \A y \in DOMAIN f \ {x} : Put(f, x, v)[y] = f[y]
  BY DEF Put

(* A result more is a set of results still.                                *)
LEMMA ResultAdded ==
    ASSUME NEW res \in ResultSets, NEW s \in Scripts, NEW outcome \in Outcomes
    PROVE  Put(res, s, outcome) \in ResultSets
<1> DEFINE new == Put(res, s, outcome)
<1>1. /\ DOMAIN res \subseteq Scripts
      /\ res \in [DOMAIN res -> Outcomes]
  BY ResultsParts
<1>2. /\ DOMAIN new = DOMAIN res \cup {s}
      /\ new[s] = outcome
      /\ \A y \in DOMAIN res \ {s} : new[y] = res[y]
  BY DEF Put
<1>3. new = [y \in DOMAIN res \cup {s} |-> IF y = s THEN outcome ELSE res[y]]
  BY DEF Put
<1>4. new \in [DOMAIN new -> Outcomes]
  BY <1>1, <1>2, <1>3
<1> HIDE DEF new
<1>5. new \in ResultSets
  BY <1>1, <1>2, <1>4, ResultsMade
<1> QED
  BY <1>5 DEF new
-----------------------------------------------------------------------------
(* Slices: every script of a generation is in the slice of one worker, and *)
(* the only worker has them all.                                           *)
LEMMA ScriptsFinite ==
    ASSUME NEW S \in SUBSET Scripts
    PROVE  IsFiniteSet(S) /\ Cardinality(S) \in Nat
<1>1. IsFiniteSet(Scripts)
  BY LimitsAssumption, FS_Interval DEF Scripts
<1> QED
  BY <1>1, FS_Subset, FS_CardinalityType

LEMMA RankType ==
    ASSUME NEW S \in SUBSET Scripts, NEW s
    PROVE  Rank(S, s) \in Nat
<1>1. {r \in S : r < s} \in SUBSET Scripts
  OBVIOUS
<1> QED
  BY <1>1, ScriptsFinite DEF Rank

LEMMA ChunksCover ==
    ASSUME NEW S \in SUBSET Scripts, NEW n \in Nat \ {0}, NEW s \in S
    PROVE  \E k \in 0..(n - 1) : s \in Chunk(S, k, n)
<1>1. Rank(S, s) \in Nat
  BY RankType
<1>2. Rank(S, s) % n \in 0..(n - 1)
  BY <1>1
<1> QED
  BY <1>2 DEF Chunk

LEMMA ChunkWithin ==
    ASSUME NEW S, NEW k, NEW n
    PROVE  Chunk(S, k, n) \subseteq S
  BY DEF Chunk

LEMMA OnlyChunk ==
    ASSUME NEW S \in SUBSET Scripts
    PROVE  Chunk(S, 0, 1) = S
<1>1. \A s \in S : Rank(S, s) \in Nat
  BY RankType
<1>2. \A r \in Nat : r % 1 = 0
  OBVIOUS
<1> QED
  BY <1>1, <1>2 DEF Chunk

LEMMA WorkersForType ==
    ASSUME NEW S \in SUBSET Scripts
    PROVE  WorkersFor(S) \in 1..MaxWorkers
<1>1. Cardinality(S) \in Nat
  BY ScriptsFinite
<1> QED
  BY <1>1, LimitsAssumption DEF WorkersFor
-----------------------------------------------------------------------------
(* Manifests that are read, stored, marked and learned from stay manifests.*)
LEMMA GenerationTyped ==
    ASSUME ScriptTypeOK, NEW g \in DOMAIN disk
    PROVE  Generation(g) \in Manifests
  BY DEF ScriptTypeOK, StoresTyped, Generation

LEMMA Selected ==
    ASSUME NEW life \in Selections
    PROVE  [life |-> life, learned |-> {}] \in Manifests
<1>1. /\ DOMAIN life \subseteq Scripts
      /\ life \in [DOMAIN life -> {"Valid", "Blocked"}]
  BY ScriptsAssumption
<1>2. life \in [DOMAIN life -> Lifecycles]
  BY <1>1 DEF Lifecycles
<1> QED
  BY <1>1, <1>2, ManifestMade

LEMMA Marked ==
    ASSUME NEW m \in Manifests, NEW mark \in Lifecycles
    PROVE  LET n == [m EXCEPT !.life = [s \in DOMAIN m.life |-> mark]]
           IN  n \in Manifests /\ n.learned = m.learned
<1> DEFINE life == [s \in DOMAIN m.life |-> mark]
<1>1. /\ m = [life |-> m.life, learned |-> m.learned]
      /\ DOMAIN m.life \subseteq Scripts
      /\ m.learned \in SUBSET Controls
  BY ManifestParts
<1>2. [m EXCEPT !.life = life] = [life |-> life, learned |-> m.learned]
  BY <1>1
<1>3. DOMAIN life \subseteq Scripts /\ life \in [DOMAIN life -> Lifecycles]
  BY <1>1
<1> HIDE DEF life
<1>4. [life |-> life, learned |-> m.learned] \in Manifests
  BY <1>1, <1>3, ManifestMade
<1>5. [life |-> life, learned |-> m.learned].learned = m.learned
  OBVIOUS
<1>6. [m EXCEPT !.life = life] \in Manifests /\ [m EXCEPT !.life = life].learned = m.learned
  BY <1>2, <1>4, <1>5
<1> QED
  BY <1>6 DEF life

LEMMA LearnedMore ==
    ASSUME NEW m \in Manifests, NEW c \in Controls
    PROVE  LET n == [m EXCEPT !.learned = @ \cup {c}]
           IN  n \in Manifests /\ n.life = m.life /\ n.learned = m.learned \cup {c}
<1> DEFINE learned == m.learned \cup {c}
<1>1. /\ m = [life |-> m.life, learned |-> m.learned]
      /\ DOMAIN m.life \subseteq Scripts
      /\ m.life \in [DOMAIN m.life -> Lifecycles]
      /\ m.learned \in SUBSET Controls
  BY ManifestParts
<1>2. [m EXCEPT !.learned = @ \cup {c}] = [life |-> m.life, learned |-> learned]
  BY <1>1
<1>3. learned \in SUBSET Controls
  BY <1>1
<1> HIDE DEF learned
<1>4. [life |-> m.life, learned |-> learned] \in Manifests
  BY <1>1, <1>3, ManifestMade
<1>5. /\ [life |-> m.life, learned |-> learned].life = m.life
      /\ [life |-> m.life, learned |-> learned].learned = learned
  OBVIOUS
<1> QED
  BY <1>2, <1>4, <1>5 DEF learned

(* What generate does to memory and the files.                             *)
LEMMA StoreFacts ==
    ASSUME ScriptTypeOK, NEW g \in Generations \ DOMAIN disk, NEW life \in Selections,
           StoreGeneration(g, life)
    PROVE  /\ DOMAIN memory' = DOMAIN memory \cup {g}
           /\ DOMAIN disk' = DOMAIN disk \cup {g}
           /\ \A h \in DOMAIN memory : memory'[h] = memory[h]
           /\ \A h \in DOMAIN disk : disk'[h] \in Manifests /\ disk'[h].learned = disk[h].learned
           /\ memory'[g] \in Manifests
           /\ disk'[g] = memory'[g]
<1> DEFINE manifest == [life |-> life, learned |-> {}]
<1>1. manifest \in Manifests
  BY Selected
<1>2. PICK mark \in {"Valid", "Superseded"} :
        memory' = Put(memory, g, manifest) /\ disk' = Put(MarkPrior(mark), g, manifest)
  BY DEF StoreGeneration
<1>3. mark \in Lifecycles
  BY DEF Lifecycles
<1> HIDE DEF manifest
<1>4. DOMAIN MarkPrior(mark) = DOMAIN disk
  BY DEF MarkPrior
<1>5. ASSUME NEW h \in DOMAIN disk
      PROVE  MarkPrior(mark)[h] \in Manifests /\ MarkPrior(mark)[h].learned = disk[h].learned
  <2>1. disk[h] \in Manifests
    BY DEF ScriptTypeOK, StoresTyped
  <2>2. MarkPrior(mark)[h] = [disk[h] EXCEPT !.life = [s \in DOMAIN disk[h].life |-> mark]]
    BY DEF MarkPrior
  <2> QED
    BY <2>1, <2>2, <1>3, Marked
<1>6. DOMAIN memory \subseteq DOMAIN disk
  BY DEF ScriptTypeOK, StoresTyped
<1>7. /\ DOMAIN memory' = DOMAIN memory \cup {g}
      /\ memory'[g] = manifest
      /\ \A h \in DOMAIN memory : memory'[h] = memory[h]
  BY <1>2, <1>6 DEF Put
<1>8. /\ DOMAIN disk' = DOMAIN disk \cup {g}
      /\ disk'[g] = manifest
      /\ \A h \in DOMAIN disk : disk'[h] = MarkPrior(mark)[h]
  BY <1>2, <1>4 DEF Put
<1> QED
  BY <1>1, <1>5, <1>7, <1>8
-----------------------------------------------------------------------------
(* What the steps of a worker share.                                       *)
LEMMA ResultTyped ==
    ASSUME ProgressTyped, NEW w \in Workers, NEW s \in Scripts, NEW outcome \in Outcomes,
           ResultOf(w, s, outcome)
    PROVE  ProgressTyped'
<1>1. Put(results[w], s, outcome) \in ResultSets
  BY ResultAdded DEF ProgressTyped
<1>2. results' \in [Workers -> ResultSets]
  BY <1>1 DEF ProgressTyped, ResultOf
<1>3. at' \in [Workers -> Places]
  BY DEF ProgressTyped, ResultOf, Goto, Places
<1>4. /\ todo' \in [Workers -> SUBSET Scripts]
      /\ step' \in [Workers -> Nat \ {0}]
  BY DEF ProgressTyped, ResultOf
<1>5. calls' \in [Workers -> [test : 0..CallsPerTest, run : 0..CallsPerRun]]
  BY LimitsAssumption DEF ProgressTyped, ResultOf
<1> QED
  BY <1>2, <1>3, <1>4, <1>5 DEF ProgressTyped

LEMMA ReturnTyped ==
    ASSUME ProgressTyped, NEW w \in Workers, NEW res \in ResultSets, NEW place \in Places,
           Goto(w, place), Returns(w, res)
    PROVE  ProgressTyped'
<1>1. NoCalls \in [test : 0..CallsPerTest, run : 0..CallsPerRun]
  BY LimitsAssumption DEF NoCalls
<1>2. calls' \in [Workers -> [test : 0..CallsPerTest, run : 0..CallsPerRun]]
  BY <1>1 DEF ProgressTyped, Returns
<1>3. at' \in [Workers -> Places]
  BY DEF ProgressTyped, Goto
<1> QED
  BY <1>2, <1>3 DEF ProgressTyped, Returns

LEMMA GoTyped ==
    ASSUME ProgressTyped, NEW w \in Workers, NEW place \in Places, Goto(w, place),
           UNCHANGED <<todo, results>>,
           \/ UNCHANGED <<step, calls>>
           \/ UNCHANGED calls /\ step' = [step EXCEPT ![w] = @ + 1]
           \/ UNCHANGED step /\ MayAsk(w)
                /\ calls' = [calls EXCEPT ![w] = [test |-> @.test + 1, run |-> @.run + 1]]
    PROVE  ProgressTyped'
<1>1. at' \in [Workers -> Places]
  BY DEF ProgressTyped, Goto
<1>2. step' \in [Workers -> Nat \ {0}]
  BY DEF ProgressTyped
<1>3. calls' \in [Workers -> [test : 0..CallsPerTest, run : 0..CallsPerRun]]
  <2>1. CASE MayAsk(w)
              /\ calls' = [calls EXCEPT ![w] = [test |-> @.test + 1, run |-> @.run + 1]]
    BY <2>1, LimitsAssumption DEF ProgressTyped, MayAsk
  <2> QED
    BY <2>1 DEF ProgressTyped
<1> QED
  BY <1>1, <1>2, <1>3 DEF ProgressTyped

LEMMA LearnTyped ==
    ASSUME StoresTyped, NEW w \in Workers, NEW c \in Controls, Own(w) \in DOMAIN memory,
           Learn(w, c)
    PROVE  /\ DOMAIN memory' = DOMAIN memory
           /\ \A g \in DOMAIN memory : /\ memory'[g] \in Manifests
                                       /\ memory'[g].life = memory[g].life
                                       /\ memory[g].learned \subseteq memory'[g].learned
<1>1. memory[Own(w)] \in Manifests
  BY DEF StoresTyped
<1>2. memory' = [memory EXCEPT ![Own(w)] = [memory[Own(w)] EXCEPT !.learned = @ \cup {c}]]
  BY DEF Learn
<1> DEFINE n == [memory[Own(w)] EXCEPT !.learned = @ \cup {c}]
<1>3. /\ n \in Manifests
      /\ n.life = memory[Own(w)].life
      /\ n.learned = memory[Own(w)].learned \cup {c}
  BY <1>1, LearnedMore
<1> HIDE DEF n
<1>4. memory' = [memory EXCEPT ![Own(w)] = n]
  BY <1>2 DEF n
<1> QED
  BY <1>3, <1>4 DEF StoresTyped

(* A worker under way has the generation in memory.                        *)
LEMMA OwnKnown ==
    ASSUME ScriptInvariant, NEW w \in Workers, ~ At(w, "idle")
    PROVE  /\ Own(w) \in DOMAIN memory
           /\ Own(w) \in DOMAIN disk
           /\ Own(w) \in Generations
           /\ w[1] \in Jobs
           /\ memory[Own(w)] \in Manifests
  BY DEF ScriptInvariant, WorkerKnown, Share, ScriptTypeOK, StoresTyped, Workers

(* The control a worker asks about is one of the generation's.             *)
LEMMA ControlKnown ==
    ASSUME ScriptInvariant, NEW w \in Workers, NEW s \in Scripts, First(w, s),
           step[w] <= Len(StepsOf[s])
    PROVE  Control(w, s) \in Controls
<1>1. StepsOf[s] \in Seq(Controls)
  BY ScriptsAssumption
<1>2. step[w] \in 1..Len(StepsOf[s])
  BY <1>1 DEF ScriptInvariant, ScriptTypeOK, ProgressTyped
<1> QED
  BY <1>1, <1>2 DEF Control

LEMMA ShareTyped ==
    ASSUME ScriptInvariant, NEW w \in Workers, ~ At(w, "idle")
    PROVE  /\ ManifestOf(w) \in Manifests
           /\ ManifestOf(w).learned = memory[Own(w)].learned
<1> DEFINE m == memory[Own(w)]
           life == [s \in ChunkOf(w) |-> m.life[s]]
<1>1. m \in Manifests
  BY OwnKnown
<1>2. /\ DOMAIN m.life \subseteq Scripts
      /\ m.life \in [DOMAIN m.life -> Lifecycles]
      /\ m.learned \in SUBSET Controls
  BY <1>1, ManifestParts
<1>3. ChunkOf(w) \subseteq DOMAIN m.life
  BY ChunkWithin DEF ChunkOf
<1>4. DOMAIN life \subseteq Scripts /\ life \in [DOMAIN life -> Lifecycles]
  BY <1>2, <1>3
<1>5. ManifestOf(w) = [life |-> life, learned |-> m.learned]
  BY DEF ManifestOf
<1> HIDE DEF life
<1>6. [life |-> life, learned |-> m.learned] \in Manifests
  BY <1>2, <1>4, ManifestMade
<1>7. [life |-> life, learned |-> m.learned].learned = m.learned
  OBVIOUS
<1> QED
  BY <1>5, <1>6, <1>7
-----------------------------------------------------------------------------
(* The stores: what a generation is does not change while the service runs,*)
(* and learned locators are only added, in memory before the file.         *)
LivesStay == \A g \in DOMAIN memory : g \in DOMAIN memory' /\ memory'[g].life = memory[g].life
FilesGrow == \A g \in DOMAIN disk : g \in DOMAIN disk' /\ disk[g].learned \subseteq disk'[g].learned
StoresStep == StoresTyped' /\ MemoryAhead' /\ LivesStay /\ FilesGrow

LEMMA StoresSame ==
    ASSUME ScriptInvariant, UNCHANGED stores
    PROVE  StoresStep
  BY DEF ScriptInvariant, ScriptTypeOK, StoresTyped, MemoryAhead, StoresStep, LivesStay,
    FilesGrow, stores

LEMMA StoresGenerate ==
    ASSUME ScriptInvariant, NEW g \in Generations, Generate(g) \/ GenerateFromCache(g)
    PROVE  StoresStep
<1>1. madeScripts \subseteq Selections /\ hints \subseteq Controls
  BY DEF ScriptInvariant, ScriptTypeOK, StoresTyped
<1>2. PICK life \in Selections :
        /\ g \in Generations \ DOMAIN disk /\ StoreGeneration(g, life)
        /\ madeScripts' \in {madeScripts, madeScripts \cup {life}} /\ hints' = hints
  BY <1>1 DEF Generate, GenerateFromCache
<1>3. /\ DOMAIN memory' = DOMAIN memory \cup {g}
      /\ DOMAIN disk' = DOMAIN disk \cup {g}
      /\ \A h \in DOMAIN memory : memory'[h] = memory[h]
      /\ \A h \in DOMAIN disk : disk'[h] \in Manifests /\ disk'[h].learned = disk[h].learned
      /\ memory'[g] \in Manifests
      /\ disk'[g] = memory'[g]
  BY <1>2, StoreFacts DEF ScriptInvariant
<1>4. StoresTyped'
  BY <1>1, <1>2, <1>3 DEF ScriptInvariant, ScriptTypeOK, StoresTyped
<1>5. MemoryAhead'
  BY <1>3 DEF ScriptInvariant, ScriptTypeOK, StoresTyped, MemoryAhead
<1> QED
  BY <1>3, <1>4, <1>5 DEF StoresStep, LivesStay, FilesGrow

(* An execution reads its generation into memory.                          *)
LEMMA StoresLoad ==
    ASSUME ScriptInvariant, NEW j \in Jobs, status[j] = "queued",
           memory' = Put(memory, target[j], Generation(target[j])),
           UNCHANGED <<disk, hints, madeScripts>>
    PROVE  /\ StoresStep
           /\ target[j] \in DOMAIN memory' \cap Generations
           /\ memory'[target[j]] = Generation(target[j])
           /\ Generation(target[j]) \in Manifests
<1> DEFINE g == target[j]
<1>1. g \in DOMAIN disk
  BY DEF ScriptInvariant, JobKnown
<1>2. Generation(g) \in Manifests
  BY <1>1, GenerationTyped DEF ScriptInvariant
<1>3. /\ DOMAIN memory' = DOMAIN memory \cup {g}
      /\ memory'[g] = Generation(g)
      /\ \A h \in DOMAIN memory : memory'[h] = memory[h]
  BY DEF Put, Generation
<1>4. disk[g].learned \subseteq Generation(g).learned
  BY <1>1 DEF ScriptInvariant, MemoryAhead, Generation
<1>5. StoresTyped'
  BY <1>1, <1>2, <1>3 DEF ScriptInvariant, ScriptTypeOK, StoresTyped
<1>6. MemoryAhead'
  BY <1>3, <1>4 DEF ScriptInvariant, MemoryAhead
<1>7. g \in Generations
  BY <1>1 DEF ScriptInvariant, ScriptTypeOK, StoresTyped
<1> QED
  BY <1>2, <1>3, <1>5, <1>6, <1>7 DEF StoresStep, LivesStay, FilesGrow

LEMMA StoresLearn ==
    ASSUME ScriptInvariant, NEW w \in Workers, NEW s \in Scripts,
           HintFound(w, s) \/ SeacrawlHelps(w, s)
    PROVE  StoresStep
<1>1. ~ At(w, "idle") /\ step[w] <= Len(StepsOf[s]) /\ First(w, s)
  <2>1. CASE HintFound(w, s)
    BY <2>1 DEF HintFound, At
  <2>2. CASE SeacrawlHelps(w, s)
    <3>1. At(w, "seacrawl") /\ First(w, s)
      BY <2>2 DEF SeacrawlHelps
    <3>2. CurrentScript(w)
      BY <3>1 DEF ScriptInvariant, WorkerKnown, At
    <3> QED
      BY <3>1, <3>2 DEF CurrentScript, At
  <2> QED
    BY <2>1, <2>2
<1>2. Control(w, s) \in Controls
  BY <1>1, ControlKnown
<1>3. Own(w) \in DOMAIN memory /\ Own(w) \in Generations
  BY <1>1, OwnKnown
<1>4. /\ Learn(w, Control(w, s)) /\ UNCHANGED <<disk, madeScripts>>
      /\ hints' \subseteq hints \cup {Control(w, s)}
  BY DEF HintFound, SeacrawlHelps
<1>5. /\ DOMAIN memory' = DOMAIN memory
      /\ \A g \in DOMAIN memory : /\ memory'[g] \in Manifests
                                  /\ memory'[g].life = memory[g].life
                                  /\ memory[g].learned \subseteq memory'[g].learned
  BY <1>2, <1>3, <1>4, LearnTyped DEF ScriptInvariant, ScriptTypeOK
<1>6. StoresTyped'
  BY <1>2, <1>4, <1>5 DEF ScriptInvariant, ScriptTypeOK, StoresTyped
<1>7. MemoryAhead'
  BY <1>4, <1>5 DEF ScriptInvariant, MemoryAhead
<1> QED
  BY <1>4, <1>5, <1>6, <1>7 DEF StoresStep, LivesStay, FilesGrow

(* A worker's manifest has fewer scripts, and every learned locator.       *)
LEMMA StoresSave ==
    ASSUME ScriptInvariant, NEW w \in Workers, NEW s \in Scripts, LearnedSaved(w, s)
    PROVE  StoresStep
<1>1. ~ At(w, "idle")
  BY DEF LearnedSaved, At
<1>2. /\ Own(w) \in DOMAIN memory /\ Own(w) \in DOMAIN disk
      /\ ManifestOf(w) \in Manifests
      /\ ManifestOf(w).learned = memory[Own(w)].learned
  BY <1>1, OwnKnown, ShareTyped
<1>3. disk' = [disk EXCEPT ![Own(w)] = ManifestOf(w)] /\ UNCHANGED <<memory, hints, madeScripts>>
  BY DEF LearnedSaved
<1>4. /\ DOMAIN disk' = DOMAIN disk
      /\ disk'[Own(w)] = ManifestOf(w)
      /\ \A g \in DOMAIN disk \ {Own(w)} : disk'[g] = disk[g]
  BY <1>2, <1>3
<1>5. StoresTyped'
  BY <1>2, <1>3, <1>4 DEF ScriptInvariant, ScriptTypeOK, StoresTyped
<1>6. MemoryAhead'
  BY <1>2, <1>3, <1>4 DEF ScriptInvariant, MemoryAhead
<1>7. LivesStay
  BY <1>3 DEF LivesStay
<1>8. FilesGrow
  BY <1>2, <1>4 DEF ScriptInvariant, MemoryAhead, FilesGrow
<1> QED
  BY <1>5, <1>6, <1>7, <1>8 DEF StoresStep

LEMMA StoresRestart ==
    ASSUME ScriptInvariant, ServiceRestart
    PROVE  StoresTyped' /\ MemoryAhead' /\ FilesGrow
<1>1. DOMAIN memory' = {} /\ UNCHANGED <<disk, hints, madeScripts>>
  BY DEF ServiceRestart, Empty
<1> QED
  BY <1>1 DEF ScriptInvariant, ScriptTypeOK, StoresTyped, MemoryAhead, FilesGrow

LEMMA WorkerStores ==
    ASSUME ScriptInvariant, NEW w \in Workers, WorkerStep(w)
    PROVE  StoresStep
<1>1. CASE WorkerRaises(w) \/ SaveWorkerReport(w) \/ SaveOnlyReport(w)
  <2>1. UNCHANGED stores
    BY <1>1 DEF WorkerRaises, SaveWorkerReport, SaveOnlyReport, stores
  <2> QED
    BY <2>1, StoresSame
<1>2. ASSUME NEW s \in Scripts, ScriptStep(w, s)
      PROVE  StoresStep
  <2>1. CASE HintFound(w, s) \/ SeacrawlHelps(w, s)
    BY <2>1, StoresLearn
  <2>2. CASE LearnedSaved(w, s)
    BY <2>2, StoresSave
  <2>3. CASE \/ SkipBlocked(w, s) \/ OpenPage(w, s) \/ ScriptFails(w, s) \/ ScriptPasses(w, s)
             \/ StepPerformed(w, s) \/ AskSeacrawl(w, s)
    <3>1. UNCHANGED stores
      BY <2>3 DEF SkipBlocked, OpenPage, ScriptFails, ScriptPasses, StepPerformed,
        AskSeacrawl, stores
    <3> QED
      BY <3>1, StoresSame
  <2> QED
    BY <1>2, <2>1, <2>2, <2>3 DEF ScriptStep
<1> QED
  BY <1>1, <1>2 DEF WorkerStep

LEMMA JobStores ==
    ASSUME ScriptInvariant, NEW j \in Jobs, JobStep(j)
    PROVE  StoresStep
<1>1. CASE Begin(j) \/ ExecuteManually(j)
  <2>1. /\ status[j] = "queued"
        /\ memory' = Put(memory, target[j], Generation(target[j]))
        /\ UNCHANGED <<disk, hints, madeScripts>>
    BY <1>1 DEF Begin, ExecuteManually
  <2> QED
    BY <2>1, StoresLoad
<1>2. CASE MergeReports(j) \/ JobFails(j)
  <2>1. UNCHANGED stores
    BY <1>2 DEF MergeReports, JobFails, stores
  <2> QED
    BY <2>1, StoresSame
<1> QED
  BY <1>1, <1>2 DEF JobStep
-----------------------------------------------------------------------------
(* Reports.                                                                *)
LEMMA SavedTyped ==
    ASSUME ReportsTyped, NEW j \in Jobs, NEW id, NEW res \in ResultSets, SaveReport(j, id, res)
    PROVE  ReportsTyped'
<1> DEFINE rep == ScriptsWith(res, "failed") \cap PriorFailures(id)
           ver == ScriptsWith(res, "passed") \cap PriorFailures(id)
           r == [job |-> j, id |-> id, results |-> res, reproduced |-> rep, verified |-> ver]
<1>1. reports' = reports \cup {r}
  BY DEF SaveReport
<1> HIDE DEF rep, ver
<1>2. r.job = j /\ r.results = res
  OBVIOUS
<1> HIDE DEF r
<1> QED
  BY <1>1, <1>2 DEF ReportsTyped

LEMMA TeamWorkers ==
    ASSUME JobsTyped, NEW j \in Jobs
    PROVE  /\ Team(j) \subseteq Workers
           /\ \A w \in Team(j) : w[1] = j /\ w[2] \in 0..(count[j] - 1)
           /\ \A w \in Workers : w[1] = j /\ w[2] < count[j] => w \in Team(j)
<1>1. count[j] \in 0..MaxWorkers /\ MaxWorkers \in Nat
  BY LimitsAssumption DEF JobsTyped
<1>2. 0..(count[j] - 1) \subseteq 0..(MaxWorkers - 1)
  BY <1>1
<1>3. Team(j) \subseteq Workers
  BY <1>2 DEF Team, Workers, Slots
<1>4. \A w \in Team(j) : w[1] = j /\ w[2] \in 0..(count[j] - 1)
  BY DEF Team
<1>5. ASSUME NEW w \in Workers, w[1] = j, w[2] < count[j]
      PROVE  w \in Team(j)
  <2>1. w = <<w[1], w[2]>> /\ w[2] \in 0..(MaxWorkers - 1)
    BY DEF Workers, Slots
  <2>2. w[2] \in 0..(count[j] - 1)
    BY <2>1, <1>1, <1>5
  <2> QED
    BY <2>1, <2>2, <1>5 DEF Team
<1> QED
  BY <1>3, <1>4, <1>5

(* The merged results are those of some worker of the job.                 *)
LEMMA Merged ==
    ASSUME JobsTyped, ProgressTyped, NEW j \in Jobs
    PROVE  /\ MergedResults(j) \in ResultSets
           /\ DOMAIN MergedResults(j) = UNION {DOMAIN results[w] : w \in Team(j)}
           /\ \A s \in DOMAIN MergedResults(j) : \E w \in Team(j) :
                 s \in DOMAIN results[w] /\ MergedResults(j)[s] = results[w][s]
<1> DEFINE S == UNION {DOMAIN results[w] : w \in Team(j)}
           From(s) == CHOOSE w \in Team(j) : s \in DOMAIN results[w]
           m == [s \in S |-> results[From(s)][s]]
<1>1. ASSUME NEW s \in S
      PROVE  From(s) \in Team(j) /\ s \in DOMAIN results[From(s)]
  <2>1. \E w \in Team(j) : s \in DOMAIN results[w]
    OBVIOUS
  <2> QED
    BY <2>1
<1>2. \A w \in Team(j) : /\ DOMAIN results[w] \subseteq Scripts
                         /\ results[w] \in [DOMAIN results[w] -> Outcomes]
  BY TeamWorkers, ResultsParts DEF ProgressTyped
<1>3. MergedResults(j) = m
  BY DEF MergedResults
<1> HIDE DEF From
<1>4. DOMAIN m = S /\ S \subseteq Scripts
  BY <1>2
<1>5. \A s \in S : m[s] = results[From(s)][s] /\ m[s] \in Outcomes
  BY <1>1, <1>2
<1>6. m \in [DOMAIN m -> Outcomes]
  BY <1>4, <1>5
<1> HIDE DEF m
<1>7. m \in ResultSets
  BY <1>4, <1>6, ResultsMade
<1> QED
  BY <1>1, <1>3, <1>4, <1>5, <1>7

LEMMA Skipped ==
    ASSUME NEW m \in Manifests
    PROVE  [s \in DOMAIN m.life |-> "skipped"] \in ResultSets
<1> DEFINE res == [s \in DOMAIN m.life |-> "skipped"]
<1>1. DOMAIN m.life \subseteq Scripts
  BY ManifestParts
<1>2. DOMAIN res \subseteq Scripts /\ res \in [DOMAIN res -> Outcomes]
  BY <1>1 DEF Outcomes
<1> QED
  BY <1>2, ResultsMade
-----------------------------------------------------------------------------
(* The types of everything but the stores.                                 *)
RestTyped == JobsTyped /\ ProgressTyped /\ ReportsTyped /\ faults \in 0..MaxFaults

LEMMA RestGenerate ==
    ASSUME RestTyped, NEW g, Generate(g) \/ GenerateFromCache(g)
    PROVE  RestTyped'
<1>1. UNCHANGED <<jobs, progress, reports, faults>>
  BY DEF Generate, GenerateFromCache
<1> QED
  BY <1>1 DEF RestTyped, JobsTyped, ProgressTyped, ReportsTyped, jobs, progress

LEMMA RestStart ==
    ASSUME RestTyped, NEW j \in Jobs, NEW g \in Generations, StartJob(j, g)
    PROVE  RestTyped'
<1>1. JobsTyped'
  BY DEF RestTyped, JobsTyped, StartJob, Statuses
<1> QED
  BY <1>1 DEF RestTyped, ProgressTyped, ReportsTyped, StartJob, progress

LEMMA RestEnds ==
    ASSUME JobsTyped, NEW j \in Jobs, NEW s \in Statuses, EndJob(j, s), UNCHANGED <<target, count>>
    PROVE  JobsTyped'
  BY DEF JobsTyped, EndJob

LEMMA RestBegin ==
    ASSUME ScriptInvariant, NEW j \in Jobs, Begin(j)
    PROVE  RestTyped'
<1> DEFINE S == DOMAIN Generation(target[j]).life
           n == WorkersFor(S)
<1>1. Generation(target[j]) \in Manifests
  BY StoresLoad DEF Begin
<1>2. S \subseteq Scripts
  BY <1>1, ManifestParts
<1>3. n \in 1..MaxWorkers
  BY <1>2, WorkersForType
<1>4. /\ status' = [status EXCEPT ![j] = "running"]
      /\ count' = [count EXCEPT ![j] = n]
      /\ at' = [w \in Workers |-> IF w[1] = j /\ w[2] < n THEN "next" ELSE at[w]]
      /\ todo' = [w \in Workers |-> IF w[1] = j /\ w[2] < n THEN Chunk(S, w[2], n) ELSE todo[w]]
      /\ UNCHANGED <<target, step, results, calls, reports, faults>>
  BY DEF Begin
<1>5. \A w \in Workers : Chunk(S, w[2], n) \in SUBSET Scripts
  BY <1>2, ChunkWithin
<1> HIDE DEF n, S
<1>6. JobsTyped'
  BY <1>3, <1>4, LimitsAssumption DEF ScriptInvariant, ScriptTypeOK, JobsTyped, Statuses
<1>7. at' \in [Workers -> Places]
  BY <1>4 DEF ScriptInvariant, ScriptTypeOK, ProgressTyped, Places
<1>8. todo' \in [Workers -> SUBSET Scripts]
  BY <1>4, <1>5 DEF ScriptInvariant, ScriptTypeOK, ProgressTyped
<1> QED
  BY <1>4, <1>6, <1>7, <1>8 DEF ScriptInvariant, ScriptTypeOK, RestTyped, ProgressTyped,
    ReportsTyped

LEMMA RestManual ==
    ASSUME ScriptInvariant, NEW j \in Jobs, ExecuteManually(j)
    PROVE  RestTyped'
<1>1. Generation(target[j]) \in Manifests
  BY StoresLoad DEF ExecuteManually
<1>2. [s \in DOMAIN Generation(target[j]).life |-> "skipped"] \in ResultSets
  BY <1>1, Skipped
<1>3. ReportsTyped'
  BY <1>2, SavedTyped DEF ExecuteManually, ScriptInvariant, ScriptTypeOK
<1>4. JobsTyped'
  BY RestEnds DEF ExecuteManually, ScriptInvariant, ScriptTypeOK, Statuses
<1> QED
  BY <1>3, <1>4 DEF ExecuteManually, ScriptInvariant, ScriptTypeOK, RestTyped, ProgressTyped,
    progress

LEMMA RestMerge ==
    ASSUME ScriptInvariant, NEW j \in Jobs, MergeReports(j)
    PROVE  RestTyped'
<1>1. MergedResults(j) \in ResultSets
  BY Merged DEF ScriptInvariant, ScriptTypeOK
<1>2. ReportsTyped'
  BY <1>1, SavedTyped DEF MergeReports, ScriptInvariant, ScriptTypeOK
<1>3. JobsTyped'
  BY RestEnds DEF MergeReports, ScriptInvariant, ScriptTypeOK, Statuses
<1>4. ProgressTyped'
  BY EmptyResults DEF MergeReports, ScriptInvariant, ScriptTypeOK, ProgressTyped
<1> QED
  BY <1>2, <1>3, <1>4 DEF MergeReports, ScriptInvariant, ScriptTypeOK, RestTyped

LEMMA RestFails ==
    ASSUME RestTyped, NEW j \in Jobs, JobFails(j)
    PROVE  RestTyped'
<1>1. JobsTyped'
  BY RestEnds DEF JobFails, RestTyped, Statuses
<1> QED
  BY <1>1 DEF JobFails, RestTyped, ProgressTyped, ReportsTyped, progress

LEMMA RestRestart ==
    ASSUME RestTyped, ServiceRestart
    PROVE  RestTyped'
<1>1. NoCalls \in [test : 0..CallsPerTest, run : 0..CallsPerRun]
  BY LimitsAssumption DEF NoCalls
<1>2. JobsTyped'
  BY DEF RestTyped, JobsTyped, ServiceRestart, Statuses
<1>3. ProgressTyped'
  BY <1>1, EmptyResults DEF RestTyped, ProgressTyped, ServiceRestart, Places
<1>4. faults' \in 0..MaxFaults
  BY LimitsAssumption DEF RestTyped, ServiceRestart, Fault
<1> QED
  BY <1>2, <1>3, <1>4 DEF RestTyped, ReportsTyped, ServiceRestart

LEMMA RestWorker ==
    ASSUME RestTyped, NEW w \in Workers, WorkerStep(w)
    PROVE  RestTyped'
<1> USE DEF RestTyped
<1>0. w[1] \in Jobs
  BY DEF Workers
<1>1. CASE WorkerRaises(w)
  <2>1. ProgressTyped'
    BY <1>1, EmptyResults, ReturnTyped DEF WorkerRaises, Places
  <2>2. faults' \in 0..MaxFaults
    BY <1>1, LimitsAssumption DEF WorkerRaises, Fault
  <2> QED
    BY <1>1, <2>1, <2>2 DEF WorkerRaises, jobs, JobsTyped, ReportsTyped
<1>2. CASE SaveWorkerReport(w)
  <2>1. results[w] \in ResultSets
    BY DEF ProgressTyped
  <2>2. ProgressTyped'
    BY <1>2, <2>1, ReturnTyped DEF SaveWorkerReport, Places
  <2>3. ReportsTyped'
    BY <1>0, <1>2, <2>1, SavedTyped DEF SaveWorkerReport
  <2> QED
    BY <1>2, <2>2, <2>3 DEF SaveWorkerReport, jobs, JobsTyped
<1>3. CASE SaveOnlyReport(w)
  <2>1. results[w] \in ResultSets
    BY DEF ProgressTyped
  <2>2. ProgressTyped'
    BY <1>3, EmptyResults, ReturnTyped DEF SaveOnlyReport, Places
  <2>3. ReportsTyped'
    BY <1>0, <1>3, <2>1, SavedTyped DEF SaveOnlyReport
  <2>4. JobsTyped'
    BY <1>0, <1>3, RestEnds DEF SaveOnlyReport, Statuses
  <2> QED
    BY <1>3, <2>2, <2>3, <2>4 DEF SaveOnlyReport
<1>4. ASSUME NEW s \in Scripts, ScriptStep(w, s)
      PROVE  RestTyped'
  <2>1. UNCHANGED <<jobs, reports, faults>>
    BY <1>4 DEF ScriptStep, SkipBlocked, OpenPage, ScriptFails, ScriptPasses, StepPerformed,
      HintFound, AskSeacrawl, SeacrawlHelps, LearnedSaved
  <2>2. CASE SkipBlocked(w, s) \/ ScriptFails(w, s) \/ ScriptPasses(w, s)
    <3>1. PICK outcome \in Outcomes : ResultOf(w, s, outcome)
      BY <2>2 DEF SkipBlocked, ScriptFails, ScriptPasses, Outcomes
    <3>2. ProgressTyped'
      BY <3>1, ResultTyped
    <3> QED
      BY <2>1, <3>2 DEF jobs, JobsTyped, ReportsTyped
  <2>3. CASE OpenPage(w, s) \/ StepPerformed(w, s) \/ AskSeacrawl(w, s)
               \/ SeacrawlHelps(w, s) \/ LearnedSaved(w, s)
    <3>1. PICK place \in Places :
            /\ Goto(w, place) /\ UNCHANGED <<todo, results>>
            /\ \/ UNCHANGED <<step, calls>>
               \/ UNCHANGED calls /\ step' = [step EXCEPT ![w] = @ + 1]
               \/ UNCHANGED step /\ MayAsk(w)
                    /\ calls' = [calls EXCEPT ![w] = [test |-> @.test + 1, run |-> @.run + 1]]
      BY <2>3 DEF OpenPage, StepPerformed, AskSeacrawl, SeacrawlHelps, LearnedSaved,
        ToNextStep, Places
    <3>2. ProgressTyped'
      BY <3>1, GoTyped
    <3> QED
      BY <2>1, <3>2 DEF jobs, JobsTyped, ReportsTyped
  <2>4. CASE HintFound(w, s)
    BY <2>1, <2>4 DEF HintFound, jobs, progress, JobsTyped, ReportsTyped, ProgressTyped
  <2> QED
    BY <1>4, <2>2, <2>3, <2>4 DEF ScriptStep
<1> QED
  BY <1>1, <1>2, <1>3, <1>4 DEF WorkerStep
-----------------------------------------------------------------------------
(* The other workers are where they were, with what they had.              *)
Stays(v) == at'[v] = at[v] /\ todo'[v] = todo[v] /\ step'[v] = step[v] /\ results'[v] = results[v]

(* What a worker under way knows of its generation stays true while lives  *)
(* stay.                                                                   *)
LEMMA SameShare ==
    ASSUME LivesStay, NEW v \in Workers, Own(v) \in DOMAIN memory,
           target'[v[1]] = target[v[1]], count'[v[1]] = count[v[1]]
    PROVE  /\ Own(v)' = Own(v) /\ Own(v) \in DOMAIN memory'
           /\ Life(v)' = Life(v)
           /\ ChunkOf(v)' = ChunkOf(v)
<1>1. Own(v)' = Own(v)
  BY DEF Own
<1>2. memory'[Own(v)].life = memory[Own(v)].life /\ Own(v) \in DOMAIN memory'
  BY DEF LivesStay
<1>3. Life(v)' = Life(v)
  BY <1>1, <1>2 DEF Life
<1>4. ChunkOf(v)' = ChunkOf(v)
  BY <1>1, <1>2 DEF ChunkOf
<1> QED
  BY <1>1, <1>2, <1>3, <1>4

LEMMA WorkerStays ==
    ASSUME ScriptInvariant, LivesStay, NEW v \in Workers, Stays(v),
           ~ At(v, "idle") =>
               /\ target'[v[1]] = target[v[1]] /\ count'[v[1]] = count[v[1]]
               /\ \/ status'[v[1]] = status[v[1]]
                  \/ status'[v[1]] # "running" /\ ~ (at[v] \in Working /\ count[v[1]] = 1)
    PROVE  WorkerKnown(v)'
<1>1. WorkerKnown(v)
  BY DEF ScriptInvariant
<1>2. CASE At(v, "idle")
  BY <1>1, <1>2 DEF WorkerKnown, At, Stays
<1>3. CASE ~ At(v, "idle")
  <2>1. Own(v) \in DOMAIN memory
    BY <1>3, OwnKnown
  <2>2. /\ Own(v)' = Own(v) /\ Own(v) \in DOMAIN memory'
        /\ Life(v)' = Life(v)
        /\ ChunkOf(v)' = ChunkOf(v)
    BY <1>3, <2>1, SameShare
  <2>3. Share(v) /\ BlockedKnown(v) /\ CurrentScript(v)
    BY <1>1, <1>3 DEF WorkerKnown
  <2>4. Share(v)'
    BY <1>3, <2>2, <2>3 DEF Share, At, Stays
  <2>5. BlockedKnown(v)'
    BY <2>2, <2>3 DEF BlockedKnown, Stays
  <2>6. CurrentScript(v)'
    BY <2>2, <2>3 DEF CurrentScript, First, Stays
  <2>7. ~ At(v, "idle")'
    BY <1>3 DEF At, Stays
  <2> QED
    BY <2>4, <2>5, <2>6, <2>7 DEF WorkerKnown
<1> QED
  BY <1>2, <1>3

LEMMA FirstUnique ==
    ASSUME ProgressTyped, NEW w \in Workers, NEW s, NEW r, First(w, s), First(w, r)
    PROVE  r = s
<1>1. todo[w] \subseteq Int
  BY DEF ProgressTyped, Scripts
<1> QED
  BY <1>1 DEF First

(* A script gets its result.                                               *)
LEMMA ResultKnown ==
    ASSUME ScriptInvariant, NEW w \in Workers, NEW s \in Scripts, NEW outcome,
           at[w] \in Working, First(w, s), ResultOf(w, s, outcome),
           outcome = "blocked" <=> Life(w)[s] = "Blocked",
           UNCHANGED <<stores, jobs>>
    PROVE  WorkerKnown(w)'
<1>1. ~ At(w, "idle")
  BY DEF At, Working
<1>2. Share(w) /\ BlockedKnown(w)
  BY <1>1 DEF ScriptInvariant, WorkerKnown
<1>3. /\ at'[w] = "next"
      /\ todo'[w] = todo[w] \ {s}
      /\ results'[w] = Put(results[w], s, outcome)
  BY DEF ResultOf, Goto, ScriptInvariant, ScriptTypeOK, ProgressTyped
<1>4. /\ DOMAIN results'[w] = DOMAIN results[w] \cup {s}
      /\ results'[w][s] = outcome
      /\ \A r \in DOMAIN results[w] \ {s} : results'[w][r] = results[w][r]
  BY <1>3 DEF Put
<1>5. Own(w)' = Own(w) /\ Life(w)' = Life(w) /\ ChunkOf(w)' = ChunkOf(w)
  BY DEF Own, Life, ChunkOf, stores, jobs
<1>6. s \in todo[w]
  BY DEF First
<1>7. s \in DOMAIN Life(w)
  BY <1>2, <1>6, ChunkWithin DEF Share, ChunkOf, Life
<1>8. Share(w)'
  BY <1>2, <1>3, <1>4, <1>5, <1>6 DEF Share, At, Working, stores, jobs
<1>9. BlockedKnown(w)'
  BY <1>2, <1>4, <1>5, <1>7 DEF BlockedKnown
<1>10. CurrentScript(w)'
  BY <1>3 DEF CurrentScript, InScript
<1>11. ~ At(w, "idle")'
  BY <1>3 DEF At
<1> QED
  BY <1>8, <1>9, <1>10, <1>11 DEF WorkerKnown

(* A worker moves within its script.                                       *)
LEMMA MoveKnown ==
    ASSUME ScriptInvariant, LivesStay, NEW w \in Workers, NEW s \in Scripts,
           at[w] \in Working, at'[w] \in InScript, First(w, s),
           todo'[w] = todo[w], results'[w] = results[w], UNCHANGED jobs,
           Life(w)[s] # "Blocked",
           at'[w] \in {"seacrawl", "saving"} => step'[w] <= Len(StepsOf[s])
    PROVE  WorkerKnown(w)'
<1>1. ~ At(w, "idle") /\ ~ At(w, "idle")'
  BY DEF At, Working, InScript
<1>2. Share(w) /\ BlockedKnown(w)
  BY <1>1 DEF ScriptInvariant, WorkerKnown
<1>3. /\ Own(w)' = Own(w) /\ Own(w) \in DOMAIN memory'
      /\ Life(w)' = Life(w)
      /\ ChunkOf(w)' = ChunkOf(w)
  BY <1>2, SameShare DEF Share, jobs
<1>4. Share(w)'
  BY <1>2, <1>3 DEF Share, At, Working, InScript, jobs
<1>5. BlockedKnown(w)'
  BY <1>2, <1>3 DEF BlockedKnown
<1>6. \A r \in Scripts : First(w, r)' => r = s
  BY FirstUnique DEF First, ScriptInvariant, ScriptTypeOK
<1>7. CurrentScript(w)'
  BY <1>3, <1>6 DEF CurrentScript
<1> QED
  BY <1>1, <1>4, <1>5, <1>7 DEF WorkerKnown

LEMMA MoverKnown ==
    ASSUME ScriptInvariant, NEW w \in Workers, WorkerStep(w)
    PROVE  WorkerKnown(w)'
<1>0. LivesStay /\ ScriptTypeOK /\ ProgressTyped
  BY WorkerStores DEF StoresStep, ScriptInvariant, ScriptTypeOK
<1>1. CASE WorkerRaises(w)
  <2>1. /\ ~ At(w, "idle") /\ at'[w] = "raised" /\ results'[w] = Empty /\ todo'[w] = {}
        /\ UNCHANGED <<stores, jobs>>
    BY <1>0, <1>1 DEF WorkerRaises, At, Goto, Returns, ProgressTyped
  <2>2. Share(w)
    BY <2>1 DEF ScriptInvariant, WorkerKnown
  <2>3. Share(w)'
    BY <2>1, <2>2 DEF Share, Own, At, Working, stores, jobs
  <2>4. BlockedKnown(w)'
    BY <2>1, EmptyResults DEF BlockedKnown
  <2>5. CurrentScript(w)'
    BY <2>1 DEF CurrentScript, InScript
  <2> QED
    BY <2>1, <2>3, <2>4, <2>5 DEF WorkerKnown, At
<1>2. CASE SaveWorkerReport(w)
  <2>1. /\ at[w] = "next" /\ at'[w] = "done" /\ results'[w] = results[w]
        /\ todo[w] = {} /\ todo'[w] = {}
        /\ UNCHANGED <<stores, jobs>>
    BY <1>0, <1>2 DEF SaveWorkerReport, At, Goto, Returns, ProgressTyped
  <2>2. Share(w) /\ BlockedKnown(w)
    BY <2>1 DEF ScriptInvariant, WorkerKnown, At
  <2>3. Own(w)' = Own(w) /\ Life(w)' = Life(w) /\ ChunkOf(w)' = ChunkOf(w)
    BY <2>1 DEF Own, Life, ChunkOf, stores, jobs
  <2>4. Share(w)'
    BY <2>1, <2>2, <2>3 DEF Share, At, Working, stores, jobs
  <2>5. BlockedKnown(w)'
    BY <2>1, <2>2, <2>3 DEF BlockedKnown
  <2>6. CurrentScript(w)'
    BY <2>1 DEF CurrentScript, InScript
  <2> QED
    BY <2>1, <2>4, <2>5, <2>6 DEF WorkerKnown, At
<1>3. CASE SaveOnlyReport(w)
  <2>1. /\ at[w] = "next" /\ at'[w] = "done" /\ results'[w] = Empty /\ todo'[w] = {}
        /\ count[w[1]] = 1
        /\ UNCHANGED <<stores, target, count>>
    BY <1>0, <1>3 DEF SaveOnlyReport, At, Goto, Returns, ProgressTyped
  <2>2. Share(w)
    BY <2>1 DEF ScriptInvariant, WorkerKnown, At
  <2>3. Share(w)'
    BY <2>1, <2>2 DEF Share, Own, At, Working, stores
  <2>4. BlockedKnown(w)'
    BY <2>1, EmptyResults DEF BlockedKnown
  <2>5. CurrentScript(w)'
    BY <2>1 DEF CurrentScript, InScript
  <2> QED
    BY <2>1, <2>3, <2>4, <2>5 DEF WorkerKnown, At
<1>4. ASSUME NEW s \in Scripts, ScriptStep(w, s)
      PROVE  WorkerKnown(w)'
  <2>0. WorkerKnown(w)
    BY DEF ScriptInvariant
  <2>1. CASE SkipBlocked(w, s)
    BY <2>1, ResultKnown DEF SkipBlocked, At, Working, Life
  <2>2. CASE ScriptFails(w, s) \/ ScriptPasses(w, s)
    <3>1. /\ at[w] \in InScript /\ First(w, s) /\ UNCHANGED <<stores, jobs>>
      BY <2>2 DEF ScriptFails, ScriptPasses, At, InScript
    <3>2. PICK outcome \in {"failed", "passed"} : ResultOf(w, s, outcome)
      BY <2>2 DEF ScriptFails, ScriptPasses
    <3>3. Life(w)[s] # "Blocked"
      BY <2>0, <3>1 DEF WorkerKnown, At, InScript, CurrentScript
    <3> QED
      BY <3>1, <3>2, <3>3, ResultKnown DEF InScript, Working
  <2>3. CASE OpenPage(w, s)
    BY <1>0, <2>3, MoveKnown DEF OpenPage, At, Working, InScript, Life, Goto, ProgressTyped
  <2>4. CASE \/ StepPerformed(w, s) \/ HintFound(w, s) \/ AskSeacrawl(w, s)
             \/ SeacrawlHelps(w, s) \/ LearnedSaved(w, s)
    <3>1. at[w] \in InScript /\ First(w, s)
      BY <2>4 DEF StepPerformed, HintFound, AskSeacrawl, SeacrawlHelps, LearnedSaved, At, InScript
    <3>2. /\ Life(w)[s] # "Blocked"
          /\ at[w] \in {"seacrawl", "saving"} => step[w] <= Len(StepsOf[s])
      BY <2>0, <3>1 DEF WorkerKnown, At, InScript, CurrentScript
    <3>3. /\ at'[w] \in InScript /\ todo'[w] = todo[w] /\ results'[w] = results[w]
          /\ UNCHANGED jobs
      BY <1>0, <2>4, <3>1 DEF StepPerformed, HintFound, AskSeacrawl, SeacrawlHelps, LearnedSaved,
        ToNextStep, Goto, InScript, ProgressTyped, progress
    <3>4. at'[w] \in {"seacrawl", "saving"} => step'[w] <= Len(StepsOf[s])
      BY <1>0, <2>4, <3>2 DEF StepPerformed, HintFound, AskSeacrawl, SeacrawlHelps, LearnedSaved,
        ToNextStep, Goto, At, ProgressTyped, progress
    <3> QED
      BY <1>0, <3>1, <3>2, <3>3, <3>4, MoveKnown DEF InScript, Working
  <2> QED
    BY <1>4, <2>1, <2>2, <2>3, <2>4 DEF ScriptStep
<1> QED
  BY <1>1, <1>2, <1>3, <1>4 DEF WorkerStep
-----------------------------------------------------------------------------
(* A step of a worker moves that worker, and at most ends its job when     *)
(* there is no other worker.                                               *)
LEMMA WorkerForm ==
    ASSUME ScriptInvariant, NEW w \in Workers, WorkerStep(w)
    PROVE  /\ at[w] \in Working /\ at'[w] # "idle"
           /\ \A v \in Workers \ {w} : Stays(v)
           /\ UNCHANGED <<target, count>>
           /\ \/ status' = status
              \/ /\ SaveOnlyReport(w)
                 /\ count[w[1]] = 1 /\ status[w[1]] = "running"
                 /\ status' = [status EXCEPT ![w[1]] = "completed"]
<1>0. ProgressTyped
  BY DEF ScriptInvariant, ScriptTypeOK
<1>1. CASE WorkerRaises(w)
  BY <1>0, <1>1 DEF WorkerRaises, Goto, Returns, At, Working, Stays, ProgressTyped, jobs
<1>2. CASE SaveWorkerReport(w)
  BY <1>0, <1>2 DEF SaveWorkerReport, Goto, Returns, At, Working, Stays, ProgressTyped, jobs
<1>3. CASE SaveOnlyReport(w)
  <2>1. /\ at[w] \in Working /\ at'[w] # "idle"
        /\ \A v \in Workers \ {w} : Stays(v)
        /\ UNCHANGED <<target, count>>
    BY <1>0, <1>3 DEF SaveOnlyReport, Goto, Returns, At, Working, Stays, ProgressTyped
  <2>2. count[w[1]] = 1 /\ status' = [status EXCEPT ![w[1]] = "completed"]
    BY <1>3 DEF SaveOnlyReport, EndJob
  <2>3. Share(w)
    BY <2>1 DEF ScriptInvariant, WorkerKnown, At, Working
  <2> QED
    BY <1>3, <2>1, <2>2, <2>3 DEF Share
<1>4. ASSUME NEW s \in Scripts, ScriptStep(w, s)
      PROVE  /\ at[w] \in Working /\ at'[w] # "idle"
             /\ \A v \in Workers \ {w} : Stays(v)
             /\ UNCHANGED <<target, count, status>>
  <2>1. CASE SkipBlocked(w, s) \/ ScriptFails(w, s) \/ ScriptPasses(w, s)
    BY <1>0, <2>1 DEF SkipBlocked, ScriptFails, ScriptPasses, ResultOf, Goto, At, Working, Stays,
      ProgressTyped, jobs
  <2>2. CASE OpenPage(w, s) \/ StepPerformed(w, s) \/ AskSeacrawl(w, s)
               \/ SeacrawlHelps(w, s) \/ LearnedSaved(w, s)
    BY <1>0, <2>2 DEF OpenPage, StepPerformed, AskSeacrawl, SeacrawlHelps, LearnedSaved,
      ToNextStep, Goto, At, Working, Stays, ProgressTyped, jobs
  <2>3. CASE HintFound(w, s)
    BY <2>3 DEF HintFound, At, Working, Stays, progress, jobs
  <2> QED
    BY <1>4, <2>1, <2>2, <2>3 DEF ScriptStep
<1> QED
  BY <1>1, <1>2, <1>3, <1>4 DEF WorkerStep

(* A worker under way belongs to a job that runs, or that failed without   *)
(* it.                                                                     *)
LEMMA JobOfWorker ==
    ASSUME ScriptInvariant, NEW w \in Workers, ~ At(w, "idle")
    PROVE  w[1] \in Jobs /\ status[w[1]] \in {"running", "completed", "failed"}
<1>1. w[1] \in Jobs
  BY DEF Workers
<1>2. JobKnown(w[1]) /\ status[w[1]] \in Statuses
  BY <1>1 DEF ScriptInvariant, ScriptTypeOK, JobsTyped
<1> QED
  BY <1>1, <1>2 DEF JobKnown, Statuses

(* An only worker has no colleague.                                        *)
LEMMA OnlyWorker ==
    ASSUME ScriptInvariant, NEW w \in Workers, NEW v \in Workers,
           ~ At(w, "idle"), ~ At(v, "idle"), v[1] = w[1], count[w[1]] = 1
    PROVE  v = w
<1>1. v[2] < 1 /\ w[2] < 1
  BY DEF ScriptInvariant, WorkerKnown, Share
<1>2. v[2] \in Nat /\ w[2] \in Nat /\ v = <<v[1], v[2]>> /\ w = <<w[1], w[2]>>
  BY LimitsAssumption DEF Workers, Slots
<1>3. v[2] = 0 /\ w[2] = 0
  BY <1>1, <1>2
<1> QED
  BY <1>2, <1>3

WorkersKnown == \A w \in Workers : WorkerKnown(w)

LEMMA WorkersAfterWorker ==
    ASSUME ScriptInvariant, NEW w \in Workers, WorkerStep(w)
    PROVE  WorkersKnown'
<1> SUFFICES ASSUME NEW v \in Workers PROVE WorkerKnown(v)'
  BY DEF WorkersKnown
<1>1. CASE v = w
  BY <1>1, MoverKnown
<1>2. CASE v # w
  <2>1. /\ at[w] \in Working /\ Stays(v)
        /\ UNCHANGED <<target, count>>
        /\ \/ status' = status
           \/ /\ count[w[1]] = 1
              /\ status' = [status EXCEPT ![w[1]] = "completed"]
    BY <1>2, WorkerForm
  <2>2. LivesStay
    BY WorkerStores DEF StoresStep
  <2>3. ASSUME ~ At(v, "idle")
        PROVE  status'[v[1]] = status[v[1]]
    <3>1. w[1] \in Jobs /\ v[1] \in Jobs /\ status \in [Jobs -> Statuses]
      BY DEF Workers, ScriptInvariant, ScriptTypeOK, JobsTyped
    <3>2. ~ At(w, "idle")
      BY <2>1 DEF At, Working
    <3>3. count[w[1]] = 1 => v[1] # w[1]
      BY <1>2, <2>3, <3>2, OnlyWorker
    <3> QED
      BY <2>1, <3>1, <3>3
  <2> QED
    BY <2>1, <2>2, <2>3, WorkerStays
<1> QED
  BY <1>1, <1>2

(* Steps that leave every worker as it is.                                 *)
LEMMA WorkersAfterRequest ==
    ASSUME ScriptInvariant, NEW g \in Generations,
           Generate(g) \/ GenerateFromCache(g)
    PROVE  WorkersKnown'
<1>1. LivesStay
  BY StoresGenerate DEF StoresStep
<1>2. UNCHANGED <<jobs, progress>>
  BY DEF Generate, GenerateFromCache
<1> SUFFICES ASSUME NEW v \in Workers PROVE WorkerKnown(v)'
  BY DEF WorkersKnown
<1>3. Stays(v)
  BY <1>2 DEF Stays, progress
<1> QED
  BY <1>1, <1>2, <1>3, WorkerStays DEF jobs

LEMMA WorkersAfterJob ==
    ASSUME ScriptInvariant, LivesStay, NEW j \in Jobs, NEW s,
           \/ status[j] \in {"none", "queued"}
           \/ status[j] = "running" /\ s = "failed" /\ \E w \in Team(j) : At(w, "raised"),
           \A i \in Jobs \ {j} : target'[i] = target[i],
           s = "failed" => UNCHANGED target,
           EndJob(j, s), UNCHANGED <<count, progress>>
    PROVE  WorkersKnown'
<1> SUFFICES ASSUME NEW v \in Workers PROVE WorkerKnown(v)'
  BY DEF WorkersKnown
<1>1. Stays(v)
  BY DEF Stays, progress
<1>2. v[1] \in Jobs /\ JobKnown(j) /\ JobsTyped
  BY DEF Workers, ScriptInvariant, ScriptTypeOK
<1>3. CASE v[1] # j
  BY <1>1, <1>2, <1>3, WorkerStays DEF EndJob
<1>4. CASE v[1] = j /\ status[j] \in {"none", "queued"}
  <2>1. At(v, "idle")
    BY <1>2, <1>4 DEF JobKnown
  <2> QED
    BY <1>1, <2>1, WorkerStays
<1>5. CASE v[1] = j /\ s = "failed" /\ \E w \in Team(j) : At(w, "raised")
  <2>1. PICK w \in Team(j) : At(w, "raised")
    BY <1>5
  <2>2. w \in Workers /\ w[1] = j
    BY <1>2, <2>1, TeamWorkers
  <2>3. ~ At(w, "idle") /\ at[w] \notin Working
    BY <2>1 DEF At, Working
  <2>4. status'[v[1]] = "failed"
    BY <1>2, <1>5 DEF EndJob, JobsTyped
  <2>5. ~ At(v, "idle") => ~ (at[v] \in Working /\ count[v[1]] = 1)
    BY <1>5, <2>2, <2>3, OnlyWorker
  <2> QED
    BY <1>1, <1>5, <2>4, <2>5, WorkerStays
<1> QED
  BY <1>2, <1>3, <1>4, <1>5
LEMMA WorkersAfterBegin ==
    ASSUME ScriptInvariant, NEW j \in Jobs, Begin(j)
    PROVE  WorkersKnown'
<1> SUFFICES ASSUME NEW v \in Workers PROVE WorkerKnown(v)'
  BY DEF WorkersKnown
<1> DEFINE g == target[j]
           S == DOMAIN Generation(g).life
           n == WorkersFor(S)
<1>1. /\ StoresStep /\ g \in DOMAIN memory' /\ memory'[g] = Generation(g)
      /\ Generation(g) \in Manifests
  BY StoresLoad DEF Begin
<1>2. /\ status[j] = "queued"
      /\ status' = [status EXCEPT ![j] = "running"]
      /\ count' = [count EXCEPT ![j] = n]
      /\ at' = [w \in Workers |-> IF w[1] = j /\ w[2] < n THEN "next" ELSE at[w]]
      /\ todo' = [w \in Workers |-> IF w[1] = j /\ w[2] < n THEN Chunk(S, w[2], n) ELSE todo[w]]
      /\ UNCHANGED <<target, step, results>>
  BY DEF Begin
<1>3. JobKnown(j) /\ WorkerKnown(v) /\ v[1] \in Jobs /\ JobsTyped
  BY DEF ScriptInvariant, ScriptTypeOK, Workers
<1> HIDE DEF n
<1>4. CASE v[1] # j
  <2>1. Stays(v)
    BY <1>2, <1>4 DEF Stays
  <2>2. status'[v[1]] = status[v[1]] /\ count'[v[1]] = count[v[1]] /\ target'[v[1]] = target[v[1]]
    BY <1>2, <1>4
  <2> QED
    BY <1>1, <2>1, <2>2, WorkerStays DEF StoresStep
<1>5. CASE v[1] = j
  <2>1. At(v, "idle") /\ results[v] = Empty /\ todo[v] = {}
    BY <1>2, <1>3, <1>5 DEF JobKnown, WorkerKnown
  <2>2. CASE ~ v[2] < n
    BY <1>2, <2>1, <2>2 DEF WorkerKnown, At
  <2>3. CASE v[2] < n
    <3>1. /\ at'[v] = "next" /\ results'[v] = Empty
          /\ todo'[v] = Chunk(S, v[2], n)
      BY <1>2, <1>5, <2>1, <2>3
    <3>2. count'[j] = n /\ status'[j] = "running" /\ target'[j] = g
      BY <1>2, <1>3 DEF JobsTyped
    <3>3. Own(v)' = g /\ ChunkOf(v)' = Chunk(S, v[2], n)
      BY <1>1, <1>5, <3>2 DEF Own, ChunkOf
    <3>4. Share(v)'
      BY <1>1, <1>5, <2>3, <3>1, <3>2, <3>3, EmptyResults DEF Share, At
    <3>5. BlockedKnown(v)'
      BY <3>1, EmptyResults DEF BlockedKnown
    <3>6. CurrentScript(v)'
      BY <3>1 DEF CurrentScript, InScript
    <3> QED
      BY <3>1, <3>4, <3>5, <3>6 DEF WorkerKnown, At
  <2> QED
    BY <2>2, <2>3
<1> QED
  BY <1>4, <1>5

(* When the reports are merged every worker of the job is done.            *)
LEMMA WorkersAfterMerge ==
    ASSUME ScriptInvariant, NEW j \in Jobs, MergeReports(j)
    PROVE  WorkersKnown'
<1> SUFFICES ASSUME NEW v \in Workers PROVE WorkerKnown(v)'
  BY DEF WorkersKnown
<1>1. /\ status' = [status EXCEPT ![j] = "completed"]
      /\ results' = [w \in Workers |-> IF w[1] = j THEN Empty ELSE results[w]]
      /\ \A w \in Team(j) : At(w, "done")
      /\ UNCHANGED <<stores, target, count, at, todo, step>>
  BY DEF MergeReports, EndJob
<1>2. WorkerKnown(v) /\ v[1] \in Jobs /\ JobsTyped
  BY DEF ScriptInvariant, ScriptTypeOK, Workers
<1>3. LivesStay
  BY <1>1 DEF LivesStay, stores
<1>4. CASE v[1] # j
  <2>1. Stays(v) /\ status'[v[1]] = status[v[1]]
    BY <1>1, <1>2, <1>4 DEF Stays
  <2> QED
    BY <1>1, <1>3, <2>1, WorkerStays
<1>5. CASE v[1] = j
  <2>1. results'[v] = Empty
    BY <1>1, <1>5
  <2>2. CASE At(v, "idle")
    BY <1>1, <1>2, <2>1, <2>2 DEF WorkerKnown, At
  <2>3. CASE ~ At(v, "idle")
    <3>1. Share(v)
      BY <1>2, <2>3 DEF WorkerKnown
    <3>2. at[v] = "done"
      BY <1>1, <1>2, <1>5, <3>1, TeamWorkers DEF Share, At
    <3>3. status'[v[1]] = "completed"
      BY <1>1, <1>2, <1>5 DEF JobsTyped
    <3>4. Share(v)'
      BY <1>1, <3>1, <3>2, <3>3 DEF Share, Own, At, Working, stores
    <3>5. BlockedKnown(v)'
      BY <2>1, EmptyResults DEF BlockedKnown
    <3>6. CurrentScript(v)'
      BY <1>1, <3>2 DEF CurrentScript, InScript
    <3> QED
      BY <1>1, <3>2, <3>4, <3>5, <3>6 DEF WorkerKnown, At
  <2> QED
    BY <2>2, <2>3
<1> QED
  BY <1>4, <1>5

LEMMA WorkersAfterRestart ==
    ASSUME ServiceRestart
    PROVE  WorkersKnown'
  BY DEF ServiceRestart, WorkersKnown, WorkerKnown, At
-----------------------------------------------------------------------------
(* Jobs: a job that has its generation keeps it.                           *)
JobsKnown == \A j \in Jobs : JobKnown(j)

LEMMA JobStays ==
    ASSUME ScriptInvariant, FilesGrow, NEW j \in Jobs, target'[j] = target[j],
           \/ status'[j] = status[j]
           \/ status[j] # "none" /\ status'[j] \in {"running", "completed", "failed"},
           \A w \in Workers :
              w[1] = j /\ status'[j] \in {"none", "queued", "lost"} => at'[w] = at[w]
    PROVE  JobKnown(j)'
  BY DEF ScriptInvariant, JobKnown, FilesGrow, At

LEMMA JobsAfterWorker ==
    ASSUME ScriptInvariant, NEW w \in Workers, WorkerStep(w)
    PROVE  JobsKnown'
<1> SUFFICES ASSUME NEW j \in Jobs PROVE JobKnown(j)'
  BY DEF JobsKnown
<1>1. /\ at[w] \in Working
      /\ \A v \in Workers \ {w} : Stays(v)
      /\ UNCHANGED <<target, count>>
      /\ \/ status' = status
         \/ status[w[1]] = "running" /\ status' = [status EXCEPT ![w[1]] = "completed"]
  BY WorkerForm
<1>2. w[1] \in Jobs /\ status[w[1]] \in {"running", "completed", "failed"}
  BY <1>1, JobOfWorker DEF At, Working
<1>3. FilesGrow
  BY WorkerStores DEF StoresStep
<1>4. JobsTyped
  BY DEF ScriptInvariant, ScriptTypeOK
<1>5. \/ status'[j] = status[j]
      \/ status[j] # "none" /\ status'[j] = "completed"
  BY <1>1, <1>4 DEF JobsTyped
<1>6. ASSUME NEW v \in Workers, v[1] = j, status'[j] \in {"none", "queued", "lost"}
      PROVE  at'[v] = at[v]
  <2>1. v # w
    BY <1>2, <1>5, <1>6
  <2> QED
    BY <1>1, <2>1 DEF Stays
<1> QED
  BY <1>1, <1>3, <1>5, <1>6, JobStays

LEMMA JobsAfterGenerate ==
    ASSUME ScriptInvariant, NEW g \in Generations, Generate(g) \/ GenerateFromCache(g)
    PROVE  JobsKnown'
<1>1. FilesGrow
  BY StoresGenerate DEF StoresStep
<1>2. UNCHANGED <<jobs, progress>>
  BY DEF Generate, GenerateFromCache
<1> QED
  BY <1>1, <1>2, JobStays DEF JobsKnown, jobs, progress

LEMMA JobsAfterStart ==
    ASSUME ScriptInvariant, NEW j \in Jobs, NEW g \in Generations, StartJob(j, g)
    PROVE  JobsKnown'
<1> SUFFICES ASSUME NEW i \in Jobs PROVE JobKnown(i)'
  BY DEF JobsKnown
<1>1. /\ status[j] = "none" /\ g \in DOMAIN disk
      /\ status' = [status EXCEPT ![j] = "queued"]
      /\ target' = [target EXCEPT ![j] = g]
      /\ UNCHANGED <<disk, at>>
  BY DEF StartJob, stores, progress
<1>2. JobsTyped /\ JobKnown(i)
  BY DEF ScriptInvariant, ScriptTypeOK
<1>3. CASE i = j
  <2>1. status'[i] = "queued" /\ target'[i] = g
    BY <1>1, <1>2, <1>3 DEF JobsTyped
  <2> QED
    BY <1>1, <1>2, <1>3, <2>1 DEF JobKnown, At
<1>4. CASE i # j
  <2>1. status'[i] = status[i] /\ target'[i] = target[i]
    BY <1>1, <1>2, <1>4 DEF JobsTyped
  <2> QED
    BY <1>1, <1>2, <2>1 DEF JobKnown, At
<1> QED
  BY <1>3, <1>4

LEMMA JobsAfterJob ==
    ASSUME ScriptInvariant, NEW j \in Jobs, JobStep(j)
    PROVE  JobsKnown'
<1> SUFFICES ASSUME NEW i \in Jobs PROVE JobKnown(i)'
  BY DEF JobsKnown
<1>1. PICK s \in {"running", "completed", "failed"} :
        /\ status[j] \in {"queued", "running"}
        /\ status' = [status EXCEPT ![j] = s]
        /\ UNCHANGED target
  BY DEF JobStep, Begin, ExecuteManually, MergeReports, JobFails, EndJob
<1>2. \A w \in Workers : w[1] # j => at'[w] = at[w]
  BY DEF JobStep, Begin, ExecuteManually, MergeReports, JobFails, progress
<1>3. FilesGrow /\ JobsTyped
  BY JobStores DEF StoresStep, ScriptInvariant, ScriptTypeOK
<1>4. CASE i = j
  <2>1. status'[i] = s
    BY <1>1, <1>3, <1>4 DEF JobsTyped
  <2> QED
    BY <1>1, <1>3, <1>4, <2>1, JobStays
<1>5. CASE i # j
  <2>1. status'[i] = status[i]
    BY <1>1, <1>3, <1>5 DEF JobsTyped
  <2> QED
    BY <1>1, <1>2, <1>3, <1>5, <2>1, JobStays
<1> QED
  BY <1>4, <1>5

LEMMA JobsAfterRestart ==
    ASSUME ScriptInvariant, ServiceRestart
    PROVE  JobsKnown'
  BY DEF ScriptInvariant, JobKnown, JobsKnown, ServiceRestart, At
-----------------------------------------------------------------------------
(* Reports: what is known of a saved report stays known while jobs that    *)
(* ended stay so and workers that are done too.                            *)
ReportsKnown == \A q \in reports : ReportKnown(q)
DoneStays ==
    /\ \A i \in Jobs : status[i] \in {"completed", "lost"} => status'[i] = status[i]
    /\ \A w \in Workers : at[w] = "done" => at'[w] = "done"

LEMMA ReportStays ==
    ASSUME ScriptInvariant, DoneStays, NEW q \in reports
    PROVE  ReportKnown(q)'
<1>1. ReportKnown(q) /\ q.job \in Jobs
  BY DEF ScriptInvariant, ScriptTypeOK, ReportsTyped
<1> QED
  BY <1>1 DEF ReportKnown, DoneStays, At

(* A report that is saved, and whom its failures are compared with.        *)
LEMMA SavedOne ==
    ASSUME NEW j, NEW id, NEW res, SaveReport(j, id, res)
    PROVE  \E r : /\ reports' = reports \cup {r}
                  /\ r.job = j /\ r.id = id /\ r.results = res
                  /\ r.reproduced \cup r.verified \subseteq PriorFailures(id)
<1> DEFINE rep == ScriptsWith(res, "failed") \cap PriorFailures(id)
           ver == ScriptsWith(res, "passed") \cap PriorFailures(id)
           r == [job |-> j, id |-> id, results |-> res, reproduced |-> rep, verified |-> ver]
<1>1. reports' = reports \cup {r}
  BY DEF SaveReport
<1>2. rep \cup ver \subseteq PriorFailures(id)
  OBVIOUS
<1> HIDE DEF rep, ver
<1>3. r.job = j /\ r.id = id /\ r.results = res /\ r.reproduced = rep /\ r.verified = ver
  OBVIOUS
<1> HIDE DEF r
<1> QED
  BY <1>1, <1>2, <1>3

LEMMA SavedKnown ==
    ASSUME ScriptInvariant, DoneStays, NEW j \in Jobs, NEW id \in Generations \cup Workers,
           NEW res, SaveReport(j, id, res),
           id \in Generations => status'[j] = "completed",
           id \in Workers => id[1] = j /\ at'[id] = "done"
    PROVE  ReportsKnown'
<1>1. PICK r : reports' = reports \cup {r} /\ r.job = j /\ r.id = id
  BY SavedOne
<1>2. ReportKnown(r)'
  BY <1>1 DEF ReportKnown, At
<1> QED
  BY <1>1, <1>2, ReportStays DEF ReportsKnown

LEMMA DoneAfterWorker ==
    ASSUME ScriptInvariant, NEW w \in Workers, WorkerStep(w)
    PROVE  DoneStays
<1>1. /\ at[w] \in Working
      /\ \A v \in Workers \ {w} : Stays(v)
      /\ \/ status' = status
         \/ status[w[1]] = "running" /\ status' = [status EXCEPT ![w[1]] = "completed"]
  BY WorkerForm
<1>2. JobsTyped
  BY DEF ScriptInvariant, ScriptTypeOK
<1>3. \A i \in Jobs : status[i] \in {"completed", "lost"} => status'[i] = status[i]
  BY <1>1, <1>2 DEF JobsTyped
<1>4. \A v \in Workers : at[v] = "done" => at'[v] = "done"
  BY <1>1 DEF Stays, Working
<1> QED
  BY <1>3, <1>4 DEF DoneStays

LEMMA DoneAfterJob ==
    ASSUME ScriptInvariant, NEW j \in Jobs, JobStep(j)
    PROVE  DoneStays
<1>0. JobsTyped /\ ProgressTyped /\ JobKnown(j)
  BY DEF ScriptInvariant, ScriptTypeOK
<1>1. \A i \in Jobs : status[i] \in {"completed", "lost"} => status'[i] = status[i]
  BY <1>0 DEF JobStep, Begin, ExecuteManually, MergeReports, JobFails, EndJob, JobsTyped
<1>2. CASE Begin(j)
  <2>1. \A v \in Workers : v[1] = j => at[v] = "idle"
    BY <1>0, <1>2 DEF Begin, JobKnown, At
  <2>2. \A v \in Workers : v[1] # j => at'[v] = at[v]
    BY <1>2 DEF Begin
  <2> QED
    BY <1>1, <2>1, <2>2 DEF DoneStays
<1>3. CASE ExecuteManually(j) \/ MergeReports(j) \/ JobFails(j)
  <2>1. at' = at
    BY <1>3 DEF ExecuteManually, MergeReports, JobFails, progress
  <2> QED
    BY <1>1, <2>1 DEF DoneStays
<1> QED
  BY <1>2, <1>3 DEF JobStep

LEMMA DoneAfterRequest ==
    ASSUME ScriptInvariant, Requests
    PROVE  DoneStays
<1>1. UNCHANGED progress
  BY DEF Requests, Generate, GenerateFromCache, StartJob
<1>2. JobsTyped
  BY DEF ScriptInvariant, ScriptTypeOK
<1>3. \A i \in Jobs : status[i] \in {"completed", "lost"} => status'[i] = status[i]
  BY <1>2 DEF Requests, Generate, GenerateFromCache, StartJob, JobsTyped, jobs
<1> QED
  BY <1>1, <1>3 DEF DoneStays, progress

LEMMA SameReports ==
    ASSUME ScriptInvariant, DoneStays, UNCHANGED reports
    PROVE  ReportsKnown'
  BY ReportStays DEF ReportsKnown

LEMMA ReportsAfterWorker ==
    ASSUME ScriptInvariant, NEW w \in Workers, WorkerStep(w)
    PROVE  ReportsKnown'
<1>0. DoneStays
  BY DoneAfterWorker
<1>1. /\ at[w] \in Working
      /\ w[1] \in Jobs /\ Own(w) \in Generations
      /\ JobsTyped /\ ProgressTyped
  BY WorkerForm, OwnKnown DEF At, Working, ScriptInvariant, ScriptTypeOK
<1>2. CASE SaveWorkerReport(w)
  <2>1. SaveReport(w[1], w, results[w]) /\ at'[w] = "done"
    BY <1>1, <1>2 DEF SaveWorkerReport, WorkerId, Goto, ProgressTyped
  <2>2. w \notin Generations
    BY IdsAssumption
  <2> QED
    BY <1>0, <1>1, <2>1, <2>2, SavedKnown
<1>3. CASE SaveOnlyReport(w)
  <2>1. SaveReport(w[1], Own(w), results[w]) /\ status'[w[1]] = "completed"
    BY <1>1, <1>3 DEF SaveOnlyReport, EndJob, JobsTyped
  <2>2. Own(w) \notin Workers
    BY <1>1, IdsAssumption
  <2> QED
    BY <1>0, <1>1, <2>1, <2>2, SavedKnown
<1>4. CASE WorkerRaises(w) \/ \E s \in Scripts : ScriptStep(w, s)
  <2>1. UNCHANGED reports
    BY <1>4 DEF WorkerRaises, ScriptStep, SkipBlocked, OpenPage, ScriptFails, ScriptPasses,
      StepPerformed, HintFound, AskSeacrawl, SeacrawlHelps, LearnedSaved
  <2> QED
    BY <1>0, <2>1, SameReports
<1> QED
  BY <1>2, <1>3, <1>4 DEF WorkerStep

LEMMA TargetKnown ==
    ASSUME ScriptInvariant, NEW j \in Jobs, status[j] # "none"
    PROVE  target[j] \in Generations /\ target[j] \in DOMAIN disk /\ target[j] \notin Workers
<1>1. target[j] \in DOMAIN disk
  BY DEF ScriptInvariant, JobKnown
<1>2. target[j] \in Generations
  BY <1>1 DEF ScriptInvariant, ScriptTypeOK, StoresTyped
<1> QED
  BY <1>1, <1>2, IdsAssumption

LEMMA ReportsAfterJob ==
    ASSUME ScriptInvariant, NEW j \in Jobs, JobStep(j)
    PROVE  ReportsKnown'
<1>0. DoneStays /\ JobsTyped
  BY DoneAfterJob DEF ScriptInvariant, ScriptTypeOK
<1>1. CASE ExecuteManually(j) \/ MergeReports(j)
  <2>1. /\ status[j] # "none"
        /\ status'[j] = "completed"
        /\ \E res : SaveReport(j, target[j], res)
    BY <1>0, <1>1 DEF ExecuteManually, MergeReports, EndJob, JobsTyped
  <2>2. target[j] \in Generations /\ target[j] \notin Workers
    BY <2>1, TargetKnown
  <2> QED
    BY <1>0, <2>1, <2>2, SavedKnown
<1>2. CASE Begin(j) \/ JobFails(j)
  <2>1. UNCHANGED reports
    BY <1>2 DEF Begin, JobFails
  <2> QED
    BY <1>0, <2>1, SameReports
<1> QED
  BY <1>1, <1>2 DEF JobStep

LEMMA ReportsAfterRestart ==
    ASSUME ScriptInvariant, ServiceRestart
    PROVE  ReportsKnown'
<1> SUFFICES ASSUME NEW q \in reports PROVE ReportKnown(q)'
  BY DEF ReportsKnown, ServiceRestart
<1>1. ReportKnown(q) /\ q.job \in Jobs
  BY DEF ScriptInvariant, ScriptTypeOK, ReportsTyped
<1>2. status'[q.job] = IF status[q.job] = "none" THEN "none" ELSE "lost"
  BY <1>1 DEF ServiceRestart
<1>3. ASSUME q.id \in Workers
      PROVE  q.id[1] = q.job /\ status[q.job] # "none"
  <2>1. /\ q.id[1] = q.job
        /\ At(q.id, "done") \/ status[q.job] = "lost"
    BY <1>1, <1>3 DEF ReportKnown
  <2>2. At(q.id, "done") => status[q.job] # "none"
    BY <1>3, <2>1, JobOfWorker DEF At
  <2> QED
    BY <2>1, <2>2
<1> QED
  BY <1>1, <1>2, <1>3 DEF ReportKnown
-----------------------------------------------------------------------------
(* The invariant holds at the start and after every step.                  *)
LEMMA ScriptInvariantParts ==
    ASSUME StoresTyped, MemoryAhead, RestTyped, WorkersKnown, JobsKnown, ReportsKnown
    PROVE  ScriptInvariant
  BY DEF ScriptInvariant, ScriptTypeOK, RestTyped, WorkersKnown, JobsKnown, ReportsKnown

LEMMA ScriptInvariantAfter ==
    ASSUME StoresTyped', MemoryAhead', RestTyped', WorkersKnown', JobsKnown', ReportsKnown'
    PROVE  ScriptInvariant'
  BY DEF ScriptInvariant, ScriptTypeOK, RestTyped, WorkersKnown, JobsKnown, ReportsKnown

LEMMA ScriptInvariantStarts == ScriptInit => ScriptInvariant
<1> SUFFICES ASSUME ScriptInit PROVE ScriptInvariant
  OBVIOUS
<1>1. DOMAIN memory = {} /\ DOMAIN disk = {} /\ reports = {}
  BY EmptyResults DEF ScriptInit
<1>2. StoresTyped /\ MemoryAhead
  BY <1>1, ScriptsAssumption DEF ScriptInit, StoresTyped, MemoryAhead
<1>3. NoCalls \in [test : 0..CallsPerTest, run : 0..CallsPerRun]
  BY LimitsAssumption DEF NoCalls
<1>4. JobsTyped
  BY LimitsAssumption DEF ScriptInit, JobsTyped, Statuses
<1>5. ProgressTyped
  BY <1>3, EmptyResults DEF ScriptInit, ProgressTyped, Places
<1>6. RestTyped
  BY <1>1, <1>4, <1>5, LimitsAssumption DEF ScriptInit, RestTyped, ReportsTyped
<1>7. WorkersKnown /\ JobsKnown /\ ReportsKnown
  BY <1>1 DEF ScriptInit, WorkersKnown, WorkerKnown, JobsKnown, JobKnown, ReportsKnown, At
<1> QED
  BY <1>2, <1>6, <1>7, ScriptInvariantParts

LEMMA RestOf ==
    ASSUME ScriptInvariant
    PROVE  RestTyped
  BY DEF ScriptInvariant, ScriptTypeOK, RestTyped

LEMMA ScriptInvariantGenerate ==
    ASSUME ScriptInvariant, NEW g \in Generations, Generate(g) \/ GenerateFromCache(g)
    PROVE  ScriptInvariant'
<1>1. StoresTyped' /\ MemoryAhead'
  BY StoresGenerate DEF StoresStep
<1>2. DoneStays
  BY DoneAfterRequest DEF Requests
<1>3. UNCHANGED reports
  BY DEF Generate, GenerateFromCache
<1> QED
  BY <1>1, <1>2, <1>3, RestOf, RestGenerate, WorkersAfterRequest, JobsAfterGenerate,
    SameReports, ScriptInvariantAfter

LEMMA ScriptInvariantStart ==
    ASSUME ScriptInvariant, NEW j \in Jobs, NEW g \in Generations, StartJob(j, g)
    PROVE  ScriptInvariant'
<1>1. /\ UNCHANGED <<stores, progress, reports, count>>
      /\ status[j] = "none" /\ EndJob(j, "queued")
      /\ target' = [target EXCEPT ![j] = g]
  BY DEF StartJob, EndJob
<1>2. StoresStep
  BY <1>1, StoresSame
<1>3. DoneStays
  BY DoneAfterRequest DEF Requests
<1>4. \A i \in Jobs \ {j} : target'[i] = target[i]
  BY <1>1 DEF ScriptInvariant, ScriptTypeOK, JobsTyped
<1>5. WorkersKnown'
  BY <1>1, <1>2, <1>4, WorkersAfterJob DEF StoresStep
<1> QED
  BY <1>1, <1>2, <1>3, <1>5, RestOf, RestStart, JobsAfterStart, SameReports, ScriptInvariantAfter
    DEF StoresStep

LEMMA ScriptInvariantJob ==
    ASSUME ScriptInvariant, NEW j \in Jobs, JobStep(j)
    PROVE  ScriptInvariant'
<1>1. StoresStep
  BY JobStores
<1>2. JobsKnown' /\ ReportsKnown'
  BY JobsAfterJob, ReportsAfterJob
<1>3. RestTyped' /\ WorkersKnown'
  <2>1. CASE Begin(j)
    BY <2>1, RestBegin, WorkersAfterBegin
  <2>2. CASE ExecuteManually(j)
    <3>1. /\ status[j] = "queued" /\ EndJob(j, "completed")
          /\ UNCHANGED <<target, count, progress>>
      BY <2>2 DEF ExecuteManually
    <3>2. WorkersKnown'
      BY <1>1, <3>1, WorkersAfterJob DEF StoresStep
    <3> QED
      BY <2>2, <3>2, RestManual
  <2>3. CASE MergeReports(j)
    BY <2>3, RestMerge, WorkersAfterMerge
  <2>4. CASE JobFails(j)
    <3>1. /\ status[j] = "running" /\ EndJob(j, "failed")
          /\ \E w \in Team(j) : At(w, "raised")
          /\ UNCHANGED <<target, count, progress>>
      BY <2>4 DEF JobFails
    <3>2. WorkersKnown'
      BY <1>1, <3>1, WorkersAfterJob DEF StoresStep
    <3> QED
      BY <2>4, <3>2, RestOf, RestFails
  <2> QED
    BY <2>1, <2>2, <2>3, <2>4 DEF JobStep
<1> QED
  BY <1>1, <1>2, <1>3, ScriptInvariantAfter DEF StoresStep

LEMMA ScriptInvariantKept == ScriptInvariant /\ [ScriptNext]_scriptVars => ScriptInvariant'
<1> SUFFICES ASSUME ScriptInvariant, [ScriptNext]_scriptVars PROVE ScriptInvariant'
  OBVIOUS
<1>1. ASSUME NEW j \in Jobs, JobStep(j)
      PROVE  ScriptInvariant'
  BY <1>1, ScriptInvariantJob
<1>2. ASSUME NEW w \in Workers, WorkerStep(w)
      PROVE  ScriptInvariant'
  <2>1. StoresStep
    BY <1>2, WorkerStores
  <2> QED
    BY <1>2, <2>1, RestOf, RestWorker, WorkersAfterWorker, JobsAfterWorker,
      ReportsAfterWorker, ScriptInvariantAfter DEF StoresStep
<1>3. CASE Requests
  BY <1>3, ScriptInvariantGenerate, ScriptInvariantStart DEF Requests
<1>4. CASE ServiceRestart
  <2>1. StoresTyped' /\ MemoryAhead'
    BY <1>4, StoresRestart
  <2> QED
    BY <1>4, <2>1, RestOf, RestRestart, WorkersAfterRestart, JobsAfterRestart,
      ReportsAfterRestart, ScriptInvariantAfter
<1>5. CASE UNCHANGED scriptVars
  <2>1. UNCHANGED <<stores, jobs, progress, reports, faults>>
    BY <1>5 DEF scriptVars
  <2>2. StoresStep /\ RestTyped'
    BY <2>1, StoresSame, RestOf DEF RestTyped, JobsTyped, ProgressTyped, ReportsTyped,
      jobs, progress
  <2>3. DoneStays
    BY <2>1 DEF DoneStays, jobs, progress
  <2>4. WorkersKnown'
    BY <2>1, <2>2, WorkerStays DEF WorkersKnown, Stays, StoresStep, jobs, progress
  <2>5. JobsKnown'
    BY <2>1, <2>2, JobStays DEF JobsKnown, StoresStep, jobs, progress
  <2> QED
    BY <2>1, <2>2, <2>3, <2>4, <2>5, SameReports, ScriptInvariantAfter DEF StoresStep
<1> QED
  BY <1>1, <1>2, <1>3, <1>4, <1>5 DEF ScriptNext, ServiceStep

LEMMA ScriptInvariantly == ScriptSpec => []ScriptInvariant
<1> QED
  BY ScriptInvariantStarts, ScriptInvariantKept, PTL DEF ScriptSpec

(* In every reachable state the manifests, the jobs, the positions of the  *)
(* workers and the reports have their types, for any number of generations,*)
(* scripts, jobs and workers.                                              *)
THEOREM ScriptTypes == ScriptSpec => []ScriptTypeOK
<1>1. ScriptInvariant => ScriptTypeOK
  BY DEF ScriptInvariant
<1> QED
  BY <1>1, ScriptInvariantly, PTL
-----------------------------------------------------------------------------
(* A learned locator in the file of a generation stays there.              *)
(* (_save_learned_locator, generation)                                     *)
THEOREM LearnedNeverLost == ScriptSpec => LearnedKept
<1>1. ScriptInvariant /\ [ScriptNext]_scriptVars =>
        [\A g \in DOMAIN disk :
            g \in DOMAIN disk' /\ disk[g].learned \subseteq disk'[g].learned]_scriptVars
  <2> SUFFICES ASSUME ScriptInvariant, ScriptNext PROVE FilesGrow
    BY DEF FilesGrow
  <2>1. CASE Requests
    <3>1. ASSUME NEW g \in Generations, Generate(g) \/ GenerateFromCache(g)
          PROVE  FilesGrow
      BY <3>1, StoresGenerate DEF StoresStep
    <3>2. ASSUME NEW j \in Jobs, NEW g \in Generations, StartJob(j, g)
          PROVE  FilesGrow
      <4>1. UNCHANGED stores
        BY <3>2 DEF StartJob
      <4> QED
        BY <4>1, StoresSame DEF StoresStep
    <3> QED
      BY <2>1, <3>1, <3>2 DEF Requests
  <2>2. CASE ServiceRestart
    BY <2>2, StoresRestart
  <2>3. CASE ServiceStep
    BY <2>3, JobStores, WorkerStores DEF ServiceStep, StoresStep
  <2> QED
    BY <2>1, <2>2, <2>3 DEF ScriptNext
<1> QED
  BY <1>1, ScriptInvariantly, PTL DEF ScriptSpec, LearnedKept
-----------------------------------------------------------------------------
(* What is saved under the id of a generation or of a worker, and what was *)
(* saved under it before.                                                  *)
LEMMA NoEarlierReport ==
    ASSUME ScriptInvariant, NEW j \in Jobs, status[j] \in {"queued", "running"}, NEW q \in reports,
           q.id = target[j]
    PROVE  q.job # j
<1>1. target[j] \in Generations
  BY TargetKnown
<1> QED
  BY <1>1 DEF ScriptInvariant, ReportKnown

LEMMA NoWorkerReport ==
    ASSUME ScriptInvariant, NEW w \in Workers, at[w] \in Working, NEW q \in reports
    PROVE  q.id # w
<1> SUFFICES ASSUME q.id = w PROVE FALSE
  OBVIOUS
<1>1. /\ q.id[1] = q.job
      /\ At(q.id, "done") \/ status[q.job] = "lost"
  BY DEF ScriptInvariant, ReportKnown
<1>2. status[w[1]] # "lost" /\ ~ At(w, "done")
  BY JobOfWorker DEF At, Working
<1> QED
  BY <1>1, <1>2

(* Where reports are saved.                                                *)
LEMMA WhoSaves ==
    ASSUME ScriptInvariant, ScriptNext, NEW r \in reports' \ reports
    PROVE  \/ \E j \in Jobs : /\ status[j] \in {"queued", "running"}
                              /\ \E res : SaveReport(j, target[j], res)
           \/ \E w \in Workers : at[w] \in Working /\ SaveReport(w[1], w, results[w])
<1>1. CASE Requests \/ ServiceRestart
  BY <1>1 DEF Requests, Generate, GenerateFromCache, StartJob, ServiceRestart
<1>2. ASSUME NEW j \in Jobs, JobStep(j)
      PROVE  status[j] \in {"queued", "running"} /\ \E res : SaveReport(j, target[j], res)
  BY <1>2 DEF JobStep, Begin, ExecuteManually, MergeReports, JobFails
<1>3. ASSUME NEW w \in Workers, WorkerStep(w)
      PROVE  \/ /\ w[1] \in Jobs /\ status[w[1]] = "running"
                /\ SaveReport(w[1], target[w[1]], results[w])
             \/ at[w] \in Working /\ SaveReport(w[1], w, results[w])
  <2>1. CASE SaveOnlyReport(w)
    BY <1>3, <2>1, WorkerForm, JobOfWorker DEF SaveOnlyReport, Own, At, WorkerId, Share,
      ScriptInvariant, WorkerKnown, Working, Workers
  <2>2. CASE SaveWorkerReport(w)
    BY <2>2 DEF SaveWorkerReport, At, Working, WorkerId
  <2>3. CASE WorkerRaises(w) \/ \E s \in Scripts : ScriptStep(w, s)
    BY <2>3 DEF WorkerRaises, ScriptStep, SkipBlocked, OpenPage, ScriptFails, ScriptPasses,
      StepPerformed, HintFound, AskSeacrawl, SeacrawlHelps, LearnedSaved
  <2> QED
    BY <1>3, <2>1, <2>2, <2>3 DEF WorkerStep
<1> QED
  BY <1>1, <1>2, <1>3 DEF ScriptNext, ServiceStep

(* A failure counts as reproduced, and a pass as a verified fix, only when *)
(* an execution of another job saw the script fail under the same id.      *)
(* (_has_prior_failure, _save_report)                                      *)
THEOREM OnlyEarlierFailures == ScriptSpec => TicketsReproduced
<1>1. ScriptInvariant /\ [ScriptNext]_scriptVars =>
        [\A r \in reports' \ reports :
            \A s \in r.reproduced \cup r.verified : EarlierFailure(r, s)]_scriptVars
  <2> SUFFICES ASSUME ScriptInvariant, ScriptNext, NEW r \in reports' \ reports,
                      NEW s \in r.reproduced \cup r.verified
               PROVE  EarlierFailure(r, s)
    OBVIOUS
  <2>1. PICK j, id, res :
          /\ SaveReport(j, id, res)
          /\ \A q \in reports : q.id = id => q.job # j
    BY WhoSaves, NoEarlierReport, NoWorkerReport
  <2>2. r.job = j /\ r.id = id /\ r.reproduced \cup r.verified \subseteq PriorFailures(id)
    BY <2>1, SavedOne
  <2>3. PICK q \in reports : q.id = id /\ s \in ScriptsWith(q.results, "failed")
    BY <2>2 DEF PriorFailures
  <2> QED
    BY <2>1, <2>2, <2>3 DEF EarlierFailure
<1> QED
  BY <1>1, ScriptInvariantly, PTL DEF ScriptSpec, TicketsReproduced
-----------------------------------------------------------------------------
(* The report a job ends with is a new one.                                *)
LEMMA SavedNew ==
    ASSUME ScriptInvariant, NEW j \in Jobs, status[j] \in {"queued", "running"}, NEW res,
           SaveReport(j, target[j], res)
    PROVE  \E r \in reports' \ reports : r.job = j /\ r.id = target[j] /\ r.results = res
<1>1. PICK r : reports' = reports \cup {r} /\ r.job = j /\ r.id = target[j] /\ r.results = res
  BY SavedOne
<1>2. r \notin reports
  BY <1>1, NoEarlierReport
<1> QED
  BY <1>1, <1>2

(* Results for all scripts of a generation, "blocked" for the blocked only.*)
Covers(res, life) ==
    /\ DOMAIN res = DOMAIN life
    /\ \A s \in DOMAIN life :
          /\ life[s] = "Blocked" => res[s] \in {"blocked", "skipped"}
          /\ res[s] = "blocked" => life[s] = "Blocked"

LEMMA OnlyResults ==
    ASSUME ScriptInvariant, NEW w \in Workers, SaveOnlyReport(w)
    PROVE  Covers(results[w], Generation(target[w[1]]).life)
<1>1. at[w] = "next" /\ todo[w] = {} /\ count[w[1]] = 1
  BY DEF SaveOnlyReport, At
<1>2. Share(w) /\ BlockedKnown(w)
  BY <1>1 DEF ScriptInvariant, WorkerKnown, At
<1>3. w[2] = 0
  <2>1. w[2] \in Nat
    BY LimitsAssumption DEF Workers, Slots
  <2> QED
    BY <1>1, <1>2, <2>1 DEF Share
<1>4. Own(w) \in DOMAIN memory /\ memory[Own(w)] \in Manifests
  BY <1>1, OwnKnown DEF At
<1>5. DOMAIN Life(w) \subseteq Scripts /\ Generation(target[w[1]]).life = Life(w)
  BY <1>4, ManifestParts DEF Life, Generation, Own
<1>6. ChunkOf(w) = DOMAIN Life(w)
  BY <1>1, <1>3, <1>5, OnlyChunk DEF ChunkOf, Life
<1>7. DOMAIN results[w] = DOMAIN Life(w)
  BY <1>1, <1>2, <1>6 DEF Share, Working
<1> QED
  BY <1>2, <1>5, <1>7 DEF Covers, BlockedKnown

LEMMA AllResults ==
    ASSUME ScriptInvariant, NEW j \in Jobs, MergeReports(j)
    PROVE  Covers(MergedResults(j), Generation(target[j]).life)
<1> DEFINE life == Generation(target[j]).life
           S == DOMAIN life
<1>1. status[j] = "running" /\ count[j] > 1 /\ \A w \in Team(j) : at[w] = "done"
  BY DEF MergeReports, At
<1>2. JobsTyped /\ ProgressTyped
  BY DEF ScriptInvariant, ScriptTypeOK
<1>3. count[j] \in Nat \ {0}
  BY <1>1, <1>2, LimitsAssumption DEF JobsTyped
<1>4. ASSUME NEW w \in Team(j)
      PROVE  /\ target[j] \in DOMAIN memory /\ Life(w) = life
             /\ DOMAIN results[w] = Chunk(S, w[2], count[j])
             /\ \A s \in DOMAIN results[w] : results[w][s] = "blocked" <=> life[s] = "Blocked"
  <2>1. w \in Workers /\ w[1] = j /\ at[w] = "done"
    BY <1>1, <1>2, TeamWorkers
  <2>2. Share(w) /\ BlockedKnown(w)
    BY <2>1 DEF ScriptInvariant, WorkerKnown, At
  <2>3. target[j] \in DOMAIN memory /\ Life(w) = life
    BY <2>1, <2>2 DEF Share, Own, Life, Generation
  <2>4. DOMAIN results[w] = ChunkOf(w)
    BY <1>1, <2>1, <2>2 DEF Share, At
  <2> QED
    BY <2>1, <2>2, <2>3, <2>4 DEF BlockedKnown, ChunkOf, Life, Own
<1>5. S \in SUBSET Scripts
  <2>1. status[j] # "none"
    BY <1>1
  <2>2. Generation(target[j]) \in Manifests
    BY <2>1, TargetKnown, GenerationTyped DEF ScriptInvariant
  <2> QED
    BY <2>2, ManifestParts
<1>6. /\ DOMAIN MergedResults(j) = UNION {DOMAIN results[w] : w \in Team(j)}
      /\ \A s \in DOMAIN MergedResults(j) : \E w \in Team(j) :
            s \in DOMAIN results[w] /\ MergedResults(j)[s] = results[w][s]
  BY <1>2, Merged
<1> HIDE DEF life
<1>7. ASSUME NEW s \in S
      PROVE  \E w \in Team(j) : s \in DOMAIN results[w]
  <2>1. PICK k \in 0..(count[j] - 1) : s \in Chunk(S, k, count[j])
    BY <1>3, <1>5, ChunksCover
  <2>2. <<j, k>> \in Team(j) /\ <<j, k>>[2] = k
    BY <2>1 DEF Team
  <2> QED
    BY <1>4, <2>1, <2>2
<1>8. \A w \in Team(j) : DOMAIN results[w] \subseteq S
  BY <1>4, ChunkWithin
<1>9. DOMAIN MergedResults(j) = S
  BY <1>6, <1>7, <1>8
<1>10. \A s \in S : MergedResults(j)[s] = "blocked" <=> life[s] = "Blocked"
  BY <1>4, <1>6, <1>9
<1> QED
  BY <1>9, <1>10 DEF Covers, life

(* A job that completes saves a report with a result for every script of   *)
(* the generation, whatever workers they ran on; only blocked scripts are  *)
(* said to be blocked.  (execute)                                          *)
THEOREM CompletedReports == ScriptSpec => ReportComplete
<1> DEFINE Ends(j) == status[j] # "completed" /\ status'[j] = "completed"
           Saved(j) == \E r \in reports' \ reports :
                          r.job = j /\ r.id = target[j] /\ Complete(r)
<1>1. ScriptInvariant /\ [ScriptNext]_scriptVars =>
        [\A j \in Jobs : status[j] # "completed" /\ status'[j] = "completed" =>
            \E r \in reports' \ reports : r.job = j /\ r.id = target[j] /\ Complete(r)]_scriptVars
  <2> SUFFICES ASSUME ScriptInvariant, ScriptNext, NEW j \in Jobs, Ends(j)
               PROVE  Saved(j)
    OBVIOUS
  <2>0. JobsTyped
    BY DEF ScriptInvariant, ScriptTypeOK
  <2>1. ASSUME status[j] \in {"queued", "running"}, NEW res, SaveReport(j, target[j], res),
               Covers(res, Generation(target[j]).life)
        PROVE  Saved(j)
    <3>1. PICK r \in reports' \ reports : r.job = j /\ r.id = target[j] /\ r.results = res
      BY <2>1, SavedNew
    <3> QED
      BY <2>1, <3>1 DEF Complete, Covers
  <2>2. CASE Requests \/ ServiceRestart
    BY <2>0, <2>2 DEF Requests, Generate, GenerateFromCache, StartJob, ServiceRestart, jobs,
      JobsTyped
  <2>3. ASSUME NEW i \in Jobs, JobStep(i)
        PROVE  Saved(j)
    <3>1. i = j /\ (ExecuteManually(j) \/ MergeReports(j))
      BY <2>0, <2>3 DEF JobStep, Begin, ExecuteManually, MergeReports, JobFails, EndJob, JobsTyped
    <3>2. CASE ExecuteManually(j)
      <4>1. /\ status[j] = "queued"
            /\ SaveReport(j, target[j], [s \in DOMAIN Generation(target[j]).life |-> "skipped"])
        BY <3>2 DEF ExecuteManually
      <4>2. Covers([s \in DOMAIN Generation(target[j]).life |-> "skipped"],
                   Generation(target[j]).life)
        BY DEF Covers
      <4> QED
        BY <2>1, <4>1, <4>2
    <3>3. CASE MergeReports(j)
      <4>1. status[j] = "running" /\ SaveReport(j, target[j], MergedResults(j))
        BY <3>3 DEF MergeReports
      <4> QED
        BY <2>1, <3>3, <4>1, AllResults
    <3> QED
      BY <3>1, <3>2, <3>3
  <2>4. ASSUME NEW w \in Workers, WorkerStep(w)
        PROVE  Saved(j)
    <3>1. /\ w[1] = j /\ SaveOnlyReport(w) /\ status[j] = "running"
      BY <2>0, <2>4, WorkerForm DEF JobsTyped
    <3>2. SaveReport(j, target[j], results[w])
      BY <3>1 DEF SaveOnlyReport, Own
    <3> QED
      BY <2>1, <3>1, <3>2, OnlyResults
  <2> QED
    BY <2>2, <2>3, <2>4 DEF ScriptNext, ServiceStep
<1> QED
  BY <1>1, ScriptInvariantly, PTL DEF ScriptSpec, ReportComplete
=====
