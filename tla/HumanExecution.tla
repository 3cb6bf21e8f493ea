--------------------------- MODULE HumanExecution ---------------------------
(***************************************************************************)
(* A session of Test-Case-Generation's human_execution extension: a person *)
(* acts in a headed browser, the actions are recorded, and finishing turns *)
(* them into a script that is published for the automation pipeline.  The  *)
(* requests, the launch, the generation of the script and the browser's    *)
(* callbacks are tasks of one event loop; a step is the code between two   *)
(* suspensions.  Sessions share nothing, so there is one.  What its row    *)
(* holds is left out: a write of it suspends the task, and may fail.       *)
(***************************************************************************)
EXTENDS Naturals, Sequences

CONSTANTS Actions,      \* what the person does in the browser
          Navigations,  \* those of them that only load a page
          Finishes,     \* requests to finish, and the tasks they create
          Cancels,      \* requests to cancel
          MaxFaults     \* bound on failing writes

ASSUME SessionAssumption ==
    /\ Navigations \subseteq Actions
    /\ MaxFaults \in Nat

VARIABLES
    state,      \* session.state
    actions,    \* session.actions
    task,       \* tasks[session]: what a cancellation stops
    waiting,    \* the session's lock: its holder, then those who wait
    browser,    \* the headed browser
    closing,    \* the recorder's closed_by_user
    at,         \* per task, where it is suspended
    scriptRow,  \* who stored the script
    published,  \* who handed a generation to the automation pipeline
    faults      \* the writes that failed so far

memory == <<state, actions, task>>
window == <<browser, closing>>
tables == <<scriptRow, published>>
vars == <<memory, waiting, window, at, tables, faults>>

Launch == "launch"
Report == "report"
Nobody == "nobody"
Tasks == {Launch, Report} \cup Actions \cup Finishes \cup Cancels
Terminal == {"completed", "failed", "cancelled"}

ASSUME DistinctAssumption ==
    /\ {Launch, Report, Nobody} \cap (Actions \cup Finishes \cup Cancels) = {}
    /\ Actions \cap Finishes = {} /\ Actions \cap Cancels = {} /\ Finishes \cap Cancels = {}

Init ==
    /\ state = "waiting_for_human" /\ actions = {}
    /\ task = Nobody
    /\ waiting = <<>>
    /\ browser = "none" /\ closing = FALSE
    /\ at = [t \in Tasks |-> "idle"]
    /\ scriptRow = Nobody /\ published = {}
    /\ faults = 0

At(t, places) == at[t] \in places
Goto(t, place) == at' = [at EXCEPT ![t] = place]
Done(t) == Goto(t, "done")

(* A write of the session's row suspends the task; it is made or it fails. *)
Written == UNCHANGED <<tables, faults>>
WriteFails ==
    /\ faults < MaxFaults
    /\ faults' = faults + 1
    /\ UNCHANGED tables

(* _fail: the state at once, then the browser and the row.                 *)
Fail(t) ==
    /\ state' = "failed" /\ closing' = TRUE
    /\ Goto(t, "fail_close")
    /\ UNCHANGED <<actions, task, browser>>
CloseBrowser ==
    /\ closing' = TRUE
    /\ browser' = IF browser = "none" THEN "none" ELSE "closed"
(* For a mutant: the browser stays open.                                   *)
FailLeavesBrowser(t) ==
    /\ At(t, {"fail_close"})
    /\ Goto(t, "failing")
    /\ UNCHANGED <<memory, waiting, window, tables, faults>>
FailClosed(t) ==
    /\ At(t, {"fail_close"})
    /\ CloseBrowser /\ Goto(t, "failing")
    /\ UNCHANGED <<memory, waiting, tables, faults>>

(* The last thing a task does is a write, whether or not it succeeds.      *)
Finals == {"launched", "completed", "failing", "cancelling", "reported"}
SaveEnds(t) ==
    /\ At(t, Finals) /\ Written /\ Done(t)
    /\ UNCHANGED <<memory, waiting, window>>
(* start, _fail, cancel and the report do not look at the failure.          *)
FinalSaveFails(t) ==
    /\ At(t, {"failing", "cancelling", "reported", "starting"}) /\ WriteFails /\ Done(t)
    /\ UNCHANGED <<memory, waiting, window>>
(* _launch and _generate_scripts turn it into a failure of the session.    *)
SaveFailsTask(t) ==
    /\ At(t, {"launched", "validating", "completed"}) /\ WriteFails /\ Fail(t)
    /\ UNCHANGED <<waiting>>
-----------------------------------------------------------------------------
(* start: the row is written before the session is launched.               *)
Start ==
    /\ At(Launch, {"idle"})
    /\ Goto(Launch, "starting")
    /\ UNCHANGED <<memory, waiting, window, tables, faults>>

Started ==
    /\ At(Launch, {"starting"}) /\ Written
    /\ task' = Launch
    /\ Goto(Launch, "browser")
    /\ UNCHANGED <<state, actions, waiting, window>>

(* launch: the browser, its page; then what it shows is announced.  (A     *)
(* browser still starting is stopped with its driver.)                     *)
BrowserOpens ==
    /\ At(Launch, {"browser"})
    /\ browser' = "open"
    /\ Goto(Launch, "page")
    /\ UNCHANGED <<memory, waiting, closing, tables, faults>>
PageLoads ==
    /\ At(Launch, {"page"}) /\ browser = "open"
    /\ Goto(Launch, "ready")
    /\ UNCHANGED <<memory, waiting, window, tables, faults>>

LaunchFails ==
    /\ At(Launch, {"browser", "page"})
    /\ closing' = TRUE
    /\ Goto(Launch, "launch_close")
    /\ UNCHANGED <<memory, waiting, browser, tables, faults>>
LaunchClosed ==
    /\ At(Launch, {"launch_close"})
    /\ browser' = IF browser = "none" THEN "none" ELSE "closed"
    /\ state' = "failed" /\ closing' = TRUE
    /\ Goto(Launch, "fail_close")
    /\ UNCHANGED <<actions, task, waiting, tables, faults>>

(* _ready overlooks every error.                                           *)
Announce ==
    /\ At(Launch, {"ready"})
    /\ Goto(Launch, "announcing")
    /\ UNCHANGED <<memory, waiting, window, tables, faults>>
AnnounceFails ==
    /\ At(Launch, {"announcing"}) /\ WriteFails
    /\ closing' = TRUE
    /\ Goto(Launch, "launch_close")
    /\ UNCHANGED <<memory, waiting, browser>>
RecordingStarts ==
    /\ At(Launch, {"announcing"}) /\ Written
    /\ state' = "recording"
    /\ Goto(Launch, "launched")
    /\ UNCHANGED <<actions, task, waiting, window>>
-----------------------------------------------------------------------------
(* The person closes the window.                                           *)
BrowserLost ==
    /\ browser = "open"
    /\ browser' = "gone"
    /\ IF closing THEN UNCHANGED at ELSE Goto(Report, "lost")
    /\ UNCHANGED <<memory, waiting, closing, tables, faults>>

ReportLoss ==
    /\ At(Report, {"lost"})
    /\ IF state = "recording" THEN Fail(Report)
       ELSE Goto(Report, "reported") /\ UNCHANGED <<memory, window>>
    /\ UNCHANGED <<waiting, tables, faults>>

(* _record: accepted while the session records; numbered under its lock.   *)
Enter(a) ==
    /\ actions' = actions \cup {a}
    /\ Goto(a, "append")
    /\ UNCHANGED <<state, task>>
Record(a) ==
    /\ At(a, {"idle"}) /\ state = "recording"
    /\ waiting' = Append(waiting, a)
    /\ IF waiting = <<>> THEN Enter(a)
       ELSE Goto(a, "waiting") /\ UNCHANGED memory
    /\ UNCHANGED <<window, tables, faults>>
LockTaken(a) ==
    /\ At(a, {"waiting"}) /\ waiting # <<>> /\ waiting[1] = a
    /\ Enter(a)
    /\ UNCHANGED <<waiting, window, tables, faults>>
ActionAppended(a) ==
    /\ At(a, {"append"})
    /\ Goto(a, "recording")
    /\ UNCHANGED <<memory, waiting, window, tables, faults>>
(* For a mutant: the lock is not released.                                 *)
AppendFailsLocked(a) ==
    /\ At(a, {"append"}) /\ faults < MaxFaults
    /\ faults' = faults + 1
    /\ Done(a)
    /\ UNCHANGED <<memory, waiting, window, tables>>
AppendFails(a) ==
    /\ At(a, {"append"}) /\ faults < MaxFaults
    /\ faults' = faults + 1
    /\ waiting' = Tail(waiting) /\ Done(a)
    /\ UNCHANGED <<memory, window, tables>>
Recorded(a) ==
    /\ At(a, {"recording"})
    /\ (Written \/ WriteFails)
    /\ waiting' = Tail(waiting) /\ Done(a)
    /\ UNCHANGED <<memory, window>>
-----------------------------------------------------------------------------
(* finish: the state is looked at, then the login, then the actions.       *)
Finish(f) ==
    /\ At(f, {"idle"}) /\ state = "recording" /\ browser = "open"
    /\ Goto(f, "login")
    /\ UNCHANGED <<memory, waiting, window, tables, faults>>

FinishRefused(f) ==
    /\ At(f, {"login"})
    /\ Done(f)
    /\ UNCHANGED <<memory, waiting, window, tables, faults>>

FinishAccepted(f) ==
    /\ At(f, {"login"}) /\ ~(actions \subseteq Navigations)
    /\ state' = "generating_scripts"
    /\ Goto(f, "finishing")
    /\ UNCHANGED <<actions, task, waiting, window, tables, faults>>
FinishFails(f) ==
    /\ At(f, {"finishing"}) /\ WriteFails /\ Done(f)
    /\ UNCHANGED <<memory, waiting, window>>
FinishSaved(f) ==
    /\ At(f, {"finishing"}) /\ Written
    /\ closing' = TRUE
    /\ Goto(f, "finish_close")
    /\ UNCHANGED <<memory, waiting, browser>>
Finished(f) ==
    /\ At(f, {"finish_close"})
    /\ CloseBrowser
    /\ task' = f
    /\ Goto(f, "generate")
    /\ UNCHANGED <<state, actions, waiting, tables, faults>>

(* _generate_scripts, a task of its own; any exception fails the session.  *)
GenerateScript(f) ==
    /\ At(f, {"generate"})
    /\ state' = "validating_scripts"
    /\ Goto(f, "validating")
    /\ UNCHANGED <<actions, task, waiting, window, tables, faults>>
(* For a mutant: the exception ends the task only.                         *)
ScriptInvalidUnseen(f) ==
    /\ At(f, {"generate"}) /\ Done(f)
    /\ UNCHANGED <<memory, waiting, window, tables, faults>>
ScriptInvalid(f) ==
    /\ At(f, {"generate"}) /\ Fail(f)
    /\ UNCHANGED <<waiting, tables, faults>>
Validated(f) ==
    /\ At(f, {"validating"}) /\ Written
    /\ Goto(f, "scripts")
    /\ UNCHANGED <<memory, waiting, window>>

(* save_scripts: the script's key is the session's, there is room for one. *)
InsertScript(f) ==
    /\ At(f, {"scripts"}) /\ scriptRow = Nobody
    /\ scriptRow' = f
    /\ Goto(f, "publish")
    /\ UNCHANGED <<memory, waiting, window, published, faults>>
InsertFails(f) ==
    /\ At(f, {"scripts"}) /\ (scriptRow # Nobody \/ faults < MaxFaults)
    /\ Fail(f)
    /\ faults' = faults + (IF scriptRow = Nobody THEN 1 ELSE 0)
    /\ UNCHANGED <<waiting, tables>>

(* store_generation: refused unless the workflow is completed.             *)
Publish(f) ==
    /\ At(f, {"publish"})
    /\ published' = published \cup {f}
    /\ state' = "completed"
    /\ Goto(f, "completed")
    /\ UNCHANGED <<actions, task, waiting, window, scriptRow, faults>>
PublishFails(f) ==
    /\ At(f, {"publish"}) /\ Fail(f)
    /\ UNCHANGED <<waiting, tables, faults>>
-----------------------------------------------------------------------------
(* cancel: the newest task ends where it waits; then the browser, then the *)
(* state.  The session's id is known to clients once start has returned.   *)
Stoppable == task # Nobody /\ ~At(task, {"done"})
(* For a mutant: the task goes on.                                         *)
StopNothing(c) == Goto(c, "cancel_close")
Stop(c) ==
    at' = [t \in Tasks |-> IF t = c THEN "cancel_close"
                           ELSE IF Stoppable /\ t = task THEN "done" ELSE at[t]]
Cancel(c) ==
    /\ At(c, {"idle"}) /\ task # Nobody /\ state \notin Terminal
    /\ Stop(c)
    /\ closing' = TRUE
    /\ UNCHANGED <<memory, waiting, browser, tables, faults>>
Cancelled(c) ==
    /\ At(c, {"cancel_close"})
    /\ CloseBrowser
    /\ state' = "cancelled"
    /\ Goto(c, "cancelling")
    /\ UNCHANGED <<actions, task, waiting, tables, faults>>
-----------------------------------------------------------------------------
LaunchStep ==
    \/ Started \/ BrowserOpens \/ PageLoads \/ LaunchFails
    \/ LaunchClosed \/ Announce \/ AnnounceFails \/ RecordingStarts
RecordStep(a) == LockTaken(a) \/ ActionAppended(a) \/ AppendFails(a) \/ Recorded(a)
FinishStep(f) ==
    \/ FinishRefused(f) \/ FinishAccepted(f) \/ FinishFails(f) \/ FinishSaved(f) \/ Finished(f)
    \/ GenerateScript(f) \/ ScriptInvalid(f) \/ Validated(f)
    \/ InsertScript(f) \/ InsertFails(f) \/ Publish(f) \/ PublishFails(f)
TaskStep ==
    \/ LaunchStep \/ ReportLoss
    \/ \E a \in Actions : RecordStep(a)
    \/ \E f \in Finishes : FinishStep(f)
    \/ \E c \in Cancels : Cancelled(c)
    \/ \E t \in Tasks : FailClosed(t) \/ SaveEnds(t) \/ FinalSaveFails(t)
                        \/ SaveFailsTask(t)

(* The person and the client act when they like, or never.                 *)
Outside ==
    \/ Start \/ BrowserLost
    \/ \E a \in Actions : Record(a)
    \/ \E f \in Finishes : Finish(f)
    \/ \E c \in Cancels : Cancel(c)

Next == TaskStep \/ Outside

(* The loop runs what is ready, and every await of a task has a timeout.   *)
Spec == Init /\ [][Next]_vars /\ WF_vars(TaskStep)
-----------------------------------------------------------------------------
Busy(t) == ~At(t, {"idle", "done"})
Quiet == \A t \in Tasks : ~Busy(t)

(* Where each kind of task can be.                                         *)
Failing == {"fail_close", "failing", "done"}
LaunchPlaces == Failing \cup
    {"idle", "starting", "browser", "page", "ready", "announcing", "launched", "launch_close"}
ReportPlaces == Failing \cup {"idle", "lost", "reported"}
ActionPlaces == {"idle", "waiting", "append", "recording", "done"}
FinishPlaces == Failing \cup
    {"idle", "login", "finishing", "finish_close", "generate", "validating", "scripts",
     "publish", "completed"}
CancelPlaces == {"idle", "cancel_close", "cancelling", "done"}
Places == LaunchPlaces \cup ReportPlaces \cup ActionPlaces \cup FinishPlaces \cup CancelPlaces
States == Terminal \cup {"waiting_for_human", "recording", "generating_scripts",
                         "validating_scripts"}

PlacesTyped ==
    /\ at \in [Tasks -> Places]
    /\ at[Launch] \in LaunchPlaces /\ at[Report] \in ReportPlaces
    /\ \A a \in Actions : at[a] \in ActionPlaces
    /\ \A f \in Finishes : at[f] \in FinishPlaces
    /\ \A c \in Cancels : at[c] \in CancelPlaces
SessionTyped ==
    /\ state \in States
    /\ actions \subseteq Actions
    /\ task \in Finishes \cup {Launch, Nobody}
    /\ waiting \in Seq(Actions)
    /\ browser \in {"none", "open", "gone", "closed"} /\ closing \in BOOLEAN
    /\ scriptRow \in Finishes \cup {Nobody}
    /\ published \subseteq Finishes
    /\ faults \in 0..MaxFaults

(* Types of the session, its browser, its tables and the tasks' places.    *)
TypeOK == SessionTyped /\ PlacesTyped

(* However requests to finish overlap, one generation of a session reaches *)
(* the pipeline.  (_generate_scripts, HumanScriptRow)                      *)
PublishedOnce == \A f, g \in published : f = g

(* When a session is over and nothing is under way, its browser is closed, *)
(* wherever it failed or was cancelled.  (_fail, cancel, launch)           *)
NoBrowserLeft == Quiet /\ state \in Terminal => browser # "open"

(* Nothing is left half-way: unless a write failed, a session with nothing *)
(* under way records or is over.  (_launch, finish, _generate_scripts)     *)
Settled ==
    Quiet /\ At(Launch, {"done"}) /\ faults = 0 => state \in Terminal \cup {"recording"}

(* A session that is over is taken up again only by a request to finish it *)
(* that was under way: a cancellation stops the launch wherever it is.     *)
(* (cancel, _launch)                                                       *)
FinishUnderWay ==
    \E f \in Finishes : At(f, {"login", "finishing", "finish_close", "generate", "validating",
                               "scripts", "publish"})
OverUnlessFinishing ==
    [][~FinishUnderWay /\ state \in Terminal => state' \in {state, "cancelled", "failed"}]_vars

(* Whatever fails, and however the requests overlap, every task ends: the  *)
(* lock is handed on.  (_record, _generate_scripts, _fail)                 *)
TasksEnd == []<>Quiet

(* Stronger statements the code does not keep (README).                    *)
TerminalIsFinal == [](state \in Terminal => [](state \in Terminal))
RecordingHasBrowser == Quiet /\ state = "recording" => browser = "open"
=============================================================================
