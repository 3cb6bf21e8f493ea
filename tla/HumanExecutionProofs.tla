------------------------- MODULE HumanExecutionProofs -------------------------
(***************************************************************************)
(* Proofs about HumanExecution for every number of recorded actions and of *)
(* requests: types, one publication, and what may follow the end of a      *)
(* session.                                                                *)
(***************************************************************************)
EXTENDS HumanExecution, TLAPS

(* While the session is being launched nobody has finished or cancelled it *)
(* and its newest task is the launch.                                      *)
Launching == {"browser", "page", "ready", "announcing", "launch_close"}
LaunchFirst ==
    /\ At(Launch, {"idle", "starting"}) => task = Nobody
    /\ At(Launch, Launching) => task = Launch
    /\ At(Launch, {"idle", "starting"} \cup Launching) =>
         /\ state = "waiting_for_human"
         /\ \A t \in Finishes \cup Cancels : At(t, {"idle"})

(* Who is about to publish, or has published, stored the script.           *)
ScriptStored ==
    /\ published \subseteq {scriptRow}
    /\ \A f \in Finishes : At(f, {"publish"}) => scriptRow = f

(* Only the first of those who asked for the lock appends an action.       *)
LockHeld ==
    \A a \in Actions : At(a, {"append", "recording"}) => waiting # <<>> /\ waiting[1] = a

(* No browser is open once the script is made, nor when the session is     *)
(* over, but for somebody about to close it.                               *)
BrowserClosing ==
    /\ \A f \in Finishes :
         At(f, {"generate", "validating", "scripts", "publish"}) => browser # "open"
    /\ browser = "open" /\ state \in Terminal =>
         \E t \in Tasks : At(t, {"fail_close", "cancel_close"})

SessionInvariant == TypeOK /\ LaunchFirst /\ ScriptStored /\ LockHeld /\ BrowserClosing
-----------------------------------------------------------------------------
(* One task moves, the others stay.                                        *)
LEMMA GotoMoves ==
    ASSUME at \in [Tasks -> Places], NEW t \in Tasks, NEW place \in Places, Goto(t, place)
    PROVE  /\ at' \in [Tasks -> Places]
           /\ at'[t] = place
           /\ \A u \in Tasks \ {t} : at'[u] = at[u]
  BY DEF Goto

(* A task that moves within its places keeps the types of all of them.     *)
LEMMA GotoTyped ==
    ASSUME PlacesTyped, NEW t \in Tasks, NEW place, Goto(t, place),
           \/ t = Launch /\ place \in LaunchPlaces
           \/ t = Report /\ place \in ReportPlaces
           \/ t \in Actions /\ place \in ActionPlaces
           \/ t \in Finishes /\ place \in FinishPlaces
           \/ t \in Cancels /\ place \in CancelPlaces
    PROVE  PlacesTyped'
<1>1. place \in Places
  BY DEF Places
<1>2. /\ at' \in [Tasks -> Places]
      /\ at'[t] = place
      /\ \A u \in Tasks \ {t} : at'[u] = at[u]
  BY <1>1, GotoMoves DEF PlacesTyped
<1>3. t = Launch \/ t = Report \/ t \in Actions \/ t \in Finishes \/ t \in Cancels
  BY DEF Tasks
<1>4. Launch # Report
  BY DEF Launch, Report
<1> QED
  BY <1>2, <1>3, <1>4, DistinctAssumption DEF PlacesTyped, Tasks
-----------------------------------------------------------------------------
(* Every step leaves every task at a place of its kind.                    *)
LEMMA PlacesKept ==
    ASSUME PlacesTyped, [Next]_vars
    PROVE  PlacesTyped'
<1>1. CASE Started
  BY <1>1, GotoTyped DEF LaunchPlaces, ReportPlaces, ActionPlaces, FinishPlaces,
    CancelPlaces, Failing, Tasks, Started, Goto, At, Written, window, tables
<1>2. CASE BrowserOpens
  BY <1>2, GotoTyped DEF LaunchPlaces, ReportPlaces, ActionPlaces, FinishPlaces,
    CancelPlaces, Failing, Tasks, BrowserOpens, Goto, At, memory, tables
<1>3. CASE PageLoads
  BY <1>3, GotoTyped DEF LaunchPlaces, ReportPlaces, ActionPlaces, FinishPlaces,
    CancelPlaces, Failing, Tasks, PageLoads, Goto, At, memory, window, tables
<1>4. CASE LaunchFails
  BY <1>4, GotoTyped DEF LaunchPlaces, ReportPlaces, ActionPlaces, FinishPlaces,
    CancelPlaces, Failing, Tasks, LaunchFails, Goto, At, memory, tables
<1>5. CASE LaunchClosed
  BY <1>5, GotoTyped DEF LaunchPlaces, ReportPlaces, ActionPlaces, FinishPlaces,
    CancelPlaces, Failing, Tasks, LaunchClosed, Goto, At, tables
<1>6. CASE Announce
  BY <1>6, GotoTyped DEF LaunchPlaces, ReportPlaces, ActionPlaces, FinishPlaces,
    CancelPlaces, Failing, Tasks, Announce, Goto, At, memory, window, tables
<1>7. CASE AnnounceFails
  BY <1>7, GotoTyped DEF LaunchPlaces, ReportPlaces, ActionPlaces, FinishPlaces,
    CancelPlaces, Failing, Tasks, AnnounceFails, Goto, At, WriteFails, memory, tables
<1>8. CASE RecordingStarts
  BY <1>8, GotoTyped DEF LaunchPlaces, ReportPlaces, ActionPlaces, FinishPlaces,
    CancelPlaces, Failing, Tasks, RecordingStarts, Goto, At, Written, window, tables
<1>9. CASE ReportLoss
  BY <1>9, GotoTyped DEF LaunchPlaces, ReportPlaces, ActionPlaces, FinishPlaces,
    CancelPlaces, Failing, Tasks, ReportLoss, Goto, At, Fail, memory, window, tables
<1>10. CASE Start
  BY <1>10, GotoTyped DEF LaunchPlaces, ReportPlaces, ActionPlaces, FinishPlaces,
    CancelPlaces, Failing, Tasks, Start, Goto, At, memory, window, tables
<1>11. CASE BrowserLost
  BY <1>11, GotoTyped DEF PlacesTyped, LaunchPlaces, ReportPlaces, ActionPlaces,
    FinishPlaces, CancelPlaces, Failing, Tasks, BrowserLost, Goto, memory, tables
<1>12. ASSUME NEW a \in Actions, LockTaken(a)
       PROVE  PlacesTyped'
  BY <1>12, GotoTyped DEF LaunchPlaces, ReportPlaces, ActionPlaces, FinishPlaces,
    CancelPlaces, Failing, Tasks, LockTaken, At, Enter, window, tables, Goto
<1>13. ASSUME NEW a \in Actions, ActionAppended(a)
       PROVE  PlacesTyped'
  BY <1>13, GotoTyped DEF LaunchPlaces, ReportPlaces, ActionPlaces, FinishPlaces,
    CancelPlaces, Failing, Tasks, ActionAppended, Goto, At, memory, window, tables
<1>14. ASSUME NEW a \in Actions, AppendFails(a)
       PROVE  PlacesTyped'
  BY <1>14, GotoTyped DEF LaunchPlaces, ReportPlaces, ActionPlaces, FinishPlaces,
    CancelPlaces, Failing, Tasks, AppendFails, Done, At, memory, window, tables, Goto
<1>15. ASSUME NEW a \in Actions, Recorded(a)
       PROVE  PlacesTyped'
  BY <1>15, GotoTyped DEF LaunchPlaces, ReportPlaces, ActionPlaces, FinishPlaces,
    CancelPlaces, Failing, Tasks, Recorded, Done, At, Written, WriteFails, memory,
    window, Goto, tables
<1>16. ASSUME NEW a \in Actions, Record(a)
       PROVE  PlacesTyped'
  BY <1>16, GotoTyped DEF LaunchPlaces, ReportPlaces, ActionPlaces, FinishPlaces,
    CancelPlaces, Failing, Tasks, Record, Goto, At, Enter, memory, window, tables
<1>17. ASSUME NEW f \in Finishes, FinishRefused(f)
       PROVE  PlacesTyped'
  BY <1>17, GotoTyped DEF LaunchPlaces, ReportPlaces, ActionPlaces, FinishPlaces,
    CancelPlaces, Failing, Tasks, FinishRefused, Done, At, memory, window, tables,
    Goto
<1>18. ASSUME NEW f \in Finishes, FinishAccepted(f)
       PROVE  PlacesTyped'
  BY <1>18, GotoTyped DEF LaunchPlaces, ReportPlaces, ActionPlaces, FinishPlaces,
    CancelPlaces, Failing, Tasks, FinishAccepted, Goto, At, window, tables
<1>19. ASSUME NEW f \in Finishes, FinishFails(f)
       PROVE  PlacesTyped'
  BY <1>19, GotoTyped DEF LaunchPlaces, ReportPlaces, ActionPlaces, FinishPlaces,
    CancelPlaces, Failing, Tasks, FinishFails, Done, At, WriteFails, memory, window,
    Goto, tables
<1>20. ASSUME NEW f \in Finishes, FinishSaved(f)
       PROVE  PlacesTyped'
  BY <1>20, GotoTyped DEF LaunchPlaces, ReportPlaces, ActionPlaces, FinishPlaces,
    CancelPlaces, Failing, Tasks, FinishSaved, Goto, At, Written, memory, tables
<1>21. ASSUME NEW f \in Finishes, Finished(f)
       PROVE  PlacesTyped'
  BY <1>21, GotoTyped DEF LaunchPlaces, ReportPlaces, ActionPlaces, FinishPlaces,
    CancelPlaces, Failing, Tasks, Finished, Goto, At, CloseBrowser, tables
<1>22. ASSUME NEW f \in Finishes, GenerateScript(f)
       PROVE  PlacesTyped'
  BY <1>22, GotoTyped DEF LaunchPlaces, ReportPlaces, ActionPlaces, FinishPlaces,
    CancelPlaces, Failing, Tasks, GenerateScript, Goto, At, window, tables
<1>23. ASSUME NEW f \in Finishes, ScriptInvalid(f)
       PROVE  PlacesTyped'
  BY <1>23, GotoTyped DEF LaunchPlaces, ReportPlaces, ActionPlaces, FinishPlaces,
    CancelPlaces, Failing, Tasks, ScriptInvalid, At, Fail, tables, Goto
<1>24. ASSUME NEW f \in Finishes, Validated(f)
       PROVE  PlacesTyped'
  BY <1>24, GotoTyped DEF LaunchPlaces, ReportPlaces, ActionPlaces, FinishPlaces,
    CancelPlaces, Failing, Tasks, Validated, Goto, At, Written, memory, window, tables
<1>25. ASSUME NEW f \in Finishes, InsertScript(f)
       PROVE  PlacesTyped'
  BY <1>25, GotoTyped DEF LaunchPlaces, ReportPlaces, ActionPlaces, FinishPlaces,
    CancelPlaces, Failing, Tasks, InsertScript, Goto, At, memory, window
<1>26. ASSUME NEW f \in Finishes, InsertFails(f)
       PROVE  PlacesTyped'
  BY <1>26, GotoTyped DEF LaunchPlaces, ReportPlaces, ActionPlaces, FinishPlaces,
    CancelPlaces, Failing, Tasks, InsertFails, At, Fail, tables, Goto
<1>27. ASSUME NEW f \in Finishes, Publish(f)
       PROVE  PlacesTyped'
  BY <1>27, GotoTyped DEF LaunchPlaces, ReportPlaces, ActionPlaces, FinishPlaces,
    CancelPlaces, Failing, Tasks, Publish, Goto, At, window
<1>28. ASSUME NEW f \in Finishes, PublishFails(f)
       PROVE  PlacesTyped'
  BY <1>28, GotoTyped DEF LaunchPlaces, ReportPlaces, ActionPlaces, FinishPlaces,
    CancelPlaces, Failing, Tasks, PublishFails, At, Fail, tables, Goto
<1>29. ASSUME NEW f \in Finishes, Finish(f)
       PROVE  PlacesTyped'
  BY <1>29, GotoTyped DEF LaunchPlaces, ReportPlaces, ActionPlaces, FinishPlaces,
    CancelPlaces, Failing, Tasks, Finish, Goto, At, memory, window, tables
<1>30. ASSUME NEW c \in Cancels, Cancelled(c)
       PROVE  PlacesTyped'
  BY <1>30, GotoTyped DEF LaunchPlaces, ReportPlaces, ActionPlaces, FinishPlaces,
    CancelPlaces, Failing, Tasks, Cancelled, Goto, At, CloseBrowser, tables
<1>31. ASSUME NEW c \in Cancels, Cancel(c)
       PROVE  PlacesTyped'
  BY <1>31, DistinctAssumption DEF PlacesTyped, Places, LaunchPlaces, ReportPlaces,
    ActionPlaces, FinishPlaces, CancelPlaces, Failing, Tasks, Launch, Report, Cancel,
    At, Stop, memory, tables, Stoppable
<1>32. ASSUME NEW t \in Tasks, FailClosed(t)
       PROVE  PlacesTyped'
  BY <1>32, GotoTyped DEF PlacesTyped, LaunchPlaces, ReportPlaces, ActionPlaces,
    FinishPlaces, CancelPlaces, Failing, Tasks, FailClosed, Goto, At, CloseBrowser,
    memory, tables
<1>33. ASSUME NEW t \in Tasks, SaveEnds(t)
       PROVE  PlacesTyped'
  BY <1>33, GotoTyped DEF PlacesTyped, LaunchPlaces, ReportPlaces, ActionPlaces,
    FinishPlaces, CancelPlaces, Failing, Tasks, SaveEnds, Done, At, Written, memory,
    window, Goto, tables
<1>34. ASSUME NEW t \in Tasks, FinalSaveFails(t)
       PROVE  PlacesTyped'
  BY <1>34, GotoTyped DEF PlacesTyped, LaunchPlaces, ReportPlaces, ActionPlaces,
    FinishPlaces, CancelPlaces, Failing, Tasks, FinalSaveFails, Done, At, WriteFails,
    memory, window, Goto, tables
<1>35. ASSUME NEW t \in Tasks, SaveFailsTask(t)
       PROVE  PlacesTyped'
  BY <1>35, GotoTyped DEF PlacesTyped, LaunchPlaces, ReportPlaces, ActionPlaces,
    FinishPlaces, CancelPlaces, Failing, Tasks, SaveFailsTask, At, WriteFails, Fail,
    tables, Goto
<1>36. CASE UNCHANGED vars
  BY <1>36 DEF PlacesTyped, vars, memory, window, tables
<1> QED
  BY <1>1, <1>2, <1>3, <1>4, <1>5, <1>6, <1>7, <1>8, <1>9, <1>10, <1>11, <1>12, <1>13,
    <1>14, <1>15, <1>16, <1>17, <1>18, <1>19, <1>20, <1>21, <1>22, <1>23, <1>24,
    <1>25, <1>26, <1>27, <1>28, <1>29, <1>30, <1>31, <1>32, <1>33, <1>34, <1>35, <1>36
    DEF Next, TaskStep, Outside, LaunchStep, RecordStep, FinishStep
(* The same without the places.                                            *)
LEMMA Moved ==
    ASSUME PlacesTyped, NEW t \in Tasks, NEW place, Goto(t, place)
    PROVE  at'[t] = place /\ \A u \in Tasks \ {t} : at'[u] = at[u]
  BY DEF Goto, PlacesTyped

(* The kinds of tasks exclude each other.                                  *)
LEMMA Kinds ==
    /\ Launch \in Tasks /\ Report \in Tasks
    /\ Launch # Report /\ Launch # Nobody
    /\ \A t \in Actions \cup Finishes \cup Cancels :
         t \in Tasks /\ t \notin {Launch, Report, Nobody}
    /\ \A a \in Actions : a \notin Finishes \cup Cancels
    /\ \A f \in Finishes : f \notin Cancels
  BY DistinctAssumption DEF Tasks, Launch, Report, Nobody

(* Every step keeps the types.                                             *)
LEMMA SessionKept ==
    ASSUME SessionTyped, LockHeld, [Next]_vars
    PROVE  SessionTyped'
<1>1. CASE Started
  BY <1>1, SessionAssumption DEF SessionTyped, LockHeld, States, Terminal, Started,
    At, Written, window, tables
<1>2. CASE BrowserOpens
  BY <1>2, SessionAssumption DEF SessionTyped, LockHeld, States, Terminal,
    BrowserOpens, At, memory, tables
<1>3. CASE PageLoads
  BY <1>3, SessionAssumption DEF SessionTyped, LockHeld, States, Terminal, PageLoads,
    At, memory, window, tables
<1>4. CASE LaunchFails
  BY <1>4, SessionAssumption DEF SessionTyped, LockHeld, States, Terminal,
    LaunchFails, At, memory, tables
<1>5. CASE LaunchClosed
  BY <1>5, SessionAssumption DEF SessionTyped, LockHeld, States, Terminal,
    LaunchClosed, At, tables
<1>6. CASE Announce
  BY <1>6, SessionAssumption DEF SessionTyped, LockHeld, States, Terminal, Announce,
    At, memory, window, tables
<1>7. CASE AnnounceFails
  BY <1>7, SessionAssumption DEF SessionTyped, LockHeld, States, Terminal,
    AnnounceFails, At, WriteFails, memory, tables
<1>8. CASE RecordingStarts
  BY <1>8, SessionAssumption DEF SessionTyped, LockHeld, States, Terminal,
    RecordingStarts, At, Written, window, tables
<1>9. CASE ReportLoss
  BY <1>9, SessionAssumption DEF SessionTyped, LockHeld, States, Terminal, ReportLoss,
    At, Fail, memory, window, tables
<1>10. CASE Start
  BY <1>10, SessionAssumption DEF SessionTyped, LockHeld, States, Terminal, Start, At,
    memory, window, tables
<1>11. CASE BrowserLost
  BY <1>11, SessionAssumption DEF SessionTyped, LockHeld, States, Terminal,
    BrowserLost, memory, tables
<1>12. ASSUME NEW a \in Actions, LockTaken(a)
       PROVE  SessionTyped'
  BY <1>12, SessionAssumption DEF SessionTyped, LockHeld, States, Terminal, LockTaken,
    At, Enter, window, tables
<1>13. ASSUME NEW a \in Actions, ActionAppended(a)
       PROVE  SessionTyped'
  BY <1>13, SessionAssumption DEF SessionTyped, LockHeld, States, Terminal,
    ActionAppended, At, memory, window, tables
<1>14. ASSUME NEW a \in Actions, AppendFails(a)
       PROVE  SessionTyped'
  BY <1>14, SessionAssumption DEF SessionTyped, LockHeld, States, Terminal,
    AppendFails, Done, At, memory, window, tables
<1>15. ASSUME NEW a \in Actions, Recorded(a)
       PROVE  SessionTyped'
  BY <1>15, SessionAssumption DEF SessionTyped, LockHeld, States, Terminal, Recorded,
    Done, At, Written, WriteFails, memory, window, tables
<1>16. ASSUME NEW a \in Actions, Record(a)
       PROVE  SessionTyped'
  BY <1>16, SessionAssumption DEF SessionTyped, LockHeld, States, Terminal, Record,
    At, Enter, memory, window, tables
<1>17. ASSUME NEW f \in Finishes, FinishRefused(f)
       PROVE  SessionTyped'
  BY <1>17, SessionAssumption DEF SessionTyped, LockHeld, States, Terminal,
    FinishRefused, Done, At, memory, window, tables
<1>18. ASSUME NEW f \in Finishes, FinishAccepted(f)
       PROVE  SessionTyped'
  BY <1>18, SessionAssumption DEF SessionTyped, LockHeld, States, Terminal,
    FinishAccepted, At, window, tables
<1>19. ASSUME NEW f \in Finishes, FinishFails(f)
       PROVE  SessionTyped'
  BY <1>19, SessionAssumption DEF SessionTyped, LockHeld, States, Terminal,
    FinishFails, Done, At, WriteFails, memory, window, tables
<1>20. ASSUME NEW f \in Finishes, FinishSaved(f)
       PROVE  SessionTyped'
  BY <1>20, SessionAssumption DEF SessionTyped, LockHeld, States, Terminal,
    FinishSaved, At, Written, memory, tables
<1>21. ASSUME NEW f \in Finishes, Finished(f)
       PROVE  SessionTyped'
  BY <1>21, SessionAssumption DEF SessionTyped, LockHeld, States, Terminal, Finished,
    At, CloseBrowser, tables
<1>22. ASSUME NEW f \in Finishes, GenerateScript(f)
       PROVE  SessionTyped'
  BY <1>22, SessionAssumption DEF SessionTyped, LockHeld, States, Terminal,
    GenerateScript, At, window, tables
<1>23. ASSUME NEW f \in Finishes, ScriptInvalid(f)
       PROVE  SessionTyped'
  BY <1>23, SessionAssumption DEF SessionTyped, LockHeld, States, Terminal,
    ScriptInvalid, At, Fail, tables
<1>24. ASSUME NEW f \in Finishes, Validated(f)
       PROVE  SessionTyped'
  BY <1>24, SessionAssumption DEF SessionTyped, LockHeld, States, Terminal, Validated,
    At, Written, memory, window, tables
<1>25. ASSUME NEW f \in Finishes, InsertScript(f)
       PROVE  SessionTyped'
  BY <1>25, SessionAssumption DEF SessionTyped, LockHeld, States, Terminal,
    InsertScript, At, memory, window
<1>26. ASSUME NEW f \in Finishes, InsertFails(f)
       PROVE  SessionTyped'
  BY <1>26, SessionAssumption DEF SessionTyped, LockHeld, States, Terminal,
    InsertFails, At, Fail, tables
<1>27. ASSUME NEW f \in Finishes, Publish(f)
       PROVE  SessionTyped'
  BY <1>27, SessionAssumption DEF SessionTyped, LockHeld, States, Terminal, Publish,
    At, window
<1>28. ASSUME NEW f \in Finishes, PublishFails(f)
       PROVE  SessionTyped'
  BY <1>28, SessionAssumption DEF SessionTyped, LockHeld, States, Terminal,
    PublishFails, At, Fail, tables
<1>29. ASSUME NEW f \in Finishes, Finish(f)
       PROVE  SessionTyped'
  BY <1>29, SessionAssumption DEF SessionTyped, LockHeld, States, Terminal, Finish,
    At, memory, window, tables
<1>30. ASSUME NEW c \in Cancels, Cancelled(c)
       PROVE  SessionTyped'
  BY <1>30, SessionAssumption DEF SessionTyped, LockHeld, States, Terminal, Cancelled,
    At, CloseBrowser, tables
<1>31. ASSUME NEW c \in Cancels, Cancel(c)
       PROVE  SessionTyped'
  BY <1>31, SessionAssumption DEF SessionTyped, LockHeld, States, Terminal, Cancel,
    At, Stop, memory, tables, Stoppable
<1>32. ASSUME NEW t \in Tasks, FailClosed(t)
       PROVE  SessionTyped'
  BY <1>32, SessionAssumption DEF SessionTyped, LockHeld, States, Terminal,
    FailClosed, At, CloseBrowser, memory, tables
<1>33. ASSUME NEW t \in Tasks, SaveEnds(t)
       PROVE  SessionTyped'
  BY <1>33, SessionAssumption DEF SessionTyped, LockHeld, States, Terminal, SaveEnds,
    Done, At, Written, memory, window, Finals, tables
<1>34. ASSUME NEW t \in Tasks, FinalSaveFails(t)
       PROVE  SessionTyped'
  BY <1>34, SessionAssumption DEF SessionTyped, LockHeld, States, Terminal,
    FinalSaveFails, Done, At, WriteFails, memory, window, tables
<1>35. ASSUME NEW t \in Tasks, SaveFailsTask(t)
       PROVE  SessionTyped'
  BY <1>35, SessionAssumption DEF SessionTyped, LockHeld, States, Terminal,
    SaveFailsTask, At, WriteFails, Fail, tables
<1>36. CASE UNCHANGED vars
  BY <1>36, SessionAssumption DEF SessionTyped, LockHeld, States, Terminal, vars,
    memory, window, tables
<1> QED
  BY <1>1, <1>2, <1>3, <1>4, <1>5, <1>6, <1>7, <1>8, <1>9, <1>10, <1>11, <1>12, <1>13,
    <1>14, <1>15, <1>16, <1>17, <1>18, <1>19, <1>20, <1>21, <1>22, <1>23, <1>24,
    <1>25, <1>26, <1>27, <1>28, <1>29, <1>30, <1>31, <1>32, <1>33, <1>34, <1>35, <1>36
    DEF Next, TaskStep, Outside, LaunchStep, RecordStep, FinishStep

(* Nobody finishes or cancels before the launch is recording.              *)
LEMMA LaunchFirstKept ==
    ASSUME PlacesTyped, LaunchFirst, [Next]_vars
    PROVE  LaunchFirst'
<1>1. CASE Started
  BY <1>1, Moved, Kinds DEF PlacesTyped, LaunchFirst, Launching, Started, At, Written,
    window, tables
<1>2. CASE BrowserOpens
  BY <1>2, Moved, Kinds DEF PlacesTyped, LaunchFirst, Launching, BrowserOpens, At,
    memory, tables
<1>3. CASE PageLoads
  BY <1>3, Moved, Kinds DEF PlacesTyped, LaunchFirst, Launching, PageLoads, At,
    memory, window, tables
<1>4. CASE LaunchFails
  BY <1>4, Moved, Kinds DEF PlacesTyped, LaunchFirst, Launching, LaunchFails, At,
    memory, tables
<1>5. CASE LaunchClosed
  BY <1>5, Moved, Kinds DEF PlacesTyped, LaunchFirst, Launching, LaunchClosed, At,
    tables
<1>6. CASE Announce
  BY <1>6, Moved, Kinds DEF PlacesTyped, LaunchFirst, Launching, Announce, At, memory,
    window, tables
<1>7. CASE AnnounceFails
  BY <1>7, Moved, Kinds DEF PlacesTyped, LaunchFirst, Launching, AnnounceFails, At,
    WriteFails, memory, tables
<1>8. CASE RecordingStarts
  BY <1>8, Moved, Kinds DEF PlacesTyped, LaunchFirst, Launching, RecordingStarts, At,
    Written, window, tables
<1>9. CASE ReportLoss
  BY <1>9, Moved, Kinds DEF PlacesTyped, LaunchFirst, Launching, ReportLoss, At, Fail,
    memory, window, tables
<1>10. CASE Start
  BY <1>10, Moved, Kinds DEF PlacesTyped, LaunchFirst, Launching, Start, At, memory,
    window, tables
<1>11. CASE BrowserLost
  BY <1>11, Moved, Kinds DEF PlacesTyped, LaunchFirst, Launching, BrowserLost, memory,
    tables, At
<1>12. ASSUME NEW a \in Actions, LockTaken(a)
       PROVE  LaunchFirst'
  BY <1>12, Moved, Kinds DEF PlacesTyped, LaunchFirst, Launching, LockTaken, At,
    Enter, window, tables
<1>13. ASSUME NEW a \in Actions, ActionAppended(a)
       PROVE  LaunchFirst'
  BY <1>13, Moved, Kinds DEF PlacesTyped, LaunchFirst, Launching, ActionAppended, At,
    memory, window, tables
<1>14. ASSUME NEW a \in Actions, AppendFails(a)
       PROVE  LaunchFirst'
  BY <1>14, Moved, Kinds DEF PlacesTyped, LaunchFirst, Launching, AppendFails, Done,
    At, memory, window, tables
<1>15. ASSUME NEW a \in Actions, Recorded(a)
       PROVE  LaunchFirst'
  BY <1>15, Moved, Kinds DEF PlacesTyped, LaunchFirst, Launching, Recorded, Done, At,
    Written, WriteFails, memory, window, tables
<1>16. ASSUME NEW a \in Actions, Record(a)
       PROVE  LaunchFirst'
  BY <1>16, Moved, Kinds DEF PlacesTyped, LaunchFirst, Launching, Record, At, Enter,
    memory, window, tables
<1>17. ASSUME NEW f \in Finishes, FinishRefused(f)
       PROVE  LaunchFirst'
  BY <1>17, Moved, Kinds DEF PlacesTyped, LaunchFirst, Launching, FinishRefused, Done,
    At, memory, window, tables
<1>18. ASSUME NEW f \in Finishes, FinishAccepted(f)
       PROVE  LaunchFirst'
  BY <1>18, Moved, Kinds DEF PlacesTyped, LaunchFirst, Launching, FinishAccepted, At,
    window, tables
<1>19. ASSUME NEW f \in Finishes, FinishFails(f)
       PROVE  LaunchFirst'
  BY <1>19, Moved, Kinds DEF PlacesTyped, LaunchFirst, Launching, FinishFails, Done,
    At, WriteFails, memory, window, tables
<1>20. ASSUME NEW f \in Finishes, FinishSaved(f)
       PROVE  LaunchFirst'
  BY <1>20, Moved, Kinds DEF PlacesTyped, LaunchFirst, Launching, FinishSaved, At,
    Written, memory, tables
<1>21. ASSUME NEW f \in Finishes, Finished(f)
       PROVE  LaunchFirst'
  BY <1>21, Moved, Kinds DEF PlacesTyped, LaunchFirst, Launching, Finished, At,
    CloseBrowser, tables
<1>22. ASSUME NEW f \in Finishes, GenerateScript(f)
       PROVE  LaunchFirst'
  BY <1>22, Moved, Kinds DEF PlacesTyped, LaunchFirst, Launching, GenerateScript, At,
    window, tables
<1>23. ASSUME NEW f \in Finishes, ScriptInvalid(f)
       PROVE  LaunchFirst'
  BY <1>23, Moved, Kinds DEF PlacesTyped, LaunchFirst, Launching, ScriptInvalid, At,
    Fail, tables
<1>24. ASSUME NEW f \in Finishes, Validated(f)
       PROVE  LaunchFirst'
  BY <1>24, Moved, Kinds DEF PlacesTyped, LaunchFirst, Launching, Validated, At,
    Written, memory, window, tables
<1>25. ASSUME NEW f \in Finishes, InsertScript(f)
       PROVE  LaunchFirst'
  BY <1>25, Moved, Kinds DEF PlacesTyped, LaunchFirst, Launching, InsertScript, At,
    memory, window
<1>26. ASSUME NEW f \in Finishes, InsertFails(f)
       PROVE  LaunchFirst'
  BY <1>26, Moved, Kinds DEF PlacesTyped, LaunchFirst, Launching, InsertFails, At,
    Fail, tables
<1>27. ASSUME NEW f \in Finishes, Publish(f)
       PROVE  LaunchFirst'
  BY <1>27, Moved, Kinds DEF PlacesTyped, LaunchFirst, Launching, Publish, At, window
<1>28. ASSUME NEW f \in Finishes, PublishFails(f)
       PROVE  LaunchFirst'
  BY <1>28, Moved, Kinds DEF PlacesTyped, LaunchFirst, Launching, PublishFails, At,
    Fail, tables
<1>29. ASSUME NEW f \in Finishes, Finish(f)
       PROVE  LaunchFirst'
  BY <1>29, Moved, Kinds DEF PlacesTyped, LaunchFirst, Launching, Finish, At, memory,
    window, tables
<1>30. ASSUME NEW c \in Cancels, Cancelled(c)
       PROVE  LaunchFirst'
  BY <1>30, Moved, Kinds DEF PlacesTyped, LaunchFirst, Launching, Cancelled, At,
    CloseBrowser, tables
<1>31. ASSUME NEW c \in Cancels, Cancel(c)
       PROVE  LaunchFirst'
  BY <1>31, Kinds DEF PlacesTyped, LaunchFirst, Launching, Terminal, Cancel, At, Stop,
    memory, tables, Stoppable
<1>32. ASSUME NEW t \in Tasks, FailClosed(t)
       PROVE  LaunchFirst'
  BY <1>32, Moved, Kinds DEF PlacesTyped, LaunchFirst, Launching, LaunchPlaces,
    ReportPlaces, ActionPlaces, FinishPlaces, CancelPlaces, Failing, FailClosed, At,
    CloseBrowser, memory, tables
<1>33. ASSUME NEW t \in Tasks, SaveEnds(t)
       PROVE  LaunchFirst'
  BY <1>33, Moved, Kinds DEF PlacesTyped, LaunchFirst, Launching, LaunchPlaces,
    ReportPlaces, ActionPlaces, FinishPlaces, CancelPlaces, Failing, SaveEnds, Done,
    At, Written, memory, window, Finals, tables
<1>34. ASSUME NEW t \in Tasks, FinalSaveFails(t)
       PROVE  LaunchFirst'
  BY <1>34, Moved, Kinds DEF PlacesTyped, LaunchFirst, Launching, LaunchPlaces,
    ReportPlaces, ActionPlaces, FinishPlaces, CancelPlaces, Failing, FinalSaveFails,
    Done, At, WriteFails, memory, window, tables
<1>35. ASSUME NEW t \in Tasks, SaveFailsTask(t)
       PROVE  LaunchFirst'
  <2>1. t = Launch \/ t \in Finishes
    BY <1>35, Kinds DEF PlacesTyped, ReportPlaces, ActionPlaces, CancelPlaces, Failing,
      Tasks, SaveFailsTask, At
  <2>2. CASE t = Launch
    <3>1. ~At(Launch, {"idle", "starting"} \cup Launching)'
      BY <1>35, <2>2, Moved DEF SaveFailsTask, Fail, At, Launching
    <3> QED
      BY <3>1 DEF LaunchFirst, At
  <2>3. CASE t \in Finishes
    <3>1. ~At(Launch, {"idle", "starting"} \cup Launching)
      BY <1>35, <2>3 DEF SaveFailsTask, At, LaunchFirst
    <3>2. at'[Launch] = at[Launch]
      BY <1>35, <2>3, Moved, Kinds DEF SaveFailsTask, Fail
    <3> QED
      BY <3>1, <3>2 DEF LaunchFirst, At
  <2> QED
    BY <2>1, <2>2, <2>3
<1>36. CASE UNCHANGED vars
  BY <1>36 DEF LaunchFirst, At, vars, memory, window, tables
<1> QED
  BY <1>1, <1>2, <1>3, <1>4, <1>5, <1>6, <1>7, <1>8, <1>9, <1>10, <1>11, <1>12, <1>13,
    <1>14, <1>15, <1>16, <1>17, <1>18, <1>19, <1>20, <1>21, <1>22, <1>23, <1>24,
    <1>25, <1>26, <1>27, <1>28, <1>29, <1>30, <1>31, <1>32, <1>33, <1>34, <1>35, <1>36
    DEF Next, TaskStep, Outside, LaunchStep, RecordStep, FinishStep

(* The script is stored once, and by whoever publishes.                    *)
LEMMA ScriptStoredKept ==
    ASSUME SessionTyped, PlacesTyped, ScriptStored, [Next]_vars
    PROVE  ScriptStored'
<1>1. CASE Started
  BY <1>1, Moved, Kinds, DistinctAssumption DEF PlacesTyped, ScriptStored,
    SessionTyped, Started, At, Written, window, tables
<1>2. CASE BrowserOpens
  BY <1>2, Moved, Kinds, DistinctAssumption DEF PlacesTyped, ScriptStored,
    SessionTyped, BrowserOpens, At, memory, tables
<1>3. CASE PageLoads
  BY <1>3, Moved, Kinds, DistinctAssumption DEF PlacesTyped, ScriptStored,
    SessionTyped, PageLoads, At, memory, window, tables
<1>4. CASE LaunchFails
  BY <1>4, Moved, Kinds, DistinctAssumption DEF PlacesTyped, ScriptStored,
    SessionTyped, LaunchFails, At, memory, tables
<1>5. CASE LaunchClosed
  BY <1>5, Moved, Kinds, DistinctAssumption DEF PlacesTyped, ScriptStored,
    SessionTyped, LaunchClosed, At, tables
<1>6. CASE Announce
  BY <1>6, Moved, Kinds, DistinctAssumption DEF PlacesTyped, ScriptStored,
    SessionTyped, Announce, At, memory, window, tables
<1>7. CASE AnnounceFails
  BY <1>7, Moved, Kinds, DistinctAssumption DEF PlacesTyped, ScriptStored,
    SessionTyped, AnnounceFails, At, WriteFails, memory, tables
<1>8. CASE RecordingStarts
  BY <1>8, Moved, Kinds, DistinctAssumption DEF PlacesTyped, ScriptStored,
    SessionTyped, RecordingStarts, At, Written, window, tables
<1>9. CASE ReportLoss
  BY <1>9, Moved, Kinds, DistinctAssumption DEF PlacesTyped, ScriptStored,
    SessionTyped, ReportLoss, At, Fail, memory, window, tables
<1>10. CASE Start
  BY <1>10, Moved, Kinds, DistinctAssumption DEF PlacesTyped, ScriptStored,
    SessionTyped, Start, At, memory, window, tables
<1>11. CASE BrowserLost
  BY <1>11, Moved, Kinds, DistinctAssumption DEF PlacesTyped, ScriptStored,
    SessionTyped, BrowserLost, memory, tables, At
<1>12. ASSUME NEW a \in Actions, LockTaken(a)
       PROVE  ScriptStored'
  BY <1>12, Moved, Kinds, DistinctAssumption DEF PlacesTyped, ScriptStored,
    SessionTyped, LockTaken, At, Enter, window, tables
<1>13. ASSUME NEW a \in Actions, ActionAppended(a)
       PROVE  ScriptStored'
  BY <1>13, Moved, Kinds, DistinctAssumption DEF PlacesTyped, ScriptStored,
    SessionTyped, ActionAppended, At, memory, window, tables
<1>14. ASSUME NEW a \in Actions, AppendFails(a)
       PROVE  ScriptStored'
  BY <1>14, Moved, Kinds, DistinctAssumption DEF PlacesTyped, ScriptStored,
    SessionTyped, AppendFails, Done, At, memory, window, tables
<1>15. ASSUME NEW a \in Actions, Recorded(a)
       PROVE  ScriptStored'
  BY <1>15, Moved, Kinds, DistinctAssumption DEF PlacesTyped, ScriptStored,
    SessionTyped, Recorded, Done, At, Written, WriteFails, memory, window, tables
<1>16. ASSUME NEW a \in Actions, Record(a)
       PROVE  ScriptStored'
  BY <1>16, Moved, Kinds, DistinctAssumption DEF PlacesTyped, ScriptStored,
    SessionTyped, Record, At, Enter, memory, window, tables
<1>17. ASSUME NEW f \in Finishes, FinishRefused(f)
       PROVE  ScriptStored'
  BY <1>17, Moved, Kinds, DistinctAssumption DEF PlacesTyped, ScriptStored,
    SessionTyped, FinishRefused, Done, At, memory, window, tables
<1>18. ASSUME NEW f \in Finishes, FinishAccepted(f)
       PROVE  ScriptStored'
  BY <1>18, Moved, Kinds, DistinctAssumption DEF PlacesTyped, ScriptStored,
    SessionTyped, FinishAccepted, At, window, tables
<1>19. ASSUME NEW f \in Finishes, FinishFails(f)
       PROVE  ScriptStored'
  BY <1>19, Moved, Kinds, DistinctAssumption DEF PlacesTyped, ScriptStored,
    SessionTyped, FinishFails, Done, At, WriteFails, memory, window, tables
<1>20. ASSUME NEW f \in Finishes, FinishSaved(f)
       PROVE  ScriptStored'
  BY <1>20, Moved, Kinds, DistinctAssumption DEF PlacesTyped, ScriptStored,
    SessionTyped, FinishSaved, At, Written, memory, tables
<1>21. ASSUME NEW f \in Finishes, Finished(f)
       PROVE  ScriptStored'
  BY <1>21, Moved, Kinds, DistinctAssumption DEF PlacesTyped, ScriptStored,
    SessionTyped, Finished, At, CloseBrowser, tables
<1>22. ASSUME NEW f \in Finishes, GenerateScript(f)
       PROVE  ScriptStored'
  BY <1>22, Moved, Kinds, DistinctAssumption DEF PlacesTyped, ScriptStored,
    SessionTyped, GenerateScript, At, window, tables
<1>23. ASSUME NEW f \in Finishes, ScriptInvalid(f)
       PROVE  ScriptStored'
  BY <1>23, Moved, Kinds, DistinctAssumption DEF PlacesTyped, ScriptStored,
    SessionTyped, ScriptInvalid, At, Fail, tables
<1>24. ASSUME NEW f \in Finishes, Validated(f)
       PROVE  ScriptStored'
  BY <1>24, Moved, Kinds, DistinctAssumption DEF PlacesTyped, ScriptStored,
    SessionTyped, Validated, At, Written, memory, window, tables
<1>25. ASSUME NEW f \in Finishes, InsertScript(f)
       PROVE  ScriptStored'
  BY <1>25, Moved, Kinds, DistinctAssumption DEF PlacesTyped, ScriptStored,
    SessionTyped, InsertScript, At, memory, window
<1>26. ASSUME NEW f \in Finishes, InsertFails(f)
       PROVE  ScriptStored'
  BY <1>26, Moved, Kinds, DistinctAssumption DEF PlacesTyped, ScriptStored,
    SessionTyped, InsertFails, At, Fail, tables
<1>27. ASSUME NEW f \in Finishes, Publish(f)
       PROVE  ScriptStored'
  BY <1>27, Moved, Kinds, DistinctAssumption DEF PlacesTyped, ScriptStored,
    SessionTyped, Publish, At, window
<1>28. ASSUME NEW f \in Finishes, PublishFails(f)
       PROVE  ScriptStored'
  BY <1>28, Moved, Kinds, DistinctAssumption DEF PlacesTyped, ScriptStored,
    SessionTyped, PublishFails, At, Fail, tables
<1>29. ASSUME NEW f \in Finishes, Finish(f)
       PROVE  ScriptStored'
  BY <1>29, Moved, Kinds, DistinctAssumption DEF PlacesTyped, ScriptStored,
    SessionTyped, Finish, At, memory, window, tables
<1>30. ASSUME NEW c \in Cancels, Cancelled(c)
       PROVE  ScriptStored'
  BY <1>30, Moved, Kinds, DistinctAssumption DEF PlacesTyped, ScriptStored,
    SessionTyped, Cancelled, At, CloseBrowser, tables
<1>31. ASSUME NEW c \in Cancels, Cancel(c)
       PROVE  ScriptStored'
  BY <1>31, DistinctAssumption DEF PlacesTyped, Tasks, ScriptStored, Cancel, At, Stop,
    memory, tables, Stoppable
<1>32. ASSUME NEW t \in Tasks, FailClosed(t)
       PROVE  ScriptStored'
  BY <1>32, Moved, Kinds, DistinctAssumption DEF PlacesTyped, ScriptStored,
    SessionTyped, FailClosed, At, CloseBrowser, memory, tables
<1>33. ASSUME NEW t \in Tasks, SaveEnds(t)
       PROVE  ScriptStored'
  BY <1>33, Moved, Kinds, DistinctAssumption DEF PlacesTyped, ScriptStored,
    SessionTyped, SaveEnds, Done, At, Written, memory, window, Finals, tables
<1>34. ASSUME NEW t \in Tasks, FinalSaveFails(t)
       PROVE  ScriptStored'
  BY <1>34, Moved, Kinds, DistinctAssumption DEF PlacesTyped, ScriptStored,
    SessionTyped, FinalSaveFails, Done, At, WriteFails, memory, window, tables
<1>35. ASSUME NEW t \in Tasks, SaveFailsTask(t)
       PROVE  ScriptStored'
  BY <1>35, Moved, Kinds, DistinctAssumption DEF PlacesTyped, ScriptStored,
    SessionTyped, SaveFailsTask, At, WriteFails, Fail, tables
<1>36. CASE UNCHANGED vars
  BY <1>36 DEF ScriptStored, At, vars, memory, window, tables
<1> QED
  BY <1>1, <1>2, <1>3, <1>4, <1>5, <1>6, <1>7, <1>8, <1>9, <1>10, <1>11, <1>12, <1>13,
    <1>14, <1>15, <1>16, <1>17, <1>18, <1>19, <1>20, <1>21, <1>22, <1>23, <1>24,
    <1>25, <1>26, <1>27, <1>28, <1>29, <1>30, <1>31, <1>32, <1>33, <1>34, <1>35, <1>36
    DEF Next, TaskStep, Outside, LaunchStep, RecordStep, FinishStep

(* The lock is passed on in the order in which it was asked for.           *)
LEMMA LockHeldKept ==
    ASSUME SessionTyped, PlacesTyped, LockHeld, [Next]_vars
    PROVE  LockHeld'
<1>1. CASE Started
  BY <1>1, Moved, Kinds, DistinctAssumption DEF PlacesTyped, LockHeld, SessionTyped,
    Started, At, Written, window, tables
<1>2. CASE BrowserOpens
  BY <1>2, Moved, Kinds, DistinctAssumption DEF PlacesTyped, LockHeld, SessionTyped,
    BrowserOpens, At, memory, tables
<1>3. CASE PageLoads
  BY <1>3, Moved, Kinds, DistinctAssumption DEF PlacesTyped, LockHeld, SessionTyped,
    PageLoads, At, memory, window, tables
<1>4. CASE LaunchFails
  BY <1>4, Moved, Kinds, DistinctAssumption DEF PlacesTyped, LockHeld, SessionTyped,
    LaunchFails, At, memory, tables
<1>5. CASE LaunchClosed
  BY <1>5, Moved, Kinds, DistinctAssumption DEF PlacesTyped, LockHeld, SessionTyped,
    LaunchClosed, At, tables
<1>6. CASE Announce
  BY <1>6, Moved, Kinds, DistinctAssumption DEF PlacesTyped, LockHeld, SessionTyped,
    Announce, At, memory, window, tables
<1>7. CASE AnnounceFails
  BY <1>7, Moved, Kinds, DistinctAssumption DEF PlacesTyped, LockHeld, SessionTyped,
    AnnounceFails, At, WriteFails, memory, tables
<1>8. CASE RecordingStarts
  BY <1>8, Moved, Kinds, DistinctAssumption DEF PlacesTyped, LockHeld, SessionTyped,
    RecordingStarts, At, Written, window, tables
<1>9. CASE ReportLoss
  BY <1>9, Moved, Kinds, DistinctAssumption DEF PlacesTyped, LockHeld, SessionTyped,
    ReportLoss, At, Fail, memory, window, tables
<1>10. CASE Start
  BY <1>10, Moved, Kinds, DistinctAssumption DEF PlacesTyped, LockHeld, SessionTyped,
    Start, At, memory, window, tables
<1>11. CASE BrowserLost
  BY <1>11, Moved, Kinds, DistinctAssumption DEF PlacesTyped, LockHeld, SessionTyped,
    BrowserLost, memory, tables, At
<1>12. ASSUME NEW a \in Actions, LockTaken(a)
       PROVE  LockHeld'
  BY <1>12, Moved, Kinds, DistinctAssumption DEF PlacesTyped, LockHeld, SessionTyped,
    LockTaken, At, Enter, window, tables
<1>13. ASSUME NEW a \in Actions, ActionAppended(a)
       PROVE  LockHeld'
  BY <1>13, Moved, Kinds, DistinctAssumption DEF PlacesTyped, LockHeld, SessionTyped,
    ActionAppended, At, memory, window, tables
<1>14. ASSUME NEW a \in Actions, AppendFails(a)
       PROVE  LockHeld'
  BY <1>14, Moved, Kinds, DistinctAssumption DEF PlacesTyped, LockHeld, SessionTyped,
    AppendFails, Done, At, memory, window, tables
<1>15. ASSUME NEW a \in Actions, Recorded(a)
       PROVE  LockHeld'
  BY <1>15, Moved, Kinds, DistinctAssumption DEF PlacesTyped, LockHeld, SessionTyped,
    Recorded, Done, At, Written, WriteFails, memory, window, tables
<1>16. ASSUME NEW a \in Actions, Record(a)
       PROVE  LockHeld'
  BY <1>16, Moved, Kinds, DistinctAssumption DEF PlacesTyped, LockHeld, SessionTyped,
    Record, At, Enter, memory, window, tables
<1>17. ASSUME NEW f \in Finishes, FinishRefused(f)
       PROVE  LockHeld'
  BY <1>17, Moved, Kinds, DistinctAssumption DEF PlacesTyped, LockHeld, SessionTyped,
    FinishRefused, Done, At, memory, window, tables
<1>18. ASSUME NEW f \in Finishes, FinishAccepted(f)
       PROVE  LockHeld'
  BY <1>18, Moved, Kinds, DistinctAssumption DEF PlacesTyped, LockHeld, SessionTyped,
    FinishAccepted, At, window, tables
<1>19. ASSUME NEW f \in Finishes, FinishFails(f)
       PROVE  LockHeld'
  BY <1>19, Moved, Kinds, DistinctAssumption DEF PlacesTyped, LockHeld, SessionTyped,
    FinishFails, Done, At, WriteFails, memory, window, tables
<1>20. ASSUME NEW f \in Finishes, FinishSaved(f)
       PROVE  LockHeld'
  BY <1>20, Moved, Kinds, DistinctAssumption DEF PlacesTyped, LockHeld, SessionTyped,
    FinishSaved, At, Written, memory, tables
<1>21. ASSUME NEW f \in Finishes, Finished(f)
       PROVE  LockHeld'
  BY <1>21, Moved, Kinds, DistinctAssumption DEF PlacesTyped, LockHeld, SessionTyped,
    Finished, At, CloseBrowser, tables
<1>22. ASSUME NEW f \in Finishes, GenerateScript(f)
       PROVE  LockHeld'
  BY <1>22, Moved, Kinds, DistinctAssumption DEF PlacesTyped, LockHeld, SessionTyped,
    GenerateScript, At, window, tables
<1>23. ASSUME NEW f \in Finishes, ScriptInvalid(f)
       PROVE  LockHeld'
  BY <1>23, Moved, Kinds, DistinctAssumption DEF PlacesTyped, LockHeld, SessionTyped,
    ScriptInvalid, At, Fail, tables
<1>24. ASSUME NEW f \in Finishes, Validated(f)
       PROVE  LockHeld'
  BY <1>24, Moved, Kinds, DistinctAssumption DEF PlacesTyped, LockHeld, SessionTyped,
    Validated, At, Written, memory, window, tables
<1>25. ASSUME NEW f \in Finishes, InsertScript(f)
       PROVE  LockHeld'
  BY <1>25, Moved, Kinds, DistinctAssumption DEF PlacesTyped, LockHeld, SessionTyped,
    InsertScript, At, memory, window
<1>26. ASSUME NEW f \in Finishes, InsertFails(f)
       PROVE  LockHeld'
  BY <1>26, Moved, Kinds, DistinctAssumption DEF PlacesTyped, LockHeld, SessionTyped,
    InsertFails, At, Fail, tables
<1>27. ASSUME NEW f \in Finishes, Publish(f)
       PROVE  LockHeld'
  BY <1>27, Moved, Kinds, DistinctAssumption DEF PlacesTyped, LockHeld, SessionTyped,
    Publish, At, window
<1>28. ASSUME NEW f \in Finishes, PublishFails(f)
       PROVE  LockHeld'
  BY <1>28, Moved, Kinds, DistinctAssumption DEF PlacesTyped, LockHeld, SessionTyped,
    PublishFails, At, Fail, tables
<1>29. ASSUME NEW f \in Finishes, Finish(f)
       PROVE  LockHeld'
  BY <1>29, Moved, Kinds, DistinctAssumption DEF PlacesTyped, LockHeld, SessionTyped,
    Finish, At, memory, window, tables
<1>30. ASSUME NEW c \in Cancels, Cancelled(c)
       PROVE  LockHeld'
  BY <1>30, Moved, Kinds, DistinctAssumption DEF PlacesTyped, LockHeld, SessionTyped,
    Cancelled, At, CloseBrowser, tables
<1>31. ASSUME NEW c \in Cancels, Cancel(c)
       PROVE  LockHeld'
  BY <1>31, DistinctAssumption DEF PlacesTyped, Tasks, LockHeld, SessionTyped, Cancel,
    At, Stop, memory, tables, Stoppable
<1>32. ASSUME NEW t \in Tasks, FailClosed(t)
       PROVE  LockHeld'
  BY <1>32, Moved, Kinds, DistinctAssumption DEF PlacesTyped, LockHeld, SessionTyped,
    FailClosed, At, CloseBrowser, memory, tables
<1>33. ASSUME NEW t \in Tasks, SaveEnds(t)
       PROVE  LockHeld'
  BY <1>33, Moved, Kinds, DistinctAssumption DEF PlacesTyped, LockHeld, SessionTyped,
    SaveEnds, Done, At, Written, memory, window, Finals, tables
<1>34. ASSUME NEW t \in Tasks, FinalSaveFails(t)
       PROVE  LockHeld'
  BY <1>34, Moved, Kinds, DistinctAssumption DEF PlacesTyped, LockHeld, SessionTyped,
    FinalSaveFails, Done, At, WriteFails, memory, window, tables
<1>35. ASSUME NEW t \in Tasks, SaveFailsTask(t)
       PROVE  LockHeld'
  BY <1>35, Moved, Kinds, DistinctAssumption DEF PlacesTyped, LockHeld, SessionTyped,
    SaveFailsTask, At, WriteFails, Fail, tables
<1>36. CASE UNCHANGED vars
  BY <1>36 DEF LockHeld, At, vars, memory, window, tables
<1> QED
  BY <1>1, <1>2, <1>3, <1>4, <1>5, <1>6, <1>7, <1>8, <1>9, <1>10, <1>11, <1>12, <1>13,
    <1>14, <1>15, <1>16, <1>17, <1>18, <1>19, <1>20, <1>21, <1>22, <1>23, <1>24,
    <1>25, <1>26, <1>27, <1>28, <1>29, <1>30, <1>31, <1>32, <1>33, <1>34, <1>35, <1>36
    DEF Next, TaskStep, Outside, LaunchStep, RecordStep, FinishStep

(* Whoever ends the session closes its browser.                            *)
LEMMA BrowserClosingKept ==
    ASSUME PlacesTyped, LaunchFirst, BrowserClosing, [Next]_vars
    PROVE  BrowserClosing'
<1>1. CASE Started
  BY <1>1, Moved, Kinds DEF BrowserClosing, LaunchFirst, Launching, Terminal, Started,
    At, Written, window, tables
<1>2. CASE BrowserOpens
  BY <1>2, Moved, Kinds DEF BrowserClosing, LaunchFirst, Launching, Terminal,
    BrowserOpens, At, memory, tables
<1>3. CASE PageLoads
  BY <1>3, Moved, Kinds DEF BrowserClosing, LaunchFirst, Launching, Terminal,
    PageLoads, At, memory, window, tables
<1>4. CASE LaunchFails
  BY <1>4, Moved, Kinds DEF BrowserClosing, LaunchFirst, Launching, Terminal,
    LaunchFails, At, memory, tables
<1>5. CASE LaunchClosed
  BY <1>5, Moved, Kinds DEF BrowserClosing, LaunchFirst, Launching, Terminal,
    LaunchClosed, At, tables
<1>6. CASE Announce
  BY <1>6, Moved, Kinds DEF BrowserClosing, LaunchFirst, Launching, Terminal,
    Announce, At, memory, window, tables
<1>7. CASE AnnounceFails
  BY <1>7, Moved, Kinds DEF BrowserClosing, LaunchFirst, Launching, Terminal,
    AnnounceFails, At, WriteFails, memory, tables
<1>8. CASE RecordingStarts
  BY <1>8, Moved, Kinds DEF BrowserClosing, LaunchFirst, Launching, Terminal,
    RecordingStarts, At, Written, window, tables
<1>9. CASE ReportLoss
  BY <1>9, Moved, Kinds DEF BrowserClosing, LaunchFirst, Launching, Terminal,
    ReportLoss, At, Fail, memory, window, tables
<1>10. CASE Start
  BY <1>10, Moved, Kinds DEF BrowserClosing, LaunchFirst, Launching, Terminal, Start,
    At, memory, window, tables
<1>11. CASE BrowserLost
  BY <1>11, Moved, Kinds DEF BrowserClosing, LaunchFirst, Launching, Terminal,
    BrowserLost, memory, tables, At
<1>12. ASSUME NEW a \in Actions, LockTaken(a)
       PROVE  BrowserClosing'
  BY <1>12, Moved, Kinds DEF BrowserClosing, LaunchFirst, Launching, Terminal,
    LockTaken, At, Enter, window, tables
<1>13. ASSUME NEW a \in Actions, ActionAppended(a)
       PROVE  BrowserClosing'
  BY <1>13, Moved, Kinds DEF BrowserClosing, LaunchFirst, Launching, Terminal,
    ActionAppended, At, memory, window, tables
<1>14. ASSUME NEW a \in Actions, AppendFails(a)
       PROVE  BrowserClosing'
  BY <1>14, Moved, Kinds DEF BrowserClosing, LaunchFirst, Launching, Terminal,
    AppendFails, Done, At, memory, window, tables
<1>15. ASSUME NEW a \in Actions, Recorded(a)
       PROVE  BrowserClosing'
  BY <1>15, Moved, Kinds DEF BrowserClosing, LaunchFirst, Launching, Terminal,
    Recorded, Done, At, Written, WriteFails, memory, window, tables
<1>16. ASSUME NEW a \in Actions, Record(a)
       PROVE  BrowserClosing'
  BY <1>16, Moved, Kinds DEF BrowserClosing, LaunchFirst, Launching, Terminal, Record,
    At, Enter, memory, window, tables
<1>17. ASSUME NEW f \in Finishes, FinishRefused(f)
       PROVE  BrowserClosing'
  BY <1>17, Moved, Kinds DEF BrowserClosing, LaunchFirst, Launching, Terminal,
    FinishRefused, Done, At, memory, window, tables
<1>18. ASSUME NEW f \in Finishes, FinishAccepted(f)
       PROVE  BrowserClosing'
  BY <1>18, Moved, Kinds DEF BrowserClosing, LaunchFirst, Launching, Terminal,
    FinishAccepted, At, window, tables
<1>19. ASSUME NEW f \in Finishes, FinishFails(f)
       PROVE  BrowserClosing'
  BY <1>19, Moved, Kinds DEF BrowserClosing, LaunchFirst, Launching, Terminal,
    FinishFails, Done, At, WriteFails, memory, window, tables
<1>20. ASSUME NEW f \in Finishes, FinishSaved(f)
       PROVE  BrowserClosing'
  BY <1>20, Moved, Kinds DEF BrowserClosing, LaunchFirst, Launching, Terminal,
    FinishSaved, At, Written, memory, tables
<1>21. ASSUME NEW f \in Finishes, Finished(f)
       PROVE  BrowserClosing'
  BY <1>21, Moved, Kinds DEF BrowserClosing, LaunchFirst, Launching, Terminal,
    Finished, At, CloseBrowser, tables
<1>22. ASSUME NEW f \in Finishes, GenerateScript(f)
       PROVE  BrowserClosing'
  BY <1>22, Moved, Kinds DEF BrowserClosing, LaunchFirst, Launching, Terminal,
    GenerateScript, At, window, tables
<1>23. ASSUME NEW f \in Finishes, ScriptInvalid(f)
       PROVE  BrowserClosing'
  BY <1>23, Moved, Kinds DEF BrowserClosing, LaunchFirst, Launching, Terminal,
    ScriptInvalid, At, Fail, tables
<1>24. ASSUME NEW f \in Finishes, Validated(f)
       PROVE  BrowserClosing'
  BY <1>24, Moved, Kinds DEF BrowserClosing, LaunchFirst, Launching, Terminal,
    Validated, At, Written, memory, window, tables
<1>25. ASSUME NEW f \in Finishes, InsertScript(f)
       PROVE  BrowserClosing'
  BY <1>25, Moved, Kinds DEF BrowserClosing, LaunchFirst, Launching, Terminal,
    InsertScript, At, memory, window
<1>26. ASSUME NEW f \in Finishes, InsertFails(f)
       PROVE  BrowserClosing'
  BY <1>26, Moved, Kinds DEF BrowserClosing, LaunchFirst, Launching, Terminal,
    InsertFails, At, Fail, tables
<1>27. ASSUME NEW f \in Finishes, Publish(f)
       PROVE  BrowserClosing'
  BY <1>27, Moved, Kinds DEF BrowserClosing, LaunchFirst, Launching, Terminal,
    Publish, At, window
<1>28. ASSUME NEW f \in Finishes, PublishFails(f)
       PROVE  BrowserClosing'
  BY <1>28, Moved, Kinds DEF BrowserClosing, LaunchFirst, Launching, Terminal,
    PublishFails, At, Fail, tables
<1>29. ASSUME NEW f \in Finishes, Finish(f)
       PROVE  BrowserClosing'
  BY <1>29, Moved, Kinds DEF BrowserClosing, LaunchFirst, Launching, Terminal, Finish,
    At, memory, window, tables
<1>30. ASSUME NEW c \in Cancels, Cancelled(c)
       PROVE  BrowserClosing'
  BY <1>30, Moved, Kinds DEF BrowserClosing, LaunchFirst, Launching, Terminal,
    Cancelled, At, CloseBrowser, tables
<1>31. ASSUME NEW c \in Cancels, Cancel(c)
       PROVE  BrowserClosing'
  BY <1>31, Kinds DEF PlacesTyped, BrowserClosing, Terminal, Cancel, At, Stop, memory,
    tables, Stoppable
<1>32. ASSUME NEW t \in Tasks, FailClosed(t)
       PROVE  BrowserClosing'
  BY <1>32, Moved, Kinds DEF BrowserClosing, LaunchFirst, Launching, Terminal,
    FailClosed, At, CloseBrowser, memory, tables
<1>33. ASSUME NEW t \in Tasks, SaveEnds(t)
       PROVE  BrowserClosing'
  BY <1>33, Moved, Kinds DEF BrowserClosing, LaunchFirst, Launching, Terminal,
    SaveEnds, Done, At, Written, memory, window, Finals, tables
<1>34. ASSUME NEW t \in Tasks, FinalSaveFails(t)
       PROVE  BrowserClosing'
  BY <1>34, Moved, Kinds DEF BrowserClosing, LaunchFirst, Launching, Terminal,
    FinalSaveFails, Done, At, WriteFails, memory, window, tables
<1>35. ASSUME NEW t \in Tasks, SaveFailsTask(t)
       PROVE  BrowserClosing'
  BY <1>35, Moved, Kinds DEF BrowserClosing, LaunchFirst, Launching, Terminal,
    SaveFailsTask, At, WriteFails, Fail, tables
<1>36. CASE UNCHANGED vars
  BY <1>36 DEF BrowserClosing, At, vars, memory, window, tables
<1> QED
  BY <1>1, <1>2, <1>3, <1>4, <1>5, <1>6, <1>7, <1>8, <1>9, <1>10, <1>11, <1>12, <1>13,
    <1>14, <1>15, <1>16, <1>17, <1>18, <1>19, <1>20, <1>21, <1>22, <1>23, <1>24,
    <1>25, <1>26, <1>27, <1>28, <1>29, <1>30, <1>31, <1>32, <1>33, <1>34, <1>35, <1>36
    DEF Next, TaskStep, Outside, LaunchStep, RecordStep, FinishStep
-----------------------------------------------------------------------------
(* What a step may make of a session that is over.                         *)
OverStep == ~FinishUnderWay /\ state \in Terminal => state' \in {state, "cancelled", "failed"}

(* Such a step neither starts the recording nor goes on with a generation. *)
LEMMA OverStepTaken ==
    ASSUME LaunchFirst, [Next]_vars
    PROVE  OverStep
<1>1. CASE Started
  BY <1>1 DEF OverStep, FinishUnderWay, LaunchFirst, Launching, Terminal, Started, At,
    Written, window, tables
<1>2. CASE BrowserOpens
  BY <1>2 DEF OverStep, FinishUnderWay, LaunchFirst, Launching, Terminal,
    BrowserOpens, At, memory, tables
<1>3. CASE PageLoads
  BY <1>3 DEF OverStep, FinishUnderWay, LaunchFirst, Launching, Terminal, PageLoads,
    At, memory, window, tables
<1>4. CASE LaunchFails
  BY <1>4 DEF OverStep, FinishUnderWay, LaunchFirst, Launching, Terminal, LaunchFails,
    At, memory, tables
<1>5. CASE LaunchClosed
  BY <1>5 DEF OverStep, FinishUnderWay, LaunchFirst, Launching, Terminal,
    LaunchClosed, At, tables
<1>6. CASE Announce
  BY <1>6 DEF OverStep, FinishUnderWay, LaunchFirst, Launching, Terminal, Announce,
    At, memory, window, tables
<1>7. CASE AnnounceFails
  BY <1>7 DEF OverStep, FinishUnderWay, LaunchFirst, Launching, Terminal,
    AnnounceFails, At, WriteFails, memory, tables
<1>8. CASE RecordingStarts
  BY <1>8 DEF OverStep, FinishUnderWay, LaunchFirst, Launching, Terminal,
    RecordingStarts, At, Written, window, tables
<1>9. CASE ReportLoss
  BY <1>9 DEF OverStep, FinishUnderWay, LaunchFirst, Launching, Terminal, ReportLoss,
    At, Fail, memory, window, tables
<1>10. CASE Start
  BY <1>10 DEF OverStep, FinishUnderWay, LaunchFirst, Launching, Terminal, Start, At,
    memory, window, tables
<1>11. CASE BrowserLost
  BY <1>11 DEF OverStep, FinishUnderWay, LaunchFirst, Launching, Terminal,
    BrowserLost, memory, tables
<1>12. ASSUME NEW a \in Actions, LockTaken(a)
       PROVE  OverStep
  BY <1>12 DEF OverStep, FinishUnderWay, LaunchFirst, Launching, Terminal, LockTaken,
    At, Enter, window, tables
<1>13. ASSUME NEW a \in Actions, ActionAppended(a)
       PROVE  OverStep
  BY <1>13 DEF OverStep, FinishUnderWay, LaunchFirst, Launching, Terminal,
    ActionAppended, At, memory, window, tables
<1>14. ASSUME NEW a \in Actions, AppendFails(a)
       PROVE  OverStep
  BY <1>14 DEF OverStep, FinishUnderWay, LaunchFirst, Launching, Terminal,
    AppendFails, Done, At, memory, window, tables
<1>15. ASSUME NEW a \in Actions, Recorded(a)
       PROVE  OverStep
  BY <1>15 DEF OverStep, FinishUnderWay, LaunchFirst, Launching, Terminal, Recorded,
    Done, At, Written, WriteFails, memory, window, tables
<1>16. ASSUME NEW a \in Actions, Record(a)
       PROVE  OverStep
  BY <1>16 DEF OverStep, FinishUnderWay, LaunchFirst, Launching, Terminal, Record, At,
    Enter, memory, window, tables
<1>17. ASSUME NEW f \in Finishes, FinishRefused(f)
       PROVE  OverStep
  BY <1>17 DEF OverStep, FinishUnderWay, LaunchFirst, Launching, Terminal,
    FinishRefused, Done, At, memory, window, tables
<1>18. ASSUME NEW f \in Finishes, FinishAccepted(f)
       PROVE  OverStep
  BY <1>18 DEF OverStep, FinishUnderWay, LaunchFirst, Launching, Terminal,
    FinishAccepted, At, window, tables
<1>19. ASSUME NEW f \in Finishes, FinishFails(f)
       PROVE  OverStep
  BY <1>19 DEF OverStep, FinishUnderWay, LaunchFirst, Launching, Terminal,
    FinishFails, Done, At, WriteFails, memory, window, tables
<1>20. ASSUME NEW f \in Finishes, FinishSaved(f)
       PROVE  OverStep
  BY <1>20 DEF OverStep, FinishUnderWay, LaunchFirst, Launching, Terminal,
    FinishSaved, At, Written, memory, tables
<1>21. ASSUME NEW f \in Finishes, Finished(f)
       PROVE  OverStep
  BY <1>21 DEF OverStep, FinishUnderWay, LaunchFirst, Launching, Terminal, Finished,
    At, CloseBrowser, tables
<1>22. ASSUME NEW f \in Finishes, GenerateScript(f)
       PROVE  OverStep
  BY <1>22 DEF OverStep, FinishUnderWay, LaunchFirst, Launching, Terminal,
    GenerateScript, At, window, tables
<1>23. ASSUME NEW f \in Finishes, ScriptInvalid(f)
       PROVE  OverStep
  BY <1>23 DEF OverStep, FinishUnderWay, LaunchFirst, Launching, Terminal,
    ScriptInvalid, At, Fail, tables
<1>24. ASSUME NEW f \in Finishes, Validated(f)
       PROVE  OverStep
  BY <1>24 DEF OverStep, FinishUnderWay, LaunchFirst, Launching, Terminal, Validated,
    At, Written, memory, window, tables
<1>25. ASSUME NEW f \in Finishes, InsertScript(f)
       PROVE  OverStep
  BY <1>25 DEF OverStep, FinishUnderWay, LaunchFirst, Launching, Terminal,
    InsertScript, At, memory, window
<1>26. ASSUME NEW f \in Finishes, InsertFails(f)
       PROVE  OverStep
  BY <1>26 DEF OverStep, FinishUnderWay, LaunchFirst, Launching, Terminal,
    InsertFails, At, Fail, tables
<1>27. ASSUME NEW f \in Finishes, Publish(f)
       PROVE  OverStep
  BY <1>27 DEF OverStep, FinishUnderWay, LaunchFirst, Launching, Terminal, Publish,
    At, window
<1>28. ASSUME NEW f \in Finishes, PublishFails(f)
       PROVE  OverStep
  BY <1>28 DEF OverStep, FinishUnderWay, LaunchFirst, Launching, Terminal,
    PublishFails, At, Fail, tables
<1>29. ASSUME NEW f \in Finishes, Finish(f)
       PROVE  OverStep
  BY <1>29 DEF OverStep, FinishUnderWay, LaunchFirst, Launching, Terminal, Finish, At,
    memory, window, tables
<1>30. ASSUME NEW c \in Cancels, Cancelled(c)
       PROVE  OverStep
  BY <1>30 DEF OverStep, FinishUnderWay, LaunchFirst, Launching, Terminal, Cancelled,
    At, CloseBrowser, tables
<1>31. ASSUME NEW c \in Cancels, Cancel(c)
       PROVE  OverStep
  BY <1>31 DEF OverStep, FinishUnderWay, LaunchFirst, Launching, Terminal, Cancel, At,
    Stop, memory, tables, Stoppable
<1>32. ASSUME NEW t \in Tasks, FailClosed(t)
       PROVE  OverStep
  BY <1>32 DEF OverStep, FinishUnderWay, LaunchFirst, Launching, Terminal, FailClosed,
    At, CloseBrowser, memory, tables
<1>33. ASSUME NEW t \in Tasks, SaveEnds(t)
       PROVE  OverStep
  BY <1>33 DEF OverStep, FinishUnderWay, LaunchFirst, Launching, Terminal, SaveEnds,
    Done, At, Written, memory, window, Finals, tables
<1>34. ASSUME NEW t \in Tasks, FinalSaveFails(t)
       PROVE  OverStep
  BY <1>34 DEF OverStep, FinishUnderWay, LaunchFirst, Launching, Terminal,
    FinalSaveFails, Done, At, WriteFails, memory, window, tables
<1>35. ASSUME NEW t \in Tasks, SaveFailsTask(t)
       PROVE  OverStep
  BY <1>35 DEF OverStep, FinishUnderWay, LaunchFirst, Launching, Terminal,
    SaveFailsTask, At, WriteFails, Fail, tables
<1>36. CASE UNCHANGED vars
  BY <1>36 DEF OverStep, FinishUnderWay, LaunchFirst, Launching, Terminal, vars,
    memory, window, tables
<1> QED
  BY <1>1, <1>2, <1>3, <1>4, <1>5, <1>6, <1>7, <1>8, <1>9, <1>10, <1>11, <1>12, <1>13,
    <1>14, <1>15, <1>16, <1>17, <1>18, <1>19, <1>20, <1>21, <1>22, <1>23, <1>24,
    <1>25, <1>26, <1>27, <1>28, <1>29, <1>30, <1>31, <1>32, <1>33, <1>34, <1>35, <1>36
    DEF Next, TaskStep, Outside, LaunchStep, RecordStep, FinishStep

LEMMA SessionInit == Init => SessionInvariant
<1> SUFFICES ASSUME Init PROVE SessionInvariant
  OBVIOUS
<1>1. at = [t \in Tasks |-> "idle"]
  BY DEF Init
<1>2. PlacesTyped
  BY <1>1, Kinds DEF PlacesTyped, Places, LaunchPlaces, ReportPlaces, ActionPlaces,
    FinishPlaces, CancelPlaces, Failing
<1>3. SessionTyped
  <2>1. waiting \in Seq(Actions)
    BY DEF Init
  <2>2. faults \in 0..MaxFaults
    BY SessionAssumption DEF Init
  <2>3. closing \in BOOLEAN /\ state \in States /\ actions \subseteq Actions
    BY DEF Init, States
  <2> QED
    BY <2>1, <2>2, <2>3 DEF Init, SessionTyped
<1>4. LaunchFirst
  BY <1>1, Kinds DEF Init, LaunchFirst, Launching, At
<1>5. ScriptStored /\ LockHeld /\ BrowserClosing
  BY <1>1, Kinds DEF Init, ScriptStored, LockHeld, BrowserClosing, At
<1> QED
  BY <1>2, <1>3, <1>4, <1>5 DEF SessionInvariant, TypeOK

LEMMA SessionNext == SessionInvariant /\ [Next]_vars => SessionInvariant'
  BY PlacesKept, SessionKept, LaunchFirstKept, ScriptStoredKept, LockHeldKept,
     BrowserClosingKept DEF SessionInvariant, TypeOK

(* The strengthening of the theorems below is an invariant.                *)
THEOREM SessionInvariance == Spec => []SessionInvariant
  BY SessionInit, SessionNext, PTL DEF Spec

(* Types of the session, its browser, its tables and its tasks, for every  *)
(* set of requests and of recorded actions.                                *)
THEOREM SessionTypes == Spec => []TypeOK
<1>1. SessionInvariant => TypeOK
  BY DEF SessionInvariant
<1> QED
  BY <1>1, SessionInvariance, PTL

(* However many requests to finish overlap, one generation of a session    *)
(* reaches the pipeline: the script's key admits one (save_scripts).       *)
THEOREM OnePublication == Spec => []PublishedOnce
<1>1. SessionInvariant => PublishedOnce
  BY DEF SessionInvariant, ScriptStored, PublishedOnce
<1> QED
  BY <1>1, SessionInvariance, PTL

(* The actions of a session are numbered and stored one at a time, in the  *)
(* order in which they asked for its lock (_record).                       *)
ActionsInTurn ==
    \A a, b \in Actions :
       At(a, {"append", "recording"}) /\ At(b, {"append", "recording"}) => a = b
THEOREM OneActionAtATime == Spec => []ActionsInTurn
<1>1. SessionInvariant => ActionsInTurn
  BY DEF SessionInvariant, LockHeld, ActionsInTurn
<1> QED
  BY <1>1, SessionInvariance, PTL

(* When a session is over and nothing is under way, its browser is closed  *)
(* (_fail, cancel, launch, BrowserRecorder.close).                         *)
THEOREM BrowserIsClosed == Spec => []NoBrowserLeft
<1>1. SessionInvariant => NoBrowserLeft
  BY DEF SessionInvariant, BrowserClosing, NoBrowserLeft, Quiet, Busy, At
<1> QED
  BY <1>1, SessionInvariance, PTL

(* A session that is over is taken up again only by a request to finish it *)
(* that was under way; in particular a cancellation stops the launch       *)
(* wherever it is (cancel).                                                *)
THEOREM OverStaysOver == Spec => OverUnlessFinishing
<1>1. SessionInvariant /\ [Next]_vars =>
        [~FinishUnderWay /\ state \in Terminal => state' \in {state, "cancelled", "failed"}]_vars
  BY OverStepTaken DEF SessionInvariant, OverStep
<1> QED
  BY <1>1, SessionInvariance, PTL DEF Spec, OverUnlessFinishing
-----------------------------------------------------------------------------
(* Unless a write failed, a session that neither records nor is over has   *)
(* somebody on the way to one or the other.                                *)
Carrying == Launching \cup {"starting", "finishing", "finish_close", "generate", "validating",
                            "scripts", "publish", "cancel_close"}
AtRest == Terminal \cup {"recording"}
Carried ==
    faults = 0 /\ state \notin AtRest =>
       At(Launch, {"idle"}) \/ \E t \in Tasks : At(t, Carrying)

(* One task moves: it carries on, brings the session to rest, or did not   *)
(* carry it, and then the session is left as it was.                       *)
LEMMA CarriedOn ==
    ASSUME PlacesTyped, Carried, faults' = faults,
           NEW t \in Tasks, NEW place, Goto(t, place),
           \/ place \in Carrying
           \/ state' \in AtRest
           \/ state' = state /\ ~At(t, Carrying) /\ (t = Launch => ~At(t, {"idle"}))
    PROVE  Carried'
  BY Moved, Kinds DEF Carried, At

(* A step after which a write has failed has nothing to show.              *)
LEMMA FaultEnds ==
    ASSUME faults \in Nat, faults' = faults + 1
    PROVE  Carried'
  BY DEF Carried

LEMMA CarriedKept ==
    ASSUME SessionTyped, PlacesTyped, LaunchFirst, Carried, [Next]_vars
    PROVE  Carried'
<1> USE DEF At, Written, tables
<1>1. faults \in Nat
  BY DEF SessionTyped
<1>2. CASE Started \/ BrowserOpens \/ PageLoads \/ LaunchFails \/ Announce \/ Start
  BY <1>2, CarriedOn, Kinds DEF Started, BrowserOpens, PageLoads, LaunchFails, Announce, Start,
    Carrying, Launching
<1>3. CASE LaunchClosed \/ RecordingStarts
  <2>1. state' \in AtRest
    BY <1>3 DEF LaunchClosed, RecordingStarts, AtRest, Terminal
  <2> QED
    BY <2>1 DEF Carried
<1>4. CASE AnnounceFails
  BY <1>1, <1>4, FaultEnds DEF AnnounceFails, WriteFails
<1>5. CASE ReportLoss
  BY <1>5, CarriedOn, Kinds DEF ReportLoss, Fail, Carrying, Launching, AtRest, Terminal, memory
<1>6. CASE BrowserLost
  <2>1. CASE closing
    BY <1>6, <2>1 DEF BrowserLost, Carried, memory
  <2>2. CASE ~closing
    <3>1. at[Report] \notin Carrying
      BY DEF PlacesTyped, ReportPlaces, Failing, Carrying, Launching
    <3> QED
      BY <1>6, <2>2, <3>1, CarriedOn, Kinds DEF BrowserLost, memory
  <2> QED
    BY <2>1, <2>2
<1>7. ASSUME NEW a \in Actions, RecordStep(a) \/ Record(a)
      PROVE  Carried'
  <2>1. at[a] \notin Carrying /\ a \in Tasks /\ a # Launch
    BY Kinds DEF PlacesTyped, ActionPlaces, Carrying, Launching
  <2>2. state' = state
    BY <1>7 DEF RecordStep, Record, LockTaken, ActionAppended, AppendFails, Recorded, Enter, memory
  <2>3. \/ faults' = faults + 1
        \/ faults' = faults /\ \E place : Goto(a, place)
    BY <1>7 DEF RecordStep, Record, LockTaken, ActionAppended, AppendFails, Recorded, Enter,
      WriteFails, Done
  <2> QED
    BY <1>1, <2>1, <2>2, <2>3, CarriedOn, FaultEnds
<1>8. ASSUME NEW f \in Finishes, Finish(f) \/ FinishRefused(f)
      PROVE  Carried'
  BY <1>8, CarriedOn, Kinds DEF Finish, FinishRefused, Done, Carrying, Launching, memory
<1>9. ASSUME NEW f \in Finishes,
             \/ FinishAccepted(f) \/ FinishSaved(f) \/ Finished(f) \/ GenerateScript(f)
             \/ Validated(f) \/ InsertScript(f)
      PROVE  Carried'
  BY <1>9, CarriedOn, Kinds DEF FinishAccepted, FinishSaved, Finished, GenerateScript,
    Validated, InsertScript, Carrying
<1>10. ASSUME NEW f \in Finishes, FinishFails(f)
       PROVE  Carried'
  BY <1>1, <1>10, FaultEnds DEF FinishFails, WriteFails
<1>11. ASSUME NEW f \in Finishes, ScriptInvalid(f) \/ InsertFails(f) \/ Publish(f) \/ PublishFails(f)
       PROVE  Carried'
  <2>1. state' \in AtRest
    BY <1>11 DEF ScriptInvalid, InsertFails, Publish, PublishFails, Fail, AtRest, Terminal
  <2> QED
    BY <2>1 DEF Carried
<1>12. ASSUME NEW c \in Cancels, Cancelled(c)
       PROVE  Carried'
  BY <1>12, CarriedOn, Kinds DEF Cancelled, AtRest, Terminal
<1>13. ASSUME NEW c \in Cancels, Cancel(c)
       PROVE  Carried'
  BY <1>13, Kinds DEF Cancel, Stop, Carried, Carrying
<1>14. ASSUME NEW t \in Tasks, FailClosed(t) \/ SaveEnds(t)
       PROVE  Carried'
  BY <1>14, CarriedOn DEF FailClosed, SaveEnds, Finals, Done, Carrying, Launching, memory
<1>15. ASSUME NEW t \in Tasks, FinalSaveFails(t) \/ SaveFailsTask(t)
       PROVE  Carried'
  BY <1>1, <1>15, FaultEnds DEF FinalSaveFails, SaveFailsTask, WriteFails
<1>16. CASE UNCHANGED vars
  BY <1>16 DEF Carried, vars, memory
<1> QED
  BY <1>2, <1>3, <1>4, <1>5, <1>6, <1>7, <1>8, <1>9, <1>10, <1>11, <1>12, <1>13, <1>14, <1>15,
    <1>16 DEF Next, TaskStep, Outside, LaunchStep, FinishStep

(* Unless a write failed, a session with nothing under way records or is   *)
(* over, whatever was cancelled, lost or invalid (_launch, finish,         *)
(* _generate_scripts, cancel).                                             *)
THEOREM NothingHalfWay == Spec => []Settled
<1>1. Init => Carried
  BY Kinds DEF Init, Carried, At
<1>2. SessionInvariant /\ Carried /\ [Next]_vars => Carried'
  BY CarriedKept DEF SessionInvariant, TypeOK
<1>3. Carried => Settled
  BY DEF Carried, Settled, Quiet, Busy, At, AtRest, Carrying, Launching
<1> QED
  BY <1>1, <1>2, <1>3, SessionInvariance, PTL DEF Spec
=============================================================================
