-------------------------- MODULE ProjectWorkflow ---------------------------
(***************************************************************************)
(* One project from its upload to its deletion: ingestion and              *)
(* ProjectDeletionService, composed with the stage gates, the pipeline and *)
(* Runtime Validation; requests of all of them interleave.                 *)
(***************************************************************************)
EXTENDS StageGates, ProjectPipeline, RuntimeValidation

(* Upload and deletion.                                                    *)

CreateDirectory(r) ==
    /\ At(r, "directory")
    /\ disk' = "partial"
    /\ Goto(r, "extract") /\ Works
    /\ UNCHANGED <<Stores, staged, deleting, Sut, cachedRun>>

Extract(r) ==
    /\ At(r, "extract")
    /\ disk' = "complete"
    /\ Goto(r, "record") /\ Works
    /\ UNCHANGED <<Stores, staged, deleting, Sut, cachedRun>>

UploadFails(r) ==
    /\ req[r].pc \in {"extract", "record"}
    /\ Fault("work")
    /\ disk' = "none"
    /\ End(r)
    /\ UNCHANGED <<Stores, staged, deleting, Sut, cachedRun>>

RecordProject(r) ==
    /\ At(r, "record")
    /\ project' = "uploaded"
    /\ Goto(r, "state") /\ Works
    /\ UNCHANGED <<deps, scans, rows, order, runtimes, Disks, Sut, cachedRun>>

\* stage_project_directory_for_deletion: without a directory there is
\* nothing to stage.  (Its error for a staged directory beside the project's
\* own cannot occur: TypeOK.)
StageFiles(r) ==
    /\ At(r, "stage_files")
    /\ IF disk = "none" THEN /\ Goto(r, "delete_rows")
                             /\ UNCHANGED <<disk, staged>>
       ELSE /\ disk' = "none" /\ staged' = disk
            /\ To(r, [req[r] EXCEPT !.pc = "delete_rows", !.error = TRUE])
    /\ Works
    /\ UNCHANGED <<Stores, deleting, Sut, cachedRun>>

\* The flush of the DELETE.  request.error remembers that it staged files.
DeleteRows(r) ==
    /\ At(r, "delete_rows") /\ deleting = Nobody
    /\ deleting' = r
    /\ Goto(r, IF req[r].error THEN "delete_files" ELSE "commit_delete")
    /\ Works
    /\ UNCHANGED <<Stores, disk, staged, Sut, cachedRun>>

\* The database rolls back and the staged directory goes back.
DeletionFails(r) ==
    \/ /\ At(r, "delete_rows") /\ deleting = Nobody
       /\ Fault("commit")
       /\ IF req[r].error THEN disk' = staged /\ staged' = "none"
                          ELSE UNCHANGED <<disk, staged>>
       /\ End(r)
       /\ UNCHANGED <<Stores, deleting, Sut, cachedRun>>
    \/ /\ At(r, "delete_files")
       /\ Fault("storage")
       /\ \E left \in {staged, "partial"} : disk' = left
       /\ staged' = "none" /\ deleting' = Nobody
       /\ End(r)
       /\ UNCHANGED <<Stores, Sut, cachedRun>>
    \/ /\ At(r, "commit_delete")
       /\ Fault("storage")
       /\ deleting' = Nobody
       /\ End(r)
       /\ UNCHANGED <<Stores, disk, staged, Sut, cachedRun>>

DeleteFiles(r) ==
    /\ At(r, "delete_files")
    /\ staged' = "none"
    /\ Goto(r, "commit_delete") /\ Works
    /\ UNCHANGED <<Stores, disk, deleting, Sut, cachedRun>>

CommitDelete(r) ==
    /\ At(r, "commit_delete")
    /\ project' = "deleted" /\ deleting' = Nobody
    /\ deps' = <<>> /\ scans' = <<>> /\ order' = <<>> /\ runtimes' = <<>>
    /\ rows' = [d \in 1..MaxRuns |-> NoRow]
    /\ End(r) /\ Works
    /\ UNCHANGED <<disk, staged, Sut, cachedRun>>

----------------------------------------------------------------------------
\* The web server stops; "orphan": while a child process is still starting.
Crash ==
    /\ Fault(IF \E r \in Requests : servers[r].state = "starting" THEN "orphan"
             ELSE "crash")
    /\ \E r \in Requests : req[r].pc \notin {"ready", "done"}
    /\ req' = [r \in Requests |->
                 IF req[r].pc = "ready" THEN req[r] ELSE NewRequest("none")]
    /\ deleting' = Nobody
    /\ UNCHANGED <<Stores, disk, staged, Sut, cachedRun, overlapped>>

Active(r) == req[r].pc \notin {"ready", "done"}

Step(r) ==
    /\ \/ Begin(r) \/ CommitAfterDeletion(r)
       \/ CreateDirectory(r) \/ Extract(r) \/ UploadFails(r) \/ RecordProject(r)
       \/ StageFiles(r) \/ DeleteRows(r) \/ DeletionFails(r) \/ DeleteFiles(r)
       \/ CommitDelete(r)
       \/ ContinueStageTwo(r) \/ ContinueStageThree(r) \/ ContinueStageFour(r)
       \/ Refuse(r) \/ Resume(r)
       \/ CreateDependencyRun(r) \/ MarkProcessing(r) \/ DiscoverFiles(r)
       \/ CompleteDependencyRun(r) \/ MarkReady(r) \/ DiscoveryCommitFails(r)
       \/ FailDependencyRun(r) \/ MarkFailed(r)
       \/ StartScan(r) \/ FinishScan(r) \/ ScanAfterDeletion(r) \/ Join(r)
       \/ AdmitNothing(r) \/ AdmitCreate(r) \/ MarkCreatedRunning(r) \/ AdmitAgain(r)
       \/ ForceRerun(r) \/ LoadRetried(r) \/ PrepareRetried(r) \/ Relock(r)
       \/ ResolveSources(r) \/ SkipStage(r) \/ RunStage(r) \/ CompletePipeline(r)
       \/ StageFails(r)
       \/ PrepareGeneration(r) \/ RestoreUnderstanding(r) \/ GenerateTestCases(r)
       \/ StartValidation(r) \/ RefuseValidation(r) \/ MarkRuntimeRunning(r)
       \/ SelectTargets(r) \/ CompleteRuntime(r) \/ FailRuntime(r) \/ FailSource(r)
       \/ CompleteRetried(r)
       \/ FindPort(r) \/ UseExisting(r) \/ PrepareFolder(r) \/ Launch(r)
       \/ PollAnswered(r) \/ PollFails(r) \/ Execute(r)
    /\ overlapped' = (overlapped \/ \E q \in Requests \ {r} : Active(q))

Boot(r) == ServerStarts(r) /\ UNCHANGED overlapped

Next == Crash \/ \E r \in Requests : Step(r) \/ Boot(r)

Spec == Init /\ [][Next]_vars /\ WF_vars(\E r \in Requests : Step(r))

----------------------------------------------------------------------------
(* Type invariant.                                                         *)
TypeOK ==
    /\ project \in {"absent", "uploaded", "processing", "ready", "failed", "deleted"}
    /\ disk \in Files /\ staged \in Files /\ "none" \in {disk, staged}
    /\ deleting \in Requests \cup {Nobody}
    /\ deps \in Seq(RunStatus) /\ scans \in Seq(RunStatus)
    /\ rows \in [1..MaxRuns -> Row]
    /\ order \in Seq(1..MaxRuns)
    /\ runtimes \in Seq([source : 1..MaxRuns, status : RunStatus])
    /\ cachedRun \in Runs
    /\ servers \in [Requests -> Server]
    /\ folders \subseteq Requests
    /\ req \in [Requests -> Request]
    /\ happened \subseteq FaultKinds
    /\ overlapped \in BOOLEAN

Idle == \A r \in Requests : ~Active(r)
Alone == ~overlapped
Stopped == happened \cap {"crash", "orphan"} # {}

(* When no request is being served, nothing is left under way: no run of   *)
(* any kind is pending or running, so no gate stays shut; the project's    *)
(* status is that of its last dependency discovery; and files exist only   *)
(* for a project that has a row.  This holds for requests made one after   *)
(* the other, whatever fails in their work or in a commit of a discovery,  *)
(* unless the server stopped, a deletion failed half-way or Redis lost a   *)
(* deletion; and with no retry beside an approval of Stage 3 (an approval  *)
(* that finds the row of an earlier discovery cached, completed by a       *)
(* retry, leaves its own row running).                                     *)
RetriesApart ==
    \A mix \in Mixes : \A p, q \in Requests :
        ~(mix.ops[p] = "retry" /\ mix.ops[q] = "continue_2")

Unfinished == {"pending", "running"}
Settled ==
    Idle /\ Alone /\ happened \subseteq {"work", "commit"} =>
        /\ Latest(deps) \notin Unfinished /\ Latest(scans) \notin Unfinished
        /\ \A d \in 1..MaxRuns : rows[d].status \notin Unfinished
        /\ \A k \in DOMAIN runtimes : runtimes[k].status \notin Unfinished
        /\ Latest(deps) = "completed" => project = "ready"
        /\ Latest(deps) = "failed" => project = "failed"
        /\ ~Alive => disk = "none" /\ staged = "none"

(* The gate of Stage 3: a pipeline row belongs to a dependency run that    *)
(* completed (overlapping requests and stops of the server included; only  *)
(* a failed commit of the READY status takes a completion back) and, for   *)
(* requests one after the other, to a project whose scan completed.  (A    *)
(* resume takes a scan that a stopped server left running for a concurrent *)
(* one and goes on without its result.)                                    *)
StageThreeGate ==
    \A d \in 1..MaxRuns :
        rows[d].status # "absent" =>
            /\ d \in DOMAIN deps
            /\ "commit" \notin happened => deps[d] = "completed"
            /\ Alone /\ ~Stopped => Latest(scans) = "completed"

(* A pipeline that failed at Runtime Validation can be retried: the newest *)
(* validation of its row is the failed one the retry asks for.  (Requests  *)
(* one after the other; with two, one may fail the row and the other       *)
(* complete the newest validation.)                                        *)
RuntimeRetryable ==
    Idle /\ Alone =>
        \A d \in 1..MaxRuns :
            rows[d].status = "failed" /\ rows[d].failedStage = "runtime_validation" =>
                \E k \in DOMAIN runtimes :
                    /\ runtimes[k] = [source |-> d, status |-> "failed"]
                    /\ \A l \in DOMAIN runtimes :
                        l > k => runtimes[l].source # d

(* A validation that does not overlap another one sends its requests to    *)
(* the server it has started itself, also when a server of an earlier one  *)
(* survived a stop of the web server and still holds the preferred port    *)
(* (a server that was only starting then may yet take the port); and,      *)
(* unless the web server stops, no server and no runtime environment       *)
(* outlives its validation, however that ends.                             *)
Serving == {"launch", "poll", "execute"}
ServerOwned ==
    \A r \in Requests :
        /\ Alone /\ "orphan" \notin happened /\ At(r, "execute") /\ req[r].port # 0 =>
            servers[r] = [state |-> "up", port |-> req[r].port]
        /\ ~Stopped /\ req[r].pc \notin Serving =>
            servers[r] = NoServer /\ r \notin folders

(* Every request ends, so that at last none is being served: the automatic *)
(* run through Stage 4 terminates, no start of a server is polled for ever *)
(* and no discovery waits for a scan that does not end.                    *)
RequestsEnd == <>[]Idle
=============================================================================
