------------------------- MODULE RuntimeValidation --------------------------
(***************************************************************************)
(* RuntimeValidationService, which runs the generated tests of a pipeline  *)
(* row, and SUTBackendManager, which starts the uploaded application for   *)
(* them and leases it to the validation.                                   *)
(***************************************************************************)
EXTENDS ProjectState

MayValidate(row) ==
    /\ \/ row.status = "completed"
       \/ row.status = "running" /\ row.failedStage = "runtime_validation"
    /\ row.result.plan # NoSuite \/ row.result.generation # NoSuite

\* A retry of the endpoint brings its row, another request names one.
Validated(r) == IF req[r].op = "retry" THEN {req[r].cu}
                ELSE {order[i] : i \in DOMAIN order}

StartValidation(r) ==
    /\ At(r, "validate") /\ CanCommit
    /\ disk # "none"
    /\ \E d \in Validated(r) :
        /\ MayValidate(SeenRow(r, d))
        /\ To(r, [req[r] EXCEPT !.pc = "created", !.cu = d, !.row = SeenRow(r, d),
                                !.run = Len(runtimes) + 1])
        /\ runtimes' = Append(runtimes, [source |-> d, status |-> "pending"])
    /\ Works
    /\ UNCHANGED <<project, deps, scans, rows, order, Disks, Sut, cachedRun>>

\* For a mutant: a validation that is not admitted fails the pipeline row.
RefuseAndFailSource(r) ==
    /\ At(r, "validate") /\ disk # "complete"
    /\ \E d \in Validated(r) :
        CommitRow(r, FailRun(SeenRow(r, d), "runtime_validation"),
                  [req[r] EXCEPT !.pc = "done", !.cu = d, !.row = SeenRow(r, d)])
    /\ Works /\ UNCHANGED <<order, cachedRun>>

\* Nothing is recorded for a validation that is not admitted.
RefuseValidation(r) ==
    /\ At(r, "validate")
    /\ \/ disk # "complete"
       \/ order = <<>>
       \/ \E d \in Validated(r) : ~MayValidate(SeenRow(r, d))
    /\ End(r) /\ Works /\ Quiet

SetRuntime(r, from, status, to) ==
    /\ At(r, from) /\ CanCommit
    /\ runtimes' = [runtimes EXCEPT ![req[r].run].status = status]
    /\ Goto(r, to)
    /\ Works
    /\ UNCHANGED <<project, deps, scans, rows, order, Disks, Sut, cachedRun>>

MarkRuntimeRunning(r) == SetRuntime(r, "created", "running", "targets")

SelectTargets(r) ==
    /\ At(r, "targets")
    /\ Goto(r, "port") \/ Goto(r, "execute")
    /\ Works /\ Quiet

CompleteRuntime(r) ==
    SetRuntime(r, "outcome", "completed", IF req[r].op = "retry" THEN "retried" ELSE "done")

FailRuntime(r) == SetRuntime(r, "fail_runtime", "failed", "fail_source")

FailSource(r) ==
    /\ At(r, "fail_source")
    /\ CommitRow(r, FailRun(req[r].row, "runtime_validation"),
                 [req[r] EXCEPT !.pc = "done"])
    /\ Works /\ UNCHANGED <<order, cachedRun>>

CompleteRetried(r) ==
    /\ At(r, "retried")
    /\ CommitRow(r, Complete(req[r].row, req[r].row.result), [req[r] EXCEPT !.pc = "done"])
    /\ Works /\ UNCHANGED <<order, cachedRun>>

----------------------------------------------------------------------------
(* SUTBackendManager.ensure_running and the lease it returns.  A child     *)
(* process has a session of its own: it outlives the server that started it.*)

Bound(p) == \E q \in Requests : servers[q] = [state |-> "up", port |-> p]

\* For a mutant: the preferred port without a probe.
PreferPort(r) ==
    /\ At(r, "port")
    /\ To(r, [req[r] EXCEPT !.pc = "folder", !.port = 1])
    /\ Works /\ Quiet

\* find_available_port
FindPort(r) ==
    /\ At(r, "port")
    /\ \E p \in Ports :
        /\ ~Bound(p)
        /\ p # 1 => Bound(1)
        /\ To(r, [req[r] EXCEPT !.pc = "existing", !.port = p])
    /\ Works /\ Quiet

\* An application that answers by now is used if it is the project's own.
UseExisting(r) ==
    /\ At(r, "existing")
    /\ IF Bound(req[r].port) THEN Goto(r, "execute") \/ Goto(r, "fail_runtime")
                             ELSE Goto(r, "folder")
    /\ Works /\ Quiet

PrepareFolder(r) ==
    /\ At(r, "folder")
    /\ \/ /\ disk = "complete" /\ Works
          /\ folders' = folders \cup {r} /\ Goto(r, "launch")
       \/ /\ IF disk # "complete" THEN Works ELSE Fault("work")
          /\ UNCHANGED folders /\ Goto(r, "fail_runtime")
    /\ UNCHANGED <<Stores, Disks, servers, cachedRun>>

\* SUTBackendLease.close, on every way out.
Close(r) ==
    /\ servers' = [servers EXCEPT ![r] = NoServer]
    /\ folders' = folders \ {r}
    /\ UNCHANGED <<Stores, Disks, cachedRun>>

Launch(r) ==
    /\ At(r, "launch")
    /\ \/ /\ servers' = [servers EXCEPT ![r] = [state |-> "starting",
                                                port |-> req[r].port]]
          /\ Goto(r, "poll") /\ Works
          /\ UNCHANGED <<Stores, Disks, folders, cachedRun>>
       \/ Fault("work") /\ Goto(r, "fail_runtime") /\ Close(r)

\* The process: it binds its port, or finds it taken and exits.
ServerStarts(r) ==
    /\ servers[r].state = "starting"
    /\ servers' = [servers EXCEPT ![r].state =
                        IF Bound(servers[r].port) THEN "exited" ELSE "up"]
    /\ Works
    /\ UNCHANGED <<Stores, Disks, folders, cachedRun, req>>

PollAnswered(r) ==
    /\ At(r, "poll") /\ Bound(req[r].port)
    /\ Goto(r, "execute")
    /\ Works /\ Quiet

\* For a mutant: no deadline.
PollUntilExit(r) ==
    /\ At(r, "poll") /\ servers[r].state = "exited"
    /\ Goto(r, "fail_runtime") /\ Works
    /\ Close(r)

\* The process has exited, or the time is up.
PollFails(r) ==
    /\ At(r, "poll") /\ ~Bound(req[r].port)
    /\ Goto(r, "fail_runtime") /\ Works
    /\ Close(r)

\* The tests run; a failed test is a result.
Execute(r) ==
    /\ At(r, "execute")
    /\ \/ Goto(r, "outcome") /\ Works
       \/ Goto(r, "fail_runtime") /\ Fault("work")
    /\ Close(r)
=============================================================================
