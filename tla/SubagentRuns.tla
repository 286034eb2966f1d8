---------------------------- MODULE SubagentRuns ----------------------------
(***************************************************************************)
(* The life of subagent runs: the service's run, status and stop handlers, *)
(* the background task each run gets (HTTP API call or CLI subprocess),    *)
(* the monitor of that task, and the adapter's own stop.                   *)
(*                                                                         *)
(* The store is the RunTable of RunTable.tla, one atomic step per call; a  *)
(* call whose persist fails changes the table and still returns Err (see   *)
(* StateRunStore), so every call may take its error path.                  *)
(***************************************************************************)
EXTENDS RunRecords, FiniteSets

CONSTANTS
    Backends,      \* which adapters handle_run may route to
    Readers,       \* concurrent get-run-status calls
    Stops,         \* who stops runs: the service, a BackendAdapter
    PipeCapacity,  \* what the stderr pipe holds
    MaxLines,      \* bound: stdout lines or completion tokens per run
    MaxErrLines,   \* bound: stderr writes per child
    MaxStoreErrs,  \* bound: store calls that return Err
    MaxPanics      \* bound: panics of a background task

ASSUME RunsAssumption ==
    /\ {"start", "stream", "completion", "error"} \subseteq Kinds
    /\ Backends \subseteq {"http", "cli"}
    /\ Stops \subseteq {"service", "adapter"}
    /\ {PipeCapacity, MaxLines, MaxErrLines, MaxStoreErrs, MaxPanics} \subseteq Nat

VARIABLES
    table,     \* the store's records
    pc,        \* handle_run, then the background task, of each run
    backend,   \* the adapter the run was routed to
    lines,     \* stdout lines (tokens) written and not yet appended; written
    child,     \* the CLI subprocess
    tracked,   \* the adapter's process map
    stopper,   \* an adapter.stop call per run
    canceled,  \* history: runs whose stop returned Ok(true)
    killed,    \* history: runs whose child adapter.stop killed
    reply,     \* a get-run-status call per reader
    trouble    \* store errors and panics so far

vars == <<table, pc, backend, lines, child, tracked, stopper, canceled,
          killed, reply, trouble>>

serviceVars == <<stopper, canceled, killed, reply>>
childVars   == <<lines, child, tracked>>

-----------------------------------------------------------------------------
Dispatching == {"none", "created", "refused"}
Calling     == {"start", "keyless", "send", "httpError", "httpFailed"}
Subprocess  == {"spawn", "track", "read", "errors", "reap", "wait",
                "cliError", "cliFailed"}
Ending      == {"stream", "completion", "succeed", "fail", "failStatus",
                "panicked", "done"}
Step        == Dispatching \cup Calling \cup Subprocess \cup Ending

\* Where the background task is alive: it may panic, and it is scheduled.
Executing == Step \ (Dispatching \cup {"panicked", "done"})

ChildState == {"none", "running", "blocked", "detached", "succeeded",
               "failed", "killed"}
Exited     == {"succeeded", "failed", "killed"}
NoChild    == [state |-> "none", stderr |-> 0, wrote |-> 0]

NoReply == [run |-> "none", step |-> "idle", state |-> "Absent", events |-> << >>]
Reply   == [run : Runs \cup {"none"}, step : {"idle", "status", "done"},
            state : RunState \cup {"Absent"}, events : Seq(Kinds)]

Has(record, k) == \E i \in 1..Len(record.events) : record.events[i] = k

TypeOK ==
    /\ table \in Table
    /\ pc \in [Runs -> Step]
    /\ backend \in [Runs -> Backends \cup {"none"}]
    /\ lines \in [Runs -> [ready : 0..MaxLines, wrote : 0..MaxLines]]
    /\ child \in [Runs -> [state : ChildState, stderr : 0..PipeCapacity,
                           wrote : 0..MaxErrLines]]
    /\ tracked \subseteq Runs
    /\ stopper \in [Runs -> {"none", "mark", "done"}]
    /\ canceled \subseteq Runs
    /\ killed \subseteq Runs
    /\ reply \in [Readers -> Reply]
    /\ trouble \in [errs : 0..MaxStoreErrs, panics : 0..MaxPanics]

Init ==
    /\ table = EmptyTable
    /\ pc = [r \in Runs |-> "none"]
    /\ backend = [r \in Runs |-> "none"]
    /\ lines = [r \in Runs |-> [ready |-> 0, wrote |-> 0]]
    /\ child = [r \in Runs |-> NoChild]
    /\ tracked = {}
    /\ stopper = [r \in Runs |-> "none"]
    /\ canceled = {}
    /\ killed = {}
    /\ reply = [q \in Readers |-> NoReply]
    /\ trouble = [errs |-> 0, panics |-> 0]

-----------------------------------------------------------------------------
(* A store call of run r's task: the table changes; the task goes on at ok,*)
(* or, if the call returns Err, at err.                                    *)

Goto(r, step) == pc' = [pc EXCEPT ![r] = step]

StoreCall(r, new, ok, err) ==
    /\ table' = new
    /\ \/ /\ Goto(r, ok)
          /\ UNCHANGED trouble
       \/ /\ trouble.errs < MaxStoreErrs
          /\ Goto(r, err)
          /\ trouble' = [trouble EXCEPT !.errs = trouble.errs + 1]

Append_(r, kind, ok, err)      == StoreCall(r, WithEvent(table, r, kind), ok, err)
SetStatus(r, state, ok, err)   == StoreCall(r, WithStatus(table, r, state), ok, err)

At(r, step) == pc[r] = step

\* A step that only moves the task.
Move(r, step) == Goto(r, step) /\ UNCHANGED <<table, trouble>>

-----------------------------------------------------------------------------
(* handle_run: route, create the record, mark it Running, spawn the task.  *)
(* An Err on the way is returned to the caller and leaves the record.      *)

CreateRun(r) ==
    /\ At(r, "none")
    /\ \E b \in Backends : backend' = [backend EXCEPT ![r] = b]
    /\ StoreCall(r, WithRun(table, r), "created", "refused")
    /\ UNCHANGED <<childVars, serviceVars>>

MarkRunning(r) ==
    /\ At(r, "created")
    /\ SetStatus(r, "Running", "start", "refused")
    /\ UNCHANGED <<backend, childVars, serviceVars>>

Dispatch(r) == CreateRun(r) \/ MarkRunning(r)

-----------------------------------------------------------------------------
(* The task's first step and, for HTTP, the API call.                      *)

Start(r) ==
    /\ At(r, "start")
    /\ \/ /\ backend[r] = "cli"
          /\ Append_(r, "start", "spawn", "fail")
       \/ /\ backend[r] = "http"
          /\ \E next \in {"keyless", "send"} : Append_(r, "start", next, "fail")
    /\ UNCHANGED <<backend, childVars, serviceVars>>

\* Without an API key the run is Failed and the call returns Err as well.
Keyless(r) ==
    /\ At(r, "keyless")
    /\ SetStatus(r, "Failed", "fail", "fail")
    /\ UNCHANGED <<backend, childVars, serviceVars>>

\* The client has a timeout: the call fails, is refused, or completes.
Send(r) ==
    /\ At(r, "send")
    /\ \/ Move(r, "fail") /\ UNCHANGED lines
       \/ Move(r, "httpError") /\ UNCHANGED lines
       \/ /\ Move(r, "stream")
          /\ \E n \in 0..MaxLines : lines' = [lines EXCEPT ![r].ready = n]
    /\ UNCHANGED <<backend, child, tracked, serviceVars>>

HttpError(r) ==
    /\ At(r, "httpError")
    /\ Append_(r, "error", "httpFailed", "fail")
    /\ UNCHANGED <<backend, childVars, serviceVars>>

HttpFailed(r) ==
    /\ At(r, "httpFailed")
    /\ SetStatus(r, "Failed", "fail", "fail")
    /\ UNCHANGED <<backend, childVars, serviceVars>>

\* One event per token, then on to the completion event.
Stream(r) ==
    /\ At(r, "stream")
    /\ \/ /\ lines[r].ready > 0
          /\ Append_(r, "stream", "stream", "fail")
          /\ lines' = [lines EXCEPT ![r].ready = lines[r].ready - 1]
       \/ /\ lines[r].ready = 0
          /\ Move(r, "completion")
          /\ UNCHANGED lines
    /\ UNCHANGED <<backend, child, tracked, serviceVars>>

Http(r) == Keyless(r) \/ Send(r) \/ HttpError(r) \/ HttpFailed(r) \/ Stream(r)

-----------------------------------------------------------------------------
(* The CLI task: spawn, track, read stdout to its end, then stderr, then   *)
(* take the process back from the map and wait for it.                     *)

Spawn(r) ==
    /\ At(r, "spawn")
    /\ \/ Move(r, "fail") /\ UNCHANGED child
       \/ /\ Move(r, "track")
          /\ child' = [child EXCEPT ![r].state = "running"]
    /\ UNCHANGED <<backend, lines, tracked, serviceVars>>

Track(r) ==
    /\ At(r, "track")
    /\ Move(r, "read")
    /\ tracked' = tracked \cup {r}
    /\ UNCHANGED <<backend, lines, child, serviceVars>>

\* The child's ends of the pipes are closed.
AtEof(r) == child[r].state \in Exited \cup {"detached"}

ReadLine(r) ==
    /\ At(r, "read")
    /\ lines[r].ready > 0
    /\ Append_(r, "stream", "read", "fail")
    /\ lines' = [lines EXCEPT ![r].ready = lines[r].ready - 1]
    /\ UNCHANGED <<backend, child, tracked, serviceVars>>

\* Mutant of EndOfOutput: complete at the end of stdout, without reaping.
EndWithoutReap(r) ==
    /\ At(r, "read")
    /\ lines[r].ready = 0
    /\ AtEof(r)
    /\ Move(r, "completion")
    /\ UNCHANGED <<backend, childVars, serviceVars>>

EndOfOutput(r) ==
    /\ At(r, "read")
    /\ lines[r].ready = 0
    /\ AtEof(r)
    /\ Move(r, "errors")
    /\ UNCHANGED <<backend, childVars, serviceVars>>

ReadErrors(r) ==
    /\ At(r, "errors")
    /\ \/ /\ child[r].stderr > 0
          /\ child' = [child EXCEPT ![r].stderr = child[r].stderr - 1]
          /\ UNCHANGED <<table, pc, trouble>>
       \/ /\ child[r].stderr = 0
          /\ AtEof(r)
          /\ Move(r, "reap")
          /\ UNCHANGED child
    /\ UNCHANGED <<backend, lines, tracked, serviceVars>>

\* Mutant of Reap: a process missing from the map is an error.
ReapMissingFails(r) ==
    /\ At(r, "reap")
    /\ Move(r, IF r \in tracked THEN "wait" ELSE "cliError")
    /\ tracked' = tracked \ {r}
    /\ UNCHANGED <<backend, lines, child, serviceVars>>

\* "wait" holds the lock of the process map.  A process that is no longer in
\* the map was stopped: return Ok without a status.
Reap(r) ==
    /\ At(r, "reap")
    /\ Move(r, IF r \in tracked THEN "wait" ELSE "done")
    /\ tracked' = tracked \ {r}
    /\ UNCHANGED <<backend, lines, child, serviceVars>>

\* Mutant of Wait: the exit code is not looked at.
WaitIgnoresCode(r) ==
    /\ At(r, "wait")
    /\ child[r].state \in Exited
    /\ Move(r, "completion")
    /\ UNCHANGED <<backend, childVars, serviceVars>>

Wait(r) ==
    /\ At(r, "wait")
    /\ child[r].state \in Exited
    /\ Move(r, IF child[r].state = "succeeded" THEN "completion" ELSE "cliError")
    /\ UNCHANGED <<backend, childVars, serviceVars>>

CliError(r) ==
    /\ At(r, "cliError")
    /\ Append_(r, "error", "cliFailed", "fail")
    /\ UNCHANGED <<backend, childVars, serviceVars>>

CliFailed(r) ==
    /\ At(r, "cliFailed")
    /\ SetStatus(r, "Failed", "done", "fail")
    /\ UNCHANGED <<backend, childVars, serviceVars>>

Cli(r) ==
    \/ Spawn(r) \/ Track(r) \/ ReadLine(r) \/ EndOfOutput(r) \/ ReadErrors(r)
    \/ Reap(r) \/ Wait(r) \/ CliError(r) \/ CliFailed(r)

-----------------------------------------------------------------------------
(* The common end: success, or the wrapper that records an Err, or the     *)
(* monitor that records a panic.  Their own store errors are only logged.  *)

\* Mutant of Completion: the status before the event, in two calls.
CompletionSwapped(r) ==
    /\ At(r, "completion")
    /\ SetStatus(r, "Succeeded", "succeed", "fail")
    /\ UNCHANGED <<backend, childVars, serviceVars>>

Completion(r) ==
    /\ At(r, "completion")
    /\ Append_(r, "completion", "succeed", "fail")
    /\ UNCHANGED <<backend, childVars, serviceVars>>

Succeed(r) ==
    /\ At(r, "succeed")
    /\ SetStatus(r, "Succeeded", "done", "fail")
    /\ UNCHANGED <<backend, childVars, serviceVars>>

\* Mutant of Fail: only the status.
FailUnexplained(r) ==
    /\ At(r, "fail")
    /\ Move(r, "failStatus")
    /\ UNCHANGED <<backend, childVars, serviceVars>>

Fail(r) ==
    /\ At(r, "fail")
    /\ Append_(r, "error", "failStatus", "failStatus")
    /\ UNCHANGED <<backend, childVars, serviceVars>>

FailStatus(r) ==
    /\ At(r, "failStatus")
    /\ SetStatus(r, "Failed", "done", "done")
    /\ UNCHANGED <<backend, childVars, serviceVars>>

Panic(r) ==
    /\ pc[r] \in Executing
    /\ trouble.panics < MaxPanics
    /\ Goto(r, "panicked")
    /\ trouble' = [trouble EXCEPT !.panics = trouble.panics + 1]
    /\ UNCHANGED <<table, backend, childVars, serviceVars>>

\* Mutant of Monitor: log the panic only.
MonitorLogs(r) ==
    /\ At(r, "panicked")
    /\ Move(r, "done")
    /\ UNCHANGED <<backend, childVars, serviceVars>>

Monitor(r) ==
    /\ At(r, "panicked")
    /\ SetStatus(r, "Failed", "done", "done")
    /\ UNCHANGED <<backend, childVars, serviceVars>>

End(r) == Completion(r) \/ Succeed(r) \/ Fail(r) \/ FailStatus(r) \/ Monitor(r)

-----------------------------------------------------------------------------
(* The subprocess.  Its stderr pipe is bounded; a write to a full pipe     *)
(* blocks the child.  It may close both pipes and keep running.            *)

ChildWritesLine(r) ==
    /\ child[r].state = "running"
    /\ lines[r].wrote < MaxLines
    /\ lines' = [lines EXCEPT ![r].ready = lines[r].ready + 1,
                              ![r].wrote = lines[r].wrote + 1]
    /\ UNCHANGED child

ChildStartsErrWrite(r) ==
    /\ child[r].state = "running"
    /\ child[r].wrote < MaxErrLines
    /\ child' = [child EXCEPT ![r].state = "blocked"]
    /\ UNCHANGED lines

\* The write ends when it fits, or with an error once the task has dropped
\* its end of the pipe.
ChildEndsErrWrite(r) ==
    /\ child[r].state = "blocked"
    /\ \/ /\ pc[r] \in {"track", "read", "errors"}
          /\ child[r].stderr < PipeCapacity
          /\ child' = [child EXCEPT ![r].state = "running",
                                    ![r].stderr = child[r].stderr + 1,
                                    ![r].wrote = child[r].wrote + 1]
       \/ /\ pc[r] \notin {"track", "read", "errors"}
          /\ child' = [child EXCEPT ![r].state = "running",
                                    ![r].wrote = child[r].wrote + 1]
    /\ UNCHANGED lines

ChildDetaches(r) ==
    /\ child[r].state = "running"
    /\ child' = [child EXCEPT ![r].state = "detached"]
    /\ UNCHANGED lines

ChildExits(r) ==
    /\ child[r].state \in {"running", "detached"}
    /\ \E code \in {"succeeded", "failed"} :
          child' = [child EXCEPT ![r].state = code]
    /\ UNCHANGED lines

Child(r) ==
    /\ \/ ChildWritesLine(r) \/ ChildStartsErrWrite(r) \/ ChildEndsErrWrite(r)
       \/ ChildDetaches(r) \/ ChildExits(r)
    /\ UNCHANGED <<table, pc, backend, tracked, serviceVars, trouble>>

-----------------------------------------------------------------------------
(* stop-run and get-run-status                                             *)

StoreStop(r) ==
    /\ table' = IF Stoppable(table, r) THEN WithStatus(table, r, "Canceled")
                ELSE table
    /\ canceled' = IF Stoppable(table, r) THEN canceled \cup {r} ELSE canceled

\* Mutant of HandleStop: finished runs are canceled too.
HandleStopAny(r) ==
    /\ Exists(table, r)
    /\ "service" \in Stops
    /\ table' = WithStatus(table, r, "Canceled")
    /\ canceled' = canceled \cup {r}
    /\ UNCHANGED <<pc, backend, childVars, stopper, killed, reply, trouble>>

\* handle_stop goes to the store; the task and its child are not told.
HandleStop(r) ==
    /\ Stoppable(table, r)
    /\ "service" \in Stops
    /\ StoreStop(r)
    /\ UNCHANGED <<pc, backend, childVars, stopper, killed, reply, trouble>>

\* CodexCliAdapter::stop: under the map's lock, take the process out and kill
\* it, then stop the record.  HTTP adapters only stop the record.
KillChild(r) ==
    /\ "adapter" \in Stops
    /\ Exists(table, r)
    /\ stopper[r] = "none"
    /\ ~At(r, "wait")
    /\ stopper' = [stopper EXCEPT ![r] = "mark"]
    /\ \/ /\ r \in tracked
          /\ tracked' = tracked \ {r}
          /\ child' = [child EXCEPT ![r].state =
                          IF child[r].state \in Exited THEN child[r].state
                          ELSE "killed"]
          /\ killed' = killed \cup {r}
       \/ /\ r \notin tracked
          /\ UNCHANGED <<tracked, child, killed>>
    /\ UNCHANGED <<table, pc, backend, lines, canceled, reply, trouble>>

MarkStopped(r) ==
    /\ stopper[r] = "mark"
    /\ stopper' = [stopper EXCEPT ![r] = "done"]
    /\ StoreStop(r)
    /\ UNCHANGED <<pc, backend, childVars, killed, reply, trouble>>

\* handle_status: the status, and in a second store call the events.
ReadStatus(q, r) ==
    /\ Exists(table, r)
    /\ reply[q].step = "idle"
    /\ reply' = [reply EXCEPT ![q] = [run |-> r, step |-> "status",
                                      state |-> table[r].state, events |-> << >>]]
    /\ UNCHANGED <<table, pc, backend, childVars, stopper, canceled, killed, trouble>>

ReadEvents(q) ==
    /\ reply[q].step = "status"
    /\ reply' = [reply EXCEPT ![q].step = "done",
                              ![q].events = table[reply[q].run].events]
    /\ UNCHANGED <<table, pc, backend, childVars, stopper, canceled, killed, trouble>>

-----------------------------------------------------------------------------
Task(r) == Start(r) \/ Http(r) \/ Cli(r) \/ End(r)

Next ==
    \/ \E r \in Runs :
          Dispatch(r) \/ Task(r) \/ Panic(r) \/ Child(r)
          \/ HandleStop(r) \/ KillChild(r) \/ MarkStopped(r)
    \/ \E q \in Readers : ReadEvents(q) \/ \E r \in Runs : ReadStatus(q, r)

Spec == Init /\ [][Next]_vars

\* tokio runs the handlers, tasks and monitors it was given; a child that can
\* run goes on, and exits in the end.  Nobody has to stop a run or ask for it.
Fairness ==
    \A r \in Runs :
        /\ WF_vars(MarkRunning(r))
        /\ WF_vars(Task(r))
        /\ WF_vars(MarkStopped(r))
        /\ WF_vars(Child(r))

FairSpec == Spec /\ Fairness

-----------------------------------------------------------------------------
(* Properties *)

\* A Succeeded run has its completion event, and its child, if it had one,
\* exited with success and left the process map.
SuccessIsComplete ==
    \A r \in Runs : table[r].state = "Succeeded" =>
        /\ Has(table[r], "completion")
        /\ child[r].state \in {"none", "succeeded"}
        /\ r \notin tracked

\* A task that ended without a panic and left its run Failed recorded an
\* error event: on every path, the keyless and the refused call included.
FailureIsExplained ==
    \A r \in Runs :
        (pc[r] = "done" /\ table[r].state = "Failed" /\ trouble.panics = 0)
            => Has(table[r], "error")

\* Unless the store or the task failed, the end of a task leaves neither a
\* running child nor an entry in the process map.
NoOrphanedChild ==
    \A r \in Runs :
        (pc[r] = "done" /\ trouble.errs = 0 /\ trouble.panics = 0) =>
            /\ child[r].state \in {"none"} \cup Exited
            /\ r \notin tracked

\* A run whose child adapter.stop killed ends Canceled, whatever step the
\* task was at: no exit status of the killed child reaches the record.
KilledEndsCanceled ==
    \A r \in killed :
        (stopper[r] = "done" /\ pc[r] = "done"
            /\ trouble.errs = 0 /\ trouble.panics = 0)
                => table[r].state = "Canceled"

\* A status reply is no mixture: the events it shows are not older than the
\* state it shows, so a run shown Succeeded is shown with its completion.
ReplyIsConsistent ==
    \A q \in Readers :
        (reply[q].step = "done" /\ reply[q].state = "Succeeded")
            => Has(reply[q], "completion")

\* No verdict is taken back: a Failed run stays Failed, whatever is stopped or
\* goes wrong later, and a Succeeded run can only become Failed, not even that
\* without store errors and panics.
VerdictsStand ==
    [][\A r \in Runs :
         /\ table[r].state = "Failed" => table'[r].state = "Failed"
         /\ table[r].state = "Succeeded" =>
              \/ table'[r].state = "Succeeded"
              \/ table'[r].state = "Failed"
                   /\ (trouble.errs > 0 \/ trouble.panics > 0)]_vars

\* A task that has ended, after store errors and panics too, has left its run
\* finished, or the stop that took its child away is about to cancel it.
EndedIsFinished ==
    \A r \in Runs : pc[r] = "done" =>
        \/ table[r].state \in Finished
        \/ r \in killed /\ stopper[r] = "mark"

\* The task waits for the end of stdout while the child waits for room in
\* its stderr pipe: neither can go on.
Jammed(r) ==
    /\ At(r, "read")
    /\ lines[r].ready = 0
    /\ child[r].state = "blocked"
    /\ child[r].stderr = PipeCapacity

\* Every run whose task was spawned gets a final status: by the task, its
\* error wrapper, its monitor, or the stop that took its child away.  The
\* one way to stay unfinished is a jam of the two pipes, for ever:
\* execute_run applies no timeout.
SpawnedRunsSettle ==
    \A r \in Runs :
        (pc[r] = "start") ~> (table[r].state \in Finished \/ []Jammed(r))

\* Seen from the store, all of this is a use of the RunStore trait: whatever
\* the handlers, tasks, monitors and stops do, a step is one call or none.
RunTableSpec == INSTANCE RunTable
ImplementsRunTable == RunTableSpec!Spec

\* What tool_schemas.rs calls "Stop a running subagent" and the store tests
\* "status becomes canceled": a run reported stopped stays Canceled.
StoppedStaysCanceled == \A r \in canceled : table[r].state = "Canceled"
=============================================================================
