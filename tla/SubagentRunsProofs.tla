------------------------- MODULE SubagentRunsProofs -------------------------
(***************************************************************************)
(* Theorems about SubagentRuns, for any number of runs and readers, either *)
(* backend, any stops, any number of lines, store errors and panics.       *)
(*                                                                         *)
(* The invariant speaks of one run at a time; what it needs of the others  *)
(* is that a step of one run leaves them alone.                            *)
(***************************************************************************)
EXTENDS SubagentRuns, RunRecordsProofs, TLAPS

\* No store call has failed and no task has panicked.
Calm == trouble.errs = 0 /\ trouble.panics = 0

\* The task has not yet come to its end.
Underway == Calling \cup Subprocess \cup {"stream", "completion", "succeed"}

\* The task is past everything that sets a status but the error wrapper.
Wrapped == {"fail", "failStatus", "panicked", "done"}

\* What the record says at each step of the task.
Statuses(r) ==
    /\ pc[r] = "none" <=> ~Exists(table, r)
    /\ pc[r] \in Underway => table[r].state \in {"Running", "Canceled"}
    /\ table[r].state \in {"Succeeded", "Failed"} => pc[r] \in Wrapped
    /\ Calm /\ table[r].state = "Succeeded" => pc[r] = "done"
    /\ pc[r] = "panicked" => trouble.panics > 0

\* Where the child is at each step, and who has it.  A child that is missing
\* from the map while its task still reads was taken out and killed.
Children(r) ==
    /\ pc[r] \in Dispatching \cup Calling \cup {"stream", "spawn"} =>
         child[r].state = "none"
    /\ pc[r] \in Dispatching \cup Calling \cup {"stream", "spawn", "track"} =>
         r \notin tracked /\ r \notin killed
    /\ pc[r] \in {"read", "errors", "reap"} /\ r \notin tracked =>
         r \in killed /\ child[r].state \in Exited
    /\ r \in killed => r \notin tracked
    /\ pc[r] \in {"wait", "cliError", "cliFailed", "completion", "succeed"} =>
         r \notin tracked /\ r \notin killed
    /\ pc[r] \in {"cliError", "cliFailed"} => child[r].state \in Exited
    /\ pc[r] \in {"completion", "succeed"} =>
         child[r].state \in {"none", "succeeded"}
    /\ table[r].state = "Succeeded" =>
         child[r].state \in {"none", "succeeded"} /\ r \notin tracked

\* What is left behind when nothing went wrong in the store or the task.
Leftovers(r) ==
    Calm =>
        /\ pc[r] \in {"fail", "failStatus"} =>
             child[r].state = "none" /\ r \notin tracked /\ r \notin killed
        /\ pc[r] = "done" =>
             child[r].state \in {"none"} \cup Exited /\ r \notin tracked
        /\ r \in killed =>
             /\ pc[r] \in {"read", "errors", "reap", "done"}
             /\ table[r].state \in {"Running", "Canceled"}
             /\ stopper[r] # "none"
        /\ r \in killed /\ stopper[r] = "done" => table[r].state = "Canceled"

Alive == {"running", "blocked", "detached"}

\* No more lines are waiting than a living child wrote, and a write in
\* progress is within the bound.
Pipes(r) ==
    /\ pc[r] \in {"none", "created", "start", "send", "spawn"} =>
         lines[r].ready = 0
    /\ child[r].state \in Alive => lines[r].ready <= lines[r].wrote
    /\ child[r].state = "blocked" => child[r].wrote < MaxErrLines

\* The completion event is at the end of the log, or the error wrapper has
\* put its error behind it.
Sealed(r) ==
    \/ Latest(table[r], "completion") /\ pc[r] \in Wrapped
    \/ Previous(table[r], "completion") /\ pc[r] \in Wrapped \ {"fail"}

\* Which events the log ends in.
Logs(r) ==
    /\ pc[r] \in {"cliFailed", "failStatus"} => Latest(table[r], "error")
    /\ pc[r] = "done" /\ table[r].state = "Failed" /\ trouble.panics = 0 =>
         Latest(table[r], "error")
    /\ pc[r] = "succeed" => Latest(table[r], "completion")
    /\ MaxEvents > 1 /\ table[r].state = "Succeeded" => Sealed(r)

RunInv(r) ==
    Statuses(r) /\ Children(r) /\ Leftovers(r) /\ Pipes(r) /\ Logs(r)

\* What a reader has seen of a finished run.
Replies ==
    \A q \in Readers :
        /\ reply[q].step = "status" =>
             /\ reply[q].run \in Runs /\ Exists(table, reply[q].run)
             /\ MaxEvents > 1 /\ reply[q].state = "Succeeded" =>
                  Sealed(reply[q].run)
        /\ MaxEvents > 1 /\ reply[q].step = "done"
             /\ reply[q].state = "Succeeded" => Has(reply[q], "completion")

IInv == TypeOK /\ (\A r \in Runs : RunInv(r)) /\ Replies

-----------------------------------------------------------------------------
(* Steps of one run *)

Trouble == [errs : 0..MaxStoreErrs, panics : 0..MaxPanics]

\* The kinds of event the task appends are kinds of the store.
LEMMA TaskKinds == {"start", "stream", "completion", "error"} \subseteq Kinds
BY RunsAssumption

\* A store call or a move of run r: the other runs stay, and store errors
\* are counted.
Local(r) ==
    /\ table' \in Table /\ pc' \in [Runs -> Step] /\ trouble' \in Trouble
    /\ \A s \in Runs \ {r} : table'[s] = table[s] /\ pc'[s] = pc[s]
    /\ trouble'.panics = trouble.panics
    /\ trouble' = trouble \/ trouble'.errs > 0

\* An append of the task: the event is the latest, and the task goes on at
\* ok, or at err with a store error counted.
LEMMA AppendCall ==
    ASSUME TypeOK, NEW r \in Runs, Exists(table, r), NEW k \in Kinds,
           NEW ok \in Step, NEW err \in Step, Append_(r, k, ok, err)
    PROVE  /\ Local(r)
           /\ table'[r].state = table[r].state
           /\ Latest(table'[r], k)
           /\ \A j \in Kinds :
                MaxEvents > 1 /\ Latest(table[r], j) => Previous(table'[r], j)
           /\ \/ pc'[r] = ok /\ trouble' = trouble
              \/ pc'[r] = err /\ trouble'.errs > 0
<1>1. table \in Table
  BY DEF TypeOK
<1>2. table' = WithEvent(table, r, k)
  BY DEF Append_, StoreCall
<1>3. /\ pc' \in [Runs -> Step] /\ trouble' \in Trouble
      /\ \A s \in Runs \ {r} : pc'[s] = pc[s]
      /\ trouble'.panics = trouble.panics
      /\ \/ pc'[r] = ok /\ trouble' = trouble
         \/ pc'[r] = err /\ trouble'.errs > 0
  BY RunsAssumption DEF TypeOK, Append_, StoreCall, Goto, Trouble
<1> QED
  BY <1>1, <1>2, <1>3, WithEventType, AppendedLast DEF Local

\* A status set by the task.
LEMMA StatusCall ==
    ASSUME TypeOK, NEW r \in Runs, Exists(table, r), NEW state \in RunState,
           NEW ok \in Step, NEW err \in Step, SetStatus(r, state, ok, err)
    PROVE  /\ Local(r)
           /\ table'[r].state = state
           /\ table'[r].events = table[r].events
           /\ \/ pc'[r] = ok /\ trouble' = trouble
              \/ pc'[r] = err /\ trouble'.errs > 0
<1>1. table \in Table
  BY DEF TypeOK
<1>2. table' = WithStatus(table, r, state)
  BY DEF SetStatus, StoreCall
<1>3. /\ pc' \in [Runs -> Step] /\ trouble' \in Trouble
      /\ \A s \in Runs \ {r} : pc'[s] = pc[s]
      /\ trouble'.panics = trouble.panics
      /\ \/ pc'[r] = ok /\ trouble' = trouble
         \/ pc'[r] = err /\ trouble'.errs > 0
  BY RunsAssumption DEF TypeOK, SetStatus, StoreCall, Goto, Trouble
<1> QED
  BY <1>1, <1>2, <1>3, WithStatusType, StatusSet DEF Local

\* A step that only moves the task.
LEMMA PlainMove ==
    ASSUME TypeOK, NEW r \in Runs, NEW step \in Step, Move(r, step)
    PROVE  Local(r) /\ table' = table /\ trouble' = trouble /\ pc'[r] = step
BY DEF TypeOK, Move, Goto, Local, Trouble

-----------------------------------------------------------------------------
(* A step of one run leaves the others alone *)

SameRun(s) ==
    /\ table'[s] = table[s] /\ pc'[s] = pc[s]
    /\ lines'[s] = lines[s] /\ child'[s] = child[s]
    /\ s \in tracked' <=> s \in tracked
    /\ s \in killed' <=> s \in killed
    /\ stopper'[s] = stopper[s]

\* Trouble is not forgotten.
Worsens ==
    /\ trouble'.errs = 0 => trouble.errs = 0
    /\ trouble'.panics = 0 => trouble.panics = 0
    /\ trouble.panics > 0 => trouble'.panics > 0

StepOf(r) ==
    /\ TypeOK'
    /\ RunInv(r)'
    /\ \A s \in Runs \ {r} : SameRun(s)
    /\ Worsens
    /\ Exists(table, r) => Exists(table', r)
    /\ MaxEvents > 1 /\ Sealed(r) => Sealed(r)'

\* What holds of a run that a step leaves alone still holds of it.
LEMMA Frame ==
    ASSUME NEW s \in Runs, RunInv(s), SameRun(s), Worsens
    PROVE  RunInv(s)'
<1> USE DEF SameRun, Worsens, Calm, Exists
<1>1. Statuses(s)'
  BY DEF RunInv, Statuses
<1>2. Children(s)'
  BY DEF RunInv, Children
<1>3. Leftovers(s)'
  BY DEF RunInv, Leftovers
<1>4. Pipes(s)'
  BY DEF RunInv, Pipes
<1>5. Logs(s)'
  BY DEF RunInv, Logs, Latest, Sealed, Previous
<1> QED
  BY <1>1, <1>2, <1>3, <1>4, <1>5 DEF RunInv

\* So a step of one run that no reader takes part in keeps the invariant.
LEMMA StepKeeps ==
    ASSUME IInv, NEW r \in Runs, StepOf(r), UNCHANGED reply
    PROVE  IInv'
<1>1. \A s \in Runs : RunInv(s)'
  BY Frame DEF IInv, StepOf
<1>2. \A s \in Runs : Exists(table, s) => Exists(table', s)
  BY DEF StepOf, SameRun, Exists
<1>3. \A s \in Runs : MaxEvents > 1 /\ Sealed(s) => Sealed(s)'
  BY DEF StepOf, SameRun, Sealed, Latest, Previous
<1>4. Replies'
  BY <1>2, <1>3 DEF IInv, Replies, Has, Exists
<1> QED
  BY <1>1, <1>4 DEF IInv, StepOf

-----------------------------------------------------------------------------
(* The steps of handle_run and of the task *)

\* A call's state: in the table, or not yet.
LEMMA BegunExists ==
    ASSUME NEW r \in Runs, RunInv(r), pc[r] # "none"
    PROVE  Exists(table, r)
BY DEF RunInv, Statuses

\* create_run.
LEMMA CreateStep ==
    ASSUME IInv, NEW r \in Runs, CreateRun(r)
    PROVE  StepOf(r)
<1> USE DEF IInv, RunInv
<1>1. /\ table' \in Table /\ table'[r] = NewRecord
      /\ \A s \in Runs \ {r} : table'[s] = table[s]
  <2>1. table \in Table /\ table' = WithRun(table, r)
    BY DEF TypeOK, CreateRun, StoreCall
  <2>2. table' \in Table
    BY <2>1, WithRunType
  <2> QED
    BY <2>1, <2>2 DEF WithRun, Table
<1>2. /\ pc' \in [Runs -> Step] /\ trouble' \in Trouble
      /\ \A s \in Runs \ {r} : pc'[s] = pc[s]
      /\ pc[r] = "none" /\ pc'[r] \in {"created", "refused"}
      /\ trouble'.panics = trouble.panics
      /\ trouble' = trouble \/ trouble'.errs > 0
  <2>1. /\ pc \in [Runs -> Step] /\ pc[r] = "none"
        /\ {"created", "refused"} \subseteq Step
    BY DEF TypeOK, CreateRun, At, Step, Dispatching
  <2>2. /\ trouble \in Trouble
        /\ \/ pc' = [pc EXCEPT ![r] = "created"] /\ trouble' = trouble
           \/ /\ trouble.errs < MaxStoreErrs
              /\ pc' = [pc EXCEPT ![r] = "refused"]
              /\ trouble' = [trouble EXCEPT !.errs = trouble.errs + 1]
    BY DEF CreateRun, StoreCall, Goto, TypeOK, Trouble
  <2>3. /\ trouble' \in Trouble /\ trouble'.panics = trouble.panics
        /\ trouble' = trouble \/ trouble'.errs > 0
    BY <2>2, RunsAssumption DEF Trouble
  <2> QED
    BY <2>1, <2>2, <2>3
<1>3. /\ UNCHANGED <<lines, child, tracked, stopper, canceled, killed, reply>>
      /\ backend' \in [Runs -> Backends \cup {"none"}]
  BY DEF CreateRun, childVars, serviceVars, TypeOK
<1>4. TypeOK'
  BY <1>1, <1>2, <1>3 DEF TypeOK, Trouble
<1>5. RunInv(r)'
  <2> USE DEF Calm, Exists, NewRecord, Calling, Subprocess, Underway, Wrapped,
              Dispatching
  <2>1. Statuses(r)'
    BY <1>1, <1>2 DEF Statuses
  <2>2. Children(r)'
    BY <1>1, <1>2, <1>3 DEF Children
  <2>3. Leftovers(r)'
    BY <1>1, <1>2, <1>3 DEF Leftovers, Children
  <2>4. Pipes(r)'
    BY <1>2, <1>3 DEF Pipes, Children
  <2>5. Logs(r)'
    BY <1>1, <1>2 DEF Logs
  <2> QED
    BY <2>1, <2>2, <2>3, <2>4, <2>5
<1>6. ~Sealed(r) /\ Exists(table', r)
  BY <1>1, <1>2 DEF Sealed, Wrapped, Exists, NewRecord
<1> QED
  BY <1>1, <1>2, <1>3, <1>4, <1>5, <1>6 DEF StepOf, SameRun, Worsens

\* The child, its lines and the map are as they should be and, but for run
\* r, as they were.
Handled(r) ==
    /\ lines' \in [Runs -> [ready : 0..MaxLines, wrote : 0..MaxLines]]
    /\ child' \in [Runs -> [state : ChildState, stderr : 0..PipeCapacity,
                            wrote : 0..MaxErrLines]]
    /\ tracked' \subseteq Runs
    /\ \A s \in Runs \ {r} :
        /\ lines'[s] = lines[s] /\ child'[s] = child[s]
        /\ s \in tracked' <=> s \in tracked

\* A step that leaves them alone.
LEMMA Untouched ==
    ASSUME IInv, NEW r \in Runs, UNCHANGED childVars
    PROVE  Handled(r) /\ lines' = lines /\ child' = child /\ tracked' = tracked
BY DEF childVars, Handled, IInv, TypeOK

\* What is left to show of a step of the task or of handle_run.
LEMMA TaskStepOf ==
    ASSUME IInv, NEW r \in Runs, Local(r), Handled(r),
           UNCHANGED <<backend, serviceVars>>,
           RunInv(r)', Exists(table', r),
           MaxEvents > 1 /\ Sealed(r) => Sealed(r)'
    PROVE  StepOf(r) /\ UNCHANGED reply
<1>1. TypeOK'
  BY DEF IInv, TypeOK, Local, Handled, serviceVars, Trouble
<1>2. Worsens
  BY DEF Local, Worsens
<1> QED
  BY <1>1, <1>2 DEF StepOf, SameRun, Local, Handled, serviceVars

\* The invariant of run r, its facts spelled out.
LEMMA RunInvIs ==
    ASSUME IInv, NEW r \in Runs
    PROVE  /\ Statuses(r) /\ Children(r) /\ Leftovers(r) /\ Pipes(r) /\ Logs(r)
           /\ pc[r] # "none" => Exists(table, r)
BY DEF IInv, RunInv, Statuses

\* update_status to Running.
LEMMA MarkRunningStep ==
    ASSUME IInv, NEW r \in Runs, MarkRunning(r)
    PROVE  StepOf(r) /\ UNCHANGED reply
<1>1. pc[r] = "created" /\ Exists(table, r) /\ TypeOK
  BY RunInvIs DEF MarkRunning, At, IInv
<1>2. {"start", "refused"} \subseteq Step /\ "Running" \in RunState
  BY DEF Step, Calling, Subprocess, Dispatching, Ending, RunState, Finished
<1>3. SetStatus(r, "Running", "start", "refused")
  BY DEF MarkRunning
<1>4. /\ Local(r)
      /\ table'[r].state = "Running" /\ table'[r].events = table[r].events
      /\ \/ pc'[r] = "start" /\ trouble' = trouble
         \/ pc'[r] = "refused" /\ trouble'.errs > 0
  BY <1>1, <1>2, <1>3, StatusCall
<1>5. UNCHANGED <<backend, childVars, serviceVars>>
  BY DEF MarkRunning
<1>6. Handled(r) /\ lines' = lines /\ child' = child /\ tracked' = tracked
  BY <1>5, Untouched
<1>7. RunInv(r)' /\ Exists(table', r)
  BY <1>1, <1>4, <1>5, <1>6, RunInvIs
  DEF RunInv, serviceVars, Statuses, Children, Leftovers, Pipes, Alive, Logs, Calm, Exists, Exited,
      Calling, Subprocess, Underway, Wrapped, Dispatching, Sealed, Latest,
      Previous, Local
<1>8. MaxEvents > 1 /\ Sealed(r) => Sealed(r)'
  BY <1>1, <1>4 DEF Sealed, Wrapped, Latest, Previous
<1> QED
  BY <1>4, <1>5, <1>6, <1>7, <1>8, TaskStepOf

\* An API call without a key fails the run.
LEMMA KeylessStep ==
    ASSUME IInv, NEW r \in Runs, Keyless(r)
    PROVE  StepOf(r) /\ UNCHANGED reply
<1>1. pc[r] = "keyless" /\ Exists(table, r) /\ TypeOK
  BY RunInvIs DEF Keyless, At, IInv
<1>2. {"fail", "fail"} \subseteq Step /\ "Failed" \in RunState
  BY DEF Step, Calling, Subprocess, Dispatching, Ending, RunState, Finished
<1>3. SetStatus(r, "Failed", "fail", "fail")
  BY DEF Keyless
<1>4. /\ Local(r)
      /\ table'[r].state = "Failed" /\ table'[r].events = table[r].events
      /\ \/ pc'[r] = "fail" /\ trouble' = trouble
         \/ pc'[r] = "fail" /\ trouble'.errs > 0
  BY <1>1, <1>2, <1>3, StatusCall
<1>5. UNCHANGED <<backend, childVars, serviceVars>>
  BY DEF Keyless
<1>6. Handled(r) /\ lines' = lines /\ child' = child /\ tracked' = tracked
  BY <1>5, Untouched
<1>7. RunInv(r)' /\ Exists(table', r)
  BY <1>1, <1>4, <1>5, <1>6, RunInvIs
  DEF RunInv, serviceVars, Statuses, Children, Leftovers, Pipes, Alive, Logs, Calm, Exists, Exited,
      Calling, Subprocess, Underway, Wrapped, Dispatching, Sealed, Latest,
      Previous, Local
<1>8. MaxEvents > 1 /\ Sealed(r) => Sealed(r)'
  BY <1>1, <1>4 DEF Sealed, Wrapped, Latest, Previous
<1> QED
  BY <1>4, <1>5, <1>6, <1>7, <1>8, TaskStepOf

\* A refused API call appends an error event.
LEMMA HttpErrorStep ==
    ASSUME IInv, NEW r \in Runs, HttpError(r)
    PROVE  StepOf(r) /\ UNCHANGED reply
<1>1. pc[r] = "httpError" /\ Exists(table, r) /\ TypeOK
  BY RunInvIs DEF HttpError, At, IInv
<1>2. {"httpFailed", "fail"} \subseteq Step
  BY DEF Step, Calling, Subprocess, Dispatching, Ending
<1>3. Append_(r, "error", "httpFailed", "fail")
  BY DEF HttpError
<1>4. /\ Local(r)
      /\ table'[r].state = table[r].state
      /\ Latest(table'[r], "error")
      /\ MaxEvents > 1 /\ Latest(table[r], "completion") =>
           Previous(table'[r], "completion")
      /\ \/ pc'[r] = "httpFailed" /\ trouble' = trouble
         \/ pc'[r] = "fail" /\ trouble'.errs > 0
  BY <1>1, <1>2, <1>3, AppendCall, TaskKinds
<1>5. UNCHANGED <<backend, childVars, serviceVars>>
  BY DEF HttpError
<1>6. Handled(r) /\ lines' = lines /\ child' = child /\ tracked' = tracked
  BY <1>5, Untouched
<1>7. RunInv(r)' /\ Exists(table', r)
  BY <1>1, <1>4, <1>5, <1>6, RunInvIs
  DEF RunInv, serviceVars, Statuses, Children, Leftovers, Pipes, Alive, Logs, Calm, Exists, Exited,
      Calling, Subprocess, Underway, Wrapped, Dispatching, Sealed, Latest,
      Previous, Local
<1>8. MaxEvents > 1 /\ Sealed(r) => Sealed(r)'
  BY <1>1, <1>4 DEF Sealed, Wrapped
<1> QED
  BY <1>4, <1>5, <1>6, <1>7, <1>8, TaskStepOf

\* The status of a refused API call follows its event.
LEMMA HttpFailedStep ==
    ASSUME IInv, NEW r \in Runs, HttpFailed(r)
    PROVE  StepOf(r) /\ UNCHANGED reply
<1>1. pc[r] = "httpFailed" /\ Exists(table, r) /\ TypeOK
  BY RunInvIs DEF HttpFailed, At, IInv
<1>2. {"fail", "fail"} \subseteq Step /\ "Failed" \in RunState
  BY DEF Step, Calling, Subprocess, Dispatching, Ending, RunState, Finished
<1>3. SetStatus(r, "Failed", "fail", "fail")
  BY DEF HttpFailed
<1>4. /\ Local(r)
      /\ table'[r].state = "Failed" /\ table'[r].events = table[r].events
      /\ \/ pc'[r] = "fail" /\ trouble' = trouble
         \/ pc'[r] = "fail" /\ trouble'.errs > 0
  BY <1>1, <1>2, <1>3, StatusCall
<1>5. UNCHANGED <<backend, childVars, serviceVars>>
  BY DEF HttpFailed
<1>6. Handled(r) /\ lines' = lines /\ child' = child /\ tracked' = tracked
  BY <1>5, Untouched
<1>7. RunInv(r)' /\ Exists(table', r)
  BY <1>1, <1>4, <1>5, <1>6, RunInvIs
  DEF RunInv, serviceVars, Statuses, Children, Leftovers, Pipes, Alive, Logs, Calm, Exists, Exited,
      Calling, Subprocess, Underway, Wrapped, Dispatching, Sealed, Latest,
      Previous, Local
<1>8. MaxEvents > 1 /\ Sealed(r) => Sealed(r)'
  BY <1>1, <1>4 DEF Sealed, Wrapped, Latest, Previous
<1> QED
  BY <1>4, <1>5, <1>6, <1>7, <1>8, TaskStepOf

\* An exit code other than 0 appends an error event.
LEMMA CliErrorStep ==
    ASSUME IInv, NEW r \in Runs, CliError(r)
    PROVE  StepOf(r) /\ UNCHANGED reply
<1>1. pc[r] = "cliError" /\ Exists(table, r) /\ TypeOK
  BY RunInvIs DEF CliError, At, IInv
<1>2. {"cliFailed", "fail"} \subseteq Step
  BY DEF Step, Calling, Subprocess, Dispatching, Ending
<1>3. Append_(r, "error", "cliFailed", "fail")
  BY DEF CliError
<1>4. /\ Local(r)
      /\ table'[r].state = table[r].state
      /\ Latest(table'[r], "error")
      /\ MaxEvents > 1 /\ Latest(table[r], "completion") =>
           Previous(table'[r], "completion")
      /\ \/ pc'[r] = "cliFailed" /\ trouble' = trouble
         \/ pc'[r] = "fail" /\ trouble'.errs > 0
  BY <1>1, <1>2, <1>3, AppendCall, TaskKinds
<1>5. UNCHANGED <<backend, childVars, serviceVars>>
  BY DEF CliError
<1>6. Handled(r) /\ lines' = lines /\ child' = child /\ tracked' = tracked
  BY <1>5, Untouched
<1>7. RunInv(r)' /\ Exists(table', r)
  BY <1>1, <1>4, <1>5, <1>6, RunInvIs
  DEF RunInv, serviceVars, Statuses, Children, Leftovers, Pipes, Alive, Logs, Calm, Exists, Exited,
      Calling, Subprocess, Underway, Wrapped, Dispatching, Sealed, Latest,
      Previous, Local
<1>8. MaxEvents > 1 /\ Sealed(r) => Sealed(r)'
  BY <1>1, <1>4 DEF Sealed, Wrapped
<1> QED
  BY <1>4, <1>5, <1>6, <1>7, <1>8, TaskStepOf

\* The status of a failed child follows its event.
LEMMA CliFailedStep ==
    ASSUME IInv, NEW r \in Runs, CliFailed(r)
    PROVE  StepOf(r) /\ UNCHANGED reply
<1>1. pc[r] = "cliFailed" /\ Exists(table, r) /\ TypeOK
  BY RunInvIs DEF CliFailed, At, IInv
<1>2. {"done", "fail"} \subseteq Step /\ "Failed" \in RunState
  BY DEF Step, Calling, Subprocess, Dispatching, Ending, RunState, Finished
<1>3. SetStatus(r, "Failed", "done", "fail")
  BY DEF CliFailed
<1>4. /\ Local(r)
      /\ table'[r].state = "Failed" /\ table'[r].events = table[r].events
      /\ \/ pc'[r] = "done" /\ trouble' = trouble
         \/ pc'[r] = "fail" /\ trouble'.errs > 0
  BY <1>1, <1>2, <1>3, StatusCall
<1>5. UNCHANGED <<backend, childVars, serviceVars>>
  BY DEF CliFailed
<1>6. Handled(r) /\ lines' = lines /\ child' = child /\ tracked' = tracked
  BY <1>5, Untouched
<1>7. RunInv(r)' /\ Exists(table', r)
  BY <1>1, <1>4, <1>5, <1>6, RunInvIs
  DEF RunInv, serviceVars, Statuses, Children, Leftovers, Pipes, Alive, Logs, Calm, Exists, Exited,
      Calling, Subprocess, Underway, Wrapped, Dispatching, Sealed, Latest,
      Previous, Local
<1>8. MaxEvents > 1 /\ Sealed(r) => Sealed(r)'
  BY <1>1, <1>4 DEF Sealed, Wrapped, Latest, Previous
<1> QED
  BY <1>4, <1>5, <1>6, <1>7, <1>8, TaskStepOf

\* A success appends its completion event first.
LEMMA CompletionStep ==
    ASSUME IInv, NEW r \in Runs, Completion(r)
    PROVE  StepOf(r) /\ UNCHANGED reply
<1>1. pc[r] = "completion" /\ Exists(table, r) /\ TypeOK
  BY RunInvIs DEF Completion, At, IInv
<1>2. {"succeed", "fail"} \subseteq Step
  BY DEF Step, Calling, Subprocess, Dispatching, Ending
<1>3. Append_(r, "completion", "succeed", "fail")
  BY DEF Completion
<1>4. /\ Local(r)
      /\ table'[r].state = table[r].state
      /\ Latest(table'[r], "completion")
      /\ MaxEvents > 1 /\ Latest(table[r], "completion") =>
           Previous(table'[r], "completion")
      /\ \/ pc'[r] = "succeed" /\ trouble' = trouble
         \/ pc'[r] = "fail" /\ trouble'.errs > 0
  BY <1>1, <1>2, <1>3, AppendCall, TaskKinds
<1>5. UNCHANGED <<backend, childVars, serviceVars>>
  BY DEF Completion
<1>6. Handled(r) /\ lines' = lines /\ child' = child /\ tracked' = tracked
  BY <1>5, Untouched
<1>7. RunInv(r)' /\ Exists(table', r)
  BY <1>1, <1>4, <1>5, <1>6, RunInvIs
  DEF RunInv, serviceVars, Statuses, Children, Leftovers, Pipes, Alive, Logs, Calm, Exists, Exited,
      Calling, Subprocess, Underway, Wrapped, Dispatching, Sealed, Latest,
      Previous, Local
<1>8. MaxEvents > 1 /\ Sealed(r) => Sealed(r)'
  BY <1>1, <1>4 DEF Sealed, Wrapped
<1> QED
  BY <1>4, <1>5, <1>6, <1>7, <1>8, TaskStepOf

\* The status follows the completion event.
LEMMA SucceedStep ==
    ASSUME IInv, NEW r \in Runs, Succeed(r)
    PROVE  StepOf(r) /\ UNCHANGED reply
<1>1. pc[r] = "succeed" /\ Exists(table, r) /\ TypeOK
  BY RunInvIs DEF Succeed, At, IInv
<1>2. {"done", "fail"} \subseteq Step /\ "Succeeded" \in RunState
  BY DEF Step, Calling, Subprocess, Dispatching, Ending, RunState, Finished
<1>3. SetStatus(r, "Succeeded", "done", "fail")
  BY DEF Succeed
<1>4. /\ Local(r)
      /\ table'[r].state = "Succeeded" /\ table'[r].events = table[r].events
      /\ \/ pc'[r] = "done" /\ trouble' = trouble
         \/ pc'[r] = "fail" /\ trouble'.errs > 0
  BY <1>1, <1>2, <1>3, StatusCall
<1>5. UNCHANGED <<backend, childVars, serviceVars>>
  BY DEF Succeed
<1>6. Handled(r) /\ lines' = lines /\ child' = child /\ tracked' = tracked
  BY <1>5, Untouched
<1>7. RunInv(r)' /\ Exists(table', r)
  BY <1>1, <1>4, <1>5, <1>6, RunInvIs
  DEF RunInv, serviceVars, Statuses, Children, Leftovers, Pipes, Alive, Logs, Calm, Exists, Exited,
      Calling, Subprocess, Underway, Wrapped, Dispatching, Sealed, Latest,
      Previous, Local
<1>8. MaxEvents > 1 /\ Sealed(r) => Sealed(r)'
  BY <1>1, <1>4 DEF Sealed, Wrapped, Latest, Previous
<1> QED
  BY <1>4, <1>5, <1>6, <1>7, <1>8, TaskStepOf

\* The error wrapper appends an error event.
LEMMA FailStep ==
    ASSUME IInv, NEW r \in Runs, Fail(r)
    PROVE  StepOf(r) /\ UNCHANGED reply
<1>1. pc[r] = "fail" /\ Exists(table, r) /\ TypeOK
  BY RunInvIs DEF Fail, At, IInv
<1>2. {"failStatus", "failStatus"} \subseteq Step
  BY DEF Step, Calling, Subprocess, Dispatching, Ending
<1>3. Append_(r, "error", "failStatus", "failStatus")
  BY DEF Fail
<1>4. /\ Local(r)
      /\ table'[r].state = table[r].state
      /\ Latest(table'[r], "error")
      /\ MaxEvents > 1 /\ Latest(table[r], "completion") =>
           Previous(table'[r], "completion")
      /\ \/ pc'[r] = "failStatus" /\ trouble' = trouble
         \/ pc'[r] = "failStatus" /\ trouble'.errs > 0
  BY <1>1, <1>2, <1>3, AppendCall, TaskKinds
<1>5. UNCHANGED <<backend, childVars, serviceVars>>
  BY DEF Fail
<1>6. Handled(r) /\ lines' = lines /\ child' = child /\ tracked' = tracked
  BY <1>5, Untouched
<1>7. RunInv(r)' /\ Exists(table', r)
  BY <1>1, <1>4, <1>5, <1>6, RunInvIs
  DEF RunInv, serviceVars, Statuses, Children, Leftovers, Pipes, Alive, Logs, Calm, Exists, Exited,
      Calling, Subprocess, Underway, Wrapped, Dispatching, Sealed, Latest,
      Previous, Local
<1>8. MaxEvents > 1 /\ Sealed(r) => Sealed(r)'
  BY <1>1, <1>4 DEF Sealed, Wrapped
<1> QED
  BY <1>4, <1>5, <1>6, <1>7, <1>8, TaskStepOf

\* The status of a failed task follows its event.
LEMMA FailStatusStep ==
    ASSUME IInv, NEW r \in Runs, FailStatus(r)
    PROVE  StepOf(r) /\ UNCHANGED reply
<1>1. pc[r] = "failStatus" /\ Exists(table, r) /\ TypeOK
  BY RunInvIs DEF FailStatus, At, IInv
<1>2. {"done", "done"} \subseteq Step /\ "Failed" \in RunState
  BY DEF Step, Calling, Subprocess, Dispatching, Ending, RunState, Finished
<1>3. SetStatus(r, "Failed", "done", "done")
  BY DEF FailStatus
<1>4. /\ Local(r)
      /\ table'[r].state = "Failed" /\ table'[r].events = table[r].events
      /\ \/ pc'[r] = "done" /\ trouble' = trouble
         \/ pc'[r] = "done" /\ trouble'.errs > 0
  BY <1>1, <1>2, <1>3, StatusCall
<1>5. UNCHANGED <<backend, childVars, serviceVars>>
  BY DEF FailStatus
<1>6. Handled(r) /\ lines' = lines /\ child' = child /\ tracked' = tracked
  BY <1>5, Untouched
<1>7. RunInv(r)' /\ Exists(table', r)
  BY <1>1, <1>4, <1>5, <1>6, RunInvIs
  DEF RunInv, serviceVars, Statuses, Children, Leftovers, Pipes, Alive, Logs, Calm, Exists, Exited,
      Calling, Subprocess, Underway, Wrapped, Dispatching, Sealed, Latest,
      Previous, Local
<1>8. MaxEvents > 1 /\ Sealed(r) => Sealed(r)'
  BY <1>1, <1>4 DEF Sealed, Wrapped, Latest, Previous
<1> QED
  BY <1>4, <1>5, <1>6, <1>7, <1>8, TaskStepOf

\* The monitor fails a run whose task panicked.
LEMMA MonitorStep ==
    ASSUME IInv, NEW r \in Runs, Monitor(r)
    PROVE  StepOf(r) /\ UNCHANGED reply
<1>1. pc[r] = "panicked" /\ Exists(table, r) /\ TypeOK
  BY RunInvIs DEF Monitor, At, IInv
<1>2. {"done", "done"} \subseteq Step /\ "Failed" \in RunState
  BY DEF Step, Calling, Subprocess, Dispatching, Ending, RunState, Finished
<1>3. SetStatus(r, "Failed", "done", "done")
  BY DEF Monitor
<1>4. /\ Local(r)
      /\ table'[r].state = "Failed" /\ table'[r].events = table[r].events
      /\ \/ pc'[r] = "done" /\ trouble' = trouble
         \/ pc'[r] = "done" /\ trouble'.errs > 0
  BY <1>1, <1>2, <1>3, StatusCall
<1>5. UNCHANGED <<backend, childVars, serviceVars>>
  BY DEF Monitor
<1>6. Handled(r) /\ lines' = lines /\ child' = child /\ tracked' = tracked
  BY <1>5, Untouched
<1>7. RunInv(r)' /\ Exists(table', r)
  BY <1>1, <1>4, <1>5, <1>6, RunInvIs
  DEF RunInv, serviceVars, Statuses, Children, Leftovers, Pipes, Alive, Logs, Calm, Exists, Exited,
      Calling, Subprocess, Underway, Wrapped, Dispatching, Sealed, Latest,
      Previous, Local
<1>8. MaxEvents > 1 /\ Sealed(r) => Sealed(r)'
  BY <1>1, <1>4 DEF Sealed, Wrapped, Latest, Previous
<1> QED
  BY <1>4, <1>5, <1>6, <1>7, <1>8, TaskStepOf

\* The first event of a task.
LEMMA StartStep ==
    ASSUME IInv, NEW r \in Runs, Start(r)
    PROVE  StepOf(r) /\ UNCHANGED reply
<1>1. pc[r] = "start" /\ Exists(table, r) /\ TypeOK
  BY RunInvIs DEF Start, At, IInv
<1>2. {"spawn", "keyless", "send", "fail"} \subseteq Step
  BY DEF Step, Calling, Subprocess, Dispatching, Ending
<1>3. \E next \in {"spawn", "keyless", "send"} : Append_(r, "start", next, "fail")
  BY DEF Start
<1>4. /\ Local(r)
      /\ table'[r].state = table[r].state
      /\ \/ pc'[r] \in {"spawn", "keyless", "send"}
         \/ pc'[r] = "fail" /\ trouble'.errs > 0
  BY <1>1, <1>2, <1>3, AppendCall, TaskKinds
<1>5. UNCHANGED <<backend, childVars, serviceVars>>
  BY DEF Start
<1>6. Handled(r) /\ lines' = lines /\ child' = child /\ tracked' = tracked
  BY <1>5, Untouched
<1>7. RunInv(r)' /\ Exists(table', r)
  BY <1>1, <1>4, <1>5, <1>6, RunInvIs
  DEF RunInv, serviceVars, Statuses, Children, Leftovers, Pipes, Alive, Logs, Calm, Exists, Exited,
      Calling, Subprocess, Underway, Wrapped, Dispatching, Sealed, Latest,
      Previous, Local
<1>8. MaxEvents > 1 /\ Sealed(r) => Sealed(r)'
  BY <1>1, <1>4, <1>5, <1>6 DEF Sealed, Wrapped, Latest, Previous
<1> QED
  BY <1>1, <1>4, <1>5, <1>6, <1>7, <1>8, TaskStepOf

\* The API call returns within its timeout.
LEMMA SendStep ==
    ASSUME IInv, NEW r \in Runs, Send(r)
    PROVE  StepOf(r) /\ UNCHANGED reply
<1>1. pc[r] = "send" /\ Exists(table, r) /\ TypeOK
  BY RunInvIs DEF Send, At, IInv
<1>2. {"fail", "httpError", "stream"} \subseteq Step
  BY DEF Step, Calling, Subprocess, Dispatching, Ending
<1>3. \E step \in {"fail", "httpError", "stream"} : Move(r, step)
  BY DEF Send
<1>4. Local(r) /\ table' = table /\ trouble' = trouble /\ pc'[r] \in {"fail", "httpError", "stream"}
  BY <1>1, <1>2, <1>3, PlainMove
<1>5. UNCHANGED <<backend, child, tracked, serviceVars>> /\ Handled(r)
  <2>1. \/ lines' = lines
        \/ \E n \in 0..MaxLines : lines' = [lines EXCEPT ![r].ready = n]
    BY DEF Send
  <2>2. /\ lines' \in [Runs -> [ready : 0..MaxLines, wrote : 0..MaxLines]]
        /\ \A s \in Runs \ {r} : lines'[s] = lines[s]
    BY <1>1, <2>1 DEF TypeOK
  <2>3. UNCHANGED <<backend, child, tracked, serviceVars>>
    BY DEF Send
  <2> QED
    BY <1>1, <2>2, <2>3 DEF Handled, TypeOK
<1>6. RunInv(r)' /\ Exists(table', r)
  BY <1>1, <1>4, <1>5, RunInvIs
  DEF RunInv, serviceVars, Statuses, Children, Leftovers, Pipes, Alive, Logs, Calm, Exists, Exited,
      Calling, Subprocess, Underway, Wrapped, Dispatching, Sealed, Latest,
      Previous, Local
<1>7. MaxEvents > 1 /\ Sealed(r) => Sealed(r)'
  BY <1>1, <1>4, <1>5 DEF Sealed, Wrapped, Latest, Previous
<1> QED
  BY <1>1, <1>4, <1>5, <1>6, <1>7, TaskStepOf

\* A line of the child is appended.
LEMMA ReadLineStep ==
    ASSUME IInv, NEW r \in Runs, ReadLine(r), lines[r].ready > 0
    PROVE  StepOf(r) /\ UNCHANGED reply
<1>1. pc[r] = "read" /\ Exists(table, r) /\ TypeOK
  BY RunInvIs DEF ReadLine, At, IInv
<1>2. {"read", "fail"} \subseteq Step
  BY DEF Step, Calling, Subprocess, Dispatching, Ending
<1>3. Append_(r, "stream", "read", "fail")
  BY DEF ReadLine
<1>4. /\ Local(r)
      /\ table'[r].state = table[r].state
      /\ \/ pc'[r] = "read"
         \/ pc'[r] = "fail" /\ trouble'.errs > 0
  BY <1>1, <1>2, <1>3, AppendCall, TaskKinds
<1>5. /\ UNCHANGED <<backend, child, tracked, serviceVars>>
      /\ Handled(r)
      /\ lines'[r].ready = lines[r].ready - 1 /\ lines'[r].wrote = lines[r].wrote
      /\ lines[r].ready \in Nat /\ lines[r].wrote \in Nat
  BY <1>1, RunsAssumption DEF ReadLine, Handled, TypeOK
<1>6. RunInv(r)' /\ Exists(table', r)
  BY <1>1, <1>4, <1>5, RunInvIs
  DEF RunInv, serviceVars, Statuses, Children, Leftovers, Pipes, Alive, Logs, Calm, Exists, Exited,
      Calling, Subprocess, Underway, Wrapped, Dispatching, Sealed, Latest,
      Previous, Local
<1>7. MaxEvents > 1 /\ Sealed(r) => Sealed(r)'
  BY <1>1, <1>4, <1>5 DEF Sealed, Wrapped, Latest, Previous
<1> QED
  BY <1>1, <1>4, <1>5, <1>6, <1>7, TaskStepOf

\* A token is appended, or there is none left.
LEMMA StreamStep ==
    ASSUME IInv, NEW r \in Runs, Stream(r)
    PROVE  StepOf(r) /\ UNCHANGED reply
<1>1. pc[r] = "stream" /\ Exists(table, r) /\ TypeOK
  BY RunInvIs DEF Stream, At, IInv
<1>2. {"stream", "completion", "fail"} \subseteq Step
  BY DEF Step, Calling, Subprocess, Dispatching, Ending
<1>3. /\ Local(r)
      /\ table'[r].state = table[r].state
      /\ \/ pc'[r] \in {"stream", "completion"}
         \/ pc'[r] = "fail" /\ trouble'.errs > 0
  <2>1. CASE Append_(r, "stream", "stream", "fail")
    BY <1>1, <1>2, <2>1, AppendCall, TaskKinds
  <2>2. CASE Move(r, "completion")
    BY <1>1, <1>2, <2>2, PlainMove
  <2> QED
    BY <2>1, <2>2 DEF Stream
<1>4. UNCHANGED <<backend, child, tracked, serviceVars>> /\ Handled(r)
  <2>1. \/ lines' = lines
        \/ /\ lines[r].ready > 0
           /\ lines' = [lines EXCEPT ![r].ready = lines[r].ready - 1]
    BY DEF Stream
  <2>2. /\ lines' \in [Runs -> [ready : 0..MaxLines, wrote : 0..MaxLines]]
        /\ \A s \in Runs \ {r} : lines'[s] = lines[s]
    BY <1>1, <2>1, RunsAssumption DEF TypeOK
  <2>3. UNCHANGED <<backend, child, tracked, serviceVars>>
    BY DEF Stream
  <2> QED
    BY <1>1, <2>2, <2>3 DEF Handled, TypeOK
<1>5. RunInv(r)' /\ Exists(table', r)
  BY <1>1, <1>3, <1>4, RunInvIs
  DEF RunInv, serviceVars, Statuses, Children, Leftovers, Pipes, Alive, Logs, Calm, Exists, Exited,
      Calling, Subprocess, Underway, Wrapped, Dispatching, Sealed, Latest,
      Previous, Local
<1>6. MaxEvents > 1 /\ Sealed(r) => Sealed(r)'
  BY <1>1, <1>3, <1>4 DEF Sealed, Wrapped, Latest, Previous
<1> QED
  BY <1>1, <1>3, <1>4, <1>5, <1>6, TaskStepOf

\* The child is spawned, or cannot be.
LEMMA SpawnStep ==
    ASSUME IInv, NEW r \in Runs, Spawn(r)
    PROVE  StepOf(r) /\ UNCHANGED reply
<1>1. pc[r] = "spawn" /\ Exists(table, r) /\ TypeOK
  BY RunInvIs DEF Spawn, At, IInv
<1>2. {"fail", "track"} \subseteq Step
  BY DEF Step, Calling, Subprocess, Dispatching, Ending
<1>3. \E step \in {"fail", "track"} : Move(r, step)
  BY DEF Spawn
<1>4. Local(r) /\ table' = table /\ trouble' = trouble /\ pc'[r] \in {"fail", "track"}
  BY <1>1, <1>2, <1>3, PlainMove
<1>5. /\ UNCHANGED <<backend, lines, tracked, serviceVars>>
      /\ Handled(r)
      /\ \/ pc'[r] = "fail" /\ child' = child
         \/ pc'[r] = "track" /\ child'[r].state = "running"
      /\ lines[r].ready = 0 /\ lines[r].wrote \in Nat
  BY <1>1, RunsAssumption, <1>2, <1>4, RunInvIs
  DEF Spawn, childVars, serviceVars, Handled, TypeOK, Goto, Move, Pipes, At, ChildState
<1>6. RunInv(r)' /\ Exists(table', r)
  BY <1>1, <1>4, <1>5, RunInvIs
  DEF RunInv, serviceVars, Statuses, Children, Leftovers, Pipes, Alive, Logs, Calm, Exists, Exited,
      Calling, Subprocess, Underway, Wrapped, Dispatching, Sealed, Latest,
      Previous, Local
<1>7. MaxEvents > 1 /\ Sealed(r) => Sealed(r)'
  BY <1>1, <1>4, <1>5 DEF Sealed, Wrapped, Latest, Previous
<1> QED
  BY <1>1, <1>4, <1>5, <1>6, <1>7, TaskStepOf

\* The child is put into the map.
LEMMA TrackStep ==
    ASSUME IInv, NEW r \in Runs, Track(r)
    PROVE  StepOf(r) /\ UNCHANGED reply
<1>1. pc[r] = "track" /\ Exists(table, r) /\ TypeOK
  BY RunInvIs DEF Track, At, IInv
<1>2. {"read"} \subseteq Step
  BY DEF Step, Calling, Subprocess, Dispatching, Ending
<1>3. \E step \in {"read"} : Move(r, step)
  BY DEF Track
<1>4. Local(r) /\ table' = table /\ trouble' = trouble /\ pc'[r] \in {"read"}
  BY <1>1, <1>2, <1>3, PlainMove
<1>5. /\ UNCHANGED <<backend, lines, child, serviceVars>>
      /\ Handled(r) /\ r \in tracked'
  BY <1>1, RunInvIs
  DEF Track, childVars, serviceVars, Handled, TypeOK, Goto, Move, Pipes, At
<1>6. RunInv(r)' /\ Exists(table', r)
  BY <1>1, <1>4, <1>5, RunInvIs
  DEF RunInv, serviceVars, Statuses, Children, Leftovers, Pipes, Alive, Logs, Calm, Exists, Exited,
      Calling, Subprocess, Underway, Wrapped, Dispatching, Sealed, Latest,
      Previous, Local
<1>7. MaxEvents > 1 /\ Sealed(r) => Sealed(r)'
  BY <1>1, <1>4, <1>5 DEF Sealed, Wrapped, Latest, Previous
<1> QED
  BY <1>1, <1>4, <1>5, <1>6, <1>7, TaskStepOf

\* The task has met the end of stdout.
LEMMA EndOfOutputStep ==
    ASSUME IInv, NEW r \in Runs, EndOfOutput(r)
    PROVE  StepOf(r) /\ UNCHANGED reply
<1>1. pc[r] = "read" /\ Exists(table, r) /\ TypeOK
  BY RunInvIs DEF EndOfOutput, At, IInv
<1>2. {"errors"} \subseteq Step
  BY DEF Step, Calling, Subprocess, Dispatching, Ending
<1>3. \E step \in {"errors"} : Move(r, step)
  BY DEF EndOfOutput
<1>4. Local(r) /\ table' = table /\ trouble' = trouble /\ pc'[r] \in {"errors"}
  BY <1>1, <1>2, <1>3, PlainMove
<1>5. /\ UNCHANGED <<backend, lines, child, tracked, serviceVars>>
      /\ Handled(r)
  BY <1>1, RunInvIs
  DEF EndOfOutput, childVars, serviceVars, Handled, TypeOK, Goto, Move, Pipes, At
<1>6. RunInv(r)' /\ Exists(table', r)
  BY <1>1, <1>4, <1>5, RunInvIs
  DEF RunInv, serviceVars, Statuses, Children, Leftovers, Pipes, Alive, Logs, Calm, Exists, Exited,
      Calling, Subprocess, Underway, Wrapped, Dispatching, Sealed, Latest,
      Previous, Local
<1>7. MaxEvents > 1 /\ Sealed(r) => Sealed(r)'
  BY <1>1, <1>4, <1>5 DEF Sealed, Wrapped, Latest, Previous
<1> QED
  BY <1>1, <1>4, <1>5, <1>6, <1>7, TaskStepOf

\* The task takes the child out of the map, if it is still there.
LEMMA ReapStep ==
    ASSUME IInv, NEW r \in Runs, Reap(r)
    PROVE  StepOf(r) /\ UNCHANGED reply
<1>1. pc[r] = "reap" /\ Exists(table, r) /\ TypeOK
  BY RunInvIs DEF Reap, At, IInv
<1>2. {"wait", "done"} \subseteq Step
  BY DEF Step, Calling, Subprocess, Dispatching, Ending
<1>3. \E step \in {"wait", "done"} : Move(r, step)
  BY DEF Reap
<1>4. Local(r) /\ table' = table /\ trouble' = trouble /\ pc'[r] \in {"wait", "done"}
  BY <1>1, <1>2, <1>3, PlainMove
<1>5. /\ UNCHANGED <<backend, lines, child, serviceVars>>
      /\ Handled(r) /\ r \notin tracked'
      /\ pc'[r] = (IF r \in tracked THEN "wait" ELSE "done")
  BY <1>1, <1>2, RunInvIs
  DEF Reap, childVars, serviceVars, Handled, TypeOK, Goto, Move, Pipes, At
<1>6. RunInv(r)' /\ Exists(table', r)
  BY <1>1, <1>4, <1>5, RunInvIs
  DEF RunInv, serviceVars, Statuses, Children, Leftovers, Pipes, Alive, Logs, Calm, Exists, Exited,
      Calling, Subprocess, Underway, Wrapped, Dispatching, Sealed, Latest,
      Previous, Local
<1>7. MaxEvents > 1 /\ Sealed(r) => Sealed(r)'
  BY <1>1, <1>4, <1>5 DEF Sealed, Wrapped, Latest, Previous
<1> QED
  BY <1>1, <1>4, <1>5, <1>6, <1>7, TaskStepOf

\* The child's exit code decides.
LEMMA WaitStep ==
    ASSUME IInv, NEW r \in Runs, Wait(r)
    PROVE  StepOf(r) /\ UNCHANGED reply
<1>1. pc[r] = "wait" /\ Exists(table, r) /\ TypeOK
  BY RunInvIs DEF Wait, At, IInv
<1>2. {"completion", "cliError"} \subseteq Step
  BY DEF Step, Calling, Subprocess, Dispatching, Ending
<1>3. \E step \in {"completion", "cliError"} : Move(r, step)
  BY DEF Wait
<1>4. Local(r) /\ table' = table /\ trouble' = trouble /\ pc'[r] \in {"completion", "cliError"}
  BY <1>1, <1>2, <1>3, PlainMove
<1>5. /\ UNCHANGED <<backend, lines, child, tracked, serviceVars>>
      /\ Handled(r) /\ child[r].state \in Exited
      /\ pc'[r] = (IF child[r].state = "succeeded" THEN "completion" ELSE "cliError")
  BY <1>1, <1>2, RunInvIs
  DEF Wait, childVars, serviceVars, Handled, TypeOK, Goto, Move, Pipes, At
<1>6. RunInv(r)' /\ Exists(table', r)
  BY <1>1, <1>4, <1>5, RunInvIs
  DEF RunInv, serviceVars, Statuses, Children, Leftovers, Pipes, Alive, Logs, Calm, Exists, Exited,
      Calling, Subprocess, Underway, Wrapped, Dispatching, Sealed, Latest,
      Previous, Local
<1>7. MaxEvents > 1 /\ Sealed(r) => Sealed(r)'
  BY <1>1, <1>4, <1>5 DEF Sealed, Wrapped, Latest, Previous
<1> QED
  BY <1>1, <1>4, <1>5, <1>6, <1>7, TaskStepOf

\* A line of the child's stderr is read, or its end.
LEMMA ReadErrorsStep ==
    ASSUME IInv, NEW r \in Runs, ReadErrors(r)
    PROVE  StepOf(r) /\ UNCHANGED reply
<1>1. pc[r] = "errors" /\ Exists(table, r) /\ TypeOK
  BY RunInvIs DEF ReadErrors, At, IInv
<1>2. {"errors", "reap"} \subseteq Step
  BY DEF Step, Calling, Subprocess, Dispatching, Ending
<1>3. /\ Local(r) /\ table' = table /\ trouble' = trouble
      /\ pc'[r] \in {"errors", "reap"}
  <2>1. CASE UNCHANGED <<table, pc, trouble>>
    BY <1>1, <2>1 DEF Local, TypeOK, Trouble
  <2>2. CASE Move(r, "reap")
    BY <1>1, <1>2, <2>2, PlainMove
  <2> QED
    BY <2>1, <2>2 DEF ReadErrors
<1>4. /\ UNCHANGED <<backend, lines, tracked, serviceVars>> /\ Handled(r)
      /\ child'[r].state = child[r].state /\ child'[r].wrote = child[r].wrote
  <2>1. \/ child' = child
        \/ /\ child[r].stderr > 0
           /\ child' = [child EXCEPT ![r].stderr = child[r].stderr - 1]
    BY DEF ReadErrors
  <2>2. /\ child' \in [Runs -> [state : ChildState, stderr : 0..PipeCapacity,
                                wrote : 0..MaxErrLines]]
        /\ child'[r].state = child[r].state /\ child'[r].wrote = child[r].wrote
        /\ \A s \in Runs \ {r} : child'[s] = child[s]
    <3>1. CASE child' = child
      BY <1>1, <3>1 DEF TypeOK
    <3>2. CASE child[r].stderr > 0
               /\ child' = [child EXCEPT ![r].stderr = child[r].stderr - 1]
      <4>1. /\ child[r] \in [state : ChildState, stderr : 0..PipeCapacity,
                             wrote : 0..MaxErrLines]
            /\ child[r].stderr - 1 \in 0..PipeCapacity
        BY <1>1, <3>2, RunsAssumption DEF TypeOK
      <4> QED
        BY <1>1, <3>2, <4>1 DEF TypeOK
    <3> QED
      BY <2>1, <3>1, <3>2
  <2>3. UNCHANGED <<backend, lines, tracked, serviceVars>>
    BY DEF ReadErrors
  <2> QED
    BY <1>1, <2>2, <2>3 DEF Handled, TypeOK
<1>5. RunInv(r)' /\ Exists(table', r)
  BY <1>1, <1>3, <1>4, RunInvIs
  DEF RunInv, serviceVars, Statuses, Children, Leftovers, Pipes, Alive, Logs, Calm, Exists, Exited,
      Calling, Subprocess, Underway, Wrapped, Dispatching, Sealed, Latest,
      Previous, Local
<1>6. MaxEvents > 1 /\ Sealed(r) => Sealed(r)'
  BY <1>1, <1>3, <1>4 DEF Sealed, Wrapped, Latest, Previous
<1> QED
  BY <1>1, <1>3, <1>4, <1>5, <1>6, TaskStepOf

\* A panic of the task.
LEMMA PanicStep ==
    ASSUME IInv, NEW r \in Runs, Panic(r)
    PROVE  StepOf(r) /\ UNCHANGED reply
<1>1. /\ pc[r] \in Executing /\ TypeOK
      /\ pc[r] # "none" /\ Exists(table, r)
  BY RunInvIs DEF Panic, IInv, Executing, Dispatching
<1>2. /\ table' = table /\ pc' = [pc EXCEPT ![r] = "panicked"]
      /\ trouble' = [trouble EXCEPT !.panics = trouble.panics + 1]
      /\ trouble.panics < MaxPanics
      /\ UNCHANGED <<backend, childVars, serviceVars>>
  BY DEF Panic, Goto
<1>3. /\ trouble' \in Trouble /\ trouble'.panics > 0 /\ trouble'.errs = trouble.errs
  BY <1>1, <1>2, RunsAssumption DEF TypeOK, Trouble
<1>4. pc' \in [Runs -> Step] /\ pc'[r] = "panicked"
  BY <1>1, <1>2 DEF TypeOK, Step, Ending
<1>5. TypeOK'
  BY <1>1, <1>2, <1>3, <1>4 DEF TypeOK, Trouble, childVars, serviceVars
<1>6. RunInv(r)'
  BY <1>1, <1>2, <1>3, <1>4, RunInvIs
  DEF RunInv, childVars, serviceVars, Executing, Ending, Step, Statuses, Children, Leftovers, Pipes, Alive, Logs, Calm, Exists, Exited,
      Calling, Subprocess, Underway, Wrapped, Dispatching, Sealed, Latest,
      Previous, Local
<1>7. MaxEvents > 1 /\ Sealed(r) => Sealed(r)'
  BY <1>1, <1>2, <1>4 DEF Sealed, Wrapped, Latest, Previous
<1>8. Worsens /\ \A s \in Runs \ {r} : SameRun(s)
  BY <1>1, <1>2, <1>3 DEF Worsens, SameRun, childVars, serviceVars, TypeOK
<1> QED
  BY <1>1, <1>2, <1>5, <1>6, <1>7, <1>8 DEF StepOf, serviceVars

\* A step of the child: it is neither missing nor gone before it, and not
\* missing after it; the task and the handlers stand still.
LEMMA ChildStep ==
    ASSUME IInv, NEW r \in Runs, Child(r)
    PROVE  StepOf(r) /\ UNCHANGED reply
<1> DEFINE Process == [state : ChildState, stderr : 0..PipeCapacity,
                       wrote : 0..MaxErrLines]
           Output  == [ready : 0..MaxLines, wrote : 0..MaxLines]
<1>1. /\ UNCHANGED <<table, pc, backend, tracked, stopper, canceled, killed,
                     reply, trouble>>
      /\ ChildWritesLine(r) \/ ChildStartsErrWrite(r) \/ ChildEndsErrWrite(r)
           \/ ChildDetaches(r) \/ ChildExits(r)
  BY DEF Child, serviceVars
<1>2. /\ TypeOK /\ child \in [Runs -> Process] /\ child[r] \in Process
      /\ lines \in [Runs -> Output] /\ lines[r] \in Output
      /\ MaxLines \in Nat /\ MaxErrLines \in Nat /\ PipeCapacity \in Nat
  BY RunsAssumption DEF IInv, TypeOK
<1>3. /\ child[r].state \in Alive => lines[r].ready <= lines[r].wrote
      /\ child[r].state = "blocked" => child[r].wrote < MaxErrLines
  BY RunInvIs DEF Pipes
<1>4. /\ child[r].state \in Alive
      /\ child'[r].state \in ChildState \ {"none", "killed"}
      /\ child'[r].state = "blocked" => child'[r].wrote < MaxErrLines
      /\ lines'[r].ready <= lines'[r].wrote
      /\ lines' \in [Runs -> Output] /\ child' \in [Runs -> Process]
      /\ \A s \in Runs \ {r} : lines'[s] = lines[s] /\ child'[s] = child[s]
  <2>1. CASE ChildWritesLine(r)
    <3>1. /\ child[r].state = "running" /\ child' = child
          /\ lines' = [lines EXCEPT ![r].ready = lines[r].ready + 1,
                                    ![r].wrote = lines[r].wrote + 1]
          /\ lines[r].ready + 1 \in 0..MaxLines
          /\ lines[r].wrote + 1 \in 0..MaxLines
      BY <1>2, <1>3, <2>1 DEF ChildWritesLine, Alive
    <3>2. /\ lines' \in [Runs -> Output]
          /\ lines'[r].ready = lines[r].ready + 1
          /\ lines'[r].wrote = lines[r].wrote + 1
          /\ \A s \in Runs \ {r} : lines'[s] = lines[s]
      BY <1>2, <3>1
    <3>3. lines'[r].ready <= lines'[r].wrote
      BY <1>2, <1>3, <3>1, <3>2 DEF Alive
    <3> QED
      BY <1>2, <3>1, <3>2, <3>3 DEF ChildState, Alive
  <2>2. CASE ChildStartsErrWrite(r)
    BY <1>2, <1>3, <2>2 DEF ChildStartsErrWrite, ChildState, Alive
  <2>3. CASE ChildEndsErrWrite(r)
    <3>1. /\ child[r].state = "blocked" /\ lines' = lines
          /\ child[r].wrote + 1 \in 0..MaxErrLines
          /\ \/ /\ child[r].stderr + 1 \in 0..PipeCapacity
                /\ child' = [child EXCEPT ![r].state = "running",
                                          ![r].stderr = child[r].stderr + 1,
                                          ![r].wrote = child[r].wrote + 1]
             \/ child' = [child EXCEPT ![r].state = "running",
                                       ![r].wrote = child[r].wrote + 1]
      BY <1>2, <1>3, <2>3 DEF ChildEndsErrWrite, Alive
    <3> QED
      BY <1>2, <1>3, <3>1 DEF ChildState, Alive
  <2>4. CASE ChildDetaches(r)
    BY <1>2, <1>3, <2>4 DEF ChildDetaches, ChildState, Alive
  <2>5. CASE ChildExits(r)
    BY <1>2, <1>3, <2>5 DEF ChildExits, ChildState, Alive
  <2> QED
    BY <1>1, <2>1, <2>2, <2>3, <2>4, <2>5
<1>5. TypeOK'
  BY <1>1, <1>2, <1>4 DEF TypeOK
<1>6. RunInv(r)'
  <2> USE <1>1, <1>4, RunInvIs DEF Calm, Exists, Exited, Alive
  <2>1. Statuses(r)'
    BY DEF Statuses
  <2>2. Children(r)'
    BY DEF Children
  <2>3. Leftovers(r)'
    BY DEF Leftovers
  <2>4. Pipes(r)'
    BY DEF Pipes, Children, Calling, Dispatching
  <2>5. Logs(r)'
    BY DEF Logs, Sealed, Latest, Previous
  <2> QED
    BY <2>1, <2>2, <2>3, <2>4, <2>5 DEF RunInv
<1>7. MaxEvents > 1 /\ Sealed(r) => Sealed(r)'
  BY <1>1 DEF Sealed, Latest, Previous
<1>8. Worsens /\ \A s \in Runs \ {r} : SameRun(s)
  BY <1>1, <1>4 DEF Worsens, SameRun
<1> QED
  BY <1>1, <1>5, <1>6, <1>7, <1>8 DEF StepOf, Exists

-----------------------------------------------------------------------------
(* The steps of the stops and of the readers *)

\* The store's stop cancels a run that is not finished, or does nothing.
LEMMA StoreStopCall ==
    ASSUME IInv, NEW r \in Runs, StoreStop(r)
    PROVE  /\ table' \in Table
           /\ \A s \in Runs \ {r} : table'[s] = table[s]
           /\ table'[r].events = table[r].events
           /\ Exists(table', r) <=> Exists(table, r)
           /\ \/ Stoppable(table, r) /\ table'[r].state = "Canceled"
              \/ ~Stoppable(table, r) /\ table' = table
           /\ canceled' \subseteq Runs
<1>1. table \in Table /\ canceled \subseteq Runs
  BY DEF IInv, TypeOK
<1>2. CASE Stoppable(table, r)
  <2>1. Exists(table, r) /\ "Canceled" \in RunState
    BY <1>1, <1>2, StoppableExists DEF RunState, Finished
  <2>2. table' = WithStatus(table, r, "Canceled") /\ canceled' = canceled \cup {r}
    BY <1>2 DEF StoreStop
  <2>3. WithStatus(table, r, "Canceled") \in Table
    BY <1>1, <2>1, WithStatusType
  <2> QED
    BY <1>1, <1>2, <2>1, <2>2, <2>3, StatusSet DEF Exists
<1>3. CASE ~Stoppable(table, r)
  BY <1>1, <1>3 DEF StoreStop
<1> QED
  BY <1>2, <1>3

\* The service's stop: a status, and nothing else.
LEMMA HandleStopStep ==
    ASSUME IInv, NEW r \in Runs, HandleStop(r)
    PROVE  StepOf(r) /\ UNCHANGED reply
<1>1. /\ UNCHANGED <<pc, backend, lines, child, tracked, stopper, killed, reply,
                     trouble>>
      /\ Stoppable(table, r) /\ StoreStop(r)
  BY DEF HandleStop, childVars
<1>2. /\ table' \in Table /\ canceled' \subseteq Runs
      /\ \A s \in Runs \ {r} : table'[s] = table[s]
      /\ table'[r].events = table[r].events
      /\ table'[r].state = "Canceled"
      /\ Exists(table', r) /\ Exists(table, r)
  BY <1>1, StoreStopCall, StoppableExists DEF IInv, TypeOK
<1>3. TypeOK'
  BY <1>1, <1>2 DEF IInv, TypeOK
<1>4. RunInv(r)'
  BY <1>1, <1>2, RunInvIs
  DEF RunInv, Statuses, Children, Leftovers, Pipes, Alive, Logs, Calm, Sealed, Latest,
      Previous
<1>5. MaxEvents > 1 /\ Sealed(r) => Sealed(r)'
  BY <1>1, <1>2 DEF Sealed, Latest, Previous
<1> QED
  BY <1>1, <1>2, <1>3, <1>4, <1>5 DEF StepOf, Worsens, SameRun

\* The adapter's stop marks the record, its child killed before.
LEMMA MarkStoppedStep ==
    ASSUME IInv, NEW r \in Runs, MarkStopped(r)
    PROVE  StepOf(r) /\ UNCHANGED reply
<1>1. /\ UNCHANGED <<pc, backend, lines, child, tracked, killed, reply, trouble>>
      /\ stopper[r] = "mark" /\ stopper' = [stopper EXCEPT ![r] = "done"]
      /\ StoreStop(r)
  BY DEF MarkStopped, childVars
<1>2. /\ stopper' \in [Runs -> {"none", "mark", "done"}]
      /\ stopper'[r] = "done"
      /\ \A s \in Runs \ {r} : stopper'[s] = stopper[s]
  BY <1>1 DEF IInv, TypeOK
<1>3. /\ table' \in Table /\ canceled' \subseteq Runs
      /\ \A s \in Runs \ {r} : table'[s] = table[s]
      /\ table'[r].events = table[r].events
      /\ Exists(table', r) <=> Exists(table, r)
      /\ \/ Stoppable(table, r) /\ table'[r].state = "Canceled"
         \/ ~Stoppable(table, r) /\ table' = table
  BY <1>1, StoreStopCall
<1>4. TypeOK'
  BY <1>1, <1>2, <1>3 DEF IInv, TypeOK
<1>5. RunInv(r)'
  <2>1. Statuses(r)' /\ Children(r)' /\ Pipes(r)'
    BY <1>1, <1>2, <1>3, RunInvIs DEF Statuses, Children, Pipes, Calm
  <2>2. Leftovers(r)'
    BY <1>1, <1>2, <1>3, RunInvIs
    DEF Leftovers, Calm, Stoppable, RunState, Finished
  <2>3. Logs(r)'
    BY <1>1, <1>2, <1>3, RunInvIs DEF Logs, Sealed, Latest, Previous
  <2> QED
    BY <2>1, <2>2, <2>3 DEF RunInv
<1>6. MaxEvents > 1 /\ Sealed(r) => Sealed(r)'
  BY <1>1, <1>3 DEF Sealed, Latest, Previous
<1> QED
  BY <1>1, <1>2, <1>3, <1>4, <1>5, <1>6 DEF StepOf, Worsens, SameRun

\* The adapter's stop takes the child from the map, if it is there, and kills
\* it.  The lock of the map keeps it from a task that waits for its child.
LEMMA KillChildStep ==
    ASSUME IInv, NEW r \in Runs, KillChild(r)
    PROVE  StepOf(r) /\ UNCHANGED reply
<1> DEFINE Process == [state : ChildState, stderr : 0..PipeCapacity,
                       wrote : 0..MaxErrLines]
<1>1. /\ UNCHANGED <<table, pc, backend, lines, canceled, reply, trouble>>
      /\ Exists(table, r) /\ stopper[r] = "none" /\ pc[r] # "wait"
      /\ stopper' = [stopper EXCEPT ![r] = "mark"]
  BY DEF KillChild, At
<1>2. /\ stopper' \in [Runs -> {"none", "mark", "done"}]
      /\ stopper'[r] = "mark"
      /\ \A s \in Runs \ {r} : stopper'[s] = stopper[s]
      /\ TypeOK /\ child \in [Runs -> Process] /\ child[r] \in Process
      /\ tracked \subseteq Runs /\ killed \subseteq Runs
  BY <1>1 DEF IInv, TypeOK
<1>3. \/ /\ r \in tracked /\ r \notin tracked' /\ r \in killed'
         /\ child'[r].state \in Exited
         /\ child[r].state = "succeeded" => child'[r].state = "succeeded"
         /\ child'[r].wrote = child[r].wrote
         /\ child' \in [Runs -> Process]
         /\ tracked' = tracked \ {r} /\ killed' = killed \cup {r}
         /\ \A s \in Runs \ {r} : child'[s] = child[s]
      \/ /\ r \notin tracked
         /\ UNCHANGED <<tracked, child, killed>>
  <2>1. CASE r \notin tracked
    BY <2>1 DEF KillChild
  <2>2. CASE r \in tracked
    <3> DEFINE state == IF child[r].state \in Exited THEN child[r].state
                        ELSE "killed"
    <3>1. /\ child' = [child EXCEPT ![r].state = state]
          /\ tracked' = tracked \ {r} /\ killed' = killed \cup {r}
      BY <2>2 DEF KillChild
    <3>2. /\ state \in Exited /\ state \in ChildState
          /\ child[r].state = "succeeded" => state = "succeeded"
      BY <1>2 DEF Exited, ChildState
    <3> HIDE DEF state
    <3>3. /\ child' \in [Runs -> Process] /\ child'[r].state = state
          /\ child'[r].wrote = child[r].wrote
          /\ \A s \in Runs \ {r} : child'[s] = child[s]
      BY <1>2, <3>1, <3>2
    <3> QED
      BY <2>2, <3>1, <3>2, <3>3
  <2> QED
    BY <2>1, <2>2
<1>4. TypeOK'
  BY <1>1, <1>2, <1>3 DEF TypeOK
<1>5. r \in tracked =>
        /\ pc[r] \in {"read", "errors", "reap", "fail", "failStatus",
                      "panicked", "done"}
        /\ table[r].state # "Succeeded" /\ r \notin killed
        /\ Calm => pc[r] \in {"read", "errors", "reap"}
                   /\ table[r].state \in {"Running", "Canceled"}
  <2>1. pc[r] \in Step /\ table[r].state \in RunState
    BY <1>1, <1>2, ExistingIsRecord DEF TypeOK, RunRecord
  <2>2. r \in tracked =>
          /\ pc[r] \in {"read", "errors", "reap", "fail", "failStatus",
                        "panicked", "done"}
          /\ table[r].state # "Succeeded" /\ r \notin killed
    BY <1>1, <2>1, RunInvIs
    DEF Children, Step, Dispatching, Calling, Subprocess, Ending
  <2>3. r \in tracked /\ Calm => pc[r] \in {"read", "errors", "reap"}
    BY <2>2, RunInvIs DEF Leftovers, Statuses, Calm
  <2>4. pc[r] \in {"read", "errors", "reap"} =>
          table[r].state \in {"Running", "Canceled"}
    BY RunInvIs DEF Statuses, Underway, Subprocess
  <2> QED
    BY <2>2, <2>3, <2>4
<1>6. RunInv(r)'
  <2>1. Statuses(r)' /\ Pipes(r)'
    BY <1>1, <1>2, <1>3, RunInvIs DEF Statuses, Pipes, Alive, Calm, Exited, Exists
  <2>2. Children(r)'
    BY <1>1, <1>2, <1>3, <1>5, RunInvIs
    DEF Children, Exited, Dispatching, Calling
  <2>3. Leftovers(r)'
    BY <1>1, <1>2, <1>3, <1>5, RunInvIs DEF Leftovers, Calm, Exited
  <2>4. Logs(r)'
    BY <1>1, <1>2, RunInvIs DEF Logs, Sealed, Latest, Previous
  <2> QED
    BY <2>1, <2>2, <2>3, <2>4 DEF RunInv
<1>7. MaxEvents > 1 /\ Sealed(r) => Sealed(r)'
  BY <1>1 DEF Sealed, Latest, Previous
<1>8. \A s \in Runs \ {r} : SameRun(s)
  BY <1>1, <1>2, <1>3 DEF SameRun
<1> QED
  BY <1>1, <1>4, <1>6, <1>7, <1>8 DEF StepOf, Worsens, Exists

\* handle_status reads the status of a run it found.
LEMMA ReadStatusStep ==
    ASSUME IInv, NEW q \in Readers, NEW r \in Runs, ReadStatus(q, r)
    PROVE  IInv'
<1>1. /\ UNCHANGED <<table, pc, backend, lines, child, tracked, stopper, canceled,
                     killed, trouble>>
      /\ Exists(table, r)
      /\ reply' = [reply EXCEPT ![q] = [run |-> r, step |-> "status",
                                        state |-> table[r].state, events |-> << >>]]
  BY DEF ReadStatus, childVars
<1>2. /\ TypeOK /\ reply \in [Readers -> Reply]
      /\ table[r].state \in RunState /\ << >> \in Seq(Kinds)
  BY <1>1, ExistingIsRecord DEF IInv, TypeOK, RunRecord
<1>3. /\ reply' \in [Readers -> Reply]
      /\ reply'[q].run = r /\ reply'[q].step = "status"
      /\ reply'[q].state = table[r].state
      /\ \A p \in Readers \ {q} : reply'[p] = reply[p]
  BY <1>1, <1>2 DEF Reply
<1>4. TypeOK'
  BY <1>1, <1>2, <1>3 DEF TypeOK
<1>5. \A s \in Runs : RunInv(s)'
  <2> SUFFICES ASSUME NEW s \in Runs PROVE RunInv(s)'
    OBVIOUS
  <2>1. RunInv(s) /\ SameRun(s) /\ Worsens
    BY <1>1 DEF IInv, SameRun, Worsens
  <2> QED
    BY <2>1, Frame
<1>6. \A s \in Runs :
        /\ Exists(table, s) => Exists(table', s)
        /\ Sealed(s) => Sealed(s)'
  BY <1>1 DEF Exists, Sealed, Latest, Previous
<1>7. MaxEvents > 1 /\ table[r].state = "Succeeded" => Sealed(r)
  BY RunInvIs DEF Logs
<1>8. Replies'
  BY <1>1, <1>3, <1>6, <1>7 DEF IInv, Replies, Has
<1> QED
  BY <1>4, <1>5, <1>8 DEF IInv

\* A log that ends in a completion, or in one and an error, has one.
LEMMA SealedHas ==
    ASSUME IInv, NEW r \in Runs, Exists(table, r), Sealed(r)
    PROVE  Has(table[r], "completion")
<1>1. table[r].events \in Seq(Kinds)
  BY ExistingIsRecord DEF IInv, TypeOK, RunRecord, EventLog
<1>2. /\ Len(table[r].events) > 0
      /\ \/ table[r].events[Len(table[r].events)] = "completion"
         \/ /\ Len(table[r].events) > 1
            /\ table[r].events[Len(table[r].events) - 1] = "completion"
  BY <1>1 DEF Sealed, Latest, Previous
<1> QED
  BY <1>1, <1>2 DEF Has

\* ... and then its events: what sealed the log is among them.
LEMMA ReadEventsStep ==
    ASSUME IInv, NEW q \in Readers, ReadEvents(q)
    PROVE  IInv'
<1> DEFINE r == reply[q].run
<1>1. /\ UNCHANGED <<table, pc, backend, lines, child, tracked, stopper, canceled,
                     killed, trouble>>
      /\ reply[q].step = "status"
      /\ reply' = [reply EXCEPT ![q].step = "done", ![q].events = table[r].events]
  BY DEF ReadEvents, childVars
<1>2. /\ r \in Runs /\ Exists(table, r)
      /\ MaxEvents > 1 /\ reply[q].state = "Succeeded" => Sealed(r)
  BY <1>1 DEF IInv, Replies
<1>3. /\ TypeOK /\ reply \in [Readers -> Reply] /\ reply[q] \in Reply
      /\ table[r].events \in Seq(Kinds)
  BY <1>2, ExistingIsRecord DEF IInv, TypeOK, RunRecord, EventLog
<1>4. MaxEvents > 1 /\ reply[q].state = "Succeeded" => Has(table[r], "completion")
  BY <1>2, SealedHas
<1> HIDE DEF r
<1>5. /\ reply' \in [Readers -> Reply]
      /\ reply'[q].step = "done" /\ reply'[q].events = table[r].events
      /\ reply'[q].state = reply[q].state
      /\ \A p \in Readers \ {q} : reply'[p] = reply[p]
  BY <1>1, <1>3 DEF Reply
<1>6. TypeOK'
  BY <1>1, <1>3, <1>5 DEF TypeOK
<1>7. \A s \in Runs : RunInv(s)'
  <2> SUFFICES ASSUME NEW s \in Runs PROVE RunInv(s)'
    OBVIOUS
  <2>1. RunInv(s) /\ SameRun(s) /\ Worsens
    BY <1>1 DEF IInv, SameRun, Worsens
  <2> QED
    BY <2>1, Frame
<1>8. \A s \in Runs :
        /\ Exists(table, s) => Exists(table', s)
        /\ Sealed(s) => Sealed(s)'
  BY <1>1 DEF Exists, Sealed, Latest, Previous
<1>9. Replies'
  BY <1>1, <1>4, <1>5, <1>8 DEF IInv, Replies, Has
<1> QED
  BY <1>6, <1>7, <1>9 DEF IInv

-----------------------------------------------------------------------------
(* The invariant *)

\* It holds of a service that has been asked nothing.
LEMMA IInvInit == Init => IInv
<1> SUFFICES ASSUME Init PROVE IInv
  OBVIOUS
<1> USE DEF Init, NoChild, NoReply
<1>1. TypeOK
  <2>1. /\ {PipeCapacity, MaxLines, MaxErrLines, MaxStoreErrs, MaxPanics} \subseteq Nat
        /\ "none" \in Step /\ "none" \in ChildState
    BY RunsAssumption DEF Step, Dispatching, ChildState
  <2>2. /\ table \in Table /\ pc \in [Runs -> Step]
        /\ backend \in [Runs -> Backends \cup {"none"}]
    BY <2>1, EmptyTableType
  <2>3. lines \in [Runs -> [ready : 0..MaxLines, wrote : 0..MaxLines]]
    BY <2>1
  <2>4. child \in [Runs -> [state : ChildState, stderr : 0..PipeCapacity,
                            wrote : 0..MaxErrLines]]
    BY <2>1
  <2>5. NoReply \in Reply /\ reply \in [Readers -> Reply]
    BY DEF Reply
  <2>6. trouble \in [errs : 0..MaxStoreErrs, panics : 0..MaxPanics]
    BY <2>1
  <2> QED
    BY <2>2, <2>3, <2>4, <2>5, <2>6 DEF TypeOK
<1>2. ASSUME NEW r \in Runs PROVE RunInv(r)
  <2>1. /\ table[r] = Absent /\ pc[r] = "none" /\ child[r].state = "none"
        /\ lines[r].ready = 0 /\ tracked = {} /\ killed = {}
    BY DEF EmptyTable
  <2> QED
    BY <2>1 DEF RunInv, Statuses, Children, Leftovers, Pipes, Logs, Exists, Absent,
                Underway, Calling, Subprocess, Alive
<1>3. Replies
  BY DEF Replies
<1> QED
  BY <1>1, <1>2, <1>3 DEF IInv

\* A step of a run's task.
LEMMA TaskStep ==
    ASSUME IInv, NEW r \in Runs, Task(r)
    PROVE  StepOf(r) /\ UNCHANGED reply
<1>1. CASE Http(r)
  BY <1>1, KeylessStep, SendStep, HttpErrorStep, HttpFailedStep, StreamStep DEF Http
<1>2. CASE Cli(r)
  <2>1. CASE ReadLine(r)
    BY <2>1, ReadLineStep DEF ReadLine
  <2> QED
    BY <1>2, <2>1, SpawnStep, TrackStep, EndOfOutputStep, ReadErrorsStep, ReapStep,
       WaitStep, CliErrorStep, CliFailedStep DEF Cli
<1>3. CASE End(r)
  BY <1>3, CompletionStep, SucceedStep, FailStep, FailStatusStep, MonitorStep DEF End
<1> QED
  BY <1>1, <1>2, <1>3, StartStep DEF Task

\* A step that is not a reader's is a step of one run.
LEMMA RunStep ==
    ASSUME IInv, NEW r \in Runs,
           \/ Dispatch(r) \/ Task(r) \/ Panic(r) \/ Child(r)
           \/ HandleStop(r) \/ KillChild(r) \/ MarkStopped(r)
    PROVE  StepOf(r) /\ UNCHANGED reply
<1>1. CASE Dispatch(r)
  <2>1. CASE CreateRun(r)
    BY <2>1, CreateStep DEF CreateRun, serviceVars
  <2> QED
    BY <1>1, <2>1, MarkRunningStep DEF Dispatch
<1> QED
  BY <1>1, TaskStep, PanicStep, ChildStep, HandleStopStep, KillChildStep,
     MarkStoppedStep

\* Every step keeps the invariant.
LEMMA IInvNext == IInv /\ [Next]_vars => IInv'
<1> SUFFICES ASSUME IInv, [Next]_vars PROVE IInv'
  OBVIOUS
<1>1. ASSUME NEW r \in Runs,
             \/ Dispatch(r) \/ Task(r) \/ Panic(r) \/ Child(r)
             \/ HandleStop(r) \/ KillChild(r) \/ MarkStopped(r)
      PROVE  IInv'
  BY <1>1, RunStep, StepKeeps
<1>2. ASSUME NEW q \in Readers, ReadEvents(q) \/ \E r \in Runs : ReadStatus(q, r)
      PROVE  IInv'
  BY <1>2, ReadEventsStep, ReadStatusStep
<1>3. CASE UNCHANGED vars
  <2>1. UNCHANGED <<table, pc, backend, lines, child, tracked, stopper, canceled,
                    killed, reply, trouble>>
    BY <1>3 DEF vars
  <2>2. TypeOK'
    BY <2>1 DEF IInv, TypeOK
  <2>3. \A s \in Runs : RunInv(s)'
    <3> SUFFICES ASSUME NEW s \in Runs PROVE RunInv(s)'
      OBVIOUS
    <3>1. RunInv(s) /\ SameRun(s) /\ Worsens
      BY <2>1 DEF IInv, SameRun, Worsens
    <3> QED
      BY <3>1, Frame
  <2>4. Replies'
    BY <2>1 DEF IInv, Replies, Exists, Sealed, Latest, Previous, Has
  <2> QED
    BY <2>2, <2>3, <2>4 DEF IInv
<1> QED
  BY <1>1, <1>2, <1>3 DEF Next

\* It holds in every state of every behaviour.
LEMMA IInvAlways == Spec => []IInv
  BY IInvInit, IInvNext, PTL DEF Spec

-----------------------------------------------------------------------------
(* Theorems *)

\* The variables have their types: no counter of the model overruns, and the
\* log of a run is never longer than MAX_EVENTS_PER_RUN.
THEOREM TypeCorrect == Spec => []TypeOK
<1>1. IInv => TypeOK
  BY DEF IInv
<1> QED
  BY <1>1, IInvAlways, PTL

\* A run the store shows Succeeded has its completion event, a child that
\* exited with success if it had one, and is not in the process map.  A store
\* that keeps one event only could drop the completion for an error behind it.
THEOREM SuccessIsAlwaysComplete ==
    ASSUME MaxEvents > 1
    PROVE  Spec => []SuccessIsComplete
<1>1. IInv => SuccessIsComplete
  <2> SUFFICES ASSUME IInv, NEW r \in Runs, table[r].state = "Succeeded"
               PROVE  /\ Has(table[r], "completion")
                      /\ child[r].state \in {"none", "succeeded"}
                      /\ r \notin tracked
    BY DEF SuccessIsComplete
  <2>1. Exists(table, r) /\ Sealed(r)
    BY RunInvIs DEF Exists, Logs
  <2>2. child[r].state \in {"none", "succeeded"} /\ r \notin tracked
    BY RunInvIs DEF Children
  <2> QED
    BY <2>1, <2>2, SealedHas
<1> QED
  BY <1>1, IInvAlways, PTL

\* Without a panic, a task that ended and left its run Failed recorded why.
THEOREM FailuresAreExplained == Spec => []FailureIsExplained
<1>1. IInv => FailureIsExplained
  <2> SUFFICES ASSUME IInv, NEW r \in Runs, pc[r] = "done",
                      table[r].state = "Failed", trouble.panics = 0
               PROVE  Has(table[r], "error")
    BY DEF FailureIsExplained
  <2>1. Latest(table[r], "error") /\ Exists(table, r)
    BY RunInvIs DEF Logs, Exists
  <2>2. table[r].events \in Seq(Kinds)
    BY <2>1, ExistingIsRecord DEF IInv, TypeOK, RunRecord, EventLog
  <2> QED
    BY <2>1, <2>2 DEF Latest, Has
<1> QED
  BY <1>1, IInvAlways, PTL

\* Without store errors and panics the end of a task leaves neither a running
\* child nor an entry in the process map.
THEOREM NoChildIsOrphaned == Spec => []NoOrphanedChild
<1>1. IInv => NoOrphanedChild
  BY RunInvIs DEF NoOrphanedChild, Leftovers, Calm
<1> QED
  BY <1>1, IInvAlways, PTL

\* Without store errors and panics a run whose child adapter.stop killed ends
\* Canceled, wherever its task was.
THEOREM KilledRunsEndCanceled == Spec => []KilledEndsCanceled
<1>1. IInv => KilledEndsCanceled
  <2>1. IInv => killed \subseteq Runs
    BY DEF IInv, TypeOK
  <2> QED
    BY <2>1, RunInvIs DEF KilledEndsCanceled, Leftovers, Calm
<1> QED
  BY <1>1, IInvAlways, PTL

\* A reply that shows a run Succeeded shows its completion event, although
\* handle_status reads the two in separate calls.
THEOREM RepliesAreConsistent ==
    ASSUME MaxEvents > 1
    PROVE  Spec => []ReplyIsConsistent
<1>1. IInv => ReplyIsConsistent
  BY DEF IInv, Replies, ReplyIsConsistent
<1> QED
  BY <1>1, IInvAlways, PTL

\* No verdict is taken back.  When a run is Failed its task has only the error
\* wrapper and the monitor before it, which say Failed again; when it is
\* Succeeded and nothing went wrong the task is done; and the stops refuse a
\* finished run.
THEOREM NoVerdictIsTakenBack == Spec => VerdictsStand
<1> DEFINE Stands(r) ==
             /\ table[r].state = "Failed" => table'[r].state = "Failed"
             /\ table[r].state = "Succeeded" =>
                  \/ table'[r].state = "Succeeded"
                  \/ table'[r].state = "Failed"
                       /\ (trouble.errs > 0 \/ trouble.panics > 0)
<1>1. ASSUME IInv, [Next]_vars, NEW r \in Runs PROVE Stands(r)
  <2> SUFFICES ASSUME table[r].state \in {"Succeeded", "Failed"}
               PROVE  Stands(r)
    OBVIOUS
  <2>1. /\ pc[r] \in Wrapped /\ ~Stoppable(table, r) /\ Exists(table, r)
        /\ Calm /\ table[r].state = "Succeeded" => pc[r] = "done"
        /\ ~Calm => trouble.errs > 0 \/ trouble.panics > 0
        /\ TypeOK
    <3>1. trouble.errs \in Nat /\ trouble.panics \in Nat
      BY <1>1, RunsAssumption DEF IInv, TypeOK
    <3> QED
      BY <1>1, <3>1, RunInvIs DEF IInv, Statuses, Stoppable, Finished, Exists, Calm
  <2>2. ASSUME NEW s \in Runs \ {r},
               \/ Dispatch(s) \/ Task(s) \/ Panic(s) \/ Child(s)
               \/ HandleStop(s) \/ KillChild(s) \/ MarkStopped(s)
        PROVE  table'[r] = table[r]
    BY <1>1, <2>2, RunStep DEF StepOf, SameRun
  <2>3. ~Dispatch(r) /\ ~HandleStop(r)
    BY <2>1 DEF Dispatch, CreateRun, MarkRunning, At, HandleStop, Wrapped
  <2>4. ASSUME Task(r)
        PROVE  /\ pc[r] # "done"
               /\ table'[r].state \in {table[r].state, "Failed"}
    <3>1. ~Start(r) /\ ~Http(r)
      BY <2>1 DEF Start, Http, Keyless, Send, HttpError, HttpFailed, Stream, At,
                  Wrapped
    <3>2. ~Cli(r)
      BY <2>1 DEF Cli, Spawn, Track, ReadLine, EndOfOutput, ReadErrors, Reap, Wait,
                  CliError, CliFailed, At, Wrapped
    <3>3. Fail(r) \/ FailStatus(r) \/ Monitor(r)
      BY <2>1, <2>4, <3>1, <3>2 DEF Task, End, Completion, Succeed, At, Wrapped
    <3>4. pc[r] # "done"
      BY <3>3 DEF Fail, FailStatus, Monitor, At
    <3>5. CASE Fail(r)
      <4>1. Append_(r, "error", "failStatus", "failStatus") /\ "error" \in Kinds
            /\ "failStatus" \in Step
        BY <3>5, TaskKinds DEF Fail, Step, Ending
      <4>2. table'[r].state = table[r].state
        BY <2>1, <4>1, AppendCall
      <4> QED
        BY <3>4, <4>2
    <3>6. CASE FailStatus(r) \/ Monitor(r)
      <4>1. SetStatus(r, "Failed", "done", "done") /\ "Failed" \in RunState
            /\ "done" \in Step
        BY <3>6 DEF FailStatus, Monitor, RunState, Finished, Step, Ending
      <4>2. table'[r].state = "Failed"
        BY <2>1, <4>1, StatusCall
      <4> QED
        BY <3>4, <4>2
    <3> QED
      BY <3>3, <3>5, <3>6
  <2>5. CASE Child(r) \/ KillChild(r) \/ MarkStopped(r) \/ Panic(r)
    BY <2>1, <2>5 DEF Child, KillChild, MarkStopped, StoreStop, Panic
  <2>6. CASE UNCHANGED vars
    BY <2>6 DEF vars
  <2>7. CASE \E q \in Readers : ReadEvents(q) \/ \E s \in Runs : ReadStatus(q, s)
    BY <2>7 DEF ReadEvents, ReadStatus
  <2>8. CASE Task(r)
    BY <2>1, <2>4, <2>8
  <2> QED
    BY <1>1, <2>2, <2>3, <2>5, <2>6, <2>7, <2>8 DEF Next
<1>2. IInv /\ [Next]_vars => [\A r \in Runs : Stands(r)]_vars
  BY <1>1
<1> QED
  BY <1>2, IInvAlways, PTL DEF Spec, VerdictsStand

-----------------------------------------------------------------------------
(* The service over the store *)

\* A store call of the task is the call RunTable has for it.
LEMMA CallsAreTableSteps ==
    ASSUME TypeOK, NEW r \in Runs, Exists(table, r), NEW ok, NEW err
    PROVE  /\ \A k \in Kinds :
                Append_(r, k, ok, err) => RunTableSpec!Next
           /\ \A state \in RunState :
                SetStatus(r, state, ok, err) => RunTableSpec!Next
<1> USE DEF Exists, RunTableSpec!Exists, Absent, RunTableSpec!Absent,
            WithStatus, RunTableSpec!WithStatus, RunState, RunTableSpec!RunState,
            Finished, RunTableSpec!Finished,
            WithEvent, RunTableSpec!WithEvent, Newest, RunTableSpec!Newest
<1>1. ASSUME NEW k \in Kinds, Append_(r, k, ok, err) PROVE RunTableSpec!Next
  BY <1>1 DEF Append_, StoreCall, RunTableSpec!Next, RunTableSpec!AppendEvent
<1>2. ASSUME NEW state \in RunState, SetStatus(r, state, ok, err)
      PROVE  RunTableSpec!Next
  BY <1>2 DEF SetStatus, StoreCall, RunTableSpec!Next, RunTableSpec!UpdateStatus
<1> QED
  BY <1>1, <1>2

\* A step of the task is one call of the store, or none.
LEMMA TaskIsTableStep ==
    ASSUME IInv, NEW r \in Runs, Task(r)
    PROVE  [RunTableSpec!Next]_table
<1>1. pc[r] # "none"
  BY DEF Task, Start, Http, Keyless, Send, HttpError, HttpFailed, Stream, Cli, Spawn,
         Track, ReadLine, EndOfOutput, ReadErrors, Reap, Wait, CliError, CliFailed,
         End, Completion, Succeed, Fail, FailStatus, Monitor, At
<1>2. TypeOK /\ Exists(table, r)
  BY <1>1, RunInvIs DEF IInv
<1>3. /\ "start" \in Kinds /\ "stream" \in Kinds /\ "completion" \in Kinds
      /\ "error" \in Kinds
      /\ "Succeeded" \in RunState /\ "Failed" \in RunState
  BY TaskKinds DEF RunState, Finished
<1>4. ASSUME NEW k \in Kinds, \E ok, err : Append_(r, k, ok, err)
      PROVE  RunTableSpec!Next
  BY <1>2, <1>4, CallsAreTableSteps
<1>5. ASSUME NEW state \in RunState, \E ok, err : SetStatus(r, state, ok, err)
      PROVE  RunTableSpec!Next
  BY <1>2, <1>5, CallsAreTableSteps
<1>6. CASE Start(r) \/ Stream(r) \/ HttpError(r) \/ ReadLine(r) \/ CliError(r)
           \/ Completion(r) \/ Fail(r)
  BY <1>3, <1>4, <1>6 DEF Start, Stream, HttpError, ReadLine, CliError, Completion,
                          Fail, Move
<1>7. CASE Keyless(r) \/ HttpFailed(r) \/ CliFailed(r) \/ Succeed(r)
           \/ FailStatus(r) \/ Monitor(r)
  BY <1>3, <1>5, <1>7 DEF Keyless, HttpFailed, CliFailed, Succeed, FailStatus, Monitor
<1>8. CASE Send(r) \/ Spawn(r) \/ Track(r) \/ EndOfOutput(r) \/ ReadErrors(r)
           \/ Reap(r) \/ Wait(r)
  BY <1>8 DEF Send, Spawn, Track, EndOfOutput, ReadErrors, Reap, Wait, Move
<1> QED
  BY <1>6, <1>7, <1>8 DEF Task, Http, Cli, End

\* All the service does to its store, over all runs, tasks and stops, is a
\* behaviour of RunTable: handlers and tasks never write to a run that is not
\* there, and the store never sees a call half done.  With
\* StateRunStoreImplementsRunTable either store can stand below the service.
THEOREM SubagentRunsImplementRunTable == Spec => ImplementsRunTable
<1> USE DEF Exists, RunTableSpec!Exists, Absent, RunTableSpec!Absent,
            Stoppable, RunTableSpec!Stoppable,
            WithStatus, RunTableSpec!WithStatus, RunState, RunTableSpec!RunState,
            Finished, RunTableSpec!Finished
<1>1. Init => RunTableSpec!Init
  BY DEF Init, RunTableSpec!Init, EmptyTable, RunTableSpec!EmptyTable
<1>2. ASSUME IInv, [Next]_vars PROVE [RunTableSpec!Next]_table
  <2>1. ASSUME NEW r \in Runs, CreateRun(r) PROVE RunTableSpec!Next
    <3>1. ~Exists(table, r) /\ table' = WithRun(table, r)
      BY <1>2, <2>1, RunInvIs DEF CreateRun, StoreCall, Statuses, At
    <3> QED
      BY <3>1 DEF RunTableSpec!Next, RunTableSpec!CreateRun, WithRun,
                  RunTableSpec!WithRun, NewRecord, RunTableSpec!NewRecord
  <2>2. ASSUME NEW r \in Runs, MarkRunning(r) PROVE RunTableSpec!Next
    <3>1. TypeOK /\ Exists(table, r)
      BY <1>2, <2>2, RunInvIs DEF IInv, MarkRunning, At
    <3>2. SetStatus(r, "Running", "start", "refused") /\ "Running" \in RunState
      BY <2>2 DEF MarkRunning
    <3> QED
      BY <3>1, <3>2, CallsAreTableSteps
  <2>3. ASSUME NEW r \in Runs, StoreStop(r) PROVE [RunTableSpec!Next]_table
    BY <2>3 DEF StoreStop, RunTableSpec!Next, RunTableSpec!Stop
  <2>4. ASSUME NEW r \in Runs, HandleStop(r) \/ MarkStopped(r)
        PROVE  [RunTableSpec!Next]_table
    BY <2>3, <2>4 DEF HandleStop, MarkStopped
  <2>5. ASSUME NEW r \in Runs, Panic(r) \/ Child(r) \/ KillChild(r)
        PROVE  UNCHANGED table
    BY <2>5 DEF Panic, Child, KillChild
  <2>6. ASSUME NEW q \in Readers, ReadEvents(q) \/ \E r \in Runs : ReadStatus(q, r)
        PROVE  UNCHANGED table
    BY <2>6 DEF ReadEvents, ReadStatus
  <2>7. CASE UNCHANGED vars
    BY <2>7 DEF vars
  <2> QED
    BY <1>2, <2>1, <2>2, <2>4, <2>5, <2>6, <2>7, TaskIsTableStep DEF Next, Dispatch
<1>3. QED
  BY <1>1, <1>2, IInvAlways, PTL DEF Spec, ImplementsRunTable, RunTableSpec!Spec

\* A step of RunTable carries every record over.
LEMMA TableStepCarries ==
    ASSUME table \in Table, [RunTableSpec!Next]_table
    PROVE  Carries(table, table')
<1> USE DEF Exists, RunTableSpec!Exists, Absent, RunTableSpec!Absent,
            Stoppable, RunTableSpec!Stoppable, NewRecord, RunTableSpec!NewRecord,
            WithRun, RunTableSpec!WithRun, WithStatus, RunTableSpec!WithStatus,
            WithEvent, RunTableSpec!WithEvent, Newest, RunTableSpec!Newest,
            RunState, RunTableSpec!RunState, Finished, RunTableSpec!Finished
<1>1. CASE UNCHANGED table
  <2>1. ASSUME NEW r \in Runs PROVE Carries(table, table)
    BY <2>1, UpdatesCarry
  <2> QED
    BY <1>1, <2>1 DEF Carries
<1>2. ASSUME NEW r \in Runs, RunTableSpec!CreateRun(r) PROVE Carries(table, table')
  <2>1. ~Exists(table, r) /\ table' = WithRun(table, r)
    BY <1>2 DEF RunTableSpec!CreateRun
  <2> QED
    BY <2>1, UpdatesCarry
<1>3. ASSUME NEW r \in Runs, NEW s \in RunState, RunTableSpec!UpdateStatus(r, s)
      PROVE  Carries(table, table')
  <2>1. Exists(table, r) /\ table' = WithStatus(table, r, s)
    BY <1>3 DEF RunTableSpec!UpdateStatus
  <2> QED
    BY <2>1, UpdatesCarry
<1>4. ASSUME NEW r \in Runs, NEW k \in Kinds, RunTableSpec!AppendEvent(r, k)
      PROVE  Carries(table, table')
  <2>1. Exists(table, r) /\ table' = WithEvent(table, r, k)
    BY <1>4 DEF RunTableSpec!AppendEvent
  <2> QED
    BY <2>1, UpdatesCarry
<1>5. ASSUME NEW r \in Runs, RunTableSpec!Stop(r) PROVE Carries(table, table')
  <2>1. /\ Exists(table, r) /\ "Canceled" \in RunState
        /\ table' = WithStatus(table, r, "Canceled")
    BY <1>5 DEF RunTableSpec!Stop
  <2> QED
    BY <2>1, UpdatesCarry
<1> QED
  BY <1>1, <1>2, <1>3, <1>4, <1>5 DEF RunTableSpec!Next

\* No run is forgotten, and no event of a log is changed, reordered or dropped
\* but the oldest of a full log, whichever handler, task or stop steps.
THEOREM RecordsAreKept == Spec => [][Carries(table, table')]_table
<1>1. TypeOK /\ [RunTableSpec!Next]_table => [Carries(table, table')]_table
  BY TableStepCarries DEF TypeOK
<1> QED
  BY <1>1, TypeCorrect, SubagentRunsImplementRunTable, PTL
     DEF ImplementsRunTable, RunTableSpec!Spec

-----------------------------------------------------------------------------
(* How a task comes to its end.  That it does is SpawnedRunsSettle, which  *)
(* TLC checks; the three facts it rests on are theorems: every step of the *)
(* task and its child uses up part of a variant, a task that is not jammed *)
(* is never left without a step, and at its end the run is finished.       *)

\* The steps of the task in the order it takes them.
Rank == [step \in Step |->
    CASE step = "none" -> 14
      [] step = "created" -> 13
      [] step = "start" -> 12
      [] step = "spawn" -> 11
      [] step = "track" -> 10
      [] step = "read" -> 9
      [] step = "errors" -> 8
      [] step \in {"reap", "send"} -> 7
      [] step \in {"wait", "stream"} -> 6
      [] step \in {"completion", "cliError", "httpError"} -> 5
      [] step \in {"succeed", "cliFailed", "httpFailed", "keyless"} -> 4
      [] step = "fail" -> 3
      [] step = "failStatus" -> 2
      [] step = "panicked" -> 1
      [] OTHER -> 0]

\* A child that writes has to go on, one that blocks to come free.
Vigour == [state \in ChildState |->
    CASE state = "running" -> 3
      [] state = "blocked" -> 2
      [] state = "detached" -> 1
      [] OTHER -> 0]

\* What the child may still write and the task has yet to read.
Output(r) ==
    2 * (MaxLines - lines[r].wrote) + lines[r].ready
      + 3 * (MaxErrLines - child[r].wrote) + child[r].stderr
      + Vigour[child[r].state]

\* An upper bound on the steps that are left to a run's task and its child.
Variant(r) == (MaxLines + 4) * Rank[pc[r]] + Output(r)

\* Ranks are natural numbers.
LEMMA RankType ==
    /\ Rank \in [Step -> 0..14]
    /\ Vigour \in [ChildState -> 0..3]
<1>1. ASSUME NEW step \in Step PROVE Rank[step] \in 0..14
  BY DEF Rank
<1>2. ASSUME NEW state \in ChildState PROVE Vigour[state] \in 0..3
  BY DEF Vigour
<1> QED
  BY <1>1, <1>2 DEF Rank, Vigour

\* The ranks of the steps.
LEMMA Ranks ==
    /\ Rank["none"] = 14 /\ Rank["created"] = 13 /\ Rank["start"] = 12
    /\ Rank["spawn"] = 11 /\ Rank["track"] = 10 /\ Rank["read"] = 9
    /\ Rank["errors"] = 8 /\ Rank["reap"] = 7 /\ Rank["send"] = 7
    /\ Rank["wait"] = 6 /\ Rank["stream"] = 6
    /\ Rank["completion"] = 5 /\ Rank["cliError"] = 5 /\ Rank["httpError"] = 5
    /\ Rank["succeed"] = 4 /\ Rank["cliFailed"] = 4
    /\ Rank["httpFailed"] = 4 /\ Rank["keyless"] = 4
    /\ Rank["fail"] = 3 /\ Rank["failStatus"] = 2 /\ Rank["panicked"] = 1
    /\ Rank["done"] = 0 /\ Rank["refused"] = 0
BY DEF Rank, Step, Dispatching, Calling, Subprocess, Ending

\* How alive the states of a child are.
LEMMA Vigours ==
    /\ Vigour["running"] = 3 /\ Vigour["blocked"] = 2 /\ Vigour["detached"] = 1
    /\ Vigour["none"] = 0 /\ Vigour["succeeded"] = 0 /\ Vigour["failed"] = 0
    /\ Vigour["killed"] = 0
BY DEF Vigour, ChildState

\* The variant is a natural number.
LEMMA VariantType ==
    ASSUME TypeOK, NEW r \in Runs
    PROVE  /\ MaxLines \in Nat /\ MaxErrLines \in Nat /\ PipeCapacity \in Nat
           /\ Rank[pc[r]] \in Nat /\ Output(r) \in Nat /\ Variant(r) \in Nat
           /\ lines[r].ready \in 0..MaxLines /\ lines[r].wrote \in 0..MaxLines
           /\ child[r].wrote \in 0..MaxErrLines
           /\ child[r].stderr \in 0..PipeCapacity
           /\ Vigour[child[r].state] \in 0..3
           /\ pc[r] \in Step /\ child[r].state \in ChildState
<1>1. /\ MaxLines \in Nat /\ MaxErrLines \in Nat /\ PipeCapacity \in Nat
  BY RunsAssumption
<1>2. /\ pc[r] \in Step /\ child[r].state \in ChildState
      /\ lines[r].ready \in 0..MaxLines /\ lines[r].wrote \in 0..MaxLines
      /\ child[r].wrote \in 0..MaxErrLines /\ child[r].stderr \in 0..PipeCapacity
  BY DEF TypeOK
<1>3. Rank[pc[r]] \in Nat /\ Vigour[child[r].state] \in 0..3
  BY <1>2, RankType
<1>4. Output(r) \in Nat
  BY <1>1, <1>2, <1>3 DEF Output
<1>5. Variant(r) \in Nat
  BY <1>1, <1>3, <1>4 DEF Variant
<1> QED
  BY <1>1, <1>2, <1>3, <1>4, <1>5

\* So it is after a step that keeps the types.
LEMMA OutputAfter ==
    ASSUME TypeOK', NEW r \in Runs
    PROVE  Output(r)' \in Nat /\ Rank[pc'[r]] \in Nat
<1>1. /\ lines'[r].ready \in 0..MaxLines /\ lines'[r].wrote \in 0..MaxLines
      /\ child'[r].wrote \in 0..MaxErrLines
      /\ child'[r].stderr \in 0..PipeCapacity
      /\ pc'[r] \in Step /\ child'[r].state \in ChildState
  BY DEF TypeOK
<1>2. MaxLines \in Nat /\ MaxErrLines \in Nat /\ PipeCapacity \in Nat
  BY RunsAssumption
<1>3. Rank[pc'[r]] \in Nat /\ Vigour[child'[r].state] \in 0..3
  BY <1>1, RankType
<1> QED
  BY <1>1, <1>2, <1>3 DEF Output

\* A step down the ranks outweighs the output that it may bring: the lines of
\* a response, or a child that runs.
LEMMA StepDown ==
    ASSUME TypeOK, TypeOK', NEW r \in Runs,
           Rank[pc'[r]] < Rank[pc[r]],
           Output(r)' < Output(r) + MaxLines + 4
    PROVE  Variant(r)' < Variant(r)
<1> DEFINE w == MaxLines + 4
           new == Rank[pc'[r]]
           old == Rank[pc[r]]
<1>1. /\ w \in Nat /\ old \in Nat /\ Output(r) \in Nat /\ MaxLines \in Nat
  BY VariantType
<1>2. Output(r)' \in Nat /\ new \in Nat
  BY OutputAfter
<1>3. Output(r)' < Output(r) + w /\ new + 1 <= old
  BY <1>1, <1>2
<1>4. Variant(r)' = w * new + Output(r)' /\ Variant(r) = w * old + Output(r)
  BY DEF Variant
<1> HIDE DEF w, new, old
<1>5. w * (new + 1) <= w * old
  <2>1. \A x, y, z \in Nat : y <= z => x * y <= x * z
    OBVIOUS
  <2> QED
    BY <1>1, <1>2, <1>3, <2>1
<1>6. w * (new + 1) = w * new + w
  BY <1>1, <1>2
<1>7. w * new \in Nat /\ w * old \in Nat
  BY <1>1, <1>2
<1> QED
  BY <1>1, <1>2, <1>3, <1>4, <1>5, <1>6, <1>7

\* The steps at which the task has a child.
Held == {"track", "read", "errors", "reap", "wait"}

\* What a step of a run's task does for its end: it sets no status that is not
\* final, ends with one unless the child was taken away, starts a child before
\* it holds one, and lowers the variant.
TaskEffect(r) ==
    /\ UNCHANGED <<stopper, killed>>
    /\ table'[r].state \in {table[r].state, "Succeeded", "Failed"}
    /\ pc'[r] = "done" =>
         table'[r].state \in Finished \/ (pc[r] = "reap" /\ r \notin tracked)
    /\ pc'[r] \in Held =>
         \/ child'[r].state = "running"
         \/ pc[r] \in Held /\ child'[r].state = child[r].state
    /\ Variant(r)' < Variant(r)

\* A step that neither the child nor its lines have part in need only go down
\* the ranks.
LEMMA StepDownAlone ==
    ASSUME TypeOK, TypeOK', NEW r \in Runs, lines'[r] = lines[r],
           child'[r] = child[r], Rank[pc'[r]] < Rank[pc[r]]
    PROVE  Variant(r)' < Variant(r)
<1>1. Output(r)' = Output(r)
  BY DEF Output
<1>2. Output(r) < Output(r) + MaxLines + 4
  BY VariantType
<1> QED
  BY <1>1, <1>2, StepDown

\* Steps that append an event or set a status and move on.
LEMMA CallEffect ==
    ASSUME IInv, NEW r \in Runs, TypeOK',
           \/ Start(r) \/ HttpError(r) \/ CliError(r) \/ Completion(r) \/ Fail(r)
           \/ Keyless(r) \/ HttpFailed(r) \/ CliFailed(r) \/ Succeed(r)
           \/ FailStatus(r) \/ Monitor(r)
    PROVE  TaskEffect(r)
<1>1. pc[r] # "none" /\ TypeOK /\ Exists(table, r)
  <2>1. pc[r] # "none"
    BY DEF Start, HttpError, CliError, Completion, Fail, Keyless, HttpFailed,
           CliFailed, Succeed, FailStatus, Monitor, At
  <2> QED
    BY <2>1, RunInvIs DEF IInv
<1>2. /\ UNCHANGED <<stopper, killed>>
      /\ lines'[r] = lines[r] /\ child'[r] = child[r]
  BY DEF Start, HttpError, CliError, Completion, Fail, Keyless, HttpFailed,
         CliFailed, Succeed, FailStatus, Monitor, childVars, serviceVars
<1>3. ASSUME NEW k \in Kinds, NEW ok \in Step, NEW err \in Step,
             Append_(r, k, ok, err)
      PROVE  table'[r].state = table[r].state /\ pc'[r] \in {ok, err}
  BY <1>1, <1>3, AppendCall
<1>4. ASSUME NEW state \in RunState, NEW ok \in Step, NEW err \in Step,
             SetStatus(r, state, ok, err)
      PROVE  table'[r].state = state /\ pc'[r] \in {ok, err}
  BY <1>1, <1>4, StatusCall
<1>5. /\ {"start", "stream", "completion", "error"} \subseteq Kinds
      /\ "Succeeded" \in RunState /\ "Failed" \in RunState
  BY TaskKinds DEF RunState, Finished
<1>6. /\ {"keyless", "send", "httpFailed", "spawn", "cliFailed", "succeed", "fail",
          "failStatus", "done"} \subseteq Step
  BY DEF Step, Calling, Subprocess, Ending
<1> DEFINE Down == Rank[pc'[r]] < Rank[pc[r]]
<1>7. CASE Start(r)
  <2>1. table'[r].state = table[r].state /\ pc'[r] \in {"keyless", "send", "spawn", "fail"}
    BY <1>3, <1>5, <1>6, <1>7 DEF Start
  <2>2. Down
    BY <1>7, <2>1, Ranks DEF Start, At
  <2> QED
    BY <1>1, <1>2, <2>1, <2>2, StepDownAlone DEF TaskEffect, Held
<1>8. CASE HttpError(r) \/ CliError(r) \/ Completion(r) \/ Fail(r)
  <2>1. /\ table'[r].state = table[r].state
        /\ \/ pc[r] = "httpError" /\ pc'[r] \in {"httpFailed", "fail"}
           \/ pc[r] = "cliError" /\ pc'[r] \in {"cliFailed", "fail"}
           \/ pc[r] = "completion" /\ pc'[r] \in {"succeed", "fail"}
           \/ pc[r] = "fail" /\ pc'[r] = "failStatus"
    BY <1>3, <1>5, <1>6, <1>8 DEF HttpError, CliError, Completion, Fail, At
  <2>2. Down
    BY <2>1, Ranks
  <2> QED
    BY <1>1, <1>2, <2>1, <2>2, StepDownAlone DEF TaskEffect, Held
<1>9. CASE Keyless(r) \/ HttpFailed(r) \/ CliFailed(r) \/ Succeed(r)
           \/ FailStatus(r) \/ Monitor(r)
  <2>1. /\ table'[r].state \in {"Succeeded", "Failed"}
        /\ \/ pc[r] \in {"keyless", "httpFailed"} /\ pc'[r] = "fail"
           \/ pc[r] \in {"cliFailed", "succeed"} /\ pc'[r] \in {"done", "fail"}
           \/ pc[r] \in {"failStatus", "panicked"} /\ pc'[r] = "done"
    BY <1>4, <1>5, <1>6, <1>9 DEF Keyless, HttpFailed, CliFailed, Succeed, FailStatus,
                                  Monitor, At
  <2>2. Down
    BY <2>1, Ranks
  <2> QED
    BY <1>1, <1>2, <2>1, <2>2, StepDownAlone DEF TaskEffect, Held, Finished
<1> QED
  BY <1>7, <1>8, <1>9

\* Steps that read a line or token, which they use up if they do not move on.
LEMMA StreamEffect ==
    ASSUME IInv, NEW r \in Runs, TypeOK', Stream(r) \/ ReadLine(r)
    PROVE  TaskEffect(r)
<1>1. TypeOK /\ Exists(table, r) /\ pc[r] \in {"stream", "read"}
  BY RunInvIs DEF IInv, Stream, ReadLine, At
<1>2. UNCHANGED <<stopper, killed, child>>
  BY DEF Stream, ReadLine, serviceVars
<1>3. CASE /\ Stream(r) /\ lines[r].ready = 0
           /\ Move(r, "completion") /\ UNCHANGED lines
  <2>1. pc[r] = "stream" /\ table' = table /\ pc'[r] = "completion"
    BY <1>1, <1>3 DEF Stream, At, Move, Goto, TypeOK
  <2>2. Rank[pc'[r]] < Rank[pc[r]]
    BY <2>1, Ranks
  <2> QED
    BY <1>1, <1>2, <1>3, <2>1, <2>2, StepDownAlone DEF TaskEffect, Held
<1>4. CASE /\ lines[r].ready > 0 /\ Append_(r, "stream", pc[r], "fail")
           /\ lines' = [lines EXCEPT ![r].ready = lines[r].ready - 1]
  <2>1. "stream" \in Kinds /\ pc[r] \in Step /\ "fail" \in Step
    BY <1>1, TaskKinds DEF Step, Ending, TypeOK
  <2>2. table'[r].state = table[r].state /\ pc'[r] \in {pc[r], "fail"}
    BY <1>1, <1>4, <2>1, AppendCall
  <2>3. lines'[r].ready = lines[r].ready - 1 /\ lines'[r].wrote = lines[r].wrote
    BY <1>1, <1>4 DEF TypeOK
  <2>4. Output(r)' < Output(r) /\ Output(r) < Output(r) + MaxLines + 4
        /\ Output(r) \in Nat /\ Output(r)' \in Nat
    BY <1>1, <1>2, <2>3, VariantType, OutputAfter DEF Output
  <2>5. CASE pc'[r] = "fail"
    <3>1. Rank[pc'[r]] < Rank[pc[r]] /\ Output(r)' < Output(r) + MaxLines + 4
      BY <1>1, <2>4, <2>5, Ranks, VariantType
    <3>2. Variant(r)' < Variant(r)
      BY <1>1, <3>1, StepDown
    <3> QED
      BY <1>2, <2>2, <2>5, <3>2 DEF TaskEffect, Held
  <2>6. CASE pc'[r] = pc[r]
    <3>1. (MaxLines + 4) * Rank[pc[r]] \in Nat
      BY <1>1, VariantType
    <3>2. Variant(r)' < Variant(r)
      BY <2>4, <2>6, <3>1 DEF Variant
    <3> QED
      BY <1>1, <1>2, <2>2, <2>6, <3>2 DEF TaskEffect, Held
  <2> QED
    BY <2>2, <2>5, <2>6
<1> QED
  BY <1>3, <1>4 DEF Stream, ReadLine, At

\* Steps that make no store call.
LEMMA MoveEffect ==
    ASSUME IInv, NEW r \in Runs, TypeOK',
           \/ Send(r) \/ Spawn(r) \/ Track(r) \/ EndOfOutput(r) \/ ReadErrors(r)
           \/ Reap(r) \/ Wait(r)
    PROVE  TaskEffect(r)
<1>1. TypeOK
  BY DEF IInv
<1>2. UNCHANGED <<table, stopper, killed>>
  BY DEF Send, Spawn, Track, EndOfOutput, ReadErrors, Reap, Wait, Move, serviceVars
<1>3. ASSUME NEW step \in Step, Move(r, step) PROVE pc'[r] = step
  BY <1>1, <1>3, PlainMove
<1>4. /\ Output(r) \in Nat /\ MaxLines \in Nat
      /\ lines[r].ready \in 0..MaxLines /\ lines[r].wrote \in 0..MaxLines
      /\ child[r].wrote \in 0..MaxErrLines /\ MaxErrLines \in Nat
      /\ child[r].stderr \in 0..PipeCapacity /\ PipeCapacity \in Nat
      /\ Vigour[child[r].state] \in 0..3
  BY <1>1, VariantType
<1>5. {"httpError", "fail", "stream", "track", "read", "errors", "reap", "wait",
       "done", "completion", "cliError"} \subseteq Step
  BY DEF Step, Calling, Subprocess, Ending
<1>6. CASE Send(r)
  <2>1. pc[r] = "send" /\ pc'[r] \in {"fail", "httpError", "stream"}
    BY <1>3, <1>5, <1>6 DEF Send, At
  <2>2. /\ child'[r] = child[r] /\ lines'[r].wrote = lines[r].wrote
        /\ lines'[r].ready \in 0..MaxLines
    BY <1>1, <1>6 DEF Send, TypeOK
  <2>3. Output(r)' < Output(r) + MaxLines + 4
    BY <1>4, <2>2 DEF Output
  <2>4. Rank[pc'[r]] < Rank[pc[r]]
    BY <2>1, Ranks
  <2>5. Variant(r)' < Variant(r)
    BY <1>1, <2>3, <2>4, StepDown
  <2> QED
    BY <1>2, <2>1, <2>5 DEF TaskEffect, Held
<1>7. CASE Spawn(r)
  <2>1. /\ pc[r] = "spawn" /\ lines'[r] = lines[r]
        /\ \/ pc'[r] = "fail" /\ child'[r] = child[r]
           \/ pc'[r] = "track" /\ child'[r] = [child[r] EXCEPT !.state = "running"]
    <3>1. pc[r] = "spawn" /\ lines' = lines
      BY <1>7 DEF Spawn, At
    <3>2. CASE Move(r, "fail") /\ child' = child
      BY <1>3, <1>5, <3>1, <3>2
    <3>3. CASE /\ Move(r, "track")
               /\ child' = [child EXCEPT ![r].state = "running"]
      <4>1. child'[r] = [child[r] EXCEPT !.state = "running"]
        BY <1>1, <3>3 DEF TypeOK
      <4> QED
        BY <1>3, <1>5, <3>1, <3>3, <4>1
    <3> QED
      BY <1>7, <3>2, <3>3 DEF Spawn
  <2>2. Output(r)' < Output(r) + MaxLines + 4
    <3>1. CASE child'[r] = child[r]
      BY <1>4, <2>1, <3>1 DEF Output
    <3>2. CASE child'[r] = [child[r] EXCEPT !.state = "running"]
      <4>1. /\ child'[r].wrote = child[r].wrote /\ child'[r].stderr = child[r].stderr
            /\ child'[r].state = "running"
        BY <1>1, <3>2 DEF TypeOK
      <4> QED
        BY <1>4, <2>1, <4>1, Vigours DEF Output
    <3> QED
      BY <2>1, <3>1, <3>2
  <2>3. Rank[pc'[r]] < Rank[pc[r]]
    BY <2>1, Ranks
  <2>4. Variant(r)' < Variant(r)
    BY <1>1, <2>2, <2>3, StepDown
  <2>5. pc'[r] = "track" => child'[r].state = "running"
    BY <1>1, <2>1 DEF TypeOK
  <2> QED
    BY <1>2, <2>1, <2>4, <2>5 DEF TaskEffect, Held
<1>8. CASE Track(r) \/ EndOfOutput(r) \/ Wait(r) \/ Reap(r)
  <2>1. /\ lines' = lines /\ child' = child
        /\ \/ pc[r] = "track" /\ pc'[r] = "read"
           \/ pc[r] = "read" /\ pc'[r] = "errors"
           \/ pc[r] = "wait" /\ pc'[r] \in {"completion", "cliError"}
           \/ pc[r] = "reap" /\ pc'[r] = "wait"
           \/ pc[r] = "reap" /\ pc'[r] = "done" /\ r \notin tracked
    BY <1>3, <1>5, <1>8 DEF Track, EndOfOutput, Wait, Reap, At, childVars
  <2>2. Rank[pc'[r]] < Rank[pc[r]]
    BY <2>1, Ranks
  <2>3. Variant(r)' < Variant(r)
    BY <1>1, <2>1, <2>2, StepDownAlone
  <2> QED
    BY <1>2, <2>1, <2>3 DEF TaskEffect, Held
<1>9. CASE ReadErrors(r)
  <2>1. pc[r] = "errors" /\ lines' = lines
    BY <1>9 DEF ReadErrors, At
  <2>2. CASE /\ child[r].stderr > 0 /\ pc' = pc
             /\ child' = [child EXCEPT ![r].stderr = child[r].stderr - 1]
    <3>1. /\ child'[r].wrote = child[r].wrote /\ child'[r].state = child[r].state
          /\ child'[r].stderr = child[r].stderr - 1
      BY <1>1, <2>2 DEF TypeOK
    <3>2. Output(r)' < Output(r) /\ Output(r)' \in Nat
      BY <1>4, <2>1, <2>2, <3>1, OutputAfter DEF Output
    <3>3. (MaxLines + 4) * Rank[pc[r]] \in Nat
      BY <1>1, VariantType
    <3>4. Variant(r)' < Variant(r)
      BY <1>4, <2>2, <3>2, <3>3 DEF Variant
    <3> QED
      BY <1>2, <2>1, <2>2, <3>1, <3>4 DEF TaskEffect, Held
  <2>3. CASE Move(r, "reap") /\ child' = child
    <3>1. pc'[r] = "reap" /\ Rank[pc'[r]] < Rank[pc[r]]
      BY <1>3, <1>5, <2>1, <2>3, Ranks
    <3>2. Variant(r)' < Variant(r)
      BY <1>1, <2>1, <2>3, <3>1, StepDownAlone
    <3> QED
      BY <1>2, <2>1, <2>3, <3>1, <3>2 DEF TaskEffect, Held
  <2> QED
    BY <1>9, <2>2, <2>3 DEF ReadErrors
<1> QED
  BY <1>6, <1>7, <1>8, <1>9

\* Every step of the task.
LEMMA TaskEffects ==
    ASSUME IInv, NEW r \in Runs, Task(r)
    PROVE  TaskEffect(r)
<1>1. TypeOK'
  BY TaskStep DEF StepOf
<1> QED
  BY <1>1, CallEffect, StreamEffect, MoveEffect DEF Task, Http, Cli, End

\* Every step of the child uses up output or some of its life.
LEMMA ChildEffect ==
    ASSUME IInv, NEW r \in Runs, Child(r)
    PROVE  /\ UNCHANGED <<table, pc, stopper, killed>>
           /\ child[r].state # "none" /\ child'[r].state # "none"
           /\ Variant(r)' < Variant(r)
<1>1. TypeOK /\ UNCHANGED <<table, pc, stopper, killed>>
  BY DEF IInv, Child, serviceVars
<1>2. /\ Output(r) \in Nat /\ MaxLines \in Nat
      /\ lines[r].ready \in 0..MaxLines /\ lines[r].wrote \in 0..MaxLines
      /\ child[r].wrote \in 0..MaxErrLines /\ MaxErrLines \in Nat
      /\ child[r].stderr \in 0..PipeCapacity /\ PipeCapacity \in Nat
  BY <1>1, VariantType
<1>3. /\ child[r].state # "none" /\ child'[r].state # "none"
      /\ Output(r)' < Output(r)
  <2>1. CASE ChildWritesLine(r)
    <3>1. /\ child' = child /\ child[r].state = "running"
          /\ lines'[r].ready = lines[r].ready + 1
          /\ lines'[r].wrote = lines[r].wrote + 1
      BY <1>1, <2>1 DEF ChildWritesLine, TypeOK
    <3> QED
      BY <1>2, <3>1, Vigours DEF Output
  <2>2. CASE ChildStartsErrWrite(r)
    <3>1. /\ lines' = lines /\ child[r].state = "running"
          /\ child'[r].state = "blocked" /\ child'[r].wrote = child[r].wrote
          /\ child'[r].stderr = child[r].stderr
      BY <1>1, <2>2 DEF ChildStartsErrWrite, TypeOK
    <3> QED
      BY <1>2, <3>1, Vigours DEF Output
  <2>3. CASE ChildEndsErrWrite(r)
    <3>1. /\ lines' = lines /\ child[r].state = "blocked"
          /\ child'[r].state = "running" /\ child'[r].wrote = child[r].wrote + 1
          /\ \/ child'[r].stderr = child[r].stderr
             \/ child'[r].stderr = child[r].stderr + 1
      BY <1>1, <2>3 DEF ChildEndsErrWrite, TypeOK
    <3> QED
      BY <1>2, <3>1, Vigours DEF Output
  <2>4. CASE ChildDetaches(r) \/ ChildExits(r)
    <3>1. /\ lines' = lines
          /\ \/ child[r].state = "running" /\ child'[r].state = "detached"
             \/ /\ child[r].state \in {"running", "detached"}
                /\ child'[r].state \in {"succeeded", "failed"}
          /\ child'[r].wrote = child[r].wrote /\ child'[r].stderr = child[r].stderr
      BY <1>1, <2>4 DEF ChildDetaches, ChildExits, TypeOK
    <3> QED
      BY <1>2, <3>1, Vigours DEF Output
  <2> QED
    BY <2>1, <2>2, <2>3, <2>4 DEF Child
<1>4. TypeOK'
  BY RunStep DEF StepOf
<1>5. Output(r)' \in Nat /\ (MaxLines + 4) * Rank[pc[r]] \in Nat
  BY <1>1, <1>4, OutputAfter, VariantType
<1>6. Variant(r)' < Variant(r)
  BY <1>1, <1>2, <1>3, <1>5 DEF Variant
<1> QED
  BY <1>1, <1>3, <1>6

\* How a run ends: at the end of its task, and once a stop that killed its
\* child has marked it; and a task that has to do with a child has one.
Endings(r) ==
    /\ pc[r] = "done" => table[r].state \in Finished
                           \/ (r \in killed /\ stopper[r] = "mark")
    /\ r \in killed => stopper[r] # "none"
    /\ r \in killed /\ stopper[r] = "done" => table[r].state \in Finished
    /\ pc[r] \in Held => child[r].state # "none"

\* A step of run r keeps what holds of its end.
LEMMA EndingsStep ==
    ASSUME IInv, NEW r \in Runs, Endings(r),
           \/ Dispatch(r) \/ Task(r) \/ Panic(r) \/ Child(r)
           \/ HandleStop(r) \/ KillChild(r) \/ MarkStopped(r)
    PROVE  Endings(r)'
<1> USE DEF Endings
<1>1. TypeOK /\ Statuses(r) /\ Children(r)
  BY RunInvIs DEF IInv
<1>2. CASE Dispatch(r)
  <2>1. /\ pc'[r] \in {"created", "refused", "start"}
        /\ UNCHANGED <<killed, stopper>> /\ r \notin killed
    BY <1>1, <1>2 DEF Dispatch, CreateRun, MarkRunning, SetStatus, StoreCall, Goto,
                      serviceVars, Children, Dispatching, At, TypeOK
  <2> QED
    BY <2>1 DEF Held
<1>3. CASE Task(r)
  <2>1. TaskEffect(r)
    BY <1>3, TaskEffects
  <2>2. pc[r] = "reap" /\ r \notin tracked => r \in killed
    BY <1>1 DEF Children
  <2>3. /\ stopper \in [Runs -> {"none", "mark", "done"}]
        /\ table[r].state \in Finished => table'[r].state \in Finished
    BY <1>1, <2>1 DEF TypeOK, TaskEffect, Finished
  <2>4. pc'[r] = "done" => table'[r].state \in Finished
                             \/ (r \in killed' /\ stopper'[r] = "mark")
    BY <2>1, <2>2, <2>3 DEF TaskEffect
  <2>5. pc'[r] \in Held => child'[r].state # "none"
    BY <2>1 DEF TaskEffect
  <2> QED
    BY <2>1, <2>3, <2>4, <2>5 DEF TaskEffect
<1>4. CASE Panic(r)
  BY <1>1, <1>4 DEF Panic, Goto, childVars, serviceVars, Held, TypeOK
<1>5. CASE Child(r)
  BY <1>5, ChildEffect
<1>6. ASSUME StoreStop(r), Exists(table, r)
      PROVE  table'[r].state \in Finished
  <2>1. "Canceled" \in RunState /\ table \in Table
    BY <1>1 DEF RunState, Finished, TypeOK
  <2>2. CASE Stoppable(table, r)
    BY <1>6, <2>1, <2>2, StatusSet DEF StoreStop, Finished
  <2>3. CASE ~Stoppable(table, r)
    BY <1>6, <2>1, <2>3, ExistingIsRecord DEF StoreStop, Stoppable, RunRecord
  <2> QED
    BY <2>2, <2>3
<1>7. CASE HandleStop(r)
  <2>1. /\ UNCHANGED <<pc, child, killed, stopper>>
        /\ StoreStop(r) /\ Exists(table, r)
    BY <1>1, <1>7, StoppableExists DEF HandleStop, childVars, TypeOK
  <2> QED
    BY <1>6, <2>1
<1>8. CASE MarkStopped(r)
  <2>1. /\ UNCHANGED <<pc, child, killed>> /\ stopper'[r] = "done" /\ StoreStop(r)
    BY <1>1, <1>8 DEF MarkStopped, childVars, TypeOK
  <2>2. CASE Exists(table, r)
    BY <1>6, <2>1, <2>2
  <2>3. CASE ~Exists(table, r)
    <3>1. pc[r] = "none" /\ r \notin killed
      BY <1>1, <2>3 DEF Statuses, Children, Dispatching
    <3> QED
      BY <2>1, <3>1 DEF Held
  <2> QED
    BY <2>2, <2>3
<1>9. CASE KillChild(r)
  <2>1. /\ UNCHANGED <<table, pc>> /\ stopper[r] = "none" /\ stopper'[r] = "mark"
        /\ child'[r].state \in {child[r].state, "killed"}
    BY <1>1, <1>9 DEF KillChild, TypeOK
  <2> QED
    BY <2>1
<1> QED
  BY <1>2, <1>3, <1>4, <1>5, <1>7, <1>8, <1>9

\* All runs end so.
EveryEnding == \A r \in Runs : Endings(r)

\* It holds of every run in every state.
LEMMA EndingsAlways == Spec => []EveryEnding
<1>1. Init => EveryEnding
  BY DEF Init, EveryEnding, Endings, Held
<1>2. IInv /\ EveryEnding /\ [Next]_vars => EveryEnding'
  <2> SUFFICES ASSUME IInv, EveryEnding, [Next]_vars, NEW r \in Runs
               PROVE  Endings(r)'
    BY DEF EveryEnding
  <2> USE DEF EveryEnding
  <2>1. CASE UNCHANGED <<table, pc, child, killed, stopper>>
    BY <2>1 DEF Endings
  <2>2. ASSUME NEW s \in Runs,
               \/ Dispatch(s) \/ Task(s) \/ Panic(s) \/ Child(s)
               \/ HandleStop(s) \/ KillChild(s) \/ MarkStopped(s)
        PROVE  Endings(r)'
    <3>1. CASE s = r
      BY <2>2, <3>1, EndingsStep
    <3>2. CASE s # r
      <4>1. SameRun(r)
        BY <2>2, <3>2, RunStep DEF StepOf
      <4> QED
        BY <4>1 DEF SameRun, Endings
    <3> QED
      BY <3>1, <3>2
  <2>3. CASE UNCHANGED vars
    BY <2>1, <2>3 DEF vars
  <2>4. CASE \E q \in Readers : ReadEvents(q) \/ \E s \in Runs : ReadStatus(q, s)
    BY <2>1, <2>4 DEF ReadEvents, ReadStatus, childVars
  <2> QED
    BY <2>2, <2>3, <2>4 DEF Next
<1> QED
  BY <1>1, <1>2, IInvAlways, PTL DEF Spec

\* A task that has ended has left its run finished, store errors and panics
\* included, unless a stop took its child away and is about to cancel the run.
THEOREM EndedTasksAreFinished == Spec => []EndedIsFinished
<1>1. EveryEnding => EndedIsFinished
  BY DEF EveryEnding, Endings, EndedIsFinished
<1> QED
  BY <1>1, EndingsAlways, PTL

\* The guards of the task's steps, and of the child's.
TaskCanStep(r) ==
    \/ pc[r] \in Executing \ {"read", "errors", "wait"}
    \/ At(r, "panicked")
    \/ At(r, "read") /\ (lines[r].ready > 0 \/ AtEof(r))
    \/ At(r, "errors") /\ (child[r].stderr > 0 \/ AtEof(r))
    \/ At(r, "wait") /\ child[r].state \in Exited

ChildCanStep(r) ==
    \/ child[r].state \in {"running", "detached"}
    \/ /\ child[r].state = "blocked"
       /\ pc[r] \in {"track", "read", "errors"} => child[r].stderr < PipeCapacity

\* Over pipes that hold anything at all, a task that has not ended is stranded
\* only in the jam of its two pipes: else it or its child can go on.
THEOREM OnlyAJamStrands ==
    ASSUME PipeCapacity > 0
    PROVE  Spec => [](\A r \in Runs :
                        pc[r] \in Executing \cup {"panicked"} =>
                            TaskCanStep(r) \/ ChildCanStep(r) \/ Jammed(r))
<1>1. ASSUME TypeOK, NEW r \in Runs, Endings(r),
             pc[r] \in Executing \cup {"panicked"}
      PROVE  TaskCanStep(r) \/ ChildCanStep(r) \/ Jammed(r)
  <2>1. /\ child[r].state \in ChildState /\ lines[r].ready \in 0..MaxLines
        /\ child[r].stderr \in 0..PipeCapacity
        /\ PipeCapacity \in Nat /\ MaxLines \in Nat
    BY <1>1, VariantType
  <2>2. CASE pc[r] \in {"read", "errors", "wait"}
    <3>1. child[r].state \in Exited \cup {"running", "detached", "blocked"}
      BY <1>1, <2>1, <2>2 DEF Endings, Held, ChildState, Exited
    <3>2. CASE child[r].state # "blocked"
      BY <2>2, <3>1, <3>2 DEF TaskCanStep, ChildCanStep, AtEof, At
    <3>3. CASE child[r].state = "blocked"
      BY <2>1, <2>2, <3>3 DEF TaskCanStep, ChildCanStep, Jammed, At
    <3> QED
      BY <3>2, <3>3
  <2>3. CASE pc[r] \notin {"read", "errors", "wait"}
    BY <1>1, <2>3 DEF TaskCanStep, At
  <2> QED
    BY <2>2, <2>3
<1>2. TypeOK /\ EveryEnding =>
        \A r \in Runs : pc[r] \in Executing \cup {"panicked"} =>
            TaskCanStep(r) \/ ChildCanStep(r) \/ Jammed(r)
  BY <1>1 DEF EveryEnding
<1> QED
  BY <1>2, EndingsAlways, TypeCorrect, PTL

\* Every step of handle_run, of a task, of its panic and of its child uses up
\* part of a number that is never negative and that nothing else raises: a run
\* takes finitely many steps, given that its child writes finitely much.
THEOREM RunsWindDown ==
    Spec => /\ [](\A r \in Runs : Variant(r) \in Nat)
            /\ [][\A r \in Runs :
                    /\ Variant(r)' <= Variant(r)
                    /\ Dispatch(r) \/ Task(r) \/ Panic(r) \/ Child(r) =>
                         Variant(r)' < Variant(r)]_vars
<1>1. TypeOK => \A r \in Runs : Variant(r) \in Nat
  BY VariantType
<1>2. ASSUME IInv, NEW r \in Runs, Dispatch(r) \/ Panic(r)
      PROVE  Variant(r)' < Variant(r)
  <2>1. TypeOK /\ TypeOK'
    BY <1>2, RunStep DEF IInv, StepOf
  <2>2. /\ \/ pc[r] \in Executing /\ pc'[r] = "panicked"
           \/ pc[r] = "none" /\ pc'[r] \in {"created", "refused"}
           \/ pc[r] = "created" /\ pc'[r] \in {"start", "refused"}
        /\ lines'[r] = lines[r] /\ child'[r] = child[r]
    BY <1>2, <2>1 DEF Dispatch, Panic, CreateRun, MarkRunning, SetStatus, StoreCall,
                      Goto, At, childVars, TypeOK
  <2>3. pc[r] \in Executing => Rank[pc[r]] > 1
    BY Ranks DEF Executing, Step, Dispatching, Calling, Subprocess, Ending
  <2>4. Rank[pc'[r]] < Rank[pc[r]]
    BY <2>2, <2>3, Ranks
  <2> QED
    BY <2>1, <2>2, <2>4, StepDownAlone
<1>3. ASSUME IInv, NEW r \in Runs,
             HandleStop(r) \/ MarkStopped(r) \/ KillChild(r)
      PROVE  Variant(r)' <= Variant(r)
  <2>1. TypeOK /\ TypeOK'
    BY <1>3, RunStep DEF IInv, StepOf
  <2>2. /\ UNCHANGED <<pc, lines>>
        /\ child'[r].stderr = child[r].stderr /\ child'[r].wrote = child[r].wrote
        /\ child'[r].state = child[r].state \/ child'[r].state = "killed"
    BY <1>3, <2>1 DEF HandleStop, MarkStopped, KillChild, childVars, TypeOK
  <2>3. Vigour[child'[r].state] <= Vigour[child[r].state]
    BY <2>1, <2>2, Vigours, VariantType
  <2>4. Output(r)' <= Output(r)
    BY <2>1, <2>2, <2>3, VariantType, Vigours DEF Output
  <2>5. (MaxLines + 4) * Rank[pc[r]] \in Nat /\ Output(r) \in Nat /\ Output(r)' \in Nat
    BY <2>1, VariantType, OutputAfter
  <2> QED
    BY <2>2, <2>4, <2>5 DEF Variant
<1>4. ASSUME IInv, [Next]_vars, NEW r \in Runs
      PROVE  Variant(r)' <= Variant(r)
  <2>1. Variant(r) \in Nat
    BY <1>4, VariantType DEF IInv
  <2>2. CASE UNCHANGED <<pc, lines, child>>
    BY <2>1, <2>2 DEF Variant, Output
  <2>3. ASSUME NEW s \in Runs,
               \/ Dispatch(s) \/ Task(s) \/ Panic(s) \/ Child(s)
               \/ HandleStop(s) \/ KillChild(s) \/ MarkStopped(s)
        PROVE  Variant(r)' <= Variant(r)
    <3>1. CASE s = r
      <4>1. TypeOK'
        BY <1>4, <2>3, RunStep DEF StepOf
      <4>2. Variant(r)' \in Nat
        <5>1. Output(r)' \in Nat /\ Rank[pc'[r]] \in Nat /\ MaxLines \in Nat
          BY <4>1, OutputAfter, RunsAssumption
        <5>2. (MaxLines + 4) * Rank[pc'[r]] \in Nat
          BY <5>1
        <5> QED
          BY <5>1, <5>2 DEF Variant
      <4>3. CASE Dispatch(r) \/ Panic(r) \/ Task(r) \/ Child(r)
        <5>1. Variant(r)' < Variant(r)
          BY <1>2, <1>4, <4>3, TaskEffects, ChildEffect DEF TaskEffect
        <5> QED
          BY <2>1, <4>2, <5>1
      <4>4. CASE HandleStop(r) \/ MarkStopped(r) \/ KillChild(r)
        BY <1>3, <1>4, <4>4
      <4> QED
        BY <2>3, <3>1, <4>3, <4>4
    <3>2. CASE s # r
      <4>1. pc'[r] = pc[r] /\ lines'[r] = lines[r] /\ child'[r] = child[r]
        BY <1>4, <2>3, <3>2, RunStep DEF StepOf, SameRun
      <4> QED
        BY <2>1, <4>1 DEF Variant, Output
    <3> QED
      BY <3>1, <3>2
  <2>4. CASE UNCHANGED vars
    BY <2>2, <2>4 DEF vars
  <2>5. CASE \E q \in Readers : ReadEvents(q) \/ \E s \in Runs : ReadStatus(q, s)
    BY <2>2, <2>5 DEF ReadEvents, ReadStatus, childVars
  <2> QED
    BY <1>4, <2>3, <2>4, <2>5 DEF Next
<1>5. IInv /\ [Next]_vars =>
        [\A r \in Runs :
            /\ Variant(r)' <= Variant(r)
            /\ Dispatch(r) \/ Task(r) \/ Panic(r) \/ Child(r) =>
                 Variant(r)' < Variant(r)]_vars
  BY <1>2, <1>4, TaskEffects, ChildEffect DEF TaskEffect
<1>6. Spec => [](\A r \in Runs : Variant(r) \in Nat)
  BY <1>1, TypeCorrect, PTL
<1>7. Spec => [][\A r \in Runs :
                    /\ Variant(r)' <= Variant(r)
                    /\ Dispatch(r) \/ Task(r) \/ Panic(r) \/ Child(r) =>
                         Variant(r)' < Variant(r)]_vars
  BY <1>5, IInvAlways, PTL DEF Spec
<1> QED
  BY <1>6, <1>7

=============================================================================
