----------------------------- MODULE RunRecords -----------------------------
(***************************************************************************)
(* The data of the subagent run store (crates/subagents/src/store.rs): one *)
(* record per run, and the four mutations every RunStore implementation    *)
(* applies to its table of records.  A table maps each run id to its       *)
(* record, or to Absent before create_run made it.  Event payloads, the    *)
(* request, messages and timestamps are abstracted; an event is its kind.  *)
(***************************************************************************)
EXTENDS Naturals, Sequences

CONSTANTS
    Runs,       \* run ids (fresh UUIDs)
    Kinds,      \* event kinds callers append
    MaxEvents   \* MAX_EVENTS_PER_RUN

ASSUME MaxEventsAssumption == MaxEvents \in Nat \ {0}

Finished == {"Succeeded", "Failed", "Canceled"}
RunState == {"Pending", "Running"} \cup Finished

EventLog  == {events \in Seq(Kinds) : Len(events) <= MaxEvents}
RunRecord == [state : RunState, events : EventLog]
Absent    == [state |-> "Absent", events |-> << >>]
NewRecord == [state |-> "Pending", events |-> << >>]

Table      == [Runs -> RunRecord \cup {Absent}]
EmptyTable == [r \in Runs |-> Absent]

Exists(table, r) == table[r].state # "Absent"

\* Mutant of Newest: the drain starts one event late.
NewestLate(events) ==
    IF Len(events) > MaxEvents + 1
      THEN SubSeq(events, Len(events) - MaxEvents + 1, Len(events))
      ELSE events

\* The newest MaxEvents events of a log.
Newest(events) ==
    IF Len(events) > MaxEvents
      THEN SubSeq(events, Len(events) - MaxEvents + 1, Len(events))
      ELSE events

\* create_run: insert a Pending record without events.
WithRun(table, r) == [table EXCEPT ![r] = NewRecord]

\* update_status: overwrite the status, whatever it was.
WithStatus(table, r, s) == [table EXCEPT ![r].state = s]

\* append_event: push, then drain the oldest events beyond the limit.
WithEvent(table, r, k) ==
    [table EXCEPT ![r].events = Newest(Append(table[r].events, k))]

\* stop: only a run that has not finished can be canceled.
Stoppable(table, r) == table[r].state \in RunState \ Finished
=============================================================================
