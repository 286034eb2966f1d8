---------------------------- MODULE EventPolling ----------------------------
(***************************************************************************)
(* get-run-events: clients poll a run's events incrementally while the     *)
(* store appends them and drains the oldest beyond MaxEvents.              *)
(*                                                                         *)
(* Events are the numbers 1, 2, ... in the order they were appended.  The  *)
(* record keeps the newest ones; since_index is a position in what the     *)
(* record keeps, not a number.                                             *)
(***************************************************************************)
EXTENDS Naturals

CONSTANTS
    Pollers,     \* clients polling the same run
    MaxEvents,   \* MAX_EVENTS_PER_RUN
    MaxAppends   \* bound: events of the run

ASSUME PollingAssumption == MaxEvents \in Nat \ {0} /\ MaxAppends \in Nat

VARIABLES
    appended,  \* events appended so far
    dropped,   \* events drained so far
    next,      \* per poller: since_index + 1 of its next call; 0 for none
    got,       \* per poller: the events it received
    fresh,     \* history: pollers that polled after the last append
    again      \* history: some event was delivered twice

vars == <<appended, dropped, next, got, fresh, again>>

total  == appended - dropped
Window == (dropped + 1)..appended

TypeOK ==
    /\ appended \in 0..MaxAppends
    /\ dropped \in 0..appended
    /\ next \in [Pollers -> 0..MaxEvents]
    /\ got \in [Pollers -> SUBSET (1..appended)]
    /\ fresh \subseteq Pollers
    /\ again \in BOOLEAN

Init ==
    /\ appended = 0
    /\ dropped = 0
    /\ next = [p \in Pollers |-> 0]
    /\ got = [p \in Pollers |-> {}]
    /\ fresh = {}
    /\ again = FALSE

\* Mutant of AppendEvent: no drain.
AppendUnbounded ==
    /\ appended < MaxAppends
    /\ appended' = appended + 1
    /\ fresh' = {}
    /\ UNCHANGED <<dropped, next, got, again>>

\* append_event: push; beyond the limit drain the oldest.
AppendEvent ==
    /\ appended < MaxAppends
    /\ appended' = appended + 1
    /\ dropped' = IF total + 1 > MaxEvents THEN dropped + 1 ELSE dropped
    /\ fresh' = {}
    /\ UNCHANGED <<next, got, again>>

\* Mutant of Slice: since_index inclusive.
SliceInclusive(start) ==
    IF start = 0 THEN Window ELSE (dropped + start)..appended

\* Mutant of Slice: one past the next position.
SliceSkips(start) ==
    IF start >= total THEN {} ELSE (dropped + start + 2)..appended

\* The events handle_get_events returns from position start on.
Slice(start) ==
    IF start >= total THEN {} ELSE (dropped + start + 1)..appended

\* The client goes on after the last index it received.
Poll(p) ==
    /\ got' = [got EXCEPT ![p] = got[p] \cup Slice(next[p])]
    /\ next' = [next EXCEPT ![p] = IF Slice(next[p]) = {} THEN next[p] ELSE total]
    /\ fresh' = fresh \cup {p}
    /\ again' = (again \/ got[p] \cap Slice(next[p]) # {})
    /\ UNCHANGED <<appended, dropped>>

Next == AppendEvent \/ \E p \in Pollers : Poll(p)

Spec == Init /\ [][Next]_vars

-----------------------------------------------------------------------------
(* Properties *)

\* No event reaches a poller twice, drained record or not.
NeverTwice == ~again

\* Until the record drains, incremental fetching loses nothing: a poller has
\* every event up to its index, and all of them right after a poll.
NoGapBeforeTheLimit ==
    appended <= MaxEvents =>
        \A p \in Pollers :
            /\ got[p] = 1..next[p]
            /\ p \in fresh => got[p] = 1..appended

\* The log that is polled is the one the store keeps: the record of a running
\* run holds the numbers of the window, and an append is the store's.
Record == [state |-> "Running", events |-> [i \in 1..total |-> dropped + i]]
Store  == INSTANCE RunTable WITH Runs <- {"run"}, Kinds <- Nat,
                                 table <- [run \in {"run"} |-> Record]
AppendsAsTheStore == [][Store!AppendEvent("run", appended')]_<<appended, dropped>>

\* tool_schemas.rs: since_index returns the "events after this index": right
\* after a poll the poller has all the events the record keeps.
PollIsComplete == \A p \in fresh : Window \subseteq got[p]

\* What becomes of a poller that has seen a full record: its index never moves
\* again, and it receives nothing more, whatever is appended.
FullPollersStarve ==
    [][\A p \in Pollers : next[p] = MaxEvents =>
          got'[p] = got[p] /\ next'[p] = MaxEvents]_<<got, next>>
=============================================================================
