-------------------------- MODULE RunRecordsProofs --------------------------
(***************************************************************************)
(* Lemmas about the tables of RunRecords and the updates of them, for any  *)
(* set of runs, any event kinds and any limit on the length of a log.      *)
(***************************************************************************)
EXTENDS RunRecords, TLAPS

\* trim_events leaves a log of at most MaxEvents events.
LEMMA NewestType ==
    ASSUME NEW events \in Seq(Kinds)
    PROVE  Newest(events) \in EventLog
  BY MaxEventsAssumption DEF Newest, EventLog

\* The table of a fresh store is a table.
LEMMA EmptyTableType == EmptyTable \in Table
  BY DEF EmptyTable, Table

\* create_run inserts a well-formed record.
LEMMA WithRunType ==
    ASSUME NEW table \in Table, NEW r \in Runs
    PROVE  WithRun(table, r) \in Table
  <1>1. NewRecord \in RunRecord
    BY MaxEventsAssumption DEF NewRecord, RunRecord, RunState, EventLog
  <1>2. QED
    BY <1>1 DEF WithRun, Table

\* What get_mut finds is a record.
LEMMA ExistingIsRecord ==
    ASSUME NEW table \in Table, NEW r \in Runs, Exists(table, r)
    PROVE  table[r] \in RunRecord
  BY DEF Table, Exists, Absent

\* update_status leaves a table.
LEMMA WithStatusType ==
    ASSUME NEW table \in Table, NEW r \in Runs, Exists(table, r),
           NEW s \in RunState
    PROVE  WithStatus(table, r, s) \in Table
  <1>1. [table[r] EXCEPT !.state = s] \in RunRecord
    BY ExistingIsRecord DEF RunRecord
  <1>2. QED
    BY <1>1 DEF WithStatus, Table

\* append_event, which trims the log it extends, leaves a table.
LEMMA WithEventType ==
    ASSUME NEW table \in Table, NEW r \in Runs, Exists(table, r),
           NEW k \in Kinds
    PROVE  WithEvent(table, r, k) \in Table
  <1>1. table[r] \in RunRecord
    BY ExistingIsRecord
  <1>2. Append(table[r].events, k) \in Seq(Kinds)
    BY <1>1 DEF RunRecord, EventLog
  <1>3. Newest(Append(table[r].events, k)) \in EventLog
    BY <1>2, NewestType
  <1>4. [table[r] EXCEPT !.events = Newest(Append(table[r].events, k))]
            \in RunRecord
    BY <1>1, <1>3 DEF RunRecord
  <1>5. QED
    BY <1>4 DEF WithEvent, Table

\* A run that can be stopped is in the table.
LEMMA StoppableExists ==
    ASSUME NEW table \in Table, NEW r \in Runs, Stoppable(table, r)
    PROVE  Exists(table, r)
  BY DEF Stoppable, Exists, RunState, Finished

-----------------------------------------------------------------------------
(* The newest events of a log *)

\* The event appended last, and the one before it.
Latest(record, k) ==
    Len(record.events) > 0 /\ record.events[Len(record.events)] = k
Previous(record, k) ==
    Len(record.events) > 1 /\ record.events[Len(record.events) - 1] = k

\* append_event puts the event at the end, after the one that was there,
\* which is kept unless the limit is a single event; nothing else changes.
LEMMA AppendedLast ==
    ASSUME NEW table \in Table, NEW r \in Runs, Exists(table, r),
           NEW k \in Kinds
    PROVE  LET new == WithEvent(table, r, k)
           IN  /\ new[r].state = table[r].state
               /\ Latest(new[r], k)
               /\ \A j \in Kinds :
                    MaxEvents > 1 /\ Latest(table[r], j) => Previous(new[r], j)
               /\ \A s \in Runs \ {r} : new[s] = table[s]
  <1> DEFINE old == table[r].events
             long == Append(old, k)
             new == WithEvent(table, r, k)
  <1>1. table[r] \in RunRecord /\ old \in Seq(Kinds) /\ Len(old) <= MaxEvents
    BY ExistingIsRecord DEF RunRecord, EventLog
  <1>2. /\ long \in Seq(Kinds) /\ Len(long) = Len(old) + 1
        /\ long[Len(long)] = k
        /\ Len(old) > 0 => long[Len(old)] = old[Len(old)]
    BY <1>1
  <1>3. /\ Len(Newest(long)) > 0
        /\ Newest(long)[Len(Newest(long))] = k
        /\ MaxEvents > 1 /\ Len(old) > 0 =>
              /\ Len(Newest(long)) > 1
              /\ Newest(long)[Len(Newest(long)) - 1] = old[Len(old)]
    <2>1. CASE Len(long) > MaxEvents
      <3>1. /\ Len(old) = MaxEvents /\ Len(long) = MaxEvents + 1
            /\ MaxEvents \in Nat \ {0}
        BY <1>1, <1>2, <2>1, MaxEventsAssumption
      <3>2. Newest(long) = SubSeq(long, 2, MaxEvents + 1)
        BY <2>1, <3>1 DEF Newest
      <3>3. /\ Len(Newest(long)) = MaxEvents
            /\ \A i \in 1 .. MaxEvents : Newest(long)[i] = long[i + 1]
        BY <1>2, <3>1, <3>2
      <3> QED
        BY <1>2, <3>1, <3>3
    <2>2. CASE ~(Len(long) > MaxEvents)
      <3>1. Newest(long) = long
        BY <2>2 DEF Newest
      <3> QED
        BY <1>1, <1>2, <3>1
    <2> QED
      BY <2>1, <2>2
  <1>4. /\ new[r].state = table[r].state /\ new[r].events = Newest(long)
        /\ \A s \in Runs \ {r} : new[s] = table[s]
    BY <1>1 DEF WithEvent, Table, RunRecord
  <1> HIDE DEF new, long, old
  <1>5. Latest(new[r], k)
    BY <1>3, <1>4 DEF Latest
  <1>6. ASSUME NEW j \in Kinds, MaxEvents > 1, Latest(table[r], j)
        PROVE  Previous(new[r], j)
    BY <1>3, <1>4, <1>6 DEF Latest, Previous, old
  <1> QED
    BY <1>4, <1>5, <1>6 DEF new

\* update_status changes the status of the run, and nothing else.
LEMMA StatusSet ==
    ASSUME NEW table \in Table, NEW r \in Runs, Exists(table, r),
           NEW state \in RunState
    PROVE  LET new == WithStatus(table, r, state)
           IN  /\ new[r].state = state
               /\ new[r].events = table[r].events
               /\ \A s \in Runs \ {r} : new[s] = table[s]
  <1>1. table[r] \in RunRecord
    BY ExistingIsRecord
  <1> QED
    BY <1>1 DEF WithStatus, Table, RunRecord

-----------------------------------------------------------------------------
(* What an update leaves of the table it updates *)

\* Every run of one table is in the other with its events, in their order and
\* unchanged; only from a full log the oldest event may be missing.
Carries(old, new) ==
    \A r \in Runs : Exists(old, r) =>
        /\ Exists(new, r)
        /\ \E gone \in {0, 1} :
             /\ gone = 1 => Len(old[r].events) = MaxEvents
             /\ Len(old[r].events) - gone <= Len(new[r].events)
             /\ \A i \in 1 .. Len(old[r].events) - gone :
                    new[r].events[i] = old[r].events[i + gone]

\* A run whose record did not change is carried over.
LEMMA CarriedAlong ==
    ASSUME NEW table \in Table, NEW new, NEW r \in Runs, Exists(table, r),
           new[r].state # "Absent", new[r].events = table[r].events
    PROVE  /\ Exists(new, r)
           /\ \E gone \in {0, 1} :
                /\ gone = 1 => Len(table[r].events) = MaxEvents
                /\ Len(table[r].events) - gone <= Len(new[r].events)
                /\ \A i \in 1 .. Len(table[r].events) - gone :
                       new[r].events[i] = table[r].events[i + gone]
  <1>1. Len(table[r].events) \in Nat
    BY ExistingIsRecord DEF RunRecord, EventLog
  <1>2. \A i \in 1 .. Len(table[r].events) - 0 :
            i + 0 = i /\ new[r].events[i] = table[r].events[i + 0]
    BY <1>1
  <1> QED
    BY <1>1, <1>2 DEF Exists

\* create_run, update_status and append_event carry the table over.
LEMMA UpdatesCarry ==
    ASSUME NEW table \in Table, NEW r \in Runs
    PROVE  /\ Carries(table, table)
           /\ ~Exists(table, r) => Carries(table, WithRun(table, r))
           /\ Exists(table, r) =>
                /\ \A s \in RunState : Carries(table, WithStatus(table, r, s))
                /\ \A k \in Kinds : Carries(table, WithEvent(table, r, k))
  <1>1. Carries(table, table)
    BY CarriedAlong DEF Carries, Exists
  <1>2. ASSUME ~Exists(table, r) PROVE Carries(table, WithRun(table, r))
    <2>1. \A s \in Runs : Exists(table, s) => WithRun(table, r)[s] = table[s]
      BY <1>2 DEF WithRun, Table
    <2> HIDE DEF WithRun
    <2> QED
      BY <2>1, CarriedAlong DEF Carries, Exists
  <1>3. ASSUME Exists(table, r), NEW s \in RunState
        PROVE  Carries(table, WithStatus(table, r, s))
    <2> DEFINE new == WithStatus(table, r, s)
    <2>1. /\ new[r].state = s /\ new[r].events = table[r].events
          /\ \A u \in Runs \ {r} : new[u] = table[u]
      BY <1>3, StatusSet
    <2>2. s # "Absent"
      BY DEF RunState, Finished
    <2> HIDE DEF new
    <2>3. Carries(table, new)
      BY <2>1, <2>2, CarriedAlong DEF Carries, Exists
    <2> QED
      BY <2>3 DEF new
  <1>4. ASSUME Exists(table, r), NEW k \in Kinds
        PROVE  Carries(table, WithEvent(table, r, k))
    <2> DEFINE old  == table[r].events
               long == Append(old, k)
               new  == WithEvent(table, r, k)
    <2>1. table[r] \in RunRecord /\ old \in Seq(Kinds) /\ Len(old) <= MaxEvents
      BY <1>4, ExistingIsRecord DEF RunRecord, EventLog
    <2>2. /\ long \in Seq(Kinds) /\ Len(long) = Len(old) + 1
          /\ \A i \in 1 .. Len(old) : long[i] = old[i]
      BY <2>1
    <2>3. /\ new[r].state = table[r].state /\ new[r].events = Newest(long)
          /\ \A u \in Runs \ {r} : new[u] = table[u]
      BY <2>1 DEF WithEvent, Table, RunRecord
    <2> HIDE DEF new, long
    <2>4. \E gone \in {0, 1} :
             /\ gone = 1 => Len(old) = MaxEvents
             /\ Len(old) - gone <= Len(new[r].events)
             /\ \A i \in 1 .. Len(old) - gone : new[r].events[i] = old[i + gone]
      <3>1. CASE Len(long) > MaxEvents
        <4>1. Len(old) = MaxEvents /\ MaxEvents \in Nat \ {0}
          BY <2>1, <2>2, <3>1, MaxEventsAssumption
        <4>2. new[r].events = SubSeq(long, 2, MaxEvents + 1)
          <5>1. Len(long) - MaxEvents + 1 = 2 /\ Len(long) = MaxEvents + 1
            BY <2>2, <4>1
          <5> QED
            BY <2>3, <3>1, <5>1 DEF Newest
        <4>3. /\ Len(new[r].events) = MaxEvents
              /\ \A i \in 1 .. MaxEvents : new[r].events[i] = long[i + 1]
          BY <2>2, <4>1, <4>2
        <4>4. \A i \in 1 .. MaxEvents - 1 : new[r].events[i] = old[i + 1]
          BY <2>2, <4>1, <4>3
        <4> QED
          BY <4>1, <4>3, <4>4
      <3>2. CASE ~(Len(long) > MaxEvents)
        <4>1. new[r].events = long
          BY <2>3, <3>2 DEF Newest
        <4>2. \A i \in 1 .. Len(old) - 0 : new[r].events[i] = old[i + 0]
          BY <2>1, <2>2, <4>1
        <4> QED
          BY <2>1, <2>2, <4>1, <4>2
      <3> QED
        BY <3>1, <3>2
    <2>5. Exists(new, r)
      BY <1>4, <2>3 DEF Exists
    <2>6. ASSUME NEW u \in Runs \ {r}, Exists(table, u)
          PROVE  new[u].state # "Absent" /\ new[u].events = table[u].events
      BY <2>3, <2>6 DEF Exists
    <2>7. Carries(table, new)
      BY <2>4, <2>5, <2>6, CarriedAlong DEF Carries
    <2> QED
      BY <2>7 DEF new
  <1> QED
    BY <1>1, <1>2, <1>3, <1>4

=============================================================================
