------------------------- MODULE EventPollingProofs -------------------------
(***************************************************************************)
(* Incremental polling, for any number of pollers, events and any limit.   *)
(***************************************************************************)
EXTENDS EventPolling, Sequences, TLAPS

\* What a poller received ends before the position it asks for next.
Behind ==
    \A p \in Pollers :
        /\ next[p] <= total
        /\ \A e \in got[p] : e <= dropped + next[p]

IInv ==
    /\ TypeOK
    /\ dropped > 0 => appended > MaxEvents
    /\ total <= MaxEvents
    /\ Behind
    /\ NeverTwice
    /\ NoGapBeforeTheLimit

\* The invariant holds of an empty log.
LEMMA IInvInit == Init => IInv
  <1> SUFFICES ASSUME Init
               PROVE  IInv
    OBVIOUS
  <1>1. TypeOK
    <2>1. /\ appended \in 0..MaxAppends /\ dropped \in 0..appended
          /\ 0 \in 0..MaxEvents
      BY PollingAssumption DEF Init
    <2>2. next \in [Pollers -> 0..MaxEvents]
      BY <2>1 DEF Init
    <2>3. got \in [Pollers -> SUBSET (1..appended)]
      BY Zenon DEF Init
    <2>4. QED
      BY <2>1, <2>2, <2>3 DEF Init, TypeOK
  <1>2. Behind /\ total <= MaxEvents
    BY PollingAssumption DEF Init, Behind, total
  <1>3. NoGapBeforeTheLimit
    <2>1. ASSUME NEW p \in Pollers
          PROVE  got[p] = {} /\ next[p] = 0 /\ p \notin fresh
      BY DEF Init
    <2>2. 1..0 = {}
      OBVIOUS
    <2>3. QED
      BY <2>1, <2>2 DEF NoGapBeforeTheLimit
  <1>4. QED
    BY <1>1, <1>2, <1>3 DEF Init, IInv, NeverTwice

\* append_event keeps it, also when it drops the oldest event.
LEMMA AppendStep ==
    ASSUME IInv, AppendEvent
    PROVE  IInv'
  <1> USE PollingAssumption
  <1>1. /\ appended \in Nat /\ dropped \in Nat /\ dropped <= appended
        /\ appended' = appended + 1 /\ dropped' \in Nat
        /\ next' = next /\ got' = got /\ fresh' = {} /\ again' = again
    BY DEF IInv, TypeOK, AppendEvent
  <1>2. CASE total + 1 > MaxEvents
    <2>1. dropped' = dropped + 1 /\ total' = total /\ appended' > MaxEvents
      BY <1>1, <1>2 DEF AppendEvent, total
    <2>2. TypeOK'
      BY <1>1, <2>1 DEF IInv, TypeOK, AppendEvent
    <2>3. Behind'
      <3> SUFFICES ASSUME NEW p \in Pollers
                   PROVE  /\ next'[p] <= total'
                          /\ \A e \in got'[p] : e <= dropped' + next'[p]
        BY DEF Behind
      <3>1. next[p] \in Nat /\ got[p] \subseteq Nat
        BY <1>1 DEF IInv, TypeOK
      <3>2. QED
        BY <1>1, <2>1, <3>1 DEF IInv, Behind
    <2>4. QED
      BY <1>1, <2>1, <2>2, <2>3 DEF IInv, NeverTwice, NoGapBeforeTheLimit
  <1>3. CASE ~(total + 1 > MaxEvents)
    <2>1. dropped' = dropped /\ total' = total + 1 /\ total' <= MaxEvents
      BY <1>1, <1>3 DEF AppendEvent, total
    <2>2. TypeOK'
      BY <1>1, <2>1 DEF IInv, TypeOK, AppendEvent
    <2>3. Behind'
      <3> SUFFICES ASSUME NEW p \in Pollers
                   PROVE  /\ next'[p] <= total'
                          /\ \A e \in got'[p] : e <= dropped' + next'[p]
        BY DEF Behind
      <3>1. next[p] \in Nat /\ next[p] <= total /\ total \in Nat
        BY <1>1 DEF IInv, TypeOK, Behind, total
      <3>2. QED
        BY <1>1, <2>1, <3>1 DEF IInv, Behind
    <2>4. NoGapBeforeTheLimit'
      BY <1>1 DEF IInv, NoGapBeforeTheLimit
    <2>5. QED
      BY <1>1, <2>1, <2>2, <2>3, <2>4 DEF IInv, NeverTwice
  <1>4. QED
    BY <1>2, <1>3

\* A poll keeps it, whatever index the poller asks from.
LEMMA PollStep ==
    ASSUME IInv, NEW p \in Pollers, Poll(p)
    PROVE  IInv'
  <1> USE PollingAssumption
  <1>1. /\ appended \in Nat /\ dropped \in Nat /\ dropped <= appended
        /\ appended' = appended /\ dropped' = dropped /\ total' = total
        /\ next[p] \in Nat /\ next[p] <= total /\ total \in Nat
        /\ total <= MaxEvents
        /\ got[p] \subseteq 1..appended
        /\ \A q \in Pollers : q # p => got'[q] = got[q] /\ next'[q] = next[q]
    BY DEF IInv, TypeOK, Poll, Behind, total
  <1>2. got'[p] = got[p] \cup Slice(next[p])
    BY DEF Poll, IInv, TypeOK
  <1>3. /\ Slice(next[p]) \subseteq 1..appended
        /\ next[p] < total => appended \in Slice(next[p])
        /\ next[p] < total => Slice(next[p]) = (dropped + next[p] + 1)..appended
        /\ ~(next[p] < total) => Slice(next[p]) = {}
    BY <1>1 DEF Slice, total
  <1>4. next'[p] = total
    BY <1>1, <1>3 DEF Poll, IInv, TypeOK
  <1>5. TypeOK'
    <2>1. next' \in [Pollers -> 0..MaxEvents]
      BY <1>1 DEF Poll, IInv, TypeOK
    <2>2. got' \in [Pollers -> SUBSET (1..appended)]
      BY <1>3 DEF Poll, IInv, TypeOK
    <2>3. again' \in BOOLEAN
      BY DEF Poll
    <2>4. QED
      BY <1>1, <2>1, <2>2, <2>3 DEF Poll, IInv, TypeOK
  <1>6. Behind'
    <2>1. \A e \in got'[p] : e <= dropped + total
      BY <1>1, <1>2, <1>3 DEF total
    <2>2. QED
      BY <1>1, <1>4, <2>1 DEF IInv, Behind
  <1>7. NeverTwice'
    <2>1. got[p] \cap Slice(next[p]) = {}
      BY <1>1, <1>3 DEF IInv, Behind
    <2>2. QED
      BY <2>1 DEF IInv, NeverTwice, Poll
  <1>8. NoGapBeforeTheLimit'
    <2> SUFFICES ASSUME appended <= MaxEvents, NEW q \in Pollers
                 PROVE  /\ got'[q] = 1..next'[q]
                        /\ q \in fresh' => got'[q] = 1..appended
      BY <1>1 DEF NoGapBeforeTheLimit
    <2>1. dropped = 0 /\ total = appended
      BY <1>1 DEF IInv, total
    <2>2. CASE q = p
      <3>1. got[p] = 1..next[p]
        BY DEF IInv, NoGapBeforeTheLimit
      <3>2. got'[p] = 1..appended
        BY <1>1, <1>2, <1>3, <2>1, <3>1
      <3>3. QED
        BY <1>4, <2>1, <2>2, <3>2
    <2>3. CASE q # p
      BY <1>1, <2>3 DEF IInv, NoGapBeforeTheLimit, Poll
    <2>4. QED
      BY <2>2, <2>3
  <1>9. QED
    BY <1>1, <1>5, <1>6, <1>7, <1>8 DEF IInv

\* Every reachable state satisfies the inductive invariant, which bounds what a
\* poller can have received by what was appended.
THEOREM PollingInvariant == Spec => []IInv
  <1>1. IInv /\ UNCHANGED vars => IInv'
    BY DEF IInv, vars, TypeOK, Behind, NeverTwice, NoGapBeforeTheLimit, total
  <1>2. IInv /\ [Next]_vars => IInv'
    BY <1>1, AppendStep, PollStep DEF Next
  <1>3. QED
    BY <1>2, IInvInit, PTL DEF Spec

\* The variables have their types: no event a poller has was never appended.
THEOREM TypeCorrect == Spec => []TypeOK
  <1>1. IInv => TypeOK
    BY DEF IInv
  <1>2. QED
    BY <1>1, PollingInvariant, PTL

\* A poller never receives an event twice, not even when the record drains
\* between its polls.
THEOREM PollingNeverTwice == Spec => []NeverTwice
  <1>1. IInv => NeverTwice
    BY DEF IInv
  <1>2. QED
    BY <1>1, PollingInvariant, PTL

\* Until a run exceeds MAX_EVENTS_PER_RUN, polling with since_index loses no
\* event.
THEOREM PollingNoGap == Spec => []NoGapBeforeTheLimit
  <1>1. IInv => NoGapBeforeTheLimit
    BY DEF IInv
  <1>2. QED
    BY <1>1, PollingInvariant, PTL

(* The log that is polled, and the store that keeps it *)

Numbers(from, to) == [i \in 1..(to - from) |-> from + i]

\* Appending the next number and keeping the newest MaxEvents numbers moves a
\* window of consecutive numbers as append_event does.
LEMMA WindowMoves ==
    ASSUME NEW d \in Nat, NEW a \in Nat, d <= a, a - d <= MaxEvents,
           NEW e, e = IF a - d + 1 > MaxEvents THEN d + 1 ELSE d
    PROVE  Store!Newest(Append(Numbers(d, a), a + 1)) = Numbers(e, a + 1)
  <1> USE PollingAssumption
  <1>1. /\ Numbers(d, a) \in Seq(Nat) /\ Len(Numbers(d, a)) = a - d
        /\ \A i \in 1..(a - d) : Numbers(d, a)[i] = d + i
    BY DEF Numbers
  <1>2. Append(Numbers(d, a), a + 1) = Numbers(d, a + 1)
    <2>1. a + 1 - d = (a - d) + 1
      OBVIOUS
    <2>2. QED
      BY <1>1, <2>1 DEF Numbers
  <1>3. Numbers(d, a + 1) \in Seq(Nat) /\ Len(Numbers(d, a + 1)) = a + 1 - d
    BY DEF Numbers
  <1>4. CASE a - d + 1 > MaxEvents
    <2>1. MaxEvents = a - d /\ e = d + 1
      BY <1>4
    <2>2. Store!Newest(Numbers(d, a + 1))
            = SubSeq(Numbers(d, a + 1), 2, a + 1 - d)
      BY <1>3, <2>1 DEF Store!Newest
    <2>3. SubSeq(Numbers(d, a + 1), 2, a + 1 - d) = Numbers(d + 1, a + 1)
      BY <1>3, <2>1 DEF Numbers
    <2>4. QED
      BY <1>2, <2>1, <2>2, <2>3
  <1>5. CASE ~(a - d + 1 > MaxEvents)
    <2>1. e = d /\ ~(Len(Numbers(d, a + 1)) > MaxEvents)
      BY <1>3, <1>5
    <2>2. Store!Newest(Numbers(d, a + 1)) = Numbers(d, a + 1)
      BY <2>1 DEF Store!Newest
    <2>3. QED
      BY <1>2, <2>1, <2>2
  <1>6. QED
    BY <1>4, <1>5

\* The polled log is the store's: append_event on the record of the run moves
\* the window, and a poll reads it without touching it.
THEOREM PolledLogIsTheStores == Spec => AppendsAsTheStore
  <1>1. IInv /\ [Next]_vars
          => [Store!AppendEvent("run", appended')]_<<appended, dropped>>
    <2> SUFFICES ASSUME IInv, Next
                 PROVE  [Store!AppendEvent("run", appended')]_<<appended, dropped>>
      BY DEF vars
    <2>1. CASE AppendEvent
      <3>1. /\ appended \in Nat /\ dropped \in Nat /\ dropped <= appended
            /\ total <= MaxEvents /\ appended' = appended + 1
            /\ dropped' = IF appended - dropped + 1 > MaxEvents
                            THEN dropped + 1 ELSE dropped
        BY <2>1 DEF IInv, TypeOK, AppendEvent, total
      <3>2. Store!Newest(Append(Numbers(dropped, appended), appended + 1))
              = Numbers(dropped', appended')
        BY <3>1, WindowMoves DEF total
      <3>3. /\ Record = [state |-> "Running", events |-> Numbers(dropped, appended)]
            /\ Record' = [state |-> "Running", events |-> Numbers(dropped', appended')]
        BY DEF Record, Numbers, total
      <3>4. QED
        BY <3>1, <3>2, <3>3 DEF Store!AppendEvent, Store!Exists, Store!WithEvent
    <2>2. CASE \E p \in Pollers : Poll(p)
      BY <2>2 DEF Poll
    <2>3. QED
      BY <2>1, <2>2 DEF Next
  <1>2. QED
    BY <1>1, PollingInvariant, PTL DEF Spec, AppendsAsTheStore

\* A poller whose index has reached the limit receives no event ever again: the
\* reason why PollIsComplete fails, for every number of pollers and events.
THEOREM StarvedForGood == Spec => FullPollersStarve
  <1> DEFINE Starves == \A p \in Pollers : next[p] = MaxEvents =>
                            got'[p] = got[p] /\ next'[p] = MaxEvents
  <1>1. IInv /\ [Next]_vars => [Starves]_<<got, next>>
    <2> SUFFICES ASSUME IInv, Next, NEW p \in Pollers, next[p] = MaxEvents
                 PROVE  got'[p] = got[p] /\ next'[p] = MaxEvents
      BY DEF vars
    <2>1. CASE AppendEvent
      BY <2>1 DEF AppendEvent
    <2>2. ASSUME NEW q \in Pollers, Poll(q)
          PROVE  got'[p] = got[p] /\ next'[p] = MaxEvents
      <3>1. next \in [Pollers -> 0..MaxEvents] /\ got \in [Pollers -> SUBSET (1..appended)]
        BY DEF IInv, TypeOK
      <3>2. CASE p = q
        <4>1. total \in Nat /\ total <= MaxEvents /\ MaxEvents \in Nat
          BY PollingAssumption DEF IInv, TypeOK, total
        <4>2. Slice(next[p]) = {}
          BY <4>1 DEF Slice
        <4>3. QED
          BY <2>2, <3>1, <3>2, <4>2 DEF Poll
      <3>3. CASE p # q
        BY <2>2, <3>1, <3>3 DEF Poll
      <3>4. QED
        BY <3>2, <3>3
    <2>3. QED
      BY <2>1, <2>2 DEF Next
  <1>2. QED
    BY <1>1, PollingInvariant, PTL DEF Spec, FullPollersStarve
=============================================================================
