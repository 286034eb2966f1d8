------------------------ MODULE ResearchBudgetProofs ------------------------
(***************************************************************************)
(* Proofs about ResearchBudget, for any callers, fingerprints, rate, TTL   *)
(* and start time.                                                         *)
(*                                                                         *)
(* The ledger holds of every copy of the bucket there is: the one behind   *)
(* the mutex, the clones on their way to the file, and the file, because   *)
(* a restart turns the file into the bucket.  Without overlap one call at  *)
(* a time is in progress (Lone), so its reading of the clock is not older  *)
(* than the bucket's (Clocks), and at most its own grant is missing from   *)
(* the file (Accounts).                                                    *)
(***************************************************************************)
EXTENDS ResearchBudget, TLAPS

Reading(t) == call[t].step \in {"dispatch", "probe"}
OnSave(t)  == call[t].step = "save"

Lone == ~overlap => \A t, u \in Callers : Busy(t) /\ Busy(u) => t = u

Readings ==
    /\ wall >= Start
    /\ \A t \in Callers : Reading(t) => call[t].ms = Never \/ call[t].ms >= Start

Ledger(b) == b.spent + b.avail <= Hour + (Stamp(b) - Start) + regress

Ledgers ==
    /\ Ledger(bucket)
    /\ Ledger(disk)
    /\ \A t \in Callers : OnSave(t) => Ledger(call[t].clone)

Clocks ==
    ~overlap /\ ~stepped =>
        /\ regress = 0
        /\ bucket.last <= wall
        /\ disk.last <= wall
        /\ \A t \in Callers :
              /\ Reading(t) => /\ call[t].ms <= wall
                               /\ call[t].ms = Never \/ bucket.last <= call[t].ms
              /\ OnSave(t) => call[t].clone.last <= wall

Accounts ==
    ~overlap =>
        /\ granted <= bucket.spent + excused
        /\ granted <= disk.spent + excused + Cost
        /\ (\A t \in Callers : ~OnSave(t)) => granted <= disk.spent + excused
        /\ \A t \in Callers : OnSave(t) => granted <= call[t].clone.spent + excused

IInv == TypeOK /\ Lone /\ Readings /\ Ledgers /\ Clocks /\ Accounts

-----------------------------------------------------------------------------
(* A refill keeps the bucket a bucket, leaves what it has paid for, takes  *)
(* the reading as its stamp, and keeps the ledger when the ticks it sets   *)
(* the stamp back are counted as regress.                                  *)
LEMMA RefillFacts ==
    ASSUME NEW b \in Bucket, NEW ms \in Nat \cup {Never}
    PROVE  /\ Refill(b, ms) \in Bucket
           /\ Refill(b, ms).spent = b.spent
           /\ Refill(b, ms).last = IF ms = Never THEN b.last ELSE ms
           /\ SetBack(b, ms) \in Nat
           /\ \A r \in Nat :
                 /\ ms = Never \/ ms >= Start
                 /\ b.spent + b.avail <= Hour + (Stamp(b) - Start) + r
                 => Refill(b, ms).spent + Refill(b, ms).avail
                        <= Hour + (Stamp(Refill(b, ms)) - Start) + (r + SetBack(b, ms))
<1>1. CASE ms = Never
    BY <1>1 DEF Refill, SetBack, Bucket, Never
<1>2. CASE ms # Never
    <2> DEFINE a == Capped(b.avail + Elapsed(b, ms))
    <2>1. Refill(b, ms) = [avail |-> a, last |-> ms, spent |-> b.spent]
        BY <1>2 DEF Refill, Bucket, Never
    <2>2. Elapsed(b, ms) \in Nat
        BY <1>2 DEF Elapsed, Bucket, Never
    <2>3. a \in 0..Hour /\ a <= b.avail + Elapsed(b, ms)
        BY <2>2, BudgetAssumption DEF Capped, Bucket
    <2>4. SetBack(b, ms) \in Nat
        BY <1>2 DEF SetBack, Bucket, Never
    <2>5. Refill(b, ms) \in Bucket
        BY <1>2, <2>1, <2>3 DEF Bucket, Never
    <2>6. ASSUME NEW r \in Nat, ms >= Start,
                 b.spent + b.avail <= Hour + (Stamp(b) - Start) + r
          PROVE  b.spent + a <= Hour + (ms - Start) + (r + SetBack(b, ms))
        BY <1>2, <2>2, <2>3, <2>6, BudgetAssumption
           DEF Elapsed, SetBack, Stamp, Bucket, Never
    <2>7. Stamp(Refill(b, ms)) = ms
        BY <1>2, <2>1 DEF Stamp
    <2> QED
        BY <1>2, <2>1, <2>3, <2>4, <2>5, <2>6, <2>7
<1> QED
    BY <1>1, <1>2

(* Consuming moves the cost of a token from what is available to what is   *)
(* spent.                                                                  *)
LEMMA ConsumedFacts ==
    ASSUME NEW b \in Bucket, b.avail >= Cost
    PROVE  /\ Consumed(b) \in Bucket
           /\ Consumed(b).spent = b.spent + Cost
           /\ Consumed(b).spent + Consumed(b).avail = b.spent + b.avail
           /\ Consumed(b).last = b.last
<1>1. Consumed(b) = [avail |-> b.avail - Cost, last |-> b.last,
                     spent |-> b.spent + Cost]
    BY DEF Consumed
<1>2. b.avail - Cost \in 0..Hour /\ b.spent + Cost \in Nat
    BY BudgetAssumption DEF Bucket
<1>3. b.avail \in Int /\ b.spent \in Int
    BY BudgetAssumption DEF Bucket
<1> QED
    BY <1>1, <1>2, <1>3, BudgetAssumption DEF Bucket

(* A full bucket is a bucket that has paid for nothing.                    *)
LEMMA FullFacts ==
    ASSUME NEW ms \in Nat \cup {Never}
    PROVE  /\ Full(ms) \in Bucket
           /\ Full(ms).spent = 0
           /\ Full(ms).avail = Hour
           /\ Full(ms).last = ms
BY BudgetAssumption DEF Full, Bucket, Never

(* The kinds of calls have the fields their step says. *)
LEMMA CallFacts ==
    ASSUME TypeOK, NEW t \in Callers
    PROVE  /\ Reading(t) => /\ call[t].f \in Fingerprints
                            /\ call[t].now \in Nat
                            /\ call[t].ms \in Nat \cup {Never}
           /\ call[t].step = "dispatch" => call[t].c \in Channels
           /\ OnSave(t) => call[t].clone \in Bucket
           /\ Busy(t) <=> Reading(t) \/ OnSave(t)
BY DEF TypeOK, Call, Reading, OnSave, Busy, Idle

(* A grant finds a token. *)
LEMMA AllowedMeansToken ==
    ASSUME NEW f, NEW c, NEW now, NEW b \in Bucket, Verdict(f, c, now, b) = "Allowed"
    PROVE  b.avail >= Cost
BY BudgetAssumption DEF Verdict, Bucket

-----------------------------------------------------------------------------
(* TypeOK *)

\* A first start has the types.
LEMMA InitTypeOK == Init => TypeOK
<1> SUFFICES ASSUME Init PROVE TypeOK
    OBVIOUS
<1>1. mono \in Nat /\ wall \in Nat /\ granted \in Nat /\ regress \in Nat
      /\ excused \in Nat /\ calls \in Nat
    BY BudgetAssumption DEF Init
<1>2. bucket \in Bucket
    BY FullFacts, BudgetAssumption DEF Init
<1>3. overlap \in BOOLEAN /\ stepped \in BOOLEAN
    BY Zenon DEF Init
<1>4. inFlight \in [Fingerprints -> [at : Nat \cup {Never}, seen : SUBSET Channels]]
    BY DEF Init, NothingSeen, Unseen
<1>5. call \in [Callers -> Call]
    BY DEF Init, Call
<1>6. when \in [Fingerprints -> [Channels -> Nat \cup {Never}]]
    BY DEF Init, NoneGranted
<1>7. disk \in Bucket \cup {NoFile}
    BY DEF Init
<1> QED
    BY <1>1, <1>2, <1>3, <1>4, <1>5, <1>6, <1>7 DEF TypeOK

\* No step of a call, a restart or a clock leaves the types.
LEMMA TypeOKStep == TypeOK /\ [Next]_vars => TypeOK'
<1> SUFFICES ASSUME TypeOK, [Next]_vars PROVE TypeOK'
    OBVIOUS
<1>1. ASSUME NEW t \in Callers, ReadClocks(t) PROVE TypeOK'
    <2>1. PICK f \in Fingerprints, ms \in {wall, Never} :
              \/ \E c \in Channels : Enter(t, Dispatching(f, c, ms))
              \/ Enter(t, Probing(f, ms))
        BY <1>1 DEF ReadClocks
    <2>2. \A c \in Channels : Dispatching(f, c, ms) \in Call
        BY DEF TypeOK, Call, Dispatching
    <2>3. Probing(f, ms) \in Call
        BY DEF TypeOK, Call, Probing
    <2>4. call' \in [Callers -> Call]
        BY <2>1, <2>2, <2>3 DEF Enter, TypeOK
    <2>5. overlap' \in BOOLEAN
        BY <2>1, Zenon DEF Enter, TypeOK
    <2>6. calls' \in Nat
        BY <2>1 DEF Enter, TypeOK
    <2> QED
        BY <1>1, <2>4, <2>5, <2>6 DEF ReadClocks, TypeOK, clocks
<1>2. ASSUME NEW t \in Callers, Grant(t) PROVE TypeOK'
    <2> DEFINE k == call[t]
               b == Refill(bucket, k.ms)
    <2>1. /\ k.f \in Fingerprints /\ k.c \in Channels
          /\ k.now \in Nat /\ k.ms \in Nat \cup {Never}
        BY <1>2, CallFacts DEF Grant, Reading
    <2>2. b \in Bucket /\ SetBack(bucket, k.ms) \in Nat
        BY <2>1, RefillFacts DEF TypeOK
    <2>3. Consumed(b) \in Bucket
        BY <1>2, <2>2, AllowedMeansToken, ConsumedFacts DEF Grant
    <2>4. Saving(Consumed(b)) \in Call
        BY <2>3 DEF Call, Saving
    <2>5. call' \in [Callers -> Call]
        BY <1>2, <2>4 DEF Grant, TypeOK
    <2>6. inFlight' \in [Fingerprints -> [at : Nat \cup {Never}, seen : SUBSET Channels]]
        BY <1>2, <2>1 DEF Grant, Record, TypeOK
    <2>7. when' \in [Fingerprints -> [Channels -> Nat \cup {Never}]]
        BY <1>2, <2>1 DEF Grant, TypeOK
    <2>8. regress' \in Nat /\ granted' \in Nat /\ bucket' \in Bucket
        BY <1>2, <2>2, <2>3, BudgetAssumption DEF Grant, TypeOK
    <2> QED
        BY <1>2, <2>5, <2>6, <2>7, <2>8 DEF Grant, TypeOK, clocks
<1>3. ASSUME NEW t \in Callers, RefillBucket(t), Reading(t),
             call' = [call EXCEPT ![t] = Idle],
             UNCHANGED <<clocks, inFlight, disk, when, granted, excused, calls, overlap>>
      PROVE  TypeOK'
    <2>1. call[t].ms \in Nat \cup {Never}
        BY <1>3, CallFacts
    <2>2. /\ Refill(bucket, call[t].ms) \in Bucket
          /\ SetBack(bucket, call[t].ms) \in Nat
        BY <2>1, RefillFacts DEF TypeOK
    <2>3. bucket' \in Bucket /\ regress' \in Nat
        BY <1>3, <2>2 DEF RefillBucket, TypeOK
    <2>4. call' \in [Callers -> Call]
        BY <1>3 DEF TypeOK, Call
    <2> QED
        BY <1>3, <2>3, <2>4 DEF TypeOK, clocks
<1>4. ASSUME NEW t \in Callers, Exhaust(t) PROVE TypeOK'
    BY <1>3, <1>4 DEF Exhaust, Reading
<1>5. ASSUME NEW t \in Callers, Refuse(t) PROVE TypeOK'
    <2>1. call' \in [Callers -> Call]
        BY <1>5 DEF Refuse, TypeOK, Call
    <2> QED
        BY <1>5, <2>1 DEF Refuse, TypeOK, clocks
<1>6. ASSUME NEW t \in Callers, Probe(t) PROVE TypeOK'
    <2>1. call' \in [Callers -> Call]
        BY <1>6 DEF Probe, TypeOK, Call
    <2>2. CASE UNCHANGED <<bucket, regress>>
        BY <1>6, <2>1, <2>2 DEF Probe, TypeOK, clocks
    <2>3. CASE RefillBucket(t)
        BY <1>3, <1>6, <2>3 DEF Probe, Reading
    <2> QED
        BY <1>6, <2>2, <2>3 DEF Probe
<1>7. ASSUME NEW t \in Callers, Flush(t) PROVE TypeOK'
    <2>1. Saving(bucket) \in Call
        BY DEF Saving, Call, TypeOK
    <2>2. call' \in [Callers -> Call] /\ calls' \in Nat
        BY <1>7, <2>1 DEF Flush, Enter, TypeOK
    <2>3. overlap' \in BOOLEAN
        BY <1>7, Zenon DEF Flush, Enter, TypeOK
    <2> QED
        BY <1>7, <2>2, <2>3 DEF Flush, TypeOK, clocks
<1>8. ASSUME NEW t \in Callers, Save(t) PROVE TypeOK'
    <2>1. disk' \in Bucket
        BY <1>8, CallFacts DEF Save, OnSave
    <2>2. call' \in [Callers -> Call]
        BY <1>8 DEF Save, TypeOK, Call
    <2> QED
        BY <1>8, <2>1, <2>2 DEF Save, TypeOK, clocks
<1>9. ASSUME NEW t \in Callers, SaveFails(t) PROVE TypeOK'
    <2>1. call' \in [Callers -> Call]
        BY <1>9 DEF SaveFails, TypeOK, Call
    <2>2. excused' \in Nat
        BY <1>9, BudgetAssumption DEF SaveFails, TypeOK
    <2> QED
        BY <1>9, <2>1, <2>2 DEF SaveFails, TypeOK, clocks
<1>10. ASSUME Restart PROVE TypeOK'
    <2>1. PICK ms \in {wall, Never} :
              /\ bucket' = Refill(Restored(ms), ms)
              /\ regress' = regress + SetBack(Restored(ms), ms)
        BY <1>10 DEF Restart
    <2>2. ms \in Nat \cup {Never}
        BY DEF TypeOK
    <2>3. Restored(ms) \in Bucket
        BY <2>2, FullFacts DEF Restored, TypeOK
    <2>9. Refill(Restored(ms), ms) \in Bucket /\ SetBack(Restored(ms), ms) \in Nat
        BY <2>2, <2>3, RefillFacts
    <2>4. bucket' \in Bucket /\ regress' \in Nat
        BY <2>1, <2>9 DEF TypeOK
    <2>5. call' \in [Callers -> Call]
        BY <1>10 DEF Restart, Call
    <2>6. inFlight' \in [Fingerprints -> [at : Nat \cup {Never}, seen : SUBSET Channels]]
        BY <1>10 DEF Restart, NothingSeen, Unseen
    <2>7. when' \in [Fingerprints -> [Channels -> Nat \cup {Never}]]
        BY <1>10 DEF Restart, NoneGranted
    <2>8. excused' \in Nat
        BY <1>10, BudgetAssumption DEF Restart, TypeOK
    <2> QED
        BY <1>10, <2>4, <2>5, <2>6, <2>7, <2>8 DEF Restart, TypeOK, clocks
<1>11. ASSUME Tick PROVE TypeOK'
    BY <1>11 DEF Tick, TypeOK
<1>12. ASSUME StepWall PROVE TypeOK'
    <2>1. wall' \in Nat
        BY <1>12, BudgetAssumption DEF StepWall
    <2>2. stepped' \in BOOLEAN
        BY <1>12, Zenon DEF StepWall
    <2> QED
        BY <1>12, <2>1, <2>2 DEF StepWall, TypeOK
<1>13. ASSUME UNCHANGED vars PROVE TypeOK'
    BY <1>13 DEF vars, TypeOK
<1> QED
    BY <1>1, <1>2, <1>4, <1>5, <1>6, <1>7, <1>8, <1>9, <1>10, <1>11, <1>12,
       <1>13 DEF Next

(* Types of the dispatcher: the bucket holds between nothing and an hour's *)
(* tokens, in memory, on its way to the file and in the file.              *)
THEOREM TypeCorrect == Spec => []TypeOK
<1>1. Init => TypeOK
    BY InitTypeOK
<1>2. TypeOK /\ [Next]_vars => TypeOK'
    BY TypeOKStep
<1> QED
    BY <1>1, <1>2, PTL DEF Spec

-----------------------------------------------------------------------------
(* The inductive invariant *)

\* A first start without a quota file satisfies the invariant.
LEMMA InitIInv == Init => IInv
<1> SUFFICES ASSUME Init PROVE IInv
    OBVIOUS
<1>1. TypeOK
    BY InitTypeOK
<1>2. \A t \in Callers : ~Busy(t) /\ ~Reading(t) /\ ~OnSave(t)
    BY DEF Init, Busy, Reading, OnSave, Idle
<1>3. /\ bucket.spent = 0 /\ bucket.avail = Hour
      /\ bucket.last = Start \/ bucket.last = Never
    BY DEF Init, Full
<1>4. disk.spent = 0 /\ disk.avail = Never /\ disk.last = Never
    BY DEF Init, NoFile
<1>5. Lone /\ Readings
    BY <1>2, BudgetAssumption DEF Lone, Readings, Init
<1>6. Ledgers
    BY <1>2, <1>3, <1>4, BudgetAssumption DEF Ledgers, Ledger, Stamp, Never, Init
<1>7. Clocks
    BY <1>2, <1>3, <1>4, BudgetAssumption DEF Clocks, Never, Init
<1>8. Accounts
    BY <1>2, <1>3, <1>4, BudgetAssumption DEF Accounts, Init
<1> QED
    BY <1>1, <1>5, <1>6, <1>7, <1>8 DEF IInv

(* An entering call: alone, or overlap is noted. *)
LEMMA EnterLone ==
    ASSUME TypeOK, Lone, NEW t \in Callers, NEW k, Enter(t, k), k \in Call
    PROVE  /\ Lone'
           /\ ~overlap' => \A u \in Callers \ {t} : ~Busy(u)
           /\ ~overlap' => ~overlap
BY DEF Enter, Lone, Busy, TypeOK

(* A call that goes on or ends adds no busy caller. *)
LEMMA StepLone ==
    ASSUME TypeOK, Lone, NEW t \in Callers, Busy(t), NEW k,
           call' = [call EXCEPT ![t] = k], overlap' = overlap
    PROVE  /\ Lone'
           /\ ~overlap => \A u \in Callers \ {t} : ~Busy(u)
BY DEF Lone, Busy, TypeOK

(* The numbers of a bucket. *)
LEMMA BucketNumbers ==
    ASSUME NEW b \in Bucket \cup {NoFile}
    PROVE  b.spent \in Nat /\ b.avail \in Int /\ b.last \in Int /\ Stamp(b) \in Int
BY BudgetAssumption DEF Bucket, NoFile, Never, Stamp

\* A call that reads the clocks: its reading is the wall clock, at or after
\* the bucket's stamp.
LEMMA ReadClocksStep ==
    ASSUME IInv, TypeOK', NEW t \in Callers, ReadClocks(t)
    PROVE  IInv'
<1> USE DEF IInv
<1>1. PICK f \in Fingerprints, ms \in {wall, Never} :
          \/ \E c \in Channels : Enter(t, Dispatching(f, c, ms))
          \/ Enter(t, Probing(f, ms))
    BY DEF ReadClocks
<1>2. PICK k \in Call :
          /\ Enter(t, k)
          /\ k.step \in {"dispatch", "probe"}
          /\ k.ms = ms
    <2>1. \A c \in Channels :
              /\ Dispatching(f, c, ms) \in Call
              /\ Dispatching(f, c, ms).step = "dispatch"
              /\ Dispatching(f, c, ms).ms = ms
        BY DEF Call, Dispatching, TypeOK
    <2>2. /\ Probing(f, ms) \in Call
          /\ Probing(f, ms).step = "probe"
          /\ Probing(f, ms).ms = ms
        BY DEF Call, Probing, TypeOK
    <2> QED
        BY <1>1, <2>1, <2>2
<1>3. /\ Lone'
      /\ ~overlap' => ~overlap
    BY <1>2, EnterLone
<1>4. /\ call' = [call EXCEPT ![t] = k] /\ ~Busy(t)
      /\ UNCHANGED <<clocks, bucket, disk, granted, regress, excused>>
    BY <1>2 DEF Enter, ReadClocks
<1>5. /\ Reading(t)' /\ call'[t].ms = ms /\ ~OnSave(t)'
      /\ \A u \in Callers \ {t} :
            /\ Reading(u)' <=> Reading(u)
            /\ OnSave(u)' <=> OnSave(u)
            /\ call'[u] = call[u]
    BY <1>2, <1>4 DEF Reading, OnSave, TypeOK
<1>6. ~OnSave(t)
    BY <1>4 DEF Busy, OnSave
<1>7. Readings'
    BY <1>4, <1>5 DEF Readings, clocks
<1>8. Ledgers'
    BY <1>4, <1>5 DEF Ledgers, Ledger, Stamp
<1>9. Clocks'
    BY <1>3, <1>4, <1>5 DEF Clocks, clocks, TypeOK, Never
<1>10. Accounts'
    BY <1>3, <1>4, <1>5, <1>6 DEF Accounts
<1> QED
    BY <1>3, <1>7, <1>8, <1>9, <1>10

\* A grant: the bucket, the file and the clones keep their ledgers, and the
\* grant is missing from the file until its save.
LEMMA GrantStep ==
    ASSUME IInv, TypeOK', NEW t \in Callers, Grant(t)
    PROVE  IInv'
<1> USE DEF IInv
<1> DEFINE ms == call[t].ms
           b  == Refill(bucket, ms)
           new == Consumed(b)
<1>1. Reading(t) /\ Busy(t) /\ ~OnSave(t)
    BY DEF Grant, Reading, Busy, OnSave
<1>2. /\ bucket' = new
      /\ regress' = regress + SetBack(bucket, ms)
      /\ call' = [call EXCEPT ![t] = Saving(new)]
      /\ granted' = granted + Cost
      /\ UNCHANGED <<clocks, disk, excused, overlap>>
    BY DEF Grant
<1>3. ms \in Nat \cup {Never} /\ (ms = Never \/ ms >= Start)
    BY <1>1, CallFacts DEF Readings
<1>4. b \in Bucket /\ SetBack(bucket, ms) \in Nat
    BY <1>3, RefillFacts DEF TypeOK
<1>5. /\ new \in Bucket
      /\ new.spent = bucket.spent + Cost
      /\ new.spent + new.avail = b.spent + b.avail
      /\ new.last = IF ms = Never THEN bucket.last ELSE ms
    <2>1. bucket \in Bucket
        BY DEF TypeOK
    <2>2. b.spent = bucket.spent /\ b.last = IF ms = Never THEN bucket.last ELSE ms
        BY <1>3, <2>1, RefillFacts
    <2>3. b.avail >= Cost
        BY <1>4, AllowedMeansToken DEF Grant
    <2> QED
        BY <1>4, <2>2, <2>3, ConsumedFacts
<1>6. /\ Lone'
      /\ ~overlap => \A u \in Callers \ {t} : ~Busy(u)
    BY <1>1, <1>2, StepLone
<1>7. /\ ~Reading(t)' /\ OnSave(t)' /\ call'[t].clone = new
      /\ \A u \in Callers \ {t} :
            /\ Reading(u)' <=> Reading(u)
            /\ OnSave(u)' <=> OnSave(u)
            /\ call'[u] = call[u]
    BY <1>2 DEF Reading, OnSave, TypeOK, Saving
<1>8. Readings'
    BY <1>2, <1>7 DEF Readings, clocks
<1>9. Ledgers'
    <2>1. b.spent + b.avail <= Hour + (Stamp(b) - Start) + regress'
        BY <1>2, <1>3, RefillFacts DEF Ledgers, Ledger, TypeOK
    <2>2. Stamp(new) = Stamp(b)
        BY <1>4 DEF Consumed, Stamp
    <2>3. Ledger(bucket)'
        BY <1>2, <1>5, <2>1, <2>2 DEF Ledger, Stamp
    <2>4. ASSUME NEW d \in Bucket \cup {NoFile}, Ledger(d)
          PROVE  d.spent + d.avail <= Hour + (Stamp(d) - Start) + regress'
        BY <1>2, <1>4, <2>4, BucketNumbers, BudgetAssumption DEF Ledger, TypeOK
    <2>5. Ledger(disk)'
        BY <1>2, <2>4 DEF Ledgers, Ledger, Stamp, TypeOK
    <2>6. ASSUME NEW u \in Callers, OnSave(u)' PROVE Ledger(call[u].clone)'
        <3>1. CASE u = t
            BY <1>2, <1>7, <2>3, <3>1 DEF Ledger, Stamp
        <3>2. CASE u # t
            <4>1. OnSave(u) /\ call'[u] = call[u]
                BY <1>7, <2>6, <3>2
            <4>2. call[u].clone \in Bucket
                BY <4>1, CallFacts
            <4> QED
                BY <2>4, <4>1, <4>2 DEF Ledgers, Ledger, Stamp
        <3> QED
            BY <3>1, <3>2
    <2> QED
        BY <2>3, <2>5, <2>6 DEF Ledgers
<1>10. Clocks'
    <2> SUFFICES ASSUME ~overlap', ~stepped' PROVE Clocks'
        BY DEF Clocks
    <2>1. ~overlap /\ ~stepped
        BY <1>2 DEF clocks
    <2>2. /\ regress = 0 /\ bucket.last <= wall /\ disk.last <= wall
          /\ ms <= wall /\ (ms = Never \/ bucket.last <= ms)
        BY <1>1, <2>1 DEF Clocks
    <2>3. SetBack(bucket, ms) = 0
        BY <1>3, <2>2, BucketNumbers DEF SetBack, TypeOK, Never
    <2>4. \A u \in Callers \ {t} : ~Reading(u) /\ ~OnSave(u)
        BY <1>6, <2>1, CallFacts
    <2>5. new.last <= wall
        BY <1>5, <2>2
    <2> QED
        BY <1>2, <1>7, <2>2, <2>3, <2>4, <2>5 DEF Clocks, clocks
<1>11. Accounts'
    <2> SUFFICES ASSUME ~overlap' PROVE Accounts'
        BY DEF Accounts
    <2>1. ~overlap /\ \A u \in Callers \ {t} : ~OnSave(u)
        BY <1>2, <1>6, CallFacts
    <2>2. granted <= bucket.spent + excused /\ granted <= disk.spent + excused
        BY <1>1, <2>1 DEF Accounts
    <2>3. bucket.spent \in Nat /\ disk.spent \in Nat
        BY BucketNumbers DEF TypeOK
    <2> QED
        BY <1>2, <1>5, <1>7, <2>1, <2>2, <2>3, BudgetAssumption DEF Accounts, TypeOK
<1> QED
    BY <1>6, <1>8, <1>9, <1>10, <1>11

\* What Exhaust and the refilling half of Probe do.
LEMMA RefillStep ==
    ASSUME IInv, TypeOK', NEW t \in Callers, Reading(t), RefillBucket(t),
           call' = [call EXCEPT ![t] = Idle],
           UNCHANGED <<clocks, disk, granted, excused, overlap>>
    PROVE  IInv'
<1> USE DEF IInv
<1> DEFINE ms == call[t].ms
           b  == Refill(bucket, ms)
<1>1. Busy(t) /\ ~OnSave(t)
    BY DEF Reading, Busy, OnSave
<1>2. bucket' = b /\ regress' = regress + SetBack(bucket, ms)
    BY DEF RefillBucket
<1>3. ms \in Nat \cup {Never} /\ (ms = Never \/ ms >= Start)
    BY CallFacts DEF Readings
<1>4. bucket \in Bucket
    BY DEF TypeOK
<1>5. /\ b \in Bucket /\ SetBack(bucket, ms) \in Nat
      /\ b.spent = bucket.spent
      /\ b.last = IF ms = Never THEN bucket.last ELSE ms
    BY <1>3, <1>4, RefillFacts
<1>6. /\ Lone'
      /\ ~overlap => \A u \in Callers \ {t} : ~Busy(u)
    BY <1>1, StepLone
<1>7. /\ ~Reading(t)' /\ ~OnSave(t)'
      /\ \A u \in Callers \ {t} :
            /\ Reading(u)' <=> Reading(u)
            /\ OnSave(u)' <=> OnSave(u)
            /\ call'[u] = call[u]
    BY DEF Reading, OnSave, TypeOK, Idle
<1>8. Readings'
    BY <1>7 DEF Readings, clocks
<1>9. Ledgers'
    <2>1. b.spent + b.avail <= Hour + (Stamp(b) - Start) + regress'
        BY <1>2, <1>3, <1>4, RefillFacts DEF Ledgers, Ledger, TypeOK
    <2>2. Ledger(bucket)'
        BY <1>2, <2>1 DEF Ledger, Stamp
    <2>3. ASSUME NEW d \in Bucket \cup {NoFile}, Ledger(d)
          PROVE  d.spent + d.avail <= Hour + (Stamp(d) - Start) + regress'
        BY <1>2, <1>5, <2>3, BucketNumbers, BudgetAssumption DEF Ledger, TypeOK
    <2>4. Ledger(disk)'
        BY <2>3 DEF Ledgers, Ledger, Stamp, TypeOK
    <2>5. ASSUME NEW u \in Callers, OnSave(u)' PROVE Ledger(call[u].clone)'
        <3>1. OnSave(u) /\ call'[u] = call[u]
            BY <1>7, <2>5
        <3>2. call[u].clone \in Bucket
            BY <3>1, CallFacts
        <3> QED
            BY <2>3, <3>1, <3>2 DEF Ledgers, Ledger, Stamp
    <2> QED
        BY <2>2, <2>4, <2>5 DEF Ledgers
<1>10. Clocks'
    <2> SUFFICES ASSUME ~overlap', ~stepped' PROVE Clocks'
        BY DEF Clocks
    <2>1. ~overlap /\ ~stepped
        BY DEF clocks
    <2>2. /\ regress = 0 /\ bucket.last <= wall /\ disk.last <= wall
          /\ ms <= wall /\ (ms = Never \/ bucket.last <= ms)
        BY <2>1 DEF Clocks
    <2>3. SetBack(bucket, ms) = 0
        BY <1>3, <1>4, <2>2, BucketNumbers DEF SetBack, Never
    <2>4. \A u \in Callers \ {t} : ~Reading(u) /\ ~OnSave(u)
        BY <1>6, <2>1, CallFacts
    <2>5. b.last <= wall
        BY <1>5, <2>2
    <2> QED
        BY <1>2, <1>7, <2>2, <2>3, <2>4, <2>5 DEF Clocks, clocks
<1>11. Accounts'
    <2> SUFFICES ASSUME ~overlap' PROVE Accounts'
        BY DEF Accounts
    <2>1. ~overlap /\ \A u \in Callers \ {t} : ~OnSave(u)
        BY <1>6, CallFacts
    <2>2. granted <= bucket.spent + excused /\ granted <= disk.spent + excused
        BY <1>1, <2>1 DEF Accounts
    <2>3. disk.spent \in Nat
        BY BucketNumbers DEF TypeOK
    <2> QED
        BY <1>2, <1>5, <1>7, <2>1, <2>2, <2>3, BudgetAssumption DEF Accounts, TypeOK
<1> QED
    BY <1>6, <1>8, <1>9, <1>10, <1>11

\* A refused call, and a probe inside the window, only end.
LEMMA EndStep ==
    ASSUME IInv, TypeOK', NEW t \in Callers, Reading(t),
           call' = [call EXCEPT ![t] = Idle],
           UNCHANGED <<clocks, bucket, regress, disk, granted, excused, overlap>>
    PROVE  IInv'
<1> USE DEF IInv
<1>1. Busy(t) /\ ~OnSave(t)
    BY DEF Reading, Busy, OnSave
<1>2. Lone'
    BY <1>1, StepLone
<1>3. /\ ~Reading(t)' /\ ~OnSave(t)'
      /\ \A u \in Callers \ {t} :
            /\ Reading(u)' <=> Reading(u)
            /\ OnSave(u)' <=> OnSave(u)
            /\ call'[u] = call[u]
    BY DEF Reading, OnSave, TypeOK, Idle
<1>4. Readings'
    BY <1>3 DEF Readings, clocks
<1>5. Ledgers'
    BY <1>3 DEF Ledgers, Ledger, Stamp
<1>6. Clocks'
    BY <1>3 DEF Clocks, clocks
<1>7. Accounts'
    BY <1>1, <1>3 DEF Accounts
<1> QED
    BY <1>2, <1>4, <1>5, <1>6, <1>7

\* A flush clones a bucket that accounts for every grant.
LEMMA FlushStep ==
    ASSUME IInv, TypeOK', NEW t \in Callers, Flush(t)
    PROVE  IInv'
<1> USE DEF IInv
<1>1. Saving(bucket) \in Call
    BY DEF Saving, Call, TypeOK
<1>2. Lone' /\ (~overlap' => ~overlap)
    BY <1>1, EnterLone DEF Flush
<1>3. /\ call' = [call EXCEPT ![t] = Saving(bucket)] /\ ~Busy(t)
      /\ UNCHANGED <<clocks, bucket, disk, granted, regress, excused>>
    BY DEF Flush, Enter
<1>4. /\ ~Reading(t)' /\ OnSave(t)' /\ call'[t].clone = bucket
      /\ \A u \in Callers \ {t} :
            /\ Reading(u)' <=> Reading(u)
            /\ OnSave(u)' <=> OnSave(u)
            /\ call'[u] = call[u]
    BY <1>3 DEF Reading, OnSave, TypeOK, Saving
<1>5. Readings'
    BY <1>3, <1>4 DEF Readings, clocks
<1>6. Ledgers'
    BY <1>3, <1>4 DEF Ledgers, Ledger, Stamp
<1>7. Clocks'
    BY <1>2, <1>3, <1>4 DEF Clocks, clocks
<1>8. Accounts'
    BY <1>2, <1>3, <1>4 DEF Accounts
<1> QED
    BY <1>2, <1>5, <1>6, <1>7, <1>8

\* A save puts the only clone there is into the file.
LEMMA SaveStep ==
    ASSUME IInv, TypeOK', NEW t \in Callers, Save(t)
    PROVE  IInv'
<1> USE DEF IInv
<1>1. OnSave(t) /\ Busy(t) /\ ~Reading(t)
    BY DEF Save, OnSave, Busy, Reading
<1>2. /\ disk' = call[t].clone
      /\ call' = [call EXCEPT ![t] = Idle]
      /\ UNCHANGED <<clocks, bucket, granted, regress, excused, overlap>>
    BY DEF Save
<1>3. /\ Lone'
      /\ ~overlap => \A u \in Callers \ {t} : ~Busy(u)
    BY <1>1, <1>2, StepLone
<1>4. /\ ~Reading(t)' /\ ~OnSave(t)'
      /\ \A u \in Callers \ {t} :
            /\ Reading(u)' <=> Reading(u)
            /\ OnSave(u)' <=> OnSave(u)
            /\ call'[u] = call[u]
    BY <1>2 DEF Reading, OnSave, TypeOK, Idle
<1>5. Readings'
    BY <1>2, <1>4 DEF Readings, clocks
<1>6. Ledgers'
    BY <1>1, <1>2, <1>4 DEF Ledgers, Ledger, Stamp
<1>7. Clocks'
    BY <1>1, <1>2, <1>4 DEF Clocks, clocks
<1>8. Accounts'
    <2> SUFFICES ASSUME ~overlap' PROVE Accounts'
        BY DEF Accounts
    <2>1. ~overlap /\ \A u \in Callers \ {t} : ~OnSave(u)
        BY <1>2, <1>3, CallFacts
    <2>2. granted <= call[t].clone.spent + excused /\ granted <= bucket.spent + excused
        BY <1>1, <2>1 DEF Accounts
    <2>3. call[t].clone.spent \in Nat
        BY <1>1, CallFacts, BucketNumbers
    <2> QED
        BY <1>2, <1>4, <2>1, <2>2, <2>3, BudgetAssumption DEF Accounts, TypeOK
<1> QED
    BY <1>3, <1>5, <1>6, <1>7, <1>8

\* A failed save is excused by a token.
LEMMA SaveFailsStep ==
    ASSUME IInv, TypeOK', NEW t \in Callers, SaveFails(t)
    PROVE  IInv'
<1> USE DEF IInv
<1>1. OnSave(t) /\ Busy(t) /\ ~Reading(t)
    BY DEF SaveFails, OnSave, Busy, Reading
<1>2. /\ call' = [call EXCEPT ![t] = Idle] /\ excused' = excused + Cost
      /\ UNCHANGED <<clocks, bucket, disk, granted, regress, overlap>>
    BY DEF SaveFails
<1>3. /\ Lone'
      /\ ~overlap => \A u \in Callers \ {t} : ~Busy(u)
    BY <1>1, <1>2, StepLone
<1>4. /\ ~Reading(t)' /\ ~OnSave(t)'
      /\ \A u \in Callers \ {t} :
            /\ Reading(u)' <=> Reading(u)
            /\ OnSave(u)' <=> OnSave(u)
            /\ call'[u] = call[u]
    BY <1>2 DEF Reading, OnSave, TypeOK, Idle
<1>5. Readings'
    BY <1>2, <1>4 DEF Readings, clocks
<1>6. Ledgers'
    BY <1>1, <1>2, <1>4 DEF Ledgers, Ledger, Stamp
<1>7. Clocks'
    BY <1>1, <1>2, <1>4 DEF Clocks, clocks
<1>8. Accounts'
    <2> SUFFICES ASSUME ~overlap' PROVE Accounts'
        BY DEF Accounts
    <2>1. ~overlap /\ \A u \in Callers \ {t} : ~OnSave(u)
        BY <1>2, <1>3, CallFacts
    <2>2. /\ granted <= bucket.spent + excused
          /\ granted <= disk.spent + excused + Cost
        BY <2>1 DEF Accounts
    <2>3. bucket.spent \in Nat /\ disk.spent \in Nat
        BY BucketNumbers DEF TypeOK
    <2> QED
        BY <1>2, <1>4, <2>1, <2>2, <2>3, BudgetAssumption DEF Accounts, TypeOK
<1> QED
    BY <1>3, <1>5, <1>6, <1>7, <1>8

\* A restart turns the file into the bucket; the one grant that can be missing
\* from it is excused by a token.
LEMMA RestartStep ==
    ASSUME IInv, TypeOK', Restart
    PROVE  IInv'
<1> USE DEF IInv
<1>1. PICK ms \in {wall, Never} :
          /\ bucket' = Refill(Restored(ms), ms)
          /\ regress' = regress + SetBack(Restored(ms), ms)
    BY DEF Restart
<1> DEFINE old == Restored(ms)
           b   == Refill(old, ms)
<1>2. ms \in Nat \cup {Never} /\ (ms = Never \/ ms >= Start)
    BY DEF TypeOK, Readings
<1>3. /\ old \in Bucket
      /\ old.spent = disk.spent
      /\ old.last = disk.last \/ old.last = ms
      /\ Ledger(old)
    <2>1. CASE disk = NoFile
        <3>1. old = Full(ms)
            BY <2>1 DEF Restored
        <3>2. old \in Bucket /\ old.spent = 0 /\ old.avail = Hour /\ old.last = ms
            BY <1>2, <3>1, FullFacts
        <3>3. disk.spent = 0
            BY <2>1 DEF NoFile
        <3>4. Ledger(old)
            BY <1>2, <3>2, BudgetAssumption DEF Ledger, Stamp, TypeOK, Never
        <3> QED
            BY <3>2, <3>3, <3>4
    <2>2. CASE disk # NoFile
        BY <2>2 DEF Restored, TypeOK, Ledgers
    <2> QED
        BY <2>1, <2>2
<1>4. /\ b \in Bucket /\ SetBack(old, ms) \in Nat
      /\ b.spent = old.spent
      /\ b.last = IF ms = Never THEN old.last ELSE ms
    BY <1>2, <1>3, RefillFacts
<1>5. /\ call' = [u \in Callers |-> Idle] /\ excused' = excused + Cost
      /\ UNCHANGED <<clocks, disk, granted, overlap>>
    BY DEF Restart
<1>6. \A u \in Callers : ~Busy(u)' /\ ~Reading(u)' /\ ~OnSave(u)'
    BY <1>5 DEF Busy, Reading, OnSave, Idle
<1>7. Lone' /\ Readings'
    BY <1>5, <1>6 DEF Lone, Readings, clocks
<1>8. Ledgers'
    <2>1. b.spent + b.avail <= Hour + (Stamp(b) - Start) + regress'
        BY <1>1, <1>2, <1>3, RefillFacts DEF Ledger, TypeOK
    <2>2. Ledger(bucket)'
        BY <1>1, <2>1 DEF Ledger, Stamp
    <2>3. disk.spent + disk.avail <= Hour + (Stamp(disk) - Start) + regress'
        BY <1>1, <1>4, BucketNumbers, BudgetAssumption DEF Ledgers, Ledger, TypeOK
    <2>4. Ledger(disk)'
        BY <1>5, <2>3 DEF Ledger, Stamp
    <2> QED
        BY <1>6, <2>2, <2>4 DEF Ledgers
<1>9. Clocks'
    <2> SUFFICES ASSUME ~overlap', ~stepped' PROVE Clocks'
        BY DEF Clocks
    <2>1. regress = 0 /\ disk.last <= wall
        BY <1>5 DEF Clocks, clocks
    <2>2. ms <= wall
        BY <1>2, BudgetAssumption DEF TypeOK, Never
    <2>3. old.last <= wall /\ (ms = Never \/ old.last <= ms)
        BY <1>2, <1>3, <2>1, <2>2, BucketNumbers DEF TypeOK, Never
    <2>4. SetBack(old, ms) = 0
        BY <1>2, <1>3, <2>3, BucketNumbers DEF SetBack, Never
    <2>5. b.last <= wall
        BY <1>4, <2>2, <2>3
    <2> QED
        BY <1>1, <1>5, <1>6, <2>1, <2>4, <2>5 DEF Clocks, clocks
<1>10. Accounts'
    <2> SUFFICES ASSUME ~overlap' PROVE Accounts'
        BY DEF Accounts
    <2>1. granted <= disk.spent + excused + Cost
        BY <1>5 DEF Accounts
    <2>2. disk.spent \in Nat
        BY BucketNumbers DEF TypeOK
    <2> QED
        BY <1>1, <1>3, <1>4, <1>5, <1>6, <2>1, <2>2, BudgetAssumption
           DEF Accounts, TypeOK
<1> QED
    BY <1>7, <1>8, <1>9, <1>10

\* Time passing, and setting the wall clock.
LEMMA ClockStep ==
    ASSUME IInv, TypeOK', Tick \/ StepWall
    PROVE  IInv'
<1> USE DEF IInv
<1>1. UNCHANGED <<bucket, call, disk, granted, regress, excused, overlap>>
    BY DEF Tick, StepWall
<1>2. wall' >= Start /\ (~stepped' => ~stepped /\ wall' = wall + 1)
    BY BudgetAssumption DEF Tick, StepWall, Readings, TypeOK
<1>3. Lone'
    BY <1>1 DEF Lone, Busy
<1>4. Readings'
    BY <1>1, <1>2 DEF Readings, Reading
<1>5. Ledgers'
    BY <1>1 DEF Ledgers, Ledger, Stamp, OnSave
<1>6. Accounts'
    BY <1>1 DEF Accounts, OnSave
<1>7. Clocks'
    <2> SUFFICES ASSUME ~overlap', ~stepped' PROVE Clocks'
        BY DEF Clocks
    <2>1. ~overlap /\ ~stepped /\ wall' = wall + 1
        BY <1>1, <1>2
    <2>2. /\ regress = 0 /\ bucket.last <= wall /\ disk.last <= wall
          /\ \A t \in Callers :
                /\ Reading(t) => /\ call[t].ms <= wall
                                 /\ call[t].ms = Never \/ bucket.last <= call[t].ms
                /\ OnSave(t) => call[t].clone.last <= wall
        BY <2>1 DEF Clocks
    <2>3. bucket.last <= wall + 1 /\ disk.last <= wall + 1
        BY <2>2, BucketNumbers DEF TypeOK
    <2>4. ASSUME NEW t \in Callers, Reading(t)
          PROVE  call[t].ms <= wall + 1
        BY <2>2, <2>4, CallFacts DEF TypeOK, Never
    <2>5. ASSUME NEW t \in Callers, OnSave(t)
          PROVE  call[t].clone.last <= wall + 1
        BY <2>2, <2>5, CallFacts, BucketNumbers DEF TypeOK
    <2> QED
        BY <1>1, <2>1, <2>2, <2>3, <2>4, <2>5 DEF Clocks, Reading, OnSave
<1> QED
    BY <1>3, <1>4, <1>5, <1>6, <1>7

\* Every step keeps the invariant.
LEMMA IInvStep == IInv /\ [Next]_vars => IInv'
<1> SUFFICES ASSUME IInv, [Next]_vars PROVE IInv'
    OBVIOUS
<1>1. TypeOK'
    BY TypeOKStep DEF IInv
<1>2. ASSUME NEW t \in Callers, ReadClocks(t) PROVE IInv'
    BY <1>1, <1>2, ReadClocksStep
<1>3. ASSUME NEW t \in Callers, Grant(t) PROVE IInv'
    BY <1>1, <1>3, GrantStep
<1>4. ASSUME NEW t \in Callers, Exhaust(t) PROVE IInv'
    BY <1>1, <1>4, RefillStep DEF Exhaust, Reading
<1>5. ASSUME NEW t \in Callers, Refuse(t) PROVE IInv'
    BY <1>1, <1>5, EndStep DEF Refuse, Reading
<1>6. ASSUME NEW t \in Callers, Probe(t) PROVE IInv'
    BY <1>1, <1>6, RefillStep, EndStep DEF Probe, Reading
<1>7. ASSUME NEW t \in Callers, Flush(t) PROVE IInv'
    BY <1>1, <1>7, FlushStep
<1>8. ASSUME NEW t \in Callers, Save(t) PROVE IInv'
    BY <1>1, <1>8, SaveStep
<1>9. ASSUME NEW t \in Callers, SaveFails(t) PROVE IInv'
    BY <1>1, <1>9, SaveFailsStep
<1>10. ASSUME Restart PROVE IInv'
    BY <1>1, <1>10, RestartStep
<1>11. ASSUME Tick \/ StepWall PROVE IInv'
    BY <1>1, <1>11, ClockStep
<1>12. ASSUME UNCHANGED vars PROVE IInv'
    BY <1>12 DEF vars, IInv, TypeOK, Lone, Busy, Readings, Reading, Ledgers, Ledger,
                 Stamp, OnSave, Clocks, Accounts
<1> QED
    BY <1>2, <1>3, <1>4, <1>5, <1>6, <1>7, <1>8, <1>9, <1>10, <1>11, <1>12 DEF Next

\* The inductive invariant holds in every reachable state.
THEOREM InvariantHolds == Spec => []IInv
<1>1. Init => IInv
    BY InitIInv
<1>2. IInv /\ [Next]_vars => IInv'
    BY IInvStep
<1> QED
    BY <1>1, <1>2, PTL DEF Spec

-----------------------------------------------------------------------------
(* The ledger of the bucket behind the mutex, through overlapping calls,   *)
(* crashes, failed saves and a clock that is set.                          *)
THEOREM LedgerAlwaysHolds == Spec => []LedgerHolds
<1>1. IInv => LedgerHolds
    BY DEF IInv, Ledgers, Ledger, LedgerHolds
<1> QED
    BY <1>1, InvariantHolds, PTL

(* The stamp is set back only by overlapping calls or a clock that is set. *)
THEOREM RegressHasCause == Spec => []RegressNeedsCause
<1>1. IInv => RegressNeedsCause
    BY DEF IInv, Clocks, RegressNeedsCause, TypeOK
<1> QED
    BY <1>1, InvariantHolds, PTL

(* Without overlap and with an unset clock the grants of all processes     *)
(* stay within a full bucket, the time since the first start, and a token  *)
(* for each crash or failed save.                                          *)
THEOREM BudgetAlwaysKept == Spec => []BudgetKept
<1>1. ASSUME IInv, ~overlap, ~stepped
      PROVE  granted <= Hour + (wall - Start) + excused
    <2>1. bucket.spent + bucket.avail <= Hour + (Stamp(bucket) - Start)
        BY <1>1, BudgetAssumption, BucketNumbers
           DEF IInv, Ledgers, Ledger, Clocks, TypeOK
    <2>2. Stamp(bucket) <= wall
        BY <1>1 DEF IInv, Clocks, Stamp, Readings
    <2>3. bucket.avail >= 0
        BY <1>1, BudgetAssumption DEF IInv, TypeOK, Bucket
    <2>4. granted <= bucket.spent + excused
        BY <1>1 DEF IInv, Accounts
    <2> QED
        BY <1>1, <2>1, <2>2, <2>3, <2>4, BudgetAssumption, BucketNumbers
           DEF IInv, TypeOK
<1>2. IInv => BudgetKept
    BY <1>1 DEF BudgetKept
<1> QED
    BY <1>2, InvariantHolds, PTL

-----------------------------------------------------------------------------
(* The rolling limit *)

(* A refill adds at most the time by which it moves the stamp, set back or *)
(* not.                                                                    *)
LEMMA RefillPays ==
    ASSUME NEW b \in Bucket, NEW ms \in Nat \cup {Never}, ms = Never \/ ms >= Start
    PROVE  /\ Refill(b, ms).avail
                 <= b.avail + (Stamp(Refill(b, ms)) - Stamp(b)) + SetBack(b, ms)
           /\ Refill(b, ms).avail \in Int /\ Stamp(Refill(b, ms)) \in Int
           /\ b.avail \in Int /\ Stamp(b) \in Int /\ SetBack(b, ms) \in Int
<1>1. /\ b.avail \in 0..Hour /\ b.last \in Nat \cup {Never} /\ b.spent \in Nat
      /\ Hour \in Nat /\ Start \in Nat
    BY BudgetAssumption DEF Bucket
<1>2. CASE ms = Never
    BY <1>1, <1>2 DEF Refill, SetBack, Stamp, Never
<1>3. CASE ms # Never
    <2>1. /\ Refill(b, ms).avail = Capped(b.avail + Elapsed(b, ms))
          /\ Refill(b, ms).last = ms
        BY <1>3 DEF Refill, Bucket
    <2>2. Elapsed(b, ms) \in Nat /\ Capped(b.avail + Elapsed(b, ms)) \in Nat
          /\ Capped(b.avail + Elapsed(b, ms)) <= b.avail + Elapsed(b, ms)
        BY <1>1, <1>3 DEF Elapsed, Capped, Never
    <2>3. Elapsed(b, ms) <= (ms - Stamp(b)) + SetBack(b, ms)
        BY <1>1, <1>3 DEF Elapsed, Stamp, SetBack, Never
    <2>4. Stamp(Refill(b, ms)) = ms /\ SetBack(b, ms) \in Nat /\ Stamp(b) \in Nat
        BY <1>1, <1>3, <2>1 DEF Stamp, SetBack, Never
    <2> QED
        BY <1>1, <1>3, <2>1, <2>2, <2>3, <2>4
<1> QED
    BY <1>2, <1>3

(* The token bucket limits every stretch of a process, not only the time   *)
(* since its first start: overlapping calls, stale readings and a wall     *)
(* clock that is set pay with the time they set last_refill_ms back.       *)
THEOREM TheLimitRolls == Spec => LimitRolls
<1>1. ASSUME IInv, [Next]_vars, ~Restart
      PROVE  (granted' - granted) + bucket'.avail
                <= bucket.avail + (Stamp(bucket') - Stamp(bucket)) + (regress' - regress)
    <2>1. /\ TypeOK /\ bucket \in Bucket /\ granted \in Nat /\ regress \in Nat
          /\ bucket.avail \in Int /\ Stamp(bucket) \in Int /\ Cost \in Nat
        BY <1>1, BudgetAssumption, BucketNumbers DEF IInv, TypeOK
    <2>2. ASSUME NEW t \in Callers, RefillBucket(t), Reading(t), granted' = granted
          PROVE  (granted' - granted) + bucket'.avail
                    <= bucket.avail + (Stamp(bucket') - Stamp(bucket)) + (regress' - regress)
        <3>1. /\ call[t].ms \in Nat \cup {Never}
              /\ call[t].ms = Never \/ call[t].ms >= Start
            BY <1>1, <2>1, <2>2, CallFacts DEF IInv, Readings
        <3> QED
            BY <2>1, <2>2, <3>1, RefillPays DEF RefillBucket
    <2>3. ASSUME NEW t \in Callers, Grant(t)
          PROVE  (granted' - granted) + bucket'.avail
                    <= bucket.avail + (Stamp(bucket') - Stamp(bucket)) + (regress' - regress)
        <3> DEFINE b == Refill(bucket, call[t].ms)
        <3>1. /\ call[t].ms \in Nat \cup {Never}
              /\ call[t].ms = Never \/ call[t].ms >= Start
            BY <1>1, <2>1, <2>3, CallFacts DEF IInv, Readings, Grant, Reading
        <3>2. /\ bucket' = Consumed(b) /\ granted' = granted + Cost
              /\ regress' = regress + SetBack(bucket, call[t].ms)
            BY <2>3 DEF Grant
        <3>3. Stamp(Consumed(b)) = Stamp(b) /\ Consumed(b).avail = b.avail - Cost
            BY DEF Consumed, Stamp
        <3>4. /\ b.avail <= bucket.avail + (Stamp(b) - Stamp(bucket))
                               + SetBack(bucket, call[t].ms)
              /\ b.avail \in Int /\ Stamp(b) \in Int /\ SetBack(bucket, call[t].ms) \in Int
            BY <2>1, <3>1, RefillPays
        <3> HIDE DEF b
        <3> QED
            BY <2>1, <3>2, <3>3, <3>4
    <2>4. ASSUME UNCHANGED <<bucket, granted, regress>>
          PROVE  (granted' - granted) + bucket'.avail
                    <= bucket.avail + (Stamp(bucket') - Stamp(bucket)) + (regress' - regress)
        BY <2>1, <2>4
    <2>5. ASSUME NEW t \in Callers, Exhaust(t)
          PROVE  RefillBucket(t) /\ Reading(t) /\ granted' = granted
        BY <2>5 DEF Exhaust, Reading
    <2>6. ASSUME NEW t \in Callers, Probe(t)
          PROVE  \/ UNCHANGED <<bucket, granted, regress>>
                 \/ RefillBucket(t) /\ Reading(t) /\ granted' = granted
        BY <2>6 DEF Probe, Reading
    <2>7. ASSUME NEW t \in Callers,
                 ReadClocks(t) \/ Refuse(t) \/ Flush(t) \/ Save(t) \/ SaveFails(t)
          PROVE  UNCHANGED <<bucket, granted, regress>>
        BY <2>7 DEF ReadClocks, Refuse, Flush, Save, SaveFails
    <2>8. ASSUME Tick \/ StepWall \/ UNCHANGED vars
          PROVE  UNCHANGED <<bucket, granted, regress>>
        BY <2>8 DEF Tick, StepWall, vars
    <2> QED
        BY <1>1, <2>2, <2>3, <2>4, <2>5, <2>6, <2>7, <2>8 DEF Next
<1>2. IInv /\ [Next]_vars =>
        [~Restart =>
            (granted' - granted) + bucket'.avail
                <= bucket.avail + (Stamp(bucket') - Stamp(bucket)) + (regress' - regress)]_vars
    BY <1>1
<1> QED
    BY <1>2, InvariantHolds, PTL DEF Spec, LimitRolls

-----------------------------------------------------------------------------
(* A yes of should_query *)

(* A refill from any reading, or none, never leaves less at a later time   *)
(* than there would have been without it.                                  *)
LEMMA RefillKeeps ==
    ASSUME NEW b \in Bucket, NEW ms \in Nat \cup {Never},
           NEW now \in Nat, NEW later \in Nat, now <= later
    PROVE  /\ Refill(b, now).avail <= Refill(b, later).avail
           /\ Refill(b, now).avail <= Refill(Refill(b, ms), later).avail
<1> DEFINE After(c, time) == Capped(c.avail + Elapsed(c, time))
<1>1. /\ b.avail \in 0..Hour /\ b.last \in Nat \cup {Never} /\ Hour \in Nat
    BY BudgetAssumption DEF Bucket
<1>2. Refill(b, now).avail = After(b, now) /\ Refill(b, later).avail = After(b, later)
    BY DEF Refill, Bucket, Never
<1>3. After(b, now) <= After(b, later)
    BY <1>1 DEF Capped, Elapsed, Never
<1>4. CASE ms = Never
    BY <1>2, <1>3, <1>4 DEF Refill
<1>5. CASE ms # Never
    <2>1. Refill(b, ms) = [avail |-> After(b, ms), last |-> ms, spent |-> b.spent]
        BY <1>5 DEF Refill, Bucket
    <2> DEFINE c == [avail |-> After(b, ms), last |-> ms, spent |-> b.spent]
    <2>2. Refill(c, later).avail = After(c, later)
        BY DEF Refill, Never
    <2>3. After(b, now) <= After(c, later)
        BY <1>1, <1>5 DEF Capped, Elapsed, Never
    <2> QED
        BY <1>2, <1>3, <2>1, <2>2, <2>3
<1> QED
    BY <1>4, <1>5

(* Within a process, until the next grant, what should_query said yes to   *)
(* would be allowed for every channel: refills from older readings of the  *)
(* clock take nothing away, and windows only close.                        *)
THEOREM YesAlwaysLasts == Spec => YesLasts
<1>1. ASSUME TypeOK, TypeOK', [Next]_vars, NEW f \in Fingerprints,
             ShouldQuery(f, mono, Refill(bucket, wall)), granted' = granted,
             wall' >= wall, ~Restart, NEW c \in Channels
      PROVE  Verdict(f, c, mono, Refill(bucket, wall))' = "Allowed"
    <2>1. /\ mono' >= mono /\ inFlight' = inFlight
          /\ \/ bucket' = bucket
             \/ \E ms \in Nat \cup {Never} : bucket' = Refill(bucket, ms)
        <3>1. \A t \in Callers : ~Grant(t)
            BY <1>1, BudgetAssumption DEF Grant, TypeOK
        <3>2. mono \in Nat
            BY <1>1 DEF TypeOK
        <3>3. ASSUME NEW t \in Callers, Exhaust(t) \/ Probe(t)
              PROVE  /\ mono' = mono /\ inFlight' = inFlight
                     /\ \/ bucket' = bucket
                        \/ \E ms \in Nat \cup {Never} : bucket' = Refill(bucket, ms)
            <4>1. call[t].ms \in Nat \cup {Never}
                BY <1>1, <3>3, CallFacts DEF Exhaust, Probe, Reading
            <4> QED
                BY <3>3, <4>1 DEF Exhaust, Probe, RefillBucket, clocks
        <3>4. ASSUME NEW t \in Callers,
                     \/ ReadClocks(t) \/ Refuse(t) \/ Flush(t) \/ Save(t)
                     \/ SaveFails(t)
              PROVE  UNCHANGED <<mono, inFlight, bucket>>
            BY <3>4 DEF ReadClocks, Refuse, Flush, Save, SaveFails, clocks
        <3>5. CASE Tick \/ StepWall
            BY <3>2, <3>5 DEF Tick, StepWall
        <3>6. CASE UNCHANGED vars
            BY <3>2, <3>6 DEF vars
        <3> QED
            BY <1>1, <3>1, <3>2, <3>3, <3>4, <3>5, <3>6 DEF Next
    <2>2. ~InWindow(f, mono)'
        <3>1. /\ inFlight[f].at \in Nat \cup {Never} /\ mono \in Nat /\ mono' \in Nat
              /\ TTL \in Nat
            BY <1>1, BudgetAssumption DEF TypeOK
        <3> QED
            BY <1>1, <2>1, <3>1 DEF ShouldQuery, InWindow, Never
    <2>3. /\ bucket \in Bucket /\ wall \in Nat /\ wall' \in Nat
          /\ Refill(bucket, wall).avail >= Cost
        BY <1>1 DEF TypeOK, ShouldQuery
    <2>4. Refill(bucket, wall)'.avail >= Cost
        <3>1. Refill(bucket, wall).avail <= Refill(bucket', wall').avail
            BY <1>1, <2>1, <2>3, RefillKeeps
        <3>2. Refill(bucket, wall) \in Bucket /\ Refill(bucket', wall') \in Bucket
            BY <1>1, <2>3, RefillFacts DEF TypeOK
        <3>3. /\ Refill(bucket, wall).avail \in Int /\ Refill(bucket', wall').avail \in Int
              /\ Cost \in Int
            BY <3>2, BudgetAssumption DEF Bucket
        <3> QED
            BY <2>3, <3>1, <3>3
    <2>5. Refill(bucket, wall)'.avail \in Int /\ Cost \in Int
        <3>1. Refill(bucket', wall') \in Bucket
            BY <1>1, <2>3, RefillFacts DEF TypeOK
        <3> QED
            BY <3>1, BudgetAssumption DEF Bucket
    <2> QED
        BY <2>2, <2>4, <2>5 DEF Verdict
<1>2. TypeOK /\ TypeOK' /\ [Next]_vars =>
        [\A f \in Fingerprints :
            (ShouldQuery(f, mono, Refill(bucket, wall)) /\ granted' = granted
                /\ wall' >= wall /\ ~Restart)
             => \A c \in Channels :
                    Verdict(f, c, mono, Refill(bucket, wall))' = "Allowed"]_vars
    BY <1>1
<1> QED
    BY <1>2, TypeCorrect, PTL DEF Spec, YesLasts

-----------------------------------------------------------------------------
(* Grants are news *)

(* in_flight knows every grant of this process; without overlap its time   *)
(* is not before that of any of them, nor after a call's reading.          *)
News ==
    /\ \A f \in Fingerprints :
        /\ inFlight[f].at <= mono
        /\ \A c \in Channels : when[f][c] # Never =>
              inFlight[f].at # Never /\ c \in inFlight[f].seen
    /\ \A t \in Callers : Reading(t) => call[t].now <= mono
    /\ ~overlap =>
        \A f \in Fingerprints :
            /\ \A c \in Channels : when[f][c] <= inFlight[f].at
            /\ \A t \in Callers : Reading(t) => inFlight[f].at <= call[t].now

(* A fresh process has granted nothing.                                    *)
LEMMA NewsInit == Init => News
BY DEF Init, News, NothingSeen, Unseen, NoneGranted, Idle, Reading, Never

(* Every step keeps it.                                                    *)
LEMMA NewsStep ==
    ASSUME IInv, TypeOK', News, [Next]_vars
    PROVE  News'
<1>1. /\ TypeOK /\ Lone /\ mono \in Nat
      /\ \A f \in Fingerprints : inFlight[f].at \in Nat \cup {Never}
      /\ \A f \in Fingerprints, c \in Channels : when[f][c] \in Nat \cup {Never}
    BY DEF IInv, TypeOK
<1>2. ASSUME NEW t \in Callers, ReadClocks(t)
      PROVE  News'
    <2>1. PICK k \in Call :
              /\ Enter(t, k) /\ k.step \in {"dispatch", "probe"} /\ k.now = mono
        <3>1. PICK f \in Fingerprints, ms \in {wall, Never} :
                  \/ \E c \in Channels : Enter(t, Dispatching(f, c, ms))
                  \/ Enter(t, Probing(f, ms))
            BY <1>2 DEF ReadClocks
        <3>2. /\ \A c \in Channels :
                    /\ Dispatching(f, c, ms) \in Call
                    /\ Dispatching(f, c, ms).step = "dispatch"
                    /\ Dispatching(f, c, ms).now = mono
              /\ Probing(f, ms) \in Call
              /\ Probing(f, ms).step = "probe" /\ Probing(f, ms).now = mono
            BY <1>1 DEF Call, Dispatching, Probing, TypeOK
        <3> QED
            BY <3>1, <3>2
    <2>2. /\ UNCHANGED <<mono, inFlight, when>>
          /\ call' = [call EXCEPT ![t] = k]
          /\ ~overlap' => ~overlap
        BY <1>2, <2>1 DEF ReadClocks, Enter, clocks
    <2>3. /\ call'[t].now = mono
          /\ \A u \in Callers \ {t} : call'[u] = call[u]
        BY <1>1, <2>1, <2>2 DEF TypeOK
    <2> QED
        BY <1>1, <2>2, <2>3 DEF News, Reading
<1>3. ASSUME NEW t \in Callers, Grant(t)
      PROVE  News'
    <2> DEFINE g == call[t].f  d == call[t].c  now == call[t].now
    <2>1. /\ Reading(t) /\ Busy(t)
          /\ g \in Fingerprints /\ d \in Channels /\ now \in Nat /\ now <= mono
        BY <1>1, <1>3, CallFacts DEF Grant, Reading, News
    <2>2. /\ inFlight' = [inFlight EXCEPT ![g] =
                              [at |-> now, seen |-> inFlight[g].seen \cup {d}]]
          /\ when' = [when EXCEPT ![g][d] = now]
          /\ mono' = mono /\ overlap' = overlap
        BY <1>3 DEF Grant, Record, clocks
    <2>3. /\ inFlight'[g].at = now /\ inFlight'[g].seen = inFlight[g].seen \cup {d}
          /\ \A f \in Fingerprints \ {g} : inFlight'[f] = inFlight[f]
          /\ when'[g][d] = now
          /\ \A c \in Channels \ {d} : when'[g][c] = when[g][c]
          /\ \A f \in Fingerprints \ {g} : when'[f] = when[f]
          /\ ~Reading(t)'
          /\ \A u \in Callers \ {t} : call'[u] = call[u]
        <3>1. /\ call'[t].step = "save"
              /\ \A u \in Callers \ {t} : call'[u] = call[u]
            BY <1>1, <1>3 DEF Grant, Saving, TypeOK
        <3> QED
            BY <1>1, <2>1, <2>2, <3>1 DEF TypeOK, Reading
    <2>4. /\ \A f \in Fingerprints :
                /\ inFlight'[f].at <= mono'
                /\ \A c \in Channels : when'[f][c] # Never =>
                      inFlight'[f].at # Never /\ c \in inFlight'[f].seen
        BY <1>1, <2>1, <2>2, <2>3 DEF News, Never
    <2>5. ~overlap => \A u \in Callers : ~Reading(u)'
        BY <1>1, <2>1, <2>3 DEF Lone, Busy, Reading
    <2>6. ~overlap => \A f \in Fingerprints : \A c \in Channels :
                          when'[f][c] <= inFlight'[f].at
        <3>1. ~overlap => inFlight[g].at <= now
            BY <2>1 DEF News
        <3> QED
            BY <1>1, <2>1, <2>3, <3>1 DEF News, Never
    <2>7. \A u \in Callers : Reading(u)' => call'[u].now <= mono'
        BY <2>2, <2>3 DEF News, Reading
    <2> QED
        BY <2>2, <2>4, <2>5, <2>6, <2>7 DEF News
<1>4. ASSUME NEW t \in Callers,
             \/ Exhaust(t) \/ Refuse(t) \/ Probe(t) \/ Flush(t) \/ Save(t)
             \/ SaveFails(t)
      PROVE  News'
    <2>1. /\ UNCHANGED <<mono, inFlight, when>>
          /\ ~overlap' => ~overlap
          /\ call' = [call EXCEPT ![t] = Idle] \/ call' = [call EXCEPT ![t] = Saving(bucket)]
        <3>1. CASE \/ Exhaust(t) \/ Refuse(t) \/ Probe(t)
                   \/ Save(t) \/ SaveFails(t)
            <4>1. overlap' = overlap
                BY <3>1 DEF Exhaust, Refuse, Probe, Save, SaveFails
            <4>2. call' = [call EXCEPT ![t] = Idle]
                BY <3>1 DEF Exhaust, Refuse, Probe, Save, SaveFails
            <4>3. UNCHANGED <<mono, inFlight, when>>
                BY <3>1 DEF Exhaust, Refuse, Probe, Save, SaveFails, clocks
            <4> QED
                BY <4>1, <4>2, <4>3
        <3>2. CASE Flush(t)
            BY <3>2 DEF Flush, Enter, clocks
        <3> QED
            BY <1>4, <3>1, <3>2
    <2>2. /\ ~Reading(t)'
          /\ \A u \in Callers \ {t} : call'[u] = call[u]
        BY <1>1, <2>1 DEF TypeOK, Reading, Idle, Saving
    <2> QED
        BY <2>1, <2>2 DEF News, Reading
<1>5. CASE Restart
    <2>1. \A t \in Callers : ~Reading(t)'
        BY <1>5 DEF Restart, Idle, Reading
    <2> QED
        BY <1>1, <1>5, <2>1
        DEF Restart, News, NothingSeen, Unseen, NoneGranted, Never, clocks
<1>6. CASE Tick \/ StepWall
    <2>1. /\ UNCHANGED <<inFlight, when, call, overlap>>
          /\ mono' = mono \/ mono' = mono + 1
        BY <1>6 DEF Tick, StepWall
    <2>2. \A t \in Callers : Reading(t) => call[t].now \in Nat
        BY <1>1, CallFacts
    <2> QED
        BY <1>1, <2>1, <2>2 DEF News, Reading, Never
<1>7. CASE UNCHANGED vars
    BY <1>7 DEF vars, News, Reading
<1> QED
    BY <1>2, <1>3, <1>4, <1>5, <1>6, <1>7 DEF Next

(* Without overlapping calls a grant is news, through refusals, restarts   *)
(* and entries whose window has passed: neither the channel nor a more     *)
(* trusted one was granted the fingerprint within the TTL.                 *)
THEOREM GrantsAreNews == Spec => GrantIsNews
<1>1. ASSUME TypeOK, News, [Next]_vars, NEW t \in Callers, ~overlap,
             call[t].step = "dispatch", call'[t].step = "save",
             NEW d \in Channels,
             d = call[t].c \/ Confidence(d) > Confidence(call[t].c),
             when[call[t].f][d] # Never
      PROVE  call[t].now - when[call[t].f][d] >= TTL
    <2> DEFINE f == call[t].f  c == call[t].c  now == call[t].now
    <2>1. f \in Fingerprints /\ c \in Channels /\ now \in Nat
        BY <1>1, CallFacts DEF Reading
    <2>2. Verdict(f, c, now, Refill(bucket, call[t].ms)) = "Allowed"
        <3>1. ASSUME NEW u \in Callers \ {t},
                     \/ ReadClocks(u) \/ Grant(u) \/ Exhaust(u) \/ Refuse(u)
                     \/ Probe(u) \/ Flush(u) \/ Save(u) \/ SaveFails(u)
              PROVE  call'[t] = call[t]
            <4>1. \E k : call' = [call EXCEPT ![u] = k]
                BY <3>1 DEF ReadClocks, Grant, Exhaust, Refuse, Probe, Flush, Save,
                            SaveFails, Enter
            <4> QED
                BY <1>1, <4>1 DEF TypeOK
        <3>2. ~ReadClocks(t) /\ ~Flush(t) /\ ~Save(t) /\ ~SaveFails(t)
            BY <1>1 DEF ReadClocks, Flush, Enter, Busy, Save, SaveFails
        <3>3. ~Exhaust(t) /\ ~Refuse(t) /\ ~Probe(t)
            BY <1>1 DEF Exhaust, Refuse, Probe, Idle, TypeOK
        <3>4. ~Restart /\ ~Tick /\ ~StepWall /\ vars' # vars
            BY <1>1 DEF Restart, Tick, StepWall, vars, Idle
        <3>5. Grant(t)
            BY <1>1, <3>1, <3>2, <3>3, <3>4 DEF Next
        <3> QED
            BY <3>5 DEF Grant
    <2>3. d \in inFlight[f].seen /\ inFlight[f].at # Never
          /\ when[f][d] <= inFlight[f].at
        BY <1>1, <2>1 DEF News
    <2>4. ~InWindow(f, now)
        BY <1>1, <2>2, <2>3 DEF Verdict, Inhibited
    <2>5. /\ now - inFlight[f].at >= TTL
        BY <1>1, <2>1, <2>3, <2>4, BudgetAssumption DEF InWindow, TypeOK, Never
    <2> QED
        BY <1>1, <2>1, <2>3, <2>5, BudgetAssumption DEF TypeOK, Never
<1>2. TypeOK /\ News /\ [Next]_vars =>
        [\A t \in Callers :
           (~overlap /\ call[t].step = "dispatch" /\ call'[t].step = "save") =>
              \A d \in Channels :
                  (d = call[t].c \/ Confidence(d) > Confidence(call[t].c))
                  /\ when[call[t].f][d] # Never
                      => call[t].now - when[call[t].f][d] >= TTL]_vars
    BY <1>1
<1>3. IInv => TypeOK
    BY DEF IInv
<1>4. Spec => []News
    <2>1. IInv /\ TypeOK' /\ News /\ [Next]_vars => News'
        BY NewsStep
    <2> QED
        BY <1>3, <2>1, NewsInit, InvariantHolds, PTL DEF Spec
<1> QED
    BY <1>2, <1>4, TypeCorrect, PTL DEF Spec, GrantIsNews
=============================================================================
