--------------------------- MODULE ResearchBudget ---------------------------
(***************************************************************************)
(* BucketedBudget, the dispatcher in front of external research: per       *)
(* fingerprint it drops fetches a channel, or a more trusted channel, made *)
(* within the TTL, and it limits all fetches by a token bucket that is     *)
(* saved to a file after each grant and restored by the next process.      *)
(*                                                                         *)
(* A call reads both clocks, then takes the mutex, then saves outside it:  *)
(* calls can take the mutex in another order than they read the clock, and *)
(* save in another order than they took the mutex.                         *)
(*                                                                         *)
(* Tokens are counted in the time it takes to refill them: a full bucket   *)
(* is Hour ticks, one fetch costs Cost = Hour / rate_per_hour ticks, and a *)
(* tick of the wall clock refills one.  This keeps the fractions of the    *)
(* code's f64 as integers and leaves out its rounding.                     *)
(***************************************************************************)
EXTENDS Integers

CONSTANTS
    Callers,       \* threads that share the budget
    Fingerprints,  \* topics
    Channels,      \* research channels in use
    Hour,          \* ticks to fill an empty bucket
    Cost,          \* ticks to refill one token
    TTL,           \* fingerprint_ttl
    Start,         \* the wall clock at the first start
    MaxTime,       \* bound: ticks
    MaxCalls,      \* bound: calls
    MaxExcused     \* bound: crashes and failed saves, times Cost

ASSUME BudgetAssumption ==
    /\ Channels \subseteq {"GitHub", "Paper", "HackerNews", "Lobsters", "Triz"}
    /\ Hour \in Nat
    /\ Cost \in Nat \ {0}
    /\ TTL \in Nat
    /\ Start \in Nat
    /\ MaxTime \in Nat
    /\ MaxCalls \in Nat
    /\ MaxExcused \in Nat

VARIABLES
    mono,      \* Instant::now
    wall,      \* the wall clock
    bucket,    \* the token bucket behind the mutex
    inFlight,  \* in_flight: per fingerprint, last_dispatched and channels_seen
    call,      \* per caller: where its call is and what it read
    disk,      \* research-quota.json
    when,      \* history: when each fetch was last granted by this process
    granted,   \* history: Cost of every grant of every process
    regress,   \* history: ticks by which last_refill_ms was set back
    excused,   \* history: Cost of every crash and failed save
    calls,     \* history: calls so far
    overlap,   \* history: two calls were once in progress together
    stepped    \* history: the wall clock was set

vars == <<mono, wall, bucket, inFlight, call, disk, when, granted, regress,
          excused, calls, overlap, stepped>>

clocks == <<mono, wall, stepped>>

-----------------------------------------------------------------------------
(* The bucket.  spent is a history field: the grants this bucket, or the   *)
(* saved bucket it was restored from, has paid for.                        *)

Never == -1   \* no reading of the clock, and the bootstrap sentinel

Bucket == [avail : 0..Hour, last : Nat \cup {Never}, spent : Nat]
NoFile == [avail |-> Never, last |-> Never, spent |-> 0]

Full(ms) == [avail |-> Hour, last |-> ms, spent |-> 0]

\* elapsed: zero when the clock is behind last_refill_ms or that is unset.
Elapsed(b, ms) == IF b.last = Never \/ ms <= b.last THEN 0 ELSE ms - b.last

Capped(n) == IF n > Hour THEN Hour ELSE n

\* Mutant of Refill: the sentinel taken for time zero.
RefillFromZero(b, ms) ==
    IF ms = Never THEN b
    ELSE [b EXCEPT !.avail = IF b.last = Never THEN Capped(b.avail + ms)
                             ELSE Capped(b.avail + Elapsed(b, ms)),
                   !.last = ms]

\* Mutant of Refill: last_refill_ms is not moved on.
RefillUnstamped(b, ms) ==
    IF ms = Never THEN b
    ELSE [b EXCEPT !.avail = Capped(b.avail + Elapsed(b, ms))]

\* Mutant of Refill: only whole tokens are refilled, the rest of the time is
\* dropped.
RefillWhole(b, ms) ==
    IF ms = Never THEN b
    ELSE [b EXCEPT !.avail = Capped(b.avail + (Elapsed(b, ms) \div Cost) * Cost),
                   !.last = ms]

\* Mutant of Refill: without the cap.
RefillUncapped(b, ms) ==
    IF ms = Never THEN b
    ELSE [b EXCEPT !.avail = b.avail + Elapsed(b, ms), !.last = ms]

\* Without a reading the bucket stays; last_refill_ms is set to the reading
\* also when that is earlier.
Refill(b, ms) ==
    IF ms = Never THEN b
    ELSE [b EXCEPT !.avail = Capped(b.avail + Elapsed(b, ms)), !.last = ms]

SetBack(b, ms) == IF ms = Never \/ ms >= b.last THEN 0 ELSE b.last - ms

Consumed(b) ==
    [avail |-> b.avail - Cost, last |-> b.last, spent |-> b.spent + Cost]

-----------------------------------------------------------------------------
(* Fingerprints *)

Unseen == [at |-> Never, seen |-> {}]

Confidence(c) ==
    CASE c = "GitHub" -> 4
      [] c = "Paper"  -> 3
      [] c = "Triz"   -> 1
      [] OTHER        -> 2

InWindow(f, now) ==
    inFlight[f].at # Never /\ now - inFlight[f].at < TTL

Inhibited(f, c) ==
    \E d \in inFlight[f].seen : Confidence(d) > Confidence(c)

Verdict(f, c, now, b) ==
    IF InWindow(f, now) /\ c \in inFlight[f].seen THEN "Duplicate"
    ELSE IF InWindow(f, now) /\ Inhibited(f, c)   THEN "Inhibited"
    ELSE IF b.avail < Cost                        THEN "Exhausted"
    ELSE "Allowed"

-----------------------------------------------------------------------------
(* Calls *)

Idle == [step |-> "idle"]
Dispatching(f, c, ms) ==
    [step |-> "dispatch", f |-> f, c |-> c, now |-> mono, ms |-> ms]
Probing(f, ms) == [step |-> "probe", f |-> f, now |-> mono, ms |-> ms]
Saving(b) == [step |-> "save", clone |-> b]

Call ==
    {Idle}
    \cup [step : {"dispatch"}, f : Fingerprints, c : Channels,
          now : Nat, ms : Nat \cup {Never}]
    \cup [step : {"probe"}, f : Fingerprints, now : Nat, ms : Nat \cup {Never}]
    \cup [step : {"save"}, clone : Bucket]

Busy(t) == call[t].step # "idle"

TypeOK ==
    /\ mono \in Nat
    /\ wall \in Nat
    /\ bucket \in Bucket
    /\ inFlight \in [Fingerprints -> [at : Nat \cup {Never}, seen : SUBSET Channels]]
    /\ call \in [Callers -> Call]
    /\ disk \in Bucket \cup {NoFile}
    /\ when \in [Fingerprints -> [Channels -> Nat \cup {Never}]]
    /\ granted \in Nat
    /\ regress \in Nat
    /\ excused \in Nat
    /\ calls \in Nat
    /\ overlap \in BOOLEAN
    /\ stepped \in BOOLEAN

NothingSeen  == [f \in Fingerprints |-> Unseen]
NoneGranted  == [f \in Fingerprints |-> [c \in Channels |-> Never]]

\* A first start without a quota file.
Init ==
    /\ mono = 0
    /\ wall = Start
    /\ \E ms \in {Start, Never} : bucket = Full(ms)
    /\ inFlight = NothingSeen
    /\ call = [t \in Callers |-> Idle]
    /\ disk = NoFile
    /\ when = NoneGranted
    /\ granted = 0
    /\ regress = 0
    /\ excused = 0
    /\ calls = 0
    /\ overlap = FALSE
    /\ stepped = FALSE

Enter(t, entered) ==
    /\ ~Busy(t)
    /\ calls < MaxCalls
    /\ calls' = calls + 1
    /\ call' = [call EXCEPT ![t] = entered]
    /\ overlap' = (overlap \/ \E u \in Callers \ {t} : Busy(u))

\* The first lines of try_dispatch and should_query: read both clocks.
ReadClocks(t) ==
    /\ \E f \in Fingerprints, ms \in {wall, Never} :
          \/ \E c \in Channels : Enter(t, Dispatching(f, c, ms))
          \/ Enter(t, Probing(f, ms))
    /\ UNCHANGED <<clocks, bucket, inFlight, disk, when, granted, regress, excused>>

\* The rest of a call happens under the mutex.
RefillBucket(t) ==
    /\ bucket' = Refill(bucket, call[t].ms)
    /\ regress' = regress + SetBack(bucket, call[t].ms)

\* Mutant of Record: last_dispatched stays what it was at the first dispatch.
RecordFirst(f, c, now) ==
    inFlight' = [inFlight EXCEPT ![f] =
        [at |-> IF inFlight[f].at = Never THEN now ELSE inFlight[f].at,
         seen |-> inFlight[f].seen \cup {c}]]

\* channels_seen only grows, also when the entry had expired.
Record(f, c, now) ==
    inFlight' = [inFlight EXCEPT ![f] =
        [at |-> now, seen |-> inFlight[f].seen \cup {c}]]

\* Mutant of Grant: the save uses the bucket before the grant.
GrantSavesOld(t) ==
    LET k == call[t]  b == Refill(bucket, k.ms) IN
    /\ k.step = "dispatch"
    /\ Verdict(k.f, k.c, k.now, b) = "Allowed"
    /\ bucket' = Consumed(b)
    /\ regress' = regress + SetBack(bucket, k.ms)
    /\ Record(k.f, k.c, k.now)
    /\ when' = [when EXCEPT ![k.f][k.c] = k.now]
    /\ granted' = granted + Cost
    /\ call' = [call EXCEPT ![t] = Saving(b)]
    /\ UNCHANGED <<clocks, disk, excused, calls, overlap>>

Grant(t) ==
    LET k == call[t]  b == Refill(bucket, k.ms) IN
    /\ k.step = "dispatch"
    /\ Verdict(k.f, k.c, k.now, b) = "Allowed"
    /\ bucket' = Consumed(b)
    /\ regress' = regress + SetBack(bucket, k.ms)
    /\ Record(k.f, k.c, k.now)
    /\ when' = [when EXCEPT ![k.f][k.c] = k.now]
    /\ granted' = granted + Cost
    /\ call' = [call EXCEPT ![t] = Saving(Consumed(b))]
    /\ UNCHANGED <<clocks, disk, excused, calls, overlap>>

\* An exhausted bucket was refilled; the other refusals return before that.
Exhaust(t) ==
    /\ call[t].step = "dispatch"
    /\ Verdict(call[t].f, call[t].c, call[t].now, Refill(bucket, call[t].ms)) = "Exhausted"
    /\ RefillBucket(t)
    /\ call' = [call EXCEPT ![t] = Idle]
    /\ UNCHANGED <<clocks, inFlight, disk, when, granted, excused, calls, overlap>>

Refuse(t) ==
    /\ call[t].step = "dispatch"
    /\ Verdict(call[t].f, call[t].c, call[t].now, bucket) \in {"Duplicate", "Inhibited"}
    /\ call' = [call EXCEPT ![t] = Idle]
    /\ UNCHANGED <<clocks, bucket, inFlight, disk, when, granted, regress, excused, calls, overlap>>

\* What should_query answers.
ShouldQuery(f, now, b) == ~InWindow(f, now) /\ b.avail >= Cost

\* should_query refills the bucket unless the fingerprint is in its window.
Probe(t) ==
    /\ call[t].step = "probe"
    /\ \/ /\ InWindow(call[t].f, call[t].now)
          /\ UNCHANGED <<bucket, regress>>
       \/ /\ ~InWindow(call[t].f, call[t].now)
          /\ RefillBucket(t)
    /\ call' = [call EXCEPT ![t] = Idle]
    /\ UNCHANGED <<clocks, inFlight, disk, when, granted, excused, calls, overlap>>

\* flush_persistence saves the bucket as it is.
Flush(t) ==
    /\ Enter(t, Saving(bucket))
    /\ UNCHANGED <<clocks, bucket, inFlight, disk, when, granted, regress, excused>>

\* persist_bucket: a temp file of its own, then the rename.
Save(t) ==
    /\ call[t].step = "save"
    /\ disk' = call[t].clone
    /\ call' = [call EXCEPT ![t] = Idle]
    /\ UNCHANGED <<clocks, bucket, inFlight, when, granted, regress, excused, calls, overlap>>

\* The error is logged only; the grant stands.
SaveFails(t) ==
    /\ call[t].step = "save"
    /\ excused + Cost <= MaxExcused
    /\ excused' = excused + Cost
    /\ call' = [call EXCEPT ![t] = Idle]
    /\ UNCHANGED <<clocks, bucket, inFlight, disk, when, granted, regress, calls, overlap>>

-----------------------------------------------------------------------------
(* The process dies, and persistent starts another: the bucket comes from  *)
(* the file, in_flight starts empty.                                       *)

Restored(ms) == IF disk = NoFile THEN Full(ms) ELSE disk

Restart ==
    /\ excused + Cost <= MaxExcused
    /\ \E ms \in {wall, Never} :
          /\ bucket' = Refill(Restored(ms), ms)
          /\ regress' = regress + SetBack(Restored(ms), ms)
    /\ inFlight' = NothingSeen
    /\ call' = [t \in Callers |-> Idle]
    /\ when' = NoneGranted
    /\ excused' = excused + Cost
    /\ UNCHANGED <<clocks, disk, granted, calls, overlap>>

-----------------------------------------------------------------------------
(* Clocks *)

Tick ==
    /\ mono < MaxTime
    /\ wall < Start + MaxTime
    /\ mono' = mono + 1
    /\ wall' = wall + 1
    /\ UNCHANGED <<bucket, inFlight, call, disk, when, granted, regress, excused,
                   calls, overlap, stepped>>

\* The wall clock is set, once, though not to before the first start.
StepWall ==
    /\ ~stepped
    /\ stepped' = TRUE
    /\ wall' \in (Start..(Start + MaxTime)) \ {wall}
    /\ UNCHANGED <<mono, bucket, inFlight, call, disk, when, granted, regress,
                   excused, calls, overlap>>

Next ==
    \/ \E t \in Callers :
          \/ ReadClocks(t) \/ Grant(t) \/ Exhaust(t) \/ Refuse(t) \/ Probe(t)
          \/ Flush(t) \/ Save(t) \/ SaveFails(t)
    \/ Restart
    \/ Tick
    \/ StepWall

Spec == Init /\ [][Next]_vars

-----------------------------------------------------------------------------
(* Properties *)

Stamp(b) == IF b.last = Never THEN Start ELSE b.last

\* Whatever overlaps, crashes or steps: what the bucket has paid for and
\* still holds is one full bucket plus the time up to its last refill, plus
\* the time that was refilled again after last_refill_ms was set back.
LedgerHolds == bucket.spent + bucket.avail <= Hour + (Stamp(bucket) - Start) + regress

\* The limit rolls: within a process each grant is paid for out of what the
\* bucket holds, the time it is refilled by, and time that is refilled again.
\* Summed over any stretch of a process: a bucket that sat full for a day pays
\* for no more than Hour and the time since, whatever overlaps or steps.
LimitRolls ==
    [][~Restart =>
         (granted' - granted) + bucket'.avail
            <= bucket.avail + (Stamp(bucket') - Stamp(bucket)) + (regress' - regress)]_vars

\* last_refill_ms is set back only if the wall clock was set, or if calls
\* overlapped and took the mutex in another order than they read the clock.
RegressNeedsCause == regress > 0 => stepped \/ overlap

\* The budget over all processes: without overlapping calls and with a clock
\* nobody sets, the grants since the first start are paid for by one full
\* bucket, the time since then, and one token for each crash or failed save.
\* Restarting does not reset the quota.
BudgetKept ==
    ~overlap /\ ~stepped => granted <= Hour + (wall - Start) + excused

\* Without overlapping calls a grant is news: neither the channel itself nor
\* a more trusted one was granted the same fingerprint within the TTL.
GrantIsNews ==
    [][\A t \in Callers :
         (~overlap /\ call[t].step = "dispatch" /\ call'[t].step = "save") =>
            \A d \in Channels :
                (d = call[t].c \/ Confidence(d) > Confidence(call[t].c))
                /\ when[call[t].f][d] # Never
                    => call[t].now - when[call[t].f][d] >= TTL]_vars

\* Within a process a yes of should_query stays good: as long as nothing is
\* granted and the wall clock is not set back, try_dispatch lets every channel
\* of that fingerprint through, whatever older readings other calls refill from.
YesLasts ==
    [][\A f \in Fingerprints :
         (ShouldQuery(f, mono, Refill(bucket, wall)) /\ granted' = granted
             /\ wall' >= wall /\ ~Restart)
            => \A c \in Channels :
                 Verdict(f, c, mono, Refill(bucket, wall))' = "Allowed"]_vars

\* dispatcher.rs:218 describes channels_seen as "Channels already attempted
\* for this fingerprint within TTL": what a call inside the window finds
\* there was granted within the TTL.
SeenIsRecent ==
    \A f \in Fingerprints : InWindow(f, mono) =>
        \A c \in inFlight[f].seen : mono - when[f][c] < TTL
=============================================================================
