----------------------------- MODULE ColdWindow -----------------------------
(***************************************************************************)
(* The cold-window engine.  Each tick takes the current token total, runs  *)
(* the layered alert policy on it, engages the kill switch if the budget   *)
(* is breached, and broadcasts the snapshot to the viewers (the TUI, and   *)
(* one SSE stream per browser).  Sync adapters that hold the same switch   *)
(* look at it once, at the top of every write.                             *)
(*                                                                         *)
(* A tick holds the engine's lock from its first to its last step, but the *)
(* switch and the broadcast channel are seen by others in between.         *)
(*                                                                         *)
(* Tokens are integers.  The start of a band is counted in fifths of a     *)
(* token, so that 80 % of the budget is exact, and a clear level, 95 % of  *)
(* such a start, in hundredths.                                            *)
(***************************************************************************)
EXTENDS Integers, Sequences

CONSTANTS
    Totals,    \* token totals a tick can meet
    Advisory,  \* TOKEN_ADVISORY_THRESHOLD
    Caution,   \* TOKEN_CAUTION_THRESHOLD
    Budget,    \* budget_ceiling, of the policy and of the engine
    Raised,    \* thresholds the rolling baseline can raise a tier to
    MinDwell,  \* min_dwell_ticks
    Warmup,    \* MIN_BASELINE_SAMPLES
    Capacity,  \* SNAPSHOT_CHANNEL_CAPACITY
    Viewers,   \* receivers of the broadcast channel
    Adapters,  \* sync adapters that hold the kill switch
    MaxTicks   \* bound: ticks

ASSUME ColdWindowAssumption ==
    /\ Totals \subseteq Nat
    /\ Raised \subseteq Nat
    /\ Advisory \in Nat \ {0}
    /\ Caution \in Nat
    /\ Advisory <= Caution
    /\ Budget \in Nat \ {0}
    /\ MinDwell \in Nat \ {0}
    /\ Warmup \in Nat
    /\ Capacity \in Nat \ {0}
    /\ MaxTicks \in Nat

VARIABLES
    version,   \* EngineState::version
    history,   \* AlertHistory: per tier met so far, its dwell and clear level
    overruns,  \* consecutive_overruns
    stage,     \* where the tick in progress is
    snap,      \* the snapshot of the current or the latest tick
    bus,       \* version and total of each snapshot the channel retains
    next,      \* per viewer: version it receives next, 0 when not connected
    killed,    \* KillSwitch
    gate,      \* per adapter: has passed ensure_not_engaged, or is idle
    shown,     \* history: a viewer has been shown a breach of the budget
    held,      \* history: per tier, ticks in a row its condition has held
    calm,      \* history: per tier, ticks since the total was clearly below it
    alarm      \* history: per tier, clear level of its alert until the total
               \* falls to it, 0 when there is none

policy == <<history, held, calm, alarm>>
channel == <<bus, next, shown>>
vars == <<version, history, overruns, stage, snap, bus, next, killed, gate,
          shown, held, calm, alarm>>

Tiers == {"advisory", "caution", "warning"}

-----------------------------------------------------------------------------
(***************************************************************************)
(* The alert policy.                                                       *)
(***************************************************************************)

\* Thresholds in force on the n-th tick.  Once the baseline is warm they can
\* be raised, to mean + 2 sigma and mean + 3 sigma of the samples, which is
\* left open here but for the order of the two.
Effective(n) ==
    LET static == [advisory |-> Advisory, caution |-> Caution]
        raised == {e \in [advisory : Raised \cup {Advisory},
                          caution : Raised \cup {Caution}] :
                       /\ Advisory <= e.advisory
                       /\ Caution <= e.caution
                       /\ e.advisory <= e.caution}
    IN  IF n < Warmup THEN {static} ELSE raised

Bands(total, eff) ==
    [advisory |-> 5 * eff.advisory,
     caution  |-> 5 * eff.caution,
     warning  |-> IF total >= Budget THEN 5 * Budget ELSE 4 * Budget]

\* A mistake: caution suppresses the tier it subsumes.
ActiveHighest(total, bands) ==
    {t \in Tiers : /\ 5 * total >= bands[t]
                   /\ t = "advisory" => 5 * total < bands["caution"]}

Active(total, bands) == {t \in Tiers : 5 * total >= bands[t]}

ClearLevel(high) == 19 * high

TrulyCleared(total, entry) == 100 * total <= entry.clear

\* A mistake: a tier that is not active is never cleared.
SettledNever(total, active, entries) == entries

\* A mistake: a tier that is not active is cleared at once: no hysteresis.
SettledAtOnce(total, active, entries) ==
    [t \in DOMAIN entries |->
        IF t \notin active THEN [dwell |-> 0, clear |-> entries[t].clear]
        ELSE entries[t]]

\* Hysteresis: a tier that is not active forgets its dwell only when the
\* total has fallen to the clear level of its last band.
Settled(total, active, entries) ==
    [t \in DOMAIN entries |->
        IF t \notin active /\ TrulyCleared(total, entries[t])
        THEN [dwell |-> 0, clear |-> entries[t].clear]
        ELSE entries[t]]

\* An active tier dwells one more tick.
Accrued(bands, active, entries) ==
    [t \in DOMAIN entries \cup active |->
        IF t \in active
        THEN [dwell |-> 1 + IF t \in DOMAIN entries THEN entries[t].dwell ELSE 0,
              clear |-> ClearLevel(bands[t])]
        ELSE entries[t]]

\* A mistake: the alert is due one tick late.
AlertsLate(active, entries) == {t \in active : entries[t].dwell > MinDwell}

Alerts(active, entries) == {t \in active : entries[t].dwell >= MinDwell}

\* A mistake: the switch is engaged only above the ceiling.
BreachesAbove(total) == total > Budget

Breaches(total) == total >= Budget

-----------------------------------------------------------------------------
(***************************************************************************)
(* What an observer of the snapshots keeps track of.                       *)
(***************************************************************************)

\* The lowest level any band of a tier clears at.
Floor == [advisory |-> ClearLevel(5 * Advisory),
          caution  |-> ClearLevel(5 * Caution),
          warning  |-> ClearLevel(4 * Budget)]

Observe(total, bands, active, alerts) ==
    /\ held' = [t \in Tiers |-> IF t \in active THEN held[t] + 1 ELSE 0]
    /\ calm' = [t \in Tiers |->
                   IF 100 * total <= Floor[t] THEN 0 ELSE calm[t] + 1]
    /\ alarm' = [t \in Tiers |->
                   IF t \in alerts THEN ClearLevel(bands[t])
                   ELSE IF 100 * total <= alarm[t] THEN 0 ELSE alarm[t]]

-----------------------------------------------------------------------------
NoSnapshot == [version |-> 0, total |-> 0, active |-> {}, alerts |-> {},
               overrun |-> "none"]

Init ==
    /\ version = 0
    /\ history = <<>>
    /\ overruns = 0
    /\ stage = "idle"
    /\ snap = NoSnapshot
    /\ bus = <<>>
    /\ next = [v \in Viewers |-> 0]
    /\ killed = FALSE
    /\ gate = [a \in Adapters |-> "idle"]
    /\ shown = FALSE
    /\ held = [t \in Tiers |-> 0]
    /\ calm = [t \in Tiers |-> 0]
    /\ alarm = [t \in Tiers |-> 0]

\* tick, up to the alert policy.
Evaluate(total, eff) ==
    LET bands == Bands(total, eff)
        active == Active(total, bands)
        entries == Accrued(bands, active, Settled(total, active, history))
        alerts == Alerts(active, entries)
    IN  /\ stage = "idle"
        /\ version < MaxTicks
        /\ version' = version + 1
        /\ history' = entries
        /\ snap' = [version |-> version + 1, total |-> total, active |-> active,
                    alerts |-> alerts, overrun |-> "none"]
        /\ stage' = "evaluated"
        /\ Observe(total, bands, active, alerts)
        /\ UNCHANGED <<overruns, killed, gate, channel>>

Engage ==
    /\ stage = "evaluated"
    /\ killed' = (killed \/ Breaches(snap.total))
    /\ stage' = "engaged"
    /\ UNCHANGED <<version, overruns, snap, gate, policy, channel>>

\* A mistake: the channel drops a snapshot only when it is past its capacity.
SentLate(s) ==
    IF Len(bus) <= Capacity THEN Append(bus, s) ELSE Append(Tail(bus), s)

\* The broadcast channel keeps the latest Capacity snapshots.
Sent(s) ==
    IF Len(bus) < Capacity THEN Append(bus, s) ELSE Append(Tail(bus), s)

\* tick, from the overrun check to the end.
Publish(slow) ==
    LET streak == IF slow THEN overruns + 1 ELSE 0
        result == [snap EXCEPT !.overrun = IF ~slow THEN "none"
                                           ELSE IF streak >= 3 THEN "advisory"
                                           ELSE "status"]
    IN  /\ stage = "engaged"
        /\ overruns' = streak
        /\ snap' = result
        /\ bus' = Sent([version |-> snap.version, total |-> snap.total])
        /\ stage' = "idle"
        /\ UNCHANGED <<version, killed, next, gate, shown, policy>>

-----------------------------------------------------------------------------
(***************************************************************************)
(* Viewers.                                                                *)
(***************************************************************************)
Newest == IF bus = <<>> THEN 0 ELSE bus[Len(bus)].version
Oldest == IF bus = <<>> THEN 1 ELSE bus[1].version

\* subscribe: only what is sent from now on is received.
Connect(v) ==
    /\ next[v] = 0
    /\ next' = [next EXCEPT ![v] = Newest + 1]
    /\ UNCHANGED <<version, overruns, stage, snap, bus, killed, gate, shown, policy>>

Disconnect(v) ==
    /\ next[v] # 0
    /\ next' = [next EXCEPT ![v] = 0]
    /\ UNCHANGED <<version, overruns, stage, snap, bus, killed, gate, shown, policy>>

\* A mistake: a viewer that fell behind is dropped without leaving the channel.
RecvNoLag(v) ==
    /\ next[v] # 0
    /\ next[v] <= Newest
    /\ next[v] >= Oldest
    /\ next' = [next EXCEPT ![v] = next[v] + 1]
    /\ shown' = (shown \/ bus[next[v] - Oldest + 1].total >= Budget)
    /\ UNCHANGED <<version, overruns, stage, snap, bus, killed, gate, policy>>

\* One turn of the stream: a viewer that fell behind is told so and goes on at
\* the oldest snapshot retained.
Recv(v) ==
    /\ next[v] # 0
    /\ next[v] <= Newest
    /\ IF next[v] < Oldest
       THEN next' = [next EXCEPT ![v] = Oldest] /\ UNCHANGED shown
       ELSE LET s == bus[next[v] - Oldest + 1] IN
            /\ next' = [next EXCEPT ![v] = next[v] + 1]
            /\ shown' = (shown \/ s.total >= Budget)
    /\ UNCHANGED <<version, overruns, stage, snap, bus, killed, gate, policy>>

-----------------------------------------------------------------------------
(***************************************************************************)
(* Sync adapters: a write is refused at its start, or runs to its end.     *)
(***************************************************************************)
MayWrite == ~killed

BeginWrite(a) ==
    /\ gate[a] = "idle"
    /\ MayWrite
    /\ gate' = [gate EXCEPT ![a] = "writing"]
    /\ UNCHANGED <<version, overruns, stage, snap, killed, policy, channel>>

EndWrite(a) ==
    /\ gate[a] = "writing"
    /\ gate' = [gate EXCEPT ![a] = "idle"]
    /\ UNCHANGED <<version, overruns, stage, snap, killed, policy, channel>>

-----------------------------------------------------------------------------
Tick ==
    \/ \E total \in Totals : \E eff \in Effective(version + 1) : Evaluate(total, eff)
    \/ Engage
    \/ \E slow \in BOOLEAN : Publish(slow)

Next ==
    \/ Tick
    \/ \E v \in Viewers : Connect(v) \/ Disconnect(v) \/ Recv(v)
    \/ \E a \in Adapters : BeginWrite(a) \/ EndWrite(a)

Spec == Init /\ [][Next]_vars

\* The producer's loop and every viewer's task are scheduled by tokio.  Nobody
\* has to connect, and no adapter has to write.
FairSpec ==
    /\ Spec
    /\ WF_vars(Tick)
    /\ \A v \in Viewers : WF_vars(Recv(v))

-----------------------------------------------------------------------------
(***************************************************************************)
(* Properties.                                                             *)
(***************************************************************************)
Snapshots ==
    [version : Nat, total : Nat, active : SUBSET Tiers, alerts : SUBSET Tiers,
     overrun : {"none", "status", "advisory"}]

\* Every variable keeps its type.
TypeOK ==
    /\ version \in Nat
    /\ DOMAIN history \subseteq Tiers
    /\ history \in [DOMAIN history -> [dwell : Nat, clear : Nat]]
    /\ overruns \in Nat
    /\ stage \in {"idle", "evaluated", "engaged"}
    /\ snap \in Snapshots
    /\ bus \in Seq([version : Nat, total : Nat])
    /\ Len(bus) <= Capacity
    /\ next \in [Viewers -> Nat]
    /\ killed \in BOOLEAN
    /\ gate \in [Adapters -> {"idle", "writing"}]
    /\ shown \in BOOLEAN
    /\ held \in [Tiers -> Nat]
    /\ calm \in [Tiers -> Nat]
    /\ alarm \in [Tiers -> Nat]

\* Fleeting spikes stay silent: a tier alerts only when the total has not been
\* clearly below it, by 5 % of its lowest threshold, on any of the last
\* MinDwell ticks, whatever the thresholds in force did meanwhile.
SpikesStaySilent == \A t \in snap.alerts : calm[t] >= MinDwell

\* A condition that lasts is not missed: a tier whose condition held on each of
\* the last MinDwell ticks is among the alerts.
LastingConditionAlerts == \A t \in Tiers : held[t] >= MinDwell => t \in snap.alerts

\* Hysteresis: once a tier has alerted it does not have to dwell again, as long
\* as the total has not fallen to the clear level of the band in that alert.
AlarmOutlivesDips ==
    \A t \in snap.active : alarm[t] > 0 => t \in snap.alerts

\* While the thresholds are the static ones an escalation is shown with what it
\* escalates: Caution is never alerted without Advisory.
EscalationIsNested ==
    version < Warmup /\ "caution" \in snap.alerts => "advisory" \in snap.alerts

\* No adapter begins a write after any viewer was shown a snapshot that
\* breaches the budget, although the viewers read the snapshot and the
\* adapters the switch, and the switch is never released.
BreachStopsSync ==
    [][\A a \in Adapters : BeginWrite(a) => ~shown]_vars

\* A viewer that stays connected gets past every snapshot that is sent, however
\* far it falls behind.
ViewersCatchUp ==
    \A v \in Viewers : \A n \in 1..MaxTicks :
        next[v] \in 1..n /\ Newest >= n ~> next[v] = 0 \/ next[v] > n

Retains(n) == \E i \in 1..Len(bus) : bus[i].version = n

\* A turn of a stream moves the viewer on: it is shown the snapshot it is due,
\* under its own number, or it skips to the first snapshot retained, and then
\* every snapshot it misses has left the channel.
StreamsInOrder ==
    [][\A v \in Viewers : Recv(v) =>
         /\ next'[v] > next[v]
         /\ next'[v] <= Newest + 1
         /\ IF Retains(next[v])
            THEN /\ next'[v] = next[v] + 1
                 /\ bus[next[v] - Oldest + 1].version = next[v]
            ELSE /\ Retains(next'[v])
                 /\ \A n \in next[v]..(next'[v] - 1) : ~Retains(n)]_vars

\* A viewer with a snapshot waiting keeps it waiting, whatever is sent, until a
\* turn of its stream moves it on or it goes away.
WaitingStaysDue ==
    [][\A v \in Viewers : next[v] \in 1..Newest =>
         \/ next'[v] = 0
         \/ next'[v] > next[v]
         \/ next'[v] = next[v] /\ next'[v] <= Newest']_vars
=============================================================================
