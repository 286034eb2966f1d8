-------------------------- MODULE ColdWindowProofs --------------------------
(***************************************************************************)
(* Proofs about ColdWindow, for any totals, thresholds, raises, dwell,     *)
(* channel capacity, viewers and adapters.                                 *)
(*                                                                         *)
(* The dwell of a tier lies between the ticks in a row its condition held  *)
(* and the ticks since the total was clearly below it (Dwells); the second *)
(* bound needs that no clear level is ever under the tier's lowest one     *)
(* (Floors).  An alarm the observer holds open is one the policy has not   *)
(* cleared either (Alarms).  Under static thresholds the dwells and the    *)
(* clear levels of Advisory and Caution are ordered (Nested).  The         *)
(* snapshots in the channel are numbered without a gap (Numbered), so a    *)
(* viewer receives the one it is due, and none that shows a breach is in   *)
(* the channel before the switch is engaged (Locked).                      *)
(***************************************************************************)
EXTENDS ColdWindow, TLAPS

Dwell(t) == IF t \in DOMAIN history THEN history[t].dwell ELSE 0

Dwells == \A t \in Tiers : held[t] <= Dwell(t) /\ Dwell(t) <= calm[t]

Floors == \A t \in DOMAIN history : Floor[t] <= history[t].clear

Alarms ==
    \A t \in Tiers : alarm[t] > 0 =>
        /\ t \in DOMAIN history
        /\ history[t].dwell >= MinDwell
        /\ history[t].clear = alarm[t]

Nested ==
    version < Warmup =>
        /\ Dwell("caution") <= Dwell("advisory")
        /\ "caution" \in snap.active => "advisory" \in snap.active
        /\ \A t \in DOMAIN history : t # "warning" => history[t].clear = Floor[t]

Verdict ==
    /\ snap.active \subseteq DOMAIN history
    /\ snap.alerts = {t \in snap.active : history[t].dwell >= MinDwell}
    /\ \A t \in Tiers : held[t] > 0 => t \in snap.active

Numbered ==
    /\ snap.version = version
    /\ version = IF stage = "idle" THEN Newest ELSE Newest + 1
    /\ \A i \in 1..Len(bus) : bus[i].version = Newest - Len(bus) + i

Locked ==
    /\ stage = "engaged" /\ snap.total >= Budget => killed
    /\ \A i \in 1..Len(bus) : bus[i].total >= Budget => killed
    /\ shown => killed

PolicyInv == Dwells /\ Floors /\ Alarms /\ Nested /\ Verdict

IInv == TypeOK /\ PolicyInv /\ Numbered /\ Locked

-----------------------------------------------------------------------------
(* The thresholds in force are naturals, at or above the static ones and   *)
(* in their order, and are the static ones before the warm-up.             *)
LEMMA EffectiveFacts ==
    ASSUME NEW n \in Nat, NEW eff \in Effective(n)
    PROVE  /\ eff.advisory \in Nat /\ eff.caution \in Nat
           /\ Advisory <= eff.advisory /\ Caution <= eff.caution
           /\ eff.advisory <= eff.caution
           /\ n < Warmup => eff.advisory = Advisory /\ eff.caution = Caution
  <1>1. CASE n < Warmup
    <2>1. eff = [advisory |-> Advisory, caution |-> Caution]
      BY <1>1 DEF Effective
    <2> QED BY <2>1, ColdWindowAssumption
  <1>2. CASE ~(n < Warmup)
    <2>1. /\ eff \in [advisory : Raised \cup {Advisory}, caution : Raised \cup {Caution}]
          /\ Advisory <= eff.advisory /\ Caution <= eff.caution
          /\ eff.advisory <= eff.caution
      BY <1>2 DEF Effective
    <2> QED BY <2>1, <1>2, ColdWindowAssumption
  <1> QED BY <1>1, <1>2

(* Every band starts at a natural, and clears at or above the tier's floor *)
(* and below its start: a total at the floor is not in the band.           *)
LEMMA BandFacts ==
    ASSUME NEW n \in Nat, NEW eff \in Effective(n), NEW total \in Nat, NEW t \in Tiers
    PROVE  /\ Bands(total, eff)[t] \in Nat
           /\ ClearLevel(Bands(total, eff)[t]) \in Nat
           /\ Floor[t] \in Nat
           /\ Floor[t] <= ClearLevel(Bands(total, eff)[t])
           /\ 100 * total <= Floor[t] => t \notin Active(total, Bands(total, eff))
           /\ n < Warmup /\ t # "warning" =>
                 ClearLevel(Bands(total, eff)[t]) = Floor[t]
  <1> USE ColdWindowAssumption, EffectiveFacts
  <1>1. CASE t = "advisory"
    BY <1>1 DEF Bands, ClearLevel, Floor, Active, Tiers
  <1>2. CASE t = "caution"
    BY <1>2 DEF Bands, ClearLevel, Floor, Active, Tiers
  <1>3. CASE t = "warning"
    BY <1>3 DEF Bands, ClearLevel, Floor, Active, Tiers
  <1> QED BY <1>1, <1>2, <1>3 DEF Tiers

(* What a tick does to one tier. *)
TickOf(t, total, bands, active) ==
    /\ t \in DOMAIN history' <=> t \in DOMAIN history \/ t \in active
    /\ t \in active =>
          /\ history'[t] = [dwell |-> Dwell(t) + 1, clear |-> ClearLevel(bands[t])]
          /\ Dwell(t)' = Dwell(t) + 1
          /\ held'[t] = held[t] + 1
    /\ t \notin active => held'[t] = 0
    /\ t \notin active /\ t \notin DOMAIN history => Dwell(t) = 0 /\ Dwell(t)' = 0
    /\ t \notin active /\ t \in DOMAIN history =>
          /\ 100 * total <= history[t].clear =>
                /\ history'[t] = [dwell |-> 0, clear |-> history[t].clear]
                /\ Dwell(t)' = 0
          /\ 100 * total > history[t].clear =>
                /\ history'[t] = history[t]
                /\ Dwell(t)' = Dwell(t)
    /\ calm'[t] = IF 100 * total <= Floor[t] THEN 0 ELSE calm[t] + 1
    /\ alarm'[t] = IF t \in snap'.alerts THEN ClearLevel(bands[t])
                   ELSE IF 100 * total <= alarm[t] THEN 0 ELSE alarm[t]

(* A tick does that to every tier, and says what it did in its snapshot. *)
LEMMA EvaluateFacts ==
    ASSUME TypeOK, NEW total \in Totals, NEW eff \in Effective(version + 1),
           Evaluate(total, eff)
    PROVE  LET bands == Bands(total, eff)
               active == Active(total, bands)
           IN  /\ \A t \in Tiers : TickOf(t, total, bands, active)
               /\ snap'.active = active
               /\ snap'.alerts = {u \in active : history'[u].dwell >= MinDwell}
               /\ version' = version + 1
  <1> DEFINE bands == Bands(total, eff)
             active == Active(total, bands)
             settled == Settled(total, active, history)
             entries == Accrued(bands, active, settled)
  <1>1. active \subseteq Tiers
    BY DEF Active
  <1>2. /\ DOMAIN settled = DOMAIN history
        /\ \A u \in DOMAIN history :
              settled[u] = IF u \notin active /\ 100 * total <= history[u].clear
                           THEN [dwell |-> 0, clear |-> history[u].clear]
                           ELSE history[u]
    BY DEF Settled, TrulyCleared
  <1>3. /\ DOMAIN entries = DOMAIN history \cup active
        /\ \A u \in DOMAIN entries :
              entries[u] = IF u \in active
                           THEN [dwell |-> 1 + IF u \in DOMAIN settled THEN settled[u].dwell ELSE 0,
                                 clear |-> ClearLevel(bands[u])]
                           ELSE settled[u]
    <2> HIDE DEF settled, active, bands
    <2> QED BY <1>2 DEF Accrued
  <1>4. /\ history' = entries
        /\ version' = version + 1
        /\ snap' = [version |-> version + 1, total |-> total, active |-> active,
                    alerts |-> Alerts(active, entries), overrun |-> "none"]
        /\ Observe(total, bands, active, Alerts(active, entries))
    BY DEF Evaluate
  <1> HIDE DEF entries, settled, active, bands
  <1>5. /\ total \in Nat
        /\ \A u \in DOMAIN history : history[u] \in [dwell : Nat, clear : Nat]
        /\ held \in [Tiers -> Nat] /\ calm \in [Tiers -> Nat] /\ alarm \in [Tiers -> Nat]
    BY ColdWindowAssumption DEF TypeOK
  <1>6. /\ snap'.active = active
        /\ snap'.alerts = {u \in active : history'[u].dwell >= MinDwell}
    BY <1>4 DEF Alerts
  <1>7. ASSUME NEW t \in Tiers
        PROVE  TickOf(t, total, bands, active)
    <2>1. ASSUME t \in active
          PROVE  /\ history'[t] = [dwell |-> Dwell(t) + 1, clear |-> ClearLevel(bands[t])]
                 /\ Dwell(t)' = Dwell(t) + 1
      <3>1. entries[t] = [dwell |-> 1 + IF t \in DOMAIN settled THEN settled[t].dwell ELSE 0,
                          clear |-> ClearLevel(bands[t])]
        BY <1>3, <2>1
      <3>2. (IF t \in DOMAIN settled THEN settled[t].dwell ELSE 0) = Dwell(t)
        BY <1>2, <2>1 DEF Dwell
      <3>3. Dwell(t) \in Nat
        BY <1>5 DEF Dwell
      <3>4. entries[t] = [dwell |-> Dwell(t) + 1, clear |-> ClearLevel(bands[t])]
        BY <3>1, <3>2, <3>3
      <3>5. history'[t] = [dwell |-> Dwell(t) + 1, clear |-> ClearLevel(bands[t])]
        BY <3>4, <1>4
      <3>6. Dwell(t)' = history'[t].dwell
        BY <1>3, <1>4, <2>1 DEF Dwell
      <3> QED BY <3>5, <3>6
    <2>2. ASSUME t \notin active, t \in DOMAIN history
          PROVE  /\ 100 * total <= history[t].clear =>
                       /\ history'[t] = [dwell |-> 0, clear |-> history[t].clear]
                       /\ Dwell(t)' = 0
                 /\ 100 * total > history[t].clear =>
                       /\ history'[t] = history[t]
                       /\ Dwell(t)' = Dwell(t)
      <3>1. history'[t] = IF 100 * total <= history[t].clear
                          THEN [dwell |-> 0, clear |-> history[t].clear]
                          ELSE history[t]
        BY <1>2, <1>3, <1>4, <2>2
      <3>2. Dwell(t)' = history'[t].dwell /\ Dwell(t) = history[t].dwell
        BY <1>3, <1>4, <2>2 DEF Dwell
      <3>3. history[t].clear \in Nat
        BY <1>5, <2>2
      <3> QED BY <3>1, <3>2, <3>3, <1>5
    <2>3. t \notin active /\ t \notin DOMAIN history => Dwell(t) = 0 /\ Dwell(t)' = 0
      BY <1>3, <1>4 DEF Dwell
    <2>4. /\ held'[t] = IF t \in active THEN held[t] + 1 ELSE 0
          /\ calm'[t] = IF 100 * total <= Floor[t] THEN 0 ELSE calm[t] + 1
          /\ alarm'[t] = IF t \in snap'.alerts THEN ClearLevel(bands[t])
                         ELSE IF 100 * total <= alarm[t] THEN 0 ELSE alarm[t]
      BY <1>4, <1>5 DEF Observe
    <2> QED BY <1>3, <1>4, <2>1, <2>2, <2>3, <2>4 DEF TickOf
  <1> QED BY <1>4, <1>6, <1>7 DEF active, bands

-----------------------------------------------------------------------------
(* The policy's invariants hold of the snapshot a tick makes. *)
LEMMA EvaluateKeepsPolicy ==
    ASSUME TypeOK, PolicyInv, NEW total \in Totals, NEW eff \in Effective(version + 1),
           Evaluate(total, eff)
    PROVE  PolicyInv'
  <1> DEFINE bands == Bands(total, eff)
             active == Active(total, bands)
  <1>1. /\ total \in Nat
        /\ version \in Nat /\ version + 1 \in Nat
        /\ Warmup \in Nat
        /\ MinDwell \in Nat \ {0}
        /\ DOMAIN history \subseteq Tiers
        /\ active \subseteq Tiers
        /\ \A t \in DOMAIN history : history[t] \in [dwell : Nat, clear : Nat]
        /\ \A t \in Tiers : held[t] \in Nat /\ calm[t] \in Nat /\ alarm[t] \in Nat
    BY ColdWindowAssumption DEF TypeOK, Active
  <1>tick. /\ \A t \in Tiers : TickOf(t, total, bands, active)
           /\ snap'.active = active
           /\ snap'.alerts = {u \in active : history'[u].dwell >= MinDwell}
           /\ version' = version + 1
    BY EvaluateFacts
  <1>clears. \A t \in Tiers :
           /\ ClearLevel(bands[t]) \in Nat
           /\ Floor[t] \in Nat
           /\ Floor[t] <= ClearLevel(bands[t])
           /\ 100 * total <= Floor[t] => t \notin active
           /\ version + 1 < Warmup /\ t # "warning" => ClearLevel(bands[t]) = Floor[t]
    BY <1>1, BandFacts
  <1>2. \A t \in Tiers : Dwell(t) \in Nat
    BY <1>1 DEF Dwell
  <1>3. DOMAIN history' = DOMAIN history \cup active
    BY <1>1 DEF Evaluate, Accrued, Settled
  <1> HIDE DEF bands, active
  <1>4. Dwells'
    <2> SUFFICES ASSUME NEW t \in Tiers
                 PROVE  held'[t] <= Dwell(t)' /\ Dwell(t)' <= calm'[t]
      BY DEF Dwells
    <2>0. TickOf(t, total, bands, active)
      BY <1>tick
    <2>1. /\ held[t] <= Dwell(t) /\ Dwell(t) <= calm[t]
          /\ t \in DOMAIN history => Floor[t] <= history[t].clear
      BY DEF PolicyInv, Dwells, Floors
    <2>2. /\ Floor[t] \in Nat
          /\ 100 * total <= Floor[t] => t \notin active
      BY <1>clears
    <2>3. CASE t \in active
      <3>1. /\ Dwell(t)' = Dwell(t) + 1
            /\ held'[t] = held[t] + 1
            /\ calm'[t] = calm[t] + 1
        BY <2>2, <2>3, <2>0 DEF TickOf
      <3> QED BY <3>1, <2>1, <1>1, <1>2
    <2>4. CASE t \notin active /\ t \notin DOMAIN history
      <3>1. /\ Dwell(t)' = 0
            /\ held'[t] = 0
            /\ calm'[t] = IF 100 * total <= Floor[t] THEN 0 ELSE calm[t] + 1
        BY <2>4, <2>0 DEF TickOf
      <3> QED BY <3>1, <1>1
    <2>5. CASE t \notin active /\ t \in DOMAIN history
      <3>1. /\ 100 * total <= history[t].clear => Dwell(t)' = 0
            /\ 100 * total > history[t].clear => Dwell(t)' = Dwell(t)
            /\ held'[t] = 0
            /\ calm'[t] = IF 100 * total <= Floor[t] THEN 0 ELSE calm[t] + 1
        BY <2>5, <2>0 DEF TickOf
      <3>2. history[t].clear \in Nat
        BY <2>5, <1>1
      <3> QED BY <3>1, <3>2, <2>1, <2>2, <2>5, <1>1, <1>2
    <2> QED BY <2>3, <2>4, <2>5
  <1>5. Floors'
    <2> SUFFICES ASSUME NEW t \in DOMAIN history'
                 PROVE  Floor[t] <= history'[t].clear
      BY DEF Floors
    <2>1. t \in Tiers
      BY <1>1, <1>3
    <2>0. TickOf(t, total, bands, active)
      BY <1>tick, <2>1
    <2>2. CASE t \in active
      <3>1. history'[t].clear = ClearLevel(bands[t])
        BY <2>0, <2>2 DEF TickOf
      <3> QED BY <3>1, <2>1, <1>clears
    <2>3. CASE t \notin active
      <3>1. t \in DOMAIN history
        BY <2>3, <1>3
      <3>2. /\ 100 * total <= history[t].clear =>
                  history'[t] = [dwell |-> 0, clear |-> history[t].clear]
            /\ 100 * total > history[t].clear => history'[t] = history[t]
        BY <3>1, <2>1, <2>3, <2>0 DEF TickOf
      <3>3. history[t].clear \in Nat
        BY <3>1, <1>1
      <3>4. history'[t].clear = history[t].clear
        BY <3>2, <3>3, <1>1
      <3> QED BY <3>1, <3>4 DEF PolicyInv, Floors
    <2> QED BY <2>2, <2>3
  <1>6. Verdict'
    <2>1. /\ snap'.active = active
          /\ snap'.alerts = {u \in active : history'[u].dwell >= MinDwell}
      BY <1>tick
    <2>2. ASSUME NEW t \in Tiers, held'[t] > 0
          PROVE  t \in active
      <3>1. TickOf(t, total, bands, active)
        BY <1>tick
      <3> QED BY <3>1, <2>2 DEF TickOf
    <2> QED BY <2>1, <2>2, <1>3 DEF Verdict
  <1>7. Alarms'
    <2> SUFFICES ASSUME NEW t \in Tiers, alarm'[t] > 0
                 PROVE  /\ t \in DOMAIN history'
                        /\ history'[t].dwell >= MinDwell
                        /\ history'[t].clear = alarm'[t]
      BY DEF Alarms
    <2>0. TickOf(t, total, bands, active)
      BY <1>tick
    <2>1. /\ snap'.active = active
          /\ snap'.alerts = {u \in active : history'[u].dwell >= MinDwell}
          /\ alarm'[t] = IF t \in snap'.alerts THEN ClearLevel(bands[t])
                         ELSE IF 100 * total <= alarm[t] THEN 0 ELSE alarm[t]
      BY <1>tick, <2>0 DEF TickOf
    <2>2. CASE t \in snap'.alerts
      BY <2>0, <2>1, <2>2, <1>3 DEF TickOf
    <2>3. CASE t \notin snap'.alerts
      <3>1. alarm'[t] = alarm[t] /\ alarm[t] > 0 /\ ~(100 * total <= alarm[t])
        BY <2>1, <2>3, <1>1
      <3>2. /\ t \in DOMAIN history
            /\ history[t].dwell >= MinDwell
            /\ history[t].clear = alarm[t]
        BY <3>1 DEF PolicyInv, Alarms
      <3>3. t \notin active
        <4> SUFFICES ASSUME t \in active
                     PROVE  FALSE
          OBVIOUS
        <4>1. history'[t].dwell = Dwell(t) + 1
          BY <2>0 DEF TickOf
        <4>2. Dwell(t) = history[t].dwell
          BY <3>2 DEF Dwell
        <4> QED BY <4>1, <4>2, <3>2, <2>1, <2>3, <1>1
      <3>4. 100 * total > history[t].clear
        BY <3>1, <3>2, <1>1
      <3>5. history'[t] = history[t]
        BY <3>2, <3>3, <3>4, <2>0 DEF TickOf
      <3> QED BY <3>1, <3>2, <3>5, <1>3
    <2> QED BY <2>2, <2>3
  <1>8. Nested'
    <2> SUFFICES ASSUME version' < Warmup
                 PROVE  /\ Dwell("caution")' <= Dwell("advisory")'
                        /\ "caution" \in snap'.active => "advisory" \in snap'.active
                        /\ \A t \in DOMAIN history' :
                              t # "warning" => history'[t].clear = Floor[t]
      BY DEF Nested
    <2>1. version' = version + 1 /\ snap'.active = active
      BY <1>tick
    <2>2. version + 1 < Warmup /\ version < Warmup
      BY <2>1, <1>1
    <2>3. /\ Dwell("caution") <= Dwell("advisory")
          /\ \A t \in DOMAIN history : t # "warning" => history[t].clear = Floor[t]
      BY <2>2 DEF PolicyInv, Nested
    <2>4. \A t \in DOMAIN history' : t # "warning" => history'[t].clear = Floor[t]
      <3> SUFFICES ASSUME NEW t \in DOMAIN history', t # "warning"
                   PROVE  history'[t].clear = Floor[t]
        OBVIOUS
      <3>1. t \in Tiers
        BY <1>1, <1>3
      <3>0. TickOf(t, total, bands, active)
        BY <1>tick, <3>1
      <3>2. CASE t \in active
        <4>1. history'[t].clear = ClearLevel(bands[t])
          BY <3>0, <3>2 DEF TickOf
        <4> QED BY <4>1, <3>1, <2>2, <1>clears
      <3>3. CASE t \notin active
        <4>1. t \in DOMAIN history
          BY <3>3, <1>3
        <4>2. /\ 100 * total <= history[t].clear =>
                    history'[t] = [dwell |-> 0, clear |-> history[t].clear]
              /\ 100 * total > history[t].clear => history'[t] = history[t]
          BY <4>1, <3>0, <3>3 DEF TickOf
        <4>3. history[t].clear \in Nat
          BY <4>1, <1>1
        <4>4. history'[t].clear = history[t].clear
          BY <4>2, <4>3, <1>1
        <4> QED BY <4>1, <4>4, <2>3
      <3> QED BY <3>2, <3>3
    <2>5. /\ bands["advisory"] = 5 * Advisory
          /\ bands["caution"] = 5 * Caution
      BY <1>1, <2>2, EffectiveFacts DEF bands, Bands
    <2>6. "caution" \in active => "advisory" \in active
      BY <2>5, <1>1, ColdWindowAssumption DEF active, Active, Tiers
    <2>7. /\ 100 * total <= Floor["advisory"] => 100 * total <= Floor["caution"]
          /\ Floor["advisory"] \in Nat /\ Floor["caution"] \in Nat
      BY <1>1, ColdWindowAssumption DEF Floor, ClearLevel
    <2>8. Dwell("caution")' <= Dwell("advisory")'
      <3>1. /\ "advisory" \in Tiers /\ "caution" \in Tiers
            /\ Dwell("advisory") \in Nat /\ Dwell("caution") \in Nat
        BY <1>2 DEF Tiers
      <3>0. /\ TickOf("advisory", total, bands, active)
            /\ TickOf("caution", total, bands, active)
        BY <1>tick, <3>1
      <3>2. /\ "caution" \in active => Dwell("caution")' = Dwell("caution") + 1
            /\ "caution" \notin active =>
                  \/ Dwell("caution")' = 0
                  \/ Dwell("caution")' = Dwell("caution") /\ 100 * total > Floor["caution"]
        <4>1. CASE "caution" \notin active /\ "caution" \in DOMAIN history
          <5>1. history["caution"].clear = Floor["caution"]
            BY <4>1, <2>3
          <5> QED BY <5>1, <4>1, <3>0, <3>1, <2>7, <1>1 DEF TickOf
        <4> QED BY <4>1, <3>0, <3>1 DEF TickOf
      <3>3. /\ "advisory" \in active => Dwell("advisory")' = Dwell("advisory") + 1
            /\ "advisory" \notin active =>
                  \/ Dwell("advisory")' = Dwell("advisory")
                  \/ Dwell("advisory")' = 0 /\ 100 * total <= Floor["advisory"]
        <4>1. CASE "advisory" \notin active /\ "advisory" \in DOMAIN history
          <5>1. history["advisory"].clear = Floor["advisory"]
            BY <4>1, <2>3
          <5> QED BY <5>1, <4>1, <3>0, <3>1, <2>7, <1>1 DEF TickOf
        <4> QED BY <4>1, <3>0, <3>1 DEF TickOf
      <3> QED BY <3>1, <3>2, <3>3, <2>3, <2>6, <2>7, <1>1
    <2> QED BY <2>1, <2>4, <2>6, <2>8
  <1> QED BY <1>4, <1>5, <1>6, <1>7, <1>8 DEF PolicyInv

(* The channel keeps at most Capacity snapshots: the one just sent, and    *)
(* before it the latest of those it had, in their order.                   *)
LEMMA SentFacts ==
    ASSUME NEW S, NEW s \in S, bus \in Seq(S), Len(bus) <= Capacity
    PROVE  LET n == Len(Sent(s))
               d == Len(bus) + 1 - n
           IN  /\ Sent(s) \in Seq(S)
               /\ n \in 1..Capacity
               /\ Sent(s)[n] = s
               /\ \A i \in 1..(n - 1) : /\ i + d \in 1..Len(bus)
                                        /\ Sent(s)[i] = bus[i + d]
  <1>1. Capacity \in Nat \ {0} /\ Len(bus) \in Nat
    BY ColdWindowAssumption
  <1>2. CASE Len(bus) < Capacity
    <2>1. Sent(s) = Append(bus, s)
      BY <1>2 DEF Sent
    <2>2. /\ Sent(s) \in Seq(S)
          /\ Len(Sent(s)) = Len(bus) + 1
          /\ Sent(s)[Len(bus) + 1] = s
          /\ \A i \in 1..Len(bus) : Sent(s)[i] = bus[i]
      BY <2>1
    <2> QED BY <2>2, <1>1, <1>2
  <1>3. CASE ~(Len(bus) < Capacity)
    <2> DEFINE rest == Tail(bus)
    <2>1. Sent(s) = Append(rest, s)
      BY <1>3 DEF Sent
    <2>2. Len(bus) = Capacity /\ bus # <<>>
      BY <1>1, <1>3
    <2>3. /\ rest \in Seq(S)
          /\ Len(rest) = Len(bus) - 1
          /\ \A i \in 1..Len(rest) : rest[i] = bus[i + 1]
      BY <2>2
    <2> HIDE DEF rest
    <2>4. /\ Sent(s) \in Seq(S)
          /\ Len(Sent(s)) = Len(bus)
          /\ Sent(s)[Len(rest) + 1] = s
          /\ \A i \in 1..Len(rest) : Sent(s)[i] = rest[i]
      BY <2>1, <2>2, <2>3, <1>1
    <2>5. Sent(s)[Len(bus)] = s
      BY <2>3, <2>4, <1>1
    <2>6. \A i \in 1..(Len(bus) - 1) : i + 1 \in 1..Len(bus) /\ Sent(s)[i] = bus[i + 1]
      BY <2>3, <2>4, <1>1
    <2> QED BY <2>2, <2>4, <2>5, <2>6, <1>1
  <1> QED BY <1>2, <1>3

(* What the channel retains are numbered snapshots. *)
LEMMA BusFacts ==
    ASSUME bus \in Seq([version : Nat, total : Nat])
    PROVE  /\ Len(bus) \in Nat
           /\ bus # <<>> => Len(bus) \in 1..Len(bus) /\ 1 \in 1..Len(bus)
           /\ \A i \in 1..Len(bus) : bus[i] \in [version : Nat, total : Nat]
           /\ Newest \in Nat
           /\ Oldest \in Nat
  <1> DEFINE Record == [version : Nat, total : Nat]
  <1>1. bus \in Seq(Record)
    OBVIOUS
  <1> HIDE DEF Record
  <1>2. /\ Len(bus) \in Nat
        /\ bus # <<>> => Len(bus) \in 1..Len(bus) /\ 1 \in 1..Len(bus)
        /\ \A i \in 1..Len(bus) : bus[i] \in Record
    BY <1>1
  <1>3. \A r \in Record : r.version \in Nat
    BY DEF Record
  <1>4. Newest \in Nat /\ Oldest \in Nat
    BY <1>2, <1>3 DEF Newest, Oldest
  <1> QED BY <1>2, <1>4 DEF Record

(* The history a tick leaves behind is a history, and so are the ghosts. *)
LEMMA EvaluateTypes ==
    ASSUME TypeOK, NEW total \in Totals, NEW eff \in Effective(version + 1),
           Evaluate(total, eff)
    PROVE  TypeOK'
  <1> DEFINE bands == Bands(total, eff)
             active == Active(total, bands)
             entries == Accrued(bands, active, Settled(total, active, history))
  <1>1. /\ total \in Nat
        /\ version \in Nat
        /\ version + 1 \in Nat
        /\ active \subseteq Tiers
    BY ColdWindowAssumption DEF TypeOK, Active
  <1>clears. \A t \in Tiers : ClearLevel(bands[t]) \in Nat
    BY <1>1, BandFacts
  <1>2. \A t \in Tiers : TickOf(t, total, bands, active)
    BY EvaluateFacts
  <1>3. /\ history' = entries
        /\ snap' = [version |-> version + 1, total |-> total, active |-> active,
                    alerts |-> Alerts(active, entries), overrun |-> "none"]
        /\ version' = version + 1
        /\ stage' = "evaluated"
        /\ UNCHANGED <<overruns, killed, gate, bus, next, shown>>
        /\ Observe(total, bands, active, Alerts(active, entries))
    BY DEF Evaluate, channel
  <1>4. /\ DOMAIN entries = DOMAIN history \cup active
        /\ entries = [t \in DOMAIN entries |-> entries[t]]
    BY DEF Accrued, Settled
  <1> HIDE DEF bands, active, entries
  <1>5. ASSUME NEW t \in DOMAIN entries
        PROVE  entries[t] \in [dwell : Nat, clear : Nat]
    <2>1. t \in Tiers
      BY <1>1, <1>4 DEF TypeOK
    <2>2. TickOf(t, total, bands, active) /\ ClearLevel(bands[t]) \in Nat
      BY <1>clears, <1>2, <2>1
    <2>3. t \in DOMAIN history => history[t] \in [dwell : Nat, clear : Nat]
      BY DEF TypeOK
    <2>4. Dwell(t) \in Nat
      BY <2>3 DEF Dwell
    <2>5. CASE t \in active
      BY <2>2, <2>4, <2>5, <1>3 DEF TickOf
    <2>6. CASE t \notin active
      <3>1. t \in DOMAIN history
        BY <2>6, <1>4
      <3>2. \/ entries[t] = [dwell |-> 0, clear |-> history[t].clear]
            \/ entries[t] = history[t]
        BY <2>2, <2>3, <2>6, <3>1, <1>1, <1>3 DEF TickOf
      <3> QED BY <2>3, <3>1, <3>2
    <2> QED BY <2>5, <2>6
  <1>6. history' \in [DOMAIN history' -> [dwell : Nat, clear : Nat]]
    BY <1>3, <1>4, <1>5
  <1>7. DOMAIN history' \subseteq Tiers
    BY <1>1, <1>3, <1>4 DEF TypeOK
  <1>8. snap' \in Snapshots
    <2>1. Alerts(active, entries) \subseteq active
      BY DEF Alerts
    <2> QED BY <1>1, <1>3, <2>1 DEF Snapshots
  <1>9. /\ held' \in [Tiers -> Nat]
        /\ calm' \in [Tiers -> Nat]
        /\ alarm' \in [Tiers -> Nat]
    <2>1. /\ \A t \in Tiers : held[t] + 1 \in Nat /\ calm[t] + 1 \in Nat
          /\ \A t \in Tiers : alarm[t] \in Nat
      BY DEF TypeOK
    <2> QED BY <1>1, <1>clears, <1>3, <2>1 DEF Observe
  <1> QED BY <1>1, <1>3, <1>6, <1>7, <1>8, <1>9 DEF TypeOK

-----------------------------------------------------------------------------
(* The invariant holds at the start. *)
LEMMA InitInv == Init => IInv
  <1> SUFFICES ASSUME Init
               PROVE  IInv
    OBVIOUS
  <1>1. TypeOK
    <2>1. history \in [DOMAIN history -> [dwell : Nat, clear : Nat]] /\ DOMAIN history = {}
      BY DEF Init
    <2>2. /\ next \in [Viewers -> Nat] /\ gate \in [Adapters -> {"idle", "writing"}]
          /\ held \in [Tiers -> Nat] /\ calm \in [Tiers -> Nat] /\ alarm \in [Tiers -> Nat]
      BY DEF Init
    <2>3. /\ bus \in Seq([version : Nat, total : Nat])
          /\ Len(bus) = 0
      BY DEF Init
    <2>4. snap \in Snapshots
      BY DEF Init, Snapshots, NoSnapshot
    <2>5. /\ version \in Nat /\ overruns \in Nat
          /\ stage \in {"idle", "evaluated", "engaged"}
          /\ killed \in BOOLEAN /\ shown \in BOOLEAN
      BY DEF Init
    <2>6. 0 <= Capacity
      BY ColdWindowAssumption
    <2> QED BY <2>1, <2>2, <2>3, <2>4, <2>5, <2>6 DEF TypeOK
  <1>2. PolicyInv
    BY ColdWindowAssumption DEF Init, PolicyInv, Dwells, Floors, Alarms, Nested,
       Verdict, Dwell, NoSnapshot, Tiers
  <1>3. Locked /\ Numbered
    BY DEF Init, Locked, Numbered, Newest, NoSnapshot
  <1> QED BY <1>1, <1>2, <1>3 DEF IInv

(* The steps other than the policy's leave its state, and what of the      *)
(* snapshot its invariants speak of, as it is.                             *)
LEMMA PolicyFrame ==
    ASSUME PolicyInv, UNCHANGED <<version, policy>>,
           snap'.active = snap.active, snap'.alerts = snap.alerts
    PROVE  PolicyInv'
  BY DEF policy, PolicyInv, Dwells, Floors, Alarms, Nested, Verdict, Dwell

(* Every step keeps the invariant. *)
LEMMA NextInv == IInv /\ [Next]_vars => IInv'
  <1> SUFFICES ASSUME IInv, [Next]_vars
               PROVE  IInv'
    OBVIOUS
  <1> USE DEF IInv
  <1>1. ASSUME NEW total \in Totals, NEW eff \in Effective(version + 1),
               Evaluate(total, eff)
        PROVE  IInv'
    <2>1. TypeOK'
      BY <1>1, EvaluateTypes
    <2>2. PolicyInv'
      BY <1>1, EvaluateKeepsPolicy
    <2>3. Locked' /\ Numbered'
      BY <1>1 DEF Evaluate, channel, Locked, Numbered, Newest
    <2> QED BY <2>1, <2>2, <2>3
  <1>2. CASE Engage
    <2>1. TypeOK'
      BY <1>2 DEF Engage, policy, channel, TypeOK
    <2>2. PolicyInv'
      BY <1>2, PolicyFrame DEF Engage
    <2>3. Locked' /\ Numbered'
      BY <1>2 DEF Engage, channel, Locked, Numbered, Newest, Breaches, TypeOK, Snapshots
    <2> QED BY <2>1, <2>2, <2>3
  <1>3. ASSUME NEW slow \in BOOLEAN, Publish(slow)
        PROVE  IInv'
    <2> DEFINE record == [version |-> snap.version, total |-> snap.total]
    <2>1. /\ stage = "engaged" /\ stage' = "idle"
          /\ bus' = Sent(record)
          /\ UNCHANGED <<version, killed, next, gate, shown, policy>>
      BY <1>3 DEF Publish
    <2>2. /\ snap \in Snapshots
          /\ record \in [version : Nat, total : Nat]
      BY DEF TypeOK, Snapshots
    <2>3. /\ overruns' \in Nat
          /\ snap'.version = snap.version
          /\ snap'.active = snap.active /\ snap'.alerts = snap.alerts
      BY <1>3, <2>2 DEF Publish, TypeOK, Snapshots
    <2>4. snap' \in Snapshots
      <3>1. PICK o \in {"none", "status", "advisory"} : snap' = [snap EXCEPT !.overrun = o]
        BY <1>3 DEF Publish
      <3> QED BY <3>1, <2>2 DEF Snapshots
    <2> DEFINE n == Len(bus')
               d == Len(bus) + 1 - n
    <2>5. /\ bus \in Seq([version : Nat, total : Nat])
          /\ Len(bus) <= Capacity /\ Len(bus) \in Nat
          /\ Capacity \in Nat
      BY ColdWindowAssumption DEF TypeOK
    <2> HIDE DEF record
    <2>6. /\ bus' \in Seq([version : Nat, total : Nat])
          /\ n \in 1..Capacity
          /\ bus'[n] = record
          /\ \A i \in 1..(n - 1) : i + d \in 1..Len(bus) /\ bus'[i] = bus[i + d]
      BY <2>1, <2>2, <2>5, SentFacts
    <2>7. TypeOK'
      BY <2>1, <2>3, <2>4, <2>5, <2>6 DEF TypeOK, policy
    <2>8. PolicyInv'
      BY <2>1, <2>3, PolicyFrame
    <2>9. Locked'
      <3>1. ASSUME NEW i \in 1..n, bus'[i].total >= Budget
            PROVE  killed'
        <4>1. CASE i = n
          BY <2>1, <2>6, <3>1, <4>1 DEF record, Locked
        <4>2. CASE i # n
          <5>1. i \in 1..(n - 1)
            BY <2>5, <2>6, <4>2
          <5> QED BY <2>1, <2>6, <3>1, <5>1 DEF Locked
        <4> QED BY <4>1, <4>2
      <3> QED BY <2>1, <3>1 DEF Locked
    <2>10. Numbered'
      <3>1. Newest' = version
        BY <2>5, <2>6 DEF Newest, Numbered, record
      <3>2. /\ version = Newest + 1
            /\ Newest \in Int
        <4>1. Newest \in Nat
          BY <2>5, BusFacts
        <4> QED BY <2>1, <4>1 DEF Numbered
      <3>3. ASSUME NEW i \in 1..n
            PROVE  bus'[i].version = Newest' - n + i
        <4>1. CASE i = n
          BY <2>5, <2>6, <3>1, <3>2, <4>1 DEF record, Numbered
        <4>2. CASE i # n
          <5>1. i \in 1..(n - 1) /\ i + d \in 1..Len(bus)
            BY <2>5, <2>6, <4>2
          <5>2. bus'[i].version = Newest - Len(bus) + (i + d)
            BY <2>6, <5>1 DEF Numbered
          <5> QED BY <2>5, <2>6, <3>1, <3>2, <5>1, <5>2
        <4> QED BY <4>1, <4>2
      <3> QED BY <2>1, <2>3, <3>1, <3>3 DEF Numbered
    <2> QED BY <2>7, <2>8, <2>9, <2>10
  <1>4. ASSUME NEW v \in Viewers, Connect(v) \/ Disconnect(v) \/ Recv(v)
        PROVE  IInv'
    <2>1. UNCHANGED <<version, overruns, stage, snap, bus, killed, gate, policy>>
      BY <1>4 DEF Connect, Disconnect, Recv
    <2>2. /\ \A i \in 1..Len(bus) : bus[i] \in [version : Nat, total : Nat]
          /\ next \in [Viewers -> Nat]
          /\ Len(bus) \in Nat
          /\ bus # <<>> => Len(bus) \in 1..Len(bus) /\ 1 \in 1..Len(bus)
          /\ Newest \in Nat /\ Oldest \in Nat
      BY BusFacts DEF TypeOK
    <2>3. next' \in [Viewers -> Nat]
      BY <1>4, <2>2 DEF Connect, Disconnect, Recv
    <2>4. shown' \in BOOLEAN /\ (shown' => killed)
      <3>1. CASE Recv(v) /\ next[v] >= Oldest
        <4> DEFINE k == next[v] - Oldest + 1
        <4>1. /\ next[v] \in Nat
              /\ next[v] <= Newest
              /\ shown' = (shown \/ bus[k].total >= Budget)
          BY <3>1, <2>2 DEF Recv
        <4>2. k \in 1..Len(bus)
          <5>1. bus # <<>>
            BY <3>1, <4>1 DEF Newest, Recv
          <5>2. Oldest = Newest - Len(bus) + 1
            BY <5>1, <2>2 DEF Oldest, Numbered
          <5> QED BY <3>1, <4>1, <5>2, <2>2
        <4>3. bus[k].total >= Budget => killed
          BY <4>2 DEF Locked
        <4> QED BY <4>1, <4>3 DEF Locked, TypeOK
      <3>2. CASE ~(Recv(v) /\ next[v] >= Oldest)
        <4>1. shown' = shown
          BY <1>4, <3>2, <2>2 DEF Connect, Disconnect, Recv
        <4> QED BY <4>1 DEF Locked, TypeOK
      <3> QED BY <3>1, <3>2
    <2>5. TypeOK'
      BY <2>1, <2>3, <2>4 DEF TypeOK, policy
    <2>6. PolicyInv'
      BY <2>1, PolicyFrame
    <2>7. Locked' /\ Numbered'
      BY <2>1, <2>4 DEF Locked, Numbered, Newest
    <2> QED BY <2>5, <2>6, <2>7
  <1>5. ASSUME NEW a \in Adapters, BeginWrite(a) \/ EndWrite(a)
        PROVE  IInv'
    <2>1. /\ UNCHANGED <<version, overruns, stage, snap, killed, policy, channel>>
          /\ gate' \in [Adapters -> {"idle", "writing"}]
      BY <1>5 DEF BeginWrite, EndWrite, TypeOK
    <2>2. TypeOK'
      BY <2>1 DEF TypeOK, policy, channel
    <2>3. PolicyInv'
      BY <2>1, PolicyFrame
    <2>4. Locked' /\ Numbered'
      BY <2>1 DEF Locked, Numbered, Newest, channel
    <2> QED BY <2>2, <2>3, <2>4
  <1>6. CASE UNCHANGED vars
    <2>1. TypeOK'
      BY <1>6 DEF vars, TypeOK
    <2>2. PolicyInv'
      BY <1>6, PolicyFrame DEF vars, policy
    <2>3. Locked' /\ Numbered'
      BY <1>6 DEF vars, Locked, Numbered, Newest
    <2> QED BY <2>1, <2>2, <2>3
  <1> QED BY <1>1, <1>2, <1>3, <1>4, <1>5, <1>6 DEF Next, Tick

(* The invariant holds in every state of every behaviour. *)
THEOREM InvariantHolds == Spec => []IInv
  BY InitInv, NextInv, PTL DEF Spec

-----------------------------------------------------------------------------
(* Every variable keeps its type: in particular the channel never retains  *)
(* more snapshots than its capacity.                                       *)
THEOREM TypeCorrect == Spec => []TypeOK
  <1>1. IInv => TypeOK
    BY DEF IInv
  <1> QED BY <1>1, InvariantHolds, PTL

(* Fleeting spikes stay silent: whatever the thresholds do, no tier alerts *)
(* less than MinDwell ticks after the total was clearly below it.          *)
THEOREM SpikesAlwaysStaySilent == Spec => []SpikesStaySilent
  <1>1. IInv => SpikesStaySilent
    <2> SUFFICES ASSUME IInv, NEW t \in snap.alerts
                 PROVE  calm[t] >= MinDwell
      BY DEF SpikesStaySilent
    <2>1. /\ t \in Tiers /\ t \in DOMAIN history
          /\ history[t].dwell >= MinDwell
          /\ history[t].dwell \in Nat /\ calm[t] \in Nat
      BY DEF IInv, PolicyInv, Verdict, TypeOK
    <2>2. history[t].dwell <= calm[t]
      BY <2>1 DEF IInv, PolicyInv, Dwells, Dwell
    <2> QED BY <2>1, <2>2, ColdWindowAssumption
  <1> QED BY <1>1, InvariantHolds, PTL

(* A condition that held on each of the last MinDwell ticks is alerted. *)
THEOREM LastingConditionsAlwaysAlert == Spec => []LastingConditionAlerts
  <1>1. IInv => LastingConditionAlerts
    <2> SUFFICES ASSUME IInv, NEW t \in Tiers, held[t] >= MinDwell
                 PROVE  t \in snap.alerts
      BY DEF LastingConditionAlerts
    <2>1. held[t] \in Nat /\ MinDwell \in Nat \ {0}
      BY ColdWindowAssumption DEF IInv, TypeOK
    <2>2. t \in snap.active /\ t \in DOMAIN history
      BY <2>1 DEF IInv, PolicyInv, Verdict
    <2>3. held[t] <= history[t].dwell /\ history[t].dwell \in Nat
      BY <2>2 DEF IInv, TypeOK, PolicyInv, Dwells, Dwell
    <2> QED BY <2>1, <2>2, <2>3 DEF IInv, PolicyInv, Verdict
  <1> QED BY <1>1, InvariantHolds, PTL

(* Hysteresis: an alarm that the total has not cleared alerts on every     *)
(* tick on which its condition holds, without a second dwell.              *)
THEOREM AlarmsAlwaysOutliveDips == Spec => []AlarmOutlivesDips
  <1>1. IInv => AlarmOutlivesDips
    BY DEF IInv, TypeOK, Snapshots, PolicyInv, Alarms, Verdict, AlarmOutlivesDips
  <1> QED BY <1>1, InvariantHolds, PTL

(* Before the warm-up Caution is never alerted without Advisory. *)
THEOREM EscalationsAlwaysNested == Spec => []EscalationIsNested
  <1>1. IInv => EscalationIsNested
    <2> SUFFICES ASSUME IInv, version < Warmup, "caution" \in snap.alerts
                 PROVE  "advisory" \in snap.alerts
      BY DEF EscalationIsNested
    <2>1. /\ "caution" \in snap.active /\ "caution" \in DOMAIN history
          /\ history["caution"].dwell >= MinDwell
      BY DEF IInv, PolicyInv, Verdict
    <2>2. "advisory" \in snap.active /\ "advisory" \in DOMAIN history
      BY <2>1 DEF IInv, PolicyInv, Nested, Verdict
    <2>3. history["caution"].dwell <= history["advisory"].dwell
      BY <2>1, <2>2 DEF IInv, PolicyInv, Nested, Dwell
    <2>4. history["caution"].dwell \in Nat /\ history["advisory"].dwell \in Nat
      BY <2>1, <2>2 DEF IInv, TypeOK
    <2>5. history["advisory"].dwell >= MinDwell
      BY <2>1, <2>3, <2>4, ColdWindowAssumption
    <2> QED BY <2>2, <2>5 DEF IInv, PolicyInv, Verdict
  <1> QED BY <1>1, InvariantHolds, PTL

(* No adapter begins a write once a viewer was shown a breach. *)
THEOREM BreachAlwaysStopsSync == Spec => BreachStopsSync
  <1>1. IInv => \A a \in Adapters : BeginWrite(a) => ~shown
    BY DEF IInv, Locked, BeginWrite, MayWrite
  <1>2. IInv /\ [Next]_vars => [\A a \in Adapters : BeginWrite(a) => ~shown]_vars
    BY <1>1
  <1> QED BY <1>2, InvariantHolds, PTL DEF Spec, BreachStopsSync

-----------------------------------------------------------------------------
(* The viewers' progress, but for the fairness that drives it.             *)

(* The channel retains a run of consecutive snapshots, Oldest to Newest,   *)
(* each at the place its number says.                                      *)
LEMMA RetainedFacts ==
    ASSUME IInv
    PROVE  /\ Newest \in Nat /\ Oldest \in Nat
           /\ bus # <<>> => Oldest = Newest - Len(bus) + 1 /\ Oldest <= Newest
           /\ \A n \in Nat : bus # <<>> => (Retains(n) <=> n \in Oldest..Newest)
           /\ \A n \in Nat : n \in Oldest..Newest =>
                 /\ n - Oldest + 1 \in 1..Len(bus)
                 /\ bus[n - Oldest + 1].version = n
  <1>1. /\ Newest \in Nat /\ Oldest \in Nat /\ Len(bus) \in Nat
        /\ bus # <<>> => 1 \in 1..Len(bus) /\ Len(bus) \in 1..Len(bus)
    BY BusFacts DEF IInv, TypeOK
  <1>2. \A i \in 1..Len(bus) : bus[i].version = Newest - Len(bus) + i
    BY DEF IInv, Numbered
  <1>3. bus # <<>> => Oldest = Newest - Len(bus) + 1 /\ Oldest <= Newest
    BY <1>1, <1>2 DEF Oldest
  <1>4. bus = <<>> => Oldest = 1 /\ Newest = 0
    BY DEF Oldest, Newest
  <1>5. ASSUME NEW n \in Nat, n \in Oldest..Newest
        PROVE  n - Oldest + 1 \in 1..Len(bus) /\ bus[n - Oldest + 1].version = n
    <2>1. bus # <<>>
      BY <1>4, <1>5
    <2>2. n - Oldest + 1 \in 1..Len(bus)
      BY <1>1, <1>3, <1>5, <2>1
    <2>3. bus[n - Oldest + 1].version = Newest - Len(bus) + (n - Oldest + 1)
      BY <1>2, <2>2
    <2> QED BY <1>1, <1>3, <2>1, <2>2, <2>3
  <1>6. ASSUME NEW n \in Nat, bus # <<>>
        PROVE  Retains(n) <=> n \in Oldest..Newest
    <2>1. ASSUME NEW i \in 1..Len(bus), bus[i].version = n
          PROVE  n \in Oldest..Newest
      BY <1>1, <1>2, <1>3, <1>6, <2>1
    <2> QED BY <1>5, <2>1 DEF Retains
  <1> QED BY <1>1, <1>3, <1>5, <1>6

(* What is sent last is never taken back. *)
LEMMA NewestGrows == IInv /\ [Next]_vars => Newest \in Nat /\ Newest' \in Nat /\ Newest <= Newest'
  <1> SUFFICES ASSUME IInv, [Next]_vars
               PROVE  Newest \in Nat /\ Newest' \in Nat /\ Newest <= Newest'
    OBVIOUS
  <1>1. IInv'
    BY NextInv
  <1>2. Newest \in Nat
    BY BusFacts DEF IInv, TypeOK
  <1>3. CASE bus' = bus
    BY <1>2, <1>3 DEF Newest
  <1>4. ASSUME NEW slow \in BOOLEAN, Publish(slow)
        PROVE  Newest' \in Nat /\ Newest <= Newest'
    BY <1>1, <1>2, <1>4 DEF Publish, IInv, Numbered, TypeOK
  <1>5. \/ bus' = bus
        \/ \E slow \in BOOLEAN : Publish(slow)
    BY DEF Next, Tick, Evaluate, Engage, Connect, Disconnect, Recv, BeginWrite,
           EndWrite, channel, vars
  <1> QED BY <1>2, <1>3, <1>4, <1>5

(* Every turn of a stream moves its viewer on, in the order of the ticks,  *)
(* and misses nothing the channel still retains.                           *)
THEOREM StreamsAlwaysInOrder == Spec => StreamsInOrder
  <1>1. ASSUME IInv, NEW v \in Viewers, Recv(v)
        PROVE  /\ next'[v] > next[v]
               /\ next'[v] <= Newest + 1
               /\ IF Retains(next[v])
                  THEN /\ next'[v] = next[v] + 1
                       /\ bus[next[v] - Oldest + 1].version = next[v]
                  ELSE /\ Retains(next'[v])
                       /\ \A n \in next[v]..(next'[v] - 1) : ~Retains(n)
    <2>1. /\ next \in [Viewers -> Nat] /\ next[v] \in Nat \ {0}
          /\ next[v] <= Newest /\ Newest \in Nat /\ Oldest \in Nat
      BY <1>1, RetainedFacts DEF Recv, IInv, TypeOK
    <2>2. bus # <<>>
      BY <2>1 DEF Newest
    <2>3. Oldest <= Newest
      BY <1>1, <2>2, RetainedFacts
    <2>4. \A n \in Nat : Retains(n) <=> n \in Oldest..Newest
      BY <1>1, <2>2, RetainedFacts
    <2>5. CASE next[v] < Oldest
      <3>1. next'[v] = Oldest
        BY <1>1, <2>1, <2>5 DEF Recv
      <3> QED BY <2>1, <2>3, <2>4, <2>5, <3>1
    <2>6. CASE ~(next[v] < Oldest)
      <3>1. next'[v] = next[v] + 1
        BY <1>1, <2>1, <2>6 DEF Recv
      <3>2. next[v] \in Oldest..Newest
        BY <2>1, <2>6
      <3>3. bus[next[v] - Oldest + 1].version = next[v]
        BY <1>1, <2>1, <3>2, RetainedFacts
      <3> QED BY <2>1, <2>4, <3>1, <3>2, <3>3
    <2> QED BY <2>5, <2>6
  <1>2. IInv /\ [Next]_vars =>
          [\A v \in Viewers : Recv(v) =>
             /\ next'[v] > next[v]
             /\ next'[v] <= Newest + 1
             /\ IF Retains(next[v])
                THEN /\ next'[v] = next[v] + 1
                     /\ bus[next[v] - Oldest + 1].version = next[v]
                ELSE /\ Retains(next'[v])
                     /\ \A n \in next[v]..(next'[v] - 1) : ~Retains(n)]_vars
    BY <1>1
  <1> QED BY <1>2, InvariantHolds, PTL DEF Spec, StreamsInOrder

(* A waiting viewer stays due, so that its fair stream reaches it: with    *)
(* StreamsAlwaysInOrder all of ViewersCatchUp but the fairness.            *)
THEOREM WaitingAlwaysStaysDue == Spec => WaitingStaysDue
  <1>1. ASSUME IInv, [Next]_vars, NEW v \in Viewers, next[v] \in 1..Newest
        PROVE  \/ next'[v] = 0
               \/ next'[v] > next[v]
               \/ next'[v] = next[v] /\ next'[v] <= Newest'
    <2>1. /\ next \in [Viewers -> Nat] /\ next[v] \in Nat
          /\ Newest \in Nat /\ Newest' \in Nat /\ Newest <= Newest'
      BY <1>1, NewestGrows DEF IInv, TypeOK
    <2>2. CASE next' = next
      BY <1>1, <2>1, <2>2
    <2>3. ASSUME NEW u \in Viewers, Connect(u) \/ Disconnect(u)
          PROVE  next'[v] = 0 \/ next'[v] = next[v]
      BY <1>1, <2>1, <2>3 DEF Connect, Disconnect
    <2>4. ASSUME NEW u \in Viewers, Recv(u)
          PROVE  next'[v] > next[v] \/ next'[v] = next[v]
      <3>1. Oldest \in Nat
        BY <1>1, RetainedFacts
      <3> QED BY <2>1, <2>4, <3>1 DEF Recv
    <2>5. \/ next' = next
          \/ \E u \in Viewers : Connect(u) \/ Disconnect(u) \/ Recv(u)
      BY <1>1 DEF Next, Tick, Evaluate, Engage, Publish, BeginWrite, EndWrite,
                  channel, vars
    <2> QED BY <1>1, <2>1, <2>2, <2>3, <2>4, <2>5
  <1>2. IInv /\ [Next]_vars =>
          [\A v \in Viewers : next[v] \in 1..Newest =>
             \/ next'[v] = 0
             \/ next'[v] > next[v]
             \/ next'[v] = next[v] /\ next'[v] <= Newest']_vars
    BY <1>1
  <1> QED BY <1>2, InvariantHolds, PTL DEF Spec, WaitingStaysDue
=============================================================================
