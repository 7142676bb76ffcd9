---------------------- MODULE ProviderReliabilityProofs ----------------------
(***************************************************************************)
(* Safety of the reliability tracker for every number of providers and     *)
(* concurrent calls, every threshold, cooldown and fallback cap, and no    *)
(* bound on time.                                                          *)
(***************************************************************************)
EXTENDS ProviderReliability, FiniteSetTheorems, SequenceTheorems, TLAPS

-----------------------------------------------------------------------------
(* The breaker alone.                                                      *)

(* A failure report keeps a breaker well formed, and never leaves it       *)
(* half-open; an open outcome was either opened now or is unchanged.       *)
LEMMA FailureOutcome ==
  ASSUME NEW c \in Circuit, WellFormed(c), NEW t \in Nat
  PROVE  /\ RecordFailure(c, t) \in Circuit
         /\ WellFormed(RecordFailure(c, t))
         /\ RecordFailure(c, t).state # "half-open"
         /\ RecordFailure(c, t).openedAt \in {NoTime, t}
         /\ RecordFailure(c, t).state = "closed" => c.state = "closed"
<1> USE PolicyAssumption DEF Circuit, WellFormed, NoTime
<1>1. CASE c.state = "half-open"
  BY <1>1 DEF RecordFailure
<1>2. CASE c.state # "half-open" /\ c.failures + 1 >= FailureThreshold
  BY <1>2 DEF RecordFailure
<1>3. CASE c.state # "half-open" /\ ~(c.failures + 1 >= FailureThreshold)
  BY <1>3 DEF RecordFailure
<1>4. QED BY <1>1, <1>2, <1>3

(* A success report always leaves a well-formed closed breaker.            *)
LEMMA SuccessOutcome ==
  ASSUME NEW c
  PROVE  /\ RecordSuccess(c) \in Circuit
         /\ WellFormed(RecordSuccess(c))
         /\ RecordSuccess(c).state = "closed"
         /\ RecordSuccess(c).openedAt = NoTime
BY PolicyAssumption DEF Circuit, WellFormed, RecordSuccess, NewCircuit, NoTime

(* Admitting a probe-ready breaker makes it half-open; it was open and its *)
(* cooldown had passed.                                                    *)
LEMMA AllowOutcome ==
  ASSUME NEW c \in Circuit, WellFormed(c), NEW t \in Nat,
         Admission(c, t) = "probe-ready"
  PROVE  /\ Allow(c, t) \in Circuit
         /\ WellFormed(Allow(c, t))
         /\ Allow(c, t).state = "half-open"
         /\ Allow(c, t).openedAt = c.openedAt
         /\ c.state = "open"
         /\ t >= c.openedAt + CooldownMs
BY PolicyAssumption
   DEF Circuit, WellFormed, Allow, Admission, CooledDown, NoTime
-----------------------------------------------------------------------------
(* The tracker's operations.                                               *)

TrackerType ==
  /\ now \in Nat
  /\ circuit \in [Providers -> Circuit]
  /\ openedUntil \in [Providers -> Nat \cup {NoTime}]
  /\ probedAt \in [Providers -> Nat \cup {NoTime}]

TrackerInv == TrackerType /\ CircuitsConsistent /\ HealthMirrorsCircuit /\ ProbeOrder

(* Whatever an attempt on p reports, the tracker stays consistent, p is no *)
(* longer half-open and no other provider is touched.                      *)
LEMMA ReportEffect ==
  ASSUME TrackerInv, NEW p \in Providers,
         TrackSuccess(p) \/ TrackFailure(p) \/ TrackReachable(p) \/ ReleaseProbe(p),
         UNCHANGED <<now, probedAt>>
  PROVE  /\ TrackerInv'
         /\ circuit'[p].state # "half-open"
         /\ \A q \in Providers \ {p} : circuit'[q] = circuit[q]
<1> USE DEF TrackerInv, TrackerType
<1>1. CASE TrackSuccess(p)
  <2>1. circuit' = [circuit EXCEPT ![p] = RecordSuccess(circuit[p])]
    BY <1>1 DEF TrackSuccess
  <2>2. openedUntil' = [openedUntil EXCEPT ![p] = NoTime]
    BY <1>1 DEF TrackSuccess
  <2>3. TrackerType'
    BY <2>1, <2>2, SuccessOutcome
  <2>4. CircuitsConsistent'
    BY <2>1, SuccessOutcome DEF CircuitsConsistent, NoTime
  <2>5. HealthMirrorsCircuit'
    BY <2>1, <2>2, SuccessOutcome DEF HealthMirrorsCircuit, NextProbeAt
  <2>6. ProbeOrder'
    BY <2>1, SuccessOutcome DEF ProbeOrder
  <2>7. QED BY <2>1, <2>3, <2>4, <2>5, <2>6, SuccessOutcome
<1>2. CASE TrackFailure(p)
  <2> DEFINE cb == RecordFailure(circuit[p], now)
  <2>1. circuit' = [circuit EXCEPT ![p] = cb]
    BY <1>2 DEF TrackFailure
  <2>2. openedUntil' = [openedUntil EXCEPT ![p] = CooldownShown(cb, openedUntil[p])]
    BY <1>2 DEF TrackFailure
  <2>3. /\ cb \in Circuit /\ WellFormed(cb)
        /\ cb.state # "half-open" /\ cb.openedAt \in {NoTime, now}
        /\ cb.state = "closed" => circuit[p].state = "closed"
    BY FailureOutcome DEF CircuitsConsistent
  <2> HIDE DEF cb
  <2>4. CooldownShown(cb, openedUntil[p]) =
          IF cb.state = "open" THEN NextProbeAt(cb) ELSE NoTime
    BY <2>3 DEF CooldownShown, HealthMirrorsCircuit, Circuit
  <2>5. NextProbeAt(cb) \in Nat \cup {NoTime}
    BY <2>3, PolicyAssumption DEF NextProbeAt, Circuit
  <2>6. TrackerType'
    BY <2>1, <2>2, <2>3, <2>4, <2>5
  <2>7. CircuitsConsistent'
    BY <2>1, <2>3 DEF CircuitsConsistent, NoTime
  <2>8. HealthMirrorsCircuit'
    BY <2>1, <2>2, <2>4 DEF HealthMirrorsCircuit
  <2>9. ProbeOrder'
    BY <2>1, <2>3 DEF ProbeOrder, WellFormed
  <2>10. QED BY <2>1, <2>3, <2>6, <2>7, <2>8, <2>9
<1>3. CASE TrackReachable(p)
  BY <1>1, <1>3 DEF TrackReachable, tracker, TrackerInv, TrackerType,
       CircuitsConsistent, HealthMirrorsCircuit, ProbeOrder
<1>4. CASE ReleaseProbe(p)
  BY <1>2, <1>4 DEF ReleaseProbe, tracker, TrackerInv, TrackerType,
       CircuitsConsistent, HealthMirrorsCircuit, ProbeOrder
<1>5. QED BY <1>1, <1>2, <1>3, <1>4
-----------------------------------------------------------------------------
(* The calls.                                                              *)

(* A call in flight has a provider.                                        *)
LEMMA ProviderType ==
  ASSUME TypeOK, CallsWellFormed, NEW c \in Calls, InFlight(c)
  PROVE  Provider(c) \in Providers
<1>1. at[c] \in DOMAIN route[c] /\ route[c] \in Seq(Providers)
  BY DEF TypeOK, InFlight, CallsWellFormed
<1>2. QED BY <1>1 DEF Provider

(* A plan is a sequence of providers other than the primary.               *)
LEMMA PlanType ==
  ASSUME NEW p \in Providers, NEW plan \in Plans(p)
  PROVE  plan \in Seq(Providers)
<1> DEFINE ready == Admitted(p, "probe-ready")
           candidates == ready \cup Admitted(p, "closed")
           size == IF Cardinality(candidates) < MaxFallbacks
                   THEN Cardinality(candidates) ELSE MaxFallbacks
<1>1. candidates \subseteq Providers
  BY DEF Admitted
<1>2. Cardinality(candidates) \in Nat
  BY <1>1, FS_Subset, FS_CardinalityType, FallbackAssumption
<1>3. size \in Nat
  BY <1>2, FallbackAssumption
<1>4. plan \in [1..size -> candidates]
  BY DEF Plans
<1> HIDE DEF candidates, size
<1>5. QED BY <1>1, <1>3, <1>4

(* What a settled attempt changes: the tracker's entry of its provider and *)
(* the call's own progress.                                                *)
LEMMA SettleEffect ==
  ASSUME IInv, NEW c \in Calls, Settle(c)
  PROVE  /\ Attempting(c)
         /\ TrackerInv'
         /\ circuit'[Provider(c)].state # "half-open"
         /\ \A q \in Providers \ {Provider(c)} : circuit'[q] = circuit[q]
         /\ \/ /\ at' = [at EXCEPT ![c] = @ + 1] /\ pc' = pc
               /\ at[c] > 1 /\ at[c] < Len(route[c])
            \/ at' = at /\ pc' = [pc EXCEPT ![c] = "planning"] /\ at[c] = 1
            \/ at' = at /\ pc' = [pc EXCEPT ![c] = "done"]
<1> USE DEF Settle, AttemptSucceeds, AttemptHitsCache, AttemptNotMade,
        AttemptRefused, AttemptFails
<1>1. Attempting(c)
  OBVIOUS
<1>2. Provider(c) \in Providers
  BY <1>1, ProviderType DEF IInv, Attempting, InFlight
<1>3. TrackerInv
  BY DEF IInv, TrackerInv, TypeOK, TrackerType
<1>4. \/ TrackSuccess(Provider(c)) \/ TrackFailure(Provider(c))
      \/ TrackReachable(Provider(c)) \/ ReleaseProbe(Provider(c))
  OBVIOUS
<1>5. UNCHANGED <<now, probedAt>>
  BY <1>1 DEF Attempting, reservations
<1>6. /\ TrackerInv'
      /\ circuit'[Provider(c)].state # "half-open"
      /\ \A q \in Providers \ {Provider(c)} : circuit'[q] = circuit[q]
  BY <1>2, <1>3, <1>4, <1>5, ReportEffect
<1>7. \/ /\ at' = [at EXCEPT ![c] = @ + 1] /\ pc' = pc
         /\ at[c] > 1 /\ at[c] < Len(route[c])
      \/ at' = at /\ pc' = [pc EXCEPT ![c] = "planning"] /\ at[c] = 1
      \/ at' = at /\ pc' = [pc EXCEPT ![c] = "done"]
  BY DEF Finish
<1>8. QED BY <1>1, <1>6, <1>7

(* What the attempts report about outages and answers keeps a closed       *)
(* breaker's count above the outages it has to answer for.                 *)
LEMMA SettleCounts ==
  ASSUME IInv, NEW c \in Calls, Settle(c)
  PROVE  silent' \in [Providers -> Nat] /\ OutagesCounted'
<1> DEFINE p == Provider(c)
<1>1. p \in Providers
  BY ProviderType DEF IInv, InFlight, Settle, AttemptSucceeds, AttemptHitsCache,
     AttemptNotMade, AttemptRefused, AttemptFails, Attempting
<1>2. /\ circuit \in [Providers -> Circuit] /\ silent \in [Providers -> Nat] /\ now \in Nat
      /\ \A q \in Providers : circuit[q].state = "closed" => silent[q] <= circuit[q].failures
      /\ WellFormed(circuit[p])
  BY <1>1 DEF IInv, TypeOK, OutagesCounted, CircuitsConsistent
<1>3. TrackFailure(p) =>
        /\ \A q \in Providers \ {p} : circuit'[q] = circuit[q]
        /\ circuit'[p].state = "closed" =>
             circuit[p].state = "closed" /\ circuit'[p].failures = circuit[p].failures + 1
  BY <1>1, <1>2 DEF TrackFailure, RecordFailure, Circuit, WellFormed
<1>4. TrackSuccess(p) =>
        /\ \A q \in Providers \ {p} : circuit'[q] = circuit[q]
        /\ circuit'[p].failures = 0
  BY <1>1, <1>2 DEF TrackSuccess, RecordSuccess, NewCircuit
<1> HIDE DEF p
<1>5. CASE AttemptSucceeds(c) \/ AttemptRefused(c)
  <2>1. silent' = [silent EXCEPT ![p] = 0]
    BY <1>5 DEF AttemptSucceeds, AttemptRefused, Answered, p
  <2>2. TrackSuccess(p) \/ circuit' = circuit
    BY <1>5 DEF AttemptSucceeds, AttemptRefused, TrackReachable, tracker, p
  <2>3. /\ \A q \in Providers \ {p} : circuit'[q] = circuit[q]
        /\ circuit'[p].failures \in Nat
    BY <1>1, <1>2, <1>4, <2>2 DEF Circuit
  <2>4. QED BY <1>1, <1>2, <2>1, <2>3 DEF OutagesCounted
<1>6. CASE AttemptHitsCache(c) \/ AttemptNotMade(c)
  <2>1. silent' = silent
    BY <1>6 DEF AttemptHitsCache, AttemptNotMade
  <2>2. circuit' = circuit \/ (circuit[p].state = "half-open" /\ TrackFailure(p))
    BY <1>6 DEF AttemptHitsCache, AttemptNotMade, ReleaseProbe, tracker, p
  <2>3. \A q \in Providers : circuit'[q].state = "closed" => circuit'[q] = circuit[q]
    BY <1>3, <2>2
  <2>4. QED BY <1>2, <2>1, <2>3 DEF OutagesCounted
<1>7. CASE AttemptFails(c)
  <2>1. silent' = [silent EXCEPT ![p] = silent[p] + 1] /\ TrackFailure(p)
    BY <1>7 DEF AttemptFails, p
  <2>2. circuit[p].failures \in Nat /\ silent[p] \in Nat
    BY <1>1, <1>2 DEF Circuit
  <2>3. QED BY <1>1, <1>2, <1>3, <2>1, <2>2 DEF OutagesCounted
<1>8. QED BY <1>5, <1>6, <1>7 DEF Settle

(* A settled attempt of c keeps every other reservation: those of other    *)
(* calls, and those c has planned for later attempts.                      *)
LEMMA SettleKeepsInv ==
  ASSUME IInv, NEW c \in Calls, Settle(c)
  PROVE  IInv'
<1>1. pc[c] = "attempting" /\ UNCHANGED <<now, sticky, route, probes, probedAt, prober>>
  BY SettleEffect DEF Attempting, reservations
<1>2. /\ \A d \in Calls \ {c} : pc'[d] = pc[d] /\ at'[d] = at[d]
      /\ \/ pc'[c] = "attempting" /\ at'[c] = at[c] + 1 /\ at[c] > 1 /\ at[c] < Len(route[c])
         \/ pc'[c] = "planning" /\ at'[c] = at[c] /\ at[c] = 1
         \/ pc'[c] = "done" /\ at'[c] = at[c]
  BY <1>1, SettleEffect DEF IInv, TypeOK
<1>3. TypeOK'
  <2> DEFINE PCs == {"idle", "attempting", "planning", "done"}
  <2>1. at' \in [Calls -> Nat] /\ pc' \in [Calls -> PCs]
    <3>1. at \in [Calls -> Nat] /\ pc \in [Calls -> PCs]
      BY DEF IInv, TypeOK
    <3>2. CASE at' = [at EXCEPT ![c] = @ + 1] /\ pc' = pc
      BY <3>1, <3>2
    <3>3. CASE at' = at /\ pc' = [pc EXCEPT ![c] = "planning"]
      BY <3>1, <3>3
    <3>4. CASE at' = at /\ pc' = [pc EXCEPT ![c] = "done"]
      BY <3>1, <3>4
    <3>5. QED BY <3>2, <3>3, <3>4, SettleEffect
  <2>2. TrackerType'
    BY SettleEffect DEF TrackerInv
  <2>3. QED BY <1>1, <2>1, <2>2, SettleCounts DEF IInv, TypeOK, TrackerType
<1>4. CallsWellFormed'
  <2> SUFFICES ASSUME NEW d \in Calls
               PROVE  /\ pc'[d] = "idle" => probes[d] = {}
                      /\ pc'[d] \in {"attempting", "planning"} => at'[d] \in 1..Len(route[d])
                      /\ pc'[d] \in {"attempting", "planning"} /\ at'[d] = 1
                           => Len(route[d]) = 1 /\ probes[d] = {}
                      /\ pc'[d] = "planning" => at'[d] = 1
    BY <1>1 DEF CallsWellFormed, InFlight
  <2>1. /\ route[d] \in Seq(Providers) /\ at[d] \in Nat
        /\ pc[d] = "idle" => probes[d] = {}
        /\ pc[d] \in {"attempting", "planning"} => at[d] \in 1..Len(route[d])
        /\ pc[d] \in {"attempting", "planning"} /\ at[d] = 1
             => Len(route[d]) = 1 /\ probes[d] = {}
        /\ pc[d] = "planning" => at[d] = 1
    BY DEF IInv, TypeOK, CallsWellFormed, InFlight
  <2>2. CASE d = c
    BY <1>1, <1>2, <2>1, <2>2
  <2>3. CASE d # c
    BY <1>2, <2>1, <2>3
  <2>4. QED BY <2>2, <2>3
<1>5. ASSUME NEW q \in Providers, circuit'[q].state = "half-open"
      PROVE  \E d \in prober[q] : Unreported(d, q)' /\ (pc'[d] = "done" => at'[d] > 1)
  <2>1. q # Provider(c) /\ circuit[q].state = "half-open"
    BY <1>5, SettleEffect
  <2>2. PICK d \in prober[q] : Unreported(d, q) /\ (pc[d] = "done" => at[d] > 1)
    BY <2>1 DEF IInv, OnlySkippedStranded
  <2>3. d \in Calls
    BY DEF IInv, TypeOK
  <2>4. PICK i \in DOMAIN route[d] :
          route[d][i] = q /\ (i > at[d] \/ (i = at[d] /\ pc[d] = "attempting"))
    BY <2>2 DEF Unreported
  <2>5. CASE d # c
    BY <1>1, <1>2, <2>2, <2>3, <2>4, <2>5 DEF Unreported
  <2>6. CASE d = c
    <3>1. i > at[c]
      BY <2>1, <2>4, <2>6 DEF Provider
    <3>2. i > at'[c] \/ (i = at'[c] /\ pc'[c] = "attempting")
      BY <1>2, <2>4, <2>6, <3>1 DEF IInv, TypeOK
    <3>3. at[c] # 1 /\ at[c] \in 1..Len(route[c]) /\ Len(route[c]) \in Nat
      BY <1>1, <2>2, <2>6 DEF IInv, TypeOK, CallsWellFormed, InFlight, Unreported
    <3>4. Unreported(c, q)'
      BY <1>1, <2>2, <2>4, <2>6, <3>2 DEF Unreported
    <3>5. at'[c] > 1
      BY <1>2, <3>3
    <3>6. QED BY <2>6, <3>4, <3>5
  <2>7. QED BY <2>5, <2>6
<1>6. OnlySkippedStranded'
  BY <1>1, <1>5 DEF OnlySkippedStranded
<1>7. QED BY <1>3, <1>4, <1>6, SettleEffect, SettleCounts DEF IInv, TrackerInv

(* A call that starts reserves nothing.                                    *)
LEMMA StartKeepsInv ==
  ASSUME IInv, NEW c \in Calls, NEW p \in Providers, NEW explicit \in BOOLEAN,
         StartCall(c, p, explicit)
  PROVE  IInv'
<1> USE DEF StartCall, tracker, reservations
<1>1. TypeOK'
  BY DEF IInv, TypeOK
<1>2. CircuitsConsistent' /\ HealthMirrorsCircuit' /\ ProbeOrder' /\ OutagesCounted'
  BY DEF IInv, CircuitsConsistent, HealthMirrorsCircuit, ProbeOrder, OutagesCounted
<1>3. CallsWellFormed'
  BY DEF IInv, TypeOK, CallsWellFormed, InFlight
<1>4. OnlySkippedStranded'
  <2> SUFFICES ASSUME NEW q \in Providers, circuit[q].state = "half-open"
               PROVE  \E d \in prober[q] : Unreported(d, q)' /\ (pc'[d] = "done" => at'[d] > 1)
    BY DEF OnlySkippedStranded
  <2>1. PICK d \in prober[q] : Unreported(d, q) /\ (pc[d] = "done" => at[d] > 1)
    BY DEF IInv, OnlySkippedStranded
  <2>2. d \in Calls /\ d # c
    BY <2>1 DEF IInv, TypeOK, CallsWellFormed, Unreported
  <2>3. pc'[d] = pc[d] /\ at'[d] = at[d] /\ route'[d] = route[d] /\ probes' = probes
    BY <2>2 DEF IInv, TypeOK
  <2>4. QED BY <2>1, <2>3 DEF Unreported
<1>5. QED BY <1>1, <1>2, <1>3, <1>4 DEF IInv

(* Time alone reserves and releases nothing.                               *)
LEMMA TickKeepsInv == IInv /\ Tick => IInv'
<1> SUFFICES ASSUME IInv, Tick PROVE IInv'
  OBVIOUS
<1>1. /\ now' = now + 1
      /\ UNCHANGED <<circuit, openedUntil, pc, sticky, route, at, probes, probedAt, prober, silent>>
  BY DEF Tick, tracker, reservations
<1>2. TypeOK'
  BY <1>1 DEF IInv, TypeOK
<1>3. CircuitsConsistent' /\ HealthMirrorsCircuit' /\ ProbeOrder'
  <2>1. now \in Nat /\ \A p \in Providers : /\ circuit[p].openedAt \in Nat \cup {-1}
                                        /\ probedAt[p] \in Nat \cup {-1}
    BY DEF IInv, TypeOK, Circuit, NoTime
  <2>2. CircuitsConsistent'
    BY <1>1, <2>1 DEF IInv, CircuitsConsistent
  <2>3. HealthMirrorsCircuit'
    BY <1>1 DEF IInv, HealthMirrorsCircuit
  <2>4. ProbeOrder'
    BY <1>1, <2>1 DEF IInv, ProbeOrder
  <2>5. QED BY <2>2, <2>3, <2>4
<1>4. CallsWellFormed' /\ OutagesCounted' /\ OnlySkippedStranded'
  BY <1>1 DEF IInv, CallsWellFormed, InFlight, OutagesCounted, OnlySkippedStranded, Unreported
<1>5. QED BY <1>2, <1>3, <1>4 DEF IInv

(* The planned backups follow the primary.                                 *)
LEMMA Concatenation ==
  ASSUME NEW S, NEW s \in Seq(S), NEW t \in Seq(S), Len(s) = 1
  PROVE  /\ s \o t \in Seq(S)
         /\ Len(s \o t) = 1 + Len(t)
         /\ \A i \in DOMAIN t : i + 1 \in DOMAIN (s \o t) /\ (s \o t)[i + 1] = t[i]
<1>1. /\ Len(s \o t) = 1 + Len(t) /\ s \o t \in Seq(S)
      /\ \A i \in 1 .. 1 + Len(t) : (s \o t)[i] = IF i <= 1 THEN s[i] ELSE t[i - 1]
  <2>1. /\ s \o t \in Seq(S)
        /\ Len(s \o t) = Len(s) + Len(t)
        /\ \A i \in 1 .. Len(s) + Len(t) :
             (s \o t)[i] = IF i <= Len(s) THEN s[i] ELSE t[i - Len(s)]
    BY ConcatProperties, Zenon
  <2>2. Len(s) = 1
    OBVIOUS
  <2>3. QED BY <2>1, <2>2, Zenon
<1>2. DOMAIN (s \o t) = 1..(1 + Len(t)) /\ DOMAIN t = 1..Len(t) /\ Len(t) \in Nat
  BY <1>1
<1>3. ASSUME NEW i \in 1..Len(t) PROVE (s \o t)[i + 1] = t[i]
  <2>1. i + 1 \in 1 .. 1 + Len(t) /\ ~(i + 1 <= 1) /\ (i + 1) - 1 = i
    BY <1>2
  <2>2. QED BY <1>1, <2>1
<1>4. QED BY <1>1, <1>2, <1>3

(* Planning turns only probe-ready breakers half-open, and the call holds  *)
(* every probe it reserved: each is the route of an attempt to come.       *)
LEMMA PlanKeepsInv ==
  ASSUME IInv, NEW c \in Calls, PlanFallbacks(c)
  PROVE  IInv'
<1> USE DEF NoTime
<1>1. /\ pc[c] = "planning" /\ now' = now /\ sticky' = sticky /\ silent' = silent
      /\ at[c] = 1 /\ Len(route[c]) = 1 /\ probes[c] = {}
  BY DEF PlanFallbacks, IInv, CallsWellFormed, InFlight
<1>2. Provider(c) \in Providers
  BY <1>1, ProviderType DEF IInv, InFlight
<1>3. PICK plan \in Plans(Provider(c)) :
       LET planned  == {plan[i] : i \in DOMAIN plan}
           reserved == planned \cap Admitted(Provider(c), "probe-ready")
       IN  /\ circuit' = [p \in Providers |->
                 IF p \in reserved THEN Allow(circuit[p], now) ELSE circuit[p]]
           /\ openedUntil' = [p \in Providers |->
                 IF p \in reserved THEN NoTime ELSE openedUntil[p]]
           /\ probedAt' = [p \in Providers |->
                 IF p \in reserved THEN now ELSE probedAt[p]]
           /\ prober' = [p \in Providers |->
                 IF p \in reserved THEN {c} ELSE prober[p]]
           /\ route' = [route EXCEPT ![c] = @ \o plan]
           /\ probes' = [probes EXCEPT ![c] = reserved]
           /\ IF plan = <<>>
              THEN Finish(c)
              ELSE /\ pc' = [pc EXCEPT ![c] = "attempting"]
                   /\ at' = [at EXCEPT ![c] = 2]
  BY DEF PlanFallbacks
<1> DEFINE reserved == {plan[i] : i \in DOMAIN plan} \cap Admitted(Provider(c), "probe-ready")
<1>4. plan \in Seq(Providers)
  BY <1>2, PlanType
<1>5. /\ circuit' = [p \in Providers |->
           IF p \in reserved THEN Allow(circuit[p], now) ELSE circuit[p]]
      /\ openedUntil' = [p \in Providers |->
           IF p \in reserved THEN NoTime ELSE openedUntil[p]]
      /\ probedAt' = [p \in Providers |->
           IF p \in reserved THEN now ELSE probedAt[p]]
      /\ prober' = [p \in Providers |->
           IF p \in reserved THEN {c} ELSE prober[p]]
      /\ route' = [route EXCEPT ![c] = @ \o plan]
      /\ probes' = [probes EXCEPT ![c] = reserved]
  BY <1>3
<1>6. \/ plan = <<>> /\ pc' = [pc EXCEPT ![c] = "done"] /\ at' = at
      \/ plan # <<>> /\ pc' = [pc EXCEPT ![c] = "attempting"] /\ at' = [at EXCEPT ![c] = 2]
  BY <1>3 DEF Finish
<1>7. reserved \subseteq Providers
      /\ \A p \in reserved : Admission(circuit[p], now) = "probe-ready"
  BY DEF Admitted
<1>8. \A p \in reserved : \E i \in DOMAIN plan : plan[i] = p
  OBVIOUS
<1> HIDE DEF reserved
<1>9. \A p \in reserved :
        LET cb == Allow(circuit[p], now)
        IN  /\ cb \in Circuit /\ WellFormed(cb)
            /\ cb.state = "half-open" /\ cb.openedAt = circuit[p].openedAt
  BY <1>7, AllowOutcome DEF IInv, TypeOK, CircuitsConsistent
<1>10. TypeOK'
  <2>1. route[c] \o plan \in Seq(Providers)
    BY <1>4 DEF IInv, TypeOK
  <2>2. route' \in [Calls -> Seq(Providers)] /\ probes' \in [Calls -> SUBSET Providers]
    BY <1>5, <1>7, <2>1 DEF IInv, TypeOK
  <2>3. circuit' \in [Providers -> Circuit]
    BY <1>5, <1>9 DEF IInv, TypeOK
  <2>4. /\ openedUntil' \in [Providers -> Nat \cup {NoTime}]
        /\ probedAt' \in [Providers -> Nat \cup {NoTime}]
        /\ prober' \in [Providers -> SUBSET Calls]
        /\ silent' \in [Providers -> Nat]
    BY <1>1, <1>5 DEF IInv, TypeOK
  <2>5. /\ pc' \in [Calls -> {"idle", "attempting", "planning", "done"}]
        /\ at' \in [Calls -> Nat]
    <3>1. CASE pc' = [pc EXCEPT ![c] = "done"] /\ at' = at
      BY <3>1 DEF IInv, TypeOK
    <3>2. CASE pc' = [pc EXCEPT ![c] = "attempting"] /\ at' = [at EXCEPT ![c] = 2]
      BY <3>2 DEF IInv, TypeOK
    <3>3. QED BY <1>6, <3>1, <3>2
  <2>6. QED BY <1>1, <2>2, <2>3, <2>4, <2>5 DEF IInv, TypeOK
<1>11. CircuitsConsistent' /\ HealthMirrorsCircuit' /\ ProbeOrder' /\ OutagesCounted'
  BY <1>1, <1>5, <1>9
     DEF IInv, TypeOK, CircuitsConsistent, HealthMirrorsCircuit, ProbeOrder, OutagesCounted
<1>12. /\ Len(route'[c]) = 1 + Len(plan)
       /\ \A i \in DOMAIN plan : route'[c][i + 1] = plan[i] /\ i + 1 \in DOMAIN route'[c]
       /\ \A d \in Calls \ {c} : route'[d] = route[d] /\ probes'[d] = probes[d]
                                /\ pc'[d] = pc[d] /\ at'[d] = at[d]
  <2>1. route[c] \in Seq(Providers) /\ route'[c] = route[c] \o plan
    BY <1>5 DEF IInv, TypeOK
  <2>2. Len(route'[c]) = 1 + Len(plan)
    BY <1>1, <1>4, <2>1, Concatenation
  <2>3. \A i \in DOMAIN plan : route'[c][i + 1] = plan[i] /\ i + 1 \in DOMAIN route'[c]
    BY <1>1, <1>4, <2>1, Concatenation
  <2>4. \A d \in Calls \ {c} : route'[d] = route[d] /\ probes'[d] = probes[d]
    BY <1>5 DEF IInv, TypeOK
  <2>5. \A d \in Calls \ {c} : pc'[d] = pc[d] /\ at'[d] = at[d]
    BY <1>6 DEF IInv, TypeOK
  <2>6. QED BY <2>2, <2>3, <2>4, <2>5
<1>13. CallsWellFormed'
  BY <1>1, <1>4, <1>5, <1>6, <1>12 DEF IInv, TypeOK, CallsWellFormed, InFlight
<1>14. OnlySkippedStranded'
  <2> SUFFICES ASSUME NEW q \in Providers, circuit'[q].state = "half-open"
               PROVE  \E d \in prober'[q] : Unreported(d, q)' /\ (pc'[d] = "done" => at'[d] > 1)
    BY DEF OnlySkippedStranded
  <2>1. CASE q \in reserved
    <3>1. PICK i \in DOMAIN plan : plan[i] = q
      BY <1>8, <2>1
    <3>2. probes'[c] = reserved /\ pc'[c] = "attempting" /\ at'[c] = 2
      BY <1>4, <1>5, <1>6, <3>1 DEF IInv, TypeOK
    <3>3. i + 1 \in DOMAIN route'[c] /\ route'[c][i + 1] = q
      BY <1>12, <3>1
    <3>4. i + 1 > 2 \/ i + 1 = 2
      BY <1>4, <3>1
    <3>5. Unreported(c, q)'
      BY <2>1, <3>2, <3>3, <3>4 DEF Unreported
    <3>6. c \in prober'[q]
      BY <1>5, <2>1
    <3>7. QED BY <3>2, <3>5, <3>6
  <2>2. CASE q \notin reserved
    <3>1. circuit[q].state = "half-open" /\ prober'[q] = prober[q]
      BY <1>5, <2>2
    <3>2. PICK d \in prober[q] : Unreported(d, q) /\ (pc[d] = "done" => at[d] > 1)
      BY <3>1 DEF IInv, OnlySkippedStranded
    <3>3. d \in Calls /\ d # c
      BY <1>1, <3>2 DEF IInv, TypeOK, Unreported
    <3>4. QED BY <1>12, <3>1, <3>2, <3>3 DEF Unreported
  <2>3. QED BY <2>1, <2>2
<1>15. QED BY <1>10, <1>11, <1>13, <1>14 DEF IInv
-----------------------------------------------------------------------------
(* The theorems.                                                           *)

(* A tracker with no reports satisfies the invariant.                      *)
LEMMA InitInv == Init => IInv
<1> SUFFICES ASSUME Init PROVE IInv
  OBVIOUS
<1> USE PolicyAssumption DEF Init, NewCircuit, Circuit, NoTime
<1>1. TypeOK
  BY DEF TypeOK
<1>2. CircuitsConsistent /\ HealthMirrorsCircuit /\ ProbeOrder
  BY DEF CircuitsConsistent, WellFormed, HealthMirrorsCircuit, ProbeOrder
<1>3. CallsWellFormed /\ OutagesCounted /\ OnlySkippedStranded
  BY DEF CallsWellFormed, InFlight, OutagesCounted, OnlySkippedStranded
<1>4. QED BY <1>1, <1>2, <1>3 DEF IInv

(* The invariant speaks of the variables only.                             *)
LEMMA StutterKeepsInv == IInv /\ UNCHANGED vars => IInv'
BY DEF vars, reservations, IInv, TypeOK, CircuitsConsistent, HealthMirrorsCircuit, ProbeOrder,
       CallsWellFormed, InFlight, OutagesCounted, OnlySkippedStranded, Unreported

(* Every step of the tracker and of the calls keeps the invariant.         *)
LEMMA NextKeepsInv == IInv /\ [Next]_vars => IInv'
<1>1. ASSUME IInv, NEW c \in Calls, NEW p \in Providers, NEW explicit \in BOOLEAN,
             StartCall(c, p, explicit)
      PROVE  IInv'
  BY <1>1, StartKeepsInv
<1>2. ASSUME IInv, NEW c \in Calls, Settle(c) PROVE IInv'
  BY <1>2, SettleKeepsInv
<1>3. ASSUME IInv, NEW c \in Calls, PlanFallbacks(c) PROVE IInv'
  BY <1>3, PlanKeepsInv
<1>4. QED BY <1>1, <1>2, <1>3, TickKeepsInv, StutterKeepsInv DEF Next

(* The inductive invariant holds in every reachable state.                 *)
THEOREM InvariantHolds == Spec => []IInv
BY InitInv, NextKeepsInv, PTL DEF Spec

(* Every variable keeps its type.                                          *)
THEOREM TypeCorrect == Spec => []TypeOK
BY InvariantHolds, PTL DEF IInv

(* Breakers stay well formed under every interleaving of reports about a   *)
(* provider.                                                               *)
THEOREM TrackerConsistent == Spec => []CircuitsConsistent
<1>1. IInv => CircuitsConsistent
  BY DEF IInv
<1>2. QED BY <1>1, InvariantHolds, PTL

(* The cooldown that health shows is the breaker's own, though the code    *)
(* keeps the two by hand.                                                  *)
THEOREM CooldownShownTruly == Spec => []HealthMirrorsCircuit
<1>1. IInv => HealthMirrorsCircuit
  BY DEF IInv
<1>2. QED BY <1>1, InvariantHolds, PTL

(* A half-open circuit without a call in flight that is to report about it *)
(* was skipped by the call that reserved it, which an earlier backup of    *)
(* its plan had ended: an attempt that was made has always been settled.   *)
THEOREM AttemptsSettleProbes == Spec => []OnlySkippedStranded
<1>1. IInv => OnlySkippedStranded
  BY DEF IInv
<1>2. QED BY <1>1, InvariantHolds, PTL

(* A provider whose circuit is closed has had fewer than FailureThreshold  *)
(* outages reported since it last answered.                                *)
THEOREM ClosedAnswers == Spec => []ClosedIsAnswering
<1>1. IInv => ClosedIsAnswering
  <2> SUFFICES ASSUME IInv, NEW p \in Providers, circuit[p].state = "closed"
               PROVE  silent[p] < FailureThreshold
    BY DEF ClosedIsAnswering
  <2>1. circuit[p].failures < FailureThreshold /\ silent[p] <= circuit[p].failures
    BY DEF IInv, CircuitsConsistent, WellFormed, OutagesCounted
  <2>2. circuit[p].failures \in Nat /\ silent[p] \in Nat
    BY DEF IInv, TypeOK, Circuit
  <2>3. QED BY <2>1, <2>2, PolicyAssumption
<1>2. QED BY <1>1, InvariantHolds, PTL

(* Only planning makes a circuit half-open, and it reserves the probe of a *)
(* provider whose cooldown has passed since the last one.                  *)
LEMMA SpacedStep ==
  ASSUME IInv, Next, NEW p \in Providers,
         circuit[p].state = "open", circuit'[p].state = "half-open"
  PROVE  now >= probedAt[p] + CooldownMs
<1>1. PICK c \in Calls : PlanFallbacks(c)
  <2>1. ASSUME NEW c \in Calls, Settle(c) PROVE FALSE
    <3>1. \A q \in Providers : circuit'[q].state # "half-open" \/ circuit'[q] = circuit[q]
      BY <2>1, SettleEffect
    <3>2. QED BY <3>1
  <2>2. QED BY <2>1 DEF Next, StartCall, Tick, tracker
<1>2. Admission(circuit[p], now) = "probe-ready"
  BY <1>1 DEF PlanFallbacks, Admitted
<1>3. now >= circuit[p].openedAt + CooldownMs
  BY <1>2, AllowOutcome DEF IInv, TypeOK, CircuitsConsistent
<1>4. /\ now \in Nat /\ circuit[p].openedAt \in Nat \cup {-1} /\ probedAt[p] \in Nat \cup {-1}
      /\ probedAt[p] <= circuit[p].openedAt
  BY DEF IInv, TypeOK, ProbeOrder, Circuit, NoTime
<1>5. QED BY <1>3, <1>4, PolicyAssumption

(* Two probes of one provider are at least a cooldown apart.               *)
THEOREM ProbesSpaced == Spec => ProbesAreSpaced
<1>1. IInv /\ [Next]_vars =>
        [\A p \in Providers :
           /\ circuit[p].state = "open"
           /\ circuit'[p].state = "half-open"
           => probedAt[p] = NoTime \/ now >= probedAt[p] + CooldownMs]_vars
  BY SpacedStep
<1>2. QED BY <1>1, InvariantHolds, PTL DEF Spec, ProbesAreSpaced
=============================================================================
