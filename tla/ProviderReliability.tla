------------------------- MODULE ProviderReliability -------------------------
(***************************************************************************)
(* The provider reliability tracker                                        *)
(* (packages/image-mind/src/runtime/provider-reliability.ts) driven by     *)
(* concurrent calls of the OpenAI-compatible adapter                       *)
(* (adapters/openai-compatible/adapter.ts).                                *)
(*                                                                         *)
(* A call tries its primary provider.  When that ends in an outage, it     *)
(* asks the tracker for backup routes and tries them in turn.  Every       *)
(* attempt reports its outcome to the tracker before the call goes on      *)
(* (runtime/reliability-adapter.ts, recordProviderAttempt).  Planning      *)
(* reserves the half-open probe of a recovering backup at once, long       *)
(* before the attempt that is to settle it.                                *)
(*                                                                         *)
(* Everything between two awaits is one step.  Health counters only order  *)
(* the backups, so the order is any order; retries, model fallback and     *)
(* payload splitting happen inside one attempt.                            *)
(***************************************************************************)
EXTENDS CircuitBreaker, Sequences, FiniteSets

CONSTANTS
  Providers,      \* the complete, configured provider routes
  Calls,          \* calls of the adapter; each is made at most once
  MaxFallbacks,   \* MAX_RELIABILITY_PROVIDER_FALLBACKS = MAX_PROVIDER_FALLBACKS
  MaxTime         \* bound on the clock

ASSUME FallbackAssumption == MaxFallbacks \in Nat /\ IsFiniteSet(Providers)

VARIABLES
  now,           \* Date.now()
  circuit,       \* circuit[p]: the breaker of provider p
  openedUntil,   \* openedUntil[p]: the cooldown shown by p's health snapshot
  pc,            \* pc[c]: where call c is
  sticky,        \* sticky[c]: the caller named a provider or a model
  route,         \* route[c]: c's primary, then its planned backups
  at,            \* at[c]: the attempt under way, or the last one made
  probes,        \* probes[c]: the backups c planned as recovery probes
  probedAt,      \* history: when p's half-open probe was last reserved
  prober,        \* history: the call that reserved it, if any, as a set
  silent         \* history: outages of p reported since p last answered

tracker == <<circuit, openedUntil>>
reservations == <<probes, probedAt, prober>>
vars == <<now, circuit, openedUntil, pc, sticky, route, at, reservations, silent>>

TypeOK ==
  /\ now \in Nat
  /\ circuit \in [Providers -> Circuit]
  /\ openedUntil \in [Providers -> Nat \cup {NoTime}]
  /\ pc \in [Calls -> {"idle", "attempting", "planning", "done"}]
  /\ sticky \in [Calls -> BOOLEAN]
  /\ route \in [Calls -> Seq(Providers)]
  /\ at \in [Calls -> Nat]
  /\ probes \in [Calls -> SUBSET Providers]
  /\ probedAt \in [Providers -> Nat \cup {NoTime}]
  /\ prober \in [Providers -> SUBSET Calls]
  /\ silent \in [Providers -> Nat]

Init ==
  /\ now = 0
  /\ circuit = [p \in Providers |-> NewCircuit]
  /\ openedUntil = [p \in Providers |-> NoTime]
  /\ pc = [c \in Calls |-> "idle"]
  /\ sticky = [c \in Calls |-> FALSE]
  /\ route = [c \in Calls |-> <<>>]
  /\ at = [c \in Calls |-> 0]
  /\ probes = [c \in Calls |-> {}]
  /\ probedAt = [p \in Providers |-> NoTime]
  /\ prober = [p \in Providers |-> {}]
  /\ silent = [p \in Providers |-> 0]
-----------------------------------------------------------------------------
(* The tracker's operations, each on the provider it is told about.        *)

CooldownShown(cb, shown) == IF cb.state = "open" THEN NextProbeAt(cb) ELSE shown

(* Mutant: the shown cooldown survives a success.                          *)
TrackSuccessStale(p) ==
  /\ circuit' = [circuit EXCEPT ![p] = RecordSuccess(@)]
  /\ UNCHANGED openedUntil

TrackSuccess(p) ==
  /\ circuit' = [circuit EXCEPT ![p] = RecordSuccess(@)]
  /\ openedUntil' = [openedUntil EXCEPT ![p] = NoTime]

TrackFailure(p) ==
  LET cb == RecordFailure(circuit[p], now)
  IN  /\ circuit' = [circuit EXCEPT ![p] = cb]
      /\ openedUntil' = [openedUntil EXCEPT ![p] = CooldownShown(cb, @)]

(* A fresh answer that is no outage closes a half-open circuit and is      *)
(* ignored by any other.                                                   *)
TrackReachable(p) ==
  IF circuit[p].state = "half-open"
  THEN TrackSuccess(p)
  ELSE UNCHANGED tracker

(* A reserved probe that never reached the provider re-opens the circuit.  *)
ReleaseProbe(p) ==
  IF circuit[p].state = "half-open"
  THEN TrackFailure(p)
  ELSE UNCHANGED tracker

Admitted(primary, admission) ==
  {p \in Providers \ {primary} : Admission(circuit[p], now) = admission}

(* The backup plans fallbacks() can return: recovery probes first, then    *)
(* closed routes, as many as there are up to the cap; a blocked provider   *)
(* never.                                                                  *)
Plans(primary) ==
  LET ready      == Admitted(primary, "probe-ready")
      candidates == ready \cup Admitted(primary, "closed")
      size       == IF Cardinality(candidates) < MaxFallbacks
                    THEN Cardinality(candidates) ELSE MaxFallbacks
  IN  {s \in [1..size -> candidates] :
         /\ \A i, j \in 1..size : s[i] = s[j] => i = j
         /\ \A i \in 1..size : s[i] \in ready <=> i <= Cardinality(ready)}
-----------------------------------------------------------------------------
(* The calls.                                                              *)

Provider(c) == route[c][at[c]]

IsProbe(c) == Provider(c) \in probes[c]

StartCall(c, p, explicit) ==
  /\ pc[c] = "idle"
  /\ pc' = [pc EXCEPT ![c] = "attempting"]
  /\ sticky' = [sticky EXCEPT ![c] = explicit]
  /\ route' = [route EXCEPT ![c] = <<p>>]
  /\ at' = [at EXCEPT ![c] = 1]
  /\ UNCHANGED <<now, tracker, reservations, silent>>

Attempting(c) ==
  /\ pc[c] = "attempting"
  /\ UNCHANGED <<now, sticky, route, reservations>>

Answered(c) == silent' = [silent EXCEPT ![Provider(c)] = 0]

(* The result, or the error, goes to the caller.                           *)
Finish(c) ==
  /\ pc' = [pc EXCEPT ![c] = "done"]
  /\ UNCHANGED at

(* An attempt answered from the wire.                                      *)
AttemptSucceeds(c) ==
  /\ Attempting(c)
  /\ TrackSuccess(Provider(c))
  /\ Answered(c)
  /\ Finish(c)

(* Mutant: an answer from the cache counts as a success of the provider.   *)
AttemptHitsCacheProving(c) ==
  /\ Attempting(c)
  /\ ~IsProbe(c)
  /\ TrackSuccess(Provider(c))
  /\ UNCHANGED silent
  /\ Finish(c)

(* An attempt answered, wholly or in part, from the semantic cache.  A     *)
(* probe asks for no-store and reads no cache.                             *)
AttemptHitsCache(c) ==
  /\ Attempting(c)
  /\ ~IsProbe(c)
  /\ ReleaseProbe(Provider(c))
  /\ UNCHANGED silent
  /\ Finish(c)

(* Mutant: an aborted probe is not released.                               *)
AttemptNotMadeUnreleased(c) ==
  /\ Attempting(c)
  /\ UNCHANGED <<tracker, silent>>
  /\ Finish(c)

(* The caller aborted, or the attempt failed before any wire call (no      *)
(* credential, a provider removed by a settings change).                   *)
AttemptNotMade(c) ==
  /\ Attempting(c)
  /\ ReleaseProbe(Provider(c))
  /\ UNCHANGED silent
  /\ Finish(c)

(* A fresh answer that is an error of the request, not of the provider     *)
(* (401, 400, an unusable body): no other provider is tried.               *)
AttemptRefused(c) ==
  /\ Attempting(c)
  /\ TrackReachable(Provider(c))
  /\ Answered(c)
  /\ Finish(c)

(* Rate limit, timeout, network error, 413 or 5xx, retries exhausted: the  *)
(* only outcome that goes on to another provider.                          *)
AttemptFails(c) ==
  /\ Attempting(c)
  /\ TrackFailure(Provider(c))
  /\ silent' = [silent EXCEPT ![Provider(c)] = @ + 1]
  /\ \/ /\ at[c] > 1 /\ at[c] < Len(route[c])
        /\ at' = [at EXCEPT ![c] = @ + 1]
        /\ UNCHANGED pc
     \/ /\ at[c] = 1 /\ ~sticky[c]
        /\ pc' = [pc EXCEPT ![c] = "planning"]
        /\ UNCHANGED at
     \/ /\ IF at[c] = 1 THEN sticky[c] ELSE at[c] = Len(route[c])
        /\ Finish(c)

(* The primary's outage reaches call(): fallbacks() ranks the backups and  *)
(* reserves a half-open probe for every recovering one it returns.         *)
PlanFallbacks(c) ==
  /\ pc[c] = "planning"
  /\ \E plan \in Plans(Provider(c)) :
       LET planned  == {plan[i] : i \in DOMAIN plan}
           reserved == planned \cap Admitted(Provider(c), "probe-ready")
       IN  /\ circuit' = [p \in Providers |->
                 IF p \in reserved THEN Allow(circuit[p], now) ELSE circuit[p]]
           /\ openedUntil' = [p \in Providers |->
                 IF p \in reserved THEN NoTime ELSE openedUntil[p]]
           /\ probedAt' = [p \in Providers |->
                 IF p \in reserved THEN now ELSE probedAt[p]]
           /\ prober' = [p \in Providers |->
                 IF p \in reserved THEN {c} ELSE prober[p]]
           /\ route' = [route EXCEPT ![c] = @ \o plan]
           /\ probes' = [probes EXCEPT ![c] = reserved]
           /\ IF plan = <<>>
              THEN Finish(c)
              ELSE /\ pc' = [pc EXCEPT ![c] = "attempting"]
                   /\ at' = [at EXCEPT ![c] = 2]
  /\ UNCHANGED <<now, sticky, silent>>

Tick ==
  /\ now < MaxTime
  /\ now' = now + 1
  /\ UNCHANGED <<tracker, pc, sticky, route, at, reservations, silent>>

Settle(c) ==
  \/ AttemptSucceeds(c)
  \/ AttemptHitsCache(c)
  \/ AttemptNotMade(c)
  \/ AttemptRefused(c)
  \/ AttemptFails(c)

Next ==
  \/ \E c \in Calls, p \in Providers, explicit \in BOOLEAN : StartCall(c, p, explicit)
  \/ \E c \in Calls : Settle(c) \/ PlanFallbacks(c)
  \/ Tick

Spec == Init /\ [][Next]_vars
-----------------------------------------------------------------------------
(* Call c has reserved the probe of provider p and not reported on it: the *)
(* attempt is under way or comes later in c's plan.                        *)
Unreported(c, p) ==
  /\ p \in probes[c]
  /\ \E i \in DOMAIN route[c] :
       /\ route[c][i] = p
       /\ i > at[c] \/ (i = at[c] /\ pc[c] = "attempting")

InFlight(c) == pc[c] \in {"attempting", "planning"}

(* Breakers are well formed and never opened in the future, whatever       *)
(* mixture of late, concurrent and repeated outcomes reaches them.         *)
CircuitsConsistent ==
  \A p \in Providers : WellFormed(circuit[p]) /\ circuit[p].openedAt <= now

(* The cooldown kept beside the health counters is the breaker's own: it   *)
(* is shown exactly while the circuit is open, for exactly as long as the  *)
(* breaker refuses (provider-reliability.ts keeps the two by hand in four  *)
(* operations).                                                            *)
HealthMirrorsCircuit ==
  \A p \in Providers :
    openedUntil[p] = IF circuit[p].state = "open" THEN NextProbeAt(circuit[p]) ELSE NoTime

(* A half-open circuit is one whose probe a call in flight is making or    *)
(* has still to make, so that a report about it is due (CHANGELOG.md:11-12: *)
(* fallback planning never strands a half-open probe).                     *)
HalfOpenIsReserved ==
  \A p \in Providers :
    circuit[p].state = "half-open" => \E c \in Calls : InFlight(c) /\ Unreported(c, p)

(* What is true instead.  Whatever way an attempt ends (success, abort,    *)
(* missing credential, refusal, outage) and whoever else reports about the *)
(* provider in between, the call that reserved a probe and made its        *)
(* attempt has not left the circuit half-open: a half-open circuit without *)
(* a call in flight was reserved by a call that ended at an earlier backup *)
(* of its plan.                                                            *)
OnlySkippedStranded ==
  \A p \in Providers :
    circuit[p].state = "half-open" =>
      \E c \in prober[p] : Unreported(c, p) /\ (pc[c] = "done" => at[c] > 1)

(* A closed circuit stands for a provider that answers: fewer than         *)
(* FailureThreshold outages were reported since its last answer from the   *)
(* wire.  Cache hits, aborts and attempts that were never made, before,    *)
(* between and after the outages of other calls, do not close it.          *)
ClosedIsAnswering ==
  \A p \in Providers :
    circuit[p].state = "closed" => silent[p] < FailureThreshold

(* Auxiliary, for the proofs: a circuit was (re-)opened no earlier than its *)
(* last probe was reserved, a call's fields fit its program counter, and a *)
(* closed breaker has counted every outage since the last answer.          *)
ProbeOrder ==
  \A p \in Providers :
    /\ probedAt[p] <= now
    /\ circuit[p].state = "open" => probedAt[p] <= circuit[p].openedAt

CallsWellFormed ==
  \A c \in Calls :
    /\ pc[c] = "idle" => probes[c] = {}
    /\ pc[c] \in {"attempting", "planning"} => at[c] \in 1..Len(route[c])
    /\ InFlight(c) /\ at[c] = 1 => Len(route[c]) = 1 /\ probes[c] = {}
    /\ pc[c] = "planning" => at[c] = 1

OutagesCounted ==
  \A p \in Providers : circuit[p].state = "closed" => silent[p] <= circuit[p].failures

IInv == /\ TypeOK
        /\ CircuitsConsistent
        /\ HealthMirrorsCircuit
        /\ ProbeOrder
        /\ CallsWellFormed
        /\ OutagesCounted
        /\ OnlySkippedStranded

(* Two probes of one provider are reserved at least a cooldown apart, even *)
(* when several calls report about it in any order.                        *)
ProbesAreSpaced ==
  [][\A p \in Providers :
       /\ circuit[p].state = "open"
       /\ circuit'[p].state = "half-open"
       => probedAt[p] = NoTime \/ now >= probedAt[p] + CooldownMs]_vars
=============================================================================
