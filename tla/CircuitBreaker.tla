--------------------------- MODULE CircuitBreaker ---------------------------
(***************************************************************************)
(* The circuit breaker of one provider route                               *)
(* (packages/vision/src/circuit-breaker.ts) as operators on its three      *)
(* private fields.  A breaker has no clock of its own: every operation is  *)
(* given the current time, as in the code.                                 *)
(***************************************************************************)
EXTENDS Integers

CONSTANTS
  FailureThreshold,  \* failures that open a closed circuit (3 by default)
  CooldownMs         \* time an open circuit waits before a probe (30 s)

ASSUME PolicyAssumption ==
  /\ FailureThreshold \in Nat \ {0}
  /\ CooldownMs \in Nat

NoTime == -1   \* the code's null and undefined timestamps

Circuit == [state    : {"closed", "open", "half-open"},
            failures : Nat,
            openedAt : Nat \cup {NoTime}]

NewCircuit == [state |-> "closed", failures |-> 0, openedAt |-> NoTime]

NextProbeAt(c) == IF c.openedAt = NoTime THEN NoTime ELSE c.openedAt + CooldownMs

CooledDown(c, now) == c.openedAt # NoTime /\ now >= c.openedAt + CooldownMs

Admission(c, now) ==
  CASE c.state = "closed"                     -> "closed"
    [] c.state = "open" /\ CooledDown(c, now) -> "probe-ready"
    [] OTHER                                  -> "blocked"

(* What allow() leaves behind: the one call that turns an open circuit     *)
(* whose cooldown has passed into a half-open one.  The breaker admits the *)
(* caller unless it was blocked.                                           *)
Allow(c, now) ==
  IF Admission(c, now) = "probe-ready"
  THEN [state |-> "half-open", failures |-> c.failures, openedAt |-> c.openedAt]
  ELSE c

RecordSuccess(c) == NewCircuit

(* Mutant: opens one failure late.                                         *)
RecordFailureLate(c, now) ==
  IF c.state = "half-open" \/ c.failures + 1 > FailureThreshold
  THEN [state |-> "open", failures |-> c.failures + 1, openedAt |-> now]
  ELSE [state |-> c.state, failures |-> c.failures + 1, openedAt |-> c.openedAt]

(* Mutant: a failed probe re-opens without a new opening time.             *)
RecordFailureUnstamped(c, now) ==
  IF c.state = "half-open"
  THEN [state |-> "open", failures |-> c.failures, openedAt |-> c.openedAt]
  ELSE IF c.failures + 1 >= FailureThreshold
  THEN [state |-> "open", failures |-> c.failures + 1, openedAt |-> now]
  ELSE [state |-> c.state, failures |-> c.failures + 1, openedAt |-> c.openedAt]

(* A failure of the half-open probe re-opens at once and is not counted;   *)
(* any other failure counts, and opens (again) from the threshold on.      *)
RecordFailure(c, now) ==
  LET failures == IF c.state = "half-open" THEN c.failures ELSE c.failures + 1
  IN  IF c.state = "half-open" \/ failures >= FailureThreshold
      THEN [state |-> "open", failures |-> failures, openedAt |-> now]
      ELSE [state |-> c.state, failures |-> failures, openedAt |-> c.openedAt]

(* The fields agree: a closed circuit is below the threshold and has no    *)
(* opening time; any other circuit reached the threshold and was opened.   *)
WellFormed(c) ==
  IF c.state = "closed"
  THEN c.failures < FailureThreshold /\ c.openedAt = NoTime
  ELSE c.failures >= FailureThreshold /\ c.openedAt # NoTime
=============================================================================
