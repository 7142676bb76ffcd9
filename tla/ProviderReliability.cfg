SPECIFICATION Spec
CONSTANTS
  FailureThreshold = 1
  CooldownMs = 2
  MaxFallbacks = 2
  MaxTime = 4
  Providers = {p1, p2, p3}
  Calls = {c1, c2, c3}
SYMMETRY Symmetry
CHECK_DEADLOCK FALSE
INVARIANTS CircuitsConsistent HealthMirrorsCircuit OnlySkippedStranded ClosedIsAnswering
PROPERTIES ProbesAreSpaced
