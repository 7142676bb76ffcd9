SPECIFICATION Spec
CONSTANTS
  s1 = s1  s2 = s2  a = a  b = b  x = x  i1 = i1  i2 = i2  i3 = i3
  None = None
  Sessions = {s1, s2}
  Batches = {a, b, x}
  SessionOf <- MCSessionOf
  ImagesOf <- LongFirst
  Callers = {c1}
  Requests <- Filling
  MaxRefs = 2
  MaxSessions = 2
  MaxHistory = 2
  MaxMutations = 5
  MaxCrashes = 1
CHECK_DEADLOCK FALSE
INVARIANTS CommittedSurvive
