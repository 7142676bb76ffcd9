SPECIFICATION Spec
CONSTANTS
  s1 = s1  s2 = s2  a = a  b = b  x = x  i1 = i1  i2 = i2  i3 = i3
  None = None
  Sessions = {s1, s2}
  Batches = {a, b, x}
  SessionOf <- MCSessionOf
  ImagesOf <- MCImagesOf
  Callers = {c1, c2}
  Requests <- AllOperations
  MaxRefs = 2
  MaxSessions = 1
  MaxHistory = 1
  MaxMutations = 4
  MaxCrashes = 1
CHECK_DEADLOCK FALSE
INVARIANTS MemoryMatchesFile CommittedResolve CapHolds
PROPERTIES ImplementsLedger HistoryOnlyGrows CallsAnswered
