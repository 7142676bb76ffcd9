SPECIFICATION ToolAndGate
CONSTANTS
  i1 = i1  i2 = i2  i3 = i3
  Calls = {c1, c2}
  Images = {i1, i2, i3}
  IsLocal = {i2}
  SizeOf <- MCSizeOf
  Arguments <- MCArguments
  TotalCap = 3
  MaxImages = 3
  MaxEntries = 1
  MaxEpochs = 2
  Ops = {w1, w2, w3, w4, w5}
  Limit = 2
CHECK_DEADLOCK FALSE
INVARIANTS LoadedWhole  CounterCounts NoIdleSlot
PROPERTIES CallsEnd ImplementsGate AbortedNotGranted WaitersServed
