SPECIFICATION SendSpec
CONSTANTS
  s1 = s1  s2 = s2  a = a  b = b  x = x  i1 = i1  i2 = i2  i3 = i3
  None = None
  Sessions = {s1}
  Batches = {a, b, x}
  SessionOf <- OneSession
  ImagesOf <- MCImagesOf
  MaxRefs = 3
  MaxSessions = 1
  MaxHistory = 2
  MaxFaults = 2
CHECK_DEADLOCK FALSE
INVARIANTS HistoryIsAdmitted HistoryInOrder SentIsListed OffsetsReachHistory FailedNotRouted
PROPERTIES SendsSettle
