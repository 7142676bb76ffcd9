SPECIFICATION Spec
CONSTANTS
  shared = shared  None = None
  Providers = {p, q}
  Endpoints = {e1}
  Keys = {k1, k2}
  StagingRefs = {r1, r2}
  DerivedRef <- OneRef
  MaxEdits = 3
  MaxSaves = 2
  MaxOthers = 1
SYMMETRY Symmetry
CHECK_DEADLOCK FALSE
INVARIANTS NoSharedStaging
PROPERTIES LiveKeysKept CommittedKeysStored
