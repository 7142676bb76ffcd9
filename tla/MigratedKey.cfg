SPECIFICATION Spec
CONSTANTS
  p = p  q = q  pRef = pRef  qRef = qRef  None = None
  Providers = {p, q}
  Keys = {k1, k2}
  Refs = {pRef, qRef, ownRef, defaultRef}
  DerivedRef <- TwoRefs
  DefaultRef = defaultRef
  MaxRestarts = 1
CHECK_DEADLOCK FALSE
INVARIANTS KeysResolve
