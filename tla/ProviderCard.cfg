SPECIFICATION Spec
CONSTANTS
  p1 = p1  p2 = p2  k1 = k1  k2 = k2
  e1 = e1  e2 = e2  None = None  Mask = Mask
  Providers = {p1, p2}
  Catalog = {p2}
  Endpoints = {e1, e2}
  Keyless = {e2}
  Options = {"o"}
  Keys = {k1, k2}
  MaxEdits = 2
  MaxTests = 2
  MaxLoads = 2
SYMMETRY Symmetric
CHECK_DEADLOCK FALSE
INVARIANTS LampCoversFields ListIsLatest
