SPECIFICATION Spec
CONSTANTS
  im = im  x = x  y = y  p = p  q = q
  None = None
  Fibers = {im, x, y}
  ImageMind = im
  Providers = {p, q}
  Declarations = {"catalog", "user", x, y}
  OwnerOf <- MCOwnerOf
  CatalogIds = {p}
  MaxChanges = 2
  MaxForeign = 3
SYMMETRY Symmetry
CHECK_DEADLOCK FALSE
INVARIANTS RegistryIsOwned PluginInStep NoStaleResolver
PROPERTIES NoSilentFallback
