SPECIFICATION Spec
CONSTANTS
  Addrs = {a, b, c, d, e}
  Threads = {t, u}
  OWNED_MUTEXES = 4
  None = None
SYMMETRY Symmetry
INVARIANTS Accounted
PROPERTIES ImplementsMap
