SPECIFICATION Spec
CONSTANTS
  Callers = {a, b, c}
  MAX_MISSES = 2
  U32 = 16
  None = None
INVARIANTS SleeperSignalled SkipsBounded
PROPERTIES ImplementsLatch
