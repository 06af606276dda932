SPECIFICATION Spec
CONSTANTS
  Threads = {1, 2, 3}
  Roots = {1}
  Addrs = {1}
  Waits <- TimeWaits
  MaxTime = 2
  Events = {"wakers", "spin", "yield", "real", "change", "foreigntime", "statics", "mutex"}
  External = External
  None = None
PROPERTIES Fifo HonestTimeout NoSkipPast DeadlockIsReal
CHECK_DEADLOCK FALSE
