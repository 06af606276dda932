SPECIFICATION FairSpec
CONSTANTS
  Threads = {1, 2}
  Roots = {1}
  Addrs = {1}
  Waits <- LiveWaits
  MaxTime = 1
  Events = {"yield", "hold", "lease", "change"}
  External = External
  None = None
INVARIANTS Driven
PROPERTIES ReadyRuns TimedWaitEnds ReadinessEnds ChangeSeen
CHECK_DEADLOCK FALSE
