SPECIFICATION Spec
CONSTANTS
  Threads = {1, 2, 3}
  Roots = {1}
  Addrs = {1}
  Waits <- MixedWaits
  MaxTime = 1
  Events = {"foreign", "signal", "fail", "latency"}
  External = External
  None = None
INVARIANTS TypeOK Balanced WorkConserving OneRuns BatonKept Driven
CHECK_DEADLOCK FALSE
