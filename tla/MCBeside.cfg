SPECIFICATION Spec
CONSTANTS
  Threads = {1, 2, 3}
  Roots = {1, 3}
  Addrs = {1}
  Waits <- BesideWaits
  MaxTime = 1
  Events = {"executive", "clock", "inject", "class"}
  External = External
  None = None
INVARIANTS OneRuns GrantsHonest
CHECK_DEADLOCK FALSE
