SPECIFICATION Spec
CONSTANTS
  Threads = {1, 2, 3, 4, 5}
  Roots = {1, 4, 5}
  Addrs = {1}
  Waits <- WordWaits
  MaxTime = 0
  Events = {}
  External = External
  None = None
INVARIANTS ParkedListed DetachedEmpty
CHECK_DEADLOCK FALSE
