SPECIFICATION FairSpec
CONSTANTS
  Threads = {1, 2}
  Holder = Holder
  Keys = {k, l}
  k = k
  l = l
  Delays = {1}
  MaxTime = 2
  Setups <- FairSetups
  None = None
PROPERTIES ReadyReturns StillEnds
CHECK_DEADLOCK FALSE
