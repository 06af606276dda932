SPECIFICATION Spec
CONSTANTS
  Threads = {t1, t2}
  Holder = Holder
  Keys = {k, l}
  k = k
  l = l
  Delays = {1}
  MaxTime = 2
  Setups <- MCSetups
  None = None
SYMMETRY Alike
INVARIANTS NoLostWake MarksTaken
PROPERTIES SkipIsQuiet GiveUpIsQuiet
CHECK_DEADLOCK FALSE
