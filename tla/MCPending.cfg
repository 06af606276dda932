SPECIFICATION Spec
CONSTANTS
  Threads = {a, b}
  Readers = {r}
  CAPACITY = 2
  Wrap = 16
  Starts = {15}
  MaxChanges = 3
  None = None
SYMMETRY Symmetry
INVARIANTS ReaderSeesReturned AppliedInOrder SlotsExclusive NothingLost
PROPERTIES RefusedOnlyWhenFull
