SPECIFICATION Spec
CONSTANTS
  Threads = {t1, t2}
  Fds = {f1, f2}
  MaxOpens = 2
  Top = 3
  Requests <- MCRequests
  Accesses <- MCAccesses
  Setups <- OfdSetups
  None = None
SYMMETRY Symmetry
INVARIANTS NoOrphan
CHECK_DEADLOCK FALSE
