SPECIFICATION Spec
CONSTANTS
  Threads = {t1, t2}
  Fds = {f1, f2}
  MaxOpens = 2
  Top = 3
  Requests <- MCRequests
  Accesses <- MCAccesses
  Setups <- MCSetups
  None = None
SYMMETRY Symmetry
INVARIANTS Exclusive Normal RefsAgree NoLostRelease
 
CHECK_DEADLOCK FALSE
