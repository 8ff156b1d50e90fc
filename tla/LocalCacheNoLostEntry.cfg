CONSTANTS
  Procs = {p1, p2}
  Keys = {k1, k2}
  Sizes = {1, 2}
  TTLs = {0}
  MaxSizes = {0}
  Ops = {"put"}
  Faults = {}
  MaxTime = 4
SPECIFICATION Spec
INVARIANT NoLostEntry
CHECK_DEADLOCK FALSE
