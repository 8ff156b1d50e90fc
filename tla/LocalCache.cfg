\* One process that may fail and crash anywhere and come back with another limit,
\* under the cache commands of the command line.
CONSTANTS
  Procs = {p1}
  Keys = {k1, k2}
  Sizes = {1, 3}
  TTLs = {0, 1}
  MaxSizes = {0, 2}
  Ops = {"put", "get", "delete", "prune", "cacheClear", "cachePrune"}
  Faults = {"write", "save", "remove", "crash"}
  MaxTime = 3
SPECIFICATION Spec
SYMMETRY Symmetry
INVARIANTS StoresAgree IndexTruthful WithinLimit
PROPERTIES EvictsOldest
