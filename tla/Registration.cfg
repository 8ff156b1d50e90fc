\* One shell, two names, everything that can fail.
CONSTANTS
  Procs = {p1}
  Names = {n1, n2}
  PageSize = 3
  Faults = {"api", "lost", "write", "crash", "kill", "client", "env"}
  MaxIds = 3
  MaxPids = 2
SPECIFICATION Spec
INVARIANTS StillListed DaemonStoppable
CHECK_DEADLOCK FALSE
