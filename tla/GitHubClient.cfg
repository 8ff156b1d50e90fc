\* Two callers, one retry, a window of four requests of which two are reserved, the least
\* that is enough for two callers.
CONSTANTS
  Callers = {c1, c2}
  MaxRetries = 1
  Limit = 4
  Share = 2
  Faults = {"timeout", "network", "body", "transient", "rejected", "cancel"}
SPECIFICATION FairSpec
INVARIANTS AppliedOnce SuccessTookEffect NeverForbidden
PROPERTIES CallsReturn
