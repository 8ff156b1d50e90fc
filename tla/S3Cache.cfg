\* Two runners, one of them in a time zone ahead of UTC, two keys listed one at a time.
CONSTANTS
  Runners = {r1, r2}
  East = {r2}
  Keys = {1, 2}
  TTLs = {0, 1}
  PageSize = 1
  Faults = {"read", "delete"}
  MaxPuts = 4
  MaxTime = 2
SPECIFICATION FairSpec
INVARIANT PruneThorough
PROPERTIES LiveKept PruneReturns
