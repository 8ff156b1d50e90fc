\* Up to four changes of the file, in place, in pieces or by replacement.
CONSTANTS
  WatchFaults = {"replace", "overflow", "cut"}
  MaxChanges = 4
SPECIFICATION FairSpec
INVARIANT LateOnlyIfBegun
PROPERTIES FollowsFile
CHECK_DEADLOCK FALSE
