\* Two clients and a sweep on two names, two uploads, and no default retention or one
\* that is longer than what an upload may ask for and than the sweep's maximum.
CONSTANTS
  Clients = {c1, c2}
  Names = {n1, n2}
  Lives = {0, 1}
  Defaults = {0, 2}
  MaxAge = 1
  Faults = {"read", "write", "meta", "remove", "crash"}
  MaxTime = 2
  MaxUploads = 2
SPECIFICATION Spec
SYMMETRY Symmetry
INVARIANTS Agree DownloadHonest
PROPERTIES RetentionExact
CHECK_DEADLOCK FALSE
