\* Two pools that may hang, two signals, every fault.
CONSTANTS
  Pools = 2
  MaxSignals = 2
  Faults = {"client", "listen", "serve", "parent"}
SPECIFICATION FairSpec
INVARIANTS CleanExit NoSpontaneousStop
PROPERTIES ShutdownBounded CleanShutdown
