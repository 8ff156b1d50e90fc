\* One worker and one channel slot, which two jobs and any number of phantoms fill; GitHub
\* may be unreachable for five polls in a row.  In units of ten seconds: a check_interval of
\* 70 seconds, which the fourth error makes 280, the fifth the five minutes of the cap.
CONSTANTS
  Workers = {w1}
  Jobs = {1, 2}
  StepsOf <- OneStep
  Executors = {"shell", "firecracker"}
  Registered = {"shell"}
  Faults = {"emptyReply", "prepare"}
  Intervals = {7}
  Cap = 30
  Tolerated = 3
  MaxErrors = 5
SPECIFICATION PollingFairSpec
INVARIANTS Backpressure PeriodJustified
PROPERTIES ShutdownCompletes AcquiredGetsVerdict HeartbeatsEnd
