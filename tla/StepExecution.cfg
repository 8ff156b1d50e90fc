\* One worker and two jobs of two steps, with every fault: workers share only what is
\* named after a job, and a job is with one of them at a time.
CONSTANTS
  Workers = {w1}
  Jobs = {j1, j2}
  MaxSteps = 2
  Faults = {"pull", "mkdir", "spawn", "create", "start", "wait", "remove", "rmdir", "lost", "crash"}
SPECIFICATION FairSpec
INVARIANTS ContainersRemoved WorkspaceRemoved SuccessHonest
PROPERTIES TimeoutEnforced
