\* Two workers and two jobs with different step lists; every answer possible.
CONSTANTS
  Workers = {w1, w2}
  Jobs = {1, 2}
  StepsOf <- MixedSteps
  Executors = {"shell", "docker", "firecracker"}
  Registered = {"shell", "docker"}
  Faults = {"lostReply", "lostReport", "newExecutor", "prepare", "cleanup"}
SPECIFICATION Spec
SYMMETRY Symmetry
INVARIANTS OneHolder ActiveJobsExact LifecycleInStep StepHasWorkspace VerdictJustified
PROPERTIES VerdictFinal Refines
