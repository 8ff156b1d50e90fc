----------------------------- MODULE Lifecycle -----------------------------
(***************************************************************************)
(* The job state machine of internal/runner/lifecycle.go: its states, the  *)
(* transition table, what Transition does to the state, and the status     *)
(* GitHub is told for a state.  The module has no variables: RunnerPool    *)
(* keeps one lifecycle per executing worker and applies these operators.   *)
(***************************************************************************)

JobState == {"Queued", "Claimed", "Preparing", "Running", "PostExec",
             "Completed", "Failed", "Cancelled", "Cleanup"}

\* The states a job ends in before its clean-up.
Finished == {"Completed", "Failed", "Cancelled"}

\* Wrong on purpose: a running job cannot be cancelled.
validTransitionsNoCancel ==
  [ s \in JobState |->
      CASE s = "Queued"    -> {"Claimed", "Cancelled"}
        [] s = "Claimed"   -> {"Preparing", "Failed", "Cancelled"}
        [] s = "Preparing" -> {"Running", "Failed", "Cancelled"}
        [] s = "Running"   -> {"PostExec", "Failed"}
        [] s = "PostExec"  -> {"Completed", "Failed", "Cancelled"}
        [] s \in Finished  -> {"Cleanup"}
        [] s = "Cleanup"   -> {} ]

validTransitions ==
  [ s \in JobState |->
      CASE s = "Queued"    -> {"Claimed", "Cancelled"}
        [] s = "Claimed"   -> {"Preparing", "Failed", "Cancelled"}
        [] s = "Preparing" -> {"Running", "Failed", "Cancelled"}
        [] s = "Running"   -> {"PostExec", "Failed", "Cancelled"}
        [] s = "PostExec"  -> {"Completed", "Failed", "Cancelled"}
        [] s \in Finished  -> {"Cleanup"}
        [] s = "Cleanup"   -> {} ]

\* Transition returns nil exactly when this holds ...
Valid(from, to) == to \in validTransitions[from]

\* ... and leaves the state alone when it returns an error.
Transition(from, to) == IF Valid(from, to) THEN to ELSE from

JobStatus == {"queued", "in_progress", "completed", "failed", "cancelled"}

ToJobStatus(s) ==
  CASE s = "Queued"    -> "queued"
    [] s = "Completed" -> "completed"
    [] s = "Failed"    -> "failed"
    [] s = "Cancelled" -> "cancelled"
    [] OTHER           -> "in_progress"
=============================================================================
