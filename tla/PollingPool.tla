---------------------------- MODULE PollingPool ----------------------------
(***************************************************************************)
(* A runner pool with its poller whole: RunnerPool, whose polls succeed or *)
(* fail, with PollBackoff, which counts the failures and sets the ticker   *)
(* (internal/runner/poller.go).  RunnerPool does not tell the errors of    *)
(* AcquireJob from its finding no job; the counter does.                   *)
(***************************************************************************)
EXTENDS RunnerPool, PollBackoff

pollingVars == <<vars, backoffVars>>

PollingInit == Init /\ BackoffInit

\* AcquireJob returns an error, as it must when its answer is lost; no job; or a job.
\* The counter and the ticker are set before the job is sent on.
PollBacksOff ==
  \/ AcquireNothing /\ PollFailed
  \/ AcquireNothing /\ UNCHANGED gh /\ PollSucceeded
  \/ (\E j \in AllJobs : AcquireReply(j)) /\ PollSucceeded
  \/ (PollTick \/ PollSend \/ PollStop) /\ UNCHANGED backoffVars

Others ==
  \/ Cancel
  \/ \E w \in Workers : Worker(w)
  \/ \E w \in Workers, j \in AllJobs : HeartbeatStop(w, j)
  \/ Terminated

PollingNext == PollBacksOff \/ (Others /\ UNCHANGED backoffVars)

PollingSpec == PollingInit /\ [][PollingNext]_pollingVars

\* As in RunnerPool: a longer period delays a tick and does not keep it from coming.
PollingFairSpec ==
  /\ PollingSpec
  /\ WF_pollingVars(PollBacksOff)
  /\ \A w \in Workers : WF_pollingVars(Worker(w) /\ UNCHANGED backoffVars)
  /\ \A w \in Workers, j \in AllJobs :
       WF_pollingVars(HeartbeatStop(w, j) /\ UNCHANGED backoffVars)
=============================================================================
