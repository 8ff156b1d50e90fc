--------------------------- MODULE RunnerPoolProofs ---------------------------
(***************************************************************************)
(* Proofs about RunnerPool, for any finite sets of workers and jobs, any   *)
(* step lists and any faults; about PollBackoff, for every set of          *)
(* intervals, every cap and every bound on the errors; and about           *)
(* PollingPool, which implements both.                                     *)
(***************************************************************************)
EXTENDS PollingPool, FiniteSetTheorems, TLAPS

-----------------------------------------------------------------------------
\* The core invariant: types, the active-job counter, and who holds something.

\* A goroutine holds a job exactly between taking it and letting go of it.
Holding ==
  /\ held = NoJob <=> poller # "sending"
  /\ \A w \in Workers : job[w] = NoJob <=> pc[w] \in {"select", "stopped"}

Core == TypeOK /\ ActiveJobsExact /\ Holding

\* NoJob is no job.
LEMMA NoJobIsNone == NoJob \notin AllJobs
  BY JobsAssumption DEF NoJob, AllJobs, Phantom

\* The workers inside Execute are finitely many, so counting them makes sense.
LEMMA BusyFinite ==
  ASSUME NEW S \in SUBSET Workers
  PROVE  IsFiniteSet(S) /\ Cardinality(S) \in Nat
  BY WorkersAssumption, FS_Subset, FS_CardinalityType

\* The invariant holds when the pool starts.
LEMMA CoreInit == Init => Core
<1> SUFFICES ASSUME Init PROVE Core
  OBVIOUS
<1>1. TypeOK
  <2>1. outcomes \in [AllJobs -> Seq(Outcome)] /\ jobs \in Seq(AllJobs)
    BY DEF Init
  <2>2. hb \subseteq Workers \X AllJobs /\ workspaces \subseteq AllJobs
    BY DEF Init
  <2>3. gh \in [Jobs -> GitHubStatus] /\ ghSteps \in [Jobs -> SUBSET Nat]
    BY DEF Init, GitHubStatus
  <2>4. pc \in [Workers -> WorkerState] /\ lc \in [Workers -> JobState]
    BY DEF Init, WorkerState, JobState
  <2> QED BY <2>1, <2>2, <2>3, <2>4 DEF Init, TypeOK, PollerState
<1>2. {w \in Workers : pc[w] \in Busy} = {}
  BY DEF Init, Busy, Executing
<1>3. ActiveJobsExact
  BY <1>2, FS_EmptySet DEF Init, ActiveJobsExact
<1>4. Holding
  BY DEF Init, Holding
<1> QED BY <1>1, <1>3, <1>4 DEF Core

\* The two answers to AcquireJob apart: a job of GitHub's, and the empty one.
JobReply(j) ==
  /\ poller = "acquiring" /\ gh[j] = "queued"
  /\ gh' = [gh EXCEPT ![j] = "assigned"] /\ held' = j /\ poller' = "sending"
  /\ UNCHANGED <<executor, ctxDone, ghSteps, jobs, pc, job, execVars, activeJobs, hb>>

EmptyReply ==
  /\ poller = "acquiring" /\ held' = Phantom /\ poller' = "sending"
  /\ UNCHANGED <<executor, ctxDone, ghVars, jobs, pc, job, execVars, activeJobs, hb>>

LEMMA PollCases ==
  ASSUME Poll
  PROVE  \/ PollTick \/ EmptyReply \/ AcquireNothing \/ PollSend \/ PollStop
         \/ \E j \in Jobs : JobReply(j)
<1>1. ASSUME NEW j \in Jobs, AcquireReply(j)
      PROVE  JobReply(j)
  <2>1. j # Phantom
    BY JobsAssumption DEF Phantom
  <2> QED BY <1>1, <2>1 DEF AcquireReply, JobReply
<1>2. AcquireReply(Phantom) => EmptyReply
  BY DEF AcquireReply, EmptyReply, ghVars
<1> QED BY <1>1, <1>2 DEF Poll, AllJobs

\* A step of the environment, the poller or a heartbeat leaves the workers alone.
LEMMA CoreOthers ==
  ASSUME Core,
         \/ Cancel \/ Poll \/ Terminated \/ UNCHANGED vars
         \/ \E w \in Workers, j \in AllJobs : HeartbeatStop(w, j)
  PROVE  Core'
<1> USE NoJobIsNone DEF Core, TypeOK, Holding, ActiveJobsExact, vars, ghVars, pollerVars, execVars
<1>1. CASE Cancel
  BY <1>1 DEF Cancel
<1>2. CASE PollTick
  BY <1>2 DEF PollTick, PollerState
<1>3. CASE EmptyReply
  BY <1>3 DEF EmptyReply, PollerState, AllJobs
<1>4. CASE AcquireNothing
  BY <1>4 DEF AcquireNothing, PollerState, GitHubStatus
<1>5. CASE PollSend
  <2>1. jobs' \in Seq(AllJobs)
    BY <1>5 DEF PollSend
  <2> QED BY <1>5, <2>1 DEF PollSend, PollerState
<1>6. CASE PollStop
  BY <1>6 DEF PollStop, PollerState
<1>7. CASE \E j \in Jobs : JobReply(j)
  BY <1>7 DEF JobReply, PollerState, GitHubStatus, AllJobs
<1>8. CASE Terminated \/ UNCHANGED vars
  BY <1>8 DEF Terminated
<1>9. CASE \E w \in Workers, j \in AllJobs : HeartbeatStop(w, j)
  BY <1>9 DEF HeartbeatStop
<1> QED BY <1>1, <1>2, <1>3, <1>4, <1>5, <1>6, <1>7, <1>8, <1>9, PollCases

\* A worker that keeps its job, or stays without one, does not change the count.
LEMMA SameCount ==
  ASSUME ActiveJobsExact, NEW w \in Workers, NEW to, UNCHANGED activeJobs,
         pc \in [Workers -> WorkerState],
         pc' = [pc EXCEPT ![w] = to], pc[w] \in Busy <=> to \in Busy
  PROVE  ActiveJobsExact'
<1>1. {v \in Workers : pc'[v] \in Busy} = {v \in Workers : pc[v] \in Busy}
  OBVIOUS
<1> QED BY <1>1 DEF ActiveJobsExact

\* A worker that takes a job and counts it keeps the count exact.
LEMMA OneMore ==
  ASSUME ActiveJobsExact, NEW w \in Workers, NEW to \in Busy,
         activeJobs' = activeJobs + 1, pc \in [Workers -> WorkerState],
         pc' = [pc EXCEPT ![w] = to], pc[w] \notin Busy
  PROVE  ActiveJobsExact' /\ activeJobs' \in Nat
<1> DEFINE B == {v \in Workers : pc[v] \in Busy}
<1>1. {v \in Workers : pc'[v] \in Busy} = B \cup {w} /\ w \notin B
  OBVIOUS
<1>2. Cardinality(B \cup {w}) = Cardinality(B) + 1 /\ Cardinality(B) \in Nat
  BY <1>1, BusyFinite, FS_AddElement, FS_CardinalityType
<1> QED BY <1>1, <1>2 DEF ActiveJobsExact

\* A worker that drops its job and takes back its count does too, above zero.
LEMMA OneLess ==
  ASSUME ActiveJobsExact, NEW w \in Workers, NEW to,
         activeJobs' = activeJobs - 1, pc \in [Workers -> WorkerState],
         pc' = [pc EXCEPT ![w] = to], pc[w] \in Busy, to \notin Busy
  PROVE  ActiveJobsExact' /\ activeJobs' \in Nat
<1> DEFINE B == {v \in Workers : pc[v] \in Busy}
<1>1. {v \in Workers : pc'[v] \in Busy} = B \ {w} /\ w \in B
  OBVIOUS
<1>2. Cardinality(B \ {w}) = Cardinality(B) - 1 /\ Cardinality(B \ {w}) \in Nat
  BY <1>1, BusyFinite, FS_RemoveElement, FS_CardinalityType
<1>3. activeJobs' = Cardinality(B) - 1
  BY DEF ActiveJobsExact
<1> QED BY <1>1, <1>2, <1>3 DEF ActiveJobsExact

\* A step of a worker preserves the core invariant.
LEMMA CoreWorker ==
  ASSUME Core, NEW w \in Workers, Worker(w)
  PROVE  Core'
<1> USE NoJobIsNone DEF Core, TypeOK, Holding, ghVars, pollerVars, execVars
<1>1. CASE Receive(w)
  <2>1. Head(jobs) \in AllJobs /\ Tail(jobs) \in Seq(AllJobs)
    BY <1>1 DEF Receive
  <2>2. ActiveJobsExact' /\ activeJobs' \in Nat
    BY <1>1, OneMore DEF Receive, Busy, Executing
  <2> QED BY <1>1, <2>1, <2>2 DEF Receive, WorkerState
<1>2. CASE WorkerStop(w)
  <2>1. ActiveJobsExact'
    BY <1>2, SameCount DEF WorkerStop, Busy, Executing
  <2> QED BY <1>2, <2>1 DEF WorkerStop, WorkerState
<1>3. CASE NewExecutor(w)
  <2>1. CASE pc' = [pc EXCEPT ![w] = "select"]
    <3>1. activeJobs' = activeJobs - 1 /\ job' = [job EXCEPT ![w] = NoJob]
      BY <1>3, <2>1 DEF NewExecutor
    <3>2. ActiveJobsExact' /\ activeJobs' \in Nat
      BY <1>3, <2>1, <3>1, OneLess DEF NewExecutor, Busy, Executing
    <3> QED BY <1>3, <2>1, <3>1, <3>2 DEF NewExecutor, WorkerState, JobState
  <2>2. CASE pc' = [pc EXCEPT ![w] = "claim"]
    <3>1. UNCHANGED activeJobs /\ UNCHANGED job
      BY <1>3, <2>2 DEF NewExecutor
    <3>4. ActiveJobsExact'
      BY <1>3, <2>2, <3>1, SameCount DEF NewExecutor, Busy, Executing
    <3>5. /\ lc' = [lc EXCEPT ![w] = "Queued"] \/ lc' = lc
          /\ step' = [step EXCEPT ![w] = 1] \/ step' = step
          /\ jobFailed' = [jobFailed EXCEPT ![w] = FALSE] \/ jobFailed' = jobFailed
      BY <1>3 DEF NewExecutor
    <3>6. lc' \in [Workers -> JobState] /\ step' \in [Workers -> Nat] /\ jobFailed' \in [Workers -> BOOLEAN]
      <4>1. lc' \in [Workers -> JobState]
        BY <3>5 DEF JobState
      <4>2. step' \in [Workers -> Nat]
        BY SMTT(30), <3>5
      <4>3. jobFailed' \in [Workers -> BOOLEAN]
        BY <3>5
      <4> QED BY <4>1, <4>2, <4>3
    <3>7. activeJobs' \in Nat /\ pc' \in [Workers -> WorkerState]
      BY <2>2, <3>1 DEF WorkerState, Executing
    <3>8. Holding'
      BY <1>3, <2>2, <3>1 DEF NewExecutor
    <3> QED BY <1>3, <3>1, <3>4, <3>6, <3>7, <3>8 DEF NewExecutor
  <2> QED BY <1>3, <2>1, <2>2 DEF NewExecutor
<1>4. CASE Claim(w)
  <2>1. job[w] \in AllJobs
    BY <1>4 DEF Claim
  <2>2. ActiveJobsExact'
    BY <1>4, SameCount DEF Claim, Advance, Busy, Executing
  <2>3. gh' \in [Jobs -> GitHubStatus]
    BY <1>4 DEF Claim, ReportJobStatus, GitHubStatus
  <2>4. hb' \subseteq Workers \X AllJobs
    BY <1>4, <2>1 DEF Claim
  <2> QED BY <1>4, <2>2, <2>3, <2>4 DEF Claim, Advance, Transition, WorkerState, Executing, JobState
<1>5. CASE PreHooks(w)
  <2>1. ActiveJobsExact'
    BY <1>5, SameCount DEF PreHooks, Advance, Busy, Executing
  <2> QED BY <1>5, <2>1 DEF PreHooks, Advance, Transition, WorkerState, Executing, JobState
<1>6. CASE Prepare(w)
  <2>1. ActiveJobsExact'
    BY <1>6, SameCount DEF Prepare, Advance, Busy, Executing
  <2>2. workspaces' \subseteq AllJobs
    <3>1. job[w] \in AllJobs
      BY <1>6 DEF Prepare
    <3> QED BY <1>6, <3>1 DEF Prepare, WorkspaceOf
  <2> QED BY <1>6, <2>1, <2>2 DEF Prepare, Advance, Transition, WorkerState, Executing, JobState
<1>7. CASE NextStep(w)
  <2>1. ActiveJobsExact'
    BY <1>7, SameCount DEF NextStep, Advance, Busy, Executing
  <2> QED BY ZenonT(30), <1>7, <2>1 DEF NextStep, Advance, Transition, WorkerState, Executing, JobState
<1>8. CASE RunStep(w)
  <2>1. ActiveJobsExact'
    BY <1>8, SameCount DEF RunStep, Advance, Busy, Executing
  <2>2. outcomes' \in [AllJobs -> Seq(Outcome)]
    BY <1>8, SMTT(30) DEF RunStep
  <2>3. lc' \in [Workers -> JobState] /\ step' \in [Workers -> Nat]
    BY <1>8 DEF RunStep, Advance, Transition, JobState
  <2> QED BY ZenonT(30), <1>8, <2>1, <2>2, <2>3 DEF RunStep, Advance, WorkerState, Executing
<1>9. CASE ReportStep(w)
  <2>1. ActiveJobsExact'
    BY <1>9, SameCount DEF ReportStep, Advance, Busy, Executing
  <2>2. ghSteps' \in [Jobs -> SUBSET Nat]
    <3>1. PICK ok \in BOOLEAN : ghSteps' = IF ok THEN [ghSteps EXCEPT ![job[w]] = @ \cup {step[w]}]
                                             ELSE ghSteps
      BY <1>9 DEF ReportStep, ReportStepStatus, Delivered
    <3>2. \A j \in Jobs : ghSteps[j] \cup {step[w]} \in SUBSET Nat
      OBVIOUS
    <3>3. CASE ok
      BY <3>1, <3>2, <3>3
    <3>4. CASE ~ok
      BY <3>1, <3>4
    <3> QED BY <3>3, <3>4
  <2>3. lc' \in [Workers -> JobState]
    BY <1>9 DEF ReportStep, Advance, Transition, JobState
  <2>4. step' \in [Workers -> Nat]
    <3>1. step[w] + 1 \in Nat
      OBVIOUS
    <3>2. step' = step \/ step' = [step EXCEPT ![w] = step[w] + 1]
      BY <1>9 DEF ReportStep
    <3> QED BY <3>1, <3>2
  <2> QED BY <1>9, <2>1, <2>2, <2>3, <2>4 DEF ReportStep, Advance, WorkerState, Executing
<1>10. CASE PostHooks(w)
  <2>1. ActiveJobsExact'
    BY <1>10, SameCount DEF PostHooks, Busy, Executing
  <2> QED BY <1>10, <2>1 DEF PostHooks, Transition, WorkerState, Executing, JobState
<1>11. CASE Report(w)
  <2>1. ActiveJobsExact'
    BY <1>11, SameCount DEF Report, Busy, Executing
  <2>2. gh' \in [Jobs -> GitHubStatus]
    BY <1>11 DEF Report, ReportJobStatus, ToJobStatus, GitHubStatus
  <2> QED BY <1>11, <2>1, <2>2 DEF Report, WorkerState, Executing
<1>12. CASE Unwind(w)
  <2>4. ActiveJobsExact' /\ activeJobs' \in Nat
    BY <1>12, OneLess DEF Unwind, Busy, Executing
  <2> QED BY <1>12, <2>4 DEF Unwind, Transition, WorkerState, JobState
<1> QED BY <1>1, <1>2, <1>3, <1>4, <1>5, <1>6, <1>7, <1>8, <1>9, <1>10, <1>11, <1>12 DEF Worker

\* Types are respected, ActiveJobs() counts the workers that have a job exactly, and
\* a goroutine holds a job exactly while its control state says so.
THEOREM CoreInvariant == Spec => []Core
<1>1. Core /\ [Next]_vars => Core'
  BY CoreOthers, CoreWorker DEF Next
<1> QED BY CoreInit, <1>1, PTL DEF Spec

\* Types are respected: in particular the active-job counter never goes below zero.
THEOREM TypeCorrect == Spec => []TypeOK
<1>1. Core => TypeOK
  BY DEF Core
<1> QED BY CoreInvariant, <1>1, PTL

\* Whatever path a worker takes out of its loop body, the counter is exact.
THEOREM CounterExact == Spec => []ActiveJobsExact
<1>1. Core => ActiveJobsExact
  BY DEF Core
<1> QED BY CoreInvariant, <1>1, PTL
-----------------------------------------------------------------------------
\* The lifecycle is where Execute expects it.

\* The rows of the transition table that Execute uses.
LEMMA Table ==
  /\ Transition("Queued", "Claimed") = "Claimed" /\ Valid("Queued", "Claimed")
  /\ Transition("Claimed", "Preparing") = "Preparing" /\ Valid("Claimed", "Preparing")
  /\ Transition("Preparing", "Running") = "Running" /\ Valid("Preparing", "Running")
  /\ Transition("Preparing", "Failed") = "Failed"
  /\ Transition("Running", "PostExec") = "PostExec" /\ Valid("Running", "PostExec")
  /\ Transition("Running", "Cancelled") = "Cancelled"
  /\ Transition("PostExec", "Failed") = "Failed"
  /\ Transition("PostExec", "Completed") = "Completed"
  /\ \A s \in Finished : Transition(s, "Cleanup") = "Cleanup"
  BY DEF Transition, Valid, validTransitions, JobState, Finished

\* Moving one worker to a point that expects its new lifecycle state.
LEMMA LifecycleMove ==
  ASSUME Core, LifecycleInStep, NEW w \in Workers, NEW p, NEW s,
         pc' = [pc EXCEPT ![w] = p], lc' = [lc EXCEPT ![w] = s], s \in ExpectedAt(p)
  PROVE  LifecycleInStep'
  BY DEF Core, TypeOK, LifecycleInStep

\* The same when the state does not change.
LEMMA LifecycleStay ==
  ASSUME Core, LifecycleInStep, NEW w \in Workers, NEW p,
         pc' = [pc EXCEPT ![w] = p], UNCHANGED lc, lc[w] \in ExpectedAt(p)
  PROVE  LifecycleInStep'
  BY DEF Core, TypeOK, LifecycleInStep

\* A worker's steps keep the lifecycle of every worker in step with its control
\* state; in particular none of Execute's transitions is refused.
LEMMA LifecycleWorker ==
  ASSUME Core, LifecycleInStep, NEW w \in Workers, Worker(w)
  PROVE  LifecycleInStep'
<1>0. lc[w] \in ExpectedAt(pc[w])
  BY DEF LifecycleInStep
<1> USE DEF ExpectedAt, ghVars, pollerVars, execVars
<1>1. CASE Receive(w) \/ WorkerStop(w)
  BY <1>0, <1>1, LifecycleStay DEF Receive, WorkerStop
<1>2. CASE NewExecutor(w)
  BY <1>0, <1>2, LifecycleStay, LifecycleMove DEF NewExecutor
<1>3. CASE Claim(w)
  <2>1. lc' = [lc EXCEPT ![w] = "Claimed"] /\ pc' = [pc EXCEPT ![w] = "claimed"]
    BY <1>0, <1>3, Table DEF Claim, Advance
  <2> QED BY <2>1, LifecycleMove
<1>4. CASE PreHooks(w)
  <2>1. lc' = [lc EXCEPT ![w] = "Preparing"] /\ pc' = [pc EXCEPT ![w] = "preparing"]
    BY <1>0, <1>4, Table DEF PreHooks, Advance
  <2> QED BY <2>1, LifecycleMove
<1>5. CASE Prepare(w)
  BY <1>0, <1>5, Table, LifecycleMove DEF Prepare, Advance, Finished
<1>6. CASE NextStep(w)
  <2>1. \/ lc' = [lc EXCEPT ![w] = "PostExec"] /\ pc' = [pc EXCEPT ![w] = "post"]
        \/ lc' = [lc EXCEPT ![w] = "Cancelled"] /\ pc' = [pc EXCEPT ![w] = "report"]
        \/ UNCHANGED lc /\ pc' = [pc EXCEPT ![w] = "run"] /\ lc[w] = "Running"
    BY <1>0, <1>6, Table DEF NextStep, Advance
  <2> QED BY <2>1, LifecycleMove, LifecycleStay DEF Finished
<1>7. CASE RunStep(w)
  <2>1. \/ UNCHANGED lc /\ pc' = [pc EXCEPT ![w] = "stepReport"]
        \/ UNCHANGED lc /\ pc' = [pc EXCEPT ![w] = "steps"]
        \/ lc' = [lc EXCEPT ![w] = "PostExec"] /\ pc' = [pc EXCEPT ![w] = "post"]
    BY <1>0, <1>7, Table DEF RunStep, Advance
  <2>2. lc[w] = "Running"
    BY <1>0, <1>7 DEF RunStep
  <2> QED BY <2>1, <2>2, LifecycleMove, LifecycleStay
<1>8. CASE ReportStep(w)
  BY <1>0, <1>8, Table, LifecycleMove, LifecycleStay DEF ReportStep, Advance
<1>9. CASE PostHooks(w)
  BY <1>0, <1>9, Table, LifecycleMove DEF PostHooks, Finished
<1>10. CASE Report(w)
  BY <1>0, <1>10, LifecycleStay DEF Report
<1>11. CASE Unwind(w)
  BY <1>0, <1>11, Table, LifecycleMove DEF Unwind
<1> QED BY <1>1, <1>2, <1>3, <1>4, <1>5, <1>6, <1>7, <1>8, <1>9, <1>10, <1>11 DEF Worker

\* No transition of Execute is refused, and every execution ends in Cleanup.
THEOREM LifecycleFollowed == Spec => []LifecycleInStep
<1>1. Init => LifecycleInStep
  BY DEF Init, LifecycleInStep, ExpectedAt
<1>2. Core /\ LifecycleInStep /\ [Next]_vars => LifecycleInStep'
  <2> SUFFICES ASSUME Core, LifecycleInStep, [Next]_vars
               PROVE  LifecycleInStep'
    OBVIOUS
  <2>1. CASE \E w \in Workers : Worker(w)
    BY <2>1, LifecycleWorker
  <2>2. CASE UNCHANGED <<pc, lc>>
    BY <2>2 DEF LifecycleInStep, ExpectedAt
  <2>3. CASE Cancel \/ Poll \/ Terminated \/ UNCHANGED vars
             \/ \E w \in Workers, j \in AllJobs : HeartbeatStop(w, j)
    BY <2>2, <2>3, PollCases DEF Cancel, PollTick, JobReply, EmptyReply, AcquireNothing, PollSend,
                      PollStop, Terminated, HeartbeatStop, vars, execVars
  <2> QED BY <2>1, <2>3 DEF Next
<1> QED BY CoreInvariant, <1>1, <1>2, PTL DEF Spec

-----------------------------------------------------------------------------
\* One holder per job.

\* What sending to the channel, and receiving from it, does to its contents.
LEMMA ChannelSend ==
  ASSUME NEW S, NEW s \in Seq(S), NEW x \in S
  PROVE  /\ Len(Append(s, x)) = Len(s) + 1
         /\ \A i \in 1..Len(s) : Append(s, x)[i] = s[i]
         /\ Append(s, x)[Len(s) + 1] = x
         /\ Len(s) \in Nat
  OBVIOUS

LEMMA ChannelReceive ==
  ASSUME NEW S, NEW s \in Seq(S), s # <<>>
  PROVE  /\ Len(s) \in Nat /\ Len(s) > 0
         /\ Len(Tail(s)) = Len(s) - 1
         /\ \A i \in 1..(Len(s) - 1) : Tail(s)[i] = s[i + 1]
         /\ Head(s) = s[1]
  OBVIOUS

\* Steps that leave the places of jobs alone keep OneHolder.
LEMMA HolderUnmoved ==
  ASSUME OneHolder, UNCHANGED <<held, jobs, job>>,
         \A j \in Jobs : gh'[j] = "queued" => gh[j] = "queued"
  PROVE  OneHolder'
  BY DEF OneHolder, InChannel

\* A worker that lets go of its job keeps it.
LEMMA HolderRelease ==
  ASSUME Core, OneHolder, NEW w \in Workers, job' = [job EXCEPT ![w] = NoJob],
         UNCHANGED <<held, jobs, gh>>
  PROVE  OneHolder'
<1>1. \A v \in Workers : job'[v] = job[v] \/ job'[v] = NoJob
  BY DEF Core, TypeOK
<1>2. NoJob \notin Jobs
  BY NoJobIsNone DEF AllJobs
<1> QED BY <1>1, <1>2 DEF OneHolder, InChannel

\* The poller's steps keep OneHolder.
LEMMA HolderPoll ==
  ASSUME Core, OneHolder, Poll
  PROVE  OneHolder'
<1>0. NoJob \notin Jobs
  BY NoJobIsNone DEF AllJobs
<1>1. CASE PollTick
  BY <1>1, HolderUnmoved DEF PollTick, ghVars
<1>2. CASE EmptyReply
  <2>1. Phantom \notin Jobs
    BY JobsAssumption DEF Phantom
  <2> QED BY <1>2, <2>1 DEF EmptyReply, ghVars, OneHolder, InChannel
<1>3. CASE AcquireNothing
  <2>1. \A j \in Jobs : gh'[j] = "queued" => gh[j] = "queued"
    BY <1>3 DEF AcquireNothing, Core, TypeOK
  <2> QED BY <1>3, <2>1, HolderUnmoved DEF AcquireNothing
<1>4. CASE PollSend
  <2>1. held \in AllJobs /\ jobs \in Seq(AllJobs) /\ jobs' = Append(jobs, held) /\ held' = NoJob
    BY <1>4 DEF PollSend, Core, TypeOK, Holding
  <2>2. \A j : InChannel(j)' => InChannel(j) \/ j = held
    BY <2>1, ChannelSend DEF InChannel
  <2>3. ASSUME NEW j \in Jobs, NEW i \in 1..Len(jobs'), NEW k \in 1..Len(jobs'),
               jobs'[i] = j, jobs'[k] = j
        PROVE  i = k
    <3>1. Len(jobs') = Len(jobs) + 1 /\ Len(jobs) \in Nat
      BY <2>1, ChannelSend
    <3>2. CASE held = j
      <4>1. \A n \in 1..Len(jobs) : jobs[n] # j
        BY <3>2 DEF OneHolder, InChannel
      <4>2. \A n \in 1..Len(jobs) : jobs'[n] # j
        BY <2>1, <4>1, ChannelSend
      <4> QED BY <2>3, <3>1, <4>2
    <3>3. CASE held # j
      <4>1. jobs'[Len(jobs) + 1] # j
        BY <2>1, <3>3, ChannelSend
      <4>2. i \in 1..Len(jobs) /\ k \in 1..Len(jobs)
        BY <2>3, <3>1, <4>1
      <4>3. jobs[i] = j /\ jobs[k] = j
        BY <2>1, <2>3, <4>2, ChannelSend
      <4> QED BY <4>2, <4>3 DEF OneHolder
    <3> QED BY <3>2, <3>3
  <2>4. UNCHANGED <<gh, job>>
    BY <1>4 DEF PollSend, ghVars
  <2> QED BY <1>0, <2>1, <2>2, <2>3, <2>4 DEF OneHolder
<1>5. CASE PollStop
  BY <1>0, <1>5 DEF PollStop, ghVars, OneHolder, InChannel
<1>6. CASE \E j \in Jobs : JobReply(j)
  <2>1. PICK r \in Jobs : JobReply(r)
    BY <1>6
  <2>2. held' = r /\ gh[r] = "queued" /\ gh' = [gh EXCEPT ![r] = "assigned"] /\ UNCHANGED <<jobs, job>>
    BY <2>1 DEF JobReply
  <2>3. ~InChannel(r) /\ \A w \in Workers : job[w] # r
    BY <2>2 DEF OneHolder
  <2>4. \A j \in Jobs : gh'[j] = "queued" => gh[j] = "queued" /\ j # r
    BY <2>2 DEF Core, TypeOK
  <2>5. \A j : InChannel(j)' <=> InChannel(j)
    BY <2>2 DEF InChannel
  <2> QED BY <2>2, <2>3, <2>4, <2>5 DEF OneHolder
<1> QED BY <1>1, <1>2, <1>3, <1>4, <1>5, <1>6, PollCases

\* A worker's steps keep OneHolder.
LEMMA HolderWorker ==
  ASSUME Core, LifecycleInStep, OneHolder, NEW w \in Workers, Worker(w)
  PROVE  OneHolder'
<1> USE DEF ghVars, pollerVars, execVars
<1>1. CASE Receive(w)
  <2>1. /\ jobs \in Seq(AllJobs) /\ jobs # <<>> /\ jobs' = Tail(jobs)
        /\ job \in [Workers -> AllJobs \cup {NoJob}]
        /\ job' = [job EXCEPT ![w] = Head(jobs)] /\ UNCHANGED <<held, gh>>
    BY <1>1 DEF Receive, Core, TypeOK
  <2>2. /\ Len(jobs) \in Nat /\ Len(jobs) > 0 /\ Len(jobs') = Len(jobs) - 1
        /\ \A i \in 1..Len(jobs') : i + 1 \in 1..Len(jobs) /\ jobs'[i] = jobs[i + 1]
    BY <2>1, ChannelReceive
  <2>3. InChannel(Head(jobs)) /\ Head(jobs) = jobs[1]
    BY <2>1, <2>2, ChannelReceive DEF InChannel
  <2>4. \A j : InChannel(j)' => InChannel(j)
    BY <2>2 DEF InChannel
  <2>5. \A j \in Jobs : j = Head(jobs) => ~InChannel(j)'
    BY <2>2, <2>3 DEF InChannel, OneHolder
  <2>6. \A j \in Jobs : \A i, k \in 1..Len(jobs') : jobs'[i] = j /\ jobs'[k] = j => i = k
    <3> SUFFICES ASSUME NEW j \in Jobs, NEW i \in 1..Len(jobs'), NEW k \in 1..Len(jobs'),
                        jobs'[i] = j, jobs'[k] = j
                 PROVE  i = k
      OBVIOUS
    <3>1. i + 1 = k + 1
      BY SMTT(30), <2>2 DEF OneHolder
    <3> QED BY <2>2, <3>1
  <2>7. \A v \in Workers : job'[v] = IF v = w THEN Head(jobs) ELSE job[v]
    BY <2>1
  <2> QED BY <2>1, <2>3, <2>4, <2>5, <2>6, <2>7 DEF OneHolder
<1>2. CASE WorkerStop(w)
  BY <1>2, HolderUnmoved DEF WorkerStop
<1>3. CASE NewExecutor(w)
  BY <1>3, HolderUnmoved, HolderRelease DEF NewExecutor
<1>4. CASE Claim(w) \/ Report(w)
  <2>1. \A j \in Jobs : gh'[j] = "queued" => gh[j] = "queued"
    <3>1. PICK st \in GitHubStatus \ {"queued"}, ok \in BOOLEAN :
                 gh' = IF ok THEN [gh EXCEPT ![job[w]] = st] ELSE gh
      BY <1>4 DEF Claim, Report, ReportJobStatus, Delivered, GitHubStatus, ToJobStatus,
                  LifecycleInStep, ExpectedAt, Finished
    <3> QED BY <3>1 DEF Core, TypeOK
  <2> QED BY <1>4, <2>1, HolderUnmoved DEF Claim, Report
<1>5. CASE PreHooks(w) \/ Prepare(w) \/ NextStep(w) \/ RunStep(w) \/ ReportStep(w) \/ PostHooks(w)
  BY <1>5, HolderUnmoved DEF PreHooks, Prepare, NextStep, RunStep, ReportStep, PostHooks
<1>6. CASE Unwind(w)
  BY <1>6, HolderRelease DEF Unwind
<1> QED BY <1>1, <1>2, <1>3, <1>4, <1>5, <1>6 DEF Worker
\* An assigned job is in one place, so it is run at most once and by one worker.
THEOREM SingleHolder == Spec => []OneHolder
<1>1. Init => OneHolder
  <2>1. NoJob \notin Jobs
    BY NoJobIsNone DEF AllJobs
  <2> QED BY <2>1 DEF Init, OneHolder, InChannel
<1>2. Core /\ LifecycleInStep /\ OneHolder /\ [Next]_vars => OneHolder'
  <2> SUFFICES ASSUME Core, LifecycleInStep, OneHolder, [Next]_vars
               PROVE  OneHolder'
    OBVIOUS
  <2>1. CASE Cancel \/ Terminated \/ UNCHANGED vars
             \/ \E w \in Workers, j \in AllJobs : HeartbeatStop(w, j)
    BY <2>1, HolderUnmoved DEF Cancel, Terminated, HeartbeatStop, vars, ghVars, pollerVars
  <2> QED BY <2>1, HolderPoll, HolderWorker DEF Next
<1> QED BY CoreInvariant, LifecycleFollowed, <1>1, <1>2, PTL DEF Spec
-----------------------------------------------------------------------------
\* The pool implements JobDispatch.

Inv == Core /\ LifecycleInStep /\ OneHolder

\* phase depends on the places of jobs only.
LEMMA PhaseSame ==
  ASSUME NEW j \in Jobs, gh'[j] = "queued" <=> gh[j] = "queued",
         Running(j)' <=> Running(j), Waiting(j)' <=> Waiting(j)
  PROVE  phase'[j] = phase[j]
  BY DEF phase

\* phase is a function on Jobs, before and after a step.
LEMMA PhaseUpdate ==
  ASSUME NEW r \in Jobs, NEW v, phase'[r] = v,
         \A j \in Jobs : j # r => phase'[j] = phase[j]
  PROVE  phase' = [phase EXCEPT ![r] = v]
  BY DEF phase

LEMMA PhaseKept ==
  ASSUME \A j \in Jobs : phase'[j] = phase[j]
  PROVE  UNCHANGED phase
  BY DEF phase

\* The poller's steps.
LEMMA RefinePoll ==
  ASSUME Inv, Poll
  PROVE  Dispatch!Next \/ UNCHANGED phase
<1> USE DEF ghVars, pollerVars, execVars
<1>0. NoJob \notin Jobs /\ Phantom \notin Jobs
  BY NoJobIsNone, JobsAssumption DEF AllJobs, Phantom
<1>1. CASE PollTick
  BY <1>1, PhaseSame, PhaseKept DEF PollTick, Running, Waiting, InChannel, Received
<1>2. CASE EmptyReply
  <2>1. held = NoJob /\ held' = Phantom
    BY <1>2 DEF EmptyReply, Inv, Core, Holding
  <2> QED BY <1>0, <1>2, <2>1, PhaseSame, PhaseKept DEF EmptyReply, Running, Waiting, InChannel, Received
<1>3. CASE AcquireNothing
  <2>1. \A j : Running(j)' <=> Running(j)
    BY <1>3 DEF AcquireNothing, Running
  <2>2. \A j : Waiting(j)' <=> Waiting(j)
    BY <1>3 DEF AcquireNothing, Waiting, InChannel, Received
  <2>3. CASE UNCHANGED gh
    BY <2>1, <2>2, <2>3, PhaseSame, PhaseKept
  <2>4. CASE \E j \in Jobs : gh[j] = "queued" /\ gh' = [gh EXCEPT ![j] = "assigned"]
    <3>1. PICK r \in Jobs : gh[r] = "queued" /\ gh' = [gh EXCEPT ![r] = "assigned"]
      BY <2>4
    <3>2. ~Running(r) /\ ~Waiting(r)
      BY <3>1 DEF Inv, OneHolder, Running, Waiting, Received
    <3>3. gh'[r] # "queued" /\ \A j \in Jobs : j # r => gh'[j] = gh[j]
      BY <3>1 DEF Inv, Core, TypeOK
    <3>4. phase[r] = "queued" /\ phase'[r] = "gone"
      BY <2>1, <2>2, <3>1, <3>2, <3>3 DEF phase
    <3>5. \A j \in Jobs : j # r => phase'[j] = phase[j]
      BY <2>1, <2>2, <3>3, PhaseSame
    <3>6. phase' = [phase EXCEPT ![r] = "gone"]
      BY <3>4, <3>5, PhaseUpdate
    <3> QED BY <3>4, <3>6 DEF Dispatch!Next, Dispatch!Lose
  <2> QED BY <1>3, <2>3, <2>4 DEF AcquireNothing
<1>4. CASE PollSend
  <2>1. held \in AllJobs /\ jobs \in Seq(AllJobs) /\ jobs' = Append(jobs, held) /\ held' = NoJob
    BY <1>4 DEF PollSend, Inv, Core, TypeOK, Holding
  <2>2. /\ Len(jobs') = Len(jobs) + 1 /\ Len(jobs) \in Nat
        /\ \A i \in 1..Len(jobs) : jobs'[i] = jobs[i]
        /\ jobs'[Len(jobs) + 1] = held
    BY <2>1, ChannelSend
  <2>3. \A j \in Jobs : InChannel(j)' <=> InChannel(j) \/ held = j
    <3> SUFFICES ASSUME NEW j \in Jobs
                 PROVE  InChannel(j)' <=> InChannel(j) \/ held = j
      OBVIOUS
    <3>1. InChannel(j)' => InChannel(j) \/ held = j
      BY <2>2 DEF InChannel
    <3>2. InChannel(j) => InChannel(j)'
      BY <2>2 DEF InChannel
    <3>3. held = j => InChannel(j)'
      BY <2>2 DEF InChannel
    <3> QED BY <3>1, <3>2, <3>3
  <2>4. UNCHANGED <<gh, pc, job>>
    BY <1>4 DEF PollSend
  <2>5. \A j \in Jobs : Waiting(j)' <=> Waiting(j)
    BY <1>0, <2>1, <2>3, <2>4 DEF Waiting, Received
  <2> QED BY <2>4, <2>5, PhaseSame, PhaseKept DEF Running
<1>5. CASE PollStop
  <2>1. held' = NoJob /\ UNCHANGED <<gh, jobs, pc, job>>
    BY <1>5 DEF PollStop
  <2>2. \A j \in Jobs : j # held => phase'[j] = phase[j]
    BY <1>0, <2>1, PhaseSame DEF Running, Waiting, InChannel, Received
  <2>3. CASE held \in Jobs
    <3>1. gh[held] # "queued" /\ ~Running(held) /\ ~InChannel(held) /\ ~Received(held)
      BY <2>3 DEF Inv, OneHolder, Running, Received
    <3>2. phase[held] = "waiting"
      BY <2>3, <3>1 DEF phase, Waiting
    <3>3. phase'[held] = "gone"
      BY <1>0, <2>1, <2>3, <3>1 DEF phase, Running, Waiting, InChannel, Received
    <3>4. phase' = [phase EXCEPT ![held] = "gone"]
      BY <2>2, <2>3, <3>3, PhaseUpdate
    <3> QED BY <2>3, <3>2, <3>4 DEF Dispatch!Next, Dispatch!Lose
  <2> QED BY <2>2, <2>3, PhaseKept
<1>6. CASE \E j \in Jobs : JobReply(j)
  <2>1. PICK r \in Jobs : JobReply(r)
    BY <1>6
  <2>2. /\ held = NoJob /\ held' = r /\ gh[r] = "queued" /\ gh' = [gh EXCEPT ![r] = "assigned"]
        /\ UNCHANGED <<jobs, pc, job>>
    BY <2>1 DEF JobReply, Inv, Core, Holding
  <2>3. ~Running(r)
    BY <2>2 DEF Inv, OneHolder, Running
  <2>4. gh'[r] # "queued" /\ \A j \in Jobs : j # r => gh'[j] = gh[j]
    BY <2>2 DEF Inv, Core, TypeOK
  <2>5. phase[r] = "queued" /\ phase'[r] = "waiting"
    BY <2>2, <2>3, <2>4 DEF phase, Running, Waiting
  <2>6. \A j \in Jobs : j # r => phase'[j] = phase[j]
    BY <1>0, <2>2, <2>4, PhaseSame DEF Running, Waiting, InChannel, Received
  <2>7. phase' = [phase EXCEPT ![r] = "waiting"]
    BY <2>5, <2>6, PhaseUpdate
  <2> QED BY <2>5, <2>7 DEF Dispatch!Next, Dispatch!Acquire
<1> QED BY <1>1, <1>2, <1>3, <1>4, <1>5, <1>6, PollCases
\* Fewer jobs run than there are workers when a worker is not executing one.
LEMMA RunningBound ==
  ASSUME Inv, NEW w \in Workers, pc[w] \notin Executing
  PROVE  Cardinality(Dispatch!RunningSet) < Concurrency
<1> DEFINE R == Dispatch!RunningSet
           B == {v \in Workers : pc[v] \in Executing}
           f == [j \in R |-> CHOOSE v \in B : job[v] = j]
<1>1. \A j \in R : \E v \in B : job[v] = j
  BY DEF Dispatch!RunningSet, phase, Running
<1>2. \A j \in R : f[j] \in B /\ job[f[j]] = j
  BY <1>1
<1>3. f \in Injection(R, B)
  BY <1>2 DEF Injection, IsInjective
<1>4. IsFiniteSet(Workers) /\ IsFiniteSet(B) /\ Cardinality(B) \in Nat /\ Cardinality(Workers) \in Nat
  BY BusyFinite, WorkersAssumption, FS_CardinalityType
<1>5. IsFiniteSet(R) /\ Cardinality(R) <= Cardinality(B) /\ Cardinality(R) \in Nat
  BY <1>3, <1>4, FS_Injection, FS_CardinalityType
<1>6. IsFiniteSet(Workers \ {w}) /\ Cardinality(Workers \ {w}) = Cardinality(Workers) - 1
  BY <1>4, FS_RemoveElement
<1>7. Cardinality(B) <= Cardinality(Workers \ {w})
  BY <1>6, FS_Subset
<1> QED BY <1>4, <1>5, <1>6, <1>7 DEF Concurrency

\* A step inside Execute moves no job.
LEMMA RefineInside ==
  ASSUME Inv, NEW w \in Workers, NEW p \in Executing, pc[w] \in Executing,
         pc' = [pc EXCEPT ![w] = p], UNCHANGED <<held, jobs, job>>,
         \A j \in Jobs : gh'[j] = "queued" <=> gh[j] = "queued"
  PROVE  UNCHANGED phase
<1>1. \A v \in Workers : pc'[v] \in Executing <=> pc[v] \in Executing
  BY DEF Inv, Core, TypeOK
<1>2. \A v \in Workers : pc'[v] = "received" <=> pc[v] = "received"
  BY DEF Inv, Core, TypeOK, Executing
<1>3. \A j \in Jobs : Running(j)' <=> Running(j)
  BY <1>1 DEF Running
<1>4. \A j \in Jobs : Waiting(j)' <=> Waiting(j)
  BY <1>2 DEF Waiting, InChannel, Received
<1> QED BY <1>3, <1>4, PhaseSame, PhaseKept

\* A worker's steps.
LEMMA RefineWorker ==
  ASSUME Inv, NEW w \in Workers, Worker(w)
  PROVE  Dispatch!Next \/ UNCHANGED phase
<1> USE DEF ghVars, pollerVars, execVars
<1>0. NoJob \notin Jobs /\ Phantom \notin Jobs
  BY NoJobIsNone, JobsAssumption DEF AllJobs, Phantom
<1>1. CASE Receive(w)
  <2>1. /\ jobs \in Seq(AllJobs) /\ jobs # <<>> /\ jobs' = Tail(jobs)
        /\ job' = [job EXCEPT ![w] = Head(jobs)] /\ UNCHANGED <<held, gh>>
        /\ pc[w] = "select" /\ pc' = [pc EXCEPT ![w] = "received"] /\ job[w] = NoJob
    BY <1>1 DEF Receive, Inv, Core, TypeOK, Holding
  <2>2. /\ Len(jobs) \in Nat /\ Len(jobs) > 0 /\ Len(jobs') = Len(jobs) - 1
        /\ \A i \in 1..(Len(jobs) - 1) : jobs'[i] = jobs[i + 1]
        /\ Head(jobs) = jobs[1]
    BY <2>1, ChannelReceive
  <2>3. \A v \in Workers : /\ job'[v] = IF v = w THEN Head(jobs) ELSE job[v]
                           /\ pc'[v] = IF v = w THEN "received" ELSE pc[v]
    BY <2>1 DEF Inv, Core, TypeOK
  <2>4. \A j \in Jobs : Running(j)' <=> Running(j)
    BY <2>1, <2>3 DEF Running, Executing
  <2>5. ASSUME NEW j \in Jobs PROVE InChannel(j) <=> InChannel(j)' \/ Head(jobs) = j
    <3>1. InChannel(j)' => InChannel(j)
      BY <2>2 DEF InChannel
    <3>2. Head(jobs) = j => InChannel(j)
      BY <2>2 DEF InChannel
    <3>3. InChannel(j) => InChannel(j)' \/ Head(jobs) = j
      <4> SUFFICES ASSUME NEW i \in 1..Len(jobs), jobs[i] = j, Head(jobs) # j
                   PROVE  InChannel(j)'
        BY DEF InChannel
      <4>1. i - 1 \in 1..Len(jobs') /\ jobs'[i - 1] = j
        BY <2>2
      <4> QED BY <4>1 DEF InChannel
    <3> QED BY <3>1, <3>2, <3>3
  <2>6. \A j \in Jobs : Received(j)' <=> Received(j) \/ Head(jobs) = j
    BY <2>1, <2>3 DEF Received
  <2>7. \A j \in Jobs : Waiting(j)' <=> Waiting(j)
    BY <2>1, <2>5, <2>6 DEF Waiting
  <2> QED BY <2>1, <2>4, <2>7, PhaseSame, PhaseKept
<1>2. CASE WorkerStop(w)
  <2>1. \A v \in Workers : pc'[v] = IF v = w THEN "stopped" ELSE pc[v]
    BY <1>2 DEF WorkerStop, Inv, Core, TypeOK
  <2>2. \A j \in Jobs : (Running(j)' <=> Running(j)) /\ (Waiting(j)' <=> Waiting(j))
    BY <1>2, <2>1 DEF WorkerStop, Running, Waiting, InChannel, Received, Executing
  <2> QED BY <1>2, <2>2, PhaseSame, PhaseKept DEF WorkerStop
<1>3. CASE NewExecutor(w)
  <2>1. UNCHANGED <<held, jobs, gh>> /\ pc[w] = "received" /\ job[w] \in AllJobs
    BY <1>3 DEF NewExecutor, Inv, Core, TypeOK, Holding
  <2>2. job[w] \in Jobs => /\ gh[job[w]] # "queued" /\ held # job[w] /\ ~InChannel(job[w])
                           /\ \A v \in Workers : job[v] = job[w] => v = w
    BY DEF Inv, OneHolder
  <2>3. job[w] \in Jobs => phase[job[w]] = "waiting"
    BY <2>1, <2>2 DEF phase, Running, Waiting, Received, Executing
  <2>4. CASE pc' = [pc EXCEPT ![w] = "claim"] /\ UNCHANGED job
    <3>1. \A v \in Workers : pc'[v] = IF v = w THEN "claim" ELSE pc[v]
      BY <2>4 DEF Inv, Core, TypeOK
    <3>2. \A j \in Jobs : j # job[w] => phase'[j] = phase[j]
      BY <2>1, <2>4, <3>1, PhaseSame DEF Running, Waiting, InChannel, Received
    <3>3. CASE job[w] \in Jobs
      <4>1. phase'[job[w]] = "running"
        BY <2>1, <2>2, <2>4, <3>1, <3>3 DEF phase, Running, Executing
      <4>2. phase' = [phase EXCEPT ![job[w]] = "running"]
        BY <3>2, <3>3, <4>1, PhaseUpdate
      <4>3. Cardinality(Dispatch!RunningSet) < Concurrency
        BY <2>1, RunningBound DEF Executing
      <4>4. Dispatch!Start(job[w])
        BY <2>3, <3>3, <4>2, <4>3 DEF Dispatch!Start, Dispatch!Cardinality, Cardinality
      <4> QED BY <3>3, <4>4 DEF Dispatch!Next
    <3> QED BY <3>2, <3>3, PhaseKept
  <2>5. CASE pc' = [pc EXCEPT ![w] = "select"] /\ job' = [job EXCEPT ![w] = NoJob]
    <3>1. \A v \in Workers : /\ pc'[v] = IF v = w THEN "select" ELSE pc[v]
                             /\ job'[v] = IF v = w THEN NoJob ELSE job[v]
      BY <2>5 DEF Inv, Core, TypeOK
    <3>2. \A j \in Jobs : j # job[w] => phase'[j] = phase[j]
      BY <1>0, <2>1, <2>5, <3>1, PhaseSame DEF Running, Waiting, InChannel, Received, Executing
    <3>3. CASE job[w] \in Jobs
      <4>1. phase'[job[w]] = "gone"
        BY <1>0, <2>1, <2>2, <3>1, <3>3 DEF phase, Running, Waiting, InChannel, Received
      <4>2. phase' = [phase EXCEPT ![job[w]] = "gone"]
        BY <3>2, <3>3, <4>1, PhaseUpdate
      <4> QED BY <2>3, <3>3, <4>2 DEF Dispatch!Next, Dispatch!Lose
    <3> QED BY <3>2, <3>3, PhaseKept
  <2> QED BY <1>3, <2>4, <2>5 DEF NewExecutor
<1>4. CASE Claim(w) \/ Report(w)
  <2>1. PICK st \in GitHubStatus \ {"queued"}, ok \in BOOLEAN :
               gh' = IF ok THEN [gh EXCEPT ![job[w]] = st] ELSE gh
    BY <1>4 DEF Claim, Report, ReportJobStatus, Delivered, GitHubStatus, ToJobStatus,
                Inv, LifecycleInStep, ExpectedAt, Finished
  <2>2. job[w] \in Jobs => gh[job[w]] # "queued"
    BY DEF Inv, OneHolder
  <2>3. \A j \in Jobs : gh'[j] = "queued" <=> gh[j] = "queued"
    BY <2>1, <2>2 DEF Inv, Core, TypeOK
  <2>4. CASE Claim(w)
    BY <2>3, <2>4, RefineInside DEF Claim, Advance, Executing
  <2>5. CASE Report(w)
    BY <2>3, <2>5, RefineInside DEF Report, Executing
  <2> QED BY <1>4, <2>4, <2>5
<1>5. CASE PreHooks(w)
  BY <1>5, RefineInside DEF PreHooks, Advance, Executing
<1>6. CASE Prepare(w)
  BY <1>6, RefineInside DEF Prepare, Advance, Executing
<1>7. CASE NextStep(w)
  BY <1>7, RefineInside DEF NextStep, Advance, Executing
<1>8. CASE RunStep(w)
  BY <1>8, RefineInside DEF RunStep, Advance, Executing
<1>9. CASE ReportStep(w)
  BY <1>9, RefineInside DEF ReportStep, Advance, Executing
<1>10. CASE PostHooks(w)
  BY <1>10, RefineInside DEF PostHooks, Executing
<1>11. CASE Unwind(w)
  <2>1. UNCHANGED <<held, jobs, gh>> /\ pc[w] = "unwind" /\ job[w] # NoJob
    BY <1>11 DEF Unwind, Inv, Core, Holding
  <2>2. \A v \in Workers : pc'[v] = IF v = w THEN "select" ELSE pc[v]
    BY <1>11 DEF Unwind, Inv, Core, TypeOK
  <2>3. \A v \in Workers : job'[v] = IF v = w THEN NoJob ELSE job[v]
    BY <1>11 DEF Unwind, Inv, Core, TypeOK
  <2>4. PICK r : r = job[w]
    OBVIOUS
  <2>5. r \in Jobs => /\ gh[r] # "queued" /\ held # r /\ ~InChannel(r)
                      /\ \A v \in Workers : job[v] = r => v = w
    BY <2>4 DEF Inv, OneHolder
  <2>6. \A j \in Jobs : j # r => phase'[j] = phase[j]
    <3> SUFFICES ASSUME NEW j \in Jobs, j # r
                 PROVE  phase'[j] = phase[j]
      OBVIOUS
    <3>1. \A v \in Workers : job'[v] = j <=> job[v] = j
      BY <1>0, <2>3, <2>4
    <3>2. \A v \in Workers : job[v] = j => pc'[v] = pc[v]
      BY <2>2, <2>4
    <3>3. Running(j)' <=> Running(j)
      BY <3>1, <3>2 DEF Running
    <3>4. Waiting(j)' <=> Waiting(j)
      BY <2>1, <3>1, <3>2 DEF Waiting, InChannel, Received
    <3> QED BY <2>1, <3>3, <3>4, PhaseSame
  <2>7. CASE r \in Jobs
    <3>1. phase[r] = "running"
      BY <2>1, <2>4, <2>5, <2>7 DEF phase, Running, Executing
    <3>2. \A v \in Workers : job'[v] # r
      BY <1>0, <2>3, <2>5, <2>7
    <3>3. phase'[r] = "gone"
      BY <2>1, <2>5, <2>7, <3>2 DEF phase, Running, Waiting, InChannel, Received
    <3>4. phase' = [phase EXCEPT ![r] = "gone"]
      BY <2>6, <2>7, <3>3, PhaseUpdate
    <3> QED BY <2>7, <3>1, <3>4 DEF Dispatch!Next, Dispatch!Finish
  <2> QED BY <2>6, <2>7, PhaseKept
<1> QED BY <1>1, <1>2, <1>3, <1>4, <1>5, <1>6, <1>7, <1>8, <1>9, <1>10, <1>11 DEF Worker

\* Every behaviour of the pool is a behaviour of JobDispatch: a job is acquired at
\* most once, run at most once and only then, and no more jobs run than workers.
THEOREM PoolRefines == Spec => Refines
<1>1. Init => Dispatch!Init
  BY DEF Init, Dispatch!Init, phase
<1>2. Inv /\ [Next]_vars => [Dispatch!Next]_phase
  <2> SUFFICES ASSUME Inv, [Next]_vars
               PROVE  Dispatch!Next \/ UNCHANGED phase
    OBVIOUS
  <2>1. CASE Cancel \/ Terminated \/ UNCHANGED vars
             \/ \E w \in Workers, j \in AllJobs : HeartbeatStop(w, j)
    <3>1. UNCHANGED <<gh, held, jobs, pc, job>>
      BY <2>1 DEF Cancel, Terminated, HeartbeatStop, vars, ghVars, pollerVars
    <3> QED BY <3>1 DEF phase, Running, Waiting, InChannel, Received
  <2> QED BY <2>1, RefinePoll, RefineWorker DEF Next
<1>3. Spec => []Inv
  BY CoreInvariant, LifecycleFollowed, SingleHolder, PTL DEF Inv
<1> QED BY <1>1, <1>2, <1>3, PTL DEF Spec, Refines, Dispatch!Spec
-----------------------------------------------------------------------------
\* A running step has its workspace.

\* What makes StepHasWorkspace inductive: with the shell it holds from Prepare on, the
\* phantom job never gets to a step, and only the one holder of a job cleans up after it.
WorkspaceInv ==
  \A w \in Workers :
    /\ step[w] >= 1
    /\ pc[w] \in {"run", "stepReport"} => job[w] \in Jobs
    /\ executor = "shell" /\ pc[w] \in {"steps", "run", "stepReport"} /\ job[w] \in Jobs
         => job[w] \in workspaces

\* The step counter starts at 1 and goes up.
LEMMA StepPositive ==
  ASSUME WorkspaceInv, step \in [Workers -> Nat], NEW w \in Workers,
         \/ step' = step
         \/ step' = [step EXCEPT ![w] = 1]
         \/ step' = [step EXCEPT ![w] = step[w] + 1]
  PROVE  \A v \in Workers : step'[v] >= 1
<1> SUFFICES ASSUME NEW v \in Workers PROVE step'[v] >= 1
  OBVIOUS
<1>1. step[v] \in Nat /\ step[v] >= 1
  BY DEF WorkspaceInv
<1>2. step'[v] = step[v] \/ step'[v] = 1 \/ step'[v] = step[v] + 1
  OBVIOUS
<1> QED BY <1>1, <1>2

\* A worker's steps keep it.
LEMMA WorkspaceWorker ==
  ASSUME Inv, WorkspaceInv, NEW w \in Workers, Worker(w)
  PROVE  WorkspaceInv'
<1> USE DEF Inv, Core, TypeOK, ghVars, pollerVars, execVars
<1>1. CASE Receive(w) \/ WorkerStop(w)
  BY <1>1 DEF Receive, WorkerStop, WorkspaceInv
<1>2. CASE NewExecutor(w)
  <2>1. UNCHANGED <<executor, workspaces>> /\ (step' = [step EXCEPT ![w] = 1] \/ step' = step)
    BY <1>2 DEF NewExecutor
  <2>2. pc' = [pc EXCEPT ![w] = "claim"] \/ pc' = [pc EXCEPT ![w] = "select"]
    BY <1>2 DEF NewExecutor
  <2>3. \A v \in Workers : v # w => job'[v] = job[v]
    BY <1>2 DEF NewExecutor
  <2>4. \A v \in Workers : step'[v] >= 1
    BY <2>1, StepPositive
  <2>5. pc'[w] \in {"claim", "select"} /\ \A v \in Workers : v # w => pc'[v] = pc[v]
    BY <2>2
  <2> QED BY <2>1, <2>3, <2>4, <2>5 DEF WorkspaceInv
<1>3. CASE Claim(w) \/ PreHooks(w) \/ PostHooks(w) \/ Report(w)
  BY <1>3 DEF Claim, PreHooks, PostHooks, Report, Advance, WorkspaceInv
<1>4. CASE Prepare(w)
  <2>1. /\ UNCHANGED <<executor, job, step>>
        /\ \A v \in Workers : v # w => pc'[v] = pc[v]
        /\ \/ pc'[w] \in {"steps", "unwind"} /\ workspaces' = workspaces \cup WorkspaceOf(job[w])
           \/ pc'[w] = "report" /\ workspaces' = workspaces
    BY <1>4 DEF Prepare, Advance
  <2>2. workspaces \subseteq workspaces'
    BY <2>1
  <2>3. executor = "shell" /\ pc'[w] = "steps" => job[w] \in workspaces'
    BY <2>1 DEF WorkspaceOf
  <2> QED BY <2>1, <2>2, <2>3 DEF WorkspaceInv
<1>5. CASE NextStep(w)
  <2>1. step[w] <= Len(StepsOf[job[w]]) => job[w] \in Jobs
    <3>1. job[w] \in AllJobs
      BY <1>5 DEF NextStep, Holding
    <3>2. step[w] >= 1 /\ step[w] \in Nat
      BY DEF WorkspaceInv
    <3>3. Len(StepsOf[Phantom]) = 0
      BY StepsAssumption
    <3> QED BY <3>1, <3>2, <3>3 DEF AllJobs
  <2> QED BY <1>5, <2>1 DEF NextStep, Advance, WorkspaceInv
<1>6. CASE RunStep(w)
  <2>1. step' = step \/ step' = [step EXCEPT ![w] = step[w] + 1]
    BY <1>6 DEF RunStep
  <2>2. \A v \in Workers : step'[v] >= 1
    BY <2>1, StepPositive
  <2> QED BY <1>6, <2>2 DEF RunStep, Advance, WorkspaceInv
<1>7. CASE ReportStep(w)
  <2>1. step' = step \/ step' = [step EXCEPT ![w] = step[w] + 1]
    BY <1>7 DEF ReportStep
  <2>2. \A v \in Workers : step'[v] >= 1
    BY <2>1, StepPositive
  <2> QED BY <1>7, <2>2 DEF ReportStep, Advance, WorkspaceInv
<1>8. CASE Unwind(w)
  <2>1. \A v \in Workers : v # w => pc'[v] = pc[v] /\ job'[v] = job[v]
    BY <1>8 DEF Unwind
  <2>2. pc'[w] = "select" /\ UNCHANGED <<executor, step>>
    BY <1>8 DEF Unwind
  <2>3. \A v \in Workers : v # w /\ job[v] \in Jobs /\ job[v] \in workspaces => job[v] \in workspaces'
    <3>1. \A v \in Workers : v # w /\ job[v] \in Jobs => job[v] # job[w]
      BY DEF OneHolder
    <3> QED BY <1>8, <3>1 DEF Unwind, WorkspaceOf
  <2> QED BY <2>1, <2>2, <2>3 DEF WorkspaceInv
<1> QED BY <1>1, <1>2, <1>3, <1>4, <1>5, <1>6, <1>7, <1>8 DEF Worker

\* With the shell executor no clean-up takes the workspace of a job away while a step of it
\* runs.
THEOREM WorkspaceKept == Spec => []StepHasWorkspace
<1>1. Init => WorkspaceInv
  BY DEF Init, WorkspaceInv
<1>2. Inv /\ WorkspaceInv /\ [Next]_vars => WorkspaceInv'
  <2> SUFFICES ASSUME Inv, WorkspaceInv, [Next]_vars
               PROVE  WorkspaceInv'
    OBVIOUS
  <2>1. CASE \E w \in Workers : Worker(w)
    BY <2>1, WorkspaceWorker
  <2>2. CASE Cancel \/ Poll \/ Terminated \/ UNCHANGED vars
             \/ \E w \in Workers, j \in AllJobs : HeartbeatStop(w, j)
    <3>1. UNCHANGED <<executor, pc, job, step, workspaces>>
      BY <2>2, PollCases DEF Cancel, PollTick, JobReply, EmptyReply, AcquireNothing, PollSend,
                  PollStop, Terminated, HeartbeatStop, vars, execVars
    <3> QED BY <3>1 DEF WorkspaceInv
  <2> QED BY <2>1, <2>2 DEF Next
<1>3. WorkspaceInv => StepHasWorkspace
  BY DEF WorkspaceInv, StepHasWorkspace
<1>4. Spec => []Inv
  BY CoreInvariant, LifecycleFollowed, SingleHolder, PTL DEF Inv
<1> QED BY <1>1, <1>2, <1>3, <1>4, PTL DEF Spec
-----------------------------------------------------------------------------
\* Without a factory nothing runs.

\* A pool whose executor type is not registered, and so every pool of the daemon as it is
\* (pool.go's executorConfig, and nobody calls Register), never runs a job it acquires and
\* never reports anything of it.
THEOREM NothingRunsUnregistered == Spec => []UnregisteredRunsNothing
<1>1. Init => UnregisteredRunsNothing
  BY DEF Init, UnregisteredRunsNothing, Executing
<1>2. Core /\ UnregisteredRunsNothing /\ [Next]_vars => UnregisteredRunsNothing'
  <2> SUFFICES ASSUME Core, UnregisteredRunsNothing, [Next]_vars, executor' \notin Registered
               PROVE  /\ \A w \in Workers : pc'[w] \notin Executing
                      /\ \A j \in Jobs : gh'[j] \in {"queued", "assigned"} /\ ghSteps'[j] = {}
    BY DEF UnregisteredRunsNothing
  <2> USE DEF Core, TypeOK, ghVars, pollerVars, execVars
  <2>1. ASSUME NEW w \in Workers, Worker(w)
        PROVE  /\ executor' = executor
               /\ executor \notin Registered /\ pc[w] \notin Executing =>
                    UNCHANGED ghVars /\ \E p \in {"received", "stopped", "select"} : pc' = [pc EXCEPT ![w] = p]
    <3>1. CASE Receive(w) \/ WorkerStop(w) \/ NewExecutor(w)
      BY <3>1 DEF Receive, WorkerStop, NewExecutor
    <3>2. CASE Claim(w) \/ PreHooks(w) \/ Prepare(w) \/ NextStep(w) \/ RunStep(w)
               \/ ReportStep(w) \/ PostHooks(w) \/ Report(w) \/ Unwind(w)
      BY <3>2 DEF Claim, PreHooks, Prepare, NextStep, RunStep, ReportStep, PostHooks, Report, Unwind,
                  Executing
    <3> QED BY <2>1, <3>1, <3>2 DEF Worker
  <2>2. CASE \E w \in Workers : Worker(w)
    <3>1. PICK w \in Workers : Worker(w)
      BY <2>2
    <3>2. executor \notin Registered /\ pc[w] \notin Executing
      BY <2>1, <3>1 DEF UnregisteredRunsNothing
    <3>3. UNCHANGED ghVars /\ \E p \in {"received", "stopped", "select"} : pc' = [pc EXCEPT ![w] = p]
      BY <2>1, <3>1, <3>2
    <3> QED BY <3>2, <3>3 DEF UnregisteredRunsNothing, Executing
  <2>3. CASE Cancel \/ Poll \/ Terminated \/ UNCHANGED vars
             \/ \E w \in Workers, j \in AllJobs : HeartbeatStop(w, j)
    <3>1. /\ UNCHANGED <<executor, pc, ghSteps>>
          /\ gh' = gh \/ \E j \in Jobs : gh' = [gh EXCEPT ![j] = "assigned"]
      BY <2>3, PollCases DEF Cancel, PollTick, JobReply, EmptyReply, AcquireNothing, PollSend,
                  PollStop, Terminated, HeartbeatStop, vars
    <3> QED BY <3>1 DEF UnregisteredRunsNothing
  <2> QED BY <2>2, <2>3 DEF Next
<1> QED BY <1>1, <1>2, CoreInvariant, PTL DEF Spec
-----------------------------------------------------------------------------
\* An execution in progress has its heartbeat.

\* While the context is live a heartbeat goroutine outlasts the execution it is for.
THEOREM HeartbeatOutlasts == Spec => []HeartbeatWhileRunning
<1>1. Init => HeartbeatWhileRunning
  BY DEF Init, HeartbeatWhileRunning, Beating, Executing
<1>2. Core /\ HeartbeatWhileRunning /\ [Next]_vars => HeartbeatWhileRunning'
  <2> SUFFICES ASSUME Core, HeartbeatWhileRunning, [Next]_vars
               PROVE  HeartbeatWhileRunning'
    OBVIOUS
  <2> USE DEF Core, TypeOK, HeartbeatWhileRunning, Beating, Executing
  <2>1. CASE Cancel \/ Poll \/ Terminated \/ UNCHANGED vars
    <3>1. UNCHANGED <<pc, job, hb>> /\ (ctxDone => ctxDone')
      BY <2>1, PollCases DEF Cancel, PollTick, JobReply, EmptyReply, AcquireNothing, PollSend,
                  PollStop, Terminated, vars, execVars
    <3> QED BY <3>1
  <2>2. ASSUME NEW w \in Workers, NEW j \in AllJobs, HeartbeatStop(w, j)
        PROVE  HeartbeatWhileRunning'
    <3>1. UNCHANGED <<ctxDone, pc, job>> /\ hb' = hb \ {<<w, j>>}
      BY <2>2 DEF HeartbeatStop
    <3>2. pc[w] \in Beating /\ ~ctxDone => job[w] # j
      BY <2>2 DEF HeartbeatStop, HeartbeatCancelled
    <3> QED BY <3>1, <3>2
  <2>3. ASSUME NEW w \in Workers, Worker(w)
        PROVE  HeartbeatWhileRunning'
    <3>1. UNCHANGED ctxDone /\ hb \subseteq hb'
      BY <2>3 DEF Worker, Receive, WorkerStop, NewExecutor, Claim, PreHooks, Prepare, NextStep,
                  RunStep, ReportStep, PostHooks, Report, Unwind
    <3>2. \A v \in Workers \ {w} : pc'[v] = pc[v] /\ job'[v] = job[v]
      BY <2>3 DEF Worker, Receive, WorkerStop, NewExecutor, Claim, PreHooks, Prepare, NextStep,
                  RunStep, ReportStep, PostHooks, Report, Unwind, Advance
    <3>3. CASE Claim(w)
      BY <3>1, <3>2, <3>3 DEF Claim, Advance
    <3>4. CASE Receive(w) \/ WorkerStop(w) \/ NewExecutor(w) \/ Unwind(w)
      <4>1. pc'[w] \notin Beating
        BY <3>4 DEF Receive, WorkerStop, NewExecutor, Unwind
      <4> QED BY <3>1, <3>2, <4>1
    <3>5. CASE PreHooks(w) \/ Prepare(w) \/ NextStep(w) \/ RunStep(w) \/ ReportStep(w)
               \/ PostHooks(w) \/ Report(w)
      <4>1. pc[w] \in Beating /\ UNCHANGED job
        BY <3>5 DEF PreHooks, Prepare, NextStep, RunStep, ReportStep, PostHooks, Report
      <4> QED BY <3>1, <3>2, <4>1
    <3> QED BY <2>3, <3>3, <3>4, <3>5 DEF Worker
  <2> QED BY <2>1, <2>2, <2>3 DEF Next
<1> QED BY <1>1, <1>2, CoreInvariant, PTL DEF Spec
-----------------------------------------------------------------------------
\* Verdicts.

\* What justifies "completed" and what justifies "failed".
Passing(j) == Len(outcomes[j]) = Len(StepsOf[j]) /\ \A k \in 1..Len(outcomes[j]) : ~Blames(j, k)

Failing(j) == outcomes[j] = <<>> \/ Blames(j, Len(outcomes[j]))

Justified(j) == (gh[j] = "completed" => Passing(j)) /\ (gh[j] = "failed" => Failing(j))

\* A job on its way to a worker has no step result and no verdict.
Fresh(j) ==
  gh[j] = "queued" \/ held = j \/ InChannel(j) => outcomes[j] = <<>> /\ gh[j] \notin Verdicts

\* Until its execution unwinds a job has no verdict, and at each point of Execute the
\* results so far are those of the steps before it, none of them to blame.
InHand(w) ==
  /\ pc[w] # "unwind" => gh[job[w]] \notin Verdicts
  /\ pc[w] \in {"received", "claim", "claimed", "preparing"} => outcomes[job[w]] = <<>>
  /\ pc[w] \in {"claim", "claimed", "preparing"} => step[w] = 1
  /\ pc[w] \in {"claim", "claimed", "preparing", "steps", "run", "stepReport"} => ~jobFailed[w]
  /\ pc[w] \in {"steps", "run"} =>
       /\ Len(outcomes[job[w]]) = step[w] - 1 /\ step[w] <= Len(StepsOf[job[w]]) + 1
       /\ \A k \in 1..Len(outcomes[job[w]]) : ~Blames(job[w], k)
  /\ pc[w] \in {"run", "stepReport"} => step[w] <= Len(StepsOf[job[w]])
  /\ pc[w] = "stepReport" =>
       /\ Len(outcomes[job[w]]) = step[w] /\ LastOutcome(w) # "error"
       /\ \A k \in 1..(step[w] - 1) : ~Blames(job[w], k)
  /\ pc[w] = "post" => IF jobFailed[w] THEN Failing(job[w]) ELSE Passing(job[w])
  /\ pc[w] = "report" => /\ lc[w] = "Completed" => Passing(job[w])
                         /\ lc[w] = "Failed" => Failing(job[w])

VerdictInv ==
  /\ \A j \in Jobs : Fresh(j) /\ Justified(j)
  /\ \A w \in Workers : job[w] \in Jobs => InHand(w)

\* A job's record and results are all these predicates look at.
LEMMA JustifiedSame ==
  ASSUME NEW j, Justified(j), gh'[j] = gh[j], outcomes'[j] = outcomes[j]
  PROVE  Justified(j)'
  BY DEF Justified, Passing, Failing, Blames, ContinueOnError

LEMMA InHandSame ==
  ASSUME NEW w, InHand(w), pc'[w] = pc[w], job'[w] = job[w], step'[w] = step[w],
         jobFailed'[w] = jobFailed[w], lc'[w] = lc[w], gh'[job[w]] = gh[job[w]],
         outcomes'[job[w]] = outcomes[job[w]]
  PROVE  InHand(w)'
  BY DEF InHand, Passing, Failing, Blames, ContinueOnError, LastOutcome

\* A worker changes nothing of other workers' jobs: it is enough to look at its own.
LEMMA OwnJob ==
  ASSUME Inv, VerdictInv, NEW w \in Workers, UNCHANGED <<held, jobs>>,
         \A v \in Workers \ {w} : /\ pc'[v] = pc[v] /\ job'[v] = job[v] /\ step'[v] = step[v]
                                  /\ jobFailed'[v] = jobFailed[v] /\ lc'[v] = lc[v],
         \A j \in Jobs : j # job[w] => gh'[j] = gh[j] /\ outcomes'[j] = outcomes[j],
         \A j \in Jobs : j = job[w] => gh'[j] # "queued" /\ Justified(j)',
         job'[w] \in Jobs => InHand(w)'
  PROVE  VerdictInv'
<1>1. ASSUME NEW j \in Jobs
      PROVE  Fresh(j)'
  <2>1. CASE j = job[w]
    <3>1. held # j /\ ~InChannel(j)
      BY <2>1 DEF Inv, OneHolder
    <3> QED BY <2>1, <3>1 DEF Fresh, InChannel
  <2>2. CASE j # job[w]
    BY <2>2 DEF VerdictInv, Fresh, InChannel
  <2> QED BY <2>1, <2>2
<1>2. ASSUME NEW j \in Jobs
      PROVE  Justified(j)'
  <2>1. CASE j = job[w]
    BY <2>1
  <2>2. CASE j # job[w]
    BY <2>2, JustifiedSame DEF VerdictInv
  <2> QED BY <2>1, <2>2
<1>3. ASSUME NEW v \in Workers, v # w, job'[v] \in Jobs
      PROVE  InHand(v)'
  <2>1. job[v] \in Jobs /\ job[v] # job[w]
    BY <1>3 DEF Inv, OneHolder
  <2> QED BY <1>3, <2>1, InHandSame DEF VerdictInv
<1> QED BY <1>1, <1>2, <1>3 DEF VerdictInv

\* GitHub assigns a job: it has no verdict, and no worker has it.
LEMMA Assigned ==
  ASSUME Inv, VerdictInv, NEW r \in Jobs, gh[r] = "queued", gh' = [gh EXCEPT ![r] = "assigned"],
         UNCHANGED <<jobs, pc, job, step, jobFailed, lc, outcomes>>, held' \in {held, r}
  PROVE  VerdictInv'
<1>1. gh'[r] = "assigned" /\ \A j \in Jobs : j # r => gh'[j] = gh[j]
  BY DEF Inv, Core, TypeOK
<1>2. \A j \in Jobs : Fresh(j)'
  BY <1>1 DEF VerdictInv, Fresh, InChannel, Verdicts
<1>3. ASSUME NEW j \in Jobs
      PROVE  Justified(j)'
  <2>1. CASE j = r
    BY <1>1, <2>1 DEF Justified
  <2>2. CASE j # r
    BY <1>1, <2>2, JustifiedSame DEF VerdictInv
  <2> QED BY <2>1, <2>2
<1>4. ASSUME NEW w \in Workers, job'[w] \in Jobs
      PROVE  InHand(w)'
  <2>1. job[w] # r /\ job[w] \in Jobs
    BY <1>4 DEF Inv, OneHolder
  <2> QED BY <1>1, <2>1, InHandSame DEF VerdictInv
<1> QED BY <1>2, <1>3, <1>4 DEF VerdictInv

\* The poller, the environment and the heartbeats.
LEMMA VerdictOthers ==
  ASSUME Inv, VerdictInv,
         \/ Cancel \/ Poll \/ Terminated \/ UNCHANGED vars
         \/ \E w \in Workers, j \in AllJobs : HeartbeatStop(w, j)
  PROVE  VerdictInv'
<1> USE DEF ghVars, pollerVars, execVars
<1>1. ASSUME UNCHANGED <<gh, pc, job, step, jobFailed, lc, outcomes>>,
             \A j \in Jobs : held' = j \/ InChannel(j)' => held = j \/ InChannel(j)
      PROVE  VerdictInv'
  <2>1. \A j \in Jobs : Fresh(j)'
    BY <1>1 DEF VerdictInv, Fresh
  <2>2. \A j \in Jobs : Justified(j)'
    BY <1>1, JustifiedSame DEF VerdictInv
  <2>3. \A w \in Workers : job'[w] \in Jobs => InHand(w)'
    BY <1>1, InHandSame DEF VerdictInv
  <2> QED BY <2>1, <2>2, <2>3 DEF VerdictInv
<1>2. CASE Cancel \/ Terminated \/ UNCHANGED vars \/ PollTick
           \/ \E w \in Workers, j \in AllJobs : HeartbeatStop(w, j)
  <2>1. UNCHANGED <<gh, pc, job, step, jobFailed, lc, outcomes, held, jobs>>
    BY <1>2 DEF Cancel, Terminated, PollTick, HeartbeatStop, vars
  <2> QED BY <1>1, <2>1 DEF InChannel
<1>3. CASE EmptyReply
  <2>1. Phantom \notin Jobs
    BY JobsAssumption DEF Phantom
  <2> QED BY <1>1, <1>3, <2>1 DEF EmptyReply, InChannel
<1>4. CASE PollStop
  <2>1. NoJob \notin Jobs
    BY NoJobIsNone DEF AllJobs
  <2> QED BY <1>1, <1>4, <2>1 DEF PollStop, InChannel
<1>5. CASE PollSend
  <2>1. NoJob \notin Jobs /\ held \in AllJobs /\ jobs \in Seq(AllJobs) /\ jobs' = Append(jobs, held)
    BY <1>5, NoJobIsNone DEF PollSend, AllJobs, Inv, Core, TypeOK, Holding
  <2>2. \A j \in Jobs : InChannel(j)' => held = j \/ InChannel(j)
    BY <2>1, ChannelSend DEF InChannel
  <2> QED BY <1>1, <1>5, <2>1, <2>2 DEF PollSend
<1>6. CASE AcquireNothing
  <2>1. CASE UNCHANGED gh
    BY <1>1, <1>6, <2>1 DEF AcquireNothing, InChannel
  <2>2. CASE \E r \in Jobs : gh[r] = "queued" /\ gh' = [gh EXCEPT ![r] = "assigned"]
    BY <1>6, <2>2, Assigned DEF AcquireNothing
  <2> QED BY <1>6, <2>1, <2>2 DEF AcquireNothing
<1>7. CASE \E r \in Jobs : JobReply(r)
  BY <1>7, Assigned DEF JobReply
<1> QED BY <1>2, <1>3, <1>4, <1>5, <1>6, <1>7, PollCases

\* Moving on inside Execute without touching the job's record or its results.
LEMMA OwnMove ==
  ASSUME Inv, VerdictInv, NEW w \in Workers, UNCHANGED <<held, jobs, job, gh, outcomes>>,
         \A v \in Workers \ {w} : /\ pc'[v] = pc[v] /\ step'[v] = step[v]
                                  /\ jobFailed'[v] = jobFailed[v] /\ lc'[v] = lc[v],
         job[w] \in Jobs => InHand(w)'
  PROVE  VerdictInv'
<1>1. \A j \in Jobs : j = job[w] => gh'[j] # "queued" /\ Justified(j)'
  BY JustifiedSame DEF VerdictInv, Inv, OneHolder
<1> QED BY <1>1, OwnJob

\* What a step's result means for the steps before it.
LEMMA BlamesAppend ==
  ASSUME TypeOK, NEW j \in Jobs, NEW o \in Outcome, outcomes' = [outcomes EXCEPT ![j] = Append(@, o)]
  PROVE  /\ Len(outcomes'[j]) = Len(outcomes[j]) + 1 /\ Len(outcomes[j]) \in Nat
         /\ outcomes'[j][Len(outcomes'[j])] = o
         /\ \A k \in 1..Len(outcomes[j]) : outcomes'[j][k] = outcomes[j][k]
         /\ \A i \in Jobs : i # j => outcomes'[i] = outcomes[i]
<1>1. j \in AllJobs /\ Jobs \subseteq AllJobs /\ outcomes \in [AllJobs -> Seq(Outcome)]
  BY DEF TypeOK, AllJobs
<1>2. outcomes'[j] = Append(outcomes[j], o) /\ outcomes[j] \in Seq(Outcome)
  BY <1>1
<1> QED BY <1>1, <1>2, ChannelSend

\* A worker's steps keep the invariant.
LEMMA VerdictWorker ==
  ASSUME Inv, VerdictInv, NEW w \in Workers, Worker(w)
  PROVE  VerdictInv'
<1> USE DEF ghVars, pollerVars, execVars
<1>0. /\ pc \in [Workers -> WorkerState] /\ lc \in [Workers -> JobState] /\ step \in [Workers -> Nat]
      /\ jobFailed \in [Workers -> BOOLEAN] /\ job \in [Workers -> AllJobs \cup {NoJob}]
  BY DEF Inv, Core, TypeOK
<1>1. CASE Receive(w)
  <2>1. /\ jobs \in Seq(AllJobs) /\ jobs # <<>> /\ jobs' = Tail(jobs) /\ job'[w] = Head(jobs)
        /\ UNCHANGED <<held, gh, outcomes, step, jobFailed, lc>> /\ pc'[w] = "received"
        /\ \A v \in Workers \ {w} : pc'[v] = pc[v] /\ job'[v] = job[v]
    BY <1>0, <1>1 DEF Receive, Inv, Core, TypeOK
  <2>2. \A j \in Jobs : InChannel(j)' \/ Head(jobs) = j => InChannel(j)
    BY <2>1, ChannelReceive DEF InChannel
  <2>3. \A j \in Jobs : Fresh(j)'
    BY <2>1, <2>2 DEF VerdictInv, Fresh
  <2>4. \A j \in Jobs : Justified(j)'
    BY <2>1, JustifiedSame DEF VerdictInv
  <2>5. job'[w] \in Jobs => InHand(w)'
    BY <2>1, <2>2 DEF VerdictInv, Fresh, InHand
  <2>6. \A v \in Workers \ {w} : job'[v] \in Jobs => InHand(v)'
    BY <2>1, InHandSame DEF VerdictInv
  <2> QED BY <2>3, <2>4, <2>5, <2>6 DEF VerdictInv
<1>2. CASE WorkerStop(w)
  <2>1. /\ job[w] = NoJob /\ NoJob \notin Jobs
        /\ UNCHANGED <<held, jobs, job, gh, outcomes, step, jobFailed, lc>>
        /\ \A v \in Workers \ {w} : pc'[v] = pc[v]
    BY <1>0, <1>2, NoJobIsNone DEF WorkerStop, Inv, Core, Holding, AllJobs
  <2> QED BY <2>1, OwnMove
<1>3. CASE NewExecutor(w)
  <2>1. /\ pc[w] = "received" /\ UNCHANGED <<held, jobs, gh, outcomes>>
        /\ \A v \in Workers \ {w} : /\ pc'[v] = pc[v] /\ job'[v] = job[v] /\ step'[v] = step[v]
                                     /\ jobFailed'[v] = jobFailed[v] /\ lc'[v] = lc[v]
    BY <1>0, <1>3 DEF NewExecutor
  <2>2. \/ job'[w] = NoJob
        \/ pc'[w] = "claim" /\ job'[w] = job[w] /\ step'[w] = 1 /\ ~jobFailed'[w]
    BY <1>0, <1>3 DEF NewExecutor
  <2>3. job'[w] \in Jobs => InHand(w)'
    BY <2>1, <2>2, NoJobIsNone DEF VerdictInv, InHand, AllJobs
  <2>4. \A j \in Jobs : j = job[w] => gh'[j] # "queued" /\ Justified(j)'
    BY <2>1, JustifiedSame DEF VerdictInv, Inv, OneHolder
  <2> QED BY <2>1, <2>3, <2>4, OwnJob
<1>4. CASE PreHooks(w)
  <2>1. /\ pc[w] = "claimed" /\ pc'[w] \in {"preparing", "unwind"}
        /\ UNCHANGED <<held, jobs, job, gh, outcomes, step, jobFailed>>
        /\ \A v \in Workers \ {w} : pc'[v] = pc[v] /\ lc'[v] = lc[v]
    BY <1>0, <1>4 DEF PreHooks, Advance
  <2>2. job[w] \in Jobs => InHand(w)'
    BY <2>1 DEF VerdictInv, InHand
  <2> QED BY <2>1, <2>2, OwnMove
<1>5. CASE Prepare(w)
  <2>1. /\ pc[w] = "preparing" /\ pc'[w] \in {"steps", "report", "unwind"}
        /\ pc'[w] = "report" => lc'[w] = "Failed"
        /\ UNCHANGED <<held, jobs, job, gh, outcomes, step, jobFailed>>
        /\ \A v \in Workers \ {w} : pc'[v] = pc[v] /\ lc'[v] = lc[v]
    BY <1>0, <1>5, Table DEF Prepare, Advance, Inv, LifecycleInStep, ExpectedAt
  <2>2. job[w] \in Jobs => Len(StepsOf[job[w]]) \in Nat
    BY StepsAssumption DEF AllJobs
  <2>3. job[w] \in Jobs => InHand(w)'
    BY <2>1, <2>2 DEF VerdictInv, InHand, Failing
  <2> QED BY <2>1, <2>3, OwnMove
<1>6. CASE NextStep(w)
  <2>1. /\ pc[w] = "steps" /\ UNCHANGED <<held, jobs, job, gh, outcomes, step, jobFailed>>
        /\ \A v \in Workers \ {w} : pc'[v] = pc[v] /\ lc'[v] = lc[v]
    BY <1>0, <1>6 DEF NextStep, Advance
  <2>2. \/ pc'[w] \in {"post", "unwind"} /\ step[w] > Len(StepsOf[job[w]])
        \/ pc'[w] = "report" /\ lc'[w] = "Cancelled"
        \/ pc'[w] = "run" /\ step[w] <= Len(StepsOf[job[w]])
    BY <1>0, <1>6, Table DEF NextStep, Advance, Inv, LifecycleInStep, ExpectedAt
  <2>3. job[w] \in Jobs => Len(StepsOf[job[w]]) \in Nat /\ step[w] \in Nat
    BY <1>0, StepsAssumption DEF AllJobs
  <2>4. job[w] \in Jobs => InHand(w)'
    <3> SUFFICES ASSUME job[w] \in Jobs PROVE InHand(w)'
      OBVIOUS
    <3>1. /\ gh[job[w]] \notin Verdicts /\ ~jobFailed[w]
          /\ Len(outcomes[job[w]]) = step[w] - 1 /\ step[w] <= Len(StepsOf[job[w]]) + 1
          /\ \A k \in 1..Len(outcomes[job[w]]) : ~Blames(job[w], k)
      BY <2>1 DEF VerdictInv, InHand
    <3>2. \A k : Blames(job[w], k)' <=> Blames(job[w], k)
      BY <2>1 DEF Blames, ContinueOnError
    <3>3. CASE pc'[w] \in {"post", "unwind"} /\ step[w] > Len(StepsOf[job[w]])
      <4>1. step[w] - 1 = Len(StepsOf[job[w]])
        BY <2>3, <3>1, <3>3
      <4> QED BY <2>1, <3>1, <3>2, <3>3, <4>1 DEF InHand, Passing
    <3>4. CASE pc'[w] = "report" /\ lc'[w] = "Cancelled"
      BY <2>1, <3>1, <3>4 DEF InHand
    <3>5. CASE pc'[w] = "run" /\ step[w] <= Len(StepsOf[job[w]])
      BY <2>1, <3>1, <3>2, <3>5 DEF InHand
    <3> QED BY <2>2, <3>3, <3>4, <3>5
  <2> QED BY <2>1, <2>4, OwnMove
<1>7. CASE RunStep(w)
  <2>1. PICK o \in Outcome :
          /\ outcomes' = [outcomes EXCEPT ![job[w]] = Append(@, o)]
          /\ \/ o # "error" /\ pc'[w] = "stepReport" /\ UNCHANGED <<step, jobFailed>>
             \/ /\ o = "error" /\ Forgiven(w) /\ pc'[w] = "steps" /\ UNCHANGED jobFailed
                /\ step' = [step EXCEPT ![w] = @ + 1]
             \/ /\ o = "error" /\ ~Forgiven(w) /\ pc'[w] \in {"post", "unwind"} /\ UNCHANGED step
                /\ jobFailed' = [jobFailed EXCEPT ![w] = TRUE]
    BY <1>0, <1>7 DEF RunStep, Advance
  <2>2. /\ pc[w] = "run" /\ UNCHANGED <<held, jobs, job, gh>>
        /\ \A v \in Workers \ {w} : pc'[v] = pc[v] /\ lc'[v] = lc[v]
    BY <1>0, <1>7 DEF RunStep, Advance
  <2>3. \A v \in Workers \ {w} : step'[v] = step[v] /\ jobFailed'[v] = jobFailed[v]
    BY <1>0, <2>1
  <2>4. CASE job[w] \in Jobs
    <3>1. PICK r \in Jobs, n \in Nat : r = job[w] /\ r = job'[w] /\ n = step[w]
      BY <1>0, <2>2, <2>4
    <3>2. /\ gh[r] \notin Verdicts /\ gh'[r] = gh[r] /\ ~jobFailed[w]
          /\ Len(outcomes[r]) = n - 1 /\ n <= Len(StepsOf[r])
          /\ \A k \in 1..(n - 1) : ~Blames(r, k)
      BY <2>2, <3>1 DEF VerdictInv, InHand
    <3>3. TypeOK /\ Len(StepsOf[r]) \in Nat
      BY StepsAssumption DEF Inv, Core, AllJobs
    <3>4. outcomes' = [outcomes EXCEPT ![r] = Append(@, o)]
      BY <2>1, <3>1
    <3>5. /\ Len(outcomes'[r]) = n /\ outcomes'[r][n] = o
          /\ \A k \in 1..(n - 1) : outcomes'[r][k] = outcomes[r][k]
          /\ \A j \in Jobs : j # r => outcomes'[j] = outcomes[j]
      <4>1. /\ Len(outcomes'[r]) = Len(outcomes[r]) + 1 /\ Len(outcomes[r]) \in Nat
            /\ outcomes'[r][Len(outcomes'[r])] = o
            /\ \A k \in 1..Len(outcomes[r]) : outcomes'[r][k] = outcomes[r][k]
            /\ \A i \in Jobs : i # r => outcomes'[i] = outcomes[i]
        BY <3>3, <3>4, BlamesAppend
      <4>2. Len(outcomes'[r]) = n
        BY <3>2, <4>1
      <4> QED BY <3>2, <4>1, <4>2
    <3>6. \A k \in 1..(n - 1) : ~Blames(r, k)'
      BY <3>2, <3>5 DEF Blames, ContinueOnError
    <3>7. Blames(r, n)' <=> o # "success" /\ ~Forgiven(w)
      BY <3>1, <3>5 DEF Blames, ContinueOnError, Forgiven
    <3>8. ASSUME o # "error" /\ pc'[w] = "stepReport" /\ UNCHANGED <<step, jobFailed>>
          PROVE  InHand(w)'
      <4>1. LastOutcome(w)' = o
        BY <3>1, <3>5 DEF LastOutcome
      <4>2. step'[w] = n /\ ~jobFailed'[w]
        BY <3>1, <3>2, <3>8
      <4>3. LastOutcome(w)' # "error"
        BY <3>8, <4>1
      <4> QED BY <3>1, <3>2, <3>5, <3>6, <3>8, <4>2, <4>3 DEF InHand, Blames, ContinueOnError
    <3>9. ASSUME /\ o = "error" /\ Forgiven(w) /\ pc'[w] = "steps" /\ UNCHANGED jobFailed
                 /\ step' = [step EXCEPT ![w] = @ + 1]
          PROVE  InHand(w)'
      <4>1. step'[w] = n + 1
        BY <1>0, <3>1, <3>9
      <4>2. \A k \in 1..n : ~Blames(r, k)'
        <5>1. \A k \in 1..n : k \in 1..(n - 1) \/ k = n
          OBVIOUS
        <5> QED BY <3>6, <3>7, <3>9, <5>1
      <4>3. Len(outcomes'[r]) = step'[w] - 1 /\ step'[w] <= Len(StepsOf[r]) + 1
        BY <3>2, <3>3, <3>5, <4>1
      <4>4. ~jobFailed'[w]
        BY <3>2, <3>9
      <4> QED BY <3>1, <3>2, <3>5, <3>9, <4>2, <4>3, <4>4 DEF InHand, Blames, ContinueOnError
    <3>10. ASSUME /\ o = "error" /\ ~Forgiven(w) /\ pc'[w] \in {"post", "unwind"} /\ UNCHANGED step
                  /\ jobFailed' = [jobFailed EXCEPT ![w] = TRUE]
           PROVE  InHand(w)'
      <4>1. jobFailed'[w]
        BY <1>0, <3>10
      <4>2. Failing(r)'
        BY <3>5, <3>7, <3>10 DEF Failing
      <4> QED BY <3>1, <3>2, <3>10, <4>1, <4>2 DEF InHand, Failing, Blames, ContinueOnError
    <3>11. InHand(w)'
      BY <2>1, <3>8, <3>9, <3>10
    <3>12. \A j \in Jobs : j = job[w] => gh'[j] # "queued" /\ Justified(j)'
      BY <3>1, <3>2 DEF Inv, OneHolder, Justified, Verdicts
    <3> QED BY <2>2, <2>3, <3>1, <3>5, <3>11, <3>12, OwnJob
  <2>5. CASE job[w] \notin Jobs
    <3>1. \A j \in Jobs : outcomes'[j] = outcomes[j]
      BY <2>1, <2>5 DEF Inv, Core, TypeOK, AllJobs
    <3> QED BY <2>2, <2>3, <2>5, <3>1, OwnJob
  <2> QED BY <2>4, <2>5
<1>8. CASE ReportStep(w)
  <2>1. /\ pc[w] = "stepReport" /\ UNCHANGED <<held, jobs, job, gh, outcomes>>
        /\ \A v \in Workers \ {w} : pc'[v] = pc[v] /\ lc'[v] = lc[v]
    BY <1>0, <1>8 DEF ReportStep, Advance
  <2>2. \/ /\ LastOutcome(w) = "failure" /\ ~Forgiven(w) /\ pc'[w] \in {"post", "unwind"}
           /\ UNCHANGED step /\ jobFailed' = [jobFailed EXCEPT ![w] = TRUE]
        \/ /\ LastOutcome(w) = "success" \/ Forgiven(w)
           /\ pc'[w] = "steps" /\ UNCHANGED jobFailed /\ step' = [step EXCEPT ![w] = @ + 1]
    BY <1>0, <1>8 DEF ReportStep, Advance
  <2>3. \A v \in Workers \ {w} : step'[v] = step[v] /\ jobFailed'[v] = jobFailed[v]
    BY <1>0, <2>2
  <2>4. job[w] \in Jobs => InHand(w)'
    <3> SUFFICES ASSUME job[w] \in Jobs PROVE InHand(w)'
      OBVIOUS
    <3>1. /\ gh[job[w]] \notin Verdicts /\ ~jobFailed[w] /\ Len(outcomes[job[w]]) = step[w]
          /\ step[w] <= Len(StepsOf[job[w]]) /\ \A k \in 1..(step[w] - 1) : ~Blames(job[w], k)
      BY <2>1 DEF VerdictInv, InHand
    <3>2. Len(StepsOf[job[w]]) \in Nat /\ step[w] \in Nat
      BY <1>0, StepsAssumption DEF AllJobs
    <3>3. \A k : Blames(job[w], k)' <=> Blames(job[w], k)
      BY <2>1 DEF Blames, ContinueOnError
    <3>4. Blames(job[w], step[w]) <=> LastOutcome(w) # "success" /\ ~Forgiven(w)
      BY <3>1 DEF Blames, LastOutcome, Forgiven
    <3>5. CASE /\ LastOutcome(w) = "failure" /\ ~Forgiven(w) /\ pc'[w] \in {"post", "unwind"}
               /\ UNCHANGED step /\ jobFailed' = [jobFailed EXCEPT ![w] = TRUE]
      <4>1. jobFailed'[w]
        BY <1>0, <3>5
      <4> QED BY <2>1, <3>1, <3>3, <3>4, <3>5, <4>1 DEF InHand, Failing
    <3>6. CASE /\ LastOutcome(w) = "success" \/ Forgiven(w)
               /\ pc'[w] = "steps" /\ UNCHANGED jobFailed /\ step' = [step EXCEPT ![w] = @ + 1]
      <4>1. step'[w] = step[w] + 1
        BY <1>0, <3>6
      <4>2. \A k \in 1..Len(outcomes[job[w]]) : ~Blames(job[w], k)'
        BY <3>1, <3>2, <3>3, <3>4, <3>6
      <4> QED BY <2>1, <3>1, <3>2, <3>6, <4>1, <4>2 DEF InHand
    <3> QED BY <2>2, <3>5, <3>6
  <2> QED BY <2>1, <2>3, <2>4, OwnMove
<1>9. CASE PostHooks(w)
  <2>1. /\ pc[w] = "post" /\ pc'[w] = "report"
        /\ lc'[w] = IF jobFailed[w] THEN "Failed" ELSE "Completed"
        /\ UNCHANGED <<held, jobs, job, gh, outcomes, step, jobFailed>>
        /\ \A v \in Workers \ {w} : pc'[v] = pc[v] /\ lc'[v] = lc[v]
    BY <1>0, <1>9, Table DEF PostHooks, Inv, LifecycleInStep, ExpectedAt
  <2>2. job[w] \in Jobs => InHand(w)'
    <3>1. Passing(job[w])' <=> Passing(job[w])
      BY <2>1 DEF Passing, Blames, ContinueOnError
    <3>2. Failing(job[w])' <=> Failing(job[w])
      BY <2>1 DEF Failing, Blames, ContinueOnError
    <3> QED BY <2>1, <3>1, <3>2 DEF VerdictInv, InHand
  <2> QED BY <2>1, <2>2, OwnMove
<1>10. CASE Claim(w)
  <2>1. /\ pc[w] = "claim" /\ pc'[w] \in {"claimed", "unwind"}
        /\ UNCHANGED <<held, jobs, job, outcomes, step, jobFailed>>
        /\ \A v \in Workers \ {w} : pc'[v] = pc[v] /\ lc'[v] = lc[v]
    BY <1>0, <1>10 DEF Claim, Advance
  <2>2. gh' = gh \/ gh' = [gh EXCEPT ![job[w]] = "in_progress"]
    BY <1>10 DEF Claim, ReportJobStatus
  <2>3. /\ \A j \in Jobs : j # job[w] => gh'[j] = gh[j]
        /\ \A j \in Jobs : j = job[w] => gh'[j] = gh[j] \/ gh'[j] = "in_progress"
    BY <2>2 DEF Inv, Core, TypeOK
  <2>4. \A j \in Jobs : j = job[w] => gh'[j] \notin Verdicts \cup {"queued"}
    BY <2>1, <2>3 DEF VerdictInv, InHand, Inv, OneHolder, Verdicts
  <2>5. \A j \in Jobs : j = job[w] => gh'[j] # "queued" /\ Justified(j)'
    BY <2>4 DEF Justified, Verdicts
  <2>6. job'[w] \in Jobs => InHand(w)'
    BY <2>1, <2>4 DEF VerdictInv, InHand
  <2> QED BY <2>1, <2>3, <2>5, <2>6, OwnJob
<1>11. CASE Report(w)
  <2>1. /\ pc[w] = "report" /\ pc'[w] = "unwind"
        /\ UNCHANGED <<held, jobs, job, outcomes, step, jobFailed, lc>>
        /\ \A v \in Workers \ {w} : pc'[v] = pc[v]
    BY <1>0, <1>11 DEF Report
  <2>2. gh' = gh \/ gh' = [gh EXCEPT ![job[w]] = ToJobStatus(lc[w])]
    BY <1>11 DEF Report, ReportJobStatus
  <2>3. /\ \A j \in Jobs : j # job[w] => gh'[j] = gh[j]
        /\ \A j \in Jobs : j = job[w] => gh'[j] = gh[j] \/ gh'[j] = ToJobStatus(lc[w])
    BY <2>2 DEF Inv, Core, TypeOK
  <2>4. /\ ToJobStatus(lc[w]) # "queued"
        /\ ToJobStatus(lc[w]) = "completed" => lc[w] = "Completed"
        /\ ToJobStatus(lc[w]) = "failed" => lc[w] = "Failed"
    BY <2>1 DEF Inv, LifecycleInStep, ExpectedAt, Finished, ToJobStatus
  <2>5. ASSUME NEW j \in Jobs, j = job[w]
        PROVE  gh'[j] # "queued" /\ Justified(j)'
    <3>1. /\ gh[j] \notin Verdicts \cup {"queued"}
          /\ lc[w] = "Completed" => Passing(j)
          /\ lc[w] = "Failed" => Failing(j)
      BY <2>1, <2>5 DEF VerdictInv, InHand, Inv, OneHolder
    <3>2. (Passing(j)' <=> Passing(j)) /\ (Failing(j)' <=> Failing(j))
      BY <2>1 DEF Passing, Failing, Blames, ContinueOnError
    <3> QED BY <2>3, <2>4, <2>5, <3>1, <3>2 DEF Justified, Verdicts
  <2>6. InHand(w)'
    BY <2>1 DEF InHand
  <2> QED BY <2>1, <2>3, <2>5, <2>6, OwnJob
<1>12. CASE Unwind(w)
  <2>1. /\ job'[w] = NoJob /\ UNCHANGED <<held, jobs, gh, outcomes, step, jobFailed>>
        /\ \A v \in Workers \ {w} : pc'[v] = pc[v] /\ job'[v] = job[v] /\ lc'[v] = lc[v]
    BY <1>0, <1>12 DEF Unwind
  <2>2. job'[w] \notin Jobs
    BY <2>1, NoJobIsNone DEF AllJobs
  <2>3. \A j \in Jobs : j = job[w] => gh'[j] # "queued" /\ Justified(j)'
    BY <2>1, JustifiedSame DEF VerdictInv, Inv, OneHolder
  <2> QED BY <2>1, <2>2, <2>3, OwnJob
<1> QED BY <1>1, <1>2, <1>3, <1>4, <1>5, <1>6, <1>7, <1>8, <1>9, <1>10, <1>11, <1>12 DEF Worker

\* The invariant of the job's results.
THEOREM VerdictInvariant == Spec => [](Inv /\ VerdictInv)
<1>1. Init => VerdictInv
  <2> SUFFICES ASSUME Init PROVE VerdictInv
    OBVIOUS
  <2>1. \A w \in Workers : job[w] \notin Jobs
    BY NoJobIsNone DEF Init, AllJobs
  <2>2. \A j \in Jobs : outcomes[j] = <<>> /\ gh[j] = "queued"
    BY DEF Init, AllJobs
  <2> QED BY <2>1, <2>2 DEF VerdictInv, Fresh, Justified, Verdicts
<1>2. Inv /\ VerdictInv /\ [Next]_vars => VerdictInv'
  BY VerdictOthers, VerdictWorker DEF Next
<1>3. Spec => []Inv
  BY CoreInvariant, LifecycleFollowed, SingleHolder, PTL DEF Inv
<1> QED BY <1>1, <1>2, <1>3, PTL DEF Spec

\* What GitHub is told is what happened, for any step lists: "completed" only when every
\* step ran and none failed unforgiven, "failed" only when Prepare or the last step did.
THEOREM VerdictsJustified == Spec => []VerdictJustified
<1>1. VerdictInv => VerdictJustified
  BY DEF VerdictInv, Justified, Passing, Failing, VerdictJustified
<1> QED BY <1>1, VerdictInvariant, PTL

\* Once GitHub has a verdict nobody reports on the job again.
THEOREM VerdictsFinal == Spec => VerdictFinal
<1>1. ASSUME Inv, VerdictInv, [Next]_vars, NEW j \in Jobs, gh[j] \in Verdicts
      PROVE  gh'[j] = gh[j] /\ ghSteps'[j] = ghSteps[j]
  <2>1. gh[j] # "queued" /\ gh \in [Jobs -> GitHubStatus] /\ ghSteps \in [Jobs -> SUBSET Nat]
    BY <1>1 DEF Verdicts, Inv, Core, TypeOK
  <2>2. CASE Cancel \/ Terminated \/ UNCHANGED vars
             \/ \E w \in Workers, i \in AllJobs : HeartbeatStop(w, i)
    BY <2>2 DEF Cancel, Terminated, HeartbeatStop, vars, ghVars
  <2>3. CASE Poll
    <3>1. UNCHANGED ghSteps
      BY <2>3, PollCases DEF PollTick, JobReply, EmptyReply, AcquireNothing, PollSend, PollStop, ghVars
    <3>2. gh' = gh \/ \E i \in Jobs : gh[i] = "queued" /\ gh' = [gh EXCEPT ![i] = "assigned"]
      BY <2>3, PollCases DEF PollTick, JobReply, EmptyReply, AcquireNothing, PollSend, PollStop, ghVars
    <3> QED BY <2>1, <3>1, <3>2
  <2>4. ASSUME NEW w \in Workers, Worker(w)
        PROVE  gh'[j] = gh[j] /\ ghSteps'[j] = ghSteps[j]
    <3>1. pc[w] \in {"claim", "report", "stepReport"} => job[w] # j
      BY <1>1 DEF VerdictInv, InHand
    <3>2. CASE Claim(w) \/ Report(w)
      BY <2>1, <3>1, <3>2 DEF Claim, Report, ReportJobStatus
    <3>3. CASE ReportStep(w)
      BY <2>1, <3>1, <3>3 DEF ReportStep, ReportStepStatus
    <3>4. CASE ~(Claim(w) \/ Report(w) \/ ReportStep(w))
      BY <2>4, <3>4 DEF Worker, Receive, WorkerStop, NewExecutor, PreHooks, Prepare, NextStep,
                        RunStep, PostHooks, Unwind, ghVars
    <3> QED BY <3>2, <3>3, <3>4
  <2> QED BY <1>1, <2>2, <2>3, <2>4 DEF Next
<1>2. Inv /\ VerdictInv /\ [Next]_vars =>
        [\A j \in Jobs : gh[j] \in Verdicts => gh'[j] = gh[j] /\ ghSteps'[j] = ghSteps[j]]_vars
  BY <1>1
<1> QED BY <1>2, VerdictInvariant, PTL DEF Spec, VerdictFinal

-----------------------------------------------------------------------------
\* Backpressure.

ChannelBounded == Len(jobs) <= Concurrency

\* Two kinds of places that exclude each other fit into all of them, and no more jobs are
\* in places of the one kind than there are such places.
LEMMA PlacesBound ==
  ASSUME NEW P, IsFiniteSet(P), NEW at, NEW X, X \subseteq Jobs,
         \A j \in X : \E p \in P : at[p] = j,
         NEW R, R = {p \in P : at[p] = Phantom}
  PROVE  /\ IsFiniteSet(X) /\ Cardinality(X) \in Nat
         /\ Cardinality(R) \in Nat
         /\ Cardinality(X) + Cardinality(R) <= Cardinality(P)
<1> DEFINE Q == {p \in P : at[p] \in Jobs}
           f == [j \in X |-> CHOOSE p \in Q : at[p] = j]
<1>0. Phantom \notin Jobs
  BY JobsAssumption DEF Phantom
<1>1. Q \cap R = {} /\ Q \in SUBSET P /\ R \in SUBSET P
  BY <1>0
<1>2. IsFiniteSet(Q) /\ IsFiniteSet(R)
  BY <1>1, FS_Subset
<1>3. Cardinality(Q) \in Nat /\ Cardinality(R) \in Nat /\ Cardinality(P) \in Nat
  BY <1>2, FS_CardinalityType
<1>4. Cardinality(Q \cap R) = 0
  BY <1>1, FS_EmptySet
<1>5. Cardinality(Q \cup R) = Cardinality(Q) + Cardinality(R) - Cardinality(Q \cap R)
  BY <1>2, FS_Union
<1>6. Q \cup R \in SUBSET P
  BY <1>1
<1>7. Cardinality(Q \cup R) <= Cardinality(P)
  BY <1>6, FS_Subset
<1>8. \A j \in X : \E p \in Q : at[p] = j
  OBVIOUS
<1>9. \A j \in X : f[j] \in Q /\ at[f[j]] = j
  BY <1>8
<1>10. f \in Injection(X, Q)
  BY <1>9 DEF Injection, IsInjective
<1>11. IsFiniteSet(X) /\ Cardinality(X) <= Cardinality(Q) /\ Cardinality(X) \in Nat
  BY <1>2, <1>10, FS_Injection, FS_CardinalityType
<1> HIDE DEF Q, f
<1> QED BY <1>3, <1>4, <1>5, <1>7, <1>11

LEMMA RoomForAll ==
  ASSUME Inv, ChannelBounded
  PROVE  Backpressure
<1> DEFINE W == {j \in Jobs : \E w \in Workers : job[w] = j}
           C == {j \in Jobs : InChannel(j)}
           H == {j \in Jobs : held = j}
           RW == {w \in Workers : job[w] = Phantom}
           RC == {i \in 1..Len(jobs) : jobs[i] = Phantom}
           PW == Cardinality(RW)
           PC == Cardinality(RC)
           PH == IF held = Phantom THEN 1 ELSE 0
<1>1. Hoarded \in SUBSET (W \cup C \cup H)
  BY DEF Hoarded, phase, Running, Waiting, Received
<1>2. IsFiniteSet(W) /\ Cardinality(W) \in Nat /\ PW \in Nat /\ Cardinality(W) + PW <= Concurrency
  <2>1. W \subseteq Jobs /\ \A j \in W : \E w \in Workers : job[w] = j
    OBVIOUS
  <2>2. RW = {w \in Workers : job[w] = Phantom}
    OBVIOUS
  <2> HIDE DEF W, RW
  <2>3. IsFiniteSet(Workers)
    BY WorkersAssumption
  <2> QED BY <2>1, <2>2, <2>3, PlacesBound DEF Concurrency
<1>3. IsFiniteSet(C) /\ Cardinality(C) \in Nat /\ PC \in Nat /\ Cardinality(C) + PC <= Len(jobs)
  <2>1. Len(jobs) \in Nat
    BY DEF Inv, Core, TypeOK
  <2>2. ASSUME NEW n \in Nat PROVE IsFiniteSet(1..n) /\ Cardinality(1..n) = n
    <3>1. 1 \in Int /\ n \in Int
      OBVIOUS
    <3>2. IsFiniteSet(1..n) /\ Cardinality(1..n) = IF 1 > n THEN 0 ELSE n - 1 + 1
      BY <3>1, FS_Interval
    <3> QED BY <3>2
  <2>3. C \subseteq Jobs /\ \A j \in C : \E i \in 1..Len(jobs) : jobs[i] = j
    BY DEF InChannel
  <2>4. RC = {i \in 1..Len(jobs) : jobs[i] = Phantom}
    OBVIOUS
  <2>5. IsFiniteSet(1..Len(jobs)) /\ Cardinality(1..Len(jobs)) = Len(jobs)
    BY <2>1, <2>2
  <2> HIDE DEF C, RC
  <2> QED BY <2>3, <2>4, <2>5, PlacesBound
<1>4. IsFiniteSet(H) /\ Cardinality(H) \in Nat /\ Cardinality(H) + PH <= 1
  <2>1. CASE held \in Jobs
    <3>1. H = {held} /\ held # Phantom
      BY <2>1, JobsAssumption DEF Phantom
    <3>2. IsFiniteSet({held}) /\ Cardinality({held}) = 1
      BY FS_Singleton
    <3>3. PH = 0
      BY <3>1
    <3> HIDE DEF H, PH
    <3> QED BY <3>1, <3>2, <3>3
  <2>2. CASE held \notin Jobs
    <3>1. H = {}
      BY <2>2
    <3> QED BY <3>1, FS_EmptySet
  <2> QED BY <2>1, <2>2
<1>5. ASSUME NEW S, NEW T, IsFiniteSet(S), IsFiniteSet(T)
      PROVE  IsFiniteSet(S \cup T) /\ Cardinality(S \cup T) <= Cardinality(S) + Cardinality(T)
             /\ Cardinality(S \cup T) \in Nat
  <2>1. IsFiniteSet(S \cap T)
    BY <1>5, FS_Intersection
  <2>2. IsFiniteSet(S \cup T) /\ Cardinality(S \cup T)
          = Cardinality(S) + Cardinality(T) - Cardinality(S \cap T)
    BY <1>5, FS_Union
  <2>3. Cardinality(S \cap T) \in Nat /\ Cardinality(S) \in Nat /\ Cardinality(T) \in Nat
        /\ Cardinality(S \cup T) \in Nat
    BY <1>5, <2>1, <2>2, FS_CardinalityType
  <2> QED BY <2>2, <2>3
<1>6. IsFiniteSet(W \cup C) /\ Cardinality(W \cup C) <= Cardinality(W) + Cardinality(C)
      /\ Cardinality(W \cup C) \in Nat
  BY <1>2, <1>3, <1>5
<1>7. IsFiniteSet((W \cup C) \cup H) /\ Cardinality((W \cup C) \cup H) <= Cardinality(W \cup C) + Cardinality(H)
      /\ Cardinality((W \cup C) \cup H) \in Nat
  BY <1>4, <1>5, <1>6
<1>8. Cardinality(Hoarded) <= Cardinality((W \cup C) \cup H) /\ Cardinality(Hoarded) \in Nat
  BY <1>1, <1>7, FS_Subset, FS_CardinalityType
<1>9. Concurrency \in Nat /\ Len(jobs) \in Nat
  BY WorkersAssumption, FS_CardinalityType DEF Concurrency, Inv, Core, TypeOK
<1>10. Phantoms = PW + PC + PH
  BY DEF Phantoms
<1>11. PH \in Nat
  OBVIOUS
<1> HIDE DEF W, C, H, RW, RC, PW, PC, PH
<1>12. Cardinality(Hoarded) <= Cardinality(W) + Cardinality(C) + Cardinality(H)
  BY SMTT(30), <1>2, <1>3, <1>4, <1>6, <1>7, <1>8
<1>13. Cardinality(Hoarded) + Phantoms <= Concurrency + Len(jobs) + 1
  BY SMTT(30), <1>2, <1>3, <1>4, <1>8, <1>9, <1>10, <1>11, <1>12
<1> QED BY <1>8, <1>9, <1>10, <1>11, <1>2, <1>3, <1>13 DEF Backpressure, ChannelBounded

\* The pool takes no more work than its workers, its channel and its poller have room for.
THEOREM PoolBounded == Spec => []Backpressure
<1>1. Init => ChannelBounded
  BY WorkersAssumption, FS_CardinalityType DEF Init, ChannelBounded, Concurrency
<1>2. Inv /\ ChannelBounded /\ [Next]_vars => ChannelBounded'
  <2> SUFFICES ASSUME Inv, ChannelBounded, [Next]_vars PROVE ChannelBounded'
    OBVIOUS
  <2>0. Concurrency \in Nat /\ jobs \in Seq(AllJobs)
    BY WorkersAssumption, FS_CardinalityType DEF Concurrency, Inv, Core, TypeOK
  <2>1. CASE UNCHANGED jobs
    BY <2>1 DEF ChannelBounded
  <2>2. CASE PollSend
    <3>1. held \in AllJobs /\ jobs' = Append(jobs, held) /\ Len(jobs) < Concurrency
      BY <2>2 DEF PollSend, ChannelHasRoom, Inv, Core, TypeOK, Holding
    <3> QED BY <2>0, <3>1, ChannelSend DEF ChannelBounded
  <2>3. ASSUME NEW w \in Workers, Receive(w) PROVE ChannelBounded'
    <3>1. jobs # <<>> /\ jobs' = Tail(jobs)
      BY <2>3 DEF Receive
    <3> QED BY <2>0, <3>1 DEF ChannelBounded
  <2>4. ASSUME NEW w \in Workers, Worker(w) PROVE UNCHANGED jobs \/ Receive(w)
    BY <2>4 DEF Worker, WorkerStop, NewExecutor, Claim, PreHooks, Prepare, NextStep, RunStep,
                ReportStep, PostHooks, Report, Unwind
  <2>5. CASE Poll
    BY <2>1, <2>2, <2>5, PollCases
       DEF PollTick, EmptyReply, JobReply, AcquireNothing, PollStop
  <2>6. CASE Cancel \/ Terminated \/ UNCHANGED vars \/ \E w \in Workers, j \in AllJobs : HeartbeatStop(w, j)
    BY <2>1, <2>6 DEF Cancel, Terminated, HeartbeatStop, vars
  <2> QED BY <2>1, <2>3, <2>4, <2>5, <2>6 DEF Next
<1>3. Spec => []Inv
  BY CoreInvariant, LifecycleFollowed, SingleHolder, PTL DEF Inv
<1> QED BY <1>1, <1>2, <1>3, RoomForAll, PTL DEF Spec

-----------------------------------------------------------------------------
\* The poll interval (PollBackoff).

\* The backoff after at least one error lies between the interval and the cap.
LEMMA BackoffBounds ==
  ASSUME BackoffTypeOK, interval <= Cap, NEW n \in Nat \ {0}
  PROVE  Backoff(n) \in Nat /\ interval <= Backoff(n) /\ Backoff(n) <= Cap
<1>1. interval \in Nat \ {0} /\ Cap \in Nat
  BY BackoffAssumption DEF BackoffTypeOK
<1>2. PICK m \in Nat : n = m + 1
  BY n - 1 \in Nat /\ n = (n - 1) + 1
<1>3. interval * m \in Nat /\ interval * n = interval * m + interval
  BY <1>1, <1>2
<1>4. interval * n \in Nat /\ interval <= interval * n
  BY <1>1, <1>3
<1> QED
  BY <1>1, <1>4 DEF Backoff

\* Backoff never leaves the naturals, also for intervals beyond the cap.
LEMMA BackoffType ==
  ASSUME BackoffTypeOK, NEW n \in Nat
  PROVE  Backoff(n) \in Nat
<1>1. interval \in Nat /\ Cap \in Nat
  BY BackoffAssumption DEF BackoffTypeOK
<1>2. interval * n \in Nat
  BY <1>1
<1> QED
  BY <1>1, <1>2 DEF Backoff

\* The ticker's period follows from the errors since the last success: PeriodJustified
\* is inductive together with the types.
THEOREM PeriodFollows == BackoffSpec => [](BackoffTypeOK /\ PeriodJustified)
<1> DEFINE BInv == BackoffTypeOK /\ PeriodJustified
<1>1. BackoffInit => BInv
  BY BackoffAssumption DEF BackoffInit, BackoffTypeOK, PeriodJustified
<1>2. BInv /\ [BackoffNext]_backoffVars => BInv'
  <2> SUFFICES ASSUME BInv, [BackoffNext]_backoffVars PROVE BInv'
    OBVIOUS
  <2>1. CASE PollFailed
    <3>1. consecutiveErrors' \in 0..MaxErrors /\ consecutiveErrors' \in Nat \ {0}
          /\ interval' = interval /\ interval \in Intervals
      BY <2>1, BackoffAssumption DEF PollFailed, BackoffTypeOK
    <3>2. CASE consecutiveErrors' > Tolerated
      <4>1. period' = Backoff(consecutiveErrors')
        BY <2>1, <3>2 DEF PollFailed
      <4>2. period' \in Nat
        BY <3>1, <4>1, BackoffType
      <4>3. interval <= Cap => interval <= period' /\ period' <= Cap
        BY <3>1, <4>1, BackoffBounds
      <4> QED
        BY <3>1, <3>2, <4>2, <4>3, BackoffAssumption DEF BackoffTypeOK, PeriodJustified
    <3>3. CASE ~(consecutiveErrors' > Tolerated)
      <4>1. period' = period /\ consecutiveErrors <= Tolerated
        BY <2>1, <3>3, BackoffAssumption DEF PollFailed, BackoffTypeOK
      <4> QED
        BY <3>1, <3>3, <4>1, BackoffAssumption DEF BackoffTypeOK, PeriodJustified
    <3> QED
      BY <3>2, <3>3
  <2>2. CASE PollSucceeded
    BY <2>2, BackoffAssumption DEF PollSucceeded, BackoffTypeOK, PeriodJustified
  <2>3. CASE UNCHANGED backoffVars
    BY <2>3 DEF backoffVars, BackoffTypeOK, PeriodJustified
  <2> QED
    BY <2>1, <2>2, <2>3 DEF BackoffNext
<1> QED
  BY <1>1, <1>2, PTL DEF BackoffSpec

\* One error more does not shorten the backoff.
LEMMA BackoffMonotone ==
  ASSUME BackoffTypeOK, NEW n \in Nat
  PROVE  Backoff(n) <= Backoff(n + 1)
<1>1. interval \in Nat /\ Cap \in Nat
  BY BackoffAssumption DEF BackoffTypeOK
<1>2. interval * n \in Nat /\ interval * (n + 1) = interval * n + interval
  BY <1>1
<1> QED
  BY <1>1, <1>2 DEF Backoff

\* Past the tolerated errors the period is the backoff of exactly their number.
PeriodExact == consecutiveErrors > Tolerated => period = Backoff(consecutiveErrors)

\* During an outage the poller never speeds up: the action property SlowsDown, from
\* the invariant of PeriodFollows and the exact value of the period.
THEOREM OutageSlowsDown == BackoffSpec => SlowsDown
<1> DEFINE BInv == BackoffTypeOK /\ PeriodJustified /\ PeriodExact
<1>1. BackoffInit => PeriodExact
  BY BackoffAssumption DEF BackoffInit, PeriodExact
<1>2. BackoffTypeOK /\ PeriodExact /\ [BackoffNext]_backoffVars => PeriodExact'
  <2> SUFFICES ASSUME BackoffTypeOK, PeriodExact, [BackoffNext]_backoffVars PROVE PeriodExact'
    OBVIOUS
  <2>1. CASE PollFailed
    BY <2>1 DEF PollFailed, PeriodExact, Backoff
  <2>2. CASE PollSucceeded
    BY <2>2, BackoffAssumption DEF PollSucceeded, PeriodExact
  <2>3. CASE UNCHANGED backoffVars
    BY <2>3 DEF backoffVars, PeriodExact, Backoff
  <2> QED
    BY <2>1, <2>2, <2>3 DEF BackoffNext
<1>3. BInv /\ [BackoffNext]_backoffVars =>
        [interval <= Cap /\ consecutiveErrors' > consecutiveErrors => period' >= period]_backoffVars
  <2> SUFFICES ASSUME BInv, BackoffNext, interval <= Cap, consecutiveErrors' > consecutiveErrors
               PROVE  period' >= period
    BY DEF backoffVars
  <2>1. PollFailed /\ consecutiveErrors \in Nat /\ period \in Nat /\ Tolerated \in Nat
    BY BackoffAssumption DEF BackoffNext, PollSucceeded, BackoffTypeOK
  <2>2. consecutiveErrors' = consecutiveErrors + 1
    BY <2>1 DEF PollFailed
  <2>3. CASE consecutiveErrors' <= Tolerated
    BY <2>1, <2>2, <2>3 DEF PollFailed
  <2>4. CASE consecutiveErrors' > Tolerated
    <3>1. period' = Backoff(consecutiveErrors + 1)
      BY <2>1, <2>2, <2>4 DEF PollFailed
    <3>2. Backoff(consecutiveErrors + 1) \in Nat /\ interval <= Backoff(consecutiveErrors + 1)
      BY <2>1, consecutiveErrors + 1 \in Nat \ {0}, BackoffBounds
    <3>3. CASE consecutiveErrors <= Tolerated
      BY <2>1, <3>1, <3>2, <3>3 DEF PeriodJustified
    <3>4. CASE consecutiveErrors > Tolerated
      <4>1. period = Backoff(consecutiveErrors)
        BY <3>4 DEF PeriodExact
      <4>2. Backoff(consecutiveErrors) <= Backoff(consecutiveErrors + 1)
        BY <2>1, BackoffMonotone
      <4> QED
        BY <2>1, <3>1, <3>2, <4>1, <4>2
    <3> QED
      BY <2>1, <3>3, <3>4
  <2> QED
    BY <2>1, <2>2, <2>3, <2>4
<1> QED
  BY <1>1, <1>2, <1>3, PeriodFollows, PTL DEF BackoffSpec, SlowsDown

-----------------------------------------------------------------------------
\* The composition (PollingPool).

\* Every step of the composition is a step of the pool.
LEMMA PoolStep == ASSUME PollingNext PROVE Next
<1>1. CASE PollBacksOff
  BY <1>1 DEF PollBacksOff, Next, Poll
<1>2. CASE Others
  BY <1>2 DEF Others, Next
<1> QED
  BY <1>1, <1>2 DEF PollingNext

\* Every step of the composition is a poll that fails or succeeds, or leaves the ticker
\* alone.
LEMMA BackoffStep == ASSUME PollingNext PROVE [BackoffNext]_backoffVars
<1>1. CASE PollBacksOff
  BY <1>1 DEF PollBacksOff, BackoffNext
<1>2. CASE UNCHANGED backoffVars
  BY <1>2
<1> QED
  BY <1>1, <1>2 DEF PollingNext

\* Backing off adds nothing to what the pool can do.
THEOREM PollingIsPool == PollingSpec => Spec
<1>1. PollingInit => Init
  BY DEF PollingInit
<1>2. [PollingNext]_pollingVars => [Next]_vars
  <2>1. CASE PollingNext
    BY <2>1, PoolStep
  <2>2. CASE UNCHANGED pollingVars
    BY <2>2 DEF pollingVars
  <2> QED
    BY <2>1, <2>2
<1> QED
  BY <1>1, <1>2, PTL DEF PollingSpec, Spec

\* The pool's polls drive the counter and the ticker as Poller.Run does.
THEOREM PollingIsBackoff == PollingSpec => BackoffSpec
<1>1. PollingInit => BackoffInit
  BY DEF PollingInit
<1>2. [PollingNext]_pollingVars => [BackoffNext]_backoffVars
  <2>1. CASE PollingNext
    BY <2>1, BackoffStep
  <2>2. CASE UNCHANGED pollingVars
    BY <2>2 DEF pollingVars
  <2> QED
    BY <2>1, <2>2
<1> QED
  BY <1>1, <1>2, PTL DEF PollingSpec, BackoffSpec

\* The poller's period is justified, and the pool it feeds keeps its jobs and their
\* workspaces apart and its verdicts justified.
THEOREM PollingSafe ==
  PollingSpec => [](PeriodJustified /\ OneHolder /\ StepHasWorkspace /\ VerdictJustified)
<1> QED
  BY PollingIsPool, PollingIsBackoff, PeriodFollows, SingleHolder, WorkspaceKept,
     VerdictsJustified, PTL
=============================================================================
