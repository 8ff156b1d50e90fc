----------------------------- MODULE RunnerPool -----------------------------
(***************************************************************************)
(* One runner pool (internal/runner/pool.go): the poller goroutine, the    *)
(* buffered channel of acquired jobs, the worker goroutines that take jobs *)
(* from it and run them through Worker.Execute, the heartbeat goroutine of *)
(* each execution, and the root context that shuts everything down.        *)
(* GitHub's view of the jobs is external and modelled by how the client    *)
(* calls of this code can change it.                                       *)
(*                                                                         *)
(* Every call that leaves the process (AcquireJob, the status reports, the *)
(* executor's Prepare, Run and Cleanup) is an action of its own, so that   *)
(* cancellation and the other goroutines interleave with it.               *)
(***************************************************************************)
EXTENDS Integers, Sequences, FiniteSets, Lifecycle

CONSTANTS
  Workers,      \* the worker goroutines; their number is cfg.Concurrency
  Jobs,         \* the IDs of the jobs GitHub may hand to this runner
  StepsOf,      \* per job, the continue-on-error flag of each of its steps
  Executors,    \* the values of cfg.Executor, among ExecutorTypes
  Registered,   \* those with a registered factory that takes what executorConfig returns
  Faults        \* what may go wrong around the pool, among FaultKinds

\* What the configuration may ask for.  The daemon as it is registers no factory, and none
\* of them would take the value executorConfig passes: there Registered is empty.
ExecutorTypes == {"shell", "docker", "kubernetes", "firecracker"}

FaultKinds == {"emptyReply",  \* GitHub answers AcquireJob with 204 No Content
               "lostReply",   \* GitHub's answer to AcquireJob does not arrive
               "lostReport",  \* a status report fails although the context is live
               "newExecutor", \* the factory executor.New calls returns an error
               "prepare",     \* executor.Prepare does
               "cleanup"}     \* executor.Cleanup does

\* The zero value of JobResponse: the job AcquireJob returns for an empty 2xx body.
Phantom == 0

NoJob == -1

AllJobs == Jobs \cup {Phantom}

Concurrency == Cardinality(Workers)

ASSUME WorkersAssumption == IsFiniteSet(Workers) /\ Workers # {}
ASSUME JobsAssumption    == IsFiniteSet(Jobs) /\ Jobs \subseteq Nat \ {0}
ASSUME StepsAssumption   == StepsOf \in [AllJobs -> Seq(BOOLEAN)] /\ StepsOf[Phantom] = <<>>
ASSUME ExecutorsAssumption == Executors \subseteq ExecutorTypes /\ Registered \subseteq Executors
ASSUME FaultsAssumption  == Faults \subseteq FaultKinds

VARIABLES
  executor,   \* cfg.Executor of the pool, which nothing changes
  ctxDone,    \* the pool's context is cancelled
  gh,         \* GitHub's record of each job
  ghSteps,    \* per job, the steps whose result reached GitHub
  poller,     \* control state of the poller goroutine
  held,       \* the job the poller has acquired and not yet sent on
  jobs,       \* the job channel, oldest first
  pc,         \* control state of each worker goroutine
  job,        \* the job each worker has taken
  lc,         \* the lifecycle state of each worker's execution
  step,       \* the step each worker is at
  jobFailed,  \* the local of that name in Execute
  outcomes,   \* per job, what executor.Run returned for each step so far
  workspaces, \* the jobs whose workspace directory exists
  activeJobs, \* the pool's counter of that name
  hb          \* the heartbeat goroutines alive, as <<worker, job>>

ghVars     == <<gh, ghSteps>>
pollerVars == <<poller, held>>
execVars   == <<lc, step, jobFailed, outcomes, workspaces>>
vars == <<executor, ctxDone, ghVars, pollerVars, jobs, pc, job, execVars, activeJobs, hb>>

-----------------------------------------------------------------------------
\* Types.

GitHubStatus == {"queued", "assigned", "in_progress", "completed", "failed", "cancelled"}
Verdicts     == {"completed", "failed", "cancelled"}

Outcome == {"success", "failure", "error"}

PollerState == {"select", "acquiring", "sending", "stopped"}

\* Inside Execute.
Executing == {"claim", "claimed", "preparing", "steps", "run", "stepReport",
              "post", "report", "unwind"}

WorkerState == {"select", "received", "stopped"} \cup Executing

\* Between pool.go's activeJobs.Add(1) and Add(-1).
Busy == Executing \cup {"received"}

TypeOK ==
  /\ executor \in Executors
  /\ ctxDone \in BOOLEAN
  /\ gh \in [Jobs -> GitHubStatus]
  /\ ghSteps \in [Jobs -> SUBSET Nat]
  /\ poller \in PollerState
  /\ held \in AllJobs \cup {NoJob}
  /\ jobs \in Seq(AllJobs)
  /\ pc \in [Workers -> WorkerState]
  /\ job \in [Workers -> AllJobs \cup {NoJob}]
  /\ lc \in [Workers -> JobState]
  /\ step \in [Workers -> Nat]
  /\ jobFailed \in [Workers -> BOOLEAN]
  /\ outcomes \in [AllJobs -> Seq(Outcome)]
  /\ workspaces \subseteq AllJobs
  /\ activeJobs \in Nat
  /\ hb \subseteq Workers \X AllJobs

Init ==
  /\ executor \in Executors
  /\ ctxDone = FALSE
  /\ gh = [j \in Jobs |-> "queued"]
  /\ ghSteps = [j \in Jobs |-> {}]
  /\ poller = "select"
  /\ held = NoJob
  /\ jobs = <<>>
  /\ pc = [w \in Workers |-> "select"]
  /\ job = [w \in Workers |-> NoJob]
  /\ lc = [w \in Workers |-> "Queued"]
  /\ step = [w \in Workers |-> 1]
  /\ jobFailed = [w \in Workers |-> FALSE]
  /\ outcomes = [j \in AllJobs |-> <<>>]
  /\ workspaces = {}
  /\ activeJobs = 0
  /\ hb = {}

-----------------------------------------------------------------------------
\* The root context: Manager.Start's rootCancel, on SIGTERM, SIGINT or an error.

Cancel ==
  /\ ~ctxDone
  /\ ctxDone' = TRUE
  /\ UNCHANGED <<executor, ghVars, pollerVars, jobs, pc, job, execVars, activeJobs, hb>>

-----------------------------------------------------------------------------
\* The poller (poller.go).  The error counter and the ticker's period only
\* decide when the next tick comes; PollBackoff models them.

PollTick ==
  /\ poller = "select"
  /\ ~ctxDone        \* with the context done, AcquireJob fails before it sends
  /\ poller' = "acquiring"
  /\ UNCHANGED <<executor, ctxDone, ghVars, held, jobs, pc, job, execVars, activeJobs, hb>>

\* The answer arrives: the job GitHub assigns to this runner or, a 204 being a 2xx with
\* an empty body for doJSON, the &JobResponse{} that is job Phantom.
AcquireReply(j) ==
  /\ poller = "acquiring"
  /\ IF j = Phantom
     THEN "emptyReply" \in Faults /\ UNCHANGED gh
     ELSE gh[j] = "queued" /\ gh' = [gh EXCEPT ![j] = "assigned"]
  /\ held' = j
  /\ poller' = "sending"
  /\ UNCHANGED <<executor, ctxDone, ghSteps, jobs, pc, job, execVars, activeJobs, hb>>

\* A 404 (nil, nil) or an error: the poller waits for the next tick.  When the
\* answer is lost on the way, GitHub may have assigned a job no one will hear of.
AcquireNothing ==
  /\ poller = "acquiring"
  /\ poller' = "select"
  /\ \/ UNCHANGED gh
     \/ /\ "lostReply" \in Faults
        /\ \E j \in Jobs : gh[j] = "queued" /\ gh' = [gh EXCEPT ![j] = "assigned"]
  /\ UNCHANGED <<executor, ctxDone, ghSteps, held, jobs, pc, job, execVars, activeJobs, hb>>

\* Wrong on purpose: a send never blocks.
AlwaysRoom == TRUE

ChannelHasRoom == Len(jobs) < Concurrency

PollSend ==
  /\ poller = "sending"
  /\ ChannelHasRoom
  /\ jobs' = Append(jobs, held)
  /\ held' = NoJob
  /\ poller' = "select"
  /\ UNCHANGED <<executor, ctxDone, ghVars, pc, job, execVars, activeJobs, hb>>

\* Wrong on purpose: only the inner select watches the context.
PollStopInnerOnly ==
  /\ poller = "sending"
  /\ ctxDone
  /\ held' = NoJob
  /\ poller' = "stopped"
  /\ UNCHANGED <<executor, ctxDone, ghVars, jobs, pc, job, execVars, activeJobs, hb>>

\* The context is done: the poller returns, and with it goes the job it holds.
PollStop ==
  /\ poller \in {"select", "sending"}
  /\ ctxDone
  /\ held' = NoJob
  /\ poller' = "stopped"
  /\ UNCHANGED <<executor, ctxDone, ghVars, jobs, pc, job, execVars, activeJobs, hb>>

Poll ==
  \/ PollTick \/ AcquireNothing \/ PollSend \/ PollStop
  \/ \E j \in AllJobs : AcquireReply(j)

-----------------------------------------------------------------------------
\* The worker loop (pool.go, runWorker).

\* Wrong on purpose: the job stays in the channel.
ReceivePeeks(w) ==
  /\ pc[w] = "select"
  /\ jobs # <<>>
  /\ job' = [job EXCEPT ![w] = Head(jobs)]
  /\ activeJobs' = activeJobs + 1
  /\ pc' = [pc EXCEPT ![w] = "received"]
  /\ UNCHANGED <<executor, ctxDone, ghVars, pollerVars, jobs, execVars, hb>>

\* select chooses at random among its ready cases: a job may be taken from the
\* channel although the context is done.
Receive(w) ==
  /\ pc[w] = "select"
  /\ jobs # <<>>
  /\ job' = [job EXCEPT ![w] = Head(jobs)]
  /\ jobs' = Tail(jobs)
  /\ activeJobs' = activeJobs + 1
  /\ pc' = [pc EXCEPT ![w] = "received"]
  /\ UNCHANGED <<executor, ctxDone, ghVars, pollerVars, execVars, hb>>

WorkerStop(w) ==
  /\ pc[w] = "select"
  /\ ctxDone
  /\ pc' = [pc EXCEPT ![w] = "stopped"]
  /\ UNCHANGED <<executor, ctxDone, ghVars, pollerVars, jobs, job, execVars, activeJobs, hb>>

\* Wrong on purpose: the error path takes nothing back.
NewExecutorLeaks(w) ==
  /\ pc[w] = "received"
  /\ executor \notin Registered \/ "newExecutor" \in Faults
  /\ pc' = [pc EXCEPT ![w] = "select"]
  /\ job' = [job EXCEPT ![w] = NoJob]
  /\ UNCHANGED <<executor, ctxDone, ghVars, pollerVars, jobs, execVars, activeJobs, hb>>

\* executor.New.  With an executor, Execute is entered and its locals start afresh;
\* an error, as there always is for a type that is not registered, is logged, the counter
\* taken back and the job forgotten.
NewExecutor(w) ==
  /\ pc[w] = "received"
  /\ \/ /\ executor \in Registered
        /\ pc' = [pc EXCEPT ![w] = "claim"]
        /\ lc' = [lc EXCEPT ![w] = "Queued"]
        /\ step' = [step EXCEPT ![w] = 1]
        /\ jobFailed' = [jobFailed EXCEPT ![w] = FALSE]
        /\ UNCHANGED <<activeJobs, job>>
     \/ /\ executor \notin Registered \/ "newExecutor" \in Faults
        /\ pc' = [pc EXCEPT ![w] = "select"]
        /\ job' = [job EXCEPT ![w] = NoJob]
        /\ activeJobs' = activeJobs - 1
        /\ UNCHANGED <<lc, step, jobFailed>>
  /\ UNCHANGED <<executor, ctxDone, ghVars, pollerVars, jobs, outcomes, workspaces, hb>>

-----------------------------------------------------------------------------
\* Worker.Execute (worker.go).

\* A report is lost for certain when the context is done, perhaps otherwise; its
\* error is logged or ignored, never acted on.  GitHub has no job Phantom.
Delivered(j) ==
  IF ctxDone \/ j \notin Jobs THEN {FALSE}
  ELSE IF "lostReport" \in Faults THEN BOOLEAN ELSE {TRUE}

ReportJobStatus(j, status) ==
  \E ok \in Delivered(j) : gh' = IF ok THEN [gh EXCEPT ![j] = status] ELSE gh

ReportStepStatus(j, i) ==
  \E ok \in Delivered(j) :
    ghSteps' = IF ok THEN [ghSteps EXCEPT ![j] = @ \cup {i}] ELSE ghSteps

\* lc.Transition(to), whose error makes Execute return.
Advance(w, to, next) ==
  /\ lc' = [lc EXCEPT ![w] = Transition(@, to)]
  /\ pc' = [pc EXCEPT ![w] = IF Valid(lc[w], to) THEN next ELSE "unwind"]

\* The heartbeat goroutine starts; Queued -> Claimed and the first report.
Claim(w) ==
  /\ pc[w] = "claim"
  /\ hb' = hb \cup {<<w, job[w]>>}
  /\ Advance(w, "Claimed", "claimed")
  /\ ReportJobStatus(job[w], "in_progress")
  /\ UNCHANGED <<executor, ctxDone, ghSteps, pollerVars, jobs, job, step, jobFailed,
                 outcomes, workspaces, activeJobs>>

\* The pre-job hooks, whose errors are only logged; Claimed -> Preparing.
PreHooks(w) ==
  /\ pc[w] = "claimed"
  /\ Advance(w, "Preparing", "preparing")
  /\ UNCHANGED <<executor, ctxDone, ghVars, pollerVars, jobs, job, step, jobFailed,
                 outcomes, workspaces, activeJobs, hb>>

\* The workspaces an executor makes for j: only the shell's, on this machine.
WorkspaceOf(j) == IF executor = "shell" THEN {j} ELSE {}

\* Wrong on purpose: the error of Prepare does not stop the job.
PrepareIgnoresError(w) ==
  /\ pc[w] = "preparing"
  /\ workspaces' \in {workspaces, workspaces \cup WorkspaceOf(job[w])}
  /\ Advance(w, "Running", "steps")
  /\ UNCHANGED <<executor, ctxDone, ghVars, pollerVars, jobs, job, step, jobFailed,
                 outcomes, activeJobs, hb>>

\* executor.Prepare makes what the steps need, for the shell the job's workspace; when it
\* fails the job has failed.
Prepare(w) ==
  /\ pc[w] = "preparing"
  /\ \/ /\ workspaces' = workspaces \cup WorkspaceOf(job[w])
        /\ Advance(w, "Running", "steps")
     \/ /\ "prepare" \in Faults
        /\ lc' = [lc EXCEPT ![w] = Transition(@, "Failed")]
        /\ pc' = [pc EXCEPT ![w] = "report"]
        /\ UNCHANGED workspaces
  /\ UNCHANGED <<executor, ctxDone, ghVars, pollerVars, jobs, job, step, jobFailed,
                 outcomes, activeJobs, hb>>

\* The head of the step loop: leave it, give up on a done context, or run a step.
NextStep(w) ==
  /\ pc[w] = "steps"
  /\ \/ /\ step[w] > Len(StepsOf[job[w]])
        /\ Advance(w, "PostExec", "post")
     \/ /\ step[w] <= Len(StepsOf[job[w]])
        /\ ctxDone
        /\ lc' = [lc EXCEPT ![w] = Transition(@, "Cancelled")]
        /\ pc' = [pc EXCEPT ![w] = "report"]
     \/ /\ step[w] <= Len(StepsOf[job[w]])
        /\ ~ctxDone
        /\ pc' = [pc EXCEPT ![w] = "run"]
        /\ UNCHANGED lc
  /\ UNCHANGED <<executor, ctxDone, ghVars, pollerVars, jobs, job, step, jobFailed,
                 outcomes, workspaces, activeJobs, hb>>

\* What jobResponseToJob keeps of a step that Execute looks at.
ContinueOnError(j, i) == StepsOf[j][i]

\* Wrong on purpose: every step may fail.
ForgivenAlways(w) == TRUE

\* continue-on-error of the step w is at.
Forgiven(w) == ContinueOnError(job[w], step[w])

\* executor.Run returns: a result (success or failure), or an error and no result.
RunStep(w) ==
  /\ pc[w] = "run"
  /\ \E o \in Outcome :
       /\ outcomes' = [outcomes EXCEPT ![job[w]] = Append(@, o)]
       /\ \/ /\ o # "error"
             /\ pc' = [pc EXCEPT ![w] = "stepReport"]
             /\ UNCHANGED <<lc, step, jobFailed>>
          \/ /\ o = "error" /\ Forgiven(w)
             /\ step' = [step EXCEPT ![w] = @ + 1]
             /\ pc' = [pc EXCEPT ![w] = "steps"]
             /\ UNCHANGED <<lc, jobFailed>>
          \/ /\ o = "error" /\ ~Forgiven(w)
             /\ jobFailed' = [jobFailed EXCEPT ![w] = TRUE]
             /\ Advance(w, "PostExec", "post")
             /\ UNCHANGED step
  /\ UNCHANGED <<executor, ctxDone, ghVars, pollerVars, jobs, job, workspaces, activeJobs, hb>>

\* The result of the step just run.
LastOutcome(w) == outcomes[job[w]][Len(outcomes[job[w]])]

ReportStep(w) ==
  /\ pc[w] = "stepReport"
  /\ ReportStepStatus(job[w], step[w])
  /\ \/ /\ LastOutcome(w) = "failure" /\ ~Forgiven(w)
        /\ jobFailed' = [jobFailed EXCEPT ![w] = TRUE]
        /\ Advance(w, "PostExec", "post")
        /\ UNCHANGED step
     \/ /\ LastOutcome(w) = "success" \/ Forgiven(w)
        /\ step' = [step EXCEPT ![w] = @ + 1]
        /\ pc' = [pc EXCEPT ![w] = "steps"]
        /\ UNCHANGED <<lc, jobFailed>>
  /\ UNCHANGED <<executor, ctxDone, gh, pollerVars, jobs, job, outcomes, workspaces, activeJobs, hb>>

\* Wrong on purpose: a failed job returns before its report.
PostHooksEarlyReturn(w) ==
  /\ pc[w] = "post"
  /\ lc' = [lc EXCEPT ![w] = Transition(@, IF jobFailed[w] THEN "Failed" ELSE "Completed")]
  /\ pc' = [pc EXCEPT ![w] = IF jobFailed[w] THEN "unwind" ELSE "report"]
  /\ UNCHANGED <<executor, ctxDone, ghVars, pollerVars, jobs, job, step, jobFailed,
                 outcomes, workspaces, activeJobs, hb>>

\* The post-job hooks, whose errors are only logged, and the final transition.
PostHooks(w) ==
  /\ pc[w] = "post"
  /\ lc' = [lc EXCEPT ![w] = Transition(@, IF jobFailed[w] THEN "Failed" ELSE "Completed")]
  /\ pc' = [pc EXCEPT ![w] = "report"]
  /\ UNCHANGED <<executor, ctxDone, ghVars, pollerVars, jobs, job, step, jobFailed,
                 outcomes, workspaces, activeJobs, hb>>

\* The last report, of the state the job ended in; Execute returns.
Report(w) ==
  /\ pc[w] = "report"
  /\ ReportJobStatus(job[w], ToJobStatus(lc[w]))
  /\ pc' = [pc EXCEPT ![w] = "unwind"]
  /\ UNCHANGED <<executor, ctxDone, ghSteps, pollerVars, jobs, job, execVars, activeJobs, hb>>

\* Wrong on purpose: the clean-up transition is reported like the others.
UnwindReports(w) ==
  /\ pc[w] = "unwind"
  /\ lc' = [lc EXCEPT ![w] = Transition(@, "Cleanup")]
  /\ ReportJobStatus(job[w], ToJobStatus("Cleanup"))
  /\ workspaces' = workspaces \ WorkspaceOf(job[w])
  /\ activeJobs' = activeJobs - 1
  /\ job' = [job EXCEPT ![w] = NoJob]
  /\ pc' = [pc EXCEPT ![w] = "select"]
  /\ UNCHANGED <<executor, ctxDone, ghSteps, pollerVars, jobs, step, jobFailed, outcomes, hb>>

\* The deferred calls of Execute (the lifecycle's last transition, whose error is
\* ignored, and executor.Cleanup, which may fail) and the rest of the loop body.
Unwind(w) ==
  /\ pc[w] = "unwind"
  /\ lc' = [lc EXCEPT ![w] = Transition(@, "Cleanup")]
  /\ \/ workspaces' = workspaces \ WorkspaceOf(job[w])
     \/ "cleanup" \in Faults /\ UNCHANGED workspaces
  /\ activeJobs' = activeJobs - 1
  /\ job' = [job EXCEPT ![w] = NoJob]
  /\ pc' = [pc EXCEPT ![w] = "select"]
  /\ UNCHANGED <<executor, ctxDone, ghVars, pollerVars, jobs, step, jobFailed, outcomes, hb>>

Worker(w) ==
  \/ Receive(w) \/ WorkerStop(w) \/ NewExecutor(w)
  \/ Claim(w) \/ PreHooks(w) \/ Prepare(w) \/ NextStep(w) \/ RunStep(w)
  \/ ReportStep(w) \/ PostHooks(w) \/ Report(w) \/ Unwind(w)

-----------------------------------------------------------------------------
\* Heartbeats (heartbeat.go).  What SendHeartbeat does at GitHub is not
\* modelled; a goroutine ends some time after its context is done, which the
\* first deferred call of Execute brings about.

Beating == Executing \ {"claim", "unwind"}

\* Wrong on purpose: the goroutine gets the root context.
HeartbeatCancelledByRoot(w, j) == ctxDone

HeartbeatCancelled(w, j) == ctxDone \/ job[w] # j \/ pc[w] \notin Beating

HeartbeatStop(w, j) ==
  /\ <<w, j>> \in hb
  /\ HeartbeatCancelled(w, j)
  /\ hb' = hb \ {<<w, j>>}
  /\ UNCHANGED <<executor, ctxDone, ghVars, pollerVars, jobs, pc, job, execVars, activeJobs>>

-----------------------------------------------------------------------------
\* Pool.Run returns when the poller and every worker have.
Stopped == poller = "stopped" /\ \A w \in Workers : pc[w] = "stopped"

Terminated == Stopped /\ hb = {} /\ UNCHANGED vars

Next ==
  \/ Cancel
  \/ Poll
  \/ \E w \in Workers : Worker(w)
  \/ \E w \in Workers, j \in AllJobs : HeartbeatStop(w, j)
  \/ Terminated

Spec == Init /\ [][Next]_vars

\* Goroutines are scheduled, the ticker ticks, GitHub and the executor answer (each
\* request and each step has a timeout).  Nothing makes the context end.
Fairness ==
  /\ WF_vars(Poll)
  /\ \A w \in Workers : WF_vars(Worker(w))
  /\ \A w \in Workers, j \in AllJobs : WF_vars(HeartbeatStop(w, j))

FairSpec == Spec /\ Fairness

-----------------------------------------------------------------------------
\* Where a job is.

InChannel(j) == \E i \in 1..Len(jobs) : jobs[i] = j

Received(j) == \E w \in Workers : pc[w] = "received" /\ job[w] = j

Running(j) == \E w \in Workers : pc[w] \in Executing /\ job[w] = j

Waiting(j) == held = j \/ InChannel(j) \/ Received(j)

phase ==
  [ j \in Jobs |-> IF gh[j] = "queued" THEN "queued"
                  ELSE IF Running(j) THEN "running"
                  ELSE IF Waiting(j) THEN "waiting"
                  ELSE "gone" ]

\* The pool does what JobDispatch promises of any runner.
Dispatch == INSTANCE JobDispatch WITH Limit <- Concurrency

Refines == Dispatch!Spec

-----------------------------------------------------------------------------
\* Safety.

\* A job GitHub has assigned is in at most one place: the poller's hands, one slot
\* of the channel, or one worker.  (Two workers on one job would share, and one of
\* them delete, the workspace directory named after it.)
OneHolder ==
  \A j \in Jobs :
    /\ gh[j] = "queued" => held # j /\ ~InChannel(j) /\ \A w \in Workers : job[w] # j
    /\ held = j => ~InChannel(j) /\ \A w \in Workers : job[w] # j
    /\ InChannel(j) => \A w \in Workers : job[w] # j
    /\ \A i, k \in 1..Len(jobs) : jobs[i] = j /\ jobs[k] = j => i = k
    /\ \A v, w \in Workers : job[v] = j /\ job[w] = j => v = w

\* ActiveJobs() is the number of workers that have a job, whatever path each of
\* them took in its last one: no early return loses a decrement.
ActiveJobsExact == activeJobs = Cardinality({w \in Workers : pc[w] \in Busy})

\* The state each point of Execute expects.  No transition of Execute is ever
\* refused, so the errors it ignores (all but four of its calls ignore them) hide
\* nothing, and an Execute that has returned has left its lifecycle in Cleanup.
ExpectedAt(p) ==
  CASE p = "claim"     -> {"Queued"}
    [] p = "claimed"   -> {"Claimed"}
    [] p = "preparing" -> {"Preparing"}
    [] p \in {"steps", "run", "stepReport"} -> {"Running"}
    [] p = "post"      -> {"PostExec"}
    [] p \in {"report", "unwind"} -> Finished
    [] OTHER           -> {"Queued", "Cleanup"}

LifecycleInStep == \A w \in Workers : lc[w] \in ExpectedAt(pc[w])

\* While the shell executor runs a step of a job, the job's workspace exists: no other
\* execution's clean-up takes it away.  (The other executors make none.)
StepHasWorkspace ==
  executor = "shell" =>
    \A w \in Workers : pc[w] \in {"run", "stepReport"} => job[w] \in workspaces

Blames(j, k) == outcomes[j][k] # "success" /\ ~ContinueOnError(j, k)

\* What GitHub is told is what happened: "completed" when every step ran and none
\* failed unforgiven, "failed" when the preparation or the last step run did.
VerdictJustified ==
  \A j \in Jobs :
    /\ gh[j] = "completed" =>
         /\ Len(outcomes[j]) = Len(StepsOf[j])
         /\ \A k \in 1..Len(outcomes[j]) : ~Blames(j, k)
    /\ gh[j] = "failed" =>
         outcomes[j] = <<>> \/ Blames(j, Len(outcomes[j]))

\* The pool takes no more work from GitHub than it has room for: a job per worker,
\* a job per channel slot and the one the poller is trying to send.  What an empty reply
\* was taken for counts like a job.
Hoarded == {j \in Jobs : phase[j] \in {"waiting", "running"}}

Phantoms ==
  Cardinality({w \in Workers : job[w] = Phantom})
    + Cardinality({i \in 1..Len(jobs) : jobs[i] = Phantom})
    + (IF held = Phantom THEN 1 ELSE 0)

Backpressure == Cardinality(Hoarded) + Phantoms <= 2 * Concurrency + 1

\* As long as the context is live, an execution in progress has its heartbeat.
HeartbeatWhileRunning ==
  \A w \in Workers : pc[w] \in Beating /\ ~ctxDone => <<w, job[w]>> \in hb

\* A pool whose executor type is not registered goes on acquiring jobs, runs none of them
\* and never tells GitHub about any.
UnregisteredRunsNothing ==
  executor \notin Registered =>
    /\ \A w \in Workers : pc[w] \notin Executing
    /\ \A j \in Jobs : gh[j] \in {"queued", "assigned"} /\ ghSteps[j] = {}

-----------------------------------------------------------------------------
\* What a step may never do.

\* A verdict is final: GitHub never hears of the job again, neither another
\* status nor the result of a step.
VerdictFinal ==
  [][\A j \in Jobs : gh[j] \in Verdicts => gh'[j] = gh[j] /\ ghSteps'[j] = ghSteps[j]]_vars

-----------------------------------------------------------------------------
\* Liveness, of FairSpec.

\* Cancelling the context stops the pool, wherever its goroutines are: the poller
\* blocked on a full channel, workers in the middle of a job.
ShutdownCompletes == ctxDone ~> Stopped

\* With a reliable network and an executor type that is registered, a job the poller holds
\* gets its verdict at GitHub unless the pool is shut down first.  Of any other type, and
\* so in the daemon as it is, UnregisteredRunsNothing holds instead.
AcquiredGetsVerdict ==
  executor \in Registered => \A j \in Jobs : held = j ~> gh[j] \in Verdicts \/ ctxDone

\* Heartbeat goroutines do not pile up: each one ends.
HeartbeatsEnd ==
  \A w \in Workers, j \in Jobs : <<w, j>> \in hb ~> <<w, j>> \notin hb
=============================================================================
