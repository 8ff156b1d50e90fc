---------------------------- MODULE StepExecution ----------------------------
(***************************************************************************)
(* The executors (internal/executor) on one host, as workers use them: a   *)
(* new executor per job, Prepare, Run for one step after the other,        *)
(* Cleanup, each step with a context that may end at any moment.           *)
(*                                                                         *)
(* The order of the calls is the worker's (RunnerPool); what a step does   *)
(* is abstracted to whether it leaves a process in the background that     *)
(* holds the step's output, and to its exit status.                        *)
(***************************************************************************)
EXTENDS Naturals

CONSTANTS
  Workers,  \* the workers of the host
  Jobs,     \* the jobs they execute
  MaxSteps, \* the number of steps of a job
  Faults    \* what may go wrong, among FaultKinds

FaultKinds == {"pull",    \* an image is not allowed or cannot be had
               "mkdir",   \* a workspace cannot be made
               "spawn",   \* the shell cannot be started
               "create",  \* the container cannot be created
               "start",   \* the container cannot be started
               "wait",    \* the Docker daemon fails while it is waited for
               "remove",  \* the container cannot be removed
               "rmdir",   \* the workspace cannot be removed
               "lost",    \* an answer of the Docker daemon is lost
               "crash"}   \* the runner process dies

NoJob == "none"

ASSUME StepAssumption == MaxSteps \in Nat /\ Faults \subseteq FaultKinds /\ NoJob \notin Jobs

Kinds    == {"shell", "docker", "kubernetes", "firecracker"}
Statuses == {"zero", "nonzero"}
Steps    == 1..MaxSteps

ShellRun  == {"spawn", "shell"}
DockerRun == {"pull", "create", "start", "logs", "wait", "remove"}

VARIABLES
  pc,        \* where each worker is with its executor
  kind,      \* the type of its executor
  job,       \* the job it was prepared for
  step,      \* the step it runs or ran last
  ctxDone,   \* the context of that step is done
  result,    \* what Run returned for it
  dirs,      \* the workspaces on the host
  proc,      \* the shell process of each worker
  child,     \* a background process of the step holds its output
  container, \* the containers, which are named after job and step
  stray,     \* containers nobody knows to remove any more (no part of the program)
  littered   \* jobs whose workspace was there before or could not be removed (likewise)

vars == <<pc, kind, job, step, ctxDone, result, dirs, proc, child, container, stray, littered>>
workerVars == <<kind, job, step, ctxDone>>
hostVars == <<dirs, proc, child, container, stray, littered>>

TypeOK ==
  /\ pc \in [Workers -> {"free", "new", "ready", "cleanup"} \cup ShellRun \cup DockerRun]
  /\ kind \in [Workers -> Kinds]
  /\ job \in [Workers -> Jobs \cup {NoJob}]
  /\ step \in [Workers -> 0..MaxSteps]
  /\ ctxDone \in [Workers -> BOOLEAN]
  /\ result \in [Workers -> {"none", "success", "failure", "error"}]
  /\ dirs \subseteq Jobs /\ littered \subseteq Jobs
  /\ proc \in [Workers -> {"none", "running", "killed"} \cup Statuses]
  /\ child \in [Workers -> BOOLEAN]
  /\ container \in [Jobs \X Steps -> {"none", "created", "running"} \cup Statuses]
  /\ stray \subseteq Jobs \X Steps

\* The operator may have made workspaces.
Init ==
  /\ pc = [w \in Workers |-> "free"] /\ kind = [w \in Workers |-> "shell"]
  /\ job = [w \in Workers |-> NoJob] /\ step = [w \in Workers |-> 0]
  /\ ctxDone = [w \in Workers |-> FALSE] /\ result = [w \in Workers |-> "none"]
  /\ dirs \in SUBSET Jobs /\ littered = dirs
  /\ proc = [w \in Workers |-> "none"] /\ child = [w \in Workers |-> FALSE]
  /\ container = [c \in Jobs \X Steps |-> "none"] /\ stray = {}

Goto(w, at) == pc' = [pc EXCEPT ![w] = at]

\* Run returns r, the executor can be used for the next step.
Return(w, r) == Goto(w, "ready") /\ result' = [result EXCEPT ![w] = r]

\* The container of the step w runs.
Cont(w) == <<job[w], step[w]>>

SetContainer(w, st) == container' = [container EXCEPT ![Cont(w)] = st]

\* Wrong on purpose: only an exit status of the step's own counts as failure.
OutcomeOfExit(status) == IF status = "nonzero" THEN "failure" ELSE "success"

Outcome(status) == IF status = "zero" THEN "success" ELSE "failure"

-----------------------------------------------------------------------------
\* executor.New, Prepare and Cleanup.

\* A job is with one worker at a time.
New(w, j, k) ==
  /\ pc[w] = "free" /\ \A v \in Workers : job[v] # j
  /\ Goto(w, "new")
  /\ kind' = [kind EXCEPT ![w] = k]
  /\ job' = [job EXCEPT ![w] = j]
  /\ step' = [step EXCEPT ![w] = 0]
  /\ result' = [result EXCEPT ![w] = "none"]
  /\ proc' = [proc EXCEPT ![w] = "none"]
  /\ UNCHANGED <<ctxDone, dirs, child, container, stray, littered>>

\* MkdirAll does not mind a directory that is there already.
PrepareShell(w) ==
  /\ pc[w] = "new" /\ kind[w] = "shell"
  /\ \/ dirs' = dirs \cup {job[w]} /\ Goto(w, "ready")
     \/ "mkdir" \in Faults /\ Goto(w, "cleanup") /\ UNCHANGED dirs
  /\ UNCHANGED <<workerVars, result, proc, child, container, stray, littered>>

\* The default image is pulled; no workspace is made.
PrepareDocker(w) ==
  /\ pc[w] = "new" /\ kind[w] = "docker"
  /\ \/ Goto(w, "ready")
     \/ "pull" \in Faults /\ Goto(w, "cleanup")
  /\ UNCHANGED <<workerVars, result, hostVars>>

\* The other two are scaffolds: Prepare answers that it is not implemented.
PrepareScaffold(w) ==
  /\ pc[w] = "new" /\ kind[w] \in {"kubernetes", "firecracker"}
  /\ Goto(w, "cleanup")
  /\ UNCHANGED <<workerVars, result, hostVars>>

\* The worker is done with the job: after the last step, after a failure, at shutdown.
EndJob(w) ==
  /\ pc[w] = "ready"
  /\ Goto(w, "cleanup")
  /\ UNCHANGED <<workerVars, result, hostVars>>

\* Wrong on purpose: the shell executor leaves the workspace as the Docker executor does.
CleanupNothing(w) ==
  /\ pc[w] = "cleanup"
  /\ Goto(w, "free")
  /\ job' = [job EXCEPT ![w] = NoJob]
  /\ UNCHANGED <<kind, step, ctxDone, result, hostVars>>

\* The shell executor removes the workspace, the others have nothing to remove.
Cleanup(w) ==
  /\ pc[w] = "cleanup"
  /\ \/ kind[w] # "shell" /\ UNCHANGED <<dirs, littered>>
     \/ /\ kind[w] = "shell"
        /\ dirs' = dirs \ {job[w]} /\ littered' = littered \ {job[w]}
     \/ /\ kind[w] = "shell" /\ "rmdir" \in Faults
        /\ littered' = littered \cup ({job[w]} \cap dirs)
        /\ UNCHANGED dirs
  /\ Goto(w, "free")
  /\ job' = [job EXCEPT ![w] = NoJob]
  /\ UNCHANGED <<kind, step, ctxDone, result, proc, child, container, stray>>

-----------------------------------------------------------------------------
\* Run, up to where the executors differ.
BeginStep(w) ==
  /\ pc[w] = "ready" /\ step[w] < MaxSteps
  /\ step' = [step EXCEPT ![w] = @ + 1]
  /\ ctxDone' = [ctxDone EXCEPT ![w] = FALSE]
  /\ result' = [result EXCEPT ![w] = "none"]
  /\ proc' = [proc EXCEPT ![w] = "none"]
  /\ Goto(w, IF kind[w] = "shell" THEN "spawn" ELSE "pull")
  /\ UNCHANGED <<kind, job, dirs, child, container, stray, littered>>

\* The step's timeout, or the end of the context the worker was given.
CtxEnds(w) ==
  /\ pc[w] \in ShellRun \cup DockerRun /\ ~ctxDone[w]
  /\ ctxDone' = [ctxDone EXCEPT ![w] = TRUE]
  /\ UNCHANGED <<pc, kind, job, step, result, hostVars>>

-----------------------------------------------------------------------------
\* Run of the shell executor.

Spawn(w) ==
  /\ pc[w] = "spawn"
  /\ \/ /\ ctxDone[w]
        /\ Return(w, "failure")
        /\ UNCHANGED proc
     \/ /\ ~ctxDone[w]
        /\ proc' = [proc EXCEPT ![w] = "running"]
        /\ Goto(w, "shell")
        /\ UNCHANGED result
     \/ /\ ~ctxDone[w] /\ "spawn" \in Faults
        /\ Return(w, "error")
        /\ UNCHANGED proc
  /\ UNCHANGED <<workerVars, dirs, child, container, stray, littered>>

\* The script starts a background process, or ends.
ShellActs(w) ==
  /\ proc[w] = "running"
  /\ \/ child' = [child EXCEPT ![w] = TRUE] /\ UNCHANGED proc
     \/ \E st \in Statuses : proc' = [proc EXCEPT ![w] = st] /\ UNCHANGED child
  /\ UNCHANGED <<pc, workerVars, result, dirs, container, stray, littered>>

ChildEnds(w) ==
  /\ child[w]
  /\ child' = [child EXCEPT ![w] = FALSE]
  /\ UNCHANGED <<pc, workerVars, result, dirs, proc, container, stray, littered>>

\* exec.CommandContext kills the shell, and the shell only.
KillShell(w) ==
  /\ pc[w] = "shell" /\ proc[w] = "running" /\ ctxDone[w]
  /\ proc' = [proc EXCEPT ![w] = "killed"]
  /\ UNCHANGED <<pc, workerVars, result, dirs, child, container, stray, littered>>

\* cmd.Run returns when the shell has ended and nobody holds its output any more.
ShellReturns(w) ==
  /\ pc[w] = "shell" /\ proc[w] \in {"killed"} \cup Statuses /\ ~child[w]
  /\ Return(w, Outcome(proc[w]))
  /\ UNCHANGED <<workerVars, hostVars>>

-----------------------------------------------------------------------------
\* Run of the Docker executor.

\* validateImage and pullImageIfNeeded.
Pull(w) ==
  /\ pc[w] = "pull"
  /\ \/ Goto(w, "create") /\ UNCHANGED result
     \/ ("pull" \in Faults \/ ctxDone[w]) /\ Return(w, "error")
  /\ UNCHANGED <<workerVars, hostVars>>

\* buildMounts refuses a volume of the configuration, or the daemon the container.
ContainerRefused == "create" \in Faults

\* buildContainerConfig mounts the workspace, which must be there.
Mountable(w) == job[w] \in dirs

\* ContainerCreate: the name must be free and the workspace to mount must be there.  If
\* the answer does not arrive the container may exist, and nobody has its id.
Create(w) ==
  /\ pc[w] = "create"
  /\ LET possible == Mountable(w) /\ container[Cont(w)] = "none" IN
     \/ /\ possible
        /\ SetContainer(w, "created")
        /\ \/ Goto(w, "start") /\ UNCHANGED <<result, stray>>
           \/ /\ "lost" \in Faults \/ ctxDone[w]
              /\ Return(w, "error")
              /\ stray' = stray \cup {Cont(w)}
     \/ /\ ~possible \/ ContainerRefused \/ ctxDone[w]
        /\ Return(w, "error")
        /\ UNCHANGED <<container, stray>>
  /\ UNCHANGED <<workerVars, dirs, proc, child, littered>>

\* Wrong on purpose: an error returns before the removal is deferred.
StartOrReturn(w) ==
  /\ pc[w] = "start"
  /\ \/ SetContainer(w, "running") /\ Goto(w, "logs") /\ UNCHANGED result
     \/ "start" \in Faults /\ Return(w, "error") /\ UNCHANGED container
  /\ UNCHANGED <<workerVars, dirs, proc, child, stray, littered>>

\* ContainerStart; from here on every return goes through the deferred removal.
Start(w) ==
  /\ pc[w] = "start"
  /\ \/ SetContainer(w, "running") /\ Goto(w, "logs") /\ UNCHANGED result
     \/ /\ "start" \in Faults \/ "lost" \in Faults \/ ctxDone[w]
        /\ container' \in {container} \cup
             (IF "lost" \in Faults \/ ctxDone[w] THEN {[container EXCEPT ![Cont(w)] = "running"]} ELSE {})
        /\ result' = [result EXCEPT ![w] = "error"]
        /\ Goto(w, "remove")
  /\ UNCHANGED <<workerVars, dirs, proc, child, stray, littered>>

\* A container runs until its command ends.
ContainerExits(c) ==
  /\ container[c] = "running"
  /\ \E st \in Statuses : container' = [container EXCEPT ![c] = st]
  /\ UNCHANGED <<pc, workerVars, result, dirs, proc, child, stray, littered>>

\* StreamLogs ends with the container, with the context or with an error, which is only
\* logged.
StreamLogs(w) ==
  /\ pc[w] = "logs"
  /\ container[Cont(w)] # "running" \/ ctxDone[w] \/ "wait" \in Faults
  /\ Goto(w, "wait")
  /\ UNCHANGED <<workerVars, result, hostVars>>

\* Wrong on purpose: the wait is not given the step's context.
WaitForStatus(w) ==
  /\ pc[w] = "wait" /\ container[Cont(w)] \in Statuses
  /\ result' = [result EXCEPT ![w] = Outcome(container[Cont(w)])]
  /\ Goto(w, "remove")
  /\ UNCHANGED <<workerVars, hostVars>>

\* What ContainerWait returns: the status of a container that has ended, or an error when
\* the context is done or the daemon fails; of several that are there, any.
ContainerWait(w, r) ==
  \/ r \in Statuses /\ container[Cont(w)] = r
  \/ r = "error" /\ (ctxDone[w] \/ "wait" \in Faults)

\* An error is a failed step when the context is done.
Wait(w) ==
  /\ pc[w] = "wait"
  /\ \E r \in Statuses \cup {"error"} :
       /\ ContainerWait(w, r)
       /\ result' = [result EXCEPT ![w] = IF r # "error" THEN Outcome(r)
                                         ELSE IF ctxDone[w] THEN "failure" ELSE "error"]
  /\ Goto(w, "remove")
  /\ UNCHANGED <<workerVars, hostVars>>

\* The deferred ContainerRemove, forced and with a context of its own; an error is only
\* logged.
ContainerRemove(w) ==
  /\ pc[w] = "remove"
  /\ \/ SetContainer(w, "none") /\ UNCHANGED stray
     \/ "remove" \in Faults /\ stray' = stray \cup {Cont(w)} /\ UNCHANGED container
  /\ Goto(w, "ready")
  /\ UNCHANGED <<workerVars, result, dirs, proc, child, littered>>

-----------------------------------------------------------------------------
\* The runner dies; what it has on the host stays there.
Crash ==
  /\ "crash" \in Faults
  /\ pc' = [w \in Workers |-> "free"]
  /\ job' = [w \in Workers |-> NoJob]
  /\ result' = [w \in Workers |-> "none"]
  /\ proc' = [w \in Workers |-> "none"] /\ child' = [w \in Workers |-> FALSE]
  /\ littered' = littered \cup dirs
  /\ stray' = stray \cup {c \in Jobs \X Steps : container[c] # "none"}
  /\ UNCHANGED <<kind, step, ctxDone, dirs, container>>

RunStep(w) ==
  \/ Spawn(w) \/ KillShell(w) \/ ShellReturns(w)
  \/ Pull(w) \/ Create(w) \/ Start(w) \/ StreamLogs(w) \/ Wait(w) \/ ContainerRemove(w)

Next ==
  \/ \E w \in Workers :
       \/ \E j \in Jobs, k \in Kinds : New(w, j, k)
       \/ PrepareShell(w) \/ PrepareDocker(w) \/ PrepareScaffold(w) \/ EndJob(w) \/ Cleanup(w)
       \/ BeginStep(w) \/ CtxEnds(w) \/ RunStep(w)
       \/ ShellActs(w) \/ ChildEnds(w)
  \/ \E c \in Jobs \X Steps : ContainerExits(c)
  \/ Crash

Spec == Init /\ [][Next]_vars

\* The worker runs, timers fire and the Docker daemon answers or fails.  Nothing is
\* assumed of scripts, containers and background processes: they may run for ever.
FairSpec == Spec /\ \A w \in Workers : WF_vars(RunStep(w)) /\ WF_vars(CtxEnds(w))

-----------------------------------------------------------------------------
\* Safety.

Running(w) == pc[w] \in ShellRun \cup DockerRun

\* Every way out of Run after the container was created removes it: a container exists
\* only while its step is run, unless nobody could know of it, the removal failed, or
\* the runner died.
ContainersRemoved ==
  \A c \in Jobs \X Steps : container[c] # "none" =>
    c \in stray \/ \E w \in Workers : Running(w) /\ kind[w] = "docker" /\ Cont(w) = c

\* A workspace the shell executor made is gone when the job is over, however it ended.
WorkspaceRemoved ==
  \A j \in dirs : j \in littered \/ \E w \in Workers : job[w] = j

\* A step that was killed, timed out or failed is never reported as a success.
SuccessHonest ==
  \A w \in Workers : result[w] = "success" =>
    /\ kind[w] = "shell" => proc[w] = "zero"
    /\ pc[w] = "remove" => container[Cont(w)] = "zero"

\* Steps of a job do not overlap: when one begins, no background process of an earlier
\* one is left that writes to the same output.
StepsApart == \A w \in Workers : child[w] => pc[w] = "shell"

-----------------------------------------------------------------------------
\* Liveness, of FairSpec.

\* A step's timeout ends Run.  Only a background process that keeps the output of a
\* shell step open can hold it back, and then for as long as it likes.
TimeoutEnforced ==
  \A w \in Workers : Running(w) ~> (~Running(w) \/ child[w])
=============================================================================
