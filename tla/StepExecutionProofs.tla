------------------------ MODULE StepExecutionProofs ------------------------
(***************************************************************************)
(* Proofs about StepExecution, for any number of workers, jobs and steps   *)
(* and every set of faults, and about Masker, which the steps write their  *)
(* output to, for any number of writers, any text and any secrets.         *)
(*                                                                         *)
(* What masking does to a text takes induction over it.  The induction     *)
(* theorems of the library take an operator, which the provers do not      *)
(* instantiate; InductNat and InductDown take a set of naturals instead.   *)
(***************************************************************************)
EXTENDS StepExecution, Masker, SequenceTheorems, NaturalsInduction, WellFoundedInduction, TLAPS

\* Between New and Cleanup a worker has a job nobody else has; which part of Run it is in
\* tells its executor, and until the step is over there is no result.
AtWork ==
  \A w \in Workers :
    /\ pc[w] # "free" <=> job[w] # NoJob
    /\ \A v \in Workers : v # w /\ job[v] = job[w] => job[w] = NoJob
    /\ pc[w] = "ready" => kind[w] \in {"shell", "docker"}
    /\ pc[w] \in ShellRun => kind[w] = "shell"
    /\ pc[w] \in DockerRun => kind[w] = "docker"
    /\ Running(w) => step[w] \in Steps
    /\ proc[w] = "running" => pc[w] = "shell"
    /\ Running(w) /\ pc[w] # "remove" => result[w] = "none"

\* Until it creates the container a step has none of its own.
ContainersKnown ==
  \A c \in Jobs \X Steps : container[c] # "none" =>
    c \in stray \/ \E w \in Workers : pc[w] \in {"start", "logs", "wait", "remove"} /\ Cont(w) = c

\* Executors other than the shell's make no workspace.
WorkspacesKnown ==
  /\ WorkspaceRemoved
  /\ \A w \in Workers : kind[w] # "shell" /\ job[w] \in dirs => job[w] \in littered

StepInv == TypeOK /\ AtWork /\ ContainersKnown /\ WorkspacesKnown /\ SuccessHonest /\ StepsApart

LEMMA Values ==
  /\ NoJob \notin Jobs
  /\ ShellRun = {"spawn", "shell"} /\ DockerRun = {"pull", "create", "start", "logs", "wait", "remove"}
  /\ Statuses = {"zero", "nonzero"} /\ Steps = 1..MaxSteps /\ MaxSteps \in Nat
  BY StepAssumption DEF ShellRun, DockerRun, Statuses, Steps

LEMMA InitSteps == Init => StepInv
  BY Values DEF Init, StepInv, TypeOK, AtWork, ContainersKnown, WorkspacesKnown, WorkspaceRemoved,
                SuccessHonest, StepsApart, Running, Kinds

LEMMA NewKeeps ==
  ASSUME StepInv, NEW w \in Workers, NEW j \in Jobs, NEW k \in Kinds, New(w, j, k)
  PROVE  StepInv'
<1> USE Values DEF StepInv
<1>1. TypeOK'
  BY DEF New, Goto, Kinds, TypeOK
<1>2. AtWork'
  BY DEF New, Goto, Kinds, AtWork, TypeOK, Running
<1>3. ContainersKnown'
  BY DEF New, Goto, Kinds, ContainersKnown, AtWork, TypeOK, Cont
<1>4. WorkspacesKnown'
  BY DEF New, Goto, Kinds, WorkspacesKnown, WorkspaceRemoved, AtWork, TypeOK
<1>5. SuccessHonest'
  BY DEF New, Goto, Kinds, SuccessHonest, AtWork, TypeOK, Cont, Running
<1>6. StepsApart'
  BY DEF New, Goto, Kinds, StepsApart, AtWork, TypeOK
<1> QED
  BY <1>1, <1>2, <1>3, <1>4, <1>5, <1>6

LEMMA PrepareShellKeeps ==
  ASSUME StepInv, NEW w \in Workers, PrepareShell(w)
  PROVE  StepInv'
<1> USE Values DEF StepInv
<1>1. TypeOK'
  <2>1. job[w] \in Jobs
    BY DEF PrepareShell, AtWork, TypeOK
  <2> QED
    BY <2>1 DEF PrepareShell, Goto, workerVars, TypeOK
<1>2. AtWork'
  BY DEF PrepareShell, Goto, workerVars, AtWork, TypeOK, Running
<1>3. ContainersKnown'
  BY DEF PrepareShell, Goto, workerVars, ContainersKnown, AtWork, TypeOK, Cont
<1>4. WorkspacesKnown'
  BY DEF PrepareShell, Goto, workerVars, WorkspacesKnown, WorkspaceRemoved, AtWork, TypeOK
<1>5. SuccessHonest'
  BY DEF PrepareShell, Goto, workerVars, SuccessHonest, AtWork, TypeOK, Cont, Running
<1>6. StepsApart'
  BY DEF PrepareShell, Goto, workerVars, StepsApart, AtWork, TypeOK
<1> QED
  BY <1>1, <1>2, <1>3, <1>4, <1>5, <1>6

LEMMA PrepareDockerKeeps ==
  ASSUME StepInv, NEW w \in Workers, PrepareDocker(w)
  PROVE  StepInv'
<1> USE Values DEF StepInv
<1>1. TypeOK'
  BY DEF PrepareDocker, Goto, workerVars, hostVars, TypeOK
<1>2. AtWork'
  BY DEF PrepareDocker, Goto, workerVars, hostVars, AtWork, TypeOK, Running
<1>3. ContainersKnown'
  BY DEF PrepareDocker, Goto, workerVars, hostVars, ContainersKnown, AtWork, TypeOK, Cont
<1>4. WorkspacesKnown'
  BY DEF PrepareDocker, Goto, workerVars, hostVars, WorkspacesKnown, WorkspaceRemoved, AtWork, TypeOK
<1>5. SuccessHonest'
  BY DEF PrepareDocker, Goto, workerVars, hostVars, SuccessHonest, AtWork, TypeOK, Cont, Running
<1>6. StepsApart'
  BY DEF PrepareDocker, Goto, workerVars, hostVars, StepsApart, AtWork, TypeOK
<1> QED
  BY <1>1, <1>2, <1>3, <1>4, <1>5, <1>6

LEMMA PrepareScaffoldKeeps ==
  ASSUME StepInv, NEW w \in Workers, PrepareScaffold(w)
  PROVE  StepInv'
<1> USE Values DEF StepInv
<1>1. TypeOK'
  BY DEF PrepareScaffold, Goto, workerVars, hostVars, TypeOK
<1>2. AtWork'
  BY DEF PrepareScaffold, Goto, workerVars, hostVars, AtWork, TypeOK, Running
<1>3. ContainersKnown'
  BY ZenonT(30) DEF PrepareScaffold, Goto, workerVars, hostVars, ContainersKnown, AtWork, TypeOK, Cont
<1>4. WorkspacesKnown'
  BY DEF PrepareScaffold, Goto, workerVars, hostVars, WorkspacesKnown, WorkspaceRemoved, AtWork, TypeOK
<1>5. SuccessHonest'
  BY DEF PrepareScaffold, Goto, workerVars, hostVars, SuccessHonest, AtWork, TypeOK, Cont, Running
<1>6. StepsApart'
  BY DEF PrepareScaffold, Goto, workerVars, hostVars, StepsApart, AtWork, TypeOK
<1> QED
  BY <1>1, <1>2, <1>3, <1>4, <1>5, <1>6

LEMMA EndJobKeeps ==
  ASSUME StepInv, NEW w \in Workers, EndJob(w)
  PROVE  StepInv'
<1> USE Values DEF StepInv
<1>1. TypeOK'
  BY DEF EndJob, Goto, workerVars, hostVars, TypeOK
<1>2. AtWork'
  BY DEF EndJob, Goto, workerVars, hostVars, AtWork, TypeOK, Running
<1>3. ContainersKnown'
  BY DEF EndJob, Goto, workerVars, hostVars, ContainersKnown, AtWork, TypeOK, Cont
<1>4. WorkspacesKnown'
  BY DEF EndJob, Goto, workerVars, hostVars, WorkspacesKnown, WorkspaceRemoved, AtWork, TypeOK
<1>5. SuccessHonest'
  BY DEF EndJob, Goto, workerVars, hostVars, SuccessHonest, AtWork, TypeOK, Cont, Running
<1>6. StepsApart'
  BY DEF EndJob, Goto, workerVars, hostVars, StepsApart, AtWork, TypeOK
<1> QED
  BY <1>1, <1>2, <1>3, <1>4, <1>5, <1>6

LEMMA CleanupKeeps ==
  ASSUME StepInv, NEW w \in Workers, Cleanup(w)
  PROVE  StepInv'
<1> USE Values DEF StepInv
<1>1. TypeOK'
  BY DEF Cleanup, Goto, TypeOK
<1>2. AtWork'
  BY DEF Cleanup, Goto, AtWork, TypeOK, Running
<1>3. ContainersKnown'
  BY DEF Cleanup, Goto, ContainersKnown, AtWork, TypeOK, Cont
<1>4. WorkspacesKnown'
  BY DEF Cleanup, Goto, WorkspacesKnown, WorkspaceRemoved, AtWork, TypeOK
<1>5. SuccessHonest'
  BY DEF Cleanup, Goto, SuccessHonest, AtWork, TypeOK, Cont, Running
<1>6. StepsApart'
  BY DEF Cleanup, Goto, StepsApart, AtWork, TypeOK
<1> QED
  BY <1>1, <1>2, <1>3, <1>4, <1>5, <1>6

LEMMA BeginStepKeeps ==
  ASSUME StepInv, NEW w \in Workers, BeginStep(w)
  PROVE  StepInv'
<1> USE Values DEF StepInv
<1>1. TypeOK'
  BY DEF BeginStep, Goto, TypeOK
<1>2. AtWork'
  BY DEF BeginStep, Goto, AtWork, TypeOK, Running
<1>3. ContainersKnown'
  BY DEF BeginStep, Goto, ContainersKnown, AtWork, TypeOK, Cont
<1>4. WorkspacesKnown'
  BY DEF BeginStep, Goto, WorkspacesKnown, WorkspaceRemoved, AtWork, TypeOK
<1>5. SuccessHonest'
  BY DEF BeginStep, Goto, SuccessHonest, AtWork, TypeOK, Cont, Running
<1>6. StepsApart'
  BY DEF BeginStep, Goto, StepsApart, AtWork, TypeOK
<1> QED
  BY <1>1, <1>2, <1>3, <1>4, <1>5, <1>6

LEMMA CtxEndsKeeps ==
  ASSUME StepInv, NEW w \in Workers, CtxEnds(w)
  PROVE  StepInv'
<1> USE Values DEF StepInv
<1>1. TypeOK'
  BY DEF CtxEnds, hostVars, TypeOK
<1>2. AtWork'
  BY DEF CtxEnds, hostVars, AtWork, TypeOK, Running
<1>3. ContainersKnown'
  BY DEF CtxEnds, hostVars, ContainersKnown, AtWork, TypeOK, Cont
<1>4. WorkspacesKnown'
  BY DEF CtxEnds, hostVars, WorkspacesKnown, WorkspaceRemoved, AtWork, TypeOK
<1>5. SuccessHonest'
  BY DEF CtxEnds, hostVars, SuccessHonest, AtWork, TypeOK, Cont, Running
<1>6. StepsApart'
  BY DEF CtxEnds, hostVars, StepsApart, AtWork, TypeOK
<1> QED
  BY <1>1, <1>2, <1>3, <1>4, <1>5, <1>6

LEMMA SpawnKeeps ==
  ASSUME StepInv, NEW w \in Workers, Spawn(w)
  PROVE  StepInv'
<1> USE Values DEF StepInv
<1>1. TypeOK'
  BY DEF Spawn, Goto, Return, workerVars, TypeOK
<1>2. AtWork'
  BY DEF Spawn, Goto, Return, workerVars, AtWork, TypeOK, Running
<1>3. ContainersKnown'
  BY ZenonT(60) DEF Spawn, Goto, Return, workerVars, ContainersKnown, AtWork, TypeOK, Cont
<1>4. WorkspacesKnown'
  BY DEF Spawn, Goto, Return, workerVars, WorkspacesKnown, WorkspaceRemoved, AtWork, TypeOK
<1>5. SuccessHonest'
  BY DEF Spawn, Goto, Return, workerVars, SuccessHonest, AtWork, TypeOK, Cont, Running
<1>6. StepsApart'
  BY DEF Spawn, Goto, Return, workerVars, StepsApart, AtWork, TypeOK
<1> QED
  BY <1>1, <1>2, <1>3, <1>4, <1>5, <1>6

LEMMA ShellActsKeeps ==
  ASSUME StepInv, NEW w \in Workers, ShellActs(w)
  PROVE  StepInv'
<1> USE Values DEF StepInv
<1>1. TypeOK'
  BY ZenonT(30) DEF ShellActs, workerVars, TypeOK
<1>2. AtWork'
  BY DEF ShellActs, workerVars, AtWork, TypeOK, Running
<1>3. ContainersKnown'
  BY DEF ShellActs, workerVars, ContainersKnown, AtWork, TypeOK, Cont
<1>4. WorkspacesKnown'
  BY DEF ShellActs, workerVars, WorkspacesKnown, WorkspaceRemoved, AtWork, TypeOK
<1>5. SuccessHonest'
  BY DEF ShellActs, workerVars, SuccessHonest, AtWork, TypeOK, Cont, Running
<1>6. StepsApart'
  BY ZenonT(30) DEF ShellActs, workerVars, StepsApart, AtWork, TypeOK
<1> QED
  BY <1>1, <1>2, <1>3, <1>4, <1>5, <1>6

LEMMA ChildEndsKeeps ==
  ASSUME StepInv, NEW w \in Workers, ChildEnds(w)
  PROVE  StepInv'
<1> USE Values DEF StepInv
<1>1. TypeOK'
  BY DEF ChildEnds, workerVars, TypeOK
<1>2. AtWork'
  BY DEF ChildEnds, workerVars, AtWork, TypeOK, Running
<1>3. ContainersKnown'
  BY DEF ChildEnds, workerVars, ContainersKnown, AtWork, TypeOK, Cont
<1>4. WorkspacesKnown'
  BY DEF ChildEnds, workerVars, WorkspacesKnown, WorkspaceRemoved, AtWork, TypeOK
<1>5. SuccessHonest'
  BY DEF ChildEnds, workerVars, SuccessHonest, AtWork, TypeOK, Cont, Running
<1>6. StepsApart'
  BY DEF ChildEnds, workerVars, StepsApart, AtWork, TypeOK
<1> QED
  BY <1>1, <1>2, <1>3, <1>4, <1>5, <1>6

LEMMA KillShellKeeps ==
  ASSUME StepInv, NEW w \in Workers, KillShell(w)
  PROVE  StepInv'
<1> USE Values DEF StepInv
<1>1. TypeOK'
  BY DEF KillShell, workerVars, TypeOK
<1>2. AtWork'
  BY DEF KillShell, workerVars, AtWork, TypeOK, Running
<1>3. ContainersKnown'
  BY DEF KillShell, workerVars, ContainersKnown, AtWork, TypeOK, Cont
<1>4. WorkspacesKnown'
  BY DEF KillShell, workerVars, WorkspacesKnown, WorkspaceRemoved, AtWork, TypeOK
<1>5. SuccessHonest'
  BY DEF KillShell, workerVars, SuccessHonest, AtWork, TypeOK, Cont, Running
<1>6. StepsApart'
  BY DEF KillShell, workerVars, StepsApart, AtWork, TypeOK
<1> QED
  BY <1>1, <1>2, <1>3, <1>4, <1>5, <1>6

LEMMA ShellReturnsKeeps ==
  ASSUME StepInv, NEW w \in Workers, ShellReturns(w)
  PROVE  StepInv'
<1> USE Values DEF StepInv
<1>1. TypeOK'
  BY DEF ShellReturns, Goto, Return, Outcome, workerVars, hostVars, TypeOK
<1>2. AtWork'
  BY DEF ShellReturns, Goto, Return, Outcome, workerVars, hostVars, AtWork, TypeOK, Running
<1>3. ContainersKnown'
  BY DEF ShellReturns, Goto, Return, Outcome, workerVars, hostVars, ContainersKnown, AtWork, TypeOK, Cont
<1>4. WorkspacesKnown'
  BY DEF ShellReturns, Goto, Return, Outcome, workerVars, hostVars, WorkspacesKnown, WorkspaceRemoved,
         AtWork, TypeOK
<1>5. SuccessHonest'
  BY DEF ShellReturns, Goto, Return, Outcome, workerVars, hostVars, SuccessHonest, AtWork, TypeOK, Cont, Running
<1>6. StepsApart'
  BY DEF ShellReturns, Goto, Return, Outcome, workerVars, hostVars, StepsApart, AtWork, TypeOK
<1> QED
  BY <1>1, <1>2, <1>3, <1>4, <1>5, <1>6

LEMMA PullKeeps ==
  ASSUME StepInv, NEW w \in Workers, Pull(w)
  PROVE  StepInv'
<1> USE Values DEF StepInv
<1>1. TypeOK'
  BY DEF Pull, Goto, Return, workerVars, hostVars, TypeOK
<1>2. AtWork'
  BY DEF Pull, Goto, Return, workerVars, hostVars, AtWork, TypeOK, Running
<1>3. ContainersKnown'
  <2>1. UNCHANGED <<container, stray>> /\ \A v \in Workers : Cont(v)' = Cont(v)
    BY DEF Pull, workerVars, hostVars, Cont
  <2>2. pc[w] = "pull" /\ \A v \in Workers \ {w} : pc'[v] = pc[v]
    BY DEF Pull, Return, Goto, TypeOK
  <2> QED
    BY <2>1, <2>2 DEF ContainersKnown
<1>4. WorkspacesKnown'
  BY DEF Pull, Goto, Return, workerVars, hostVars, WorkspacesKnown, WorkspaceRemoved, AtWork, TypeOK
<1>5. SuccessHonest'
  BY DEF Pull, Goto, Return, workerVars, hostVars, SuccessHonest, AtWork, TypeOK, Cont, Running
<1>6. StepsApart'
  BY DEF Pull, Goto, Return, workerVars, hostVars, StepsApart, AtWork, TypeOK
<1> QED
  BY <1>1, <1>2, <1>3, <1>4, <1>5, <1>6

LEMMA CreateKeeps ==
  ASSUME StepInv, NEW w \in Workers, Create(w)
  PROVE  StepInv'
<1> USE Values DEF StepInv
<1>1. TypeOK'
  <2>1. Cont(w) \in Jobs \X Steps
    BY DEF Create, AtWork, TypeOK, Running, Cont
  <2>2. container' = container \/ container' = [container EXCEPT ![Cont(w)] = "created"]
    BY DEF Create, SetContainer
  <2>3. container' \in [Jobs \X Steps -> {"none", "created", "running"} \cup Statuses]
    BY <2>1, <2>2 DEF TypeOK
  <2>4. stray' = stray \/ stray' = stray \cup {Cont(w)}
    BY DEF Create
  <2>5. stray' \subseteq Jobs \X Steps
    BY <2>1, <2>4 DEF TypeOK
  <2>6. /\ pc' = [pc EXCEPT ![w] = "start"] \/ pc' = [pc EXCEPT ![w] = "ready"]
        /\ result' = result \/ result' = [result EXCEPT ![w] = "error"]
    BY DEF Create, Goto, Return
  <2>7. UNCHANGED <<kind, job, step, ctxDone, dirs, proc, child, littered>>
    BY DEF Create, workerVars
  <2> QED
    BY ZenonT(30), <2>3, <2>5, <2>6, <2>7 DEF TypeOK
<1>2. AtWork'
  BY DEF Create, Goto, Return, SetContainer, workerVars, AtWork, TypeOK, Running
<1>3. ContainersKnown'
  <2>1. \A v \in Workers : Cont(v)' = Cont(v)
    BY DEF Create, workerVars, Cont
  <2>2. pc[w] = "create" /\ \A v \in Workers \ {w} : pc'[v] = pc[v]
    BY DEF Create, Return, Goto, TypeOK
  <2>3. stray \subseteq stray'
    BY DEF Create
  <2>4. \/ container' = container
        \/ /\ container' = [container EXCEPT ![Cont(w)] = "created"]
           /\ pc'[w] = "start" \/ Cont(w) \in stray'
    BY DEF Create, SetContainer, Goto, TypeOK
  <2> HIDE DEF Cont
  <2>5. ASSUME NEW c \in Jobs \X Steps, container'[c] # "none", c \notin stray'
        PROVE  \E v \in Workers : pc'[v] \in {"start", "logs", "wait", "remove"} /\ Cont(v)' = c
    <3>1. CASE c = Cont(w) /\ pc'[w] = "start"
      BY <2>1, <3>1
    <3>2. CASE container'[c] = container[c]
      BY <2>1, <2>2, <2>3, <2>5, <3>2 DEF ContainersKnown
    <3>3. c # Cont(w) => container'[c] = container[c]
      BY <2>4 DEF TypeOK
    <3> QED
      BY <2>4, <2>5, <3>1, <3>2, <3>3
  <2> QED
    BY <2>5 DEF ContainersKnown
<1>4. WorkspacesKnown'
  BY DEF Create, Goto, Return, SetContainer, workerVars, WorkspacesKnown, WorkspaceRemoved, AtWork, TypeOK
<1>5. SuccessHonest'
  BY DEF Create, Goto, Return, SetContainer, workerVars, SuccessHonest, AtWork, TypeOK, Cont, Running
<1>6. StepsApart'
  BY DEF Create, Goto, Return, SetContainer, workerVars, StepsApart, AtWork, TypeOK
<1> QED
  BY <1>1, <1>2, <1>3, <1>4, <1>5, <1>6

LEMMA StartContainer ==
  ASSUME TypeOK, NEW w \in Workers, Start(w)
  PROVE  \A c \in Jobs \X Steps : c # Cont(w) => container'[c] = container[c]
  BY DEF TypeOK, Start, SetContainer

LEMMA StartKeeps ==
  ASSUME StepInv, NEW w \in Workers, Start(w)
  PROVE  StepInv'
<1> USE Values DEF StepInv
<1>1. TypeOK'
  BY ZenonT(30) DEF Start, Goto, SetContainer, workerVars, TypeOK
<1>2. AtWork'
  BY DEF Start, Goto, SetContainer, workerVars, AtWork, TypeOK, Running
<1>3. ContainersKnown'
  <2>1. UNCHANGED stray /\ \A v \in Workers : Cont(v)' = Cont(v)
    BY DEF Start, workerVars, Cont
  <2>2. pc'[w] \in {"logs", "remove"} /\ \A v \in Workers \ {w} : pc'[v] = pc[v]
    BY DEF Start, Goto, TypeOK
  <2>3. \A c \in Jobs \X Steps : c # Cont(w) => container'[c] = container[c]
    BY StartContainer
  <2> QED
    BY <2>1, <2>2, <2>3 DEF ContainersKnown
<1>4. WorkspacesKnown'
  BY DEF Start, Goto, SetContainer, workerVars, WorkspacesKnown, WorkspaceRemoved, AtWork, TypeOK
<1>5. SuccessHonest'
  <2>1. \A v \in Workers : Cont(v)' = Cont(v) /\ kind'[v] = kind[v] /\ proc'[v] = proc[v]
    BY DEF Start, workerVars, Cont
  <2>2. result'[w] # "success" /\ \A v \in Workers \ {w} : pc'[v] = pc[v] /\ result'[v] = result[v]
    BY ZenonT(30) DEF Start, Goto, TypeOK, AtWork, Running
  <2>3. ASSUME NEW v \in Workers \ {w}, pc[v] = "remove"
        PROVE  container'[Cont(v)] = container[Cont(v)]
    <3>1. job[v] # job[w] /\ Cont(v) \in Jobs \X Steps
      BY <2>3 DEF Start, AtWork, TypeOK, Running, Cont
    <3>2. Cont(v) # Cont(w)
      BY <3>1 DEF Cont
    <3> QED
      BY <3>1, <3>2, StartContainer
  <2> QED
    BY <2>1, <2>2, <2>3 DEF SuccessHonest
<1>6. StepsApart'
  BY DEF Start, Goto, SetContainer, workerVars, StepsApart, AtWork, TypeOK
<1> QED
  BY <1>1, <1>2, <1>3, <1>4, <1>5, <1>6

LEMMA StreamLogsKeeps ==
  ASSUME StepInv, NEW w \in Workers, StreamLogs(w)
  PROVE  StepInv'
<1> USE Values DEF StepInv
<1>1. TypeOK'
  BY DEF StreamLogs, Goto, workerVars, hostVars, TypeOK
<1>2. AtWork'
  BY DEF StreamLogs, Goto, workerVars, hostVars, AtWork, TypeOK, Running
<1>3. ContainersKnown'
  BY DEF StreamLogs, Goto, workerVars, hostVars, ContainersKnown, AtWork, TypeOK, Cont
<1>4. WorkspacesKnown'
  BY DEF StreamLogs, Goto, workerVars, hostVars, WorkspacesKnown, WorkspaceRemoved, AtWork, TypeOK
<1>5. SuccessHonest'
  BY DEF StreamLogs, Goto, workerVars, hostVars, SuccessHonest, AtWork, TypeOK, Cont, Running
<1>6. StepsApart'
  BY DEF StreamLogs, Goto, workerVars, hostVars, StepsApart, AtWork, TypeOK
<1> QED
  BY <1>1, <1>2, <1>3, <1>4, <1>5, <1>6

LEMMA WaitKeeps ==
  ASSUME StepInv, NEW w \in Workers, Wait(w)
  PROVE  StepInv'
<1> USE Values DEF StepInv
<1>1. TypeOK'
  BY DEF Wait, ContainerWait, Statuses, Goto, Outcome, workerVars, hostVars, TypeOK
<1>2. AtWork'
  BY DEF Wait, ContainerWait, Statuses, Goto, Outcome, workerVars, hostVars, AtWork, TypeOK, Running
<1>3. ContainersKnown'
  BY DEF Wait, ContainerWait, Statuses, Goto, Outcome, workerVars, hostVars, ContainersKnown, AtWork, TypeOK, Cont
<1>4. WorkspacesKnown'
  BY DEF Wait, ContainerWait, Statuses, Goto, Outcome, workerVars, hostVars, WorkspacesKnown, WorkspaceRemoved, AtWork, TypeOK
<1>5. SuccessHonest'
  <2>1. UNCHANGED container /\ \A v \in Workers : Cont(v)' = Cont(v) /\ UNCHANGED <<kind, proc>>
    BY DEF Wait, ContainerWait, Statuses, workerVars, hostVars, Cont
  <2>2. \A v \in Workers \ {w} : pc'[v] = pc[v] /\ result'[v] = result[v]
    BY DEF Wait, ContainerWait, Statuses, Goto, TypeOK
  <2>3. kind[w] = "docker" /\ (result'[w] = "success" => container[Cont(w)] = "zero")
    BY DEF Wait, ContainerWait, Statuses, Outcome, AtWork, TypeOK
  <2> QED
    BY <2>1, <2>2, <2>3 DEF SuccessHonest
<1>6. StepsApart'
  BY DEF Wait, ContainerWait, Statuses, Goto, Outcome, workerVars, hostVars, StepsApart, AtWork, TypeOK
<1> QED
  BY <1>1, <1>2, <1>3, <1>4, <1>5, <1>6

LEMMA RemoveKeeps ==
  ASSUME StepInv, NEW w \in Workers, ContainerRemove(w)
  PROVE  StepInv'
<1> USE Values DEF StepInv
<1>1. TypeOK'
  <2>1. Cont(w) \in Jobs \X Steps
    BY DEF ContainerRemove, AtWork, TypeOK, Running, Cont
  <2> QED
    BY <2>1 DEF ContainerRemove, Goto, SetContainer, workerVars, TypeOK
<1>2. AtWork'
  BY DEF ContainerRemove, Goto, SetContainer, workerVars, AtWork, TypeOK, Running
<1>3. ContainersKnown'
  <2>1. \A v \in Workers : Cont(v)' = Cont(v)
    BY DEF ContainerRemove, workerVars, Cont
  <2>2. stray \subseteq stray' /\ \A v \in Workers \ {w} : pc'[v] = pc[v]
    BY DEF ContainerRemove, Goto, TypeOK
  <2>3. \A c \in Jobs \X Steps :
          IF c = Cont(w) THEN container'[c] = "none" \/ c \in stray' ELSE container'[c] = container[c]
    BY DEF ContainerRemove, SetContainer, TypeOK
  <2> QED
    BY <2>1, <2>2, <2>3 DEF ContainersKnown
<1>4. WorkspacesKnown'
  BY DEF ContainerRemove, Goto, SetContainer, workerVars, WorkspacesKnown, WorkspaceRemoved, AtWork, TypeOK
<1>5. SuccessHonest'
  BY DEF ContainerRemove, Goto, SetContainer, workerVars, SuccessHonest, AtWork, TypeOK, Cont, Running
<1>6. StepsApart'
  BY DEF ContainerRemove, Goto, SetContainer, workerVars, StepsApart, AtWork, TypeOK
<1> QED
  BY <1>1, <1>2, <1>3, <1>4, <1>5, <1>6

LEMMA ContainerExitsKeeps ==
  ASSUME StepInv, NEW c \in Jobs \X Steps, ContainerExits(c)
  PROVE  StepInv'
<1> USE Values DEF StepInv
<1>1. TypeOK'
  BY DEF ContainerExits, workerVars, TypeOK
<1>2. UNCHANGED <<pc, kind, job, step, ctxDone, result, dirs, proc, child, stray, littered>>
  BY DEF ContainerExits, workerVars
<1>3. /\ container[c] = "running"
      /\ \A d \in Jobs \X Steps : d # c => container'[d] = container[d]
  BY DEF ContainerExits, TypeOK
<1>4. AtWork' /\ WorkspacesKnown' /\ StepsApart'
  BY <1>2 DEF AtWork, Running, WorkspacesKnown, WorkspaceRemoved, StepsApart
<1>5. ContainersKnown'
  BY <1>2, <1>3 DEF ContainersKnown, Cont
<1>6. SuccessHonest'
  <2>1. ASSUME NEW w \in Workers, result[w] = "success", pc[w] = "remove"
        PROVE  container'[Cont(w)] = "zero"
    <3>1. Cont(w) \in Jobs \X Steps
      BY <2>1 DEF AtWork, TypeOK, Running, Cont
    <3>2. container[Cont(w)] = "zero"
      BY <2>1 DEF SuccessHonest
    <3> QED
      BY <1>3, <3>1, <3>2
  <2> QED
    BY <1>2, <2>1 DEF SuccessHonest, Cont
<1> QED
  BY <1>1, <1>4, <1>5, <1>6

LEMMA CrashKeeps ==
  ASSUME StepInv, Crash
  PROVE  StepInv'
<1> USE Values DEF StepInv
<1>1. TypeOK'
  BY DEF Crash, TypeOK
<1>2. AtWork'
  BY DEF Crash, AtWork, Running
<1>3. ContainersKnown' /\ WorkspacesKnown'
  BY DEF Crash, TypeOK, ContainersKnown, WorkspacesKnown, WorkspaceRemoved
<1>4. SuccessHonest' /\ StepsApart'
  BY DEF Crash, SuccessHonest, StepsApart
<1> QED
  BY <1>1, <1>2, <1>3, <1>4

-----------------------------------------------------------------------------
\* The invariant behind the results below: a container has a step that knows it, a
\* workspace a job, and no two workers have the same job, on every path through an
\* executor.
THEOREM StepInvariant == Spec => []StepInv
<1>1. StepInv /\ UNCHANGED vars => StepInv'
  BY DEF vars, StepInv, TypeOK, AtWork, Running, ContainersKnown, Cont, WorkspacesKnown,
         WorkspaceRemoved, SuccessHonest, StepsApart
<1>2. StepInv /\ Next => StepInv'
  BY NewKeeps, PrepareShellKeeps, PrepareDockerKeeps, PrepareScaffoldKeeps, EndJobKeeps,
     CleanupKeeps, BeginStepKeeps, CtxEndsKeeps, SpawnKeeps, ShellActsKeeps, ChildEndsKeeps,
     KillShellKeeps, ShellReturnsKeeps, PullKeeps, CreateKeeps, StartKeeps, StreamLogsKeeps,
     WaitKeeps, RemoveKeeps, ContainerExitsKeeps, CrashKeeps
  DEF Next, RunStep
<1> QED
  BY <1>1, <1>2, InitSteps, PTL DEF Spec

\* Every way out of Run after the container was created removes it, or nobody could.
THEOREM NoContainerForgotten == Spec => []ContainersRemoved
<1>1. StepInv => ContainersRemoved
  BY Values DEF StepInv, AtWork, ContainersKnown, ContainersRemoved, Running
<1> QED
  BY <1>1, StepInvariant, PTL

\* A workspace the shell executor made is gone when its job is over.
THEOREM NoWorkspaceForgotten == Spec => []WorkspaceRemoved
<1>1. StepInv => WorkspaceRemoved
  BY DEF StepInv, WorkspacesKnown
<1> QED
  BY <1>1, StepInvariant, PTL

\* A step that was killed, timed out or failed is never reported as a success.
THEOREM SuccessIsHonest == Spec => []SuccessHonest
<1>1. StepInv => SuccessHonest
  BY DEF StepInv
<1> QED
  BY <1>1, StepInvariant, PTL

\* No background process of a step outlives the call of Run that started it.
THEOREM StepsDoNotOverlap == Spec => []StepsApart
<1>1. StepInv => StepsApart
  BY DEF StepInv
<1> QED
  BY <1>1, StepInvariant, PTL

-----------------------------------------------------------------------------
\* Masker.  Induction.

\* Induction over the naturals, for a set of them.
LEMMA InductNat ==
  ASSUME NEW S, 0 \in S, \A n \in Nat : n \in S => n + 1 \in S
  PROVE  \A n \in Nat : n \in S
<1> DEFINE Less == {ss \in Nat \X Nat : ss[1] < ss[2]}
           Out == {n \in Nat : n \notin S}
<1>1. IsWellFoundedOn(Less, Nat)
  BY NatLessThanWellFounded, Zenon DEF OpToRel
<1> HIDE DEF Less
<1>2. SUFFICES ASSUME Out # {}
               PROVE  FALSE
  OBVIOUS
<1>3. PICK x \in Out : \A y \in Out : ~(<<y, x>> \in Less)
  <2>1. Out \subseteq Nat
    OBVIOUS
  <2> HIDE DEF Out
  <2> QED
    BY <1>1, <1>2, <2>1, WFMin
<1>4. x \in Nat \ {0} /\ x - 1 \in Nat /\ x - 1 < x
  BY <1>3
<1>5. x - 1 \notin Out
  BY <1>3, <1>4 DEF Less
<1> QED
  BY <1>3, <1>4, <1>5

\* From n down to 0.
LEMMA InductDown ==
  ASSUME NEW S, NEW n \in Nat, n \in S,
         \A i \in 0..(n - 1) : (\A j \in (i + 1)..n : j \in S) => i \in S
  PROVE  \A i \in 0..n : i \in S
<1> DEFINE Good == {k \in Nat : \A i \in 0..n : i >= n - k => i \in S}
<1>1. 0 \in Good
  OBVIOUS
<1>2. ASSUME NEW k \in Nat, k \in Good
      PROVE  k + 1 \in Good
  <2>1. ASSUME NEW i \in 0..n, i >= n - (k + 1)
        PROVE  i \in S
    <3>1. CASE i = n
      BY <3>1
    <3>2. CASE i < n
      <4>1. i \in 0..(n - 1) /\ \A j \in (i + 1)..n : j \in 0..n /\ j >= n - k
        BY <3>2, <2>1
      <4>2. \A j \in (i + 1)..n : j \in S
        BY <4>1, <1>2
      <4> QED
        BY <4>1, <4>2
    <3> QED
      BY <3>1, <3>2
  <2> QED
    BY <2>1
<1> HIDE DEF Good
<1>3. n \in Good
  BY <1>1, <1>2, InductNat
<1> QED
  BY <1>3 DEF Good

-----------------------------------------------------------------------------
\* Masking one pattern.

Matches(s, p, i) == i + Len(p) - 1 <= Len(s) /\ SubSeq(s, i, i + Len(p) - 1) = p

LEMMA MatchByToken ==
  ASSUME NEW s \in Text, NEW p \in Text, NEW i \in 1..Len(s), i + Len(p) - 1 <= Len(s)
  PROVE  Matches(s, p, i) <=> \A k \in 1..Len(p) : s[i + k - 1] = p[k]
<1> DEFINE q == SubSeq(s, i, i + Len(p) - 1)
<1>0. Len(s) \in Nat /\ Len(p) \in Nat /\ i + Len(p) - 1 \in Int
  BY LenProperties DEF Text
<1>1. \A k \in i..(i + Len(p) - 1) : s[k] \in Tokens
  BY <1>0, ElementOfSeq DEF Text
<1>2. /\ q \in Seq(Tokens)
      /\ Len(q) = IF i <= i + Len(p) - 1 THEN i + Len(p) - 1 - i + 1 ELSE 0
      /\ \A k \in 1..(i + Len(p) - 1 - i + 1) : q[k] = s[i + k - 1]
  BY <1>0, <1>1, SubSeqProperties
<1>3. Len(q) = Len(p) /\ \A k \in 1..Len(p) : q[k] = s[i + k - 1]
  BY <1>0, <1>2
<1> HIDE DEF q
<1>4. q = p <=> \A k \in 1..Len(p) : q[k] = p[k]
  BY <1>2, <1>3, SeqEqual DEF Text
<1> QED
  BY <1>3, <1>4 DEF Matches, q

\* What MaskPattern yields from position i on, given what it yields further on.
From(s, p, r, i) ==
  IF i > Len(s) THEN <<>>
  ELSE IF Matches(s, p, i) THEN <<Mask>> \o r[i + Len(p)]
  ELSE <<s[i]>> \o r[i + 1]

LEMMA MaskIsToken == Newline \in Tokens /\ Mask \in Tokens
  BY MaskerAssumption

LEMMA EmptyText == <<>> \in Text
  BY EmptySeq DEF Text

LEMMA SingleText ==
  ASSUME NEW t \in Tokens, NEW s \in Text
  PROVE  <<t>> \in Text /\ <<t>> \o s \in Text
  BY ConcatProperties DEF Text

LEMMA PrependConcat ==
  ASSUME NEW t \in Tokens, NEW u \in Text, NEW v \in Text
  PROVE  <<t>> \o (u \o v) = (<<t>> \o u) \o v
<1>1. <<t>> \in Seq(Tokens) /\ u \in Seq(Tokens) /\ v \in Seq(Tokens)
  BY SingleText DEF Text
<1> QED
  BY <1>1, ConcatAssociative

LEMMA FromText ==
  ASSUME NEW s \in Text, NEW p \in Text \ {<<>>}, NEW i \in 1..(Len(s) + 1), NEW r,
         \A j \in (i + 1)..(Len(s) + 1) : r[j] \in Text
  PROVE  From(s, p, r, i) \in Text
<1>0. Len(s) \in Nat /\ Len(p) \in Nat \ {0}
  BY LenProperties, EmptySeq DEF Text
<1>1. CASE i > Len(s)
  BY <1>1, EmptyText DEF From
<1>2. CASE i <= Len(s) /\ Matches(s, p, i)
  <2>1. i + Len(p) \in (i + 1)..(Len(s) + 1)
    BY <1>0, <1>2 DEF Matches
  <2> QED
    BY <1>0, <1>2, <2>1, MaskIsToken, SingleText DEF From
<1>3. CASE i <= Len(s) /\ ~Matches(s, p, i)
  <2>1. i + 1 \in (i + 1)..(Len(s) + 1) /\ s[i] \in Tokens
    BY <1>0, <1>3, ElementOfSeq DEF Text
  <2> QED
    BY <1>0, <1>3, <2>1, SingleText DEF From
<1> QED
  BY <1>0, <1>1, <1>2, <1>3

Solves(s, p, r) == r = [i \in 1..(Len(s) + 1) |-> From(s, p, r, i)]

LEMMA SolutionText ==
  ASSUME NEW s \in Text, NEW p \in Text \ {<<>>}, NEW r, Solves(s, p, r)
  PROVE  r \in [1..(Len(s) + 1) -> Text]
<1> DEFINE n == Len(s) + 1
           S == {i \in 0..n : i = 0 \/ r[i] \in Text}
<1>0. Len(s) \in Nat
  BY LenProperties DEF Text
<1>1. \A i \in 1..n : r[i] = From(s, p, r, i)
  BY DEF Solves
<1>2. n \in S
  <2>1. From(s, p, r, n) = <<>>
    BY <1>0 DEF From
  <2> QED
    BY <1>0, <1>1, <2>1, EmptyText
<1>3. ASSUME NEW i \in 0..(n - 1), \A j \in (i + 1)..n : j \in S
      PROVE  i \in S
  <2>1. CASE i = 0
    BY <1>0, <2>1
  <2>2. CASE i # 0
    <3>1. \A j \in (i + 1)..n : r[j] \in Text
      BY <1>0, <1>3, <2>2
    <3>2. i \in 1..n
      BY <1>0, <2>2
    <3>3. From(s, p, r, i) \in Text
      BY <3>1, <3>2, FromText
    <3> QED
      BY <1>0, <1>1, <3>2, <3>3
  <2> QED
    BY <2>1, <2>2
<1> HIDE DEF S
<1>4. \A i \in 0..n : i \in S
  BY <1>0, <1>2, <1>3, InductDown
<1>5. \A i \in 1..n : r[i] \in Text
  BY <1>0, <1>4 DEF S
<1> QED
  BY <1>5 DEF Solves

\* What is to the right of i does not depend on r at or to the left of it.
LEMMA FromRight ==
  ASSUME NEW s \in Text, NEW p \in Text \ {<<>>}, NEW i \in 1..(Len(s) + 1), NEW r, NEW q,
         \A j \in (i + 1)..(Len(s) + 1) : r[j] = q[j]
  PROVE  From(s, p, r, i) = From(s, p, q, i)
<1>0. Len(s) \in Nat /\ Len(p) \in Nat \ {0}
  BY LenProperties, EmptySeq DEF Text
<1>1. i <= Len(s) /\ Matches(s, p, i) => i + Len(p) \in (i + 1)..(Len(s) + 1)
  BY <1>0 DEF Matches
<1>2. i <= Len(s) => i + 1 \in (i + 1)..(Len(s) + 1)
  BY <1>0
<1> QED
  BY <1>0, <1>1, <1>2 DEF From

LEMMA SolutionExists ==
  ASSUME NEW s \in Text, NEW p \in Text \ {<<>>}
  PROVE  \E r : Solves(s, p, r)
<1> DEFINE n == Len(s) + 1
           S == {k \in 0..n : \E r \in [k..n -> Text] :
                                 \A i \in k..n : i >= 1 => r[i] = From(s, p, r, i)}
<1>0. Len(s) \in Nat
  BY LenProperties DEF Text
<1>1. n \in S
  <2> DEFINE r == [i \in n..n |-> <<>>]
  <2>1. r \in [n..n -> Text]
    BY EmptyText
  <2>2. \A i \in n..n : r[i] = From(s, p, r, i)
    BY <1>0 DEF From
  <2> HIDE DEF r
  <2> QED
    BY <1>0, <2>1, <2>2
<1>2. ASSUME NEW k \in 0..(n - 1), \A j \in (k + 1)..n : j \in S
      PROVE  k \in S
  <2>1. k + 1 \in (k + 1)..n
    BY <1>0
  <2>2. PICK q \in [(k + 1)..n -> Text] :
               \A i \in (k + 1)..n : i >= 1 => q[i] = From(s, p, q, i)
    BY <1>2, <2>1
  <2> DEFINE r == [i \in k..n |-> IF i = k THEN IF k = 0 THEN <<>> ELSE From(s, p, q, k) ELSE q[i]]
  <2>3. \A i \in (k + 1)..n : i \in k..n /\ r[i] = q[i] /\ q[i] \in Text
    BY <1>0, <2>2
  <2>4. k # 0 => From(s, p, q, k) \in Text
    BY <1>0, <2>3, FromText
  <2>5. r \in [k..n -> Text]
    BY <1>0, <2>3, <2>4, EmptyText
  <2>6. ASSUME NEW i \in k..n, i >= 1
        PROVE  r[i] = From(s, p, r, i)
    <3>1. \A j \in (i + 1)..n : r[j] = q[j]
      BY <1>0, <2>3
    <3>2. i \in 1..n
      BY <1>0, <2>6
    <3>3. r[i] = From(s, p, q, i)
      BY <1>0, <2>2, <2>3, <2>6
    <3> HIDE DEF r
    <3> QED
      BY <3>1, <3>2, <3>3, FromRight
  <2> HIDE DEF r
  <2> QED
    BY <1>0, <2>5, <2>6
<1>3. 0 \in S
  <2> HIDE DEF S
  <2>1. \A i \in 0..n : i \in S
    BY <1>0, <1>1, <1>2, InductDown
  <2> QED
    BY <1>0, <2>1
<1>4. PICK f \in [0..n -> Text] : \A i \in 0..n : i >= 1 => f[i] = From(s, p, f, i)
  BY <1>3
<1> DEFINE g == [i \in 1..n |-> f[i]]
<1>5. DOMAIN g = 1..n /\ g = [i \in 1..n |-> g[i]] /\ \A i \in 1..n : g[i] = f[i]
  OBVIOUS
<1> HIDE DEF g
<1>6. ASSUME NEW i \in 1..n
      PROVE  g[i] = From(s, p, g, i)
  <2>1. \A j \in (i + 1)..n : g[j] = f[j]
    BY <1>0, <1>5
  <2>2. i \in 1..(Len(s) + 1) /\ \A j \in (i + 1)..(Len(s) + 1) : g[j] = f[j]
    BY <2>1
  <2>3. From(s, p, g, i) = From(s, p, f, i)
    BY <2>2, FromRight
  <2> QED
    BY <1>0, <1>4, <1>5, <2>3
<1>7. Solves(s, p, g)
  BY <1>5, <1>6, Zenon DEF Solves
<1> QED
  BY <1>7

\* What MaskPattern yields from each position on, and at the end.
Masking(s, p, r) ==
  /\ r \in [1..(Len(s) + 1) -> Text]
  /\ r[Len(s) + 1] = <<>>
  /\ \A i \in 1..Len(s) : Matches(s, p, i) => r[i] = <<Mask>> \o r[i + Len(p)]
  /\ \A i \in 1..Len(s) : ~ Matches(s, p, i) => r[i] = <<s[i]>> \o r[i + 1]

LEMMA MaskRun ==
  ASSUME NEW s \in Text, NEW p \in Text \ {<<>>}
  PROVE  \E r : Masking(s, p, r) /\ MaskPattern(s, p) = r[1]
<1> DEFINE r == CHOOSE r : Solves(s, p, r)
<1>1. Solves(s, p, r)
  BY SolutionExists
<1>2. MaskPattern(s, p) = r[1]
  BY Zenon DEF MaskPattern, Solves, From, Matches
<1> HIDE DEF r
<1>3. r \in [1..(Len(s) + 1) -> Text]
  BY <1>1, SolutionText
<1>4. \A i \in 1..(Len(s) + 1) : r[i] = From(s, p, r, i)
  BY <1>1 DEF Solves
<1>5. Len(s) \in Nat
  BY LenProperties DEF Text
<1>6. r[Len(s) + 1] = <<>>
  <2>1. Len(s) + 1 \in 1..(Len(s) + 1) /\ Len(s) + 1 > Len(s)
    BY <1>5
  <2> QED
    BY <1>4, <2>1, Zenon DEF From
<1>7. \A i \in 1..Len(s) : i \in 1..(Len(s) + 1) /\ ~(i > Len(s))
  BY <1>5
<1>8. ASSUME NEW i \in 1..Len(s)
      PROVE  r[i] = IF Matches(s, p, i) THEN <<Mask>> \o r[i + Len(p)] ELSE <<s[i]>> \o r[i + 1]
  <2>1. r[i] = From(s, p, r, i) /\ ~(i > Len(s))
    BY <1>4, <1>7
  <2> QED
    BY <2>1, Zenon DEF From
<1>9. Masking(s, p, r)
  BY <1>3, <1>6, <1>8, Zenon DEF Masking
<1> QED
  BY <1>2, <1>9

LEMMA MaskPatternText ==
  ASSUME NEW s \in Text, NEW p \in Text \ {<<>>}
  PROVE  MaskPattern(s, p) \in Text
<1>1. PICK r : r \in [1..(Len(s) + 1) -> Text] /\ MaskPattern(s, p) = r[1]
  BY MaskRun DEF Masking
<1>2. 1 \in 1..(Len(s) + 1)
  BY LenProperties DEF Text
<1> QED
  BY <1>1, <1>2

LEMMA MaskNothing ==
  ASSUME NEW p \in Text \ {<<>>}
  PROVE  MaskPattern(<<>>, p) = <<>>
<1>1. PICK r : r[Len(<<>>) + 1] = <<>> /\ MaskPattern(<<>>, p) = r[1]
  BY EmptyText, MaskRun DEF Masking
<1>2. Len(<<>>) = 0
  BY EmptySeq
<1> QED
  BY <1>1, <1>2

\* Text that ends a line.
Line(s) == s # <<>> /\ s[Len(s)] = Newline

LEMMA LineLen ==
  ASSUME NEW s \in Text, Line(s)
  PROVE  Len(s) \in Nat \ {0} /\ s[Len(s)] = Newline
  BY EmptySeq DEF Line, Text

LEMMA LineOfConcat ==
  ASSUME NEW s \in Text, NEW t \in Text, Line(t)
  PROVE  s \o t \in Text /\ Line(s \o t)
<1>1. Len(t) \in Nat \ {0} /\ Len(s) \in Nat
  BY LineLen, LenProperties DEF Text
<1>2. /\ s \o t \in Text
      /\ Len(s \o t) = Len(s) + Len(t)
      /\ \A i \in 1..(Len(s) + Len(t)) : (s \o t)[i] = IF i <= Len(s) THEN s[i] ELSE t[i - Len(s)]
  BY ConcatProperties DEF Text
<1>3. (s \o t)[Len(s \o t)] = t[Len(t)]
  BY <1>1, <1>2
<1>4. s \o t # <<>>
  BY <1>1, <1>2, EmptySeq
<1> QED
  BY <1>2, <1>3, <1>4 DEF Line

\* A pattern within one line does not match across the end of one.
LEMMA NoMatchAcross ==
  ASSUME NEW s \in Text, NEW p \in Text \ {<<>>}, ~ Contains(p, Newline), NEW i \in 1..Len(s),
         NEW k \in i..Len(s), s[k] = Newline, Matches(s, p, i)
  PROVE  i + Len(p) <= k
<1>0. Len(s) \in Nat /\ Len(p) \in Nat \ {0}
  BY LenProperties, EmptySeq DEF Text
<1>1. \A j \in 1..Len(p) : s[i + j - 1] = p[j]
  BY MatchByToken DEF Matches
<1>2. SUFFICES ASSUME k < i + Len(p)
               PROVE  FALSE
  BY <1>0
<1>3. k - i + 1 \in 1..Len(p) /\ i + (k - i + 1) - 1 = k
  BY <1>0, <1>2
<1>4. p[k - i + 1] = Newline
  BY <1>1, <1>3
<1> QED
  BY <1>3, <1>4 DEF Contains

\* Masking keeps the end of a line.
LEMMA MaskLine ==
  ASSUME NEW u \in Text, NEW p \in Text \ {<<>>}, ~ Contains(p, Newline), Line(u)
  PROVE  MaskPattern(u, p) \in Text /\ Line(MaskPattern(u, p))
<1>0. Len(u) \in Nat \ {0} /\ u[Len(u)] = Newline /\ Len(p) \in Nat \ {0}
  BY LineLen, EmptySeq DEF Text
<1>1. PICK r :
             /\ r \in [1..(Len(u) + 1) -> Text]
             /\ r[Len(u) + 1] = <<>>
             /\ \A i \in 1..Len(u) : Matches(u, p, i) => r[i] = <<Mask>> \o r[i + Len(p)]
             /\ \A i \in 1..Len(u) : ~ Matches(u, p, i) => r[i] = <<u[i]>> \o r[i + 1]
             /\ MaskPattern(u, p) = r[1]
  BY MaskRun DEF Masking
<1> DEFINE S == {i \in 0..Len(u) : i = 0 \/ Line(r[i])}
<1>2. Len(u) \in S
  <2>1. ~ Matches(u, p, Len(u))
    <3>1. Len(u) \in 1..Len(u) /\ Len(u) \in Len(u)..Len(u)
      BY <1>0
    <3>2. Matches(u, p, Len(u)) => Len(u) + Len(p) <= Len(u)
      BY <1>0, <3>1, NoMatchAcross
    <3> QED
      BY <1>0, <3>2
  <2>2. r[Len(u)] = <<Newline>> \o <<>>
    <3>1. Len(u) \in 1..Len(u)
      BY <1>0
    <3>2. r[Len(u)] = <<u[Len(u)]>> \o r[Len(u) + 1]
      BY <1>1, <2>1, <3>1
    <3> QED
      BY <1>0, <1>1, <3>2, Zenon
  <2>3. <<Newline>> \in Text /\ <<Newline>> \o <<>> = <<Newline>>
    BY MaskIsToken, SingleText, EmptyText, ConcatEmptySeq DEF Text
  <2>4. Line(<<Newline>>)
    BY DEF Line
  <2> QED
    BY <1>0, <2>2, <2>3, <2>4
<1>3. ASSUME NEW i \in 0..(Len(u) - 1), \A j \in (i + 1)..Len(u) : j \in S
      PROVE  i \in S
  <2>1. CASE i = 0
    BY <1>0, <2>1
  <2>2. CASE i # 0
    <3>0. i \in 1..Len(u) /\ i \in 1..(Len(u) + 1) /\ Len(u) \in i..Len(u) /\ i < Len(u)
      BY <1>0, <2>2
    <3>1. \A j \in (i + 1)..Len(u) : Line(r[j]) /\ r[j] \in Text
      BY <1>0, <1>1, <1>3, <2>2
    <3>2. CASE Matches(u, p, i)
      <4>1. i + Len(p) <= Len(u)
        BY <1>0, <3>0, <3>2, NoMatchAcross
      <4>2. i + Len(p) \in (i + 1)..Len(u)
        BY <1>0, <3>0, <4>1
      <4>3. r[i] = <<Mask>> \o r[i + Len(p)]
        BY <1>1, <3>0, <3>2
      <4>4. Line(r[i])
        BY <3>1, <4>2, <4>3, MaskIsToken, SingleText, LineOfConcat
      <4> QED
        BY <1>0, <4>4
    <3>3. CASE ~ Matches(u, p, i)
      <4>1. i + 1 \in (i + 1)..Len(u) /\ u[i] \in Tokens
        BY <1>0, <3>0, ElementOfSeq DEF Text
      <4>2. r[i] = <<u[i]>> \o r[i + 1]
        BY <1>1, <3>0, <3>3
      <4>3. Line(r[i])
        BY <3>1, <4>1, <4>2, SingleText, LineOfConcat
      <4> QED
        BY <1>0, <4>3
    <3> QED
      BY <3>2, <3>3
  <2> QED
    BY <2>1, <2>2
<1> HIDE DEF S
<1>4. \A i \in 0..Len(u) : i \in S
  BY <1>0, <1>2, <1>3, InductDown
<1>5. Line(r[1])
  BY <1>0, <1>4 DEF S
<1> QED
  BY <1>1, <1>5, MaskPatternText

\* A match in a part of the text is a match in all of it, and the other way round.
LEMMA MatchInTail ==
  ASSUME NEW u \in Text, NEW v \in Text, NEW p \in Text \ {<<>>}, NEW i \in 1..Len(v)
  PROVE  Matches(u \o v, p, Len(u) + i) <=> Matches(v, p, i)
<1>0. Len(u) \in Nat /\ Len(v) \in Nat /\ Len(p) \in Nat \ {0}
  BY LenProperties, EmptySeq DEF Text
<1>1. /\ u \o v \in Text
      /\ Len(u \o v) = Len(u) + Len(v)
      /\ \A k \in 1..(Len(u) + Len(v)) : (u \o v)[k] = IF k <= Len(u) THEN u[k] ELSE v[k - Len(u)]
  BY ConcatProperties DEF Text
<1>2. CASE i + Len(p) - 1 <= Len(v)
  <2>1. Len(u) + i \in 1..Len(u \o v) /\ Len(u) + i + Len(p) - 1 <= Len(u \o v)
    BY <1>0, <1>1, <1>2
  <2>2. \A k \in 1..Len(p) : (u \o v)[Len(u) + i + k - 1] = v[i + k - 1]
    BY <1>0, <1>1, <1>2
  <2>3. Matches(u \o v, p, Len(u) + i) <=> \A k \in 1..Len(p) : (u \o v)[Len(u) + i + k - 1] = p[k]
    BY <1>1, <2>1, MatchByToken
  <2>4. Matches(v, p, i) <=> \A k \in 1..Len(p) : v[i + k - 1] = p[k]
    BY <1>2, MatchByToken
  <2> QED
    BY <2>2, <2>3, <2>4, Zenon
<1>3. CASE ~(i + Len(p) - 1 <= Len(v))
  BY <1>0, <1>1, <1>3 DEF Matches
<1> QED
  BY <1>2, <1>3

LEMMA MatchInLine ==
  ASSUME NEW u \in Text, NEW v \in Text, NEW p \in Text \ {<<>>}, ~ Contains(p, Newline), Line(u),
         NEW i \in 1..Len(u)
  PROVE  Matches(u \o v, p, i) <=> Matches(u, p, i)
<1>0. Len(u) \in Nat \ {0} /\ Len(v) \in Nat /\ Len(p) \in Nat \ {0} /\ u[Len(u)] = Newline
  BY LineLen, LenProperties, EmptySeq DEF Text
<1>1. /\ u \o v \in Text
      /\ Len(u \o v) = Len(u) + Len(v)
      /\ \A k \in 1..(Len(u) + Len(v)) : (u \o v)[k] = IF k <= Len(u) THEN u[k] ELSE v[k - Len(u)]
  BY ConcatProperties DEF Text
<1>2. CASE i + Len(p) - 1 <= Len(u)
  <2>1. i \in 1..Len(u \o v) /\ i + Len(p) - 1 <= Len(u \o v)
    BY <1>0, <1>1, <1>2
  <2>2. \A k \in 1..Len(p) : (u \o v)[i + k - 1] = u[i + k - 1]
    BY <1>0, <1>1, <1>2
  <2>3. Matches(u \o v, p, i) <=> \A k \in 1..Len(p) : (u \o v)[i + k - 1] = p[k]
    BY <1>1, <2>1, MatchByToken
  <2>4. Matches(u, p, i) <=> \A k \in 1..Len(p) : u[i + k - 1] = p[k]
    BY <1>2, MatchByToken
  <2> QED
    BY <2>2, <2>3, <2>4, Zenon
<1>3. CASE ~(i + Len(p) - 1 <= Len(u))
  <2>1. i \in 1..Len(u \o v) /\ Len(u) \in i..Len(u \o v) /\ (u \o v)[Len(u)] = Newline
    BY <1>0, <1>1
  <2>2. Matches(u \o v, p, i) => i + Len(p) <= Len(u)
    BY <1>1, <2>1, NoMatchAcross
  <2>3. ~ Matches(u, p, i)
    BY <1>3 DEF Matches
  <2> QED
    BY <1>0, <1>3, <2>2, <2>3
<1> QED
  BY <1>2, <1>3

\* Whole lines are masked by themselves.
LEMMA SplitPattern ==
  ASSUME NEW u \in Text, NEW v \in Text, NEW p \in Text \ {<<>>}, ~ Contains(p, Newline), Line(u)
  PROVE  MaskPattern(u \o v, p) = MaskPattern(u, p) \o MaskPattern(v, p)
<1> DEFINE m == Len(u)
           n == Len(v)
<1>0. m \in Nat \ {0} /\ n \in Nat /\ Len(p) \in Nat \ {0}
  BY LineLen, LenProperties, EmptySeq DEF Text
<1>1. /\ u \o v \in Text
      /\ Len(u \o v) = m + n
      /\ \A k \in 1..(m + n) : (u \o v)[k] = IF k <= m THEN u[k] ELSE v[k - m]
  BY ConcatProperties DEF Text
<1>2. PICK r : Masking(u \o v, p, r) /\ MaskPattern(u \o v, p) = r[1]
  BY <1>1, MaskRun
<1>r. /\ r[m + n + 1] = <<>>
      /\ \A i \in 1..(m + n) : Matches(u \o v, p, i) => r[i] = <<Mask>> \o r[i + Len(p)]
      /\ \A i \in 1..(m + n) : ~ Matches(u \o v, p, i) => r[i] = <<(u \o v)[i]>> \o r[i + 1]
  BY <1>1, <1>2 DEF Masking
<1>3. PICK f :
             /\ f \in [1..(m + 1) -> Text]
             /\ f[m + 1] = <<>>
             /\ \A i \in 1..m : Matches(u, p, i) => f[i] = <<Mask>> \o f[i + Len(p)]
             /\ \A i \in 1..m : ~ Matches(u, p, i) => f[i] = <<u[i]>> \o f[i + 1]
             /\ MaskPattern(u, p) = f[1]
  BY MaskRun DEF Masking
<1>4. PICK g :
             /\ g \in [1..(n + 1) -> Text]
             /\ g[n + 1] = <<>>
             /\ \A i \in 1..n : Matches(v, p, i) => g[i] = <<Mask>> \o g[i + Len(p)]
             /\ \A i \in 1..n : ~ Matches(v, p, i) => g[i] = <<v[i]>> \o g[i + 1]
             /\ MaskPattern(v, p) = g[1]
  BY MaskRun DEF Masking
<1> HIDE DEF m, n
<1> DEFINE S == {i \in 0..(n + 1) : i = 0 \/ r[m + i] = g[i]}
<1>5. n + 1 \in S
  <2>1. r[m + (n + 1)] = g[n + 1]
    BY <1>0, <1>r, <1>4
  <2> QED
    BY <1>0, <2>1
<1>6. ASSUME NEW i \in 0..((n + 1) - 1), \A j \in (i + 1)..(n + 1) : j \in S
      PROVE  i \in S
  <2>1. CASE i = 0
    BY <1>0, <2>1
  <2>2. CASE i # 0
    <3>0. i \in 1..n /\ m + i \in 1..(m + n)
      BY <1>0, <2>2
    <3>1. \A j \in (i + 1)..(n + 1) : r[m + j] = g[j]
      BY <1>0, <1>6, <2>2
    <3>2. Matches(u \o v, p, m + i) <=> Matches(v, p, i)
      BY <3>0, MatchInTail DEF m, n
    <3>3. CASE Matches(v, p, i)
      <4>1. i + Len(p) \in (i + 1)..(n + 1)
        BY <1>0, <3>0, <3>3 DEF Matches, n
      <4>2. r[m + (i + Len(p))] = g[i + Len(p)] /\ m + (i + Len(p)) = (m + i) + Len(p)
        BY <1>0, <3>0, <3>1, <4>1
      <4>3. r[m + i] = <<Mask>> \o r[(m + i) + Len(p)]
        BY <1>r, <3>0, <3>2, <3>3
      <4>4. g[i] = <<Mask>> \o g[i + Len(p)]
        BY <1>4, <3>0, <3>3
      <4>5. r[m + i] = g[i]
        BY <4>2, <4>3, <4>4
      <4> QED
        BY <1>0, <4>5
    <3>4. CASE ~ Matches(v, p, i)
      <4>1. i + 1 \in (i + 1)..(n + 1)
        BY <1>0, <3>0
      <4>2. r[m + (i + 1)] = g[i + 1] /\ m + (i + 1) = (m + i) + 1 /\ (u \o v)[m + i] = v[i]
        BY <1>0, <1>1, <3>0, <3>1, <4>1
      <4>3. r[m + i] = <<(u \o v)[m + i]>> \o r[(m + i) + 1]
        BY <1>r, <3>0, <3>2, <3>4
      <4>4. g[i] = <<v[i]>> \o g[i + 1]
        BY <1>4, <3>0, <3>4
      <4>5. r[m + i] = g[i]
        BY <4>2, <4>3, <4>4
      <4> QED
        BY <1>0, <4>5
    <3> QED
      BY <3>3, <3>4
  <2> QED
    BY <2>1, <2>2
<1>7. r[m + 1] = g[1]
  <2> HIDE DEF S
  <2>1. \A i \in 0..(n + 1) : i \in S
    BY <1>0, <1>5, <1>6, InductDown
  <2> QED
    BY <1>0, <2>1 DEF S
<1> DEFINE h == [i \in 1..(m + 1) |-> f[i] \o g[1]]
           T == {i \in 0..(m + 1) : i = 0 \/ r[i] = h[i]}
<1>h. \A i \in 1..(m + 1) : h[i] = f[i] \o g[1]
  OBVIOUS
<1> HIDE DEF h
<1>g. g[1] \in Text /\ <<>> \o g[1] = g[1]
  BY <1>0, <1>4, ConcatEmptySeq DEF Text
<1>8. m + 1 \in T
  <2>1. f[m + 1] = <<>>
    BY <1>3
  <2>2. h[m + 1] = f[m + 1] \o g[1]
    <3>1. m + 1 \in 1..(m + 1)
      BY <1>0
    <3> QED
      BY <1>h, <3>1, Zenon
  <2>3. r[m + 1] = h[m + 1]
    BY <1>7, <1>g, <2>1, <2>2, Zenon
  <2> QED
    BY <1>0, <2>3
<1>9. ASSUME NEW i \in 0..((m + 1) - 1), \A j \in (i + 1)..(m + 1) : j \in T
      PROVE  i \in T
  <2>1. CASE i = 0
    BY <1>0, <2>1
  <2>2. CASE i # 0
    <3>0. i \in 1..m /\ i \in 1..(m + n) /\ i \in 1..(m + 1)
      BY <1>0, <2>2
    <3>1. \A j \in (i + 1)..(m + 1) : r[j] = f[j] \o g[1] /\ f[j] \in Text
      <4>1. \A j \in (i + 1)..(m + 1) : j \in 1..(m + 1) /\ r[j] = h[j]
        BY <1>0, <1>9, <2>2
      <4> QED
        BY <1>3, <1>h, <4>1, Zenon
    <3>2. Matches(u \o v, p, i) <=> Matches(u, p, i)
      BY <3>0, MatchInLine DEF m
    <3>3. CASE Matches(u, p, i)
      <4>1. i + Len(p) \in (i + 1)..(m + 1)
        BY <1>0, <3>0, <3>3 DEF Matches, m
      <4>2. r[i] = <<Mask>> \o r[i + Len(p)]
        BY <1>r, <3>0, <3>2, <3>3
      <4>3. f[i] = <<Mask>> \o f[i + Len(p)]
        BY <1>3, <3>0, <3>3
      <4>4. <<Mask>> \o (f[i + Len(p)] \o g[1]) = (<<Mask>> \o f[i + Len(p)]) \o g[1]
        BY <3>1, <4>1, <1>g, MaskIsToken, PrependConcat
      <4>5. r[i] = h[i]
        BY <1>h, <3>0, <3>1, <4>1, <4>2, <4>3, <4>4
      <4> QED
        BY <1>0, <4>5
    <3>4. CASE ~ Matches(u, p, i)
      <4>1. i + 1 \in (i + 1)..(m + 1) /\ (u \o v)[i] = u[i] /\ u[i] \in Tokens
        BY <1>0, <1>1, <3>0, ElementOfSeq DEF Text, m
      <4>2. r[i] = <<(u \o v)[i]>> \o r[i + 1]
        BY <1>r, <3>0, <3>2, <3>4
      <4>3. f[i] = <<u[i]>> \o f[i + 1]
        BY <1>3, <3>0, <3>4
      <4>4. <<u[i]>> \o (f[i + 1] \o g[1]) = (<<u[i]>> \o f[i + 1]) \o g[1]
        BY <3>1, <4>1, <1>g, PrependConcat
      <4>5. r[i] = h[i]
        BY <1>h, <3>0, <3>1, <4>1, <4>2, <4>3, <4>4
      <4> QED
        BY <1>0, <4>5
    <3> QED
      BY <3>3, <3>4
  <2> QED
    BY <2>1, <2>2
<1>10. r[1] = h[1]
  <2> HIDE DEF T
  <2>1. \A i \in 0..(m + 1) : i \in T
    BY <1>0, <1>8, <1>9, InductDown
  <2> QED
    BY <1>0, <2>1 DEF T
<1>11. h[1] = f[1] \o g[1]
  <2>1. 1 \in 1..(m + 1)
    BY <1>0
  <2> QED
    BY <1>h, <2>1, Zenon
<1> QED
  BY <1>2, <1>3, <1>4, <1>10, <1>11, Zenon

-----------------------------------------------------------------------------
\* Masking all patterns.

\* For each of n steps, what it makes of a text.
Rewritings(n) == [1..n -> [Text -> Text]]

\* A function to text can be defined by what it is at 0 and how it goes on.
LEMMA Iterate ==
  ASSUME NEW n \in Nat, NEW c \in Text, NEW G \in Rewritings(n)
  PROVE  \E f \in [0..n -> Text] : f[0] = c /\ \A i \in 1..n : f[i] = G[i][f[i - 1]]
<1> DEFINE S == {k \in Nat : k <= n => \E f \in [0..k -> Text] :
                                         f[0] = c /\ \A i \in 1..k : f[i] = G[i][f[i - 1]]}
<1>1. 0 \in S
  <2> DEFINE f == [i \in 0..0 |-> c]
  <2>1. f \in [0..0 -> Text] /\ f[0] = c /\ \A i \in 1..0 : f[i] = G[i][f[i - 1]]
    OBVIOUS
  <2> HIDE DEF f
  <2> QED
    BY <2>1
<1>2. ASSUME NEW k \in Nat, k \in S
      PROVE  k + 1 \in S
  <2>1. SUFFICES ASSUME k + 1 <= n
                 PROVE  \E f \in [0..(k + 1) -> Text] :
                          f[0] = c /\ \A i \in 1..(k + 1) : f[i] = G[i][f[i - 1]]
    BY SMTT(30)
  <2>2. PICK g \in [0..k -> Text] : g[0] = c /\ \A i \in 1..k : g[i] = G[i][g[i - 1]]
    BY <1>2, <2>1
  <2> DEFINE f == [i \in 0..(k + 1) |-> IF i = k + 1 THEN G[k + 1][g[k]] ELSE g[i]]
  <2>3. k + 1 \in 1..n /\ k \in 0..k /\ G[k + 1][g[k]] \in Text
    BY <2>1, <2>2 DEF Rewritings
  <2>4. f \in [0..(k + 1) -> Text]
    BY <2>2, <2>3
  <2>5. f[0] = c /\ f[k + 1] = G[k + 1][f[k]]
    BY <2>2, <2>3
  <2>6. \A i \in 1..k : i \in 1..n /\ f[i] = g[i] /\ f[i - 1] = g[i - 1]
    BY <2>1, <2>2
  <2> HIDE DEF f
  <2>7. \A i \in 1..k : f[i] = G[i][f[i - 1]]
    BY <2>2, <2>6
  <2>8. ASSUME NEW i \in 1..(k + 1)
        PROVE  f[i] = G[i][f[i - 1]]
    <3>1. CASE i = k + 1
      BY <2>5, <3>1
    <3>2. CASE i # k + 1
      BY <2>7, <3>2
    <3> QED
      BY <3>1, <3>2
  <2> QED
    BY <2>4, <2>5, <2>8
<1> HIDE DEF S
<1>3. n \in S
  BY <1>1, <1>2, InductNat
<1> QED
  BY <1>3 DEF S

\* What maskString yields after each pattern.
Maskings(s, ps, f) ==
  /\ f \in [0..Len(ps) -> Text]
  /\ f[0] = s
  /\ \A i \in 1..Len(ps) : f[i] = MaskPattern(f[i - 1], ps[i])

MaskSteps(s, ps, f) ==
  f = [i \in 0..Len(ps) |-> IF i = 0 THEN s ELSE MaskPattern(f[i - 1], ps[i])]

Patterns == Seq(Text \ {<<>>})

LEMMA PatternsDef ==
  ASSUME NEW ps \in Patterns
  PROVE  Len(ps) \in Nat /\ \A i \in 1..Len(ps) : ps[i] \in Text \ {<<>>}
  BY LenProperties, ElementOfSeq DEF Patterns

LEMMA MaskStringRun ==
  ASSUME NEW s \in Text, NEW ps \in Patterns
  PROVE  \E f : Maskings(s, ps, f) /\ maskString(s, ps) = f[Len(ps)]
<1> DEFINE n == Len(ps)
<1>0. n \in Nat /\ \A i \in 1..n : ps[i] \in Text \ {<<>>}
  BY PatternsDef
<1> DEFINE G == [i \in 1..n |-> [x \in Text |-> MaskPattern(x, ps[i])]]
<1>1. G \in Rewritings(n)
  BY <1>0, MaskPatternText DEF Rewritings
<1>2. \A i \in 1..n : \A x \in Text : G[i][x] = MaskPattern(x, ps[i])
  OBVIOUS
<1> HIDE DEF G
<1>3. PICK g \in [0..n -> Text] : g[0] = s /\ \A i \in 1..n : g[i] = G[i][g[i - 1]]
  BY <1>0, <1>1, Iterate
<1>4. ASSUME NEW i \in 1..n
      PROVE  g[i] = MaskPattern(g[i - 1], ps[i])
  BY <1>0, <1>2, <1>3
<1>5. MaskSteps(s, ps, g)
  <2>1. g = [i \in 0..n |-> g[i]]
    BY <1>3
  <2>2. \A i \in 0..n : i # 0 => i \in 1..n
    BY <1>0
  <2>3. \A i \in 0..n : g[i] = IF i = 0 THEN s ELSE MaskPattern(g[i - 1], ps[i])
    BY <1>3, <1>4, <2>2, Zenon
  <2> QED
    BY <2>1, <2>3, Zenon DEF MaskSteps
<1> DEFINE f == CHOOSE f : MaskSteps(s, ps, f)
<1>6. MaskSteps(s, ps, f)
  BY <1>5
<1>7. maskString(s, ps) = f[n]
  BY Zenon DEF maskString, MaskSteps
<1> HIDE DEF f
<1>8. \A i \in 0..n : f[i] = IF i = 0 THEN s ELSE MaskPattern(f[i - 1], ps[i])
  BY <1>6, Zenon DEF MaskSteps
<1> DEFINE S == {k \in Nat : k <= n => f[k] \in Text}
<1>9. 0 \in S
  BY <1>0, <1>8
<1>10. ASSUME NEW k \in Nat, k \in S
       PROVE  k + 1 \in S
  <2>1. SUFFICES ASSUME k + 1 <= n
                 PROVE  f[k + 1] \in Text
    OBVIOUS
  <2>2. k + 1 \in 0..n /\ k + 1 # 0 /\ k + 1 - 1 = k /\ k + 1 \in 1..n /\ f[k] \in Text
    BY <1>0, <1>10, <2>1
  <2>3. f[k + 1] = MaskPattern(f[k], ps[k + 1])
    BY <1>8, <2>2
  <2> QED
    BY <1>0, <2>2, <2>3, MaskPatternText
<1>11. \A i \in 0..n : f[i] \in Text
  <2> HIDE DEF S
  <2>1. \A k \in Nat : k \in S
    BY <1>9, <1>10, InductNat
  <2> QED
    BY <1>0, <2>1 DEF S
<1>12. f \in [0..n -> Text]
  BY <1>6, <1>11 DEF MaskSteps
<1>13. \A i \in 1..n : f[i] = MaskPattern(f[i - 1], ps[i])
  <2>1. \A i \in 1..n : i \in 0..n /\ i # 0
    BY <1>0
  <2> QED
    BY <1>8, <2>1, Zenon
<1>14. f[0] = s
  BY <1>0, <1>8
<1>15. Maskings(s, ps, f)
  BY <1>12, <1>13, <1>14, Zenon DEF Maskings
<1> QED
  BY <1>7, <1>15

LEMMA MaskStringText ==
  ASSUME NEW s \in Text, NEW ps \in Patterns
  PROVE  maskString(s, ps) \in Text
<1>1. PICK f : Maskings(s, ps, f) /\ maskString(s, ps) = f[Len(ps)]
  BY MaskStringRun
<1>2. Len(ps) \in 0..Len(ps)
  BY PatternsDef
<1> QED
  BY <1>1, <1>2 DEF Maskings

LEMMA MaskNoPattern ==
  ASSUME NEW s \in Text
  PROVE  maskString(s, <<>>) = s
<1>1. <<>> \in Patterns /\ Len(<<>>) = 0
  BY EmptySeq DEF Patterns
<1>2. PICK f : Maskings(s, <<>>, f) /\ maskString(s, <<>>) = f[Len(<<>>)]
  BY <1>1, MaskStringRun
<1> QED
  BY <1>1, <1>2 DEF Maskings

LEMMA MaskEmpty ==
  ASSUME NEW ps \in Patterns
  PROVE  maskString(<<>>, ps) = <<>>
<1>0. Len(ps) \in Nat /\ \A i \in 1..Len(ps) : ps[i] \in Text \ {<<>>}
  BY PatternsDef
<1>1. PICK f : Maskings(<<>>, ps, f) /\ maskString(<<>>, ps) = f[Len(ps)]
  BY EmptyText, MaskStringRun
<1> DEFINE S == {k \in Nat : k <= Len(ps) => f[k] = <<>>}
<1>2. 0 \in S
  BY <1>1 DEF Maskings
<1>3. ASSUME NEW k \in Nat, k \in S
      PROVE  k + 1 \in S
  <2>1. SUFFICES ASSUME k + 1 <= Len(ps)
                 PROVE  f[k + 1] = <<>>
    OBVIOUS
  <2>2. k + 1 \in 1..Len(ps) /\ k + 1 - 1 = k /\ f[k] = <<>>
    BY <1>0, <1>3, <2>1
  <2>3. f[k + 1] = MaskPattern(<<>>, ps[k + 1])
    BY <1>1, <2>2 DEF Maskings
  <2> QED
    BY <1>0, <2>2, <2>3, MaskNothing
<1>4. f[Len(ps)] = <<>>
  <2> HIDE DEF S
  <2>1. Len(ps) \in S
    BY <1>0, <1>2, <1>3, InductNat
  <2> QED
    BY <1>0, <2>1 DEF S
<1> QED
  BY <1>1, <1>4

\* Whole lines are masked by themselves, with any number of patterns.
LEMMA SplitText ==
  ASSUME NEW u \in Text, NEW v \in Text, NEW ps \in Patterns, Line(u),
         \A i \in 1..Len(ps) : ~ Contains(ps[i], Newline)
  PROVE  maskString(u \o v, ps) = maskString(u, ps) \o maskString(v, ps)
<1> DEFINE n == Len(ps)
<1>0. n \in Nat /\ \A i \in 1..n : ps[i] \in Text \ {<<>>} /\ ~ Contains(ps[i], Newline)
  BY PatternsDef
<1>1. u \o v \in Text
  BY ConcatProperties DEF Text
<1>2. PICK r : Maskings(u \o v, ps, r) /\ maskString(u \o v, ps) = r[n]
  BY <1>1, MaskStringRun
<1>3. PICK f : Maskings(u, ps, f) /\ maskString(u, ps) = f[n]
  BY MaskStringRun
<1>4. PICK g : Maskings(v, ps, g) /\ maskString(v, ps) = g[n]
  BY MaskStringRun
<1> DEFINE h == [i \in 0..n |-> f[i] \o g[i]]
<1>5. \A i \in 0..n : h[i] = f[i] \o g[i]
  OBVIOUS
<1> HIDE DEF h
<1> DEFINE S == {k \in Nat : k <= n => r[k] = h[k] /\ Line(f[k])}
<1>6. 0 \in S
  <2>1. 0 \in 0..n
    BY <1>0
  <2>2. r[0] = u \o v /\ f[0] = u /\ g[0] = v
    BY <1>2, <1>3, <1>4 DEF Maskings
  <2>3. h[0] = f[0] \o g[0]
    BY <1>5, <2>1, Zenon
  <2>4. r[0] = h[0] /\ Line(f[0])
    BY <2>2, <2>3, Zenon
  <2> QED
    BY <2>4
<1>7. ASSUME NEW k \in Nat, k \in S
      PROVE  k + 1 \in S
  <2>1. SUFFICES ASSUME k + 1 <= n
                 PROVE  r[k + 1] = h[k + 1] /\ Line(f[k + 1])
    OBVIOUS
  <2>2. k + 1 \in 1..n /\ k + 1 - 1 = k /\ k \in 0..n /\ k + 1 \in 0..n
    BY <1>0, <2>1
  <2>3. r[k] = h[k] /\ Line(f[k])
    BY <1>0, <1>7, <2>1
  <2>4. r[k] = f[k] \o g[k] /\ h[k + 1] = f[k + 1] \o g[k + 1]
    BY <1>5, <2>2, <2>3, Zenon
  <2>5. f[k] \in Text /\ g[k] \in Text
    BY <1>3, <1>4, <2>2 DEF Maskings
  <2>6. r[k + 1] = MaskPattern(r[k], ps[k + 1])
    BY <1>2, <2>2 DEF Maskings
  <2>7. f[k + 1] = MaskPattern(f[k], ps[k + 1]) /\ g[k + 1] = MaskPattern(g[k], ps[k + 1])
    BY <1>3, <1>4, <2>2 DEF Maskings
  <2>8. ps[k + 1] \in Text \ {<<>>} /\ ~ Contains(ps[k + 1], Newline)
    BY <1>0, <2>2
  <2>9. MaskPattern(f[k] \o g[k], ps[k + 1]) = MaskPattern(f[k], ps[k + 1]) \o MaskPattern(g[k], ps[k + 1])
    BY <2>3, <2>5, <2>8, SplitPattern
  <2>10. Line(f[k + 1])
    BY <2>3, <2>5, <2>7, <2>8, MaskLine
  <2> QED
    BY <2>4, <2>6, <2>7, <2>9, <2>10, Zenon
<1>8. r[n] = h[n]
  <2> HIDE DEF S
  <2>1. n \in S
    BY <1>0, <1>6, <1>7, InductNat
  <2> QED
    BY <1>0, <2>1 DEF S
<1>9. n \in 0..n
  BY <1>0
<1> QED
  BY <1>2, <1>3, <1>4, <1>5, <1>8, <1>9, Zenon

-----------------------------------------------------------------------------
\* Plain text.

Keep(t) == IF t \in Plain THEN <<t>> ELSE <<>>

LEMMA KeepText ==
  ASSUME NEW t \in Tokens
  PROVE  Keep(t) \in Text
  BY SingleText, EmptyText DEF Keep

LEMMA TextConcat ==
  ASSUME NEW u \in Text, NEW v \in Text
  PROVE  u \o v \in Text
  BY ConcatProperties DEF Text

\* What PlainText has kept after each token.
KeptSteps(s, f) ==
  f = [i \in 0..Len(s) |-> IF i = 0 THEN <<>>
                           ELSE IF s[i] \in Plain THEN Append(f[i - 1], s[i])
                           ELSE f[i - 1]]

Kept(s, f) ==
  /\ f \in [0..Len(s) -> Text]
  /\ f[0] = <<>>
  /\ \A i \in 1..Len(s) : f[i] = f[i - 1] \o Keep(s[i])

LEMMA TextAssociative ==
  ASSUME NEW u \in Text, NEW v \in Text, NEW w \in Text
  PROVE  (u \o v) \o w = u \o (v \o w)
<1>1. u \in Seq(Tokens) /\ v \in Seq(Tokens) /\ w \in Seq(Tokens)
  BY DEF Text
<1> QED
  BY <1>1, ConcatAssociative, SMTT(30)

LEMMA KeptNext ==
  ASSUME NEW s, NEW f, Kept(s, f), NEW k \in Nat, k + 1 \in 1..Len(s)
  PROVE  f[k + 1] = f[k] \o Keep(s[k + 1])
<1>1. (k + 1) - 1 = k
  OBVIOUS
<1>2. f[k + 1] = f[(k + 1) - 1] \o Keep(s[k + 1])
  BY Zenon DEF Kept
<1> QED
  BY <1>1, <1>2, Zenon

LEMMA KeepIsAppend ==
  ASSUME NEW u \in Text, NEW t \in Tokens
  PROVE  u \o Keep(t) = IF t \in Plain THEN Append(u, t) ELSE u
<1>1. CASE t \in Plain
  <2>1. Append(u, t) = u \o <<t>>
    BY AppendIsConcat DEF Text
  <2> QED
    BY <1>1, <2>1 DEF Keep
<1>2. CASE t \notin Plain
  <2>1. u \o <<>> = u
    BY ConcatEmptySeq DEF Text
  <2> QED
    BY <1>2, <2>1 DEF Keep
<1> QED
  BY <1>1, <1>2

LEMMA PlainRun ==
  ASSUME NEW s \in Text
  PROVE  \E f : Kept(s, f) /\ PlainText(s) = f[Len(s)]
<1> DEFINE n == Len(s)
<1>0. n \in Nat /\ \A i \in 1..n : s[i] \in Tokens
  BY LenProperties, ElementOfSeq DEF Text
<1> DEFINE G == [i \in 1..n |-> [x \in Text |-> x \o Keep(s[i])]]
<1>1. G \in Rewritings(n)
  <2>1. \A i \in 1..n : \A x \in Text : x \o Keep(s[i]) \in Text
    BY <1>0, KeepText, TextConcat
  <2> QED
    BY <2>1 DEF Rewritings
<1>2. \A i \in 1..n : \A x \in Text : G[i][x] = x \o Keep(s[i])
  OBVIOUS
<1> HIDE DEF G
<1>3. PICK g \in [0..n -> Text] : g[0] = <<>> /\ \A i \in 1..n : g[i] = G[i][g[i - 1]]
  BY <1>0, <1>1, EmptyText, Iterate
<1>4. ASSUME NEW i \in 1..n
      PROVE  g[i] = IF s[i] \in Plain THEN Append(g[i - 1], s[i]) ELSE g[i - 1]
  <2>1. g[i - 1] \in Text /\ s[i] \in Tokens
    BY <1>0, <1>3
  <2>2. g[i] = g[i - 1] \o Keep(s[i])
    BY <1>2, <1>3, <2>1
  <2> QED
    BY <2>1, <2>2, KeepIsAppend
<1>5. KeptSteps(s, g)
  <2>1. g = [i \in 0..n |-> g[i]]
    BY <1>3
  <2>2. \A i \in 0..n : i # 0 => i \in 1..n
    BY <1>0
  <2>3. \A i \in 0..n : g[i] = IF i = 0 THEN <<>>
                               ELSE IF s[i] \in Plain THEN Append(g[i - 1], s[i])
                               ELSE g[i - 1]
    BY <1>3, <1>4, <2>2, Zenon
  <2> QED
    BY <2>1, <2>3, Zenon DEF KeptSteps
<1> DEFINE f == CHOOSE f : KeptSteps(s, f)
<1>6. KeptSteps(s, f)
  BY <1>5
<1>7. PlainText(s) = f[n]
  BY Zenon DEF PlainText, KeptSteps
<1> HIDE DEF f
<1>8. \A i \in 0..n : f[i] = IF i = 0 THEN <<>>
                             ELSE IF s[i] \in Plain THEN Append(f[i - 1], s[i])
                             ELSE f[i - 1]
  BY <1>6, Zenon DEF KeptSteps
<1>9. f[0] = <<>>
  BY <1>0, <1>8
<1>10. \A i \in 1..n : f[i] = IF s[i] \in Plain THEN Append(f[i - 1], s[i]) ELSE f[i - 1]
  <2>1. \A i \in 1..n : i \in 0..n /\ i # 0
    BY <1>0
  <2> QED
    BY <1>8, <2>1, Zenon
<1> DEFINE S == {k \in Nat : k <= n => f[k] \in Text}
<1>11. 0 \in S
  BY <1>9, EmptyText
<1>12. ASSUME NEW k \in Nat, k \in S
       PROVE  k + 1 \in S
  <2>1. SUFFICES ASSUME k + 1 <= n
                 PROVE  f[k + 1] \in Text
    OBVIOUS
  <2>2. k + 1 - 1 = k /\ k + 1 \in 1..n /\ f[k] \in Text
    BY <1>0, <1>12, <2>1
  <2>3. f[k + 1] = f[k] \o Keep(s[k + 1])
    <3>1. f[k + 1] = IF s[k + 1] \in Plain THEN Append(f[(k + 1) - 1], s[k + 1]) ELSE f[(k + 1) - 1]
      BY <1>10, <2>2, Zenon
    <3>2. s[k + 1] \in Tokens
      BY <1>0, <2>2
    <3>3. f[k] \o Keep(s[k + 1]) = IF s[k + 1] \in Plain THEN Append(f[k], s[k + 1]) ELSE f[k]
      BY <2>2, <3>2, KeepIsAppend
    <3>4. f[k + 1] = IF s[k + 1] \in Plain THEN Append(f[k], s[k + 1]) ELSE f[k]
      BY <2>2, <3>1
    <3> QED
      BY <3>3, <3>4
  <2> QED
    BY <1>0, <2>2, <2>3, KeepText, TextConcat
<1>13. \A i \in 0..n : f[i] \in Text
  <2> HIDE DEF S
  <2>1. \A k \in Nat : k \in S
    BY <1>11, <1>12, InductNat
  <2> QED
    BY <1>0, <2>1 DEF S
<1>14. f \in [0..n -> Text]
  BY <1>6, <1>13 DEF KeptSteps
<1>15. ASSUME NEW i \in 1..n
       PROVE  f[i] = f[i - 1] \o Keep(s[i])
  <2>1. f[i - 1] \in Text /\ s[i] \in Tokens
    BY <1>0, <1>13
  <2> QED
    BY <1>10, <2>1, KeepIsAppend
<1>16. Kept(s, f)
  BY <1>9, <1>14, <1>15, Zenon DEF Kept
<1> QED
  BY <1>7, <1>16

LEMMA PlainTextText ==
  ASSUME NEW s \in Text
  PROVE  PlainText(s) \in Text
<1>1. PICK f : Kept(s, f) /\ PlainText(s) = f[Len(s)]
  BY PlainRun
<1>2. Len(s) \in 0..Len(s)
  BY LenProperties DEF Text
<1> QED
  BY <1>1, <1>2 DEF Kept

LEMMA PlainNone ==
  ASSUME NEW s \in Text, \A i \in 1..Len(s) : s[i] \notin Plain
  PROVE  PlainText(s) = <<>>
<1>0. Len(s) \in Nat
  BY LenProperties DEF Text
<1>1. PICK f : Kept(s, f) /\ PlainText(s) = f[Len(s)]
  BY PlainRun
<1> DEFINE S == {k \in Nat : k <= Len(s) => f[k] = <<>>}
<1>2. 0 \in S
  BY <1>1 DEF Kept
<1>3. ASSUME NEW k \in Nat, k \in S
      PROVE  k + 1 \in S
  <2>1. SUFFICES ASSUME k + 1 <= Len(s)
                 PROVE  f[k + 1] = <<>>
    OBVIOUS
  <2>2. k + 1 \in 1..Len(s) /\ k + 1 - 1 = k /\ f[k] = <<>>
    BY <1>0, <1>3, <2>1
  <2>3. f[k + 1] = <<>> \o Keep(s[k + 1]) /\ Keep(s[k + 1]) = <<>>
    BY <1>1, <2>2 DEF Kept, Keep
  <2>4. <<>> \o <<>> = <<>>
    BY EmptyText, ConcatEmptySeq DEF Text
  <2> QED
    BY <2>3, <2>4, Zenon
<1>4. Len(s) \in S
  <2> HIDE DEF S
  <2> QED
    BY <1>0, <1>2, <1>3, InductNat
<1> QED
  BY <1>0, <1>1, <1>4

LEMMA PlainSingle ==
  ASSUME NEW t \in Tokens
  PROVE  PlainText(<<t>>) = Keep(t)
<1>1. <<t>> \in Text /\ Len(<<t>>) = 1
  BY SingleText, EmptyText
<1>2. PICK f : Kept(<<t>>, f) /\ PlainText(<<t>>) = f[1]
  BY <1>1, PlainRun
<1>3. f[0] = <<>> /\ f[1] = f[0] \o Keep(t)
  <2>1. 0 \in Nat /\ 0 + 1 = 1 /\ 1 \in 1..Len(<<t>>) /\ <<t>>[1] = t
    BY <1>1
  <2>2. f[1] = f[0] \o Keep(<<t>>[1])
    BY <1>2, <2>1, KeptNext
  <2>3. f[0] = <<>>
    BY <1>2, Zenon DEF Kept
  <2> QED
    BY <2>1, <2>2, <2>3, Zenon
<1>4. <<>> \o Keep(t) = Keep(t)
  BY KeepText, ConcatEmptySeq DEF Text
<1> QED
  BY <1>2, <1>3, <1>4, Zenon

\* The plain text of the parts is the plain text of the whole.
LEMMA PlainConcat ==
  ASSUME NEW u \in Text, NEW v \in Text
  PROVE  PlainText(u \o v) = PlainText(u) \o PlainText(v)
<1> DEFINE m == Len(u)
           n == Len(v)
<1>0. m \in Nat /\ n \in Nat
  BY LenProperties DEF Text
<1>1. /\ u \o v \in Text
      /\ Len(u \o v) = m + n
      /\ \A k \in 1..(m + n) : (u \o v)[k] = IF k <= m THEN u[k] ELSE v[k - m]
  BY ConcatProperties DEF Text
<1>2. PICK r : Kept(u \o v, r) /\ PlainText(u \o v) = r[m + n]
  BY <1>1, PlainRun
<1>3. PICK f : Kept(u, f) /\ PlainText(u) = f[m]
  BY PlainRun
<1>4. PICK g : Kept(v, g) /\ PlainText(v) = g[n]
  BY PlainRun
<1> DEFINE S == {k \in Nat : k <= m => r[k] = f[k]}
<1>5. 0 \in S
  BY <1>2, <1>3 DEF Kept
<1>6. ASSUME NEW k \in Nat, k \in S
      PROVE  k + 1 \in S
  <2>1. SUFFICES ASSUME k + 1 <= m
                 PROVE  r[k + 1] = f[k + 1]
    OBVIOUS
  <2>2. k + 1 \in 1..m /\ k + 1 \in 1..Len(u \o v) /\ k + 1 - 1 = k /\ r[k] = f[k]
    BY <1>0, <1>1, <1>6, <2>1
  <2>3. (u \o v)[k + 1] = u[k + 1]
    BY <1>0, <1>1, <2>2
  <2>4. r[k + 1] = r[k] \o Keep((u \o v)[k + 1])
    BY <1>2, <2>2, KeptNext, Zenon
  <2>5. f[k + 1] = f[k] \o Keep(u[k + 1])
    BY <1>3, <2>2, KeptNext, Zenon
  <2> QED
    BY <2>2, <2>3, <2>4, <2>5, Zenon
<1>7. r[m] = f[m]
  <2> HIDE DEF S
  <2>1. m \in S
    BY <1>0, <1>5, <1>6, InductNat
  <2> QED
    BY <1>0, <2>1 DEF S
<1>f. f[m] \in Text
  BY <1>0, <1>3 DEF Kept
<1> DEFINE h == [i \in 0..n |-> f[m] \o g[i]]
           T == {k \in Nat : k <= n => r[m + k] = h[k]}
<1>8. \A i \in 0..n : h[i] = f[m] \o g[i]
  OBVIOUS
<1> HIDE DEF h
<1>9. 0 \in T
  <2>1. 0 \in 0..n /\ m + 0 = m
    BY <1>0
  <2>2. g[0] = <<>> /\ f[m] \o <<>> = f[m]
    BY <1>4, <1>f, ConcatEmptySeq DEF Kept, Text
  <2>3. h[0] = f[m]
    BY <1>8, <2>1, <2>2, Zenon
  <2> QED
    BY <1>7, <2>1, <2>3
<1>10. ASSUME NEW k \in Nat, k \in T
       PROVE  k + 1 \in T
  <2>1. SUFFICES ASSUME k + 1 <= n
                 PROVE  r[m + (k + 1)] = h[k + 1]
    OBVIOUS
  <2>2. /\ k + 1 \in 1..n /\ m + (k + 1) \in 1..Len(u \o v)
        /\ k + 1 - 1 = k /\ m + (k + 1) - 1 = m + k
        /\ k \in 0..n /\ k + 1 \in 0..n /\ r[m + k] = h[k]
    BY <1>0, <1>1, <1>10, <2>1
  <2>3. (u \o v)[m + (k + 1)] = v[k + 1] /\ v[k + 1] \in Tokens
    BY <1>0, <1>1, <2>2, ElementOfSeq DEF Text
  <2>4. r[m + (k + 1)] = r[m + k] \o Keep(v[k + 1])
    <3>1. m + k \in Nat /\ (m + k) + 1 = m + (k + 1)
      BY <1>0
    <3>2. r[(m + k) + 1] = r[m + k] \o Keep((u \o v)[(m + k) + 1])
      BY <1>2, <2>2, <3>1, KeptNext, Zenon
    <3> QED
      BY <2>3, <3>1, <3>2, Zenon
  <2>5. g[k + 1] = g[k] \o Keep(v[k + 1]) /\ g[k] \in Text
    <3>1. g[k] \in Text
      BY <1>4, <2>2 DEF Kept
    <3> QED
      BY <1>4, <2>2, <3>1, KeptNext, Zenon
  <2>6. (f[m] \o g[k]) \o Keep(v[k + 1]) = f[m] \o (g[k] \o Keep(v[k + 1]))
    BY ZenonT(30), <1>f, <2>3, <2>5, KeepText, TextAssociative
  <2>7. h[k] = f[m] \o g[k] /\ h[k + 1] = f[m] \o g[k + 1]
    BY <1>8, <2>2, Zenon
  <2> QED
    BY <2>2, <2>4, <2>5, <2>6, <2>7, Zenon
<1>11. r[m + n] = h[n]
  <2> HIDE DEF T
  <2>1. n \in T
    BY <1>0, <1>9, <1>10, InductNat
  <2> QED
    BY <1>0, <2>1 DEF T
<1>12. n \in 0..n
  BY <1>0
<1> QED
  BY <1>2, <1>3, <1>4, <1>8, <1>11, <1>12, Zenon

\* A pattern is made of pieces of secrets.
Secret(p) == \A i \in 1..Len(p) : p[i] \notin Plain

LEMMA PlainPattern ==
  ASSUME NEW s \in Text, NEW p \in Text \ {<<>>}, Secret(p)
  PROVE  PlainText(MaskPattern(s, p)) = PlainText(s)
<1> DEFINE n == Len(s)
           rest(i) == SubSeq(s, i, n)
<1>0. n \in Nat /\ Len(p) \in Nat \ {0} /\ \A i \in 1..n : s[i] \in Tokens
  BY LenProperties, EmptySeq, ElementOfSeq DEF Text
<1>1. PICK r : Masking(s, p, r) /\ MaskPattern(s, p) = r[1]
  BY MaskRun
<1>2. PlainText(p) = <<>> /\ PlainText(<<Mask>>) = <<>>
  <2>1. Keep(Mask) = <<>>
    BY DEF Plain, Keep
  <2> QED
    BY <2>1, MaskIsToken, PlainNone, PlainSingle DEF Secret
<1>3. \A i \in 1..(n + 1) : rest(i) \in Text
  BY <1>0, SubSeqProperties DEF Text
<1> DEFINE S == {i \in 0..(n + 1) : i = 0 \/ PlainText(r[i]) = PlainText(rest(i))}
<1>4. n + 1 \in S
  <2>1. r[n + 1] = <<>> /\ rest(n + 1) = <<>>
    BY <1>0, <1>1, SubSeqEmpty DEF Masking
  <2>2. PlainText(r[n + 1]) = PlainText(rest(n + 1))
    BY <2>1
  <2> QED
    BY <1>0, <2>2
<1>5. ASSUME NEW i \in 0..((n + 1) - 1), \A j \in (i + 1)..(n + 1) : j \in S
      PROVE  i \in S
  <2>1. CASE i = 0
    BY <1>0, <2>1
  <2>2. CASE i # 0
    <3>0. i \in 1..n
      BY <1>0, <2>2
    <3>1. \A j \in (i + 1)..(n + 1) : PlainText(r[j]) = PlainText(rest(j)) /\ r[j] \in Text /\ rest(j) \in Text
      <4>1. \A j \in (i + 1)..(n + 1) : j \in 1..(n + 1) /\ j # 0
        BY <1>0, <3>0
      <4>2. \A j \in (i + 1)..(n + 1) : PlainText(r[j]) = PlainText(rest(j))
        BY <1>5, <4>1
      <4>3. \A j \in 1..(n + 1) : r[j] \in Text
        BY <1>1 DEF Masking
      <4> QED
        BY <1>3, <4>1, <4>2, <4>3
    <3>2. CASE Matches(s, p, i)
      <4> DEFINE j == i + Len(p)
      <4>1. j \in (i + 1)..(n + 1) /\ i + Len(p) - 1 <= n /\ SubSeq(s, i, i + Len(p) - 1) = p
        BY <1>0, <3>0, <3>2 DEF Matches
      <4>2. r[i] = <<Mask>> \o r[j]
        BY <1>1, <3>0, <3>2 DEF Masking
      <4>3. rest(i) = p \o rest(j)
        <5>1. /\ i \in 1..(n + 1) /\ i + Len(p) - 1 \in (i - 1)..n /\ n \in (i + Len(p) - 1)..n
              /\ (i + Len(p) - 1) + 1 = j
          BY <1>0, <3>0, <4>1
        <5>2. SubSeq(s, i, i + Len(p) - 1) \o SubSeq(s, (i + Len(p) - 1) + 1, n) = SubSeq(s, i, n)
          BY <5>1, ConcatAdjacentSubSeq DEF Text
        <5> QED
          BY <4>1, <5>1, <5>2
      <4>4. <<Mask>> \in Text /\ r[j] \in Text /\ rest(j) \in Text /\ PlainText(r[j]) = PlainText(rest(j))
        BY <3>1, <4>1, MaskIsToken, SingleText
      <4> HIDE DEF j, rest
      <4>5. PlainText(r[i]) = <<>> \o PlainText(r[j])
        BY <1>2, <4>2, <4>4, PlainConcat
      <4>6. PlainText(rest(i)) = <<>> \o PlainText(rest(j))
        BY <1>2, <4>3, <4>4, PlainConcat
      <4>7. PlainText(r[i]) = PlainText(rest(i))
        BY <4>4, <4>5, <4>6
      <4> QED
        BY <1>0, <3>0, <4>7
    <3>3. CASE ~ Matches(s, p, i)
      <4>1. i + 1 \in (i + 1)..(n + 1) /\ s[i] \in Tokens
        BY <1>0, <3>0
      <4>2. r[i] = <<s[i]>> \o r[i + 1]
        BY <1>1, <3>0, <3>3 DEF Masking
      <4>3. rest(i) = <<s[i]>> \o rest(i + 1)
        BY <1>0, <3>0, SubSeqRecursiveFirst DEF Text
      <4>4. /\ <<s[i]>> \in Text /\ r[i + 1] \in Text /\ rest(i + 1) \in Text
            /\ PlainText(r[i + 1]) = PlainText(rest(i + 1))
        BY <3>1, <4>1, SingleText
      <4> HIDE DEF rest
      <4>5. PlainText(r[i]) = PlainText(<<s[i]>>) \o PlainText(r[i + 1])
        BY <4>2, <4>4, PlainConcat
      <4>6. PlainText(rest(i)) = PlainText(<<s[i]>>) \o PlainText(rest(i + 1))
        BY <4>3, <4>4, PlainConcat
      <4>7. PlainText(r[i]) = PlainText(rest(i))
        BY <4>4, <4>5, <4>6
      <4> QED
        BY <1>0, <3>0, <4>7
    <3> QED
      BY <3>2, <3>3
  <2> QED
    BY <2>1, <2>2
<1>6. PlainText(r[1]) = PlainText(rest(1))
  <2> HIDE DEF S
  <2>1. \A i \in 0..(n + 1) : i \in S
    BY <1>0, <1>4, <1>5, InductDown
  <2> QED
    BY <1>0, <2>1 DEF S
<1>7. rest(1) = s
  BY SubSeqFull DEF Text
<1> QED
  BY <1>1, <1>6, <1>7

\* Masking changes no plain text.
LEMMA PlainMasked ==
  ASSUME NEW s \in Text, NEW ps \in Patterns, \A i \in 1..Len(ps) : Secret(ps[i])
  PROVE  PlainText(maskString(s, ps)) = PlainText(s)
<1>0. Len(ps) \in Nat /\ \A i \in 1..Len(ps) : ps[i] \in Text \ {<<>>}
  BY PatternsDef
<1>1. PICK f : Maskings(s, ps, f) /\ maskString(s, ps) = f[Len(ps)]
  BY MaskStringRun
<1> DEFINE S == {k \in Nat : k <= Len(ps) => PlainText(f[k]) = PlainText(s)}
<1>2. 0 \in S
  BY <1>1 DEF Maskings
<1>3. ASSUME NEW k \in Nat, k \in S
      PROVE  k + 1 \in S
  <2>1. SUFFICES ASSUME k + 1 <= Len(ps)
                 PROVE  PlainText(f[k + 1]) = PlainText(s)
    OBVIOUS
  <2>2. k + 1 \in 1..Len(ps) /\ k + 1 - 1 = k /\ k \in 0..Len(ps) /\ PlainText(f[k]) = PlainText(s)
    BY <1>0, <1>3, <2>1
  <2>3. f[k + 1] = MaskPattern(f[k], ps[k + 1]) /\ f[k] \in Text
    BY <1>1, <2>2 DEF Maskings
  <2> QED
    BY <1>0, <2>2, <2>3, PlainPattern
<1>4. Len(ps) \in S
  <2> HIDE DEF S
  <2> QED
    BY <1>0, <1>2, <1>3, InductNat
<1> QED
  BY <1>0, <1>1, <1>4

-----------------------------------------------------------------------------
\* The writer's state.

LEMMA FlushLengthOf ==
  ASSUME NEW b \in Text
  PROVE  /\ FlushLength(b) \in 0..Len(b)
         /\ Contains(b, Newline) => FlushLength(b) # 0 /\ b[FlushLength(b)] = Newline
         /\ ~ Contains(b, Newline) /\ ~(Len(b) > Limit) => FlushLength(b) = 0
<1> DEFINE I == {i \in 1..Len(b) : b[i] = Newline}
           last == IF I # {} THEN Max(I) ELSE 0
<1>0. Len(b) \in Nat /\ Limit \in Nat
  BY MaskerAssumption, LenProperties DEF Text
<1>1. FlushLength(b) = IF last > 0 THEN last ELSE IF Len(b) > Limit THEN Len(b) ELSE 0
  BY DEF FlushLength, SelectLastInSeq
<1>2. Contains(b, Newline) <=> I # {}
  BY DEF Contains
<1>3. I # {} => Max(I) \in I
  <2> DEFINE S == {k \in Nat : (\E i \in I : i <= k) =>
                             \E x \in I : x <= k /\ \A y \in I : y <= k => x >= y}
  <2>1. 0 \in S
    OBVIOUS
  <2>2. ASSUME NEW k \in Nat, k \in S
        PROVE  k + 1 \in S
    <3>1. CASE k + 1 \in I
      BY <1>0, <3>1
    <3>2. CASE k + 1 \notin I
      <4>1. \A i \in I : i <= k + 1 <=> i <= k
        BY <1>0, <3>2
      <4> HIDE DEF I
      <4> QED
        BY <1>0, <2>2, <4>1
    <3> QED
      BY <3>1, <3>2
  <2>3. Len(b) \in S
    <3> HIDE DEF S
    <3> QED
      BY <1>0, <2>1, <2>2, InductNat
  <2>4. \A i \in I : i \in Nat /\ i <= Len(b)
    BY <1>0
  <2>5. I # {} => \E x \in I : \A y \in I : x >= y
    BY <1>0, <2>3, <2>4
  <2> HIDE DEF I
  <2> QED
    BY <2>5 DEF Max
<1> QED
  BY <1>0, <1>1, <1>2, <1>3

LEMMA VariantsOf ==
  ASSUME NEW s \in Secrets
  PROVE  Variants[s] \in Patterns /\ \A i \in 1..Len(Variants[s]) : Secret(Variants[s][i])
<1>1. Variants[s] \in Patterns
  BY MaskerAssumption DEF Patterns
<1>2. DOMAIN Variants[s] = 1..Len(Variants[s])
  BY <1>1, LenProperties DEF Patterns
<1>3. ASSUME NEW i \in 1..Len(Variants[s]), NEW k \in 1..Len(Variants[s][i])
      PROVE  Variants[s][i][k] \notin Plain
  <2>1. Contains(Variants[s][i], Variants[s][i][k])
    BY DEF Contains
  <2> QED
    BY <1>2, <2>1 DEF Plain
<1> QED
  BY <1>1, <1>3 DEF Secret

AllSecret(ps) == \A i \in 1..Len(ps) : Secret(ps[i])

LEMMA PatternsConcat ==
  ASSUME NEW ps \in Patterns, NEW qs \in Patterns
  PROVE  /\ ps \o qs \in Patterns
         /\ AllSecret(ps) /\ AllSecret(qs) => AllSecret(ps \o qs)
         /\ \A i \in 1..Len(ps) : i \in 1..Len(ps \o qs) /\ (ps \o qs)[i] = ps[i]
         /\ ps \o qs = <<>> => ps = <<>>
<1>0. Len(ps) \in Nat /\ Len(qs) \in Nat
  BY PatternsDef
<1>1. /\ ps \o qs \in Patterns
      /\ Len(ps \o qs) = Len(ps) + Len(qs)
      /\ \A i \in 1..(Len(ps) + Len(qs)) : (ps \o qs)[i] = IF i <= Len(ps) THEN ps[i] ELSE qs[i - Len(ps)]
  BY ConcatProperties DEF Patterns
<1>2. \A i \in 1..(Len(ps) + Len(qs)) : ~(i <= Len(ps)) => i - Len(ps) \in 1..Len(qs)
  BY <1>0
<1>3. \A i \in 1..(Len(ps) + Len(qs)) : i <= Len(ps) => i \in 1..Len(ps)
  BY <1>0
<1>4. \A i \in 1..Len(ps) : i \in 1..(Len(ps) + Len(qs)) /\ i <= Len(ps)
  BY <1>0
<1>5. AllSecret(ps) /\ AllSecret(qs) => AllSecret(ps \o qs)
  BY <1>1, <1>2, <1>3 DEF AllSecret
<1>6. ps \o qs = <<>> => ps = <<>>
  <2>1. Len(<<>>) = 0 /\ (ps # <<>> => Len(ps) \in Nat \ {0})
    BY EmptySeq DEF Patterns
  <2> QED
    BY <1>0, <1>1, <2>1
<1> QED
  BY <1>1, <1>4, <1>5, <1>6

\* Patterns are encodings of secrets.
PatternsKnown ==
  /\ AllSecret(patterns)
  /\ \A w \in Writers : AllSecret(pats[w])

\* One writer at a time, and none once the flush has begun.
Alone ==
  ~raced =>
    /\ \A v, w \in Writers : stage[v] # "idle" /\ stage[w] # "idle" => v = w
    /\ flusher # "running" => Quiet
    /\ flusher = "ended" => buf = <<>>
    /\ \A w \in Writers : stage[w] \in {"append", "take"} => seen[w] = buf

\* Who writes has written something, and masks with the patterns there were then; what it
\* takes from the buffer ends a line.
Masked ==
  /\ patterns = <<>> => Quiet /\ buf = <<>>
  /\ \A w \in Writers : stage[w] # "idle" => input # <<>>
  /\ ~late => \A w \in Writers : stage[w] # "idle" => pats[w] = patterns
  /\ ~cut => \A w \in Writers : stage[w] = "emit" => toFlush[w] = <<>> \/ Line(toFlush[w])

\* What is still to be passed on when w is writing.
Pending(w) ==
  IF stage[w] \in {"read", "append"} THEN buf \o chunk[w]
  ELSE IF stage[w] = "emit" THEN toFlush[w] \o buf
  ELSE buf

\* What was written is some whole lines, which were masked, and what is pending.
Split(done) ==
  /\ out = maskString(done, patterns)
  /\ patterns = <<>> \/ done = <<>> \/ Line(done) \/ flusher = "ended"
  /\ Quiet => input = done \o buf
  /\ \A w \in Writers : stage[w] # "idle" => input = done \o Pending(w)

Clean == OneLine /\ ~(raced \/ cut \/ late \/ lost)

LinesMasked == Clean => \E done \in Text : Split(done)

\* Plain text is passed on, or pending.
PlainKept ==
  ~(raced \/ lost) =>
    /\ Quiet => PlainText(out) \o PlainText(buf) = PlainText(input)
    /\ \A w \in Writers : stage[w] # "idle" =>
         PlainText(out) \o PlainText(Pending(w)) = PlainText(input)

MaskInv == MaskTypeOK /\ PatternsKnown /\ Alone /\ Masked

LEMMA MaskInitInv == MaskInit => MaskInv
<1> SUFFICES ASSUME MaskInit
             PROVE  MaskInv
  OBVIOUS
<1>1. <<>> \in Patterns /\ AllSecret(<<>>)
  BY EmptySeq DEF Patterns, AllSecret
<1>2. MaskTypeOK
  BY <1>1, EmptyText DEF MaskInit, MaskTypeOK, Patterns
<1>3. PatternsKnown
  BY <1>1 DEF MaskInit, PatternsKnown
<1>4. Alone /\ Masked
  BY DEF MaskInit, Alone, Masked, Quiet
<1> QED
  BY <1>2, <1>3, <1>4 DEF MaskInv

LEMMA SinkText ==
  ASSUME MaskTypeOK, NEW text \in Text, Sink(text)
  PROVE  out' \in Text /\ lost' \in BOOLEAN
  BY TextConcat DEF MaskTypeOK, Sink

LEMMA AddSecretKeeps ==
  ASSUME MaskInv, NEW s \in Secrets, AddSecret(s)
  PROVE  MaskInv'
<1>1. patterns \in Patterns /\ Variants[s] \in Patterns /\ AllSecret(Variants[s])
  BY VariantsOf DEF MaskInv, MaskTypeOK, Patterns, AllSecret
<1>2. patterns' \in Patterns /\ (AllSecret(patterns) => AllSecret(patterns'))
  BY <1>1, PatternsConcat DEF AddSecret
<1>3. MaskTypeOK'
  BY <1>2 DEF MaskInv, MaskTypeOK, AddSecret, locals, Patterns
<1>4. PatternsKnown'
  BY <1>2 DEF MaskInv, PatternsKnown, AddSecret, locals
<1>5. Alone'
  BY DEF MaskInv, Alone, AddSecret, locals, Quiet
<1>6. Masked'
  <2>1. patterns' = <<>> => patterns = <<>>
    BY <1>1, PatternsConcat DEF AddSecret
  <2> QED
    BY <2>1 DEF MaskInv, MaskTypeOK, Masked, AddSecret, locals, Quiet
<1> QED
  BY <1>3, <1>4, <1>5, <1>6 DEF MaskInv

LEMMA WriteKeeps ==
  ASSUME MaskInv, NEW w \in Writers, NEW p \in Chunks, Write(w, p)
  PROVE  MaskInv'
<1>1. p \in Text \ {<<>>} /\ input \in Text /\ patterns \in Patterns
  BY MaskerAssumption DEF MaskInv, MaskTypeOK, Patterns
<1>2. input' \in Text /\ input' # <<>>
  BY <1>1, TextConcat, ConcatEqualIffEmpty DEF Write, Text
<1>3. CASE patterns = <<>>
  <2>1. out' \in Text /\ lost' \in BOOLEAN
    BY <1>1, <1>3, SinkText DEF Write, MaskInv
  <2>2. MaskTypeOK'
    BY <1>2, <1>3, <2>1 DEF MaskInv, MaskTypeOK, Write, locals
  <2>3. PatternsKnown'
    BY <1>3 DEF MaskInv, PatternsKnown, Write, locals
  <2>4. Alone'
    BY <1>3 DEF MaskInv, Alone, Write, locals, Quiet
  <2>5. Masked'
    BY <1>2, <1>3 DEF MaskInv, Masked, Write, locals, Quiet
  <2> QED
    BY <2>2, <2>3, <2>4, <2>5 DEF MaskInv
<1>4. CASE patterns # <<>>
  <2>1. MaskTypeOK'
    BY ZenonT(30), <1>1, <1>2, <1>4 DEF MaskInv, MaskTypeOK, Write, Proceed, Patterns
  <2>2. PatternsKnown'
    BY <1>4 DEF MaskInv, MaskTypeOK, PatternsKnown, Write, Proceed
  <2>3. Alone'
    <3>1. /\ ~raced' => \A v \in Writers : v # w => stage[v] = "idle"
          /\ stage[w] = "idle" /\ flusher = "running" /\ flusher' = flusher /\ buf' = buf
          /\ stage' = [stage EXCEPT ![w] = "read"] /\ seen' = seen
          /\ ~raced' => ~raced
      BY <1>4 DEF Write, Proceed
    <3>2. \A v \in Writers : ~raced' /\ v # w => stage'[v] = "idle"
      BY <3>1 DEF MaskInv, MaskTypeOK
    <3>3. stage'[w] = "read"
      BY <3>1 DEF MaskInv, MaskTypeOK
    <3> QED
      BY <3>1, <3>2, <3>3 DEF Alone
  <2>4. Masked'
    BY <1>2, <1>4 DEF MaskInv, MaskTypeOK, Masked, Write, Proceed, Quiet
  <2> QED
    BY <2>1, <2>2, <2>3, <2>4 DEF MaskInv
<1> QED
  BY <1>3, <1>4

LEMMA AppendReadKeeps ==
  ASSUME MaskInv, NEW w \in Writers, AppendRead(w)
  PROVE  MaskInv'
<1>1. MaskTypeOK'
  BY DEF MaskInv, MaskTypeOK, AppendRead, Proceed, ghosts
<1>2. PatternsKnown'
  BY DEF MaskInv, PatternsKnown, AppendRead
<1>3. Alone'
  BY DEF MaskInv, MaskTypeOK, Alone, AppendRead, Proceed, ghosts, Quiet
<1>4. Masked'
  BY DEF MaskInv, MaskTypeOK, Masked, AppendRead, Proceed, ghosts, Quiet
<1> QED
  BY <1>1, <1>2, <1>3, <1>4 DEF MaskInv

LEMMA AppendWriteKeeps ==
  ASSUME MaskInv, NEW w \in Writers, AppendWrite(w)
  PROVE  MaskInv'
<1>1. seen[w] \o chunk[w] \in Text
  BY TextConcat DEF MaskInv, MaskTypeOK
<1>2. MaskTypeOK'
  BY <1>1, EmptyText DEF MaskInv, MaskTypeOK, AppendWrite, Proceed, ghosts
<1>3. PatternsKnown'
  BY DEF MaskInv, PatternsKnown, AppendWrite
<1>4. Alone'
  BY DEF MaskInv, MaskTypeOK, Alone, AppendWrite, Proceed, ghosts, Quiet
<1>5. Masked'
  BY DEF MaskInv, MaskTypeOK, Masked, AppendWrite, Proceed, ghosts, Quiet
<1> QED
  BY <1>2, <1>3, <1>4, <1>5 DEF MaskInv

LEMMA LookKeeps ==
  ASSUME MaskInv, NEW w \in Writers, Look(w)
  PROVE  MaskInv'
<1>1. <<>> \in Patterns /\ AllSecret(<<>>)
  BY EmptySeq DEF Patterns, AllSecret
<1>2. MaskTypeOK'
  BY <1>1 DEF MaskInv, MaskTypeOK, Look, Proceed, ghosts, Patterns
<1>3. PatternsKnown'
  BY <1>1 DEF MaskInv, MaskTypeOK, PatternsKnown, Look
<1>4. Alone'
  <2>1. /\ stage[w] = "reread" /\ flusher' = flusher /\ buf' = buf /\ raced' = raced
        /\ stage'[w] \in {"idle", "take"} /\ (stage'[w] = "take" => seen'[w] = buf)
        /\ \A v \in Writers : v # w => stage'[v] = stage[v] /\ seen'[v] = seen[v]
    BY DEF MaskInv, MaskTypeOK, Look, Proceed, ghosts
  <2> QED
    BY <2>1 DEF MaskInv, Alone, Quiet
<1>5. Masked'
  BY DEF MaskInv, MaskTypeOK, Masked, Look, Proceed, ghosts, Quiet
<1> QED
  BY <1>2, <1>3, <1>4, <1>5 DEF MaskInv

\* What Take takes and what it leaves.
LEMMA Cut ==
  ASSUME NEW b \in Text
  PROVE  /\ SubSeq(b, 1, FlushLength(b)) \in Text /\ Remaining(b) \in Text
         /\ SubSeq(b, 1, FlushLength(b)) \o Remaining(b) = b
         /\ \/ SubSeq(b, 1, FlushLength(b)) = <<>>
            \/ Line(SubSeq(b, 1, FlushLength(b)))
            \/ Len(b) > Limit /\ ~ Contains(b, Newline)
<1> DEFINE k == FlushLength(b)
           n == Len(b)
           q == SubSeq(b, 1, k)
<1>0. n \in Nat /\ k \in 0..n /\ \A i \in 1..n : b[i] \in Tokens
  BY FlushLengthOf, LenProperties, ElementOfSeq DEF Text
<1>1. q \in Text /\ Remaining(b) \in Text /\ Len(q) = k /\ \A i \in 1..k : q[i] = b[i]
  <2> HIDE DEF k, n
  <2>1. \A i \in 1..k : b[i] \in Tokens
    BY <1>0
  <2>2. \A i \in (k + 1)..n : b[i] \in Tokens
    BY <1>0
  <2>3. /\ q \in Seq(Tokens) /\ Len(q) = (IF 1 <= k THEN k - 1 + 1 ELSE 0)
        /\ \A i \in 1..(k - 1 + 1) : q[i] = b[1 + i - 1]
    BY <1>0, <2>1, SubSeqProperties
  <2>4. SubSeq(b, k + 1, n) \in Seq(Tokens)
    BY <1>0, <2>2, SubSeqProperties
  <2> HIDE DEF q
  <2> QED
    BY <1>0, <2>3, <2>4 DEF Text, Remaining, k, n
<1>2. q \o Remaining(b) = b
  <2>1. /\ 1 \in 1..(Len(b) + 1) /\ k \in (1 - 1)..Len(b) /\ Len(b) \in k..Len(b)
    BY <1>0
  <2>2. SubSeq(b, 1, k) \o SubSeq(b, k + 1, Len(b)) = SubSeq(b, 1, Len(b))
    <3> HIDE DEF k
    <3> QED
      BY <2>1, ConcatAdjacentSubSeq DEF Text
  <2>3. SubSeq(b, 1, Len(b)) = b
    BY SubSeqFull DEF Text
  <2> QED
    BY <2>2, <2>3 DEF Remaining
<1>3. CASE Contains(b, Newline)
  <2>1. k \in 1..n /\ b[k] = Newline
    BY <1>0, <1>3, FlushLengthOf
  <2>2. q[Len(q)] = Newline /\ q # <<>>
    BY <1>0, <1>1, <2>1, EmptySeq
  <2> QED
    BY <1>1, <1>2, <2>2 DEF Line
<1>4. CASE ~ Contains(b, Newline) /\ ~(n > Limit)
  <2>1. k = 0
    BY <1>4, FlushLengthOf
  <2>2. q = <<>>
    BY <2>1, SubSeqEmpty
  <2> QED
    BY <1>1, <1>2, <2>2
<1>5. CASE ~ Contains(b, Newline) /\ n > Limit
  BY <1>1, <1>2, <1>5
<1> QED
  BY <1>3, <1>4, <1>5

LEMMA TakeKeeps ==
  ASSUME MaskInv, NEW w \in Writers, Take(w)
  PROVE  MaskInv'
<1> DEFINE q == SubSeq(seen[w], 1, FlushLength(seen[w]))
<1>0. seen[w] \in Text
  BY DEF MaskInv, MaskTypeOK
<1>1. /\ q \in Text /\ Remaining(seen[w]) \in Text
      /\ q = <<>> \/ Line(q) \/ (Len(seen[w]) > Limit /\ ~ Contains(seen[w], Newline))
  BY <1>0, Cut
<1>2. toFlush' = [toFlush EXCEPT ![w] = q]
  BY DEF Take
<1> HIDE DEF q
<1>3. MaskTypeOK'
  BY <1>1, <1>2, EmptyText DEF MaskInv, MaskTypeOK, Take, Proceed
<1>4. PatternsKnown'
  BY DEF MaskInv, PatternsKnown, Take
<1>5. Alone'
  BY DEF MaskInv, MaskTypeOK, Alone, Take, Proceed, Quiet
<1>6. Masked'
  BY <1>1, <1>2 DEF MaskInv, MaskTypeOK, Masked, Take, Proceed, Quiet
<1> QED
  BY <1>3, <1>4, <1>5, <1>6 DEF MaskInv

LEMMA EmitKeeps ==
  ASSUME MaskInv, NEW w \in Writers, Emit(w)
  PROVE  MaskInv'
<1>1. <<>> \in Patterns /\ AllSecret(<<>>)
  BY EmptySeq DEF Patterns, AllSecret
<1>2. out' \in Text /\ lost' \in BOOLEAN
  BY MaskStringText, SinkText DEF Emit, MaskInv, MaskTypeOK, Patterns
<1>3. MaskTypeOK'
  BY <1>1, <1>2, EmptyText DEF MaskInv, MaskTypeOK, Emit, Proceed, Patterns
<1>4. PatternsKnown'
  BY <1>1 DEF MaskInv, MaskTypeOK, PatternsKnown, Emit
<1>5. Alone'
  BY DEF MaskInv, MaskTypeOK, Alone, Emit, Proceed, Quiet
<1>6. Masked'
  BY DEF MaskInv, MaskTypeOK, Masked, Emit, Proceed, Quiet
<1> QED
  BY <1>3, <1>4, <1>5, <1>6 DEF MaskInv

LEMMA FlushBeginKeeps ==
  ASSUME MaskInv, FlushBegin
  PROVE  MaskInv'
<1>1. MaskTypeOK'
  BY DEF MaskInv, MaskTypeOK, FlushBegin, locals
<1>2. PatternsKnown'
  BY DEF MaskInv, PatternsKnown, FlushBegin, locals
<1>3. Alone'
  BY DEF MaskInv, Alone, FlushBegin, locals, Quiet
<1>4. Masked'
  BY DEF MaskInv, Masked, FlushBegin, locals, Quiet
<1> QED
  BY <1>1, <1>2, <1>3, <1>4 DEF MaskInv

LEMMA FlushKeeps ==
  ASSUME MaskInv, Flush
  PROVE  MaskInv'
<1>1. out' \in Text /\ lost' \in BOOLEAN
  BY MaskStringText, SinkText DEF Flush, MaskInv, MaskTypeOK, Patterns
<1>2. MaskTypeOK'
  BY <1>1, EmptyText DEF MaskInv, MaskTypeOK, Flush, locals
<1>3. PatternsKnown'
  BY DEF MaskInv, PatternsKnown, Flush, locals
<1>4. Alone'
  BY DEF MaskInv, Alone, Flush, locals, Quiet
<1>5. Masked'
  BY DEF MaskInv, Masked, Flush, locals, Quiet
<1> QED
  BY <1>2, <1>3, <1>4, <1>5 DEF MaskInv

LEMMA MaskNextInv ==
  ASSUME MaskInv, [MaskNext]_maskVars
  PROVE  MaskInv'
<1>1. CASE \E s \in Secrets : AddSecret(s)
  BY <1>1, AddSecretKeeps
<1>2. CASE \E w \in Writers : \E p \in Chunks : Write(w, p)
  BY <1>2, WriteKeeps
<1>3. CASE \E w \in Writers : AppendRead(w) \/ AppendWrite(w) \/ Look(w) \/ Take(w) \/ Emit(w)
  BY <1>3, AppendReadKeeps, AppendWriteKeeps, LookKeeps, TakeKeeps, EmitKeeps
<1>4. CASE FlushBegin \/ Flush
  BY <1>4, FlushBeginKeeps, FlushKeeps
<1>5. CASE Done \/ UNCHANGED maskVars
  BY <1>5 DEF Done, maskVars, locals, ghosts, MaskInv, MaskTypeOK, PatternsKnown, Alone, Masked, Quiet
<1> QED
  BY <1>1, <1>2, <1>3, <1>4, <1>5 DEF MaskNext

-----------------------------------------------------------------------------
\* The output is the input, masked.

LEMMA JoinMasked ==
  ASSUME NEW u \in Text, NEW v \in Text, NEW ps \in Patterns,
         \A i \in 1..Len(ps) : ~ Contains(ps[i], Newline),
         ps = <<>> \/ u = <<>> \/ Line(u) \/ v = <<>>
  PROVE  maskString(u \o v, ps) = maskString(u, ps) \o maskString(v, ps)
<1>1. CASE ps = <<>>
  BY <1>1, TextConcat, MaskNoPattern
<1>2. CASE u = <<>>
  <2>1. <<>> \o v = v /\ maskString(u, ps) = <<>> /\ maskString(v, ps) \in Text
    BY <1>2, MaskEmpty, MaskStringText, ConcatEmptySeq DEF Text
  <2>2. <<>> \o maskString(v, ps) = maskString(v, ps)
    BY <2>1, ConcatEmptySeq DEF Text
  <2> QED
    BY <1>2, <2>1, <2>2, Zenon
<1>3. CASE Line(u)
  BY <1>3, SplitText
<1>4. CASE v = <<>>
  <2>1. u \o <<>> = u /\ maskString(v, ps) = <<>> /\ maskString(u, ps) \in Text
    BY <1>4, MaskEmpty, MaskStringText, ConcatEmptySeq DEF Text
  <2>2. maskString(u, ps) \o <<>> = maskString(u, ps)
    BY <2>1, ConcatEmptySeq DEF Text
  <2> QED
    BY <1>4, <2>1, <2>2, Zenon
<1> QED
  BY <1>1, <1>2, <1>3, <1>4

LEMMA EmptyParts ==
  ASSUME NEW u \in Text, NEW v \in Text, u \o v = <<>>
  PROVE  u = <<>> /\ v = <<>>
<1>1. Len(u \o v) = Len(u) + Len(v) /\ Len(u) \in Nat /\ Len(v) \in Nat /\ Len(<<>>) = 0
  BY ConcatProperties, LenProperties, EmptySeq DEF Text
<1>2. (u # <<>> => Len(u) \in Nat \ {0}) /\ (v # <<>> => Len(v) \in Nat \ {0})
  BY EmptySeq DEF Text
<1> QED
  BY <1>1, <1>2

LEMMA OneLineOf ==
  ASSUME MaskTypeOK
  PROVE  OneLine <=> \A i \in 1..Len(patterns) : ~ Contains(patterns[i], Newline)
<1>1. DOMAIN patterns = 1..Len(patterns)
  BY LenProperties DEF MaskTypeOK
<1> QED
  BY <1>1 DEF OneLine

LEMMA SplitInit == MaskInit => LinesMasked
<1> SUFFICES ASSUME MaskInit
             PROVE  Split(<<>>)
  BY EmptyText DEF LinesMasked
<1>1. maskString(<<>>, <<>>) = <<>> /\ <<>> \o <<>> = <<>>
  BY EmptyText, MaskNoPattern, ConcatEmptySeq DEF Text
<1> QED
  BY <1>1 DEF MaskInit, Split

LEMMA AddSecretSplits ==
  ASSUME MaskInv, MaskInv', LinesMasked, NEW s \in Secrets, AddSecret(s)
  PROVE  LinesMasked'
<1> SUFFICES ASSUME Clean'
             PROVE  Split(<<>>)'
  BY EmptyText DEF LinesMasked
<1>0. /\ buf \in Text /\ patterns \in Patterns /\ patterns' \in Patterns /\ Variants[s] \in Patterns
      /\ MaskTypeOK /\ MaskTypeOK'
  BY VariantsOf DEF MaskInv, MaskTypeOK, Patterns
<1>1. OneLine
  <2>1. \A i \in 1..Len(patterns) : i \in 1..Len(patterns') /\ patterns'[i] = patterns[i]
    BY <1>0, PatternsConcat DEF AddSecret
  <2>2. \A i \in 1..Len(patterns') : ~ Contains(patterns'[i], Newline)
    <3>1. DOMAIN patterns' = 1..Len(patterns')
      BY <1>0, LenProperties DEF Patterns
    <3> QED
      BY <3>1 DEF Clean, OneLine
  <2>3. \A i \in 1..Len(patterns) : ~ Contains(patterns[i], Newline)
    BY <2>1, <2>2
  <2> QED
    BY <1>0, <2>3, OneLineOf
<1>2. input = <<>> /\ Clean
  BY <1>1 DEF Clean, AddSecret
<1>3. Quiet
  BY <1>2 DEF MaskInv, Masked, Quiet
<1>4. PICK done \in Text : Split(done)
  BY <1>2 DEF LinesMasked
<1>5. done = <<>> /\ buf = <<>>
  BY <1>0, <1>2, <1>3, <1>4, EmptyParts DEF Split
<1>6. out = <<>>
  BY <1>0, <1>4, <1>5, MaskEmpty DEF Split
<1>7. maskString(<<>>, patterns') = <<>> /\ <<>> \o <<>> = <<>>
  BY <1>0, MaskEmpty, EmptyText, ConcatEmptySeq DEF Text
<1> QED
  BY <1>2, <1>3, <1>5, <1>6, <1>7 DEF Split, AddSecret, locals, Quiet

LEMMA WriteSplits ==
  ASSUME MaskInv, MaskInv', LinesMasked, NEW w \in Writers, NEW p \in Chunks, Write(w, p)
  PROVE  LinesMasked'
<1> SUFFICES ASSUME Clean'
             PROVE  (\E done \in Text : Split(done))'
  BY DEF LinesMasked
<1>0. p \in Text /\ buf \in Text /\ patterns \in Patterns
  BY MaskerAssumption DEF MaskInv, MaskTypeOK, Patterns
<1>1. Clean /\ (\A v \in Writers : v # w => stage[v] = "idle") /\ stage[w] = "idle"
  BY DEF Clean, OneLine, Write, Sink
<1>2. Quiet
  BY <1>1 DEF Quiet
<1>3. PICK done \in Text : Split(done)
  BY <1>1 DEF LinesMasked
<1>4. input = done \o buf /\ input' = (done \o buf) \o p
  BY <1>2, <1>3 DEF Split, Write
<1>5. CASE patterns = <<>>
  <2>1. buf = <<>> /\ out = done
    BY <1>3, <1>5, MaskNoPattern DEF MaskInv, Masked, Split
  <2>2. done \o p \in Text /\ done \o <<>> = done /\ (done \o p) \o <<>> = done \o p
    BY <1>0, TextConcat, ConcatEmptySeq DEF Text
  <2>3. out' = done \o p /\ patterns' = <<>> /\ buf' = <<>> /\ stage' = stage
    BY <1>5, <2>1 DEF Clean, Write, Sink, locals
  <2>4. maskString(done \o p, <<>>) = done \o p
    BY <2>2, MaskNoPattern
  <2>5. input' = done \o p
    BY <1>4, <2>1, <2>2, Zenon
  <2>6. input' = (done \o p) \o buf'
    BY <2>2, <2>3, <2>5, Zenon
  <2>7. \A v \in Writers : stage'[v] = "idle"
    BY <1>2, <2>3 DEF Quiet
  <2>8. Split(done \o p)'
    BY <2>3, <2>4, <2>6, <2>7 DEF Split
  <2> QED
    BY <2>2, <2>8
<1>6. CASE patterns # <<>>
  <2>1. /\ out' = out /\ patterns' = patterns /\ buf' = buf /\ flusher' = flusher
        /\ stage' = [stage EXCEPT ![w] = "read"] /\ chunk' = [chunk EXCEPT ![w] = p]
    BY <1>6 DEF Write, Proceed
  <2>2. stage'[w] = "read" /\ chunk'[w] = p /\ \A v \in Writers : v # w => stage'[v] = "idle"
    BY <1>1, <2>1 DEF MaskInv, MaskTypeOK
  <2>3. Pending(w)' = buf \o p /\ ~Quiet'
    BY <2>1, <2>2 DEF Pending, Quiet
  <2>4. input' = done \o (buf \o p)
    BY <1>0, <1>4, TextAssociative
  <2>5. \A v \in Writers : stage'[v] # "idle" => input' = done \o Pending(v)'
    BY <2>2, <2>3, <2>4, Zenon
  <2>6. Split(done)'
    BY <1>3, <2>1, <2>3, <2>5 DEF Split
  <2> QED
    BY <2>6
<1> QED
  BY <1>5, <1>6

LEMMA AppendReadSplits ==
  ASSUME MaskInv, LinesMasked, NEW w \in Writers, AppendRead(w)
  PROVE  LinesMasked'
<1> SUFFICES ASSUME Clean'
             PROVE  (\E done \in Text : Split(done))'
  BY DEF LinesMasked
<1>1. Clean
  BY DEF Clean, OneLine, AppendRead, ghosts
<1>2. PICK done \in Text : Split(done)
  BY <1>1 DEF LinesMasked
<1>3. /\ stage[w] = "read" /\ stage'[w] = "append"
      /\ \A v \in Writers : v # w => stage'[v] = stage[v]
  BY DEF AppendRead, Proceed, MaskInv, MaskTypeOK
<1>4. \A v \in Writers : Pending(v)' = Pending(v)
  BY <1>3 DEF Pending, AppendRead
<1>5. \A v \in Writers : stage'[v] = "idle" <=> stage[v] = "idle"
  BY <1>3
<1>6. Split(done)'
  BY <1>2, <1>4, <1>5 DEF Split, AppendRead, ghosts, Quiet
<1> QED
  BY <1>6

LEMMA AppendWriteSplits ==
  ASSUME MaskInv, LinesMasked, NEW w \in Writers, AppendWrite(w)
  PROVE  LinesMasked'
<1> SUFFICES ASSUME Clean'
             PROVE  (\E done \in Text : Split(done))'
  BY DEF LinesMasked
<1>1. Clean
  BY DEF Clean, OneLine, AppendWrite, ghosts
<1>2. PICK done \in Text : Split(done)
  BY <1>1 DEF LinesMasked
<1>3. /\ stage[w] = "append" /\ stage'[w] = "reread"
      /\ \A v \in Writers : v # w => stage'[v] = "idle"
  BY <1>1 DEF AppendWrite, Proceed, MaskInv, MaskTypeOK, Clean, Alone
<1>4. buf' = buf \o chunk[w]
  BY <1>1, <1>3 DEF AppendWrite, MaskInv, Alone, Clean
<1>5. Pending(w)' = Pending(w)
  BY <1>3, <1>4 DEF Pending
<1>6. input' = done \o Pending(w)'
  BY <1>2, <1>3, <1>5 DEF Split, AppendWrite, ghosts
<1>7. Split(done)'
  BY <1>2, <1>3, <1>6 DEF Split, AppendWrite, Quiet
<1> QED
  BY <1>7

LEMMA LookSplits ==
  ASSUME MaskInv, LinesMasked, NEW w \in Writers, Look(w)
  PROVE  LinesMasked'
<1> SUFFICES ASSUME Clean'
             PROVE  (\E done \in Text : Split(done))'
  BY DEF LinesMasked
<1>1. Clean
  BY DEF Clean, OneLine, Look, ghosts
<1>2. PICK done \in Text : Split(done)
  BY <1>1 DEF LinesMasked
<1>3. /\ stage[w] = "reread" /\ stage'[w] \in {"idle", "take"}
      /\ \A v \in Writers : v # w => stage'[v] = "idle"
  BY <1>1 DEF Look, Proceed, MaskInv, MaskTypeOK, Clean, Alone
<1>4. Pending(w)' = buf /\ Pending(w) = buf
  BY <1>3 DEF Pending, Look
<1>5. input' = done \o Pending(w)' /\ input' = done \o buf'
  BY <1>2, <1>3, <1>4 DEF Split, Look, ghosts
<1>6. Split(done)'
  BY <1>2, <1>3, <1>5 DEF Split, Look
<1> QED
  BY <1>6

LEMMA TakeSplits ==
  ASSUME MaskInv, LinesMasked, NEW w \in Writers, Take(w)
  PROVE  LinesMasked'
<1> SUFFICES ASSUME Clean'
             PROVE  (\E done \in Text : Split(done))'
  BY DEF LinesMasked
<1>1. Clean
  BY DEF Clean, OneLine, Take
<1>2. PICK done \in Text : Split(done)
  BY <1>1 DEF LinesMasked
<1>3. /\ stage[w] = "take" /\ stage'[w] = "emit"
      /\ \A v \in Writers : v # w => stage'[v] = "idle"
  BY <1>1 DEF Take, Proceed, MaskInv, MaskTypeOK, Clean, Alone
<1>4. seen[w] = buf /\ buf \in Text
  BY <1>1, <1>3 DEF MaskInv, MaskTypeOK, Alone, Clean
<1>5. toFlush'[w] = SubSeq(buf, 1, FlushLength(buf)) /\ buf' = Remaining(buf)
  BY <1>4 DEF Take, MaskInv, MaskTypeOK
<1>6. toFlush'[w] \o buf' = buf
  BY <1>4, <1>5, Cut
<1>7. Pending(w)' = buf /\ Pending(w) = buf
  BY <1>3, <1>6 DEF Pending
<1>8. input' = done \o Pending(w)'
  BY <1>2, <1>3, <1>7 DEF Split, Take
<1>9. Split(done)'
  BY <1>2, <1>3, <1>8 DEF Split, Take, Quiet
<1> QED
  BY <1>9

LEMMA EmitSplits ==
  ASSUME MaskInv, LinesMasked, NEW w \in Writers, Emit(w)
  PROVE  LinesMasked'
<1> SUFFICES ASSUME Clean'
             PROVE  (\E done \in Text : Split(done))'
  BY DEF LinesMasked
<1>1. Clean
  BY DEF Clean, OneLine, Emit, Sink
<1>2. PICK done \in Text : Split(done)
  BY <1>1 DEF LinesMasked
<1>3. /\ stage[w] = "emit" /\ stage'[w] = "idle"
      /\ \A v \in Writers : v # w => stage'[v] = "idle"
  BY <1>1 DEF Emit, Proceed, MaskInv, MaskTypeOK, Clean, Alone
<1>4. /\ pats[w] = patterns /\ (toFlush[w] = <<>> \/ Line(toFlush[w]))
      /\ patterns # <<>> /\ flusher = "running"
  BY <1>1, <1>3 DEF MaskInv, Masked, Alone, Clean, Quiet
<1>q. PICK q : q = toFlush[w]
  OBVIOUS
<1>5. q \in Text /\ buf \in Text /\ patterns \in Patterns /\ MaskTypeOK
  BY <1>q DEF MaskInv, MaskTypeOK, Patterns
<1>6. /\ out' = out \o maskString(q, patterns) /\ out = maskString(done, patterns)
      /\ patterns' = patterns /\ buf' = buf /\ flusher' = flusher /\ input' = input
  BY <1>2, <1>4, <1>q DEF Emit, Sink, Clean, Split
<1>7. input = done \o (q \o buf)
  BY <1>2, <1>3, <1>q DEF Split, Pending
<1>8. maskString(done \o q, patterns) = maskString(done, patterns) \o maskString(q, patterns)
  <2>1. \A i \in 1..Len(patterns) : ~ Contains(patterns[i], Newline)
    BY <1>1, <1>5, OneLineOf DEF Clean
  <2>2. done = <<>> \/ Line(done)
    BY <1>2, <1>4 DEF Split
  <2> QED
    BY <1>5, <2>1, <2>2, JoinMasked
<1>9. done \o q \in Text /\ input = (done \o q) \o buf
  BY <1>5, <1>7, TextConcat, TextAssociative
<1>10. done \o q = <<>> \/ Line(done \o q)
  <2>1. CASE q = <<>>
    <3>1. done \o q = done
      BY <2>1, ConcatEmptySeq DEF Text
    <3> QED
      BY <1>2, <1>4, <3>1 DEF Split
  <2>2. CASE Line(q)
    BY <1>5, <2>2, LineOfConcat
  <2> QED
    BY <1>4, <1>q, <2>1, <2>2
<1>11. Split(done \o q)'
  <2>1. out' = maskString(done \o q, patterns')
    BY <1>6, <1>8, Zenon
  <2>2. input' = (done \o q) \o buf'
    BY <1>6, <1>9, Zenon
  <2>3. \A v \in Writers : stage'[v] = "idle"
    BY <1>3
  <2> QED
    BY <1>10, <2>1, <2>2, <2>3 DEF Split
<1> QED
  BY <1>9, <1>11

LEMMA FlushBeginSplits ==
  ASSUME MaskInv, LinesMasked, FlushBegin
  PROVE  LinesMasked'
<1> SUFFICES ASSUME Clean'
             PROVE  (\E done \in Text : Split(done))'
  BY DEF LinesMasked
<1>1. Clean
  BY DEF Clean, OneLine, FlushBegin
<1>2. PICK done \in Text : Split(done)
  BY <1>1 DEF LinesMasked
<1>3. flusher = "running" /\ \A v \in Writers : Pending(v)' = Pending(v)
  BY DEF FlushBegin, Pending, locals
<1>4. Split(done)'
  BY <1>2, <1>3 DEF Split, FlushBegin, locals, Quiet
<1> QED
  BY <1>4

LEMMA FlushSplits ==
  ASSUME MaskInv, LinesMasked, Flush
  PROVE  LinesMasked'
<1> SUFFICES ASSUME Clean'
             PROVE  (\E done \in Text : Split(done))'
  BY DEF LinesMasked
<1>1. Clean
  BY DEF Clean, OneLine, Flush, Sink
<1>2. PICK done \in Text : Split(done)
  BY <1>1 DEF LinesMasked
<1>3. flusher = "mask" /\ Quiet /\ buf \in Text /\ patterns \in Patterns /\ MaskTypeOK
  BY <1>1 DEF Flush, MaskInv, MaskTypeOK, Patterns, Alone, Clean
<1>4. /\ out' = out \o maskString(buf, patterns) /\ out = maskString(done, patterns)
      /\ patterns' = patterns /\ buf' = <<>> /\ flusher' = "ended" /\ input' = input /\ stage' = stage
  BY <1>2 DEF Flush, Sink, Clean, Split, locals
<1>5. maskString(done \o buf, patterns) = maskString(done, patterns) \o maskString(buf, patterns)
  <2>1. \A i \in 1..Len(patterns) : ~ Contains(patterns[i], Newline)
    BY <1>1, <1>3, OneLineOf DEF Clean
  <2>2. patterns = <<>> \/ done = <<>> \/ Line(done)
    BY <1>2, <1>3 DEF Split
  <2> QED
    BY <1>3, <2>1, <2>2, JoinMasked
<1>6. input = done \o buf /\ done \o buf \in Text /\ (done \o buf) \o <<>> = done \o buf
  BY <1>2, <1>3, TextConcat, ConcatEmptySeq DEF Split, Text
<1>7. out' = maskString(done \o buf, patterns') /\ input' = (done \o buf) \o buf'
  BY <1>4, <1>5, <1>6, Zenon
<1>8. \A v \in Writers : stage'[v] = "idle"
  BY <1>3, <1>4 DEF Quiet
<1>9. PICK all \in Text : all = done \o buf
  BY <1>6
<1>10. Split(all)'
  BY <1>4, <1>7, <1>8, <1>9 DEF Split
<1> QED
  BY <1>10

\* MaskedAsAWhole of MaskInv and LinesMasked.
LEMMA LinesMaskedWhole ==
  ASSUME MaskInv, LinesMasked
  PROVE  MaskedAsAWhole
<1> SUFFICES ASSUME Quiet, Clean
             PROVE  out \o maskString(buf, patterns) = maskString(input, patterns)
  BY DEF MaskedAsAWhole, Clean
<1>1. PICK done \in Text : Split(done)
  BY DEF LinesMasked
<1>2. buf \in Text /\ patterns \in Patterns /\ MaskTypeOK
  BY DEF MaskInv, MaskTypeOK, Patterns
<1>3. \A i \in 1..Len(patterns) : ~ Contains(patterns[i], Newline)
  BY <1>2, OneLineOf DEF Clean
<1>4. patterns = <<>> \/ done = <<>> \/ Line(done) \/ buf = <<>>
  BY <1>1 DEF Split, MaskInv, Alone, Clean
<1>5. maskString(done \o buf, patterns) = maskString(done, patterns) \o maskString(buf, patterns)
  BY <1>2, <1>3, <1>4, JoinMasked
<1>6. out = maskString(done, patterns) /\ input = done \o buf
  BY <1>1 DEF Split
<1> QED
  BY <1>5, <1>6, Zenon

LEMMA LinesMaskedNext ==
  ASSUME MaskInv, MaskInv', LinesMasked, [MaskNext]_maskVars
  PROVE  LinesMasked'
<1>1. CASE \E s \in Secrets : AddSecret(s)
  BY <1>1, AddSecretSplits
<1>2. CASE \E w \in Writers : \E p \in Chunks : Write(w, p)
  BY <1>2, WriteSplits
<1>3. CASE \E w \in Writers : AppendRead(w) \/ AppendWrite(w) \/ Look(w) \/ Take(w) \/ Emit(w)
  BY <1>3, AppendReadSplits, AppendWriteSplits, LookSplits, TakeSplits, EmitSplits
<1>4. CASE FlushBegin \/ Flush
  BY <1>4, FlushBeginSplits, FlushSplits
<1>5. CASE Done \/ UNCHANGED maskVars
  BY <1>5 DEF Done, maskVars, locals, ghosts, LinesMasked, Clean, OneLine, Split, Pending, Quiet
<1> QED
  BY <1>1, <1>2, <1>3, <1>4, <1>5 DEF MaskNext

-----------------------------------------------------------------------------
\* What is no secret is passed on.

\* The plain text of three parts.
LEMMA PlainParts ==
  ASSUME NEW u \in Text, NEW v \in Text, NEW t \in Text
  PROVE  PlainText(u \o v) \o PlainText(t) = PlainText(u) \o PlainText(v \o t)
<1>1. PICK a \in Text, b \in Text, c \in Text :
             a = PlainText(u) /\ b = PlainText(v) /\ c = PlainText(t)
  BY PlainTextText
<1>2. (a \o b) \o c = a \o (b \o c)
  BY TextAssociative, SMTT(30)
<1>3. PlainText(u \o v) = PlainText(u) \o PlainText(v) /\ PlainText(v \o t) = PlainText(v) \o PlainText(t)
  BY PlainConcat
<1> QED
  BY <1>1, <1>2, <1>3, Zenon

LEMMA PlainSink ==
  ASSUME NEW u \in Text, NEW q \in Text, NEW ps \in Patterns, AllSecret(ps)
  PROVE  PlainText(u \o maskString(q, ps)) = PlainText(u \o q)
<1>1. maskString(q, ps) \in Text /\ PlainText(maskString(q, ps)) = PlainText(q)
  BY MaskStringText, PlainMasked DEF AllSecret
<1>2. PlainText(u \o maskString(q, ps)) = PlainText(u) \o PlainText(maskString(q, ps))
  BY <1>1, PlainConcat
<1>3. PlainText(u \o q) = PlainText(u) \o PlainText(q)
  BY PlainConcat
<1> QED
  BY <1>1, <1>2, <1>3, Zenon

LEMMA PlainInit == MaskInit => PlainKept
<1> SUFFICES ASSUME MaskInit
             PROVE  PlainKept
  OBVIOUS
<1>1. PlainText(<<>>) = <<>>
  BY EmptyText, EmptySeq, PlainNone
<1>2. <<>> \o <<>> = <<>>
  BY EmptyText, ConcatEmptySeq DEF Text
<1>3. PlainText(out) \o PlainText(buf) = PlainText(input)
  BY <1>1, <1>2 DEF MaskInit
<1> QED
  BY <1>3 DEF MaskInit, PlainKept

LEMMA WritePlain ==
  ASSUME MaskInv, PlainKept, NEW w \in Writers, NEW p \in Chunks, Write(w, p)
  PROVE  PlainKept'
<1> SUFFICES ASSUME ~(raced' \/ lost')
             PROVE  PlainKept'
  BY DEF PlainKept
<1>0. p \in Text /\ buf \in Text /\ out \in Text /\ input \in Text
  BY MaskerAssumption DEF MaskInv, MaskTypeOK
<1>1. /\ ~(raced \/ lost) /\ (\A v \in Writers : v # w => stage[v] = "idle") /\ stage[w] = "idle"
      /\ input' = input \o p
  BY DEF Write, Sink
<1>2. PlainText(out) \o PlainText(buf) = PlainText(input)
  BY <1>1 DEF PlainKept, Quiet
<1>3. PlainText(out) \o PlainText(buf \o p) = PlainText(input \o p)
  <2>1. PlainText(out) \in Text /\ PlainText(buf) \in Text /\ PlainText(p) \in Text
    BY <1>0, PlainTextText
  <2>2. PlainText(out) \o (PlainText(buf) \o PlainText(p)) = (PlainText(out) \o PlainText(buf)) \o PlainText(p)
    BY <2>1, TextAssociative
  <2>3. PlainText(buf \o p) = PlainText(buf) \o PlainText(p) /\ PlainText(input \o p) = PlainText(input) \o PlainText(p)
    BY <1>0, PlainConcat
  <2> QED
    BY <1>2, <2>2, <2>3, Zenon
<1>4. CASE patterns = <<>>
  <2>1. buf = <<>> /\ buf' = buf /\ out' = out \o p /\ stage' = stage
    BY <1>4 DEF MaskInv, Masked, Write, Sink, locals
  <2>2. <<>> \o p = p /\ p \o <<>> = p
    BY <1>0, ConcatEmptySeq DEF Text
  <2>3. PlainText(out \o p) \o PlainText(<<>>) = PlainText(out) \o PlainText(p \o <<>>)
    BY <1>0, EmptyText, PlainParts
  <2>4. PlainText(out') \o PlainText(buf') = PlainText(input')
    BY <1>1, <1>3, <2>1, <2>2, <2>3, Zenon
  <2>5. \A v \in Writers : stage'[v] = "idle"
    BY <1>1, <2>1
  <2> QED
    BY <2>4, <2>5 DEF PlainKept
<1>5. CASE patterns # <<>>
  <2>1. /\ out' = out /\ buf' = buf
        /\ stage' = [stage EXCEPT ![w] = "read"] /\ chunk' = [chunk EXCEPT ![w] = p]
    BY <1>5 DEF Write, Proceed
  <2>2. stage'[w] = "read" /\ chunk'[w] = p /\ \A v \in Writers : v # w => stage'[v] = "idle"
    BY <1>1, <2>1 DEF MaskInv, MaskTypeOK
  <2>3. Pending(w)' = buf \o p /\ ~Quiet'
    BY <2>1, <2>2 DEF Pending, Quiet
  <2>4. PlainText(out') \o PlainText(Pending(w)') = PlainText(input')
    BY <1>1, <1>3, <2>1, <2>3, Zenon
  <2> QED
    BY <2>2, <2>3, <2>4 DEF PlainKept
<1> QED
  BY <1>4, <1>5

\* These steps change neither the output nor the input, nor what is pending.
LEMMA AppendPlain ==
  ASSUME MaskInv, PlainKept, NEW w \in Writers,
         AppendRead(w) \/ AppendWrite(w) \/ Look(w) \/ Take(w)
  PROVE  PlainKept'
<1> SUFFICES ASSUME ~(raced' \/ lost')
             PROVE  PlainKept'
  BY DEF PlainKept
<1>1. /\ ~(raced \/ lost) /\ stage[w] # "idle"
      /\ out' = out /\ input' = input
  <2>1. UNCHANGED <<out, input, raced, lost>>
    BY DEF AppendRead, AppendWrite, Look, Take, ghosts
  <2>2. stage[w] \in {"read", "append", "reread", "take"}
    BY DEF AppendRead, AppendWrite, Look, Take
  <2> QED
    BY <2>1, <2>2
<1>2. \A v \in Writers : v # w => stage'[v] = "idle"
  BY <1>1 DEF AppendRead, AppendWrite, Look, Take, Proceed, MaskInv, MaskTypeOK, Alone
<1>3. Pending(w)' = Pending(w) /\ (stage'[w] = "idle" => buf' = Pending(w))
  <2>1. CASE AppendRead(w)
    BY <2>1 DEF AppendRead, Proceed, Pending, MaskInv, MaskTypeOK
  <2>2. CASE AppendWrite(w)
    <3>1. stage[w] = "append" /\ stage'[w] = "reread" /\ buf' = buf \o chunk[w]
      BY <1>1, <2>2 DEF AppendWrite, Proceed, MaskInv, MaskTypeOK, Alone
    <3> QED
      BY <3>1 DEF Pending
  <2>3. CASE Look(w)
    BY <2>3 DEF Look, Proceed, Pending, MaskInv, MaskTypeOK
  <2>4. CASE Take(w)
    <3>1. stage[w] = "take" /\ stage'[w] = "emit" /\ seen[w] = buf /\ buf \in Text
      BY <1>1, <2>4 DEF Take, Proceed, MaskInv, MaskTypeOK, Alone
    <3>2. toFlush'[w] = SubSeq(buf, 1, FlushLength(buf)) /\ buf' = Remaining(buf)
      BY <2>4, <3>1 DEF Take, MaskInv, MaskTypeOK
    <3>3. toFlush'[w] \o buf' = buf
      BY <3>1, <3>2, Cut
    <3> QED
      BY <3>1, <3>3 DEF Pending
  <2> QED
    BY <2>1, <2>2, <2>3, <2>4
<1>4. PlainText(out') \o PlainText(Pending(w)') = PlainText(input')
  BY <1>1, <1>3 DEF PlainKept
<1>5. stage'[w] = "idle" => PlainText(out') \o PlainText(buf') = PlainText(input')
  BY <1>3, <1>4
<1> QED
  BY <1>2, <1>4, <1>5 DEF PlainKept, Quiet

LEMMA EmitPlain ==
  ASSUME MaskInv, PlainKept, NEW w \in Writers, Emit(w)
  PROVE  PlainKept'
<1> SUFFICES ASSUME ~(raced' \/ lost')
             PROVE  PlainKept'
  BY DEF PlainKept
<1>1. /\ ~(raced \/ lost) /\ stage[w] = "emit" /\ buf' = buf /\ input' = input
      /\ out' = out \o maskString(toFlush[w], pats[w])
  BY DEF Emit, Sink
<1>2. \A v \in Writers : stage'[v] = "idle"
  BY <1>1 DEF Emit, Proceed, MaskInv, MaskTypeOK, Alone
<1>3. /\ toFlush[w] \in Text /\ buf \in Text /\ out \in Text
      /\ pats[w] \in Patterns /\ AllSecret(pats[w])
  BY DEF MaskInv, MaskTypeOK, PatternsKnown, Patterns
<1>4. PlainText(out') = PlainText(out \o toFlush[w])
  BY <1>1, <1>3, PlainSink
<1>5. PlainText(out \o toFlush[w]) \o PlainText(buf) = PlainText(out) \o PlainText(toFlush[w] \o buf)
  BY <1>3, PlainParts
<1>6. PlainText(out) \o PlainText(toFlush[w] \o buf) = PlainText(input)
  BY <1>1 DEF PlainKept, Pending
<1>7. PlainText(out') \o PlainText(buf') = PlainText(input')
  BY <1>1, <1>4, <1>5, <1>6
<1> QED
  BY <1>2, <1>7 DEF PlainKept

LEMMA FlushPlain ==
  ASSUME MaskInv, PlainKept, Flush
  PROVE  PlainKept'
<1> SUFFICES ASSUME ~(raced' \/ lost')
             PROVE  PlainKept'
  BY DEF PlainKept
<1>1. /\ ~(raced \/ lost) /\ buf' = <<>> /\ input' = input /\ stage' = stage
      /\ out' = out \o maskString(buf, patterns)
  BY DEF Flush, Sink, locals
<1>2. Quiet
  BY <1>1 DEF MaskInv, Alone, Flush
<1>3. buf \in Text /\ out \in Text /\ patterns \in Patterns /\ AllSecret(patterns)
  BY DEF MaskInv, MaskTypeOK, PatternsKnown, Patterns
<1>4. PlainText(out') = PlainText(out \o buf)
  BY <1>1, <1>3, PlainSink
<1>5. PlainText(out \o buf) \o PlainText(<<>>) = PlainText(out) \o PlainText(buf \o <<>>)
  BY <1>3, EmptyText, PlainParts
<1>6. buf \o <<>> = buf
  BY <1>3, ConcatEmptySeq DEF Text
<1>7. PlainText(out) \o PlainText(buf) = PlainText(input)
  BY <1>1, <1>2 DEF PlainKept
<1>8. PlainText(out') \o PlainText(buf') = PlainText(input')
  BY <1>1, <1>4, <1>5, <1>6, <1>7
<1> QED
  BY <1>1, <1>2, <1>8 DEF PlainKept, Quiet

LEMMA PlainNext ==
  ASSUME MaskInv, PlainKept, [MaskNext]_maskVars
  PROVE  PlainKept'
<1>1. CASE (\E s \in Secrets : AddSecret(s)) \/ FlushBegin
  BY <1>1 DEF AddSecret, FlushBegin, locals, PlainKept, Pending, Quiet
<1>2. CASE \E w \in Writers : \E p \in Chunks : Write(w, p)
  BY <1>2, WritePlain
<1>3. CASE \E w \in Writers : AppendRead(w) \/ AppendWrite(w) \/ Look(w) \/ Take(w)
  BY <1>3, AppendPlain
<1>4. CASE \E w \in Writers : Emit(w)
  BY <1>4, EmitPlain
<1>5. CASE Flush
  BY <1>5, FlushPlain
<1>6. CASE Done \/ UNCHANGED maskVars
  BY <1>6 DEF Done, maskVars, locals, ghosts, PlainKept, Pending, Quiet
<1> QED
  BY <1>1, <1>2, <1>3, <1>4, <1>5, <1>6 DEF MaskNext

LEMMA PlainKeptNothingLost ==
  ASSUME MaskInv, PlainKept
  PROVE  NothingLost
<1>1. PlainText(out \o buf) = PlainText(out) \o PlainText(buf)
  BY PlainConcat DEF MaskInv, MaskTypeOK
<1> QED
  BY <1>1 DEF NothingLost, PlainKept

\* Every variable of the masker keeps its type.
THEOREM MaskTypesKept == MaskSpec => []MaskTypeOK
<1>1. MaskInv /\ [MaskNext]_maskVars => MaskInv'
  BY MaskNextInv
<1>2. MaskInv => MaskTypeOK
  BY DEF MaskInv
<1> QED
  BY <1>1, <1>2, MaskInitInv, PTL DEF MaskSpec

\* MaskedAsAWhole: however the text is cut into writes, whole lines at a time, the output
\* is the mask of all that was written.
THEOREM OutputMasked == MaskSpec => []MaskedAsAWhole
<1>1. MaskInv /\ [MaskNext]_maskVars => MaskInv'
  BY MaskNextInv
<1>2. MaskInv /\ MaskInv' /\ LinesMasked /\ [MaskNext]_maskVars => LinesMasked'
  BY LinesMaskedNext
<1>3. MaskInv /\ LinesMasked => MaskedAsAWhole
  BY LinesMaskedWhole
<1> QED
  BY <1>1, <1>2, <1>3, MaskInitInv, SplitInit, PTL DEF MaskSpec

\* NothingLost: masking, buffering and flushing pass on what is no secret, once and in order.
THEOREM OutputKept == MaskSpec => []NothingLost
<1>1. MaskInv /\ [MaskNext]_maskVars => MaskInv'
  BY MaskNextInv
<1>2. MaskInv /\ PlainKept /\ [MaskNext]_maskVars => PlainKept'
  BY PlainNext
<1>3. MaskInv /\ PlainKept => NothingLost
  BY PlainKeptNothingLost
<1> QED
  BY <1>1, <1>2, <1>3, MaskInitInv, PlainInit, PTL DEF MaskSpec
=============================================================================
