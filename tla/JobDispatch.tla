---------------------------- MODULE JobDispatch ----------------------------
(***************************************************************************)
(* What a runner pool promises about the jobs GitHub hands out, without    *)
(* pollers, channels and workers: a job is acquired at most once, is run   *)
(* at most once, only after it was acquired, and never more jobs run than  *)
(* the pool's concurrency.  A job may be lost on the way: the code accepts *)
(* that (a lost answer, a shutdown, an executor that cannot be made).      *)
(***************************************************************************)
EXTENDS Naturals, FiniteSets

CONSTANTS Jobs,  \* the jobs
          Limit  \* how many may run at once

VARIABLE phase

Phases == {"queued", "waiting", "running", "gone"}

RunningSet == {j \in Jobs : phase[j] = "running"}

Init == phase = [j \in Jobs |-> "queued"]

Acquire(j) == phase[j] = "queued" /\ phase' = [phase EXCEPT ![j] = "waiting"]

Lose(j) == phase[j] \in {"queued", "waiting"} /\ phase' = [phase EXCEPT ![j] = "gone"]

Start(j) ==
  /\ phase[j] = "waiting"
  /\ Cardinality(RunningSet) < Limit
  /\ phase' = [phase EXCEPT ![j] = "running"]

Finish(j) == phase[j] = "running" /\ phase' = [phase EXCEPT ![j] = "gone"]

Next == \E j \in Jobs : Acquire(j) \/ Lose(j) \/ Start(j) \/ Finish(j)

Spec == Init /\ [][Next]_phase
=============================================================================
