---------------------------- MODULE MCRunnerPool ----------------------------
(***************************************************************************)
(* An instance of RunnerPool for TLC, in which job 1 has a forgiven step   *)
(* before one that must succeed and the others have no steps.              *)
(***************************************************************************)
EXTENDS RunnerPool, TLC

MixedSteps == [j \in AllJobs |-> IF j = 1 THEN <<TRUE, FALSE>> ELSE <<>>]

Symmetry == Permutations(Workers)
=============================================================================
