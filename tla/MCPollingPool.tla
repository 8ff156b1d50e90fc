--------------------------- MODULE MCPollingPool ---------------------------
(***************************************************************************)
(* An instance of PollingPool for TLC, in which job 1 has a single step.   *)
(***************************************************************************)
EXTENDS PollingPool

OneStep == [j \in AllJobs |-> IF j = 1 THEN <<FALSE>> ELSE <<>>]
=============================================================================
