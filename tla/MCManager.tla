----------------------------- MODULE MCManager -----------------------------
(***************************************************************************)
(* Instances of Manager for TLC: the configurations give the number of     *)
(* pools, the signals and the faults.                                      *)
(***************************************************************************)
EXTENDS Manager
=============================================================================
