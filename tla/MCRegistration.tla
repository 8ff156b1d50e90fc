--------------------------- MODULE MCRegistration ---------------------------
(***************************************************************************)
(* Instances of Registration for TLC.  The first names are interchangeable *)
(* only in states without a file, so there is no symmetry.                 *)
(***************************************************************************)
EXTENDS Registration
=============================================================================
