-------------------------- MODULE MCArtifactStore --------------------------
(***************************************************************************)
(* Instances of ArtifactStore for TLC; clients are interchangeable, and    *)
(* so are names.                                                           *)
(***************************************************************************)
EXTENDS ArtifactStore, TLC

Symmetry == Permutations(Clients) \cup Permutations(Names)
=============================================================================
