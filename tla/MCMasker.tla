------------------------------ MODULE MCMasker ------------------------------
(***************************************************************************)
(* An instance of Masker for TLC: a secret of two pieces with an encoding  *)
(* of the same two, and a secret that is such a piece.                     *)
(*                                                                         *)
(* The recursive definitions of Masker, which are written for proofs, are  *)
(* compared with the folds and selections of the library.                  *)
(***************************************************************************)
EXTENDS Masker

Written == {<<"a">>, <<"b">>, <<Newline>>, <<Newline, "x", "a">>}

Registered ==
  [s \in {"s1", "s2"} |-> IF s = "s1" THEN <<<<"a", "b">>, <<"b", "a">>>> ELSE <<<<"a">>>>]

\* Masking is a fold over the patterns, plain text a selection.
ASSUME DefinitionsAgree ==
  LET ShortText == BoundedSeq({"a", "b", "x", Newline, Mask}, 4)
      ps == Registered["s1"] \o Registered["s2"]
  IN \A s \in ShortText :
       /\ maskString(s, ps) = FoldLeft(MaskPattern, s, ps)
       /\ PlainText(s) = SelectSeq(s, LAMBDA t : t \in Plain)

Symmetry == Permutations(Writers)
=============================================================================
