---------------------------- MODULE MCLocalCache ----------------------------
(***************************************************************************)
(* Instances of LocalCache for TLC; keys are interchangeable.  The two     *)
(* eviction loops, written as the code has them, are compared with the one *)
(* definition that stands for both.                                        *)
(***************************************************************************)
EXTENDS LocalCache, SequencesExt

Symmetry == Permutations(Keys)

\* evictLRU: find the oldest entry and remove it, as long as the rest exceeds the limit.
RECURSIVE evictLoop(_, _)
evictLoop(idx, max) ==
  IF max = 0 \/ totalSize(idx) <= max \/ DOMAIN idx = {} THEN idx
  ELSE LET oldest == CHOOSE k \in DOMAIN idx : \A j \in DOMAIN idx : idx[k].used <= idx[j].used
       IN evictLoop(Without(idx, {oldest}), max)

\* Prune: sort the entries by their last use once, then remove them from the front.
RECURSIVE pruneLoop(_, _, _)
pruneLoop(entries, idx, max) ==
  IF entries = <<>> \/ max = 0 \/ totalSize(idx) <= max THEN idx
  ELSE pruneLoop(Tail(entries), Without(idx, {Head(entries)}), max)

Sorted(idx) == SetToSortSeq(DOMAIN idx, LAMBDA i, j : idx[i].used < idx[j].used)

\* Indexes of up to four entries, none used at the same time as another.
Indexes ==
  UNION {{[k \in 1..n |-> [size |-> size[k], used |-> used[k], expires |-> 0]] :
            size \in [1..n -> 1..3], used \in {u \in [1..n -> 1..4] : IsInjective(u)}} : n \in 0..4}

ASSUME LoopsAgree ==
  \A idx \in Indexes, max \in 0..6 :
    /\ evictLRU(idx, max) = evictLoop(idx, max)
    /\ evictLRU(idx, max) = pruneLoop(Sorted(idx), idx, max)
=============================================================================
