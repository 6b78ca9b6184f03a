----------------------------- MODULE MCConnPool -----------------------------
(* Symmetry sets for TLC's safety runs of ConnPool.                         *)
EXTENDS ConnPool, TLC

MCSymmetry ==
  Permutations(Readers) \cup Permutations(Writers) \cup Permutations(Targets)
=============================================================================
