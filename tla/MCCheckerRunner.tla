--------------------------- MODULE MCCheckerRunner --------------------------
(* Symmetry sets for TLC's safety runs of CheckerRunner.                    *)
EXTENDS CheckerRunner, TLC

MCSymmetry ==
  Permutations(Targets) \cup Permutations(Configs) \cup Permutations(Runs)
=============================================================================
