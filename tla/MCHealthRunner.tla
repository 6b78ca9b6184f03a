--------------------------- MODULE MCHealthRunner ---------------------------
(* Symmetry sets for TLC's runs of HealthRunner.                            *)
EXTENDS HealthRunner, TLC

\* Safety runs only: nothing distinguishes two targets, configurations or
\* goroutine slots.
MCSymmetry ==
  Permutations(Targets) \cup Permutations(Configs) \cup Permutations(Runs)
=============================================================================
