----------------------------- MODULE MCRetention -----------------------------
(* Values for TLC's runs of Retention that a configuration cannot spell.    *)
EXTENDS Retention

MCBehindUTC == {-1, 0}
MCAheadOfUTC == {2}
=============================================================================
