---------------------------- MODULE MCMetricCache ----------------------------
(* Values for TLC's runs of MetricCache that a configuration cannot spell.  *)
EXTENDS MetricCache

\* One agent reports twice, the others once.
MCSends ==
  LET often == CHOOSE a \in Agents : TRUE
  IN  [a \in Agents |-> IF a = often THEN 2 ELSE 1]

MCOnce == [a \in Agents |-> 1]
=============================================================================
