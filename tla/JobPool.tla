------------------------------- MODULE JobPool -------------------------------
(***************************************************************************)
(* What the job pools of the server (server/health_runner.go) and of the   *)
(* standalone checker (checker/runner.go) have in common: at any time at   *)
(* most one loop per target is meant to run; its configuration is replaced *)
(* only by telling it to stop and starting another; and a loop ends only   *)
(* after it was told to, or with its process.  No lists, locks, ticks or   *)
(* checks here: HealthRunner.tla and CheckerRunner.tla implement this.     *)
(***************************************************************************)
CONSTANTS
  Targets,
  Configs,
  Runs,         \* the loops that exist at the same time
  Nil           \* no configuration

VARIABLES
  up,           \* the process that owns the loops is running
  open,         \* open[t]: what the loop meant to watch t watches, or Nil
  ending        \* ending[t]: loops of t that have been told to stop

vars == <<up, open, ending>>

NoLoops ==
  /\ open = [t \in Targets |-> Nil]
  /\ ending = [t \in Targets |-> {}]

Init == up = TRUE /\ NoLoops

Start(t, c) ==
  /\ open[t] = Nil
  /\ open' = [open EXCEPT ![t] = c]
  /\ UNCHANGED <<up, ending>>

\* t's loop is told to stop; c is the configuration of the loop that takes its
\* place at once, Nil if there is none.
Replace(t, c) ==
  /\ open[t] \notin {Nil, c}
  /\ open' = [open EXCEPT ![t] = c]
  /\ \E r \in Runs \ ending[t] : ending' = [ending EXCEPT ![t] = @ \cup {r}]
  /\ UNCHANGED up

\* Every loop is told to stop.
StopAll ==
  /\ open' = [t \in Targets |-> Nil]
  /\ \E told \in [Targets -> SUBSET Runs] :
       /\ \A t \in Targets : told[t] \cap ending[t] = {}
       /\ \A t \in Targets :
            IF open[t] = Nil THEN told[t] = {} ELSE \E r \in Runs : told[t] = {r}
       /\ ending' = [t \in Targets |-> ending[t] \cup told[t]]
  /\ UNCHANGED up

End(t, r) ==
  /\ r \in ending[t]
  /\ ending' = [ending EXCEPT ![t] = @ \ {r}]
  /\ UNCHANGED <<up, open>>

ProcessEnds == up /\ up' = FALSE /\ NoLoops'

ProcessStarts == ~up /\ up' = TRUE /\ UNCHANGED <<open, ending>>

Next ==
  \/ \E t \in Targets :
       \/ \E c \in Configs : Start(t, c)
       \/ \E c \in Configs \cup {Nil} : Replace(t, c)
       \/ \E r \in Runs : End(t, r)
  \/ StopAll
  \/ ProcessEnds
  \/ ProcessStarts

Spec == Init /\ [][Next]_vars
=============================================================================
