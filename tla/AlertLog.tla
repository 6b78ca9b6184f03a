------------------------------ MODULE AlertLog ------------------------------
(***************************************************************************)
(* What the team reading the Slack or Discord channel is promised about    *)
(* the API targets it registered (docs/08_api_health_check_plan.md:14,59): *)
(* a message only when the status changed since the previous message, and  *)
(* only a status the service really had since then.  Nothing is said of    *)
(* jobs, checks, caches or the database: HealthRunner.tla implements this. *)
(***************************************************************************)
EXTENDS Naturals, Sequences

CONSTANTS
  Targets,              \* identifiers of health_targets rows, never reused
  Configs,              \* what a target may be registered to request
  Nil                   \* no registration

VARIABLES
  issued,               \* issued[t]: what t was registered with, Nil before
  svc,                  \* svc[t][c]: what a request of t's c gets now
  seen,                 \* seen[t][c]: what it has been since t's last alert
  alerts                \* alerts[t]: statuses sent to the channel for t

vars == <<issued, svc, seen, alerts>>

Statuses == {"ONLINE", "OFFLINE"}

\* What the channel makes its readers believe: a registered service is up
\* until an alert says otherwise.
Reported(t) == IF alerts[t] = <<>> THEN "ONLINE" ELSE alerts[t][Len(alerts[t])]

\* What t has been seen to be by a reader who looks now for the first time.
Now(t) == [c \in Configs |-> {svc[t][c]}]

Init ==
  /\ issued = [t \in Targets |-> Nil]
  /\ svc \in [Targets -> [Configs -> Statuses]]
  /\ seen = [t \in Targets |-> Now(t)]
  /\ alerts = [t \in Targets |-> <<>>]

Register(t, c) ==
  /\ issued[t] = Nil
  /\ issued' = [issued EXCEPT ![t] = c]
  /\ UNCHANGED <<svc, seen, alerts>>

Flip(t, c, s) ==
  /\ svc' = [svc EXCEPT ![t][c] = s]
  /\ seen' = [seen EXCEPT ![t][c] = @ \cup {s}]
  /\ UNCHANGED <<issued, alerts>>

Announce(t, s) ==
  /\ issued[t] # Nil
  /\ s # Reported(t)
  /\ s \in seen[t][issued[t]]
  /\ alerts' = [alerts EXCEPT ![t] = Append(@, s)]
  /\ seen' = [seen EXCEPT ![t] = Now(t)]
  /\ UNCHANGED <<issued, svc>>

Next ==
  \E t \in Targets :
    \/ \E s \in Statuses : Announce(t, s)
    \/ \E c \in Configs : Register(t, c) \/ \E s \in Statuses : Flip(t, c, s)

Spec == Init /\ [][Next]_vars
=============================================================================
