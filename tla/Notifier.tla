------------------------------ MODULE Notifier ------------------------------
(***************************************************************************)
(* HealthRunner with what follows SendAlert (server/notifier.go): for each *)
(* alert one goroutine per configured webhook posts the message, once, on  *)
(* its own time.  Nothing orders two of them, an error or a bad answer is  *)
(* ignored, and nobody waits for them when the process ends.  HealthRunner *)
(* ends at alerts, what SendAlert was called with; here the readers of a   *)
(* channel see only what has arrived.                                      *)
(***************************************************************************)
EXTENDS HealthRunner, SequencesExt

CONSTANT Channels       \* the webhooks that are configured: Slack, Discord

VARIABLES
  pending,      \* pending[ch]: the <<t, n>> whose goroutine still tries to
                \*   deliver the n-th alert of target t to channel ch
  inbox,        \* inbox[ch][t]: numbers of t's alerts in order of arrival
  lost          \* lost[ch]: the <<t, n>> that will never arrive

deliveryVars == <<pending, inbox, lost>>
notifierVars == <<vars, deliveryVars>>

NotifierInit ==
  /\ Init
  /\ pending = [ch \in Channels |-> {}]
  /\ inbox = [ch \in Channels |-> [t \in Targets |-> <<>>]]
  /\ lost = [ch \in Channels |-> {}]

NewAlertsOnOutage ==
  {<<t, Len(alerts'[t])>> : t \in {u \in Targets :
     alerts'[u] # alerts[u] /\ Last(alerts'[u]) = "OFFLINE"}}

\* The alerts that this step of the runner hands to SendAlert.
NewAlerts ==
  {<<t, Len(alerts'[t])>> : t \in {u \in Targets : alerts'[u] # alerts[u]}}

\* A step of the runner; SendAlert starts its goroutines and returns at once.
RunnerStep ==
  /\ Next
  /\ main' = "down" => main = "down"
  /\ pending' = [ch \in Channels |-> pending[ch] \cup NewAlerts]
  /\ UNCHANGED <<inbox, lost>>

\* The end of the process takes the goroutines with it.
ProcessKillsDeliveries ==
  /\ ProcessEnds
  /\ lost' = [ch \in Channels |-> lost[ch] \cup pending[ch]]
  /\ pending' = [ch \in Channels |-> {}]
  /\ UNCHANGED inbox

DeliverTwice(ch, t, n) ==
  /\ <<t, n>> \in pending[ch]
  /\ n \notin ToSet(inbox[ch][t])
  /\ inbox' = [inbox EXCEPT ![ch][t] = Append(@, n)]
  /\ UNCHANGED <<vars, pending, lost>>

\* postJSON reaches the webhook, at any time after SendAlert.
Deliver(ch, t, n) ==
  /\ <<t, n>> \in pending[ch]
  /\ pending' = [pending EXCEPT ![ch] = @ \ {<<t, n>>}]
  /\ inbox' = [inbox EXCEPT ![ch][t] = Append(@, n)]
  /\ UNCHANGED <<vars, lost>>

LoseSilently(ch, t, n) ==
  /\ <<t, n>> \in pending[ch]
  /\ pending' = [pending EXCEPT ![ch] = @ \ {<<t, n>>}]
  /\ UNCHANGED <<vars, inbox, lost>>

\* postJSON fails: no connection, the client's 10 seconds are over, or the
\* webhook refuses the message (the answer's status is not looked at).
Lose(ch, t, n) ==
  /\ <<t, n>> \in pending[ch]
  /\ pending' = [pending EXCEPT ![ch] = @ \ {<<t, n>>}]
  /\ lost' = [lost EXCEPT ![ch] = @ \cup {<<t, n>>}]
  /\ UNCHANGED <<vars, inbox>>

PostJSON(ch) ==
  \E t \in Targets : \E n \in 1 .. Len(alerts[t]) :
    Deliver(ch, t, n) \/ Lose(ch, t, n)

NotifierNext ==
  \/ RunnerStep
  \/ ProcessKillsDeliveries
  \/ \E ch \in Channels : PostJSON(ch)

NotifierSpec == NotifierInit /\ [][NotifierNext]_notifierVars

\* The client's timeout ends every attempt, one way or the other.
NotifierFairness ==
  /\ Fairness
  /\ \A ch \in Channels : WF_notifierVars(PostJSON(ch))

FairNotifierSpec == NotifierSpec /\ NotifierFairness

-----------------------------------------------------------------------------
(* Properties                                                              *)

DeliveryOK ==
  /\ pending \in [Channels -> SUBSET (Targets \X (Nat \ {0}))]
  /\ inbox \in [Channels -> [Targets -> Seq(Nat \ {0})]]
  /\ lost \in [Channels -> SUBSET (Targets \X (Nat \ {0}))]

Arrived(ch, t) == ToSet(inbox[ch][t])
Sent(t) == {t} \X (1 .. Len(alerts[t]))

\* Each alert has one fate per channel: it is under way, has arrived once or is
\* lost.  Nothing arrives twice, and nothing that SendAlert was not given.
OneFate ==
  \A ch \in Channels, t \in Targets :
    LET here == {t} \X Arrived(ch, t)
        away == {m \in pending[ch] : m[1] = t}
        gone == {m \in lost[ch] : m[1] = t}
    IN  /\ IsInjective(inbox[ch][t])
        /\ here \cup away \cup gone = Sent(t)
        /\ here \cap away = {} /\ here \cap gone = {} /\ away \cap gone = {}

\* What a reader of channel ch takes t's state to be: no alert, no outage.
Shown(ch, t) ==
  IF inbox[ch][t] = <<>> THEN "ONLINE" ELSE alerts[t][Last(inbox[ch][t])]

\* Nothing has been lost on the way to ch, nor has any alert overtaken another.
Intact(ch) ==
  /\ lost[ch] = {}
  /\ \A t \in Targets : inbox[ch][t] = [i \in DOMAIN inbox[ch][t] |-> i]

\* A channel that neither loses nor reorders ends up telling the state in which
\* a watched service stays, for every interleaving of checks and deliveries, as
\* long as no row was edited and the process not restarted on the way.
ChannelTruthful ==
  \A ch \in Channels, t \in Targets : \A s \in Statuses :
    ([]Intact(ch) /\ <>[](WatchedIn(t, s) /\ restarts = 0 /\ edits = 0))
      => <>[](Shown(ch, t) = s)
=============================================================================
