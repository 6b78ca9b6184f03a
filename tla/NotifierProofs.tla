--------------------------- MODULE NotifierProofs ---------------------------
(***************************************************************************)
(* Proofs about Notifier.tla, for any number of channels, targets and      *)
(* alerts.  A step of it is a step of the runner or of one delivery, so    *)
(* what HealthRunnerProofs and HealthRunnerAlertProofs say carries over.   *)
(***************************************************************************)
EXTENDS Notifier, HealthRunnerAlertProofs

-----------------------------------------------------------------------------
(* Sequences of message numbers.                                           *)

\* One more message in an inbox.
LEMMA AppendNew ==
  ASSUME NEW S, NEW s \in Seq(S), NEW e \in S
  PROVE  /\ Append(s, e) \in Seq(S)
         /\ ToSet(Append(s, e)) = ToSet(s) \cup {e}
         /\ IsInjective(s) /\ e \notin ToSet(s) => IsInjective(Append(s, e))
<1> DEFINE new == Append(s, e)
<1>1. /\ new \in Seq(S) /\ Len(new) = Len(s) + 1 /\ Len(s) \in Nat
      /\ \A i \in 1 .. Len(s) : new[i] = s[i]
      /\ new[Len(s) + 1] = e
  BY AppendProperties
<1>2. DOMAIN new = 1 .. Len(s) + 1 /\ DOMAIN s = 1 .. Len(s)
  BY <1>1
<1> HIDE DEF new
<1>3. ToSet(new) = ToSet(s) \cup {e}
  BY <1>1, <1>2 DEF ToSet
<1>4. ASSUME IsInjective(s), e \notin ToSet(s) PROVE IsInjective(new)
  <2>1. \A i \in 1 .. Len(s) : new[i] # e
    BY <1>1, <1>2, <1>4 DEF ToSet
  <2>2. ASSUME NEW i \in 1 .. Len(s) + 1, NEW j \in 1 .. Len(s) + 1,
               new[i] = new[j]
        PROVE  i = j
    <3>1. CASE i \in 1 .. Len(s) /\ j \in 1 .. Len(s)
      BY <1>1, <1>2, <1>4, <2>2, <3>1 DEF IsInjective
    <3>2. CASE i = Len(s) + 1 \/ j = Len(s) + 1
      BY <1>1, <2>1, <2>2, <3>2
    <3>3. QED
      BY <1>1, <3>1, <3>2
  <2>3. QED
    BY <1>2, <2>2 DEF IsInjective
<1>5. QED
  BY <1>1, <1>3, <1>4 DEF new

\* Messages as pairs of a target and a number.
LEMMA Pairs ==
  ASSUME NEW t, NEW A
  PROVE  \A m : m \in {t} \X A <=> \E n \in A : m = <<t, n>>
OBVIOUS

-----------------------------------------------------------------------------
(* The runner within the notifier.                                         *)

LEMMA RunnerSteps ==
  ASSUME [NotifierNext]_notifierVars PROVE [Next]_vars
BY DEF NotifierNext, RunnerStep, ProcessKillsDeliveries, PostJSON, Deliver,
       Lose, notifierVars, Next

\* What happens to alerts after SendAlert is no business of the runner: the
\* notifier behaves as HealthRunner does, and all that is proved of that holds.
THEOREM RunnerImplemented == NotifierSpec => Spec
<1>1. NotifierInit => Init
  BY DEF NotifierInit
<1>2. [NotifierNext]_notifierVars => [Next]_vars
  BY RunnerSteps
<1>3. QED
  BY <1>1, <1>2, PTL DEF NotifierSpec, Spec

\* A step of the runner announces one status of one target, or nothing.
LEMMA AlertsGrow ==
  ASSUME TypeOK, [Next]_vars
  PROVE  \/ UNCHANGED alerts
         \/ \E t \in Targets : \E s \in Statuses :
              alerts' = [alerts EXCEPT ![t] = Append(@, s)]
<1>1. ASSUME NEW r \in Runs, Alert(r)
      PROVE  /\ target[r] \in Targets /\ res[r] \in Statuses
             /\ alerts' = [alerts EXCEPT ![target[r]] = Append(@, res[r])]
  BY <1>1 DEF Alert, TypeOK, LoopsOK
<1>2. QED
  BY <1>1, OtherStep

\* The message that goes out with an announcement.
LEMMA OneNewAlert ==
  ASSUME TypeOK, NEW t \in Targets, NEW s \in Statuses,
         alerts' = [alerts EXCEPT ![t] = Append(@, s)]
  PROVE  /\ NewAlerts = {<<t, Len(alerts[t]) + 1>>}
         /\ Len(alerts[t]) \in Nat /\ Len(alerts'[t]) = Len(alerts[t]) + 1
         /\ \A u \in Targets \ {t} : alerts'[u] = alerts[u]
<1>1. alerts \in [Targets -> Seq(Statuses)]
  BY DEF TypeOK, OutsideOK
<1>2. /\ Len(alerts[t]) \in Nat /\ Len(alerts'[t]) = Len(alerts[t]) + 1
      /\ \A u \in Targets \ {t} : alerts'[u] = alerts[u]
  <2>1. /\ alerts[t] \in Seq(Statuses) /\ alerts'[t] = Append(alerts[t], s)
        /\ \A u \in Targets \ {t} : alerts'[u] = alerts[u]
    BY <1>1
  <2>2. QED
    BY <2>1, AppendProperties
<1>3. {u \in Targets : alerts'[u] # alerts[u]} = {t}
  <2>1. ASSUME alerts'[t] = alerts[t] PROVE FALSE
    <3>1. Len(alerts'[t]) = Len(alerts[t])
      BY <2>1
    <3>2. QED
      BY <1>2, <3>1
  <2>2. QED
    BY <1>2, <2>1
<1>4. QED
  BY <1>2, <1>3 DEF NewAlerts

-----------------------------------------------------------------------------
(* The fate of each message.                                               *)

\* OneFate, one message at a time: n is a message of t exactly if it is in one
\* of the three places, and it is in no two of them.
Fates(ch, t) ==
  /\ IsInjective(inbox[ch][t])
  /\ \A n \in Nat \ {0} :
       /\ n \in 1 .. Len(alerts[t]) <=> \/ n \in Arrived(ch, t)
                                        \/ <<t, n>> \in pending[ch]
                                        \/ <<t, n>> \in lost[ch]
       /\ ~(n \in Arrived(ch, t) /\ <<t, n>> \in pending[ch])
       /\ ~(n \in Arrived(ch, t) /\ <<t, n>> \in lost[ch])
       /\ ~(<<t, n>> \in pending[ch] /\ <<t, n>> \in lost[ch])

FateInv ==
  /\ TypeOK /\ DeliveryOK
  /\ \A ch \in Channels, t \in Targets : Fates(ch, t)

LEMMA InboxType ==
  ASSUME DeliveryOK, NEW ch \in Channels, NEW t \in Targets
  PROVE  inbox[ch][t] \in Seq(Nat \ {0}) /\ Arrived(ch, t) \subseteq Nat \ {0}
BY ElementOfSeq DEF DeliveryOK, Arrived, ToSet

LEMMA FatesSuffice == FateInv => OneFate
<1> SUFFICES ASSUME FateInv, NEW ch \in Channels, NEW t \in Targets
             PROVE  LET here == {t} \X Arrived(ch, t)
                        away == {m \in pending[ch] : m[1] = t}
                        gone == {m \in lost[ch] : m[1] = t}
                    IN  /\ IsInjective(inbox[ch][t])
                        /\ here \cup away \cup gone = Sent(t)
                        /\ here \cap away = {} /\ here \cap gone = {}
                        /\ away \cap gone = {}
  BY DEF OneFate
<1> DEFINE arr == Arrived(ch, t)
           len == 1 .. Len(alerts[t])
           here == {t} \X arr
           away == {m \in pending[ch] : m[1] = t}
           gone == {m \in lost[ch] : m[1] = t}
<1> DEFINE N == Nat \ {0}
<1>1. Fates(ch, t) /\ Arrived(ch, t) \subseteq N
      /\ 1 .. Len(alerts[t]) \subseteq N
      /\ pending[ch] \in SUBSET (Targets \X N)
      /\ lost[ch] \in SUBSET (Targets \X N)
  BY InboxType DEF FateInv, DeliveryOK, TypeOK, OutsideOK
<1>2. /\ \A m : m \in here <=> \E n \in arr : m = <<t, n>>
      /\ \A m : m \in Sent(t) <=> \E n \in len : m = <<t, n>>
  <2> HIDE DEF arr, len
  <2>1. QED
    BY Pairs DEF Sent, arr, len
<1>3. /\ \A m : m \in away <=>
               \E n \in N : m = <<t, n>> /\ <<t, n>> \in pending[ch]
      /\ \A m : m \in gone <=>
               \E n \in N : m = <<t, n>> /\ <<t, n>> \in lost[ch]
  <2> HIDE DEF N
  <2>1. ASSUME NEW P \in SUBSET (Targets \X N), NEW m
        PROVE  m \in P /\ m[1] = t
                 <=> \E n \in N : m = <<t, n>> /\ <<t, n>> \in P
    <3>1. ASSUME m \in P, m[1] = t
          PROVE  \E n \in N : m = <<t, n>> /\ <<t, n>> \in P
      <4>1. PICK u \in Targets, n \in N : m = <<u, n>>
        BY <3>1
      <4>2. QED
        BY <3>1, <4>1
    <3>2. ASSUME NEW n \in N, m = <<t, n>>, <<t, n>> \in P
          PROVE  m \in P /\ m[1] = t
      BY <3>2
    <3>3. QED
      BY <3>1, <3>2
  <2>2. pending[ch] \in SUBSET (Targets \X N) /\ lost[ch] \in SUBSET (Targets \X N)
    BY <1>1
  <2>3. QED
    BY <2>1, <2>2
<1>6. \A n, k : <<t, n>> = <<t, k>> => n = k
  OBVIOUS
<1>5. /\ \A n \in N :
          /\ n \in len <=> \/ n \in arr \/ <<t, n>> \in pending[ch]
                            \/ <<t, n>> \in lost[ch]
          /\ ~(n \in arr /\ <<t, n>> \in pending[ch])
          /\ ~(n \in arr /\ <<t, n>> \in lost[ch])
          /\ ~(<<t, n>> \in pending[ch] /\ <<t, n>> \in lost[ch])
      /\ arr \subseteq N /\ len \subseteq N
  BY <1>1 DEF Fates
<1> HIDE DEF N, arr, len, here, away, gone
<1>7. here \cup away \cup gone = Sent(t)
  BY <1>2, <1>3, <1>5, Zenon
<1>8. here \cap away = {} /\ here \cap gone = {} /\ away \cap gone = {}
  BY <1>2, <1>3, <1>5, <1>6, Zenon
<1>9. QED
  BY <1>1, <1>7, <1>8 DEF Fates, here, away, gone, arr

LEMMA InitFates == NotifierInit => FateInv
<1> SUFFICES ASSUME NotifierInit PROVE FateInv
  OBVIOUS
<1>1. /\ pending = [ch \in Channels |-> {}] /\ lost = [ch \in Channels |-> {}]
      /\ inbox = [ch \in Channels |-> [t \in Targets |-> <<>>]]
      /\ Init /\ alerts = [t \in Targets |-> <<>>]
  BY DEF NotifierInit, Init
<1>2. DeliveryOK
  BY <1>1, EmptySeq DEF DeliveryOK
<1>3. ASSUME NEW ch \in Channels, NEW t \in Targets PROVE Fates(ch, t)
  <2>1. inbox[ch][t] = <<>> /\ alerts[t] = <<>>
        /\ pending[ch] = {} /\ lost[ch] = {}
    BY <1>1
  <2>2. Arrived(ch, t) = {} /\ IsInjective(inbox[ch][t])
    BY <2>1 DEF Arrived, ToSet, IsInjective
  <2>3. QED
    BY <2>1, <2>2 DEF Fates
<1>4. QED
  BY <1>1, <1>2, <1>3, InitType DEF FateInv

\* What Fates reads.
LEMMA KeepFates ==
  ASSUME NEW ch \in Channels, NEW t \in Targets, Fates(ch, t),
         alerts'[t] = alerts[t], inbox'[ch][t] = inbox[ch][t],
         \A n : <<t, n>> \in pending'[ch] <=> <<t, n>> \in pending[ch],
         \A n : <<t, n>> \in lost'[ch] <=> <<t, n>> \in lost[ch]
  PROVE  Fates(ch, t)'
BY DEF Fates, Arrived

LEMMA RunnerFates == FateInv /\ RunnerStep => FateInv'
<1> SUFFICES ASSUME FateInv, RunnerStep PROVE FateInv'
  OBVIOUS
<1>0. TypeOK' /\ UNCHANGED <<inbox, lost>>
      /\ \A ch \in Channels : pending'[ch] = pending[ch] \cup NewAlerts
  BY NextType DEF RunnerStep, FateInv
<1>1. CASE UNCHANGED alerts
  <2>1. NewAlerts = {}
    BY <1>1 DEF NewAlerts
  <2>2. DeliveryOK'
    BY <1>0, <2>1 DEF RunnerStep, FateInv, DeliveryOK
  <2>3. \A ch \in Channels, t \in Targets : Fates(ch, t)'
    BY <1>0, <1>1, <2>1, KeepFates DEF FateInv
  <2>4. QED
    BY <1>0, <2>2, <2>3 DEF FateInv
<1>2. ASSUME NEW t \in Targets, NEW s \in Statuses,
             alerts' = [alerts EXCEPT ![t] = Append(@, s)]
      PROVE  FateInv'
  <2> DEFINE k == Len(alerts[t]) + 1
  <2>1. /\ NewAlerts = {<<t, k>>} /\ k \in Nat \ {0}
        /\ Len(alerts[t]) \in Nat /\ Len(alerts'[t]) = k
        /\ \A u \in Targets \ {t} : alerts'[u] = alerts[u]
    <3>1. /\ NewAlerts = {<<t, Len(alerts[t]) + 1>>}
          /\ Len(alerts[t]) \in Nat /\ Len(alerts'[t]) = Len(alerts[t]) + 1
          /\ \A u \in Targets \ {t} : alerts'[u] = alerts[u]
      BY <1>2, OneNewAlert DEF FateInv
    <3>2. QED
      BY <3>1
  <2>2. DeliveryOK'
    <3>1. NewAlerts \in SUBSET (Targets \X (Nat \ {0}))
      BY <2>1
    <3>2. pending' = [ch \in Channels |-> pending[ch] \cup NewAlerts]
      BY DEF RunnerStep
    <3>3. QED
      BY <1>0, <3>1, <3>2 DEF FateInv, DeliveryOK
  <2>3. ASSUME NEW ch \in Channels, NEW u \in Targets, u # t
        PROVE  Fates(ch, u)'
    <3>1. \A n : <<u, n>> \in pending'[ch] <=> <<u, n>> \in pending[ch]
      BY <1>0, <2>1, <2>3
    <3>2. QED
      BY <1>0, <2>1, <2>3, <3>1, KeepFates DEF FateInv
  <2>4. ASSUME NEW ch \in Channels PROVE Fates(ch, t)'
    <3>1. \A n : <<t, n>> \in pending'[ch] <=> <<t, n>> \in pending[ch] \/ n = k
      BY <1>0, <2>1
    <3>2. \A n : n \in 1 .. Len(alerts'[t]) <=> n \in 1 .. Len(alerts[t]) \/ n = k
      BY <2>1
    <3>3. k \notin 1 .. Len(alerts[t])
      BY <2>1
    <3>4. Fates(ch, t) /\ UNCHANGED Arrived(ch, t)
          /\ inbox'[ch][t] = inbox[ch][t] /\ lost'[ch] = lost[ch]
      BY <1>0 DEF FateInv, Arrived
    <3> HIDE DEF k
    <3>5. QED
      BY <2>1, <3>1, <3>2, <3>3, <3>4 DEF Fates
  <2>5. QED
    BY <1>0, <2>2, <2>3, <2>4 DEF FateInv
<1>3. QED
  BY <1>1, <1>2, AlertsGrow DEF FateInv, RunnerStep

LEMMA KillFates == FateInv /\ ProcessKillsDeliveries => FateInv'
<1> SUFFICES ASSUME FateInv, ProcessKillsDeliveries PROVE FateInv'
  OBVIOUS
<1>1. /\ TypeOK' /\ UNCHANGED <<alerts, inbox>>
      /\ pending' = [ch \in Channels |-> {}]
      /\ lost' = [ch \in Channels |-> lost[ch] \cup pending[ch]]
  BY NextType DEF ProcessKillsDeliveries, ProcessEnds, envVars, FateInv, Next
<1>2. DeliveryOK'
  BY <1>1 DEF FateInv, DeliveryOK
<1>3. ASSUME NEW ch \in Channels, NEW t \in Targets PROVE Fates(ch, t)'
  <2>1. /\ Fates(ch, t) /\ UNCHANGED Arrived(ch, t)
        /\ pending'[ch] = {} /\ lost'[ch] = lost[ch] \cup pending[ch]
    BY <1>1 DEF FateInv, Arrived
  <2>2. QED
    BY <1>1, <2>1 DEF Fates
<1>4. QED
  BY <1>1, <1>2, <1>3 DEF FateInv

\* One attempt to deliver ends; what becomes of the others stays open.
LEMMA PostFates ==
  ASSUME FateInv, NEW ch \in Channels, NEW t \in Targets,
         NEW n \in 1 .. Len(alerts[t]), Deliver(ch, t, n) \/ Lose(ch, t, n)
  PROVE  FateInv'
<1>1. /\ TypeOK' /\ UNCHANGED alerts /\ n \in Nat \ {0}
      /\ <<t, n>> \in pending[ch]
      /\ pending' = [pending EXCEPT ![ch] = @ \ {<<t, n>>}]
  BY NextType DEF Deliver, Lose, vars, envVars, FateInv, TypeOK, OutsideOK
<1>2. /\ n \notin Arrived(ch, t) /\ <<t, n>> \notin lost[ch]
      /\ inbox[ch][t] \in Seq(Nat \ {0})
  BY <1>1, InboxType DEF FateInv, Fates
<1>3. /\ \A c \in Channels \ {ch} : pending'[c] = pending[c]
      /\ \A u, k : <<u, k>> \in pending'[ch]
                   <=> <<u, k>> \in pending[ch] /\ <<u, k>> # <<t, n>>
  BY <1>1 DEF FateInv, DeliveryOK
<1>4. CASE Deliver(ch, t, n)
  <2>1. /\ lost' = lost
        /\ inbox' = [inbox EXCEPT ![ch][t] = Append(@, n)]
    BY <1>4 DEF Deliver
  <2>2. inbox'[ch][t] = Append(inbox[ch][t], n)
        /\ \A c \in Channels, u \in Targets :
             c # ch \/ u # t => inbox'[c][u] = inbox[c][u]
    BY <2>1 DEF FateInv, DeliveryOK
  <2>3. DeliveryOK'
    <3>1. Append(inbox[ch][t], n) \in Seq(Nat \ {0})
      BY <1>1, <1>2, AppendNew
    <3>2. QED
      BY <1>1, <2>1, <3>1 DEF FateInv, DeliveryOK
  <2>4. /\ Arrived(ch, t)' = Arrived(ch, t) \cup {n}
        /\ IsInjective(inbox'[ch][t])
    <3>1. IsInjective(inbox[ch][t])
      BY DEF FateInv, Fates
    <3>2. QED
      BY <1>1, <1>2, <2>2, <3>1, AppendNew DEF Arrived
  <2>5. Fates(ch, t)'
    BY <1>1, <1>2, <1>3, <2>1, <2>4 DEF FateInv, Fates
  <2>6. ASSUME NEW c \in Channels, NEW u \in Targets, c # ch \/ u # t
        PROVE  Fates(c, u)'
    BY <1>1, <1>3, <2>1, <2>2, <2>6, KeepFates DEF FateInv
  <2>7. QED
    BY <1>1, <2>3, <2>5, <2>6 DEF FateInv
<1>5. CASE Lose(ch, t, n)
  <2>1. /\ inbox' = inbox /\ lost' = [lost EXCEPT ![ch] = @ \cup {<<t, n>>}]
    BY <1>5 DEF Lose
  <2>2. /\ \A c \in Channels \ {ch} : lost'[c] = lost[c]
        /\ \A u, k : <<u, k>> \in lost'[ch]
                     <=> <<u, k>> \in lost[ch] \/ <<u, k>> = <<t, n>>
    BY <2>1 DEF FateInv, DeliveryOK
  <2>3. DeliveryOK'
    BY <1>1, <2>1 DEF FateInv, DeliveryOK
  <2>4. Fates(ch, t)'
    <3>1. UNCHANGED Arrived(ch, t) /\ inbox'[ch][t] = inbox[ch][t]
      BY <2>1 DEF Arrived
    <3>2. QED
      BY <1>1, <1>2, <1>3, <2>2, <3>1 DEF FateInv, Fates
  <2>5. ASSUME NEW c \in Channels, NEW u \in Targets, c # ch \/ u # t
        PROVE  Fates(c, u)'
    BY <1>1, <1>3, <2>1, <2>2, <2>5, KeepFates DEF FateInv
  <2>6. QED
    BY <1>1, <2>3, <2>4, <2>5 DEF FateInv
<1>6. QED
  BY <1>4, <1>5

LEMMA NextFates == FateInv /\ [NotifierNext]_notifierVars => FateInv'
<1> SUFFICES ASSUME FateInv, [NotifierNext]_notifierVars PROVE FateInv'
  OBVIOUS
<1>1. CASE UNCHANGED notifierVars
  <2>1. UNCHANGED <<alerts, pending, inbox, lost>> /\ UNCHANGED vars
    BY <1>1 DEF notifierVars, deliveryVars, vars, envVars
  <2>2. TypeOK' /\ DeliveryOK'
    BY <2>1, NextType DEF FateInv, DeliveryOK
  <2>3. QED
    BY <2>1, <2>2, KeepFates DEF FateInv
<1>2. QED
  BY <1>1, RunnerFates, KillFates, PostFates DEF NotifierNext, PostJSON

\* For any channels, deliveries, failures, edits and restarts, each alert that
\* SendAlert was given is under way to a channel, has arrived there once or is
\* lost, be it by a failed send or with the process; nothing else arrives
\* (notifier.go:31).
THEOREM EveryFateIsOne == NotifierSpec => []OneFate
<1>1. QED
  BY InitFates, NextFates, FatesSuffice, PTL DEF NotifierSpec

-----------------------------------------------------------------------------
(* The safe half of ChannelTruthful.                                       *)

\* Cache, checks and channel ch say that t is in state s, and nothing else about
\* t is on its way to the channel.
Told(ch, t, s) ==
  /\ Agreed(t, s) /\ Shown(ch, t) = s
  /\ \A n \in Nat : <<t, n>> \notin pending[ch]

\* The only step that announces a status of t is an Alert of one of its loops.
LEMMA AgreedIsQuiet ==
  ASSUME TypeOK, [Next]_vars, NEW t \in Targets, NEW s \in Statuses,
         Agreed(t, s)
  PROVE  alerts'[t] = alerts[t]
<1>1. ASSUME NEW r \in Runs, Alert(r) PROVE alerts'[t] = alerts[t]
  <2>1. /\ pc[r] = "alert" /\ target[r] \in Targets
        /\ alerts' = [alerts EXCEPT ![target[r]] = Append(@, res[r])]
    BY <1>1 DEF Alert, TypeOK, LoopsOK
  <2>2. target[r] # t
    BY <2>1 DEF Agreed, LoopsOf, Live
  <2>3. QED
    BY <2>1, <2>2 DEF TypeOK, OutsideOK
<1>2. QED
  BY <1>1, OtherStep

LEMMA ToldStep ==
  ASSUME TypeOK, DeliveryOK, [NotifierNext]_notifierVars, NEW ch \in Channels,
         NEW t \in Targets, NEW s \in Statuses, Told(ch, t, s),
         Steady(t, s), Steady(t, s)'
  PROVE  Told(ch, t, s)'
<1>1. Agreed(t, s)' /\ alerts'[t] = alerts[t]
  BY RunnerSteps, AgreedStep, AgreedIsQuiet DEF Told
<1>2. ASSUME inbox'[ch][t] = inbox[ch][t],
             \A n \in Nat : <<t, n>> \in pending'[ch] => <<t, n>> \in pending[ch]
      PROVE  Told(ch, t, s)'
  BY <1>1, <1>2 DEF Told, Shown
<1>3. CASE RunnerStep
  <2>1. /\ pending' = [c \in Channels |-> pending[c] \cup NewAlerts]
        /\ inbox' = inbox
    BY <1>3 DEF RunnerStep
  <2>2. \A n \in Nat : <<t, n>> \notin NewAlerts
    BY <1>1 DEF NewAlerts
  <2>3. QED
    BY <1>2, <2>1, <2>2
<1>4. ~ProcessKillsDeliveries
  BY DEF ProcessKillsDeliveries, ProcessEnds, Steady
<1>5. ASSUME NEW c \in Channels, NEW u \in Targets,
             NEW n \in 1 .. Len(alerts[u]), Deliver(c, u, n) \/ Lose(c, u, n)
      PROVE  Told(ch, t, s)'
  <2>1. /\ <<u, n>> \in pending[c] /\ n \in Nat
        /\ pending' = [pending EXCEPT ![c] = @ \ {<<u, n>>}]
        /\ \/ inbox' = [inbox EXCEPT ![c][u] = Append(@, n)]
           \/ inbox' = inbox
    BY <1>5 DEF Deliver, Lose, TypeOK, OutsideOK
  <2>2. c # ch \/ u # t
    BY <2>1 DEF Told
  <2>3. inbox'[ch][t] = inbox[ch][t]
    BY <2>1, <2>2 DEF DeliveryOK
  <2>4. pending'[ch] \subseteq pending[ch]
    BY <2>1 DEF DeliveryOK
  <2>5. QED
    BY <1>2, <2>3, <2>4
<1>6. CASE UNCHANGED notifierVars
  BY <1>2, <1>6 DEF notifierVars, deliveryVars
<1>7. QED
  BY <1>3, <1>4, <1>5, <1>6 DEF NotifierNext, PostJSON

\* Once a channel shows what every loop of t finds, with no message of t still on
\* its way, the channel shows that state for as long as each of these loops goes
\* on finding it and the process lives, however long other messages take or are
\* lost.  An edit to a URL in another state ends the premise, as in
\* AgreedForGood.  What ChannelTruthful needs of fairness, and of an intact
\* channel, is only that the last message gets there.
THEOREM ToldForGood ==
  ASSUME NEW ch \in Channels, NEW t \in Targets, NEW s \in Statuses
  PROVE  NotifierSpec => [](Told(ch, t, s) /\ []Steady(t, s)
                              => [](Shown(ch, t) = s))
<1>1. FateInv /\ [NotifierNext]_notifierVars /\ Told(ch, t, s)
        /\ Steady(t, s) /\ Steady(t, s)' => Told(ch, t, s)'
  BY ToldStep DEF FateInv
<1>2. Told(ch, t, s) => Shown(ch, t) = s
  BY DEF Told
<1>3. QED
  BY <1>1, <1>2, InitFates, NextFates, PTL DEF NotifierSpec
=============================================================================
