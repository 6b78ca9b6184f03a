--------------------------- MODULE CardPageProofs ---------------------------
(***************************************************************************)
(* Proofs about CardPage.tla, for any items, any number of overlapping     *)
(* polls and any number of changes at the server.                          *)
(***************************************************************************)
EXTENDS CardPage, TLAPS

-----------------------------------------------------------------------------
(* The invariant.  What a poll carries is never newer than the server, of  *)
(* two polls the one answered later carries the newer data, and what an    *)
(* answer that was not overtaken carries is no older than the cards.       *)

ServerOK ==
  /\ version \in [Items -> 0 .. MaxVersion]
  /\ listed \in SUBSET Items
  /\ \A a \in listed : version[a] # 0

PollsOK ==
  /\ poll \in [Polls -> {"idle", "asked", "answered"}]
  /\ DOMAIN answer = Polls
  /\ earlier \in [Polls -> SUBSET Polls]
  /\ overtaken \in [Polls -> BOOLEAN]
  /\ \A p \in Polls :
       /\ DOMAIN answer[p] \subseteq Items
       /\ poll[p] # "answered" => answer[p] = NoList
       /\ \A a \in DOMAIN answer[p] : /\ answer[p][a] \in 1 .. MaxVersion
                                      /\ answer[p][a] <= version[a]

CardsOK ==
  /\ cards \in SUBSET Items /\ fading \in SUBSET cards
  /\ shown \in [Items -> 0 .. MaxVersion]
  /\ \A a \in Items : a \in cards <=> shown[a] # 0
  /\ \A a \in Items : shown[a] <= version[a]
  /\ empty \in BOOLEAN /\ visible \in BOOLEAN

Answered == {p \in Polls : poll[p] = "answered"}

\* What both of two answers name is newer in the one that was given later.
Ordered ==
  \A p, q \in Answered :
    p # q /\ q \notin earlier[p] =>
      \A a \in DOMAIN answer[p] \cap DOMAIN answer[q] :
        answer[p][a] <= answer[q][a]

\* The answer of a poll that was not overtaken is no older than the cards.
Fresh(p) ==
  poll[p] = "answered" /\ ~overtaken[p] =>
    \A a \in DOMAIN answer[p] : shown[a] <= answer[p][a]

IInv ==
  /\ ServerOK /\ PollsOK /\ CardsOK
  /\ EmptyStateHonest
  /\ Ordered
  /\ \A p \in Polls : Fresh(p)

LEMMA NoListDomain == DOMAIN NoList = {}
BY DEF NoList

LEMMA InitInv == Init => IInv
<1> SUFFICES ASSUME Init PROVE IInv
  OBVIOUS
<1>1. ServerOK
  BY PageAssumption DEF Init, ServerOK
<1>2. PollsOK
  BY NoListDomain DEF Init, PollsOK
<1>3. CardsOK
  <2>1. /\ cards = {} /\ fading = {} /\ empty = FALSE /\ visible \in BOOLEAN
        /\ shown = [a \in Items |-> 0] /\ version = [a \in Items |-> 0]
    BY DEF Init
  <2>2. \A a \in Items : shown[a] = 0 /\ version[a] = 0
    BY <2>1
  <2>3. shown \in [Items -> 0 .. MaxVersion]
    BY <2>1, PageAssumption
  <2>4. /\ \A a \in Items : a \in cards <=> shown[a] # 0
        /\ \A a \in Items : shown[a] <= version[a]
    BY <2>1, <2>2
  <2>5. empty \in BOOLEAN
    BY <2>1
  <2>6. QED
    BY <2>1, <2>3, <2>4, <2>5 DEF CardsOK
<1>4. EmptyStateHonest /\ Ordered /\ \A p \in Polls : Fresh(p)
  BY DEF Init, EmptyStateHonest, Ordered, Answered, Fresh
<1>5. QED
  BY <1>1, <1>2, <1>3, <1>4 DEF IInv

LEMMA ServerStep ==
  ASSUME IInv, NEW a \in Items, Change(a) \/ Unlist(a)
  PROVE  IInv'
<1> USE DEF IInv
<1>1. UNCHANGED <<pollVars, cardVars, visible>>
  BY DEF Change, Unlist
<1>2. CASE Change(a)
  <2>1. /\ version' = [version EXCEPT ![a] = @ + 1]
        /\ version[a] \in Nat /\ version[a] + 1 <= MaxVersion
        /\ listed' = listed \cup {a}
    BY <1>2, PageAssumption DEF Change, ServerOK
  <2>2. version' \in [Items -> 0 .. MaxVersion]
    BY <2>1, PageAssumption DEF ServerOK
  <2>3. \A b \in Items : version'[b] \in Nat /\ version'[b] >= version[b]
    BY <2>1, PageAssumption DEF ServerOK
  <2>4. ServerOK'
    BY <2>1, <2>2, <2>3, PageAssumption DEF ServerOK
  <2>5. PollsOK'
    BY <1>1, <2>3, PageAssumption DEF PollsOK, ServerOK, pollVars
  <2>6. CardsOK'
    BY <1>1, <2>3, PageAssumption DEF CardsOK, ServerOK, cardVars
  <2>7. QED
    BY <1>1, <2>4, <2>5, <2>6
    DEF pollVars, cardVars, EmptyStateHonest, Ordered, Answered, Fresh
<1>3. CASE Unlist(a)
  BY <1>1, <1>3
  DEF Unlist, ServerOK, PollsOK, CardsOK, pollVars, cardVars,
      EmptyStateHonest, Ordered, Answered, Fresh
<1>4. QED
  BY <1>2, <1>3

LEMMA AnswerStep == ASSUME IInv, NEW p \in Polls, Answer(p) PROVE IInv'
<1> USE DEF IInv
<1> DEFINE l == [a \in listed |-> version[a]]
<1>1. /\ answer' = [answer EXCEPT ![p] = l]
      /\ poll' = [poll EXCEPT ![p] = "answered"]
      /\ earlier' = [earlier EXCEPT ![p] = Answered]
      /\ UNCHANGED <<serverVars, overtaken, cardVars, visible>>
  BY DEF Answer, AnswerWith, Answered
<1>2. /\ DOMAIN l = listed
      /\ \A a \in listed : /\ l[a] \in 1 .. MaxVersion /\ l[a] = version[a]
                           /\ shown[a] <= l[a]
  BY PageAssumption DEF ServerOK, CardsOK
<1> HIDE DEF l
<1>3. \A q \in Polls : /\ answer'[q] = IF q = p THEN l ELSE answer[q]
                       /\ poll'[q] = IF q = p THEN "answered" ELSE poll[q]
                       /\ earlier'[q] = IF q = p THEN Answered ELSE earlier[q]
  BY <1>1 DEF PollsOK
<1>4. ServerOK' /\ CardsOK' /\ EmptyStateHonest'
  BY <1>1 DEF ServerOK, CardsOK, EmptyStateHonest, serverVars, cardVars
<1>5. PollsOK'
  <2>1. /\ poll' \in [Polls -> {"idle", "asked", "answered"}]
        /\ DOMAIN answer' = Polls /\ overtaken' \in [Polls -> BOOLEAN]
        /\ earlier' \in [Polls -> SUBSET Polls]
    BY <1>1 DEF PollsOK, Answered
  <2>2. version' = version /\ listed \subseteq Items
    BY <1>1 DEF serverVars, ServerOK
  <2>3. QED
    BY <1>2, <1>3, <2>1, <2>2 DEF PollsOK, ServerOK
<1>6. ASSUME NEW q \in Polls PROVE Fresh(q)'
  <2>1. overtaken' = overtaken /\ shown' = shown
    BY <1>1 DEF cardVars
  <2>2. CASE q = p
    BY <1>2, <1>3, <2>1, <2>2 DEF Fresh
  <2>3. CASE q # p
    BY <1>3, <2>1, <2>3 DEF Fresh
  <2>4. QED
    BY <2>2, <2>3
<1>7. Ordered'
  <2> SUFFICES ASSUME NEW q \in Answered', NEW r \in Answered', q # r,
                      r \notin earlier'[q],
                      NEW a \in DOMAIN answer'[q] \cap DOMAIN answer'[r]
               PROVE  answer'[q][a] <= answer'[r][a]
    BY DEF Ordered
  <2>1. q \in Polls /\ r \in Polls
        /\ (q # p => q \in Answered) /\ (r # p => r \in Answered)
    BY <1>3 DEF Answered
  <2>2. q # p
    BY <1>3, <2>1
  <2>3. answer'[q] = answer[q] /\ earlier'[q] = earlier[q]
    BY <1>3, <2>1, <2>2
  <2>4. CASE r = p
    BY <1>2, <1>3, <2>1, <2>3, <2>4 DEF PollsOK
  <2>5. CASE r # p
    BY <1>3, <2>1, <2>2, <2>3, <2>5 DEF Ordered
  <2>6. QED
    BY <2>4, <2>5
<1>8. QED
  BY <1>4, <1>5, <1>6, <1>7

\* What the end of a request does to all requests.
LEMMA FinishEffect ==
  ASSUME IInv, NEW p \in Polls, NEW wasShown \in BOOLEAN, Finish(p, wasShown)
  PROVE  /\ ServerOK' /\ PollsOK' /\ visible' = visible /\ version' = version
         /\ Ordered'
         /\ \A q \in Polls :
              poll'[q] = "answered" /\ ~overtaken'[q] =>
                /\ q # p /\ poll[q] = "answered" /\ ~overtaken[q]
                /\ wasShown => q \notin earlier[p]
                /\ answer'[q] = answer[q]
<1> USE DEF IInv
<1>1. /\ poll' = [poll EXCEPT ![p] = "idle"]
      /\ answer' = [answer EXCEPT ![p] = NoList]
      /\ earlier' = [q \in Polls |-> IF q = p THEN {} ELSE earlier[q] \ {p}]
      /\ overtaken' = [q \in Polls |->
                 q # p /\ (overtaken[q] \/ (wasShown /\ q \in earlier[p]))]
      /\ UNCHANGED <<version, listed, visible>>
  BY DEF Finish, serverVars
<1>2. ServerOK'
  BY <1>1 DEF ServerOK
<1>3. \A q \in Polls : /\ answer'[q] = IF q = p THEN NoList ELSE answer[q]
                       /\ poll'[q] = IF q = p THEN "idle" ELSE poll[q]
  BY <1>1 DEF PollsOK
<1>4. \A q \in Polls :
        /\ earlier'[q] = IF q = p THEN {} ELSE earlier[q] \ {p}
        /\ overtaken'[q] <=>
             q # p /\ (overtaken[q] \/ (wasShown /\ q \in earlier[p]))
  BY <1>1
<1>5. PollsOK'
  <2>1. /\ poll' \in [Polls -> {"idle", "asked", "answered"}]
        /\ DOMAIN answer' = Polls
    BY <1>1 DEF PollsOK
  <2>2. overtaken' \in [Polls -> BOOLEAN] /\ earlier' \in [Polls -> SUBSET Polls]
    BY <1>1 DEF PollsOK
  <2>3. QED
    BY <1>1, <1>3, <2>1, <2>2, NoListDomain DEF PollsOK
<1>6. Ordered'
  <2>1. \A q \in Answered' : q \in Answered /\ q # p /\ answer'[q] = answer[q]
    BY <1>3 DEF Answered
  <2>2. \A q, r \in Answered' : r \notin earlier'[q] => r \notin earlier[q]
    BY <1>4, <2>1 DEF Answered
  <2>3. QED
    BY <2>1, <2>2 DEF Ordered
<1>7. QED
  BY <1>1, <1>2, <1>3, <1>4, <1>5, <1>6

LEMMA PollStep ==
  ASSUME IInv, NEW p \in Polls, Ask(p) \/ FetchFails(p)
  PROVE  IInv'
<1> USE DEF IInv
<1>1. CASE Ask(p)
  <2>1. /\ \A q \in Polls : poll'[q] = IF q = p THEN "asked" ELSE poll[q]
        /\ poll' \in [Polls -> {"idle", "asked", "answered"}]
        /\ poll[p] = "idle"
        /\ UNCHANGED <<serverVars, answer, earlier, overtaken, cardVars, visible>>
    BY <1>1 DEF Ask, PollsOK
  <2>2. ServerOK' /\ CardsOK' /\ EmptyStateHonest'
    BY <2>1 DEF ServerOK, CardsOK, EmptyStateHonest, serverVars, cardVars
  <2>3. PollsOK'
    BY <2>1 DEF PollsOK, serverVars
  <2>4. Ordered' /\ \A q \in Polls : Fresh(q)'
    BY <2>1 DEF Ordered, Answered, Fresh, cardVars
  <2>5. QED
    BY <2>2, <2>3, <2>4
<1>2. CASE FetchFails(p)
  <2>1. Finish(p, FALSE) /\ UNCHANGED <<cards, shown, fading, empty>>
    BY <1>2 DEF FetchFails, cardVars
  <2>2. /\ ServerOK' /\ PollsOK' /\ visible' = visible /\ version' = version
        /\ Ordered'
        /\ \A q \in Polls : poll'[q] = "answered" /\ ~overtaken'[q] =>
             poll[q] = "answered" /\ ~overtaken[q] /\ answer'[q] = answer[q]
    BY <2>1, FinishEffect
  <2>3. CardsOK' /\ EmptyStateHonest'
    BY <2>1, <2>2 DEF CardsOK, EmptyStateHonest
  <2>4. \A q \in Polls : Fresh(q)'
    BY <2>1, <2>2 DEF Fresh
  <2>5. QED
    BY <2>2, <2>3, <2>4
<1>3. QED
  BY <1>1, <1>2

\* After an answer was shown, those given before it are overtaken, and what
\* those given after it carry is no older than what it brought.
LEMMA ShowStep == ASSUME IInv, NEW p \in Polls, Show(p) PROVE IInv'
<1> USE DEF IInv
<1>1. Finish(p, TRUE) /\ poll[p] = "answered"
  BY DEF Show, ShowEmpty, ShowList, Updated
<1>2. /\ ServerOK' /\ PollsOK' /\ visible' = visible /\ version' = version
      /\ Ordered'
      /\ \A q \in Polls :
           poll'[q] = "answered" /\ ~overtaken'[q] =>
             /\ q # p /\ poll[q] = "answered" /\ ~overtaken[q]
             /\ q \notin earlier[p] /\ answer'[q] = answer[q]
  BY <1>1, FinishEffect
<1>3. CASE ShowEmpty(p)
  <2>1. CardsOK'
    BY <1>2, <1>3, PageAssumption DEF ShowEmpty, CardsOK, ServerOK
  <2>2. EmptyStateHonest'
    BY <1>3 DEF ShowEmpty, EmptyStateHonest
  <2>3. \A q \in Polls : Fresh(q)'
    <3> SUFFICES ASSUME NEW q \in Polls, poll'[q] = "answered", ~overtaken'[q],
                        NEW a \in DOMAIN answer'[q]
                 PROVE  shown'[a] <= answer'[q][a]
      BY DEF Fresh
    <3>1. answer'[q] = answer[q] /\ a \in Items /\ answer[q][a] \in 1 .. MaxVersion
      BY <1>2 DEF PollsOK
    <3>2. shown'[a] = 0
      BY <1>3, <3>1 DEF ShowEmpty
    <3>3. QED
      BY <3>1, <3>2, PageAssumption
  <2>4. QED
    BY <1>2, <2>1, <2>2, <2>3
<1>4. CASE ShowList(p)
  <2>1. /\ empty' = FALSE
        /\ cards' = cards \cup DOMAIN answer[p]
        /\ fading' = fading \cup (cards \ DOMAIN answer[p])
        /\ shown' = [a \in Items |->
             IF a \in DOMAIN answer[p] THEN answer[p][a] ELSE shown[a]]
    BY <1>4 DEF ShowList, Updated
  <2>2. /\ DOMAIN answer[p] \subseteq Items
        /\ \A a \in DOMAIN answer[p] : /\ answer[p][a] \in 1 .. MaxVersion
                                       /\ answer[p][a] <= version[a]
    BY DEF PollsOK
  <2>3. shown' \in [Items -> 0 .. MaxVersion]
    BY <2>1, <2>2, PageAssumption DEF CardsOK
  <2>4. \A a \in Items : (a \in cards' <=> shown'[a] # 0) /\ shown'[a] <= version[a]
    BY <2>1, <2>2, PageAssumption DEF CardsOK
  <2>5. CardsOK'
    BY <1>2, <2>1, <2>2, <2>3, <2>4 DEF CardsOK
  <2>6. EmptyStateHonest'
    BY <2>1 DEF EmptyStateHonest
  <2>7. \A q \in Polls : Fresh(q)'
    <3> SUFFICES ASSUME NEW q \in Polls, poll'[q] = "answered", ~overtaken'[q],
                        NEW a \in DOMAIN answer'[q]
                 PROVE  shown'[a] <= answer'[q][a]
      BY DEF Fresh
    <3>1. /\ q # p /\ q \in Answered /\ p \in Answered /\ q \notin earlier[p]
          /\ answer'[q] = answer[q] /\ a \in Items
          /\ a \in DOMAIN answer[q] /\ shown[a] <= answer[q][a]
      BY <1>1, <1>2 DEF Answered, PollsOK, Fresh
    <3>2. a \in DOMAIN answer[p] => answer[p][a] <= answer[q][a]
      BY <3>1 DEF Ordered
    <3>3. QED
      BY <2>1, <3>1, <3>2
  <2>8. QED
    BY <1>2, <2>5, <2>6, <2>7
<1>5. QED
  BY <1>3, <1>4 DEF Show

LEMMA FadeStep == ASSUME IInv, NEW a \in Items, FadeOut(a) PROVE IInv'
<1> USE DEF IInv
<1>1. /\ cards' = cards \ {a} /\ fading' = fading \ {a}
      /\ shown' = [shown EXCEPT ![a] = 0]
      /\ UNCHANGED <<version, listed, poll, answer, earlier, overtaken, empty,
                     visible>>
  BY DEF FadeOut, serverVars, pollVars
<1>2. /\ \A b \in Items : shown'[b] = IF b = a THEN 0 ELSE shown[b]
      /\ shown' \in [Items -> 0 .. MaxVersion]
  BY <1>1, PageAssumption DEF CardsOK
<1>3. ServerOK' /\ PollsOK' /\ EmptyStateHonest' /\ Ordered'
  BY <1>1 DEF ServerOK, PollsOK, EmptyStateHonest, Ordered, Answered
<1>4. CardsOK'
  BY <1>1, <1>2, PageAssumption DEF CardsOK, ServerOK
<1>5. \A q \in Polls : Fresh(q)'
  <2> SUFFICES ASSUME NEW q \in Polls, poll[q] = "answered", ~overtaken[q],
                      NEW b \in DOMAIN answer[q]
               PROVE  shown'[b] <= answer[q][b]
    BY <1>1 DEF Fresh
  <2>1. b \in Items /\ answer[q][b] \in 1 .. MaxVersion /\ shown[b] <= answer[q][b]
    BY DEF PollsOK, Fresh
  <2>2. QED
    BY <1>2, <2>1, PageAssumption
<1>6. QED
  BY <1>3, <1>4, <1>5

LEMMA NextInv == IInv /\ [Next]_vars => IInv'
<1> SUFFICES ASSUME IInv, [Next]_vars PROVE IInv'
  OBVIOUS
<1>1. CASE SwitchTab
  <2>1. visible' \in BOOLEAN /\ UNCHANGED <<serverVars, pollVars, cardVars>>
    BY <1>1 DEF SwitchTab
  <2>2. QED
    BY <2>1 DEF IInv, ServerOK, PollsOK, CardsOK, EmptyStateHonest, Ordered,
                Answered, Fresh, serverVars, pollVars, cardVars
<1>2. CASE UNCHANGED vars
  BY <1>2 DEF vars, IInv, ServerOK, PollsOK, CardsOK, EmptyStateHonest, Ordered,
              Answered, Fresh, serverVars, pollVars, cardVars
<1>3. QED
  BY <1>1, <1>2, ServerStep, AnswerStep, PollStep, ShowStep, FadeStep DEF Next

LEMMA Inductive == Spec => []IInv
BY InitInv, NextInv, PTL DEF Spec

-----------------------------------------------------------------------------
\* Every reachable state of a page is well typed: in particular a timer always
\* has a card to remove, and a card always has data of the server.
THEOREM TypeCorrect == Spec => []TypeOK
<1>1. IInv => TypeOK
  BY DEF IInv, ServerOK, PollsOK, CardsOK, TypeOK
<1>2. QED
  BY <1>1, Inductive, PTL

\* The banner never stands above a card, for any order of answers and timers.
THEOREM BannerHonest == Spec => []EmptyStateHonest
<1>1. IInv => EmptyStateHonest
  BY DEF IInv
<1>2. QED
  BY <1>1, Inductive, PTL

\* A card steps back to older data only by an answer that the server gave before
\* one that was shown already, however many requests overlap.
THEOREM StepsBackOnlyOvertaken == Spec => NoStepBack
<1> DEFINE Step == \A a \in cards \cap cards' : shown'[a] < shown[a] =>
                     \E p \in Polls : overtaken[p] /\ Show(p)
<1>1. IInv /\ [Next]_vars => [Step]_vars
  <2> SUFFICES ASSUME IInv, Next,
                      NEW a \in cards \cap cards', shown'[a] < shown[a]
               PROVE  \E p \in Polls : overtaken[p] /\ Show(p)
    OBVIOUS
  <2>0. a \in Items /\ shown \in [Items -> 0 .. MaxVersion]
    BY DEF IInv, CardsOK
  <2>1. shown'[a] # shown[a]
    BY <2>0, PageAssumption
  <2>2. ASSUME NEW b \in Items, FadeOut(b) PROVE FALSE
    <3>1. a # b /\ shown' = [shown EXCEPT ![b] = 0]
      BY <2>2 DEF FadeOut
    <3>2. QED
      BY <2>0, <2>1, <3>1
  <2>3. \E p \in Polls : Show(p)
    BY <2>1, <2>2 DEF Next, Change, Unlist, Ask, Answer, AnswerWith, FetchFails,
                      SwitchTab, cardVars
  <2>4. PICK p \in Polls : Show(p)
    BY <2>3
  <2>5. ~ShowEmpty(p)
    BY DEF ShowEmpty
  <2>6. ShowList(p)
    BY <2>4, <2>5 DEF Show
  <2>7. shown'[a] = IF a \in DOMAIN answer[p] THEN answer[p][a] ELSE shown[a]
    BY <2>0, <2>6 DEF ShowList, Updated
  <2>8. a \in DOMAIN answer[p] /\ answer[p][a] < shown[a]
    BY <2>1, <2>7
  <2>9. answer[p][a] \in 1 .. MaxVersion /\ Fresh(p) /\ poll[p] = "answered"
    BY <2>6, <2>8 DEF IInv, PollsOK, ShowList, Updated
  <2>10. overtaken[p]
    BY <2>0, <2>8, <2>9, PageAssumption DEF Fresh
  <2>11. QED
    BY <2>4, <2>10
<1>2. QED
  BY <1>1, Inductive, PTL DEF Spec, NoStepBack
-----------------------------------------------------------------------------
(* The safe half of PageSettles: a card that is right stays right.         *)

\* The page shows of item a what the server says, v, and no answer that is on
\* its way says anything else.
Settled(a, v) ==
  /\ Data(a) = v /\ shown[a] = v /\ a \notin fading
  /\ \A p \in Polls : poll[p] = "answered" =>
       IF v = 0 THEN a \notin DOMAIN answer[p]
                ELSE a \in DOMAIN answer[p] /\ answer[p][a] = v

\* A request that ends takes its answer with it and leaves the others.
LEMMA KeepSettled ==
  ASSUME NEW a \in Items, NEW v \in Nat, Settled(a, v), Data(a)' = v,
         shown'[a] = v, a \notin fading',
         \A p \in Polls : poll'[p] = "answered" =>
           poll[p] = "answered" /\ answer'[p] = answer[p]
  PROVE  Settled(a, v)'
BY DEF Settled

LEMMA SettledStep ==
  ASSUME IInv, [Next]_vars, NEW a \in Items, NEW v \in Nat, Settled(a, v),
         Data(a)' = v
  PROVE  Settled(a, v)'
<1>0. /\ poll \in [Polls -> {"idle", "asked", "answered"}]
      /\ DOMAIN answer = Polls /\ shown \in [Items -> 0 .. MaxVersion]
      /\ shown[a] = v /\ a \notin fading /\ (v # 0 => a \in cards)
  BY DEF IInv, PollsOK, CardsOK, Settled
<1>1. CASE \/ UNCHANGED vars \/ SwitchTab
           \/ \E b \in Items : Change(b) \/ Unlist(b)
  BY <1>0, <1>1, KeepSettled
  DEF SwitchTab, Change, Unlist, vars, pollVars, cardVars
<1>2. ASSUME NEW p \in Polls, Ask(p) PROVE Settled(a, v)'
  BY <1>0, <1>2, KeepSettled DEF Ask, cardVars
<1>3. ASSUME NEW p \in Polls, Answer(p) PROVE Settled(a, v)'
  <2>1. answer' = [answer EXCEPT ![p] = [b \in listed |-> version[b]]]
    BY <1>3 DEF Answer, AnswerWith
  <2>2. answer'[p] = [b \in listed |-> version[b]]
    BY <1>0, <2>1
  <2>3. IF v = 0 THEN a \notin DOMAIN answer'[p]
        ELSE a \in DOMAIN answer'[p] /\ answer'[p][a] = v
    BY <2>2 DEF Settled, Data, IInv, ServerOK
  <2>4. \A q \in Polls \ {p} : poll'[q] = poll[q] /\ answer'[q] = answer[q]
    BY <1>0, <1>3, <2>1 DEF Answer, AnswerWith
  <2>5. shown'[a] = v /\ a \notin fading'
    BY <1>0, <1>3 DEF Answer, AnswerWith, cardVars
  <2>6. QED
    BY <2>3, <2>4, <2>5 DEF Settled
<1>4. ASSUME NEW p \in Polls, NEW w \in BOOLEAN, Finish(p, w)
      PROVE  \A q \in Polls : poll'[q] = "answered" =>
               poll[q] = "answered" /\ answer'[q] = answer[q]
  BY <1>0, <1>4 DEF Finish
<1>5. ASSUME NEW p \in Polls, FetchFails(p) PROVE Settled(a, v)'
  BY <1>0, <1>4, <1>5, KeepSettled DEF FetchFails, cardVars
<1>6. ASSUME NEW p \in Polls, ShowEmpty(p) PROVE Settled(a, v)'
  <2>1. v = 0
    BY <1>6, NoListDomain DEF ShowEmpty, Settled
  <2>2. shown'[a] = 0 /\ fading' = {} /\ Finish(p, TRUE)
    BY <1>6 DEF ShowEmpty
  <2>3. QED
    BY <1>4, <2>1, <2>2, KeepSettled
<1>7. ASSUME NEW p \in Polls, ShowList(p) PROVE Settled(a, v)'
  <2>1. /\ poll[p] = "answered" /\ Finish(p, TRUE)
        /\ shown'[a] = IF a \in DOMAIN answer[p] THEN answer[p][a] ELSE shown[a]
        /\ fading' = fading \cup (cards \ DOMAIN answer[p])
    BY <1>7 DEF ShowList, Updated
  <2>2. shown'[a] = v
    BY <1>0, <2>1 DEF Settled
  <2>3. a \notin fading'
    BY <1>0, <2>1 DEF Settled, IInv, CardsOK
  <2>4. QED
    BY <1>4, <2>1, <2>2, <2>3, KeepSettled
<1>8. ASSUME NEW b \in Items, FadeOut(b) PROVE Settled(a, v)'
  <2>1. b # a /\ fading' \subseteq fading /\ UNCHANGED <<poll, answer>>
    BY <1>0, <1>8 DEF FadeOut, pollVars
  <2>2. shown'[a] = v
    BY <1>0, <1>8, <2>1 DEF FadeOut
  <2>3. QED
    BY <1>0, <2>1, <2>2, KeepSettled
<1>9. QED
  BY <1>1, <1>2, <1>3, <1>5, <1>6, <1>7, <1>8 DEF Next, Show

\* Once the page shows what the server says of an item, with no other answer on
\* its way, it shows just that for as long as the server says it, however many
\* requests overlap and fail and whatever happens to the other cards.  What
\* PageSettles needs of fairness is only that the page gets there once.
THEOREM SettledForGood ==
  ASSUME NEW a \in Items, NEW v \in Nat
  PROVE  Spec => [](Settled(a, v) /\ [](Data(a) = v)
                      => [](shown[a] = v /\ a \notin fading))
<1>1. IInv /\ [Next]_vars /\ Settled(a, v) /\ (Data(a) = v)' => Settled(a, v)'
  BY SettledStep
<1>2. Settled(a, v) => shown[a] = v /\ a \notin fading
  BY DEF Settled
<1>3. QED
  BY <1>1, <1>2, Inductive, PTL DEF Spec
=============================================================================
