------------------------------ MODULE CardPage ------------------------------
(***************************************************************************)
(* The two tabs of the web page: server cards (templates/dashboard.js) and *)
(* API cards (templates/health.js).  Both ask the server for a list every  *)
(* 5 seconds, never wait for the previous answer, and turn an answer into  *)
(* cards: update, create, or fade out and remove 300 ms later.  The API    *)
(* tab asks also when it is opened and after a target was registered or    *)
(* deleted, and not at all while it is hidden.                             *)
(*                                                                         *)
(* An item is an agent or a target; what the page shows of it is a version *)
(* number that grows with each change of the item at the server.  The mark *)
(* that dashboard.js sets when a fetch fails, and never takes back, is     *)
(* left out, and so is the animation of a new card's bars.                 *)
(***************************************************************************)
EXTENDS Naturals, FiniteSets

CONSTANTS
  Items,
  Polls,        \* requests of the page under way at the same time
  CanHide,      \* TRUE for the API tab
  MaxVersion    \* bound on the changes of an item

ASSUME PageAssumption == CanHide \in BOOLEAN /\ MaxVersion \in Nat

VARIABLES
  version,      \* version[a]: changes of item a at the server so far
  listed,       \* items that the server's list names now
  poll,         \* poll[p]: idle, asked, answered
  answer,       \* answer[p]: the list that p brought, as [item -> version]
  earlier,      \* history: earlier[p]: answers on their way that the server
                \*   gave before that of p
  overtaken,    \* history: an answer given after that of p was shown
  cards,        \* items that have a card
  shown,        \* shown[a]: version on a's card
  fading,       \* cards that a timer is about to remove
  empty,        \* the empty-state banner is shown
  visible       \* the tab is active

serverVars == <<version, listed>>
pollVars == <<poll, answer, earlier, overtaken>>
cardVars == <<cards, shown, fading, empty>>
vars == <<serverVars, pollVars, cardVars, visible>>

NoList == [a \in {} |-> 0]

Init ==
  /\ version = [a \in Items |-> 0]
  /\ listed = {}
  /\ poll = [p \in Polls |-> "idle"]
  /\ answer = [p \in Polls |-> NoList]
  /\ earlier = [p \in Polls |-> {}]
  /\ overtaken = [p \in Polls |-> FALSE]
  /\ cards = {} /\ fading = {}
  /\ shown = [a \in Items |-> 0]
  /\ empty = FALSE
  /\ visible \in BOOLEAN /\ (~CanHide => visible)

-----------------------------------------------------------------------------
(* The server.                                                             *)

\* A report or a check of a, which may put it on the list.
Change(a) ==
  /\ version[a] < MaxVersion
  /\ version' = [version EXCEPT ![a] = @ + 1]
  /\ listed' = listed \cup {a}
  /\ UNCHANGED <<pollVars, cardVars, visible>>

\* A target is deleted; a restarted server has not heard of an agent yet.
Unlist(a) ==
  /\ a \in listed
  /\ listed' = listed \ {a}
  /\ UNCHANGED <<version, pollVars, cardVars, visible>>

AnswerWith(p, list) ==
  /\ poll[p] = "asked"
  /\ poll' = [poll EXCEPT ![p] = "answered"]
  /\ answer' = [answer EXCEPT ![p] = list]
  /\ earlier' = [earlier EXCEPT ![p] = {q \in Polls : poll[q] = "answered"}]
  /\ UNCHANGED <<serverVars, overtaken, cardVars, visible>>

AnswerStale(p) ==
  \E old \in [Items -> 1 .. MaxVersion] :
    /\ \A a \in listed : old[a] <= version[a]
    /\ AnswerWith(p, [a \in listed |-> old[a]])

\* HandleGetStatus or HandleGetHealthStatus; the answer travels on its own.
Answer(p) == AnswerWith(p, [a \in listed |-> version[a]])

-----------------------------------------------------------------------------
(* The page.                                                               *)

\* fetchStatus, fetchHealthStatus: the timer of 5 seconds, the opening of the
\* tab, or the refresh after a target was registered or deleted.
Ask(p) ==
  /\ visible
  /\ poll[p] = "idle"
  /\ poll' = [poll EXCEPT ![p] = "asked"]
  /\ UNCHANGED <<serverVars, answer, earlier, overtaken, cardVars, visible>>

\* The request p is over; if its answer was shown, those that the server gave
\* before it and that are still on their way have been overtaken.
Finish(p, wasShown) ==
  /\ poll' = [poll EXCEPT ![p] = "idle"]
  /\ answer' = [answer EXCEPT ![p] = NoList]
  /\ earlier' = [q \in Polls |-> IF q = p THEN {} ELSE earlier[q] \ {p}]
  /\ overtaken' = [q \in Polls |->
                     q # p /\ (overtaken[q] \/ (wasShown /\ q \in earlier[p]))]
  /\ UNCHANGED <<serverVars, visible>>

\* No connection, or an error status: the cards stay as they are.
FetchFails(p) ==
  /\ poll[p] # "idle"
  /\ Finish(p, FALSE)
  /\ UNCHANGED cardVars

ShowEmptyFadesCards(p) ==
  /\ poll[p] = "answered"
  /\ answer[p] = NoList
  /\ empty' = TRUE
  /\ fading' = cards
  /\ Finish(p, TRUE)
  /\ UNCHANGED <<cards, shown>>

ShowEmptyKeepsTimers(p) ==
  /\ poll[p] = "answered"
  /\ answer[p] = NoList
  /\ empty' = TRUE
  /\ cards' = {}
  /\ shown' = [a \in Items |-> 0]
  /\ Finish(p, TRUE)
  /\ UNCHANGED fading

\* An empty list: the banner appears and every card goes at once.
ShowEmpty(p) ==
  /\ poll[p] = "answered"
  /\ answer[p] = NoList
  /\ empty' = TRUE
  /\ cards' = {} /\ fading' = {}
  /\ shown' = [a \in Items |-> 0]
  /\ Finish(p, TRUE)

\* updateCard, createCard: the cards of the items that p brought show its data.
Updated(p) ==
  [a \in Items |-> IF a \in DOMAIN answer[p] THEN answer[p][a] ELSE shown[a]]

ShowListKeepsOthers(p) ==
  /\ poll[p] = "answered"
  /\ answer[p] # NoList
  /\ empty' = FALSE
  /\ cards' = cards \cup DOMAIN answer[p]
  /\ shown' = Updated(p)
  /\ Finish(p, TRUE)
  /\ UNCHANGED fading

\* A list: cards are updated or created, and those of other items start to fade.
\* A fading card that is on the list is updated and goes on fading.
ShowList(p) ==
  /\ poll[p] = "answered"
  /\ answer[p] # NoList
  /\ empty' = FALSE
  /\ cards' = cards \cup DOMAIN answer[p]
  /\ shown' = Updated(p)
  /\ fading' = fading \cup (cards \ DOMAIN answer[p])
  /\ Finish(p, TRUE)

\* The timer of 300 ms; a second timer of the same card finds it gone.
FadeOut(a) ==
  /\ a \in fading
  /\ cards' = cards \ {a}
  /\ fading' = fading \ {a}
  /\ shown' = [shown EXCEPT ![a] = 0]
  /\ UNCHANGED <<serverVars, pollVars, empty, visible>>

\* The user switches between the tabs.
SwitchTab ==
  /\ CanHide
  /\ visible' = ~visible
  /\ UNCHANGED <<serverVars, pollVars, cardVars>>

-----------------------------------------------------------------------------
Show(p) == ShowEmpty(p) \/ ShowList(p)

Next ==
  \/ \E a \in Items : Change(a) \/ Unlist(a) \/ FadeOut(a)
  \/ \E p \in Polls : Ask(p) \/ Answer(p) \/ Show(p) \/ FetchFails(p)
  \/ SwitchTab

Spec == Init /\ [][Next]_vars

(* The 5 second timer goes on, every request ends, and again and again one  *)
(* of them succeeds; a fade takes 300 ms.                                   *)
Fairness ==
  /\ \A p \in Polls : /\ WF_vars(Ask(p)) /\ SF_vars(Answer(p))
                      /\ SF_vars(Show(p))
  /\ \A a \in Items : WF_vars(FadeOut(a))

FairSpec == Spec /\ Fairness

-----------------------------------------------------------------------------
(* Properties                                                              *)

\* Every variable has its type; a card has data and a timer has a card.
TypeOK ==
  /\ version \in [Items -> 0 .. MaxVersion]
  /\ listed \in SUBSET Items
  /\ poll \in [Polls -> {"idle", "asked", "answered"}]
  /\ \A p \in Polls : /\ DOMAIN answer[p] \subseteq Items
                      /\ poll[p] # "answered" => answer[p] = NoList
  /\ earlier \in [Polls -> SUBSET Polls]
  /\ overtaken \in [Polls -> BOOLEAN]
  /\ cards \in SUBSET Items /\ fading \in SUBSET cards
  /\ shown \in [Items -> 0 .. MaxVersion]
  /\ \A a \in Items : a \in cards <=> shown[a] # 0
  /\ empty \in BOOLEAN /\ visible \in BOOLEAN

\* The banner that says there is nothing never stands above cards.
EmptyStateHonest == empty => cards = {}

\* A card goes back to older data only by an answer that was overtaken: the
\* server gave it before one that was shown already, whichever of the two was
\* asked for first.  Between answers that arrive in the order in which they were
\* given no card steps back, however the fades, failures and tabs interleave.
NoStepBack ==
  [][\A a \in cards \cap cards' : shown'[a] < shown[a] =>
       \E p \in Polls : overtaken[p] /\ Show(p)]_vars

\* What the server's list says of a, 0 if nothing.
Data(a) == IF a \in listed THEN version[a] ELSE 0

\* When the server's data of an item stay as they are, a tab that is open ends
\* up showing just them, or no card, although late answers bring back deleted
\* items, and a card whose item is on the list again still fades out first.
PageSettles ==
  \A a \in Items, v \in 0 .. MaxVersion :
    <>[](visible /\ Data(a) = v) => <>[](shown[a] = v /\ a \notin fading)
=============================================================================
