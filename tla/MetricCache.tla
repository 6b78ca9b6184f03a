----------------------------- MODULE MetricCache -----------------------------
(***************************************************************************)
(* The path of an agent's metrics to the dashboard: the agent's report     *)
(* loop (agent/main.go, agent/sender.go), HandlePostMetrics and            *)
(* HandleGetStatus (server/handler.go), the metrics table and the          *)
(* in-memory metricCache in front of it.  Handlers run concurrently, one   *)
(* goroutine per request; the cache has a lock, but saving and caching are *)
(* two steps, and so are a cold read of the table and the fill of the      *)
(* cache.  An agent numbers its metrics 1, 2, ... in the order of their    *)
(* timestamps; 0 stands for no metric.                                     *)
(***************************************************************************)
EXTENDS Naturals, FiniteSets

CONSTANTS
  Agents,
  Polls,        \* requests for the status under way at the same time, of one
                \*   page or of several: a page polls without waiting
  MaxSeq,       \* bound on the metrics of any agent
  Sends,        \* Sends[a]: bound on the metrics that agent a sends
  MaxRestarts   \* bound on restarts of the server process

ASSUME MetricAssumption ==
  MaxSeq \in Nat /\ Sends \in [Agents -> 1 .. MaxSeq] /\ MaxRestarts \in Nat

Seqs == 1 .. MaxSeq
None == 0
Lists == [Agents -> Seqs \cup {None}]
NoList == [a \in Agents |-> None]

VARIABLES
  taken,        \* taken[a]: metrics that agent a has collected
  waiting,      \* waiting[a]: a is inside Send
  post,         \* post[a][n]: the request with a's n-th metric:
                \*   unsent, sent, saved (not cached yet), done
  rows,         \* rows[a][n]: id of the metrics row with a's n-th metric, or 0
  stored,       \* history: stored[a], the metrics ever committed
  cache,        \* metricCache, None where the map has no key
  get,          \* get[p]: idle, cold (cache was empty), fill
  list,         \* list[p]: what a cold GET read from the table
  told,         \* history: the last answer to p of this server process
  restarts

agentVars == <<taken, waiting>>
tableVars == <<rows, stored>>
getVars == <<get, list, told>>
vars == <<agentVars, post, tableVars, cache, getVars, restarts>>

NoRows == [n \in Seqs |-> 0]

\* MAX(id) GROUP BY agent_id: n is the metric of a's latest row, None without one.
IsLatest(a, n) ==
  IF rows[a] = NoRows THEN n = None
  ELSE /\ n \in Seqs /\ rows[a][n] # 0
       /\ \A m \in Seqs : rows[a][m] <= rows[a][n]

\* AUTOINCREMENT: every commit of a metric of a has taken an id.
NextId(a) == Cardinality(stored[a]) + 1
InFlight(a, n) == post[a][n] \in {"sent", "saved"}
Cold == {p \in Polls : get[p] # "idle"}

Init ==
  /\ taken = [a \in Agents |-> 0]
  /\ waiting = [a \in Agents |-> FALSE]
  /\ post = [a \in Agents |-> [n \in Seqs |-> "unsent"]]
  /\ rows = [a \in Agents |-> NoRows]
  /\ stored = [a \in Agents |-> {}]
  /\ cache = NoList
  /\ get = [p \in Polls |-> "idle"]
  /\ list = [p \in Polls |-> NoList]
  /\ told = [p \in Polls |-> NoList]
  /\ restarts = 0

-----------------------------------------------------------------------------
(* An agent.                                                               *)

\* A tick: CollectMetrics, then Send.
Report(a) ==
  /\ ~waiting[a] /\ taken[a] < Sends[a]
  /\ taken' = [taken EXCEPT ![a] = @ + 1]
  /\ waiting' = [waiting EXCEPT ![a] = TRUE]
  /\ post' = [post EXCEPT ![a][taken[a] + 1] = "sent"]
  /\ UNCHANGED <<tableVars, cache, getVars, restarts>>

\* The client's 5 seconds pass; the request is not withdrawn from the server.
SendTimeout(a) ==
  /\ waiting[a]
  /\ waiting' = [waiting EXCEPT ![a] = FALSE]
  /\ UNCHANGED <<taken, post, tableVars, cache, getVars, restarts>>

FinishUnanswered(a, n) ==
  /\ post' = [post EXCEPT ![a][n] = "done"]
  /\ UNCHANGED agentVars

\* Request n ends, and with it the Send of an agent that still waits for it.
Finish(a, n) ==
  /\ post' = [post EXCEPT ![a][n] = "done"]
  /\ waiting' = [waiting EXCEPT ![a] = @ /\ n # taken[a]]
  /\ UNCHANGED taken

-----------------------------------------------------------------------------
(* HandlePostMetrics.                                                      *)

\* The request or SaveMetric fails: the transaction is rolled back and the
\* handler answers with an error; the agent logs it and forgets the metric.
PostFails(a, n) ==
  /\ post[a][n] = "sent"
  /\ Finish(a, n)
  /\ UNCHANGED <<tableVars, cache, getVars, restarts>>

SaveMetricUncommitted(a, n) ==
  /\ post[a][n] = "sent"
  /\ post' = [post EXCEPT ![a][n] = "saved"]
  /\ UNCHANGED <<tableVars, agentVars, cache, getVars, restarts>>

SaveMetric(a, n) ==
  /\ post[a][n] = "sent"
  /\ rows' = [rows EXCEPT ![a][n] = NextId(a)]
  /\ stored' = [stored EXCEPT ![a] = @ \cup {n}]
  /\ post' = [post EXCEPT ![a][n] = "saved"]
  /\ UNCHANGED <<agentVars, cache, getVars, restarts>>

CacheMetricIfAbsent(a, n) ==
  /\ post[a][n] = "saved"
  /\ cache' = [cache EXCEPT ![a] = IF @ = None THEN n ELSE @]
  /\ Finish(a, n)
  /\ UNCHANGED <<tableVars, getVars, restarts>>

\* The cache takes the handler's metric whatever it holds, and 201 goes out.
CacheMetric(a, n) ==
  /\ post[a][n] = "saved"
  /\ cache' = [cache EXCEPT ![a] = n]
  /\ Finish(a, n)
  /\ UNCHANGED <<tableVars, getVars, restarts>>

-----------------------------------------------------------------------------
(* HandleGetStatus.                                                        *)

\* A cache with an entry is the whole answer.
GetCached(p) ==
  /\ get[p] = "idle" /\ cache # NoList
  /\ told' = [told EXCEPT ![p] = cache]
  /\ UNCHANGED <<agentVars, post, tableVars, cache, get, list, restarts>>

GetCold(p) ==
  /\ get[p] = "idle" /\ cache = NoList
  /\ get' = [get EXCEPT ![p] = "cold"]
  /\ UNCHANGED <<agentVars, post, tableVars, cache, list, told, restarts>>

GetLatestMetrics(p) ==
  /\ get[p] = "cold"
  /\ \E l \in Lists : /\ \A a \in Agents : IsLatest(a, l[a])
                      /\ list' = [list EXCEPT ![p] = l]
  /\ get' = [get EXCEPT ![p] = "fill"]
  /\ UNCHANGED <<agentVars, post, tableVars, cache, told, restarts>>

GetFails(p) ==
  /\ get[p] = "cold"
  /\ get' = [get EXCEPT ![p] = "idle"]
  /\ UNCHANGED <<agentVars, post, tableVars, cache, list, told, restarts>>

FillCacheIfEmpty(p) ==
  /\ get[p] = "fill"
  /\ cache' = IF cache = NoList THEN list[p] ELSE cache
  /\ told' = [told EXCEPT ![p] = list[p]]
  /\ list' = [list EXCEPT ![p] = NoList]
  /\ get' = [get EXCEPT ![p] = "idle"]
  /\ UNCHANGED <<agentVars, post, tableVars, restarts>>

\* What the table gave goes into the cache, over what a POST may have put there
\* since, and is the answer.
FillCache(p) ==
  /\ get[p] = "fill"
  /\ cache' = [a \in Agents |->
                 IF list[p][a] = None THEN cache[a] ELSE list[p][a]]
  /\ told' = [told EXCEPT ![p] = list[p]]
  /\ list' = [list EXCEPT ![p] = NoList]
  /\ get' = [get EXCEPT ![p] = "idle"]
  /\ UNCHANGED <<agentVars, post, tableVars, restarts>>

-----------------------------------------------------------------------------
\* CleanupOldMetrics removes what is older than the retention period; the cache
\* keeps it.
CleanupOldMetrics(a, n) ==
  /\ rows' = [rows EXCEPT ![a] = [m \in Seqs |-> IF m > n THEN @[m] ELSE 0]]
  /\ UNCHANGED <<agentVars, post, stored, cache, getVars, restarts>>

\* The server process ends and starts again: handlers and cache are gone.
Restart ==
  /\ restarts < MaxRestarts
  /\ restarts' = restarts + 1
  /\ post' = [a \in Agents |->
                [n \in Seqs |-> IF InFlight(a, n) THEN "done" ELSE post[a][n]]]
  /\ waiting' = [a \in Agents |-> FALSE]
  /\ cache' = NoList
  /\ get' = [p \in Polls |-> "idle"]
  /\ list' = [p \in Polls |-> NoList]
  /\ told' = [p \in Polls |-> NoList]
  /\ UNCHANGED <<taken, tableVars>>

-----------------------------------------------------------------------------
Handle(a, n) == PostFails(a, n) \/ SaveMetric(a, n) \/ CacheMetric(a, n)

Get(p) ==
  GetCached(p) \/ GetCold(p) \/ GetLatestMetrics(p) \/ GetFails(p) \/ FillCache(p)

Next ==
  \/ \E a \in Agents : Report(a) \/ SendTimeout(a)
  \/ \E a \in Agents, n \in Seqs : Handle(a, n) \/ CleanupOldMetrics(a, n)
  \/ \E p \in Polls : Get(p)
  \/ Restart

Spec == Init /\ [][Next]_vars

(* Database calls return, and open pages go on polling every few seconds.   *)
Fairness ==
  /\ \A a \in Agents : \A n \in Seqs : WF_vars(Handle(a, n))
  /\ \A p \in Polls : WF_vars(Get(p))

FairSpec == Spec /\ Fairness

-----------------------------------------------------------------------------
(* Properties                                                              *)

\* The values of the agents' queues, of the metrics tables, of the status cache
\* and of the answers; an agent waits for an answer only while its post is under
\* way.
TypeOK ==
  /\ taken \in [Agents -> 0 .. MaxSeq]
  /\ waiting \in [Agents -> BOOLEAN]
  /\ post \in [Agents -> [Seqs -> {"unsent", "sent", "saved", "done"}]]
  /\ rows \in [Agents -> [Seqs -> Nat]]
  /\ stored \in [Agents -> SUBSET Seqs]
  /\ cache \in Lists
  /\ get \in [Polls -> {"idle", "cold", "fill"}]
  /\ list \in [Polls -> Lists]
  /\ told \in [Polls -> Lists]
  /\ restarts \in 0 .. MaxRestarts
  /\ \A a \in Agents : waiting[a] => taken[a] # 0 /\ InFlight(a, taken[a])

\* The dashboard never shows a metric that the database refused or that a
\* rolled-back transaction carried: SaveMetric comes before the cache.
ShownIsCommitted ==
  \A a \in Agents :
    {cache[a]} \cup {told[p][a] : p \in Polls} \subseteq stored[a] \cup {None}

\* Once any page has been told of an agent, every request that reaches the
\* running server from then on is answered with that agent too, whatever the
\* cleaner deletes and whoever fills the cache.  An answer to a request that came
\* before may still lack it and, arriving late, take its card off a page.
AgentsStayListed ==
  [][\A p \in Polls, a \in Agents :
       (GetCached(p) \/ GetCold(p)) /\ (\E q \in Polls : told[q][a] # None)
         => GetCached(p) /\ told'[p][a] # None]_vars

\* The last report of an agent, once stored with no cold GET and no earlier
\* report of the agent still under way, is what every answer shows in the end.
LastReportShown ==
  \A a \in Agents :
    (/\ post[a][Sends[a]] = "saved" /\ Cold = {} /\ restarts = MaxRestarts
     /\ \A n \in Seqs \ {Sends[a]} : ~InFlight(a, n))
      ~> [](\A p \in Polls : told[p][a] = Sends[a])

\* "returns the status of all registered servers" (handler.go:140): a response
\* names every agent that has a metric in the database, once the handler that
\* stored it is done.
AllRegistered ==
  [][\A p \in Polls : GetCached(p) =>
       \A a \in Agents :
         (\A n \in Seqs : ~InFlight(a, n)) /\ rows[a] # NoRows
           => told'[p][a] # None]_vars
=============================================================================
