-------------------------- MODULE MetricCacheProofs --------------------------
(***************************************************************************)
(* Proofs about MetricCache.tla, for any agents, any number of overlapping *)
(* requests of the pages and any number of metrics and restarts.           *)
(***************************************************************************)
EXTENDS MetricCache, FiniteSetTheorems, TLAPS

States == {"unsent", "sent", "saved", "done"}

-----------------------------------------------------------------------------
(* Type correctness.                                                       *)

LEMMA InitType == Init => TypeOK
BY MetricAssumption DEF Init, TypeOK, Lists, NoList, NoRows, None, Seqs

LEMMA NextIdType == ASSUME TypeOK, NEW a \in Agents PROVE NextId(a) \in Nat \ {0}
<1>1. stored[a] \in SUBSET (1 .. MaxSeq)
  BY DEF TypeOK, Seqs
<1>2. IsFiniteSet(1 .. MaxSeq)
  BY MetricAssumption, FS_Interval
<1>3. Cardinality(stored[a]) \in Nat
  BY <1>1, <1>2, FS_Subset, FS_CardinalityType
<1>4. QED
  BY <1>3 DEF NextId

\* What the three ways out of a handler do to the agent and its request.
LEMMA FinishType ==
  ASSUME TypeOK, NEW a \in Agents, NEW n \in Seqs, Finish(a, n)
  PROVE  /\ post' \in [Agents -> [Seqs -> States]]
         /\ waiting' \in [Agents -> BOOLEAN] /\ taken' = taken
         /\ \A b \in Agents : waiting'[b] => taken[b] # 0 /\ InFlight(b, taken[b])'
<1>1. post' \in [Agents -> [Seqs -> States]] /\ taken' = taken
  BY DEF TypeOK, Finish, States
<1>2. \A b \in Agents : waiting'[b] =>
        waiting[b] /\ (b = a => n # taken[a])
  <2>1. \A b \in Agents :
          waiting'[b] = IF b = a THEN waiting[a] /\ n # taken[a] ELSE waiting[b]
    BY DEF TypeOK, Finish
  <2>2. QED
    BY <2>1
<1>3. waiting' \in [Agents -> BOOLEAN]
  BY DEF TypeOK, Finish
<1>4. ASSUME NEW b \in Agents, waiting'[b]
      PROVE  taken[b] # 0 /\ InFlight(b, taken[b])'
  <2>1. taken[b] # 0 /\ taken[b] \in Seqs /\ InFlight(b, taken[b])
    <3>1. taken[b] # 0 /\ taken[b] \in 0 .. MaxSeq /\ InFlight(b, taken[b])
      BY <1>2, <1>4 DEF TypeOK
    <3>2. MaxSeq \in Nat
      BY MetricAssumption
    <3>3. QED
      BY <3>1, <3>2 DEF Seqs
  <2>2. post'[b][taken[b]] = post[b][taken[b]]
    BY <1>2, <1>4, <2>1 DEF TypeOK, Finish
  <2>3. QED
    BY <1>1, <2>1, <2>2 DEF InFlight
<1>5. QED
  BY <1>1, <1>3, <1>4

LEMMA AgentType ==
  ASSUME TypeOK, NEW a \in Agents, Report(a) \/ SendTimeout(a)
  PROVE  TypeOK'
<1>0. Sends[a] \in Nat /\ Sends[a] <= MaxSeq /\ MaxSeq \in Nat
  BY MetricAssumption
<1>1. CASE Report(a)
  <2>1. taken[a] + 1 \in Seqs /\ taken[a] + 1 \in 0 .. MaxSeq /\ taken[a] \in Nat
    <3>1. taken[a] \in 0 .. MaxSeq /\ taken[a] < Sends[a]
      BY <1>1 DEF TypeOK, Report
    <3>2. QED
      BY <1>0, <3>1 DEF Seqs
  <2>2. /\ taken' = [taken EXCEPT ![a] = @ + 1]
        /\ taken' \in [Agents -> 0 .. MaxSeq]
        /\ waiting' = [waiting EXCEPT ![a] = TRUE]
        /\ post' = [post EXCEPT ![a][taken[a] + 1] = "sent"]
        /\ post' \in [Agents -> [Seqs -> States]]
    BY <1>1, <2>1 DEF TypeOK, Report, States, Seqs
  <2>3. ASSUME NEW b \in Agents, waiting'[b]
        PROVE  taken'[b] # 0 /\ InFlight(b, taken[b])'
    BY <2>1, <2>2, <2>3 DEF TypeOK, InFlight
  <2>4. QED
    BY <1>1, <2>2, <2>3 DEF TypeOK, Report, tableVars, getVars, States
<1>2. CASE SendTimeout(a)
  BY <1>2 DEF TypeOK, SendTimeout, tableVars, getVars, InFlight
<1>3. QED
  BY <1>1, <1>2

LEMMA HandleType ==
  ASSUME TypeOK, NEW a \in Agents, NEW n \in Seqs, Handle(a, n)
  PROVE  TypeOK'
<1>1. CASE PostFails(a, n)
  BY <1>1, FinishType DEF TypeOK, PostFails, tableVars, getVars, States
<1>2. CASE SaveMetric(a, n)
  <2>1. rows' \in [Agents -> [Seqs -> Nat]] /\ stored' \in [Agents -> SUBSET Seqs]
    BY <1>2, NextIdType DEF TypeOK, SaveMetric
  <2>2. post' \in [Agents -> [Seqs -> States]]
    BY <1>2 DEF TypeOK, SaveMetric, States
  <2>3. ASSUME NEW b \in Agents, waiting[b]
        PROVE  taken[b] # 0 /\ InFlight(b, taken[b])'
    <3>1. taken[b] # 0 /\ taken[b] \in Seqs /\ InFlight(b, taken[b])
      <4>1. taken[b] # 0 /\ taken[b] \in 0 .. MaxSeq /\ InFlight(b, taken[b])
        BY <2>3 DEF TypeOK
      <4>2. MaxSeq \in Nat
        BY MetricAssumption
      <4>3. QED
        BY <4>1, <4>2 DEF Seqs
    <3>2. post'[b][taken[b]] \in {post[b][taken[b]], "saved"}
      BY <1>2, <3>1 DEF TypeOK, SaveMetric
    <3>3. taken' = taken
      BY <1>2 DEF SaveMetric, agentVars
    <3>4. QED
      BY <3>1, <3>2, <3>3 DEF InFlight
  <2>4. QED
    BY <1>2, <2>1, <2>2, <2>3 DEF TypeOK, SaveMetric, agentVars, getVars, States
<1>3. CASE CacheMetric(a, n)
  BY <1>3, FinishType DEF TypeOK, CacheMetric, tableVars, getVars, States, Lists
<1>4. QED
  BY <1>1, <1>2, <1>3 DEF Handle

LEMMA GetType ==
  ASSUME TypeOK, NEW p \in Polls, Get(p)
  PROVE  TypeOK'
<1> USE DEF TypeOK, agentVars, tableVars, InFlight
<1>1. CASE GetCached(p)
  BY <1>1 DEF GetCached
<1>2. CASE GetCold(p)
  BY <1>2 DEF GetCold
<1>3. CASE GetLatestMetrics(p)
  BY <1>3 DEF GetLatestMetrics
<1>4. CASE GetFails(p)
  BY <1>4 DEF GetFails
<1>5. CASE FillCache(p)
  <2>1. cache' \in Lists /\ NoList \in Lists /\ list[p] \in Lists
    BY <1>5 DEF FillCache, Lists, NoList
  <2>2. QED
    BY <1>5, <2>1 DEF FillCache
<1>6. QED
  BY <1>1, <1>2, <1>3, <1>4, <1>5 DEF Get

LEMMA RestartType == TypeOK /\ Restart => TypeOK'
<1> SUFFICES ASSUME TypeOK, Restart PROVE TypeOK'
  OBVIOUS
<1>1. NoList \in Lists
  BY DEF NoList, Lists
<1>2. post' \in [Agents -> [Seqs -> States]]
  BY DEF TypeOK, Restart, States
<1>3. restarts' \in 0 .. MaxRestarts
  BY MetricAssumption DEF TypeOK, Restart
<1>4. QED
  BY <1>1, <1>2, <1>3 DEF TypeOK, Restart, tableVars, States

LEMMA NextType == TypeOK /\ [Next]_vars => TypeOK'
<1> SUFFICES ASSUME TypeOK, [Next]_vars PROVE TypeOK'
  OBVIOUS
<1>1. ASSUME NEW a \in Agents, NEW n \in Seqs, CleanupOldMetrics(a, n)
      PROVE  TypeOK'
  BY <1>1 DEF CleanupOldMetrics, TypeOK, agentVars, getVars, InFlight
<1>2. CASE UNCHANGED vars
  BY <1>2 DEF vars, TypeOK, agentVars, tableVars, getVars, InFlight
<1>3. QED
  BY <1>1, <1>2, AgentType, HandleType, GetType, RestartType DEF Next

\* Every reachable state of the ingestion path is well typed, and an agent
\* inside Send always has its own request under way.
THEOREM TypeCorrect == Spec => []TypeOK
BY InitType, NextType, PTL DEF Spec

-----------------------------------------------------------------------------
(* What is shown was committed.  The same has to hold of what a handler is *)
(* about to cache, of the table and of a list that was read from it.       *)

CommittedInv ==
  /\ ShownIsCommitted
  /\ \A a \in Agents, n \in Seqs :
       (post[a][n] = "saved" \/ rows[a][n] # 0) => n \in stored[a]
  /\ \A p \in Polls, a \in Agents : list[p][a] \in stored[a] \cup {None}

LEMMA InitCommitted == Init => CommittedInv
BY DEF Init, CommittedInv, ShownIsCommitted, NoList, NoRows

\* CommittedInv as one statement per variable.
LEMMA CommittedForm ==
  CommittedInv <=>
    /\ \A a \in Agents : cache[a] \in stored[a] \cup {None}
    /\ \A p \in Polls, a \in Agents :
         told[p][a] \in stored[a] \cup {None}
         /\ list[p][a] \in stored[a] \cup {None}
    /\ \A a \in Agents, n \in Seqs :
         (post[a][n] = "saved" \/ rows[a][n] # 0) => n \in stored[a]
BY DEF CommittedInv, ShownIsCommitted

LEMMA NextCommitted == TypeOK /\ CommittedInv /\ [Next]_vars => CommittedInv'
<1> SUFFICES ASSUME TypeOK, CommittedInv, [Next]_vars PROVE CommittedInv'
  OBVIOUS
<1>0. /\ \A a \in Agents : cache[a] \in stored[a] \cup {None}
      /\ \A p \in Polls, a \in Agents :
           told[p][a] \in stored[a] \cup {None}
           /\ list[p][a] \in stored[a] \cup {None}
      /\ \A a \in Agents, n \in Seqs :
           (post[a][n] = "saved" \/ rows[a][n] # 0) => n \in stored[a]
  BY CommittedForm
<1>1. ASSUME NEW a \in Agents, Report(a) \/ SendTimeout(a)
      PROVE  CommittedInv'
  <2>1. UNCHANGED <<rows, stored, cache, list, told>>
    BY <1>1 DEF Report, SendTimeout, tableVars, getVars
  <2>2. \A b \in Agents, m \in Seqs : post'[b][m] = "saved" => post[b][m] = "saved"
    <3>1. post \in [Agents -> [Seqs -> States]]
      BY DEF TypeOK, States
    <3>2. post' = post \/ post' = [post EXCEPT ![a][taken[a] + 1] = "sent"]
      BY <1>1 DEF Report, SendTimeout
    <3>3. QED
      BY <3>1, <3>2
  <2>3. QED
    BY <1>0, <2>1, <2>2, CommittedForm DEF CommittedInv, ShownIsCommitted
<1>2. ASSUME NEW a \in Agents, NEW n \in Seqs, PostFails(a, n)
      PROVE  CommittedInv'
  <2>1. UNCHANGED <<rows, stored, cache, list, told>>
    BY <1>2 DEF PostFails, tableVars, getVars
  <2>2. \A b \in Agents, m \in Seqs : post'[b][m] = "saved" => post[b][m] = "saved"
    BY <1>2 DEF PostFails, Finish, TypeOK
  <2>3. QED
    BY <1>0, <2>1, <2>2 DEF CommittedInv, ShownIsCommitted
<1>3. ASSUME NEW a \in Agents, NEW n \in Seqs, SaveMetric(a, n)
      PROVE  CommittedInv'
  <2>1. UNCHANGED <<cache, list, told>>
    BY <1>3 DEF SaveMetric, getVars
  <2>2. \A b \in Agents : stored'[b] = IF b = a THEN stored[a] \cup {n} ELSE stored[b]
    BY <1>3 DEF SaveMetric, TypeOK
  <2>3. \A b \in Agents, m \in Seqs :
          (post'[b][m] = "saved" \/ rows'[b][m] # 0) =>
             \/ b = a /\ m = n
             \/ post[b][m] = "saved" \/ rows[b][m] # 0
    BY <1>3 DEF SaveMetric, TypeOK
  <2>4. QED
    BY <1>0, <2>1, <2>2, <2>3 DEF CommittedInv, ShownIsCommitted
<1>4. ASSUME NEW a \in Agents, NEW n \in Seqs, CacheMetric(a, n)
      PROVE  CommittedInv'
  <2>1. UNCHANGED <<rows, stored, list, told>>
    BY <1>4 DEF CacheMetric, tableVars, getVars
  <2>2. \A b \in Agents, m \in Seqs : post'[b][m] = "saved" => post[b][m] = "saved"
    BY <1>4 DEF CacheMetric, Finish, TypeOK
  <2>3. \A b \in Agents : cache'[b] = IF b = a THEN n ELSE cache[b]
    BY <1>4 DEF CacheMetric, TypeOK, Lists
  <2>4. n \in stored[a]
    BY <1>0, <1>4 DEF CacheMetric
  <2>5. QED
    BY <1>0, <2>1, <2>2, <2>3, <2>4 DEF CommittedInv, ShownIsCommitted
<1>5. ASSUME NEW p \in Polls, Get(p)
      PROVE  CommittedInv'
  <2>1. UNCHANGED <<post, rows, stored>>
    BY <1>5 DEF Get, GetCached, GetCold, GetLatestMetrics, GetFails, FillCache,
                tableVars
  <2>2. \A a \in Agents : cache'[a] \in stored[a] \cup {None}
    BY <1>0, <1>5 DEF Get, GetCached, GetCold, GetLatestMetrics, GetFails,
                      FillCache
  <2>3. \A q \in Polls, a \in Agents : told'[q][a] \in stored[a] \cup {None}
    BY <1>0, <1>5 DEF Get, GetCached, GetCold, GetLatestMetrics, GetFails,
                      FillCache, TypeOK
  <2>4. \A q \in Polls, a \in Agents : list'[q][a] \in stored[a] \cup {None}
    <3>1. CASE GetLatestMetrics(p)
      <4>1. PICK l \in Lists : /\ \A a \in Agents : IsLatest(a, l[a])
                               /\ list' = [list EXCEPT ![p] = l]
        BY <3>1 DEF GetLatestMetrics
      <4>2. ASSUME NEW a \in Agents PROVE l[a] \in stored[a] \cup {None}
        <5>1. l[a] = None \/ (l[a] \in Seqs /\ rows[a][l[a]] # 0)
          BY <4>1 DEF IsLatest
        <5>2. QED
          BY <1>0, <5>1
      <4>3. \A q \in Polls : list'[q] = IF q = p THEN l ELSE list[q]
        BY <4>1 DEF TypeOK
      <4>4. QED
        BY <1>0, <4>2, <4>3
    <3>2. CASE ~GetLatestMetrics(p)
      <4>1. \A q \in Polls : list'[q] \in {list[q], NoList}
        BY <1>5, <3>2 DEF Get, GetCached, GetCold, GetFails, FillCache, TypeOK
      <4>2. QED
        BY <1>0, <4>1 DEF NoList
    <3>3. QED
      BY <3>1, <3>2
  <2>5. QED
    BY <1>0, <2>1, <2>2, <2>3, <2>4 DEF CommittedInv, ShownIsCommitted
<1>6. ASSUME NEW a \in Agents, NEW n \in Seqs, CleanupOldMetrics(a, n)
      PROVE  CommittedInv'
  <2>1. UNCHANGED <<post, stored, cache, list, told>>
    BY <1>6 DEF CleanupOldMetrics, getVars
  <2>2. \A b \in Agents, m \in Seqs : rows'[b][m] # 0 => rows[b][m] # 0
    BY <1>6 DEF CleanupOldMetrics, TypeOK
  <2>3. QED
    BY <1>0, <2>1, <2>2 DEF CommittedInv, ShownIsCommitted
<1>7. CASE Restart
  <2>1. UNCHANGED <<rows, stored>>
    BY <1>7 DEF Restart, tableVars
  <2>2. \A a \in Agents, n \in Seqs : post'[a][n] = "saved" => post[a][n] = "saved"
    BY <1>7 DEF Restart
  <2>3. \A a \in Agents : cache'[a] = None
    BY <1>7 DEF Restart, NoList
  <2>4. \A p \in Polls, a \in Agents : told'[p][a] = None /\ list'[p][a] = None
    BY <1>7 DEF Restart, NoList
  <2>5. QED
    BY <1>0, <2>1, <2>2, <2>3, <2>4 DEF CommittedInv, ShownIsCommitted
<1>8. CASE UNCHANGED vars
  BY <1>0, <1>8 DEF vars, agentVars, tableVars, getVars, CommittedInv,
                    ShownIsCommitted
<1>9. QED
  BY <1>1, <1>2, <1>3, <1>4, <1>5, <1>6, <1>7, <1>8 DEF Next, Handle

\* No schedule of reports, timeouts, cold reads, cleanings and restarts puts a
\* metric on a page that the database does not have or has not had.
THEOREM ShownCommitted == Spec => []ShownIsCommitted
<1>1. Init => TypeOK /\ CommittedInv
  BY InitType, InitCommitted
<1>2. TypeOK /\ CommittedInv /\ [Next]_vars => (TypeOK /\ CommittedInv)'
  BY NextType, NextCommitted
<1>3. CommittedInv => ShownIsCommitted
  BY DEF CommittedInv
<1>4. QED
  BY <1>1, <1>2, <1>3, PTL DEF Spec

-----------------------------------------------------------------------------
(* Agents stay listed: what any answer named is in the cache, and the      *)
(* cache never loses an agent.                                             *)

ListedInv == \A p \in Polls, a \in Agents : told[p][a] # None => cache[a] # None

LEMMA NextListed == TypeOK /\ ListedInv /\ [Next]_vars => ListedInv'
<1> SUFFICES ASSUME TypeOK, ListedInv, [Next]_vars PROVE ListedInv'
  OBVIOUS
<1>1. CASE UNCHANGED <<cache, told>>
  BY <1>1 DEF ListedInv
<1>2. ASSUME NEW a \in Agents, NEW n \in Seqs, CacheMetric(a, n)
      PROVE  ListedInv'
  <2>1. told' = told /\ n # None
    BY <1>2 DEF CacheMetric, getVars, Seqs, None
  <2>2. \A b \in Agents : cache'[b] = IF b = a THEN n ELSE cache[b]
    BY <1>2 DEF CacheMetric, TypeOK, Lists
  <2>3. QED
    BY <2>1, <2>2 DEF ListedInv
<1>3. ASSUME NEW p \in Polls, GetCached(p) PROVE ListedInv'
  <2>1. \A q \in Polls : told'[q] = IF q = p THEN cache ELSE told[q]
    BY <1>3 DEF GetCached, TypeOK
  <2>2. QED
    BY <1>3, <2>1 DEF GetCached, ListedInv
<1>4. ASSUME NEW p \in Polls, GetCold(p) \/ GetLatestMetrics(p) \/ GetFails(p)
      PROVE  UNCHANGED <<cache, told>>
  BY <1>4 DEF GetCold, GetLatestMetrics, GetFails
<1>5. ASSUME NEW p \in Polls, FillCache(p) PROVE ListedInv'
  <2>1. \A q \in Polls : told'[q] = IF q = p THEN list[p] ELSE told[q]
    BY <1>5 DEF FillCache, TypeOK
  <2>2. \A a \in Agents :
          cache'[a] = IF list[p][a] = None THEN cache[a] ELSE list[p][a]
    BY <1>5 DEF FillCache
  <2>3. QED
    BY <2>1, <2>2 DEF ListedInv
<1>6. CASE Restart
  BY <1>6 DEF Restart, ListedInv, NoList
<1>7. ASSUME NEW a \in Agents, Report(a) \/ SendTimeout(a)
      PROVE  UNCHANGED <<cache, told>>
  BY <1>7 DEF Report, SendTimeout, getVars
<1>8. ASSUME NEW a \in Agents, NEW n \in Seqs,
             PostFails(a, n) \/ SaveMetric(a, n) \/ CleanupOldMetrics(a, n)
      PROVE  UNCHANGED <<cache, told>>
  BY <1>8 DEF PostFails, SaveMetric, CleanupOldMetrics, getVars
<1>9. CASE UNCHANGED vars
  BY <1>1, <1>9 DEF vars, getVars
<1>10. QED
  BY <1>1, <1>2, <1>3, <1>4, <1>5, <1>6, <1>7, <1>8, <1>9 DEF Next, Handle, Get

\* A request that comes after some answer of the running server named an agent
\* is answered with it too, for every order of posts, cold reads, fills of the
\* cache and cleanings, and however the requests of all pages overlap.
THEOREM StaysListed == Spec => AgentsStayListed
<1> DEFINE Step ==
      \A p \in Polls, a \in Agents :
        (GetCached(p) \/ GetCold(p)) /\ (\E q \in Polls : told[q][a] # None)
          => GetCached(p) /\ told'[p][a] # None
<1>1. Init => TypeOK /\ ListedInv
  BY InitType DEF Init, ListedInv, NoList
<1>2. TypeOK /\ ListedInv /\ [Next]_vars => (TypeOK /\ ListedInv)'
  BY NextType, NextListed
<1>3. TypeOK /\ ListedInv => [Step]_vars
  <2> SUFFICES ASSUME TypeOK, ListedInv, NEW p \in Polls, NEW a \in Agents,
                      GetCached(p) \/ GetCold(p),
                      \E q \in Polls : told[q][a] # None
               PROVE  GetCached(p) /\ told'[p][a] # None
    OBVIOUS
  <2>1. cache[a] # None
    BY DEF ListedInv
  <2>2. GetCached(p)
    BY <2>1 DEF GetCold, NoList
  <2>3. QED
    BY <2>1, <2>2 DEF GetCached, TypeOK
<1>4. QED
  BY <1>1, <1>2, <1>3, PTL DEF Spec, AgentsStayListed
-----------------------------------------------------------------------------
(* The safe half of LastReportShown.                                       *)

\* The cache holds a's last metric, no report of a and no cold GET is under way,
\* and the server is not restarted any more.
LastCached(a) ==
  /\ cache[a] = Sends[a] /\ taken[a] = Sends[a]
  /\ \A n \in Seqs : ~InFlight(a, n)
  /\ Cold = {} /\ restarts = MaxRestarts

LEMMA LastCachedStep ==
  ASSUME TypeOK, [Next]_vars, NEW a \in Agents, LastCached(a)
  PROVE  /\ LastCached(a)'
         /\ \A p \in Polls :
              \/ told'[p] = told[p]
              \/ GetCached(p) /\ told'[p][a] = Sends[a]
<1>0. /\ cache[a] = Sends[a] /\ taken[a] = Sends[a] /\ Sends[a] \in 1 .. MaxSeq
      /\ \A n \in Seqs : ~InFlight(a, n)
      /\ \A p \in Polls : get[p] = "idle"
      /\ restarts = MaxRestarts /\ cache # NoList
  BY MetricAssumption DEF LastCached, Cold, NoList, None
<1>1. ASSUME UNCHANGED <<get, restarts>>, cache'[a] = cache[a],
             taken'[a] = taken[a], \A n \in Seqs : ~InFlight(a, n)'
      PROVE  LastCached(a)'
  BY <1>0, <1>1 DEF LastCached, Cold
<1>2. ASSUME NEW b \in Agents, Report(b) \/ SendTimeout(b)
      PROVE  LastCached(a)' /\ told' = told
  <2>1. /\ UNCHANGED <<get, restarts, cache, told>>
        /\ post' = post \/ b # a
        /\ taken'[a] = taken[a] /\ post'[a] = post[a]
    BY <1>0, <1>2, MetricAssumption
    DEF Report, SendTimeout, getVars, TypeOK
  <2>2. QED
    BY <1>0, <1>1, <2>1 DEF InFlight
<1>3. ASSUME NEW b \in Agents, NEW n \in Seqs, Handle(b, n)
      PROVE  LastCached(a)' /\ told' = told
  <2>1. InFlight(b, n)
    BY <1>3 DEF Handle, PostFails, SaveMetric, CacheMetric, InFlight
  <2>2. b # a
    BY <1>0, <2>1
  <2>3. /\ UNCHANGED <<get, restarts, told, taken>>
        /\ cache'[a] = cache[a] /\ post'[a] = post[a]
    BY <1>3, <2>2
    DEF Handle, PostFails, SaveMetric, CacheMetric, Finish, agentVars, getVars,
        TypeOK, Lists
  <2>4. QED
    BY <1>0, <1>1, <2>3 DEF InFlight
<1>4. ASSUME NEW b \in Agents, NEW n \in Seqs, CleanupOldMetrics(b, n)
      PROVE  LastCached(a)' /\ told' = told
  BY <1>0, <1>1, <1>4 DEF CleanupOldMetrics, agentVars, getVars, InFlight
<1>5. ASSUME NEW p \in Polls, Get(p)
      PROVE  /\ LastCached(a)' /\ GetCached(p)
             /\ told' = [told EXCEPT ![p] = cache]
  <2>1. GetCached(p)
    BY <1>0, <1>5 DEF Get, GetCold, GetLatestMetrics, GetFails, FillCache
  <2>2. QED
    BY <1>0, <1>1, <2>1 DEF GetCached, agentVars, InFlight
<1>6. CASE UNCHANGED vars
  BY <1>0, <1>1, <1>6 DEF vars, agentVars, getVars, InFlight
<1>7. ~Restart
  BY <1>0, MetricAssumption DEF Restart
<1>8. ASSUME NEW p \in Polls, Get(p), NEW q \in Polls
      PROVE  \/ told'[q] = told[q]
             \/ GetCached(q) /\ told'[q][a] = Sends[a]
  BY <1>0, <1>5, <1>8 DEF TypeOK
<1>9. QED
  BY <1>2, <1>3, <1>4, <1>5, <1>6, <1>7, <1>8 DEF Next, vars, getVars

\* When the last metric of an agent is cached with no cold GET and no report of
\* the agent under way, the cache holds it for good and every request that comes
\* from then on is answered with it.  What LastReportShown needs of fairness is
\* only that the report is cached and that requests go on coming.
THEOREM LastCachedForGood ==
  ASSUME NEW a \in Agents, NEW p \in Polls
  PROVE  Spec =>
           [](LastCached(a) =>
                /\ [][GetCached(p) => told'[p][a] = Sends[a]]_vars
                /\ [](told[p][a] = Sends[a] => [](told[p][a] = Sends[a])))
<1>1. Init => TypeOK
  BY InitType
<1>2. TypeOK /\ [Next]_vars => TypeOK'
  BY NextType
<1>3. TypeOK /\ [Next]_vars /\ LastCached(a) => LastCached(a)'
  BY LastCachedStep
<1>4. TypeOK /\ [Next]_vars /\ LastCached(a) /\ told[p][a] = Sends[a]
        => (told[p][a] = Sends[a])'
  BY LastCachedStep
<1>5. TypeOK /\ LastCached(a) => [GetCached(p) => told'[p][a] = Sends[a]]_vars
  BY DEF GetCached, LastCached, TypeOK
<1>6. QED
  BY <1>1, <1>2, <1>3, <1>4, <1>5, PTL DEF Spec
=============================================================================
