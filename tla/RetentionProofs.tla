--------------------------- MODULE RetentionProofs ---------------------------
(***************************************************************************)
(* Proofs about Retention.tla, for any rows, settings and lengths of a day *)
(* and a cleanup.                                                          *)
(***************************************************************************)
EXTENDS Retention, TLAPS

-----------------------------------------------------------------------------
(* The cutoff.                                                             *)

\* The days the operator asked for are those the cleaners use.
LEMMA RetentionIsAsked == TypeOK /\ HasAsked => RetentionDays = AskedDays
<1> SUFFICES ASSUME TypeOK, HasAsked PROVE RetentionDays = AskedDays
  OBVIOUS
<1>1. file # Unset => file \in Int
  BY RetentionAssumption DEF TypeOK
<1>2. QED
  BY <1>1 DEF RetentionDays, HasAsked, AskedDays, LoadConfig

LEMMA CutoffType ==
  ASSUME TypeOK
  PROVE  /\ RetentionDays \in Int /\ zone \in Int /\ Cutoff \in Int
         /\ RetentionDays * DayHours \in Int
<1>1. zone \in Int
  BY RetentionAssumption DEF TypeOK
<1>2. file # Unset => file \in Int
  BY RetentionAssumption DEF TypeOK
<1>3. flag # Unset => flag \in Int
  BY RetentionAssumption DEF TypeOK
<1>4. RetentionDays \in Int
  BY <1>2, <1>3 DEF RetentionDays, LoadConfig
<1>5. DayHours \in Int
  BY RetentionAssumption
<1>6. RetentionDays * DayHours \in Int
  BY <1>4, <1>5
<1>7. QED
  BY <1>1, <1>4, <1>6 DEF Cutoff

\* Nothing changes the settings, and so the cutoff of an instant stays.
LEMMA KeepCutoff == UNCHANGED settings => UNCHANGED Cutoff
BY DEF settings, Cutoff, RetentionDays, LoadConfig

\* No cleanup under way deletes what is younger than the cutoff.
LEMMA LimitAtLeastCutoff ==
  ASSUME TypeOK, NEW k \in Cleaners, pc[k] # "idle"
  PROVE  limit[k] \in Int /\ Cutoff <= limit[k]
BY CutoffType, RetentionAssumption DEF TypeOK

-----------------------------------------------------------------------------
(* Type correctness.                                                       *)

Places == {"idle", "metrics", "orphans", "logs"}

LEMMA InitType == Init => TypeOK
<1> SUFFICES ASSUME Init PROVE TypeOK
  OBVIOUS
<1>1. due \in [Cleaners -> BOOLEAN]
  BY DEF Init
<1>2. age \in [Metrics \cup Logs -> 0 .. Oldest]
  BY RetentionAssumption DEF Init
<1>3. limit \in [Cleaners -> Int] /\ \A k \in Cleaners : limit[k] = 0 /\ pc[k] = "idle"
  BY DEF Init
<1>4. restarts \in 0 .. MaxRestarts
  BY RetentionAssumption DEF Init
<1>5. QED
  BY <1>1, <1>2, <1>3, <1>4 DEF Init, TypeOK

\* Steps of the tables only: an age set to 0, rows and disks within their types.
LEMMA TableType ==
  ASSUME TypeOK, UNCHANGED <<settings, pc, limit, due, restarts>>,
         age' \in [Metrics \cup Logs -> 0 .. Oldest],
         rows' \in SUBSET (Metrics \cup Logs), disks' \in SUBSET Metrics,
         reading' \in Metrics \cup {Unset}
  PROVE  TypeOK'
BY KeepCutoff DEF TypeOK, settings

LEMMA RowsType ==
  ASSUME TypeOK,
         \/ \E m \in Metrics : SaveMetric(m) \/ ReadMetric(m)
         \/ \E l \in Logs : SaveHealthLog(l)
         \/ ReadDisks
  PROVE  TypeOK'
<1>1. ASSUME NEW m \in Metrics, SaveMetric(m) PROVE TypeOK'
  <2>1. age' \in [Metrics \cup Logs -> 0 .. Oldest]
    BY <1>1, RetentionAssumption DEF SaveMetric, TypeOK
  <2>2. QED
    BY <1>1, <2>1, TableType DEF SaveMetric, TypeOK
<1>2. ASSUME NEW m \in Metrics, ReadMetric(m) PROVE TypeOK'
  BY <1>2, TableType DEF ReadMetric, TypeOK, tables
<1>3. ASSUME NEW l \in Logs, SaveHealthLog(l) PROVE TypeOK'
  <2>1. age' \in [Metrics \cup Logs -> 0 .. Oldest]
    BY <1>3, RetentionAssumption DEF SaveHealthLog, TypeOK
  <2>2. QED
    BY <1>3, <2>1, TableType DEF SaveHealthLog, TypeOK
<1>4. CASE ReadDisks
  BY <1>4, TableType DEF ReadDisks, TypeOK, tables
<1>5. QED
  BY <1>1, <1>2, <1>3, <1>4

LEMMA HourType == ASSUME TypeOK, Hour PROVE TypeOK'
<1>1. age' \in [Metrics \cup Logs -> 0 .. Oldest]
  <2>1. \A x \in Metrics \cup Logs :
          age[x] \in 0 .. Oldest /\ (age[x] < Oldest => age[x] + 1 \in 0 .. Oldest)
    BY RetentionAssumption DEF TypeOK
  <2>2. age' = [x \in Metrics \cup Logs |->
                  IF x \in rows \cup {reading} /\ age[x] < Oldest
                  THEN age[x] + 1 ELSE age[x]]
    BY DEF Hour, TypeOK
  <2>3. QED
    BY <2>1, <2>2
<1>2. /\ limit' = [k \in Cleaners |->
                     IF pc[k] = "idle" THEN limit[k] ELSE limit[k] + 1]
      /\ \A k \in Cleaners : pc[k] # "idle" => limit[k] < Cutoff + MaxHours
      /\ UNCHANGED <<settings, rows, disks, reading, pc, restarts>>
  BY DEF Hour
<1>3. ASSUME NEW k \in Cleaners
      PROVE  /\ limit'[k] \in Int
             /\ limit'[k] \in IF pc[k] = "idle" THEN {0}
                                             ELSE Cutoff .. Cutoff + MaxHours
  <2>1. limit'[k] = IF pc[k] = "idle" THEN limit[k] ELSE limit[k] + 1
    BY <1>2
  <2>2. CASE pc[k] = "idle"
    BY <2>1, <2>2 DEF TypeOK
  <2>3. CASE pc[k] # "idle"
    BY <1>2, <2>1, <2>3, CutoffType, LimitAtLeastCutoff, RetentionAssumption
  <2>4. QED
    BY <2>2, <2>3
<1>4. limit' \in [Cleaners -> Int]
  BY <1>2, <1>3
<1>5. due' \in [Cleaners -> BOOLEAN]
  BY DEF Hour, TypeOK
<1>6. Cutoff' = Cutoff
  BY <1>2, KeepCutoff
<1>7. QED
  BY <1>1, <1>2, <1>3, <1>4, <1>5, <1>6 DEF TypeOK, settings

\* A cleanup that goes on keeps its cutoff, one that ends forgets it.
LEMMA GotoType ==
  ASSUME TypeOK, NEW k \in Cleaners, NEW p \in Places, Goto(k, p),
         pc[k] # "idle", age' = age,
         rows' \in SUBSET (Metrics \cup Logs), disks' \in SUBSET Metrics
  PROVE  TypeOK'
<1>1. /\ pc' = [pc EXCEPT ![k] = p]
      /\ limit' = [limit EXCEPT ![k] = IF p = "idle" THEN 0 ELSE @]
      /\ UNCHANGED <<settings, reading, due, restarts>>
  BY DEF Goto
<1>2. Cutoff' = Cutoff
  BY <1>1, KeepCutoff
<1>3. pc' \in [Cleaners -> Places] /\ limit' \in [Cleaners -> Int]
  BY <1>1 DEF TypeOK, Places
<1>4. ASSUME NEW j \in Cleaners
      PROVE  limit'[j] \in IF pc'[j] = "idle" THEN {0}
                                            ELSE Cutoff .. Cutoff + MaxHours
  BY <1>1 DEF TypeOK
<1>5. QED
  BY <1>1, <1>2, <1>3, <1>4 DEF TypeOK, settings, Places

LEMMA CleanType == ASSUME TypeOK, NEW k \in Cleaners, Clean(k) PROVE TypeOK'
<1>1. CASE Begin(k)
  <2>1. /\ pc' = [pc EXCEPT ![k] = "metrics"]
        /\ limit' = [limit EXCEPT ![k] = Cutoff]
        /\ due' = [due EXCEPT ![k] = FALSE]
        /\ UNCHANGED <<settings, tables, reading, restarts>>
    BY <1>1 DEF Begin
  <2>2. Cutoff' = Cutoff /\ Cutoff \in Int
    BY <2>1, KeepCutoff, CutoffType
  <2>3. /\ pc' \in [Cleaners -> Places] /\ limit' \in [Cleaners -> Int]
        /\ due' \in [Cleaners -> BOOLEAN]
    BY <2>1, <2>2 DEF TypeOK, Places
  <2>4. ASSUME NEW j \in Cleaners
        PROVE  limit'[j] \in IF pc'[j] = "idle" THEN {0}
                                              ELSE Cutoff .. Cutoff + MaxHours
    BY <2>1, <2>2, RetentionAssumption DEF TypeOK
  <2>5. QED
    BY <2>1, <2>2, <2>3, <2>4 DEF TypeOK, settings, tables, Places
<1>2. CASE DeleteMetrics(k)
  BY <1>2, GotoType DEF DeleteMetrics, TypeOK, Places
<1>3. CASE DeleteMetricsFails(k)
  BY <1>3, GotoType DEF DeleteMetricsFails, TypeOK, Places, tables
<1>4. CASE DeleteOrphans(k)
  BY <1>4, GotoType DEF DeleteOrphans, TypeOK, Places
<1>5. CASE DeleteOrphansFails(k)
  BY <1>5, GotoType DEF DeleteOrphansFails, TypeOK, Places, tables
<1>6. CASE DeleteLogs(k)
  BY <1>6, GotoType DEF DeleteLogs, TypeOK, Places
<1>7. CASE DeleteLogsFails(k)
  BY <1>7, GotoType DEF DeleteLogsFails, TypeOK, Places, tables
<1>8. QED
  BY <1>1, <1>2, <1>3, <1>4, <1>5, <1>6, <1>7 DEF Clean

LEMMA RestartType == ASSUME TypeOK, Restart PROVE TypeOK'
<1>1. restarts' \in 0 .. MaxRestarts
  BY RetentionAssumption DEF Restart, TypeOK
<1>2. due' \in [Cleaners -> BOOLEAN]
  BY DEF Restart
<1>3. /\ pc' \in [Cleaners -> Places] /\ limit' \in [Cleaners -> Int]
      /\ \A k \in Cleaners : pc'[k] = "idle" /\ limit'[k] = 0
  BY DEF Restart, Places
<1>4. UNCHANGED <<settings, tables>> /\ reading' = Unset
  BY DEF Restart
<1>5. QED
  BY <1>1, <1>2, <1>3, <1>4 DEF TypeOK, settings, tables, Places

LEMMA NextType == TypeOK /\ [Next]_vars => TypeOK'
<1> SUFFICES ASSUME TypeOK, [Next]_vars PROVE TypeOK'
  OBVIOUS
<1>1. CASE UNCHANGED vars
  BY <1>1, TableType DEF vars, TypeOK, tables
<1>2. QED
  BY <1>1, RowsType, HourType, CleanType, RestartType DEF Next

\* Every reachable state is well typed, and a cleanup under way deletes what was
\* beyond the cutoff at an instant within its duration.
THEOREM TypeCorrect == Spec => []TypeOK
BY InitType, NextType, PTL DEF Spec

-----------------------------------------------------------------------------
(* What is deleted is old enough.                                          *)

\* Whoever deletes a row, the row is beyond the cutoff.
LEMMA DeletedBeyondCutoff ==
  ASSUME TypeOK, [Next]_vars, NEW x \in rows \ rows'
  PROVE  age[x] \in Nat /\ age[x] > Cutoff
<1>0. age[x] \in Nat /\ Cutoff \in Int
  BY CutoffType, RetentionAssumption DEF TypeOK
<1>1. PICK k \in Cleaners : DeleteMetrics(k) \/ DeleteLogs(k)
  BY DEF Next, vars, tables, SaveMetric, ReadMetric, SaveHealthLog, ReadDisks,
         Hour, Clean, Begin, DeleteMetricsFails, DeleteOrphans,
         DeleteOrphansFails, DeleteLogsFails, Restart
<1>2. pc[k] # "idle" /\ age[x] > limit[k]
  BY <1>1 DEF DeleteMetrics, DeleteLogs, Expired
<1>3. limit[k] \in Int /\ Cutoff <= limit[k]
  BY <1>2, LimitAtLeastCutoff
<1>4. QED
  BY <1>0, <1>2, <1>3

\* For every offset of the server's clock: a deleted row is older than the days
\* the operator asked for, less that offset.
THEOREM KeptButForZone ==
  Spec =>
    [][HasAsked => \A x \in rows \ rows' :
                      age[x] > AskedDays * DayHours - zone]_vars
<1>1. TypeOK /\ [Next]_vars =>
        [HasAsked => \A x \in rows \ rows' :
                       age[x] > AskedDays * DayHours - zone]_vars
  <2> SUFFICES ASSUME TypeOK, [Next]_vars, HasAsked, NEW x \in rows \ rows'
               PROVE  age[x] > AskedDays * DayHours - zone
    OBVIOUS
  <2>1. age[x] > Cutoff
    BY DeletedBeyondCutoff
  <2>2. QED
    BY <2>1, RetentionIsAsked DEF Cutoff
<1>2. QED
  BY <1>1, TypeCorrect, PTL DEF Spec

\* Where the clock is not ahead of UTC nothing goes before the time the operator
\* asked for, however cleanups overlap, fail and restart.
THEOREM RetentionKept ==
  ASSUME \A z \in Zones : z <= 0
  PROVE  Spec => KeepsRetention
<1>1. TypeOK /\ [Next]_vars =>
        [HasAsked => \A x \in rows \ rows' : age[x] > AskedDays * DayHours]_vars
  <2> SUFFICES ASSUME TypeOK, [Next]_vars, HasAsked, NEW x \in rows \ rows'
               PROVE  age[x] > AskedDays * DayHours
    OBVIOUS
  <2>1. age[x] \in Nat /\ age[x] > Cutoff
    BY DeletedBeyondCutoff
  <2>2. zone \in Int /\ zone <= 0
    BY RetentionAssumption DEF TypeOK
  <2> DEFINE hours == RetentionDays * DayHours
  <2>3. hours \in Int /\ Cutoff = hours - zone
    BY CutoffType DEF Cutoff
  <2>4. hours = AskedDays * DayHours
    BY RetentionIsAsked
  <2> HIDE DEF hours
  <2>5. age[x] > hours
    BY <2>1, <2>2, <2>3
  <2>6. QED
    BY <2>4, <2>5
<1>2. QED
  BY <1>1, TypeCorrect, PTL DEF Spec, KeepsRetention

-----------------------------------------------------------------------------
(* No metric is torn.  A metric that is being read and whose row is gone    *)
(* was beyond the cutoff already; its disks may go later.                  *)

TornInv ==
  /\ NothingTorn
  /\ reading # Unset /\ reading \notin rows => age[reading] > Cutoff

LEMMA InitTorn == Init => TornInv
BY DEF Init, TornInv, NothingTorn

LEMMA NextTorn == TypeOK /\ TornInv /\ [Next]_vars => TornInv'
<1> SUFFICES ASSUME TypeOK, TornInv, [Next]_vars PROVE TornInv'
  OBVIOUS
<1> USE DEF TornInv, NothingTorn
<1>0. /\ Cutoff \in Int /\ Cutoff' = Cutoff
      /\ \A x \in Metrics \cup Logs : age[x] \in Nat
      /\ DOMAIN age = Metrics \cup Logs /\ rows \subseteq Metrics \cup Logs
      /\ reading \in Metrics \cup {Unset} /\ Unset \notin Metrics
      /\ Metrics \cap Logs = {}
  <2>1. UNCHANGED settings
    BY DEF Next, vars, SaveMetric, ReadMetric, SaveHealthLog, ReadDisks, Hour,
           Clean, Begin, DeleteMetrics, DeleteMetricsFails, DeleteOrphans,
           DeleteOrphansFails, DeleteLogs, DeleteLogsFails, Goto, Restart
  <2>2. QED
    BY <2>1, CutoffType, KeepCutoff, RetentionAssumption DEF TypeOK
<1>1. ASSUME NEW m \in Metrics, SaveMetric(m) PROVE TornInv'
  BY <1>0, <1>1 DEF SaveMetric
<1>2. ASSUME NEW m \in Metrics, ReadMetric(m) PROVE TornInv'
  BY <1>0, <1>2 DEF ReadMetric, tables
<1>3. ASSUME NEW l \in Logs, SaveHealthLog(l) PROVE TornInv'
  BY <1>0, <1>3 DEF SaveHealthLog
<1>4. CASE ReadDisks \/ Restart
  BY <1>0, <1>4 DEF ReadDisks, Restart, tables
<1>5. CASE Hour
  <2>1. UNCHANGED <<rows, disks, reading>>
    BY <1>5 DEF Hour
  <2>2. reading # Unset => age'[reading] \in Nat /\ age'[reading] >= age[reading]
    BY <1>0, <1>5 DEF Hour
  <2>3. QED
    BY <1>0, <2>1, <2>2
<1>6. ASSUME NEW k \in Cleaners, DeleteMetrics(k) PROVE TornInv'
  <2>1. pc[k] # "idle" /\ UNCHANGED <<age, reading>>
    BY <1>6 DEF DeleteMetrics, Goto
  <2>2. limit[k] \in Int /\ Cutoff <= limit[k]
    BY <2>1, LimitAtLeastCutoff
  <2> DEFINE old == {m \in Metrics : Expired(m, limit[k])}
  <2>3. rows' = rows \ old /\ disks' \in {disks, disks \ old}
    BY <1>6 DEF DeleteMetrics
  <2>4. \A m \in old : m \in Metrics /\ age[m] > Cutoff
    BY <1>0, <2>2 DEF Expired
  <2> HIDE DEF old
  <2>5. QED
    BY <1>0, <2>1, <2>3, <2>4
<1>7. ASSUME NEW k \in Cleaners, DeleteOrphans(k) PROVE TornInv'
  BY <1>0, <1>7 DEF DeleteOrphans, Goto
<1>8. ASSUME NEW k \in Cleaners, DeleteLogs(k) PROVE TornInv'
  <2>1. /\ \A m \in Metrics : m \in rows' <=> m \in rows
        /\ UNCHANGED <<age, disks, reading>>
    BY <1>0, <1>8 DEF DeleteLogs, Goto
  <2>2. QED
    BY <1>0, <2>1
<1>9. ASSUME NEW k \in Cleaners,
             Begin(k) \/ DeleteMetricsFails(k) \/ DeleteOrphansFails(k)
               \/ DeleteLogsFails(k)
      PROVE  TornInv'
  BY <1>0, <1>9 DEF Begin, DeleteMetricsFails, DeleteOrphansFails,
                    DeleteLogsFails, Goto, tables
<1>10. CASE UNCHANGED vars
  BY <1>0, <1>10 DEF vars, tables
<1>11. QED
  BY <1>1, <1>2, <1>3, <1>4, <1>5, <1>6, <1>7, <1>8, <1>9, <1>10
  DEF Next, Clean

\* A stored metric always has its disks, and a reader that finds them missing
\* was reading a metric that the retention had already condemned.
THEOREM NeverTorn == Spec => []NothingTorn
<1>1. Init => TypeOK /\ TornInv
  BY InitType, InitTorn
<1>2. TypeOK /\ TornInv /\ [Next]_vars => (TypeOK /\ TornInv)'
  BY NextType, NextTorn
<1>3. TornInv => NothingTorn
  BY DEF TornInv
<1>4. QED
  BY <1>1, <1>2, <1>3, PTL DEF Spec
=============================================================================
