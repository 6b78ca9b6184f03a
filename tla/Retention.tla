------------------------------ MODULE Retention ------------------------------
(***************************************************************************)
(* How long the server keeps its data: the retention period from the file  *)
(* and the command line (server/config.go, server/main.go), the cleaners   *)
(* that main() starts, CleanupOldMetrics, and next to them SaveMetric and  *)
(* the two queries of GetLatestMetrics (server/db.go).                     *)
(*                                                                         *)
(* Time is relative: an age in hours for every row, and for a cleanup      *)
(* under way the age its cutoff stands for, which grows as hours pass.     *)
(***************************************************************************)
EXTENDS Integers, FiniteSets

CONSTANTS
  Metrics,      \* rows of metrics that exist at the same time
  Logs,         \* rows of health_logs that exist at the same time
  DayHours,     \* hours of a day: 24
  Zones,        \* the server's clock may be set this many hours ahead of UTC
  FileDays,     \* values retention_days may have in the configuration file
  FlagDays,     \* values -retention may have on the command line
  Unset,        \* no file; no flag; no row
  Oldest,       \* bound on ages, beyond every cutoff: older rows are alike
  MaxHours,     \* bound on the hours that pass during one cleanup
  MaxRestarts   \* bound on restarts of the server process

ASSUME RetentionAssumption ==
  /\ DayHours \in Nat \ {0} /\ Oldest \in Nat
  /\ MaxHours \in Nat /\ MaxRestarts \in Nat
  /\ Zones \subseteq Int
  /\ FileDays \ {Unset} \subseteq Int /\ FlagDays \ {Unset} \subseteq Int
  /\ Unset \notin Int \cup Metrics
  /\ Metrics \cap Logs = {}

VARIABLES
  zone, file, flag,     \* the settings of this installation
  age,          \* age[x]: hours since row x was written
  rows,         \* rows of metrics and health_logs
  disks,        \* metrics that disk_metrics has rows for
  reading,      \* the metric GetLatestMetrics has read, its disks not yet
  pc,           \* pc[k]: idle, metrics, orphans, logs: what k deletes next
  limit,        \* limit[k]: rows older than this are beyond k's cutoff
  due,          \* due[k]: k is to start; for "hourly", a tick lies in its channel
  restarts

Cleaners == {"startup", "hourly"}

settings == <<zone, file, flag>>
tables == <<age, rows, disks>>
vars == <<settings, tables, reading, pc, limit, due, restarts>>

\* retention_days of LoadConfig, or of the defaults when there is no file.
LoadConfig(f) == IF f = Unset \/ f <= 0 THEN 1 ELSE f

RetentionDaysFileFirst ==
  IF file = Unset /\ flag # Unset THEN flag ELSE LoadConfig(file)

\* main() takes over a flag that was given, whatever its value.
RetentionDays == IF flag = Unset THEN LoadConfig(file) ELSE flag

\* The cutoff is the local time that many days ago, written without its zone,
\* and datetime() takes it for UTC: the age beyond which a row is deleted.
Cutoff == RetentionDays * DayHours - zone

Expired(x, h) == x \in rows /\ age[x] > h

Init ==
  /\ zone \in Zones /\ file \in FileDays /\ flag \in FlagDays
  /\ age = [x \in Metrics \cup Logs |-> 0]
  /\ rows = {} /\ disks = {}
  /\ reading = Unset
  /\ pc = [k \in Cleaners |-> "idle"]
  /\ limit = [k \in Cleaners |-> 0]
  /\ due = [k \in Cleaners |-> k = "startup"]
  /\ restarts = 0

-----------------------------------------------------------------------------
(* Rows are written and read.                                              *)

SaveMetricInTwoSteps(m) ==
  /\ m \notin rows \cup disks \cup {reading}
  /\ rows' = rows \cup {m}
  /\ age' = [age EXCEPT ![m] = 0]
  /\ UNCHANGED <<settings, disks, reading, pc, limit, due, restarts>>

\* One transaction: the metric and its disks, or on any error neither.
SaveMetric(m) ==
  /\ m \notin rows \cup disks \cup {reading}
  /\ rows' = rows \cup {m}
  /\ disks' = disks \cup {m}
  /\ age' = [age EXCEPT ![m] = 0]
  /\ UNCHANGED <<settings, reading, pc, limit, due, restarts>>

SaveHealthLog(l) ==
  /\ l \notin rows
  /\ rows' = rows \cup {l}
  /\ age' = [age EXCEPT ![l] = 0]
  /\ UNCHANGED <<settings, disks, reading, pc, limit, due, restarts>>

\* The outer query of GetLatestMetrics yields a metric ...
ReadMetric(m) ==
  /\ reading = Unset /\ m \in rows
  /\ reading' = m
  /\ UNCHANGED <<settings, tables, pc, limit, due, restarts>>

\* ... and getDiskMetricsForID asks for its disks, on another connection and at
\* a later time: what it sees is the disks of then.
ReadDisks ==
  /\ reading # Unset
  /\ reading' = Unset
  /\ UNCHANGED <<settings, tables, pc, limit, due, restarts>>

\* An hour passes.  A tick that the cleaner has not taken yet is not doubled.
Hour ==
  /\ \A k \in Cleaners : pc[k] # "idle" => limit[k] < Cutoff + MaxHours
  /\ age' = [x \in DOMAIN age |->
               IF x \in rows \cup {reading} /\ age[x] < Oldest THEN age[x] + 1
                                                           ELSE age[x]]
  /\ limit' = [k \in Cleaners |->
                 IF pc[k] = "idle" THEN limit[k] ELSE limit[k] + 1]
  /\ due' = [due EXCEPT !["hourly"] = TRUE]
  /\ UNCHANGED <<settings, rows, disks, reading, pc, restarts>>

-----------------------------------------------------------------------------
(* CleanupOldMetrics, called by the two goroutines of main().              *)

BeginWithoutCutoff(k) ==
  /\ pc[k] = "idle" /\ due[k]
  /\ due' = [due EXCEPT ![k] = FALSE]
  /\ pc' = [pc EXCEPT ![k] = "metrics"]
  /\ UNCHANGED <<settings, tables, reading, limit, restarts>>

Begin(k) ==
  /\ pc[k] = "idle" /\ due[k]
  /\ due' = [due EXCEPT ![k] = FALSE]
  /\ limit' = [limit EXCEPT ![k] = Cutoff]
  /\ pc' = [pc EXCEPT ![k] = "metrics"]
  /\ UNCHANGED <<settings, tables, reading, restarts>>

Goto(k, p) ==
  /\ pc' = [pc EXCEPT ![k] = p]
  /\ limit' = [limit EXCEPT ![k] = IF p = "idle" THEN 0 ELSE @]
  /\ UNCHANGED <<settings, reading, due, restarts>>

\* The disks go with their metric if the pooled connection that runs the DELETE
\* enforces foreign keys (see ConnPool).
DeleteMetrics(k) ==
  /\ pc[k] = "metrics"
  /\ LET old == {m \in Metrics : Expired(m, limit[k])}
     IN  /\ rows' = rows \ old
         /\ disks' \in {disks, disks \ old}
  /\ Goto(k, "orphans")
  /\ UNCHANGED age

\* An error ends the cleanup; the next one is an hour away.
DeleteMetricsFails(k) ==
  /\ pc[k] = "metrics"
  /\ Goto(k, "idle")
  /\ UNCHANGED tables

RelyOnCascade(k) ==
  /\ pc[k] = "orphans"
  /\ Goto(k, "logs")
  /\ UNCHANGED tables

DeleteOrphans(k) ==
  /\ pc[k] = "orphans"
  /\ disks' = disks \cap rows
  /\ Goto(k, "logs")
  /\ UNCHANGED <<age, rows>>

\* Its error is ignored.
DeleteOrphansFails(k) ==
  /\ pc[k] = "orphans"
  /\ Goto(k, "logs")
  /\ UNCHANGED tables

\* The VACUUM that follows if anything was deleted changes no row.
DeleteLogs(k) ==
  /\ pc[k] = "logs"
  /\ rows' = rows \ {l \in Logs : Expired(l, limit[k])}
  /\ Goto(k, "idle")
  /\ UNCHANGED <<age, disks>>

DeleteLogsFails(k) ==
  /\ pc[k] = "logs"
  /\ Goto(k, "idle")
  /\ UNCHANGED tables

\* The process ends, perhaps within a cleanup, and starts again.
Restart ==
  /\ restarts < MaxRestarts
  /\ restarts' = restarts + 1
  /\ reading' = Unset
  /\ pc' = [k \in Cleaners |-> "idle"]
  /\ limit' = [k \in Cleaners |-> 0]
  /\ due' = [k \in Cleaners |-> k = "startup"]
  /\ UNCHANGED <<settings, tables>>

-----------------------------------------------------------------------------
Clean(k) ==
  \/ Begin(k)
  \/ DeleteMetrics(k) \/ DeleteMetricsFails(k)
  \/ DeleteOrphans(k) \/ DeleteOrphansFails(k)
  \/ DeleteLogs(k) \/ DeleteLogsFails(k)

Next ==
  \/ \E m \in Metrics : SaveMetric(m) \/ ReadMetric(m)
  \/ \E l \in Logs : SaveHealthLog(l)
  \/ ReadDisks
  \/ Hour
  \/ \E k \in Cleaners : Clean(k)
  \/ Restart

Spec == Init /\ [][Next]_vars

(* Hours pass, and every call of the database returns; a DELETE that the    *)
(* hourly cleaner tries again and again succeeds at some time.              *)
Fairness ==
  /\ WF_vars(Hour)
  /\ \A k \in Cleaners : WF_vars(Clean(k))
  /\ SF_vars(DeleteMetrics("hourly"))
  /\ SF_vars(DeleteOrphans("hourly"))
  /\ SF_vars(DeleteLogs("hourly"))

FairSpec == Spec /\ Fairness

-----------------------------------------------------------------------------
(* Properties                                                              *)

\* Every variable has its type, and a cleanup under way has the cutoff of an
\* instant within the hours that it may have taken.
TypeOK ==
  /\ zone \in Zones /\ file \in FileDays /\ flag \in FlagDays
  /\ age \in [Metrics \cup Logs -> 0 .. Oldest]
  /\ rows \in SUBSET (Metrics \cup Logs)
  /\ disks \in SUBSET Metrics
  /\ reading \in Metrics \cup {Unset}
  /\ pc \in [Cleaners -> {"idle", "metrics", "orphans", "logs"}]
  /\ limit \in [Cleaners -> Int]
  /\ due \in [Cleaners -> BOOLEAN]
  /\ restarts \in 0 .. MaxRestarts
  /\ \A k \in Cleaners :
       limit[k] \in IF pc[k] = "idle" THEN {0} ELSE Cutoff .. Cutoff + MaxHours

\* The days the operator asked for: the flag's, which "overrides config"
\* (main.go:22), else the file's.  Where neither is a number of days, nothing is
\* asked: the default in the code is not the one in README.md:78.
AskedDays == IF flag # Unset THEN flag ELSE file

HasAsked == AskedDays # Unset /\ AskedDays > 0

\* The cleaners delete only records "that are older than the specified
\* retention days" (db.go:261), even with a cutoff that is hours old, beside
\* another cleanup or after a restart, and whichever of file and flag says so.
KeepsRetention ==
  [][HasAsked => \A x \in rows \ rows' : age[x] > AskedDays * DayHours]_vars

\* A stored metric has its disks, and so has the metric that a reader is about
\* to complete, unless the retention has taken it in the meantime.
NothingTorn ==
  /\ \A m \in Metrics \cap rows : m \in disks
  /\ reading # Unset /\ reading \notin disks => age[reading] > Cutoff

\* Every record beyond the cutoff goes in the end, and so do the disks of a
\* metric that was deleted without the cascade, however often a DELETE fails
\* and at whatever step of a cleanup the process ends.
ExpiredGo ==
  /\ \A x \in Metrics \cup Logs : Expired(x, Cutoff) ~> x \notin rows
  /\ \A m \in Metrics : m \in disks \ rows ~> m \notin disks \ rows
=============================================================================
