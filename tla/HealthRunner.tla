---------------------------- MODULE HealthRunner ----------------------------
(***************************************************************************)
(* The API health checker of the server: server/health_runner.go (the      *)
(* scheduler, one goroutine per watched target, the check itself and its   *)
(* alert), the parts of server/db.go and server/handler.go that register   *)
(* and delete targets and keep health_logs, and the part of server/main.go *)
(* that starts and stops it.                                               *)
(*                                                                         *)
(* Three kinds of actors interleave: the HTTP handlers (and an operator    *)
(* editing the database), the scheduler goroutine that runs syncJobs every *)
(* 10 seconds, and the check loops it spawns.                              *)
(***************************************************************************)
EXTENDS Naturals, Sequences, FiniteSets

CONSTANTS
  Targets,      \* identifiers of health_targets rows
  Configs,      \* versions of a row as syncJobs compares them: URL, interval, timeout
  Runs,         \* check-loop goroutines that exist at the same time
  Nil,          \* no row, no job, no loop
  AtFirst,      \* what the services may be when the system starts
  MaxFlips,     \* bound on changes of the services' health
  MaxEdits,     \* bound on edits of rows outside the API
  MaxRestarts   \* bound on ends of the server process

ASSUME ConstAssumption ==
  /\ Nil \notin Targets \cup Configs \cup Runs
  /\ AtFirst \subseteq {"ONLINE", "OFFLINE"}
  /\ MaxFlips \in Nat /\ MaxEdits \in Nat /\ MaxRestarts \in Nat

VARIABLES
  \* the database, which outlives the process
  rows,         \* health_targets: rows[t] is Nil or [conf, active]
  issued,       \* issued[t]: what id t was handed out for, or Nil: AUTOINCREMENT
                \*   never reuses an id
  lastLog,      \* lastLog[t]: status in t's newest health_logs row, "" if none
  \* the server process
  main,         \* where main() is: down, starting, serving, stopping
  sched,        \* scheduler goroutine: idle, apply (inside syncJobs), stopped
  snapshot,     \* activeDBTargets of the syncJobs under way
  jobs,         \* jobs[t]: the loop registered for t, or Nil
  cache,        \* statusCache
  pc,           \* pc[r]: what loop r does next, free when there is no loop r
  target,       \* target[r], conf[r]: the copy of the row runCheckLoop got
  conf,
  closed,       \* closed[r]: the loop's stopChan is closed
  prev,         \* prevStatus and currentStatus of the check under way
  res,
  \* the outside
  svc,          \* svc[t][c]: what a check of t as configured by c gets now
  alerts,       \* alerts[t]: statuses passed to SendAlert for t, oldest first
  seen,         \* history: what svc[t][c] has been since t's last alert
  flips, edits, restarts

dbVars   == <<rows, issued, lastLog>>
syncVars == <<main, sched, snapshot, jobs>>
loopVars == <<pc, target, conf, closed, prev, res>>
envVars  == <<svc, alerts, seen>>
counters == <<flips, edits, restarts>>
vars == <<dbVars, syncVars, cache, loopVars, envVars, counters>>

Statuses == {"ONLINE", "OFFLINE"}

\* The channel as its readers see it; what it promises is AlertLog's Spec.
Log == INSTANCE AlertLog WITH issued <- issued, svc <- svc, seen <- seen,
                              alerts <- alerts
Reported(t) == Log!Reported(t)

\* The loops as JobPool sees them, by configuration and by who was told to stop.
Pool == INSTANCE JobPool WITH
  up <- main # "down",
  open <- [t \in Targets |-> IF jobs[t] = Nil THEN Nil ELSE conf[jobs[t]]],
  ending <- [t \in Targets |-> {r \in Runs : closed[r] /\ target[r] = t}]

\* GetActiveTargets
ActiveConf(t) ==
  IF rows[t] # Nil /\ rows[t].active THEN rows[t].conf ELSE Nil

Live == {r \in Runs : pc[r] # "free"}
LoopsOf(t) == {r \in Live : target[r] = t}

ToStopMissingOnly == {t \in Targets : jobs[t] # Nil /\ snapshot[t] = Nil}

\* Jobs that syncJobs must end: no longer active, or configured differently.
ToStop == {t \in Targets : jobs[t] # Nil /\ conf[jobs[t]] # snapshot[t]}
\* Rows that syncJobs must start a job for.
ToStart == {t \in Targets : jobs[t] = Nil /\ snapshot[t] # Nil}

Init ==
  /\ rows = [t \in Targets |-> Nil]
  /\ issued = [t \in Targets |-> Nil]
  /\ lastLog = [t \in Targets |-> ""]
  /\ main = "starting"
  /\ sched = "idle"
  /\ snapshot = [t \in Targets |-> Nil]
  /\ jobs = [t \in Targets |-> Nil]
  /\ cache = [t \in Targets |-> ""]
  /\ pc = [r \in Runs |-> "free"]
  /\ target = [r \in Runs |-> Nil]
  /\ conf = [r \in Runs |-> Nil]
  /\ closed = [r \in Runs |-> FALSE]
  /\ prev = [r \in Runs |-> ""]
  /\ res = [r \in Runs |-> ""]
  /\ svc \in [Targets -> [Configs -> AtFirst]]
  /\ alerts = [t \in Targets |-> <<>>]
  /\ seen = [t \in Targets |-> Log!Now(t)]
  /\ flips = 0 /\ edits = 0 /\ restarts = 0

-----------------------------------------------------------------------------
(* The API handlers, the operator and the watched services.                *)

\* Handlers run until the process ends: Shutdown gives up on them after 10 s.
Serving == main \in {"serving", "stopping"}

CreateTargetReusingId(t, c) ==
  /\ Serving
  /\ rows[t] = Nil
  /\ rows' = [rows EXCEPT ![t] = [conf |-> c, active |-> TRUE]]
  /\ issued' = [issued EXCEPT ![t] = c]
  /\ UNCHANGED <<lastLog, syncVars, cache, loopVars, envVars, counters>>

\* HandlePostHealthTarget.  A request that is refused (wrong method, no admin
\* session, a bad body, a URL that exists) changes nothing.
CreateTarget(t, c) ==
  /\ Serving
  /\ issued[t] = Nil
  /\ rows' = [rows EXCEPT ![t] = [conf |-> c, active |-> TRUE]]
  /\ issued' = [issued EXCEPT ![t] = c]
  /\ UNCHANGED <<lastLog, syncVars, cache, loopVars, envVars, counters>>

\* HandleDeleteHealthTarget.  The logs go with the row when the pooled
\* connection that runs the DELETE enforces foreign keys (see ConnPool).
DeleteTarget(t) ==
  /\ Serving
  /\ rows[t] # Nil
  /\ rows' = [rows EXCEPT ![t] = Nil]
  /\ \/ lastLog' = [lastLog EXCEPT ![t] = ""]
     \/ UNCHANGED lastLog
  /\ UNCHANGED <<issued, syncVars, cache, loopVars, envVars, counters>>

\* The API cannot change a row or its is_active flag, but syncJobs is written
\* for rows that change: an operator's UPDATE of monitoring.db.
EditTarget(t, c, a) ==
  /\ edits < MaxEdits
  /\ rows[t] # Nil
  /\ rows[t] # [conf |-> c, active |-> a]
  /\ rows' = [rows EXCEPT ![t] = [conf |-> c, active |-> a]]
  /\ edits' = edits + 1
  /\ UNCHANGED <<issued, lastLog, syncVars, cache, loopVars, envVars,
                 flips, restarts>>

\* CleanupOldMetrics removes the last remaining log of a target.
ExpireLogs(t) ==
  /\ main # "down"
  /\ lastLog[t] # ""
  /\ lastLog' = [lastLog EXCEPT ![t] = ""]
  /\ UNCHANGED <<rows, issued, syncVars, cache, loopVars, envVars, counters>>

\* The service that c names, or the network to it, breaks or recovers.
FlipService(t, c) ==
  /\ flips < MaxFlips
  /\ \E s \in Statuses \ {svc[t][c]} :
       /\ svc' = [svc EXCEPT ![t][c] = s]
       /\ seen' = [seen EXCEPT ![t][c] = @ \cup {s}]
  /\ flips' = flips + 1
  /\ UNCHANGED <<dbVars, syncVars, cache, loopVars, alerts, edits, restarts>>

-----------------------------------------------------------------------------
(* The scheduler.  jobsMutex is held from SyncRead to SyncDone.            *)

\* GetActiveTargets succeeds.  The first syncJobs runs in main(), before the
\* handlers and the ticker exist; the others run in the scheduler goroutine.
SyncRead ==
  /\ main # "down" /\ sched = "idle"
  /\ snapshot' = [t \in Targets |-> ActiveConf(t)]
  /\ sched' = "apply"
  /\ UNCHANGED <<dbVars, main, jobs, cache, loopVars, envVars, counters>>

\* GetActiveTargets fails: syncJobs returns, Start goes on without jobs.
SyncFail ==
  /\ main = "starting" /\ sched = "idle"
  /\ main' = "serving"
  /\ UNCHANGED <<dbVars, sched, snapshot, jobs, cache, loopVars, envVars,
                 counters>>

SyncStopWithoutClose(t) ==
  /\ sched = "apply"
  /\ t \in ToStop
  /\ jobs' = [jobs EXCEPT ![t] = Nil]
  /\ UNCHANGED <<dbVars, main, sched, snapshot, cache, loopVars, envVars,
                 counters>>

\* First loop of syncJobs: close the job's channel and forget the job.
SyncStop(t) ==
  /\ sched = "apply"
  /\ t \in ToStop
  /\ closed' = [closed EXCEPT ![jobs[t]] = TRUE]
  /\ jobs' = [jobs EXCEPT ![t] = Nil]
  /\ UNCHANGED <<dbVars, main, sched, snapshot, cache, pc, target, conf, prev,
                 res, envVars, counters>>

\* Second loop of syncJobs: register a job and spawn its loop.
SyncStart(t, r) ==
  /\ sched = "apply"
  /\ ToStop = {}
  /\ t \in ToStart
  /\ pc[r] = "free"
  /\ jobs' = [jobs EXCEPT ![t] = r]
  /\ pc' = [pc EXCEPT ![r] = "begin"]
  /\ target' = [target EXCEPT ![r] = t]
  /\ conf' = [conf EXCEPT ![r] = snapshot[t]]
  /\ UNCHANGED <<dbVars, main, sched, snapshot, cache, closed, prev, res,
                 envVars, counters>>

SyncDone ==
  /\ sched = "apply"
  /\ ToStop = {} /\ ToStart = {}
  /\ sched' = "idle"
  /\ snapshot' = [t \in Targets |-> Nil]
  /\ main' = IF main = "starting" THEN "serving" ELSE main
  /\ UNCHANGED <<dbVars, jobs, cache, loopVars, envVars, counters>>

\* A signal: main() runs the deferred Stop, which only closes the scheduler's
\* channel.
Stop ==
  /\ main = "serving"
  /\ main' = "stopping"
  /\ UNCHANGED <<dbVars, sched, snapshot, jobs, cache, loopVars, envVars,
                 counters>>

StopAllJobsKeepsLoops ==
  /\ main = "stopping" /\ sched = "idle"
  /\ sched' = "stopped"
  /\ jobs' = [t \in Targets |-> Nil]
  /\ UNCHANGED <<dbVars, main, snapshot, cache, loopVars, envVars, counters>>

\* The scheduler's select takes stopChan.  It may take the ticker first when
\* both are ready, so another SyncRead can come between Stop and this.
StopAllJobs ==
  /\ main = "stopping" /\ sched = "idle"
  /\ sched' = "stopped"
  /\ closed' = [r \in Runs |->
                  closed[r] \/ \E t \in Targets : jobs[t] = r]
  /\ jobs' = [t \in Targets |-> Nil]
  /\ UNCHANGED <<dbVars, main, snapshot, cache, pc, target, conf, prev, res,
                 envVars, counters>>

\* The process ends: killed or crashed at any point, or main() returning after
\* Stop, which waits for neither the scheduler nor the loops.
ProcessEnds ==
  /\ main # "down"
  /\ restarts < MaxRestarts
  /\ restarts' = restarts + 1
  /\ main' = "down" /\ sched' = "idle"
  /\ snapshot' = [t \in Targets |-> Nil]
  /\ jobs' = [t \in Targets |-> Nil]
  /\ cache' = [t \in Targets |-> ""]
  /\ pc' = [r \in Runs |-> "free"]
  /\ target' = [r \in Runs |-> Nil]
  /\ conf' = [r \in Runs |-> Nil]
  /\ closed' = [r \in Runs |-> FALSE]
  /\ prev' = [r \in Runs |-> ""]
  /\ res' = [r \in Runs |-> ""]
  /\ UNCHANGED <<dbVars, envVars, flips, edits>>

ProcessStarts ==
  /\ main = "down"
  /\ main' = "starting"
  /\ UNCHANGED <<dbVars, sched, snapshot, jobs, cache, loopVars, envVars,
                 counters>>

-----------------------------------------------------------------------------
(* A check loop: checkTarget once, then again on every tick until stopped. *)

\* Every step of a check moves loop r on to p and leaves these alone.
Goto(r, p) ==
  /\ pc' = [pc EXCEPT ![r] = p]
  /\ UNCHANGED <<rows, issued, syncVars, target, conf, closed, svc, counters>>

\* checkTarget returns: its locals are gone, the loop waits in its select.
Return(r) ==
  /\ Goto(r, "wait")
  /\ prev' = [prev EXCEPT ![r] = ""]
  /\ res' = [res EXCEPT ![r] = ""]

\* A check that finds neither a cached status nor a log does not assume ONLINE.
CheckBeginNoDefault(r) ==
  /\ pc[r] = "begin"
  /\ \E s \in IF cache[target[r]] # "" THEN {cache[target[r]]}
              ELSE {lastLog[target[r]]} :
       /\ cache' = [cache EXCEPT ![target[r]] = s]
       /\ prev' = [prev EXCEPT ![r] = s]
  /\ Goto(r, "probe")
  /\ UNCHANGED <<lastLog, res, alerts, seen>>

CheckBeginLogFirst(r) ==
  /\ pc[r] = "begin"
  /\ \E s \in IF lastLog[target[r]] # "" THEN {lastLog[target[r]]}
              ELSE {"ONLINE", cache[target[r]]} \ {""} :
       /\ cache' = [cache EXCEPT ![target[r]] = s]
       /\ prev' = [prev EXCEPT ![r] = s]
  /\ Goto(r, "probe")
  /\ UNCHANGED <<lastLog, res, alerts, seen>>

\* The previous status, all under cacheMutex: the cached one, else the newest
\* log's, else ONLINE; a failed query counts as no log.
CheckBegin(r) ==
  /\ pc[r] = "begin"
  /\ \E s \in IF cache[target[r]] # "" THEN {cache[target[r]]}
              ELSE {"ONLINE", lastLog[target[r]]} \ {""} :
       /\ cache' = [cache EXCEPT ![target[r]] = s]
       /\ prev' = [prev EXCEPT ![r] = s]
  /\ Goto(r, "probe")
  /\ UNCHANGED <<lastLog, res, alerts, seen>>

\* client.Get of the URL the loop was started with, not of the stored one:
\* ONLINE for 2xx and 3xx, OFFLINE for any other answer, a timeout or no
\* connection.
Probe(r) ==
  /\ pc[r] = "probe"
  /\ res' = [res EXCEPT ![r] = svc[target[r]][conf[r]]]
  /\ Goto(r, "save")
  /\ UNCHANGED <<lastLog, cache, prev, alerts, seen>>

\* SaveHealthLog; an error is logged and the check goes on.
SaveLog(r) ==
  /\ pc[r] = "save"
  /\ \/ lastLog' = [lastLog EXCEPT ![target[r]] = res[r]]
     \/ UNCHANGED lastLog
  /\ Goto(r, "record")
  /\ UNCHANGED <<cache, prev, res, alerts, seen>>

\* Whether to alert: the if statement that follows the cache write.
Compare(r) ==
  \/ prev[r] \notin {"", res[r]} /\ Goto(r, "alert") /\ UNCHANGED <<prev, res>>
  \/ prev[r] \in {"", res[r]} /\ Return(r)

RecordNothing(r) ==
  /\ pc[r] = "record"
  /\ Compare(r)
  /\ UNCHANGED <<lastLog, cache, alerts, seen>>

\* The cache write, and what checkTarget does next.
Record(r) ==
  /\ pc[r] = "record"
  /\ cache' = [cache EXCEPT ![target[r]] = res[r]]
  /\ Compare(r)
  /\ UNCHANGED <<lastLog, alerts, seen>>

AlertPrevious(r) ==
  /\ pc[r] = "alert"
  /\ alerts' = [alerts EXCEPT ![target[r]] = Append(@, prev[r])]
  /\ seen' = [seen EXCEPT ![target[r]] = Log!Now(target[r])]
  /\ Return(r)
  /\ UNCHANGED <<lastLog, cache>>

\* SendAlert with the new status.
Alert(r) ==
  /\ pc[r] = "alert"
  /\ alerts' = [alerts EXCEPT ![target[r]] = Append(@, res[r])]
  /\ seen' = [seen EXCEPT ![target[r]] = Log!Now(target[r])]
  /\ Return(r)
  /\ UNCHANGED <<lastLog, cache>>

\* The loop's select takes its ticker, even when stopChan is closed as well.
Tick(r) ==
  /\ pc[r] = "wait"
  /\ Goto(r, "begin")
  /\ UNCHANGED <<lastLog, cache, prev, res, alerts, seen>>

\* The loop's select takes stopChan.
LoopExit(r) ==
  /\ pc[r] = "wait" /\ closed[r]
  /\ pc' = [pc EXCEPT ![r] = "free"]
  /\ target' = [target EXCEPT ![r] = Nil]
  /\ conf' = [conf EXCEPT ![r] = Nil]
  /\ closed' = [closed EXCEPT ![r] = FALSE]
  /\ UNCHANGED <<dbVars, syncVars, cache, prev, res, envVars, counters>>

-----------------------------------------------------------------------------
Environment ==
  \E t \in Targets :
    \/ \E c \in Configs : \/ CreateTarget(t, c)
                          \/ \E a \in BOOLEAN : EditTarget(t, c, a)
                          \/ FlipService(t, c)
    \/ DeleteTarget(t)
    \/ ExpireLogs(t)

SyncStep ==
  \/ SyncRead
  \/ \E t \in Targets : SyncStop(t) \/ \E r \in Runs : SyncStart(t, r)
  \/ SyncDone

CheckStep(r) ==
  CheckBegin(r) \/ Probe(r) \/ SaveLog(r) \/ Record(r) \/ Alert(r) \/ Tick(r)

Next ==
  \/ Environment
  \/ SyncStep
  \/ SyncFail
  \/ Stop
  \/ StopAllJobs
  \/ ProcessEnds
  \/ ProcessStarts
  \/ \E r \in Runs : CheckStep(r) \/ LoopExit(r)

Spec == Init /\ [][Next]_vars

(* Tickers keep ticking and every HTTP or database call returns (client and *)
(* busy timeouts), so the scheduler and each loop keep moving.  A select    *)
(* with two ready channels takes each of them with probability 1/2: strong  *)
(* fairness for the two stop branches, which the tickers keep disabling.    *)
Fairness ==
  /\ WF_vars(SyncStep)
  /\ SF_vars(StopAllJobs)
  /\ \A r \in Runs : WF_vars(CheckStep(r)) /\ SF_vars(LoopExit(r))

FairSpec == Spec /\ Fairness

-----------------------------------------------------------------------------
(* Safety                                                                  *)

DatabaseOK ==
  /\ rows \in [Targets -> [conf : Configs, active : BOOLEAN] \cup {Nil}]
  /\ issued \in [Targets -> Configs \cup {Nil}]
  /\ lastLog \in [Targets -> Statuses \cup {""}]

SchedulerOK ==
  /\ main \in {"down", "starting", "serving", "stopping"}
  /\ sched \in {"idle", "apply", "stopped"}
  /\ snapshot \in [Targets -> Configs \cup {Nil}]
  /\ jobs \in [Targets -> Runs \cup {Nil}]
  /\ cache \in [Targets -> Statuses \cup {""}]

LoopsOK ==
  /\ pc \in [Runs -> {"free", "begin", "probe", "save", "record", "alert",
                      "wait"}]
  /\ target \in [Runs -> Targets \cup {Nil}]
  /\ conf \in [Runs -> Configs \cup {Nil}]
  /\ closed \in [Runs -> BOOLEAN]
  /\ prev \in [Runs -> Statuses \cup {""}]
  /\ res \in [Runs -> Statuses \cup {""}]
  /\ \A r \in Runs :
       /\ pc[r] # "free" => target[r] \in Targets /\ conf[r] \in Configs
       /\ pc[r] \in {"probe", "save", "record", "alert"} => prev[r] \in Statuses
       /\ pc[r] \in {"save", "record", "alert"} => res[r] \in Statuses

OutsideOK ==
  /\ svc \in [Targets -> [Configs -> Statuses]]
  /\ alerts \in [Targets -> Seq(Statuses)]
  /\ seen \in [Targets -> [Configs -> SUBSET Statuses]]
  /\ flips \in Nat /\ edits \in Nat /\ restarts \in Nat

\* Every variable has its type, and a loop has the locals its place in
\* checkTarget needs: a target from its start to its exit, a previous status
\* (never "") from the cache lookup on, a result from the request on.
TypeOK == DatabaseOK /\ SchedulerOK /\ LoopsOK /\ OutsideOK

\* The jobs map and the goroutines agree, whatever is edited and whenever the
\* process dies: every registered job has its loop, and every loop that no one
\* has told to stop is registered, so that syncJobs or Stop can still end it; no
\* loop is born stopped.
JobsAgree ==
  /\ \A t \in Targets : jobs[t] # Nil =>
       pc[jobs[t]] # "free" /\ target[jobs[t]] = t /\ ~closed[jobs[t]]
  /\ \A r \in Live : ~closed[r] => jobs[target[r]] = r
  /\ \A r \in Runs \ Live : ~closed[r]

\* The scheduler handles its loops as a job pool must, under edits, failures,
\* crashes and restarts: it never has two loops meant for one target, never
\* changes what a loop watches, and loses no loop that it did not stop.
ImplementsJobPool == Pool!Spec

\* No two loops ever check the same target while rows are only created and
\* deleted through the API: an id is never reused, so the loop of a deleted
\* target can overlap no other.
OneLoopPerTarget ==
  \A r1, r2 \in Live : target[r1] = target[r2] => r1 = r2

\* The channel sees an outage first and then outages and recoveries in turn,
\* never the same status twice (health_runner.go:208).
AlertsAlternate ==
  \A t \in Targets :
    /\ alerts[t] # <<>> => alerts[t][1] = "OFFLINE"
    /\ \A i \in 1 .. Len(alerts[t]) - 1 : alerts[t][i] # alerts[t][i + 1]

\* What the runner remembers of t's status is what the channel was last told,
\* except while the loop that found a change is about to announce it: no failed
\* save, expired log or deletion makes the next check compare with a status that
\* nobody was told (health_runner.go:144-206).
CacheAnnounced ==
  \A t \in Targets :
    cache[t] # "" /\ (\A r \in LoopsOf(t) : pc[r] # "alert")
      => cache[t] = Reported(t)

\* The runner keeps the promise made to the channel's readers.
ImplementsAlertLog == Log!Spec

-----------------------------------------------------------------------------
(* Liveness                                                                *)

\* While the server runs, syncJobs brings the loops in line with the table,
\* after any edits and restarts: in the end exactly the stored configuration
\* of t is being checked, and nothing is when t is deleted or inactive.
WatchSettles ==
  \A t \in Targets : \A c \in Configs \cup {Nil} :
    <>[](main = "serving" /\ ActiveConf(t) = c)
      => <>[]({conf[r] : r \in LoopsOf(t)} = {c} \ {Nil})

\* The server runs and watches t, and what is stored for t is in state s.
WatchedIn(t, s) ==
  main = "serving" /\ ActiveConf(t) # Nil /\ svc[t][ActiveConf(t)] = s

\* When a watched service stays up (or down), the status cache ends up saying so,
\* after whatever failures and crashes.  So do the alerts, unless the process was
\* restarted, which may forget an outage that was saved and not yet announced,
\* or the row was edited: the last alert may be one of the loop it had before.
AlertsTruthful ==
  \A t \in Targets : \A s \in Statuses :
    <>[]WatchedIn(t, s)
      => <>[](/\ cache[t] = s
                /\ restarts = 0 /\ edits = 0 => Reported(t) = s)

\* Stop eventually ends every loop, unless the process is gone first.
StopDrains ==
  main = "stopping" ~> (Live = {} \/ main = "down")
=============================================================================
