---------------------- MODULE HealthRunnerAlertProofs ----------------------
(***************************************************************************)
(* Proofs about what SendAlert is called with, for HealthRunner.tla as the *)
(* API drives it: rows are created and deleted but not edited.  The        *)
(* results about the loops hold until the first edit, those about alerts   *)
(* until the first edit or the first end of the process; TLC refutes them  *)
(* beyond.                                                                 *)
(***************************************************************************)
EXTENDS HealthRunnerProofs

\* So far the API alone has driven the runner, in one process.
Calm == edits = 0 /\ restarts = 0

\* It is all that ever drives it.
OnlyApi == MaxEdits = 0 /\ MaxRestarts = 0

\* Edits and restarts are only ever added, within their bounds.
LEMMA CountersGrow ==
  ASSUME TypeOK, [Next]_vars
  PROVE  /\ edits' = edits \/ (edits < MaxEdits /\ edits' = edits + 1)
         /\ restarts' = restarts
              \/ (restarts < MaxRestarts /\ restarts' = restarts + 1)
<1>1. CASE Environment
  BY <1>1 DEF Environment, CreateTarget, EditTarget, DeleteTarget, ExpireLogs,
              FlipService, counters
<1>2. CASE SyncStep \/ SyncFail \/ Stop \/ StopAllJobs \/ ProcessStarts
           \/ ProcessEnds
  BY <1>2 DEF SyncStep, SyncRead, SyncStop, SyncStart, SyncDone, SyncFail, Stop,
              StopAllJobs, ProcessStarts, ProcessEnds, counters
<1>3. ASSUME NEW r \in Runs, CheckStep(r) \/ LoopExit(r)
      PROVE  UNCHANGED counters
  BY <1>3 DEF CheckStep, CheckBegin, Probe, SaveLog, Record, Compare, Alert,
              Return, Tick, Goto, LoopExit
<1>4. CASE UNCHANGED vars
  BY <1>4 DEF vars, counters
<1>5. QED
  BY <1>1, <1>2, <1>3, <1>4 DEF Next, counters

\* A state before which nothing was edited and no process had ended.
LEMMA CalmBefore ==
  ASSUME TypeOK, [Next]_vars
  PROVE  (edits' = 0 => edits = 0) /\ (Calm' => Calm)
BY CountersGrow DEF TypeOK, OutsideOK, Calm

Bounded == edits <= MaxEdits /\ restarts <= MaxRestarts

LEMMA AlwaysBounded == Spec => []Bounded
<1>1. Init => TypeOK /\ Bounded
  <2>1. Init => edits = 0 /\ restarts = 0
    BY DEF Init
  <2>2. QED
    BY <2>1, InitType, ConstAssumption DEF Bounded
<1>2. TypeOK /\ Bounded /\ [Next]_vars => (TypeOK /\ Bounded)'
  <2> SUFFICES ASSUME TypeOK, Bounded, [Next]_vars PROVE (TypeOK /\ Bounded)'
    OBVIOUS
  <2>1. edits \in Nat /\ restarts \in Nat /\ MaxEdits \in Nat /\ MaxRestarts \in Nat
    BY ConstAssumption DEF TypeOK, OutsideOK
  <2>2. Bounded'
    BY <2>1, CountersGrow DEF Bounded
  <2>3. QED
    BY <2>2, NextType
<1>3. QED
  BY <1>1, <1>2, PTL DEF Spec

-----------------------------------------------------------------------------
(* The structural half of the inductive invariant: rows, jobs and loops.   *)

\* A row has one configuration for life, and is active: the jobs map and the
\* snapshot of the sync under way can differ from it only when it is deleted.
RowsFixed ==
  /\ \A t \in Targets :
       /\ rows[t] # Nil =>
            issued[t] # Nil /\ rows[t].conf = issued[t] /\ rows[t].active
       /\ jobs[t] # Nil => conf[jobs[t]] = issued[t]
  /\ sched = "apply" => \A t \in Targets :
       /\ snapshot[t] # Nil => snapshot[t] = issued[t]
       /\ snapshot[t] = Nil /\ jobs[t] # Nil => rows[t] = Nil

\* A loop checks what its target was registered with.  It is stopped only after
\* its row is gone, and no sync that is still to finish read that row: the
\* stopped loop has no successor.
StoppedIsFinal ==
  /\ \A r \in Live : conf[r] = issued[target[r]]
  /\ sched # "stopped" => \A r \in Live : closed[r] =>
       /\ rows[target[r]] = Nil
       /\ sched = "apply" => snapshot[target[r]] = Nil

Structure == TypeOK /\ JobsAgree /\ RowsFixed /\ StoppedIsFinal
             /\ OneLoopPerTarget

\* The types that the proofs below use over and over.
LEMMA Shapes ==
  ASSUME TypeOK
  PROVE  /\ Nil \notin Targets \cup Configs \cup Runs
         /\ DOMAIN rows = Targets /\ issued \in [Targets -> Configs \cup {Nil}]
         /\ \A t \in Targets : rows[t] # Nil => rows[t].conf \in Configs
         /\ DOMAIN snapshot = Targets /\ DOMAIN cache = Targets
         /\ snapshot \in [Targets -> Configs \cup {Nil}]
         /\ jobs \in [Targets -> Runs \cup {Nil}]
         /\ closed \in [Runs -> BOOLEAN]
         /\ DOMAIN pc = Runs /\ DOMAIN target = Runs /\ DOMAIN conf = Runs
         /\ \A r \in Live : target[r] \in Targets /\ conf[r] \in Configs
<1>1. DatabaseOK /\ SchedulerOK /\ LoopsOK
  BY DEF TypeOK
<1>2. /\ DOMAIN rows = Targets /\ issued \in [Targets -> Configs \cup {Nil}]
      /\ \A t \in Targets : rows[t] # Nil => rows[t].conf \in Configs
  BY <1>1 DEF DatabaseOK
<1>3. /\ DOMAIN snapshot = Targets /\ DOMAIN cache = Targets
      /\ snapshot \in [Targets -> Configs \cup {Nil}]
      /\ jobs \in [Targets -> Runs \cup {Nil}]
  BY <1>1 DEF SchedulerOK
<1>4. /\ closed \in [Runs -> BOOLEAN]
      /\ DOMAIN pc = Runs /\ DOMAIN target = Runs /\ DOMAIN conf = Runs
      /\ \A r \in Live : target[r] \in Targets /\ conf[r] \in Configs
  BY <1>1 DEF LoopsOK, Live
<1> QED
  BY <1>2, <1>3, <1>4, ConstAssumption

\* A job belongs to an id that was handed out.
LEMMA JobIssued ==
  ASSUME Structure, NEW t \in Targets, jobs[t] # Nil
  PROVE  jobs[t] \in Live /\ target[jobs[t]] = t /\ issued[t] # Nil
BY Shapes DEF Structure, JobsAgree, StoppedIsFinal, Live

LEMMA InitStructure == Init => RowsFixed /\ StoppedIsFinal /\ OneLoopPerTarget
<1> SUFFICES ASSUME Init
             PROVE  RowsFixed /\ StoppedIsFinal /\ OneLoopPerTarget
  OBVIOUS
<1>1. rows = [t \in Targets |-> Nil] /\ jobs = [t \in Targets |-> Nil]
      /\ sched = "idle" /\ pc = [r \in Runs |-> "free"]
  BY DEF Init
<1>2. Live = {}
  BY <1>1 DEF Live
<1>3. QED
  BY <1>1, <1>2 DEF RowsFixed, StoppedIsFinal, OneLoopPerTarget

\* Nothing the structure reads has changed.
LEMMA KeepStructure ==
  ASSUME RowsFixed, StoppedIsFinal, OneLoopPerTarget, UNCHANGED Live,
         UNCHANGED <<rows, issued, sched, snapshot, jobs, target, conf, closed>>
  PROVE  (RowsFixed /\ StoppedIsFinal /\ OneLoopPerTarget)'
BY DEF RowsFixed, StoppedIsFinal, OneLoopPerTarget

LEMMA EnvironmentStructure ==
  ASSUME Structure, Environment, edits' = 0
  PROVE  (RowsFixed /\ StoppedIsFinal /\ OneLoopPerTarget)'
<1>0. UNCHANGED Live /\ UNCHANGED <<sched, snapshot, jobs, target, conf, closed>>
  BY DEF Environment, CreateTarget, EditTarget, DeleteTarget, ExpireLogs,
         FlipService, syncVars, loopVars, Live
<1> USE Shapes DEF Structure
<1>1. ASSUME NEW t \in Targets, NEW c \in Configs, CreateTarget(t, c)
      PROVE  (RowsFixed /\ StoppedIsFinal /\ OneLoopPerTarget)'
  <2>1. /\ issued[t] = Nil /\ issued'[t] = c /\ c # Nil
        /\ \A u \in Targets \ {t} : issued'[u] = issued[u]
        /\ rows'[t] = [conf |-> c, active |-> TRUE]
        /\ \A u \in Targets \ {t} : rows'[u] = rows[u]
    BY <1>1 DEF CreateTarget
  <2>2. jobs[t] = Nil /\ \A r \in Live : target[r] # t
    BY <2>1, JobIssued DEF StoppedIsFinal
  <2>3. sched = "apply" => snapshot[t] = Nil
    BY <2>1 DEF RowsFixed
  <2>4. RowsFixed'
    BY <1>0, <2>1, <2>2, <2>3 DEF RowsFixed
  <2>5. StoppedIsFinal'
    BY <1>0, <2>1, <2>2 DEF StoppedIsFinal
  <2>6. QED
    BY <1>0, <2>4, <2>5 DEF OneLoopPerTarget
<1>2. ASSUME NEW t \in Targets, DeleteTarget(t)
      PROVE  (RowsFixed /\ StoppedIsFinal /\ OneLoopPerTarget)'
  <2>1. /\ issued' = issued /\ rows'[t] = Nil
        /\ \A u \in Targets \ {t} : rows'[u] = rows[u]
    BY <1>2 DEF DeleteTarget
  <2>2. RowsFixed'
    BY <1>0, <2>1 DEF RowsFixed
  <2>3. StoppedIsFinal'
    BY <1>0, <2>1 DEF StoppedIsFinal
  <2>4. QED
    BY <1>0, <2>2, <2>3 DEF OneLoopPerTarget
<1>3. ASSUME NEW t \in Targets,
             ExpireLogs(t) \/ \E c \in Configs : FlipService(t, c)
      PROVE  (RowsFixed /\ StoppedIsFinal /\ OneLoopPerTarget)'
  <2>1. UNCHANGED <<rows, issued>>
    BY <1>3 DEF ExpireLogs, FlipService, dbVars
  <2>2. QED
    BY <1>0, <2>1, KeepStructure
<1>4. ASSUME NEW t \in Targets, NEW c \in Configs, NEW a \in BOOLEAN,
             EditTarget(t, c, a)
      PROVE  FALSE
  BY <1>4 DEF EditTarget, TypeOK, OutsideOK
<1>5. QED
  BY <1>1, <1>2, <1>3, <1>4 DEF Environment

LEMMA SchedulerStructure ==
  ASSUME Structure, SyncStep \/ SyncFail \/ Stop \/ StopAllJobs
  PROVE  (RowsFixed /\ StoppedIsFinal /\ OneLoopPerTarget)'
<1>0. UNCHANGED <<rows, issued>>
  BY DEF SyncStep, SyncRead, SyncStop, SyncStart, SyncDone, SyncFail, Stop,
         StopAllJobs, dbVars
<1> USE Shapes DEF Structure
<1>1. ASSUME SyncRead PROVE (RowsFixed /\ StoppedIsFinal /\ OneLoopPerTarget)'
  <2>1. /\ sched = "idle" /\ sched' = "apply"
        /\ \A t \in Targets : snapshot'[t] = ActiveConf(t)
        /\ UNCHANGED <<jobs, pc, target, conf, closed>>
    BY <1>1 DEF SyncRead, loopVars
  <2>2. \A t \in Targets : ActiveConf(t) = IF rows[t] = Nil THEN Nil
                                           ELSE rows[t].conf
    BY DEF ActiveConf, RowsFixed
  <2>3. RowsFixed'
    BY <1>0, <2>1, <2>2 DEF RowsFixed
  <2>4. StoppedIsFinal'
    BY <1>0, <2>1, <2>2 DEF StoppedIsFinal, Live
  <2>5. QED
    BY <2>1, <2>3, <2>4 DEF OneLoopPerTarget, Live
<1>2. ASSUME NEW t \in Targets, SyncStop(t)
      PROVE  (RowsFixed /\ StoppedIsFinal /\ OneLoopPerTarget)'
  <2>1. /\ sched = "apply" /\ jobs[t] # Nil /\ conf[jobs[t]] # snapshot[t]
        /\ jobs'[t] = Nil /\ \A u \in Targets \ {t} : jobs'[u] = jobs[u]
        /\ \A r \in Runs \ {jobs[t]} : closed'[r] = closed[r]
        /\ UNCHANGED <<sched, snapshot, pc, target, conf>>
    BY <1>2 DEF SyncStop, ToStop
  <2>2. snapshot[t] = Nil /\ rows[t] = Nil
    BY <2>1 DEF RowsFixed
  <2>3. target[jobs[t]] = t
    BY <2>1, JobIssued
  <2>4. RowsFixed'
    BY <1>0, <2>1 DEF RowsFixed
  <2>5. StoppedIsFinal'
    BY <1>0, <2>1, <2>2, <2>3 DEF StoppedIsFinal, Live
  <2>6. QED
    BY <2>1, <2>4, <2>5 DEF OneLoopPerTarget, Live
<1>3. ASSUME NEW t \in Targets, NEW r \in Runs, SyncStart(t, r)
      PROVE  (RowsFixed /\ StoppedIsFinal /\ OneLoopPerTarget)'
  <2>1. /\ sched = "apply" /\ jobs[t] = Nil /\ snapshot[t] # Nil
        /\ pc[r] = "free" /\ pc'[r] # "free"
        /\ jobs'[t] = r /\ \A u \in Targets \ {t} : jobs'[u] = jobs[u]
        /\ target'[r] = t /\ conf'[r] = snapshot[t]
        /\ \A q \in Runs \ {r} : /\ pc'[q] = pc[q]
                                 /\ target'[q] = target[q] /\ conf'[q] = conf[q]
        /\ UNCHANGED <<sched, snapshot, closed>>
    BY <1>3 DEF SyncStart, ToStart
  <2>2. Live' = Live \cup {r} /\ r \notin Live
    BY <2>1 DEF Live
  <2>3. \A q \in Live : target[q] # t
    <3>1. \A q \in Live : closed[q] => target[q] # t
      BY <2>1 DEF StoppedIsFinal
    <3>2. \A q \in Live : ~closed[q] => target[q] # t
      BY <2>1 DEF JobsAgree, Live
    <3>3. QED
      BY <3>1, <3>2
  <2>4. \A u \in Targets : jobs[u] # r
    BY <2>2, JobIssued
  <2>5. ~closed[r]
    BY <2>2 DEF JobsAgree
  <2>6. RowsFixed'
    BY <1>0, <2>1, <2>4 DEF RowsFixed
  <2>7. StoppedIsFinal'
    BY <1>0, <2>1, <2>2, <2>5 DEF StoppedIsFinal, RowsFixed, Live
  <2>8. OneLoopPerTarget'
    BY <2>1, <2>2, <2>3 DEF OneLoopPerTarget, Live
  <2>9. QED
    BY <2>6, <2>7, <2>8
<1>4. ASSUME SyncDone \/ StopAllJobs
      PROVE  (RowsFixed /\ StoppedIsFinal /\ OneLoopPerTarget)'
  <2>1. /\ UNCHANGED <<pc, target, conf>> /\ sched' # "apply"
        /\ sched' # "stopped" => UNCHANGED closed /\ sched # "stopped"
        /\ \A t \in Targets : jobs'[t] # Nil => jobs'[t] = jobs[t]
    BY <1>4 DEF SyncDone, StopAllJobs, loopVars
  <2>2. UNCHANGED Live
    BY <2>1 DEF Live
  <2>3. RowsFixed'
    BY <1>0, <2>1 DEF RowsFixed
  <2>4. StoppedIsFinal'
    BY <1>0, <2>1, <2>2 DEF StoppedIsFinal
  <2>5. QED
    BY <2>1, <2>2, <2>3, <2>4 DEF OneLoopPerTarget
<1>5. ASSUME SyncFail \/ Stop
      PROVE  (RowsFixed /\ StoppedIsFinal /\ OneLoopPerTarget)'
  <2>1. UNCHANGED Live
        /\ UNCHANGED <<sched, snapshot, jobs, target, conf, closed>>
    BY <1>5 DEF SyncFail, Stop, loopVars, Live
  <2>2. QED
    BY <1>0, <2>1, KeepStructure
<1>6. QED
  BY <1>1, <1>2, <1>3, <1>4, <1>5 DEF SyncStep

LEMMA LoopStructure ==
  ASSUME Structure, NEW r \in Runs, CheckStep(r) \/ LoopExit(r)
  PROVE  (RowsFixed /\ StoppedIsFinal /\ OneLoopPerTarget)'
<1> USE Shapes DEF Structure
<1>1. CASE CheckStep(r)
  <2>1. /\ pc[r] # "free" /\ pc'[r] # "free"
        /\ \A q \in Runs \ {r} : pc'[q] = pc[q]
        /\ UNCHANGED <<rows, issued, sched, snapshot, jobs, target, conf, closed>>
    BY <1>1 DEF CheckStep, CheckBegin, Probe, SaveLog, Record, Compare, Alert,
                Return, Tick, Goto, syncVars
  <2>2. UNCHANGED Live
    BY <2>1 DEF Live
  <2>3. QED
    BY <2>1, <2>2, KeepStructure
<1>2. CASE LoopExit(r)
  <2>1. /\ pc[r] = "wait" /\ closed[r] /\ pc'[r] = "free"
        /\ UNCHANGED <<rows, issued, sched, snapshot, jobs>>
        /\ \A q \in Runs \ {r} : /\ pc'[q] = pc[q] /\ target'[q] = target[q]
                                 /\ conf'[q] = conf[q] /\ closed'[q] = closed[q]
    BY <1>2 DEF LoopExit, syncVars, dbVars
  <2>2. Live' = Live \ {r}
    BY <2>1 DEF Live
  <2>3. \A t \in Targets : jobs[t] # r
    BY <2>1 DEF JobsAgree
  <2>4. RowsFixed'
    BY <2>1, <2>3 DEF RowsFixed
  <2>5. StoppedIsFinal'
    BY <2>1, <2>2 DEF StoppedIsFinal, Live
  <2>6. QED
    BY <2>1, <2>2, <2>4, <2>5 DEF OneLoopPerTarget, Live
<1>3. QED
  BY <1>1, <1>2

LEMMA NextStructure == Structure /\ edits' = 0 /\ [Next]_vars => Structure'
<1> SUFFICES ASSUME Structure, edits' = 0, [Next]_vars PROVE Structure'
  OBVIOUS
<1>1. TypeOK' /\ JobsAgree'
  BY NextType, NextJobs DEF Structure
<1>2. ASSUME ProcessStarts \/ UNCHANGED vars
      PROVE  (RowsFixed /\ StoppedIsFinal /\ OneLoopPerTarget)'
  <2>1. UNCHANGED Live
        /\ UNCHANGED <<rows, issued, sched, snapshot, jobs, target, conf, closed>>
    BY <1>2 DEF ProcessStarts, vars, dbVars, syncVars, loopVars, Live
  <2>2. QED
    BY <2>1, KeepStructure DEF Structure
<1>3. ASSUME ProcessEnds
      PROVE  (RowsFixed /\ StoppedIsFinal /\ OneLoopPerTarget)'
  <2>1. /\ UNCHANGED <<rows, issued>> /\ sched' = "idle"
        /\ \A t \in Targets : jobs'[t] = Nil
        /\ \A r \in Runs : pc'[r] = "free"
    BY <1>3 DEF ProcessEnds, dbVars
  <2>2. Live' = {}
    BY <2>1 DEF Live
  <2>3. QED
    BY <2>1, <2>2 DEF Structure, RowsFixed, StoppedIsFinal, OneLoopPerTarget
<1>4. (RowsFixed /\ StoppedIsFinal /\ OneLoopPerTarget)'
  BY <1>2, <1>3, EnvironmentStructure, SchedulerStructure, LoopStructure
  DEF Next
<1>5. QED
  BY <1>1, <1>4 DEF Structure

\* While rows change through the API only, the runner never checks a target in
\* two loops at once, restarts or not: ids are not reused, so a stopped loop has
\* no successor to overlap.
THEOREM OneLoopUntilEdited == Spec => [](edits = 0 => OneLoopPerTarget)
<1> DEFINE SInv == TypeOK /\ (edits = 0 => Structure)
<1>1. Init => SInv
  BY InitType, InitJobs, InitStructure DEF Structure
<1>2. SInv /\ [Next]_vars => SInv'
  BY NextType, NextStructure, CalmBefore
<1>3. SInv => (edits = 0 => OneLoopPerTarget)
  BY DEF Structure
<1>4. QED
  BY <1>1, <1>2, <1>3, PTL DEF Spec

\* The same for a model whose operator edits nothing.
THEOREM OneLoop ==
  ASSUME MaxEdits = 0 PROVE Spec => []OneLoopPerTarget
<1>1. TypeOK /\ Bounded => edits = 0
  BY DEF Bounded, TypeOK, OutsideOK
<1>2. QED
  BY <1>1, TypeCorrect, AlwaysBounded, OneLoopUntilEdited, PTL

-----------------------------------------------------------------------------
(* The other half: what the cache and each check know of the channel.      *)

\* Between two checks the cache holds what the channel was last told.
Known(t) == cache[t] \in {"", Reported(t)}

\* What loop r holds, at each point of checkTarget, about its target.
CheckHolds(r) ==
  LET t == target[r] IN
  /\ pc[r] \in {"begin", "wait"} => Known(t)
  /\ pc[r] \in {"probe", "save", "record"} =>
       prev[r] = Reported(t) /\ cache[t] = Reported(t)
  /\ pc[r] = "alert" =>
       prev[r] = Reported(t) /\ cache[t] = res[r] /\ res[r] # Reported(t)
  /\ pc[r] \in {"save", "record", "alert"} => res[r] \in seen[t][conf[r]]

\* The cache is the channel's state, except in the loop that is about to alert.
CacheIsReported ==
  /\ \A t \in Targets :
       /\ cache[t] = "" => lastLog[t] = "" /\ alerts[t] = <<>>
       /\ \A c \in Configs : svc[t][c] \in seen[t][c]
       /\ LoopsOf(t) = {} => Known(t)
  /\ \A r \in Live : CheckHolds(r)

Inv == Structure /\ CacheIsReported /\ AlertsAlternate

\* What the proofs below use of the types and of the structure.
LEMMA CheckShapes ==
  ASSUME Structure, NEW r \in Runs, pc[r] # "free"
  PROVE  /\ target[r] \in Targets /\ r \in Live /\ conf[r] \in Configs
         /\ issued[target[r]] = conf[r]
         /\ \A q \in Live \ {r} : target[q] # target[r]
         /\ LoopsOf(target[r]) # {}
         /\ pc[r] \in {"save", "record", "alert"} => res[r] \in Statuses
BY DEF Structure, TypeOK, LoopsOK, Live, LoopsOf, StoppedIsFinal,
       OneLoopPerTarget

\* Appending an alert changes what is reported of its target.
LEMMA ReportedAfterAlert ==
  ASSUME NEW t \in Targets, NEW s, alerts \in [Targets -> Seq(Statuses)],
         alerts' = [alerts EXCEPT ![t] = Append(@, s)]
  PROVE  /\ Reported(t)' = s
         /\ \A u \in Targets \ {t} : Reported(u)' = Reported(u)
<1>1. alerts'[t] = Append(alerts[t], s) /\ alerts[t] \in Seq(Statuses)
  OBVIOUS
<1>2. alerts'[t] # <<>> /\ alerts'[t][Len(alerts'[t])] = s
  BY <1>1, AppendProperties
<1>3. \A u \in Targets \ {t} : alerts'[u] = alerts[u]
  OBVIOUS
<1>4. QED
  BY <1>2, <1>3 DEF Reported, Log!Reported

LEMMA KeepReported ==
  ASSUME UNCHANGED alerts
  PROVE  \A t \in Targets : Reported(t)' = Reported(t)
BY DEF Reported, Log!Reported

LEMMA InitStatus == Init => CacheIsReported /\ AlertsAlternate
<1> SUFFICES ASSUME Init PROVE CacheIsReported /\ AlertsAlternate
  OBVIOUS
<1>1. /\ cache = [t \in Targets |-> ""] /\ lastLog = [t \in Targets |-> ""]
      /\ alerts = [t \in Targets |-> <<>>]
      /\ seen = [t \in Targets |-> [c \in Configs |-> {svc[t][c]}]]
      /\ pc = [r \in Runs |-> "free"]
  BY DEF Init, Log!Now
<1>2. Live = {}
  BY <1>1 DEF Live
<1>3. \A t \in Targets : alerts[t] = <<>>
  BY <1>1
<1>4. AlertsAlternate
  BY <1>3 DEF AlertsAlternate
<1>5. QED
  BY <1>1, <1>2, <1>3, <1>4 DEF CacheIsReported, Known

\* Handlers, the cleaner and the services move neither cache nor alerts.
LEMMA EnvironmentStatus ==
  ASSUME Structure, CacheIsReported, Environment
  PROVE  CacheIsReported'
<1>1. UNCHANGED <<cache, alerts, pc, target, conf, prev, res>>
  BY DEF Environment, CreateTarget, EditTarget, DeleteTarget, ExpireLogs,
         FlipService, loopVars, envVars
<1>2. UNCHANGED Live /\ \A t \in Targets : LoopsOf(t)' = LoopsOf(t)
  BY <1>1 DEF Live, LoopsOf
<1>3. \A t \in Targets : lastLog'[t] \in {"", lastLog[t]}
  BY DEF Environment, CreateTarget, EditTarget, DeleteTarget, ExpireLogs,
         FlipService, dbVars, Structure, TypeOK, DatabaseOK
<1>4. \A t \in Targets, c \in Configs :
        svc'[t][c] \in seen'[t][c] /\ seen[t][c] \subseteq seen'[t][c]
  <2>1. CASE \E u \in Targets, d \in Configs : FlipService(u, d)
    <3>1. PICK u \in Targets, d \in Configs : FlipService(u, d)
      BY <2>1
    <3>2. PICK s \in Statuses : /\ svc' = [svc EXCEPT ![u][d] = s]
                                /\ seen' = [seen EXCEPT ![u][d] = @ \cup {s}]
      BY <3>1 DEF FlipService
    <3>3. /\ svc \in [Targets -> [Configs -> Statuses]]
          /\ seen \in [Targets -> [Configs -> SUBSET Statuses]]
          /\ \A t \in Targets, c \in Configs : svc[t][c] \in seen[t][c]
      BY DEF CacheIsReported, Structure, TypeOK, OutsideOK
    <3>4. QED
      BY <3>2, <3>3
  <2>2. CASE ~\E u \in Targets, d \in Configs : FlipService(u, d)
    BY <2>2 DEF Environment, CreateTarget, EditTarget, DeleteTarget,
                ExpireLogs, envVars, CacheIsReported
  <2>3. QED
    BY <2>1, <2>2
<1>5. \A t \in Targets : Reported(t)' = Reported(t)
  BY <1>1, KeepReported
<1>6. \A r \in Live : CheckHolds(r)'
  BY <1>1, <1>4, <1>5, CheckShapes DEF CacheIsReported, CheckHolds, Known, Live
<1>7. QED
  BY <1>1, <1>2, <1>3, <1>4, <1>5, <1>6 DEF CacheIsReported, Known

\* The scheduler changes only which loops exist: a new loop starts in "begin"
\* for a target that no other loop checks.
LEMMA SchedulerStatus ==
  ASSUME Structure, CacheIsReported,
         SyncStep \/ SyncFail \/ Stop \/ StopAllJobs
  PROVE  CacheIsReported'
<1>1. UNCHANGED <<cache, lastLog, alerts, svc, seen, prev, res>>
  BY DEF SyncStep, SyncRead, SyncStop, SyncStart, SyncDone, SyncFail, Stop,
         StopAllJobs, dbVars, loopVars, envVars
<1>2. \A t \in Targets : Reported(t)' = Reported(t)
  BY <1>1, KeepReported
<1>3. ASSUME UNCHANGED <<pc, target, conf>> PROVE CacheIsReported'
  <2>1. UNCHANGED Live /\ \A t \in Targets : LoopsOf(t)' = LoopsOf(t)
    BY <1>3 DEF Live, LoopsOf
  <2>2. \A r \in Live : CheckHolds(r)'
    BY <1>1, <1>2, <1>3, CheckShapes
    DEF CacheIsReported, CheckHolds, Known, Live
  <2>3. QED
    BY <1>1, <1>2, <2>1, <2>2 DEF CacheIsReported, Known
<1>4. ASSUME NEW t \in Targets, NEW r \in Runs, SyncStart(t, r)
      PROVE  CacheIsReported'
  <2>1. /\ sched = "apply" /\ jobs[t] = Nil /\ snapshot[t] # Nil
        /\ pc[r] = "free" /\ pc'[r] = "begin" /\ target'[r] = t
        /\ \A q \in Runs \ {r} : /\ pc'[q] = pc[q]
                                 /\ target'[q] = target[q] /\ conf'[q] = conf[q]
    BY <1>4, Shapes DEF SyncStart, ToStart, Structure
  <2>2. LoopsOf(t) = {}
    <3>1. \A q \in Live : closed[q] => target[q] # t
      BY <2>1 DEF StoppedIsFinal, Structure
    <3>2. \A q \in Live : ~closed[q] => target[q] # t
      BY <2>1, ConstAssumption DEF JobsAgree, Structure, Live
    <3>3. QED
      BY <3>1, <3>2 DEF LoopsOf
  <2>3. Live' = Live \cup {r} /\ r \notin Live
    BY <2>1 DEF Live
  <2>4. \A u \in Targets : LoopsOf(u)' = {} => LoopsOf(u) = {}
    BY <2>1, <2>3 DEF LoopsOf, Live
  <2>5. CheckHolds(r)'
    BY <1>1, <1>2, <2>1, <2>2 DEF CheckHolds, Known, CacheIsReported
  <2>6. ASSUME NEW q \in Live PROVE CheckHolds(q)'
    <3>1. q \in Runs \ {r} /\ target[q] \in Targets
      BY <2>3, Shapes DEF Live, Structure
    <3>2. /\ pc'[q] = pc[q] /\ target'[q] = target[q] /\ conf'[q] = conf[q]
          /\ CheckHolds(q)
      BY <2>1, <3>1 DEF CacheIsReported
    <3>3. QED
      BY <1>1, <1>2, <3>1, <3>2 DEF CheckHolds, Known
  <2>7. QED
    BY <1>1, <1>2, <2>3, <2>4, <2>5, <2>6 DEF CacheIsReported, Known
<1>5. SyncRead \/ SyncDone \/ SyncFail \/ Stop \/ StopAllJobs
        \/ (\E t \in Targets : SyncStop(t)) => UNCHANGED <<pc, target, conf>>
  BY DEF SyncRead, SyncStop, SyncDone, SyncFail, Stop, StopAllJobs, loopVars
<1>6. QED
  BY <1>3, <1>4, <1>5 DEF SyncStep

\* What a step of loop r must show of r and its target for the whole to hold:
\* no other loop works on that target.
LEMMA OneCheck ==
  ASSUME Structure, CacheIsReported, NEW r \in Runs, pc[r] # "free",
         pc'[r] # "free", UNCHANGED <<target, conf>>,
         \A q \in Runs \ {r} : /\ pc'[q] = pc[q]
                               /\ prev'[q] = prev[q] /\ res'[q] = res[q],
         \A u \in Targets \ {target[r]} :
           /\ cache'[u] = cache[u] /\ lastLog'[u] = lastLog[u]
           /\ alerts'[u] = alerts[u] /\ Reported(u)' = Reported(u)
           /\ svc'[u] = svc[u] /\ seen'[u] = seen[u],
         CheckHolds(r)',
         \A c \in Configs : svc'[target[r]][c] \in seen'[target[r]][c],
         cache'[target[r]] = "" =>
           lastLog'[target[r]] = "" /\ alerts'[target[r]] = <<>>
  PROVE  CacheIsReported'
<1>1. UNCHANGED Live /\ \A t \in Targets : LoopsOf(t)' = LoopsOf(t)
  BY DEF Live, LoopsOf
<1>2. /\ target[r] \in Targets /\ LoopsOf(target[r]) # {}
      /\ \A q \in Live \ {r} : target[q] # target[r]
  BY CheckShapes
<1>3. ASSUME NEW q \in Live \ {r} PROVE CheckHolds(q)'
  <2>1. q \in Runs \ {r} /\ target[q] \in Targets \ {target[r]}
    BY <1>2, Shapes DEF Live, Structure
  <2>2. CheckHolds(q)
    BY DEF CacheIsReported
  <2>3. QED
    BY <2>1, <2>2 DEF CheckHolds, Known
<1>4. \A t \in Targets \ {target[r]} :
        /\ cache'[t] = "" => lastLog'[t] = "" /\ alerts'[t] = <<>>
        /\ \A c \in Configs : svc'[t][c] \in seen'[t][c]
        /\ LoopsOf(t)' = {} => Known(t)'
  BY <1>1 DEF CacheIsReported, Known
<1>5. QED
  BY <1>1, <1>2, <1>3, <1>4 DEF CacheIsReported, Live

LEMMA LoopStatus ==
  ASSUME Structure, CacheIsReported, NEW r \in Runs,
         CheckStep(r) \/ LoopExit(r)
  PROVE  CacheIsReported'
<1> DEFINE t == target[r]
<1>0. /\ DOMAIN pc = Runs /\ DOMAIN prev = Runs /\ DOMAIN res = Runs
      /\ DOMAIN cache = Targets /\ DOMAIN lastLog = Targets
      /\ DOMAIN seen = Targets /\ alerts \in [Targets -> Seq(Statuses)]
      /\ pc[r] # "free" /\ t \in Targets /\ r \in Live /\ conf[r] \in Configs
  BY CheckShapes
  DEF Structure, TypeOK, DatabaseOK, SchedulerOK, LoopsOK, OutsideOK,
      CheckStep, CheckBegin, Probe, SaveLog, Record, Alert, Tick, LoopExit
<1>1. CheckHolds(r) /\ (\A c \in Configs : svc[t][c] \in seen[t][c])
      /\ (cache[t] = "" => lastLog[t] = "" /\ alerts[t] = <<>>)
  BY <1>0 DEF CacheIsReported
<1>2. CASE CheckBegin(r)
  <2>1. /\ pc[r] = "begin" /\ pc'[r] = "probe"
        /\ \A q \in Runs \ {r} : pc'[q] = pc[q] /\ prev'[q] = prev[q]
        /\ \A u \in Targets \ {t} : cache'[u] = cache[u]
        /\ UNCHANGED <<target, conf, lastLog, res, alerts, svc, seen>>
    BY <1>0, <1>2 DEF CheckBegin, Goto
  <2>2. \A u \in Targets : Reported(u)' = Reported(u)
    BY <2>1, KeepReported
  <2>3. alerts[t] = <<>> => Reported(t) = "ONLINE"
    BY DEF Reported, Log!Reported
  <2>4. PICK s \in IF cache[t] # "" THEN {cache[t]}
                   ELSE {"ONLINE", lastLog[t]} \ {""} :
               cache'[t] = s /\ prev'[r] = s
    BY <1>0, <1>2 DEF CheckBegin
  <2>5. s = Reported(t) /\ s # ""
    BY <1>1, <2>1, <2>3, <2>4 DEF CheckHolds, Known
  <2>6. CheckHolds(r)'
    BY <1>0, <2>1, <2>2, <2>4, <2>5 DEF CheckHolds
  <2>7. QED
    BY <1>0, <1>1, <2>1, <2>2, <2>4, <2>5, <2>6, OneCheck
<1>3. CASE Probe(r)
  <2>1. /\ pc[r] = "probe" /\ pc'[r] = "save" /\ res'[r] = svc[t][conf[r]]
        /\ \A q \in Runs \ {r} : pc'[q] = pc[q] /\ res'[q] = res[q]
        /\ UNCHANGED <<target, conf, lastLog, cache, prev, alerts, svc, seen>>
    BY <1>0, <1>3 DEF Probe, Goto
  <2>2. \A u \in Targets : Reported(u)' = Reported(u)
    BY <2>1, KeepReported
  <2>3. CheckHolds(r)'
    BY <1>0, <1>1, <2>1, <2>2 DEF CheckHolds
  <2>4. QED
    BY <1>0, <1>1, <2>1, <2>2, <2>3, OneCheck
<1>4. CASE SaveLog(r)
  <2>1. /\ pc[r] = "save" /\ pc'[r] = "record"
        /\ \A q \in Runs \ {r} : pc'[q] = pc[q]
        /\ \A u \in Targets \ {t} : lastLog'[u] = lastLog[u]
        /\ UNCHANGED <<target, conf, cache, prev, res, alerts, svc, seen>>
    BY <1>0, <1>4 DEF SaveLog, Goto
  <2>2. \A u \in Targets : Reported(u)' = Reported(u)
    BY <2>1, KeepReported
  <2>3. CheckHolds(r)'
    BY <1>0, <1>1, <2>1, <2>2 DEF CheckHolds
  <2>4. Reported(t) # ""
    <3>1. CASE alerts[t] = <<>>
      BY <3>1 DEF Reported, Log!Reported
    <3>2. CASE alerts[t] # <<>>
      <4>1. alerts[t] \in Seq(Statuses)
        BY <1>0
      <4>2. Len(alerts[t]) \in 1 .. Len(alerts[t])
        BY <3>2, <4>1
      <4>3. alerts[t][Len(alerts[t])] \in Statuses
        BY <4>1, <4>2, ElementOfSeq
      <4>4. QED
        BY <3>2, <4>3 DEF Reported, Log!Reported, Statuses
    <3>3. QED
      BY <3>1, <3>2
  <2>5. cache[t] # ""
    BY <1>1, <2>1, <2>4 DEF CheckHolds
  <2>6. QED
    BY <1>0, <1>1, <2>1, <2>2, <2>3, <2>5, OneCheck
<1>5. CASE Record(r)
  <2>1. /\ pc[r] = "record" /\ cache'[t] = res[r]
        /\ \A u \in Targets \ {t} : cache'[u] = cache[u]
        /\ \A q \in Runs \ {r} : /\ pc'[q] = pc[q]
                                 /\ prev'[q] = prev[q] /\ res'[q] = res[q]
        /\ \/ /\ prev[r] # res[r] /\ pc'[r] = "alert"
              /\ UNCHANGED <<prev, res>>
           \/ prev[r] \in {"", res[r]} /\ pc'[r] = "wait"
        /\ UNCHANGED <<target, conf, lastLog, alerts, svc, seen>>
    BY <1>0, <1>5 DEF Record, Compare, Return, Goto
  <2>2. \A u \in Targets : Reported(u)' = Reported(u)
    BY <2>1, KeepReported
  <2>3. prev[r] \in Statuses /\ res[r] \in Statuses
    BY <2>1 DEF Structure, TypeOK, LoopsOK
  <2>4. CheckHolds(r)'
    BY <1>0, <1>1, <2>1, <2>2, <2>3 DEF CheckHolds, Known, Statuses
  <2>5. QED
    BY <1>0, <1>1, <2>1, <2>2, <2>3, <2>4, OneCheck DEF Statuses
<1>6. CASE Alert(r)
  <2>1. /\ pc[r] = "alert" /\ pc'[r] = "wait"
        /\ \A q \in Runs \ {r} : /\ pc'[q] = pc[q]
                                 /\ prev'[q] = prev[q] /\ res'[q] = res[q]
        /\ alerts' = [alerts EXCEPT ![t] = Append(@, res[r])]
        /\ seen'[t] = [c \in Configs |-> {svc[t][c]}]
        /\ \A u \in Targets \ {t} : seen'[u] = seen[u]
        /\ UNCHANGED <<target, conf, lastLog, cache, svc>>
    BY <1>0, <1>6 DEF Alert, Return, Goto, Log!Now
  <2>2. Reported(t)' = res[r]
        /\ \A u \in Targets \ {t} : Reported(u)' = Reported(u)
    BY <1>0, <2>1, ReportedAfterAlert
  <2>3. \A u \in Targets \ {t} : alerts'[u] = alerts[u]
    BY <1>0, <2>1
  <2>4. res[r] # ""
    BY <2>1 DEF Structure, TypeOK, LoopsOK, Statuses
  <2>5. CheckHolds(r)'
    BY <1>0, <1>1, <2>1, <2>2 DEF CheckHolds, Known
  <2>6. cache[t] # ""
    BY <1>1, <2>1, <2>4 DEF CheckHolds
  <2>7. \A c \in Configs : svc'[t][c] \in seen'[t][c]
    BY <2>1
  <2>8. \A u \in Targets \ {t} :
          /\ cache'[u] = cache[u] /\ lastLog'[u] = lastLog[u]
          /\ svc'[u] = svc[u] /\ seen'[u] = seen[u]
    BY <2>1
  <2>9. QED
    BY <1>0, <2>1, <2>2, <2>3, <2>5, <2>6, <2>7, <2>8, OneCheck
<1>7. CASE Tick(r)
  <2>1. /\ pc[r] = "wait" /\ pc'[r] = "begin"
        /\ \A q \in Runs \ {r} : pc'[q] = pc[q]
        /\ UNCHANGED <<target, conf, lastLog, cache, prev, res, alerts, svc, seen>>
    BY <1>0, <1>7 DEF Tick, Goto
  <2>2. \A u \in Targets : Reported(u)' = Reported(u)
    BY <2>1, KeepReported
  <2>3. CheckHolds(r)'
    BY <1>0, <1>1, <2>1, <2>2 DEF CheckHolds, Known
  <2>4. QED
    BY <1>0, <1>1, <2>1, <2>2, <2>3, OneCheck
<1>8. CASE LoopExit(r)
  <2>1. /\ pc[r] = "wait" /\ pc'[r] = "free"
        /\ \A q \in Runs \ {r} : /\ pc'[q] = pc[q]
                                 /\ target'[q] = target[q] /\ conf'[q] = conf[q]
        /\ UNCHANGED <<lastLog, cache, prev, res, alerts, svc, seen>>
    BY <1>0, <1>8, Shapes DEF LoopExit, dbVars, envVars, Structure
  <2>2. \A u \in Targets : Reported(u)' = Reported(u)
    BY <2>1, KeepReported
  <2>3. Known(t)
    BY <1>1, <2>1 DEF CheckHolds
  <2>4. Live' = Live \ {r}
    BY <2>1 DEF Live
  <2>5. \A u \in Targets \ {t} : LoopsOf(u)' = LoopsOf(u)
    BY <2>1, <2>4 DEF LoopsOf, Live
  <2>6. ASSUME NEW q \in Live \ {r} PROVE CheckHolds(q)'
    <3>1. q \in Runs \ {r} /\ target[q] \in Targets /\ CheckHolds(q)
      BY Shapes DEF CacheIsReported, Live, Structure
    <3>2. QED
      BY <2>1, <2>2, <3>1 DEF CheckHolds, Known
  <2>7. QED
    BY <1>0, <2>1, <2>2, <2>3, <2>4, <2>5, <2>6 DEF CacheIsReported, Known
<1>9. QED
  BY <1>2, <1>3, <1>4, <1>5, <1>6, <1>7, <1>8 DEF CheckStep

-----------------------------------------------------------------------------
(* Alternation and the promise of AlertLog.                                *)

\* The only step that sends an alert, and what it sends.
LEMMA AlertStep ==
  ASSUME Inv, NEW r \in Runs, Alert(r)
  PROVE  LET t == target[r] IN
         /\ issued[t] # Nil /\ t \in Targets
         /\ res[r] \in Statuses /\ res[r] # Reported(t)
         /\ res[r] \in seen[t][issued[t]]
         /\ alerts' = [alerts EXCEPT ![t] = Append(@, res[r])]
         /\ seen' = [seen EXCEPT ![t] = Log!Now(t)]
         /\ UNCHANGED <<issued, svc>>
<1>1. pc[r] = "alert"
  BY DEF Alert
<1>2. CheckHolds(r) /\ target[r] \in Targets /\ issued[target[r]] = conf[r]
      /\ res[r] \in Statuses /\ conf[r] \in Configs
  BY <1>1, CheckShapes DEF Inv, CacheIsReported
<1>3. res[r] # Reported(target[r]) /\ res[r] \in seen[target[r]][conf[r]]
  BY <1>1, <1>2 DEF CheckHolds
<1>4. issued[target[r]] # Nil /\ res[r] \in seen[target[r]][issued[target[r]]]
  BY <1>2, <1>3, ConstAssumption
<1>5. QED
  BY <1>2, <1>3, <1>4 DEF Alert, Return, Goto

\* Every other step leaves the channel alone.
LEMMA OtherStep ==
  ASSUME [Next]_vars, ~\E r \in Runs : Alert(r)
  PROVE  UNCHANGED alerts
BY DEF Next, vars, envVars, Environment, CreateTarget, EditTarget,
       DeleteTarget, ExpireLogs, FlipService, SyncStep, SyncRead, SyncStop,
       SyncStart, SyncDone, SyncFail, Stop, StopAllJobs, ProcessEnds,
       ProcessStarts, CheckStep, CheckBegin, Probe, SaveLog, Record, Tick,
       LoopExit

LEMMA AppendAlternates ==
  ASSUME Inv, NEW t \in Targets, NEW s \in Statuses, s # Reported(t),
         alerts' = [alerts EXCEPT ![t] = Append(@, s)]
  PROVE  AlertsAlternate'
<1> DEFINE old == alerts[t]
           new == alerts'[t]
<1>1. alerts \in [Targets -> Seq(Statuses)]
  BY DEF Inv, Structure, TypeOK, OutsideOK
<1>2. /\ old \in Seq(Statuses) /\ new = Append(old, s)
      /\ \A u \in Targets \ {t} : alerts'[u] = alerts[u]
  BY <1>1
<1>3. /\ new # <<>> /\ Len(new) = Len(old) + 1 /\ Len(old) \in Nat
      /\ \A i \in 1 .. Len(old) : new[i] = old[i]
      /\ new[Len(old) + 1] = s
  BY <1>2, AppendProperties
<1>4. /\ old # <<>> => old[1] = "OFFLINE"
      /\ \A i \in 1 .. Len(old) - 1 : old[i] # old[i + 1]
  BY DEF Inv, AlertsAlternate
<1>5. CASE old = <<>>
  <2>1. s = "OFFLINE"
    BY <1>5 DEF Reported, Log!Reported, Statuses
  <2>2. Len(old) = 0
    BY <1>5
  <2>3. new[1] = "OFFLINE" /\ Len(new) = 1
    BY <1>3, <2>1, <2>2
  <2>4. \A i \in 1 .. Len(new) - 1 : new[i] # new[i + 1]
    BY <2>3
  <2>5. QED
    BY <1>2, <2>3, <2>4 DEF Inv, AlertsAlternate
<1>6. CASE old # <<>>
  <2>1. Len(old) \in 1 .. Len(old)
    BY <1>2, <1>6
  <2>2. old[Len(old)] # s
    BY <1>6 DEF Reported, Log!Reported
  <2>3. new[1] = "OFFLINE"
    BY <1>3, <1>4, <1>6, <2>1
  <2>4. ASSUME NEW i \in 1 .. Len(new) - 1 PROVE new[i] # new[i + 1]
    <3>1. CASE i = Len(old)
      BY <1>3, <2>1, <2>2, <3>1
    <3>2. CASE i # Len(old)
      BY <1>3, <1>4, <3>2
    <3>3. QED
      BY <3>1, <3>2
  <2>5. QED
    BY <1>2, <2>3, <2>4 DEF Inv, AlertsAlternate
<1>7. QED
  BY <1>5, <1>6

LEMMA InitInv == Init => Inv
BY InitType, InitJobs, InitStructure, InitStatus DEF Inv, Structure

LEMMA NextInv == Inv /\ Calm' /\ [Next]_vars => Inv'
<1> SUFFICES ASSUME Inv, Calm', [Next]_vars PROVE Inv'
  OBVIOUS
<1>1. Structure'
  BY NextStructure DEF Inv, Calm
<1>2. AlertsAlternate'
  <2>1. CASE \E r \in Runs : Alert(r)
    <3>1. PICK r \in Runs : Alert(r)
      BY <2>1
    <3>2. QED
      BY <3>1, AlertStep, AppendAlternates
  <2>2. CASE ~\E r \in Runs : Alert(r)
    <3>1. UNCHANGED alerts
      BY <2>2, OtherStep
    <3>2. QED
      BY <3>1 DEF Inv, AlertsAlternate
  <2>3. QED
    BY <2>1, <2>2
<1>3. CacheIsReported'
  <2>1. ASSUME ProcessStarts \/ UNCHANGED vars PROVE CacheIsReported'
    <3>1. UNCHANGED <<cache, lastLog, alerts, svc, seen, pc, target, conf, prev,
                      res>>
      BY <2>1 DEF ProcessStarts, vars, dbVars, loopVars, envVars
    <3>2. \A t \in Targets : Reported(t)' = Reported(t)
      BY <3>1, KeepReported
    <3>3. UNCHANGED Live /\ \A t \in Targets : LoopsOf(t)' = LoopsOf(t)
      BY <3>1 DEF Live, LoopsOf
    <3>4. \A r \in Live : target[r] \in Targets
      BY Shapes DEF Inv, Structure
    <3>5. QED
      BY <3>1, <3>2, <3>3, <3>4 DEF Inv, CacheIsReported, CheckHolds, Known
  <2>2. ~ProcessEnds
    <3>1. restarts \in Nat
      BY DEF Inv, Structure, TypeOK, OutsideOK
    <3>2. restarts' = 0 /\ (ProcessEnds => restarts' = restarts + 1)
      BY DEF ProcessEnds, Calm
    <3>3. QED
      BY <3>1, <3>2
  <2>3. QED
    BY <2>1, <2>2, EnvironmentStatus, SchedulerStatus, LoopStatus
    DEF Inv, Next
<1>4. QED
  BY <1>1, <1>2, <1>3 DEF Inv

CalmInv == TypeOK /\ (Calm => Inv)

LEMMA InitCalm == Init => CalmInv
BY InitType, InitInv DEF CalmInv

LEMMA NextCalm == CalmInv /\ [Next]_vars => CalmInv'
<1> SUFFICES ASSUME CalmInv, [Next]_vars PROVE CalmInv'
  OBVIOUS
<1>1. TypeOK'
  BY NextType DEF CalmInv
<1>2. ASSUME Calm' PROVE Inv'
  BY <1>2, CalmBefore, NextInv DEF CalmInv
<1>3. QED
  BY <1>1, <1>2 DEF CalmInv

\* The channel gets an outage first and then recoveries and outages in turn
\* (health_runner.go:208), for any number of targets, loops and checks, until
\* the first edit of a row or the first restart.
THEOREM AlternationUntilRestart == Spec => [](Calm => AlertsAlternate)
<1>1. CalmInv => (Calm => AlertsAlternate)
  BY DEF CalmInv, Inv
<1>2. QED
  BY InitCalm, NextCalm, <1>1, PTL DEF Spec

LEMMA AlwaysCalm == ASSUME OnlyApi PROVE Spec => []Calm
<1>1. TypeOK /\ Bounded => Calm
  BY DEF OnlyApi, Bounded, Calm, TypeOK, OutsideOK
<1>2. QED
  BY <1>1, TypeCorrect, AlwaysBounded, PTL

LEMMA CachedWasAnnounced == CacheIsReported /\ TypeOK => CacheAnnounced
<1> SUFFICES ASSUME CacheIsReported, TypeOK, NEW t \in Targets, cache[t] # "",
                    \A r \in LoopsOf(t) : pc[r] # "alert"
             PROVE  cache[t] = Reported(t)
  BY DEF CacheAnnounced
<1>1. CASE LoopsOf(t) = {}
  BY <1>1 DEF CacheIsReported, Known
<1>2. CASE LoopsOf(t) # {}
  <2>1. PICK r \in Live : target[r] = t /\ pc[r] # "alert"
    BY <1>2 DEF LoopsOf
  <2>2. CheckHolds(r) /\ pc[r] \in {"begin", "probe", "save", "record", "wait"}
    BY <2>1 DEF CacheIsReported, Live, TypeOK, LoopsOK
  <2>3. QED
    BY <2>1, <2>2 DEF CheckHolds, Known
<1>3. QED
  BY <1>1, <1>2

\* Until the first edit or restart, a status that the runner remembers has been
\* announced, unless the loop that found it is just about to do so: neither a
\* failed save, nor an expired log, nor a deletion makes the two differ.
THEOREM CacheAnnouncedUntilRestart == Spec => [](Calm => CacheAnnounced)
<1>1. CalmInv => (Calm => CacheAnnounced)
  BY CachedWasAnnounced DEF CalmInv, Inv
<1>2. QED
  BY InitCalm, NextCalm, <1>1, PTL DEF Spec

\* The same for a model without edits and restarts.
THEOREM Alternation ==
  ASSUME OnlyApi PROVE Spec => []AlertsAlternate
BY AlwaysCalm, AlternationUntilRestart, PTL

\* Which step of the channel's specification each step of the runner is.
LEMMA StepRefines ==
  ASSUME Inv, [Next]_vars
  PROVE  [Log!Next]_(Log!vars)
<1> USE DEF Log!vars
<1>1. ASSUME NEW r \in Runs, Alert(r) PROVE Log!Next
  <2>1. Log!Announce(target[r], res[r])
    BY <1>1, AlertStep DEF Log!Announce, Reported
  <2>2. target[r] \in Targets /\ res[r] \in Log!Statuses
    BY <1>1, AlertStep DEF Log!Statuses, Statuses
  <2>3. QED
    BY <2>1, <2>2 DEF Log!Next
<1>2. ASSUME NEW t \in Targets, NEW c \in Configs, CreateTarget(t, c)
      PROVE  Log!Next
  <2>1. Log!Register(t, c)
    BY <1>2 DEF CreateTarget, envVars, Log!Register
  <2>2. QED
    BY <2>1 DEF Log!Next
<1>3. ASSUME NEW t \in Targets, NEW c \in Configs, FlipService(t, c)
      PROVE  Log!Next
  <2>1. PICK s \in Statuses : /\ svc' = [svc EXCEPT ![t][c] = s]
                              /\ seen' = [seen EXCEPT ![t][c] = @ \cup {s}]
    BY <1>3 DEF FlipService
  <2>2. Log!Flip(t, c, s)
    BY <1>3, <2>1 DEF FlipService, dbVars, Log!Flip
  <2>3. QED
    BY <2>2 DEF Log!Next, Log!Statuses, Statuses
<1>4. ASSUME NEW t \in Targets, NEW c \in Configs, NEW a \in BOOLEAN,
             EditTarget(t, c, a)
      PROVE  UNCHANGED Log!vars
  BY <1>4 DEF EditTarget, envVars
<1>5. ASSUME NEW t \in Targets, DeleteTarget(t) \/ ExpireLogs(t)
      PROVE  UNCHANGED Log!vars
  BY <1>5 DEF DeleteTarget, ExpireLogs, envVars
<1>6. ASSUME NEW r \in Runs,
             \/ CheckBegin(r) \/ Probe(r) \/ SaveLog(r) \/ Record(r)
             \/ Tick(r) \/ LoopExit(r)
      PROVE  UNCHANGED Log!vars
  BY <1>6 DEF CheckBegin, Probe, SaveLog, Record, Compare, Return, Tick, Goto,
              LoopExit, dbVars, envVars
<1>7. ASSUME SyncStep \/ SyncFail \/ Stop \/ StopAllJobs \/ ProcessEnds
             \/ ProcessStarts \/ UNCHANGED vars
      PROVE  UNCHANGED Log!vars
  BY <1>7 DEF SyncStep, SyncRead, SyncStop, SyncStart, SyncDone, SyncFail,
              Stop, StopAllJobs, ProcessEnds, ProcessStarts, vars, dbVars,
              envVars
<1>8. QED
  BY <1>1, <1>2, <1>3, <1>4, <1>5, <1>6, <1>7 DEF Next, Environment, CheckStep

\* Until the first edit of a registered target and the first restart, the runner
\* keeps the promise to the channel's readers, step by step: an alert is sent
\* only for a registered target, only when the status differs from the one
\* alerted before, and only for a status the service had since then.
THEOREM AlertLogUntilRestart ==
  Spec => Log!Init /\ [][Calm => [Log!Next]_(Log!vars)]_vars
<1>1. Init => Log!Init
  <2>1. AtFirst \subseteq Log!Statuses
    BY ConstAssumption DEF Log!Statuses
  <2>2. Init => svc \in [Targets -> [Configs -> AtFirst]]
    BY DEF Init
  <2>3. Init => svc \in [Targets -> [Configs -> Log!Statuses]]
    BY <2>1, <2>2
  <2>4. QED
    BY <2>3 DEF Init, Log!Init
<1>2. CalmInv /\ [Next]_vars => [Calm => [Log!Next]_(Log!vars)]_vars
  BY StepRefines DEF CalmInv
<1>3. QED
  BY InitCalm, NextCalm, <1>1, <1>2, PTL DEF Spec

\* Without edits and restarts the runner implements the promise altogether.
THEOREM AlertLogImplemented ==
  ASSUME OnlyApi PROVE Spec => ImplementsAlertLog
<1>1. Calm /\ [Calm => [Log!Next]_(Log!vars)]_vars => [Log!Next]_(Log!vars)
  BY DEF vars, envVars, dbVars, Log!vars
<1>2. QED
  BY AlertLogUntilRestart, AlwaysCalm, <1>1, PTL
  DEF ImplementsAlertLog, Log!Spec

-----------------------------------------------------------------------------
(* The safe half of AlertsTruthful, under edits and before or after any    *)
(* restart: cache and channel, once they tell the truth, go on telling it. *)

\* The cache and the channel say that t is in state s, and no check under way
\* knows anything else.
Agreed(t, s) ==
  /\ cache[t] = s /\ Reported(t) = s
  /\ \A r \in LoopsOf(t) :
       /\ pc[r] # "alert"
       /\ pc[r] \in {"probe", "save", "record"} => prev[r] = s
       /\ pc[r] \in {"save", "record"} => res[r] = s

\* The process lives, and whatever a loop of t requests is in state s.  An edit
\* may keep two loops of t for a while, each with a URL of its own.
Steady(t, s) ==
  main # "down" /\ \A r \in LoopsOf(t) : svc[t][conf[r]] = s

\* In a step of loop r the others of t keep what they know.
LEMMA AgreedBut ==
  ASSUME TypeOK, NEW t \in Targets, NEW s \in Statuses, Agreed(t, s),
         NEW r \in Runs, UNCHANGED target, cache'[t] = s, Reported(t)' = s,
         \A q \in Runs \ {r} :
           pc'[q] = pc[q] /\ prev'[q] = prev[q] /\ res'[q] = res[q],
         target[r] = t =>
           /\ pc'[r] # "alert"
           /\ pc'[r] \in {"probe", "save", "record"} => prev'[r] = s
           /\ pc'[r] \in {"save", "record"} => res'[r] = s
  PROVE  Agreed(t, s)'
<1>1. \A q \in LoopsOf(t)' : q \in Runs /\ target[q] = t
  BY DEF LoopsOf, Live
<1>2. ASSUME NEW q \in LoopsOf(t)', q # r PROVE q \in LoopsOf(t)
  BY <1>1, <1>2 DEF LoopsOf, Live
<1>3. QED
  BY <1>1, <1>2 DEF Agreed

LEMMA AgreedCheck ==
  ASSUME TypeOK, NEW t \in Targets, NEW s \in Statuses, Agreed(t, s),
         Steady(t, s), NEW r \in Runs, CheckStep(r)
  PROVE  Agreed(t, s)'
<1>0. /\ DOMAIN pc = Runs /\ DOMAIN prev = Runs /\ DOMAIN res = Runs
      /\ DOMAIN cache = Targets /\ alerts \in [Targets -> Seq(Statuses)]
      /\ target[r] \in Targets /\ s # ""
      /\ target[r] = t /\ pc[r] # "free" => r \in LoopsOf(t)
  BY DEF TypeOK, SchedulerOK, LoopsOK, OutsideOK, Statuses, LoopsOf, Live,
         CheckStep, CheckBegin, Probe, SaveLog, Record, Alert, Tick
<1>1. CASE CheckBegin(r)
  <2>1. /\ pc'[r] = "probe" /\ UNCHANGED <<target, res, alerts>>
        /\ \A q \in Runs \ {r} : pc'[q] = pc[q] /\ prev'[q] = prev[q]
        /\ target[r] # t => cache'[t] = cache[t]
        /\ target[r] = t => prev'[r] = s /\ cache'[t] = s
    BY <1>0, <1>1 DEF CheckBegin, Goto, Agreed
  <2>2. QED
    BY <2>1, KeepReported, AgreedBut DEF Agreed
<1>2. CASE Probe(r)
  <2>1. /\ pc[r] = "probe" /\ pc'[r] = "save"
        /\ UNCHANGED <<target, cache, prev, alerts>>
        /\ res'[r] = svc[target[r]][conf[r]]
        /\ \A q \in Runs \ {r} : pc'[q] = pc[q] /\ res'[q] = res[q]
    BY <1>0, <1>2 DEF Probe, Goto
  <2>2. Reported(t)' = s /\ cache'[t] = s
    BY <2>1, KeepReported DEF Agreed
  <2>3. target[r] = t => prev'[r] = s /\ res'[r] = s
    BY <1>0, <2>1 DEF Agreed, Steady
  <2>4. QED
    BY <2>1, <2>2, <2>3, AgreedBut
<1>3. CASE SaveLog(r) \/ Tick(r)
  <2>1. /\ UNCHANGED <<target, cache, prev, res, alerts>>
        /\ \A q \in Runs \ {r} : pc'[q] = pc[q]
        /\ \/ pc[r] = "save" /\ pc'[r] = "record"
           \/ pc[r] = "wait" /\ pc'[r] = "begin"
    BY <1>0, <1>3 DEF SaveLog, Tick, Goto
  <2>2. Reported(t)' = s /\ cache'[t] = s
    BY <2>1, KeepReported DEF Agreed
  <2>3. target[r] = t /\ pc[r] = "save" => prev'[r] = s /\ res'[r] = s
    BY <1>0, <2>1 DEF Agreed
  <2>4. QED
    BY <2>1, <2>2, <2>3, AgreedBut
<1>4. CASE Record(r)
  <2>1. /\ pc[r] = "record" /\ cache'[target[r]] = res[r]
        /\ \A u \in Targets \ {target[r]} : cache'[u] = cache[u]
        /\ \A q \in Runs \ {r} : /\ pc'[q] = pc[q]
                                 /\ prev'[q] = prev[q] /\ res'[q] = res[q]
        /\ \/ prev[r] # res[r]
           \/ pc'[r] = "wait"
        /\ UNCHANGED <<target, alerts>>
    BY <1>0, <1>4 DEF Record, Compare, Return, Goto
  <2>2. target[r] = t => prev[r] = s /\ res[r] = s
    BY <1>0, <2>1 DEF Agreed
  <2>3. Reported(t)' = s
    BY <2>1, KeepReported DEF Agreed
  <2>4. cache'[t] = s
    BY <2>1, <2>2 DEF Agreed
  <2>5. target[r] = t => pc'[r] = "wait"
    BY <2>1, <2>2
  <2>6. QED
    BY <2>1, <2>3, <2>4, <2>5, AgreedBut
<1>5. CASE Alert(r)
  <2>1. /\ pc[r] = "alert" /\ UNCHANGED <<target, cache>>
        /\ alerts' = [alerts EXCEPT ![target[r]] = Append(@, res[r])]
        /\ \A q \in Runs \ {r} : /\ pc'[q] = pc[q]
                                 /\ prev'[q] = prev[q] /\ res'[q] = res[q]
    BY <1>0, <1>5 DEF Alert, Return, Goto
  <2>2. target[r] # t
    BY <1>0, <2>1 DEF Agreed
  <2>3. Reported(t)' = Reported(t)
    BY <1>0, <2>1, <2>2, ReportedAfterAlert
  <2>4. QED
    BY <2>1, <2>2, <2>3, AgreedBut DEF Agreed
<1>6. QED
  BY <1>1, <1>2, <1>3, <1>4, <1>5 DEF CheckStep

LEMMA AgreedStep ==
  ASSUME TypeOK, [Next]_vars, NEW t \in Targets, NEW s \in Statuses,
         Agreed(t, s), Steady(t, s), Steady(t, s)'
  PROVE  Agreed(t, s)'
<1>1. ASSUME UNCHANGED <<cache, alerts, prev, res>>,
             \A q \in LoopsOf(t)' :
               \/ q \in LoopsOf(t) /\ pc'[q] = pc[q]
               \/ pc'[q] = "begin"
      PROVE  Agreed(t, s)'
  BY <1>1, KeepReported DEF Agreed
<1>2. CASE Environment \/ SyncFail \/ Stop \/ StopAllJobs \/ ProcessStarts
           \/ UNCHANGED vars \/ SyncRead \/ SyncDone
           \/ \E u \in Targets : SyncStop(u)
  <2>1. UNCHANGED <<cache, alerts, prev, res, pc, target>>
    BY <1>2 DEF Environment, CreateTarget, EditTarget, DeleteTarget, ExpireLogs,
                FlipService, SyncFail, Stop, StopAllJobs, ProcessStarts, vars,
                SyncRead, SyncDone, SyncStop, loopVars, envVars
  <2>2. QED
    BY <1>1, <2>1 DEF LoopsOf, Live
<1>3. ASSUME NEW u \in Targets, NEW r \in Runs, SyncStart(u, r)
      PROVE  Agreed(t, s)'
  <2>1. /\ UNCHANGED <<cache, alerts, prev, res>> /\ pc'[r] = "begin"
        /\ \A q \in Runs \ {r} : pc'[q] = pc[q] /\ target'[q] = target[q]
    BY <1>3, Shapes DEF SyncStart, envVars
  <2>2. QED
    BY <1>1, <2>1 DEF LoopsOf, Live
<1>4. ASSUME NEW r \in Runs, LoopExit(r) PROVE Agreed(t, s)'
  <2>1. /\ UNCHANGED <<cache, alerts, prev, res>> /\ pc'[r] = "free"
        /\ \A q \in Runs \ {r} : pc'[q] = pc[q] /\ target'[q] = target[q]
    BY <1>4, Shapes DEF LoopExit, envVars
  <2>2. QED
    BY <1>1, <2>1 DEF LoopsOf, Live
<1>5. ~ProcessEnds
  BY DEF ProcessEnds, Steady
<1>6. QED
  BY <1>2, <1>3, <1>4, <1>5, AgreedCheck DEF Next, SyncStep

\* Once cache and channel agree with what every loop of t finds, they agree for
\* as long as each of these loops goes on finding it and the process lives: no
\* check is wrong about it and no alert is sent.  A loop of the old URL that
\* outlives an edit is one of them: when it finds another state than the new
\* loop does, it may announce it.  What AlertsTruthful needs of fairness is only
\* that some check is completed.
THEOREM AgreedForGood ==
  ASSUME NEW t \in Targets, NEW s \in Statuses
  PROVE  Spec => [](Agreed(t, s) /\ []Steady(t, s)
                      => [](cache[t] = s /\ Reported(t) = s))
<1>1. TypeOK /\ [Next]_vars /\ Agreed(t, s) /\ Steady(t, s) /\ Steady(t, s)'
        => Agreed(t, s)'
  BY AgreedStep
<1>2. Agreed(t, s) => cache[t] = s /\ Reported(t) = s
  BY DEF Agreed
<1>3. QED
  BY <1>1, <1>2, TypeCorrect, PTL DEF Spec
=============================================================================
