------------------------- MODULE HealthRunnerProofs -------------------------
(***************************************************************************)
(* Proofs about HealthRunner.tla, for any sets of targets, configurations  *)
(* and goroutine slots and any bounds.                                     *)
(***************************************************************************)
EXTENDS HealthRunner, SequenceTheorems, TLAPS

-----------------------------------------------------------------------------
(* Type correctness: what each group of variables needs of each action.    *)

LEMMA InitType == Init => TypeOK
<1> SUFFICES ASSUME Init PROVE TypeOK
  OBVIOUS
<1> USE DEF Init, Statuses
<1>1. DatabaseOK
  BY DEF DatabaseOK
<1>2. SchedulerOK
  BY DEF SchedulerOK
<1>3. LoopsOK
  BY DEF LoopsOK
<1>4. OutsideOK
  <2>1. <<>> \in Seq(Statuses)
    BY EmptySeq
  <2>2. svc \in [Targets -> [Configs -> Statuses]]
    BY ConstAssumption
  <2>3. \A t \in Targets : Log!Now(t) \in [Configs -> SUBSET Statuses]
    BY <2>2 DEF Log!Now
  <2>4. QED
    BY <2>1, <2>2, <2>3 DEF OutsideOK
<1>5. QED
  BY <1>1, <1>2, <1>3, <1>4 DEF TypeOK

\* Variables that do not change keep their types.
LEMMA KeepDatabase == DatabaseOK /\ UNCHANGED dbVars => DatabaseOK'
BY DEF DatabaseOK, dbVars

LEMMA KeepScheduler ==
  SchedulerOK /\ UNCHANGED syncVars /\ UNCHANGED cache => SchedulerOK'
BY DEF SchedulerOK, syncVars

LEMMA KeepLoops == LoopsOK /\ UNCHANGED loopVars => LoopsOK'
BY DEF LoopsOK, loopVars

LEMMA KeepOutside ==
  OutsideOK /\ UNCHANGED envVars /\ UNCHANGED counters => OutsideOK'
BY DEF OutsideOK, envVars, counters

LEMMA EnvironmentType == TypeOK /\ Environment => TypeOK'
<1> SUFFICES ASSUME TypeOK, Environment PROVE TypeOK'
  OBVIOUS
<1> DEFINE Row == [conf : Configs, active : BOOLEAN]
<1>1. ASSUME NEW t \in Targets, NEW c \in Configs, CreateTarget(t, c)
      PROVE  TypeOK'
  <2>1. [conf |-> c, active |-> TRUE] \in Row
    OBVIOUS
  <2>2. DatabaseOK'
    BY <1>1, <2>1 DEF CreateTarget, TypeOK, DatabaseOK
  <2>3. QED
    BY <1>1, <2>2, KeepScheduler, KeepLoops, KeepOutside
    DEF CreateTarget, TypeOK
<1>2. ASSUME NEW t \in Targets, NEW c \in Configs, NEW a \in BOOLEAN,
             EditTarget(t, c, a)
      PROVE  TypeOK'
  <2>1. [conf |-> c, active |-> a] \in Row
    OBVIOUS
  <2>2. DatabaseOK'
    BY <1>2, <2>1 DEF EditTarget, TypeOK, DatabaseOK
  <2>3. OutsideOK'
    BY <1>2 DEF EditTarget, TypeOK, OutsideOK, envVars
  <2>4. QED
    BY <1>2, <2>2, <2>3, KeepScheduler, KeepLoops DEF EditTarget, TypeOK
<1>3. ASSUME NEW t \in Targets, DeleteTarget(t) PROVE TypeOK'
  <2>1. DatabaseOK'
    BY <1>3 DEF DeleteTarget, TypeOK, DatabaseOK
  <2>2. QED
    BY <1>3, <2>1, KeepScheduler, KeepLoops, KeepOutside
    DEF DeleteTarget, TypeOK
<1>4. ASSUME NEW t \in Targets, ExpireLogs(t) PROVE TypeOK'
  <2>1. DatabaseOK'
    BY <1>4 DEF ExpireLogs, TypeOK, DatabaseOK
  <2>2. QED
    BY <1>4, <2>1, KeepScheduler, KeepLoops, KeepOutside
    DEF ExpireLogs, TypeOK
<1>5. ASSUME NEW t \in Targets, NEW c \in Configs, FlipService(t, c)
      PROVE  TypeOK'
  <2>1. PICK s \in Statuses : /\ svc' = [svc EXCEPT ![t][c] = s]
                              /\ seen' = [seen EXCEPT ![t][c] = @ \cup {s}]
    BY <1>5 DEF FlipService
  <2>2. /\ svc' \in [Targets -> [Configs -> Statuses]]
        /\ seen' \in [Targets -> [Configs -> SUBSET Statuses]]
    BY <2>1 DEF TypeOK, OutsideOK
  <2>3. OutsideOK'
    BY <1>5, <2>2 DEF FlipService, TypeOK, OutsideOK
  <2>4. QED
    BY <1>5, <2>3, KeepDatabase, KeepScheduler, KeepLoops
    DEF FlipService, TypeOK
<1>6. QED
  BY <1>1, <1>2, <1>3, <1>4, <1>5 DEF Environment

LEMMA SchedulerType ==
  TypeOK /\ (SyncStep \/ SyncFail \/ Stop \/ StopAllJobs) => TypeOK'
<1> SUFFICES ASSUME TypeOK, SyncStep \/ SyncFail \/ Stop \/ StopAllJobs
             PROVE  TypeOK'
  OBVIOUS
<1>0. DatabaseOK'
  BY KeepDatabase DEF TypeOK, SyncStep, SyncRead, SyncStop, SyncStart,
                      SyncDone, SyncFail, Stop, StopAllJobs
<1>1. OutsideOK'
  BY KeepOutside DEF TypeOK, SyncStep, SyncRead, SyncStop, SyncStart,
                     SyncDone, SyncFail, Stop, StopAllJobs
<1>2. ASSUME SyncRead PROVE TypeOK'
  <2>1. \A t \in Targets : ActiveConf(t) \in Configs \cup {Nil}
    BY DEF ActiveConf, TypeOK, DatabaseOK
  <2>2. SchedulerOK'
    BY <1>2, <2>1 DEF SyncRead, TypeOK, SchedulerOK
  <2>3. QED
    BY <1>0, <1>1, <1>2, <2>2, KeepLoops DEF SyncRead, TypeOK
<1>3. ASSUME NEW t \in Targets, SyncStop(t) PROVE TypeOK'
  <2>1. SchedulerOK'
    BY <1>3 DEF SyncStop, TypeOK, SchedulerOK
  <2>2. jobs[t] \in Runs
    BY <1>3 DEF SyncStop, ToStop, TypeOK, SchedulerOK
  <2>3. LoopsOK'
    BY <1>3, <2>2 DEF SyncStop, TypeOK, LoopsOK
  <2>4. QED
    BY <1>0, <1>1, <2>1, <2>3 DEF TypeOK
<1>4. ASSUME NEW t \in Targets, NEW r \in Runs, SyncStart(t, r)
      PROVE  TypeOK'
  <2>1. snapshot[t] \in Configs
    BY <1>4 DEF SyncStart, ToStart, TypeOK, SchedulerOK
  <2>2. SchedulerOK'
    BY <1>4 DEF SyncStart, TypeOK, SchedulerOK
  <2>3. LoopsOK'
    BY <1>4, <2>1 DEF SyncStart, TypeOK, LoopsOK
  <2>4. QED
    BY <1>0, <1>1, <2>2, <2>3 DEF TypeOK
<1>5. ASSUME SyncDone PROVE TypeOK'
  <2>1. SchedulerOK'
    BY <1>5 DEF SyncDone, TypeOK, SchedulerOK
  <2>2. QED
    BY <1>0, <1>1, <1>5, <2>1, KeepLoops DEF SyncDone, TypeOK
<1>6. ASSUME SyncFail \/ Stop PROVE TypeOK'
  <2>1. SchedulerOK'
    BY <1>6 DEF SyncFail, Stop, TypeOK, SchedulerOK
  <2>2. QED
    BY <1>0, <1>1, <1>6, <2>1, KeepLoops DEF SyncFail, Stop, TypeOK
<1>7. ASSUME StopAllJobs PROVE TypeOK'
  <2>1. SchedulerOK'
    BY <1>7 DEF StopAllJobs, TypeOK, SchedulerOK
  <2>2. \A r \in Runs :
          (closed[r] \/ \E t \in Targets : jobs[t] = r) \in BOOLEAN
    BY DEF TypeOK, LoopsOK
  <2>3. LoopsOK'
    BY <1>7, <2>2 DEF StopAllJobs, TypeOK, LoopsOK
  <2>4. QED
    BY <1>0, <1>1, <2>1, <2>3 DEF TypeOK
<1>8. QED
  BY <1>2, <1>3, <1>4, <1>5, <1>6, <1>7 DEF SyncStep

LEMMA ProcessType == TypeOK /\ (ProcessEnds \/ ProcessStarts) => TypeOK'
<1>1. ASSUME TypeOK, ProcessEnds PROVE TypeOK'
  <2>1. SchedulerOK'
    BY <1>1 DEF ProcessEnds, SchedulerOK
  <2>2. LoopsOK'
    BY <1>1 DEF ProcessEnds, LoopsOK
  <2>3. OutsideOK'
    <3>1. UNCHANGED <<svc, alerts, seen, flips, edits>> /\ restarts' = restarts + 1
      BY <1>1 DEF ProcessEnds, envVars
    <3>2. QED
      BY <1>1, <3>1 DEF TypeOK, OutsideOK
  <2>4. QED
    BY <1>1, <2>1, <2>2, <2>3, KeepDatabase DEF ProcessEnds, TypeOK
<1>2. ASSUME TypeOK, ProcessStarts PROVE TypeOK'
  <2>1. SchedulerOK'
    BY <1>2 DEF ProcessStarts, TypeOK, SchedulerOK
  <2>2. QED
    BY <1>2, <2>1, KeepDatabase, KeepLoops, KeepOutside
    DEF ProcessStarts, TypeOK
<1>3. QED
  BY <1>1, <1>2

LEMMA LoopType ==
  ASSUME NEW r \in Runs, TypeOK, CheckStep(r) \/ LoopExit(r)
  PROVE  TypeOK'
<1> USE DEF Goto, syncVars, envVars
<1>1. ASSUME CheckBegin(r) PROVE TypeOK'
  <2>1. target[r] \in Targets
    BY <1>1 DEF CheckBegin, TypeOK, LoopsOK
  <2>2. PICK s \in Statuses : /\ cache' = [cache EXCEPT ![target[r]] = s]
                              /\ prev' = [prev EXCEPT ![r] = s]
    BY <1>1, <2>1 DEF CheckBegin, TypeOK, SchedulerOK, DatabaseOK, Statuses
  <2>3. DatabaseOK'
    BY <1>1, KeepDatabase DEF CheckBegin, TypeOK, dbVars
  <2>4. SchedulerOK'
    BY <1>1, <2>2 DEF CheckBegin, TypeOK, SchedulerOK
  <2>5. LoopsOK'
    BY <1>1, <2>2 DEF CheckBegin, TypeOK, LoopsOK
  <2>6. OutsideOK'
    BY <1>1, KeepOutside DEF CheckBegin, TypeOK
  <2>7. QED
    BY <2>3, <2>4, <2>5, <2>6 DEF TypeOK
<1>2. ASSUME Probe(r) PROVE TypeOK'
  <2>1. svc[target[r]][conf[r]] \in Statuses
    BY <1>2 DEF Probe, TypeOK, LoopsOK, OutsideOK
  <2>2. LoopsOK'
    BY <1>2, <2>1 DEF Probe, TypeOK, LoopsOK
  <2>3. QED
    BY <1>2, <2>2, KeepDatabase, KeepScheduler, KeepOutside
    DEF Probe, TypeOK, dbVars
<1>3. ASSUME SaveLog(r) PROVE TypeOK'
  <2>1. target[r] \in Targets /\ res[r] \in Statuses
    BY <1>3 DEF SaveLog, TypeOK, LoopsOK
  <2>2. DatabaseOK'
    BY <1>3, <2>1 DEF SaveLog, TypeOK, DatabaseOK
  <2>3. LoopsOK'
    BY <1>3 DEF SaveLog, TypeOK, LoopsOK
  <2>4. QED
    BY <1>3, <2>2, <2>3, KeepScheduler, KeepOutside DEF SaveLog, TypeOK
<1>4. ASSUME Record(r) PROVE TypeOK'
  <2>1. target[r] \in Targets /\ res[r] \in Statuses
    BY <1>4 DEF Record, TypeOK, LoopsOK
  <2>2. SchedulerOK'
    BY <1>4, <2>1 DEF Record, Compare, Return, TypeOK, SchedulerOK
  <2>3. LoopsOK'
    BY <1>4 DEF Record, Compare, Return, TypeOK, LoopsOK
  <2>4. QED
    BY <1>4, <2>2, <2>3, KeepDatabase, KeepOutside
    DEF Record, Compare, Return, TypeOK, dbVars
<1>5. ASSUME Alert(r) PROVE TypeOK'
  <2>1. target[r] \in Targets /\ res[r] \in Statuses
    BY <1>5 DEF Alert, TypeOK, LoopsOK
  <2>2. \A t \in Targets : Append(alerts[t], res[r]) \in Seq(Statuses)
    BY <2>1 DEF TypeOK, OutsideOK
  <2>3. Log!Now(target[r]) \in [Configs -> SUBSET Statuses]
    BY <2>1 DEF Log!Now, TypeOK, OutsideOK
  <2>4. OutsideOK'
    BY <1>5, <2>1, <2>2, <2>3 DEF Alert, Return, TypeOK, OutsideOK, counters
  <2>5. LoopsOK'
    BY <1>5 DEF Alert, Return, TypeOK, LoopsOK
  <2>6. QED
    BY <1>5, <2>4, <2>5, KeepDatabase, KeepScheduler
    DEF Alert, Return, TypeOK, dbVars
<1>6. ASSUME Tick(r) PROVE TypeOK'
  <2>1. LoopsOK'
    BY <1>6 DEF Tick, TypeOK, LoopsOK
  <2>2. QED
    BY <1>6, <2>1, KeepDatabase, KeepScheduler, KeepOutside
    DEF Tick, TypeOK, dbVars
<1>7. ASSUME LoopExit(r) PROVE TypeOK'
  <2>1. LoopsOK'
    BY <1>7 DEF LoopExit, TypeOK, LoopsOK
  <2>2. QED
    BY <1>7, <2>1, KeepDatabase, KeepScheduler, KeepOutside
    DEF LoopExit, TypeOK
<1>8. QED
  BY <1>1, <1>2, <1>3, <1>4, <1>5, <1>6, <1>7 DEF CheckStep

LEMMA NextType == TypeOK /\ [Next]_vars => TypeOK'
<1>1. TypeOK /\ Next => TypeOK'
  BY EnvironmentType, SchedulerType, ProcessType, LoopType DEF Next
<1>2. TypeOK /\ UNCHANGED vars => TypeOK'
  BY KeepDatabase, KeepScheduler, KeepLoops, KeepOutside DEF TypeOK, vars
<1>3. QED
  BY <1>1, <1>2

\* Every reachable state has the types of TypeOK: in particular every check
\* compares its result with a real previous status and belongs to a target.
THEOREM TypeCorrect == Spec => []TypeOK
<1>1. QED
  BY InitType, NextType, PTL DEF Spec

-----------------------------------------------------------------------------
(* Jobs and goroutines.  Together with the types, JobsAgree is inductive.   *)

LEMMA InitJobs == Init => JobsAgree
<1> SUFFICES ASSUME Init PROVE JobsAgree
  OBVIOUS
<1>1. /\ jobs = [t \in Targets |-> Nil]
      /\ pc = [r \in Runs |-> "free"]
      /\ closed = [r \in Runs |-> FALSE]
  BY DEF Init
<1>2. Live = {}
  BY <1>1 DEF Live
<1>3. \A r \in Runs : ~closed[r]
  BY <1>1
<1>4. \A t \in Targets : jobs[t] = Nil
  BY <1>1
<1>5. QED
  BY <1>2, <1>3, <1>4 DEF JobsAgree

\* JobsAgree reads four variables of the runner.
LEMMA KeepJobs ==
  JobsAgree /\ UNCHANGED <<jobs, pc, target, closed>> => JobsAgree'
BY DEF JobsAgree, Live

LEMMA SchedulerJobs ==
  TypeOK /\ JobsAgree /\ (SyncStep \/ StopAllJobs) => JobsAgree'
<1> SUFFICES ASSUME TypeOK, JobsAgree, SyncStep \/ StopAllJobs
             PROVE  JobsAgree'
  OBVIOUS
<1>0. jobs \in [Targets -> Runs \cup {Nil}] /\ closed \in [Runs -> BOOLEAN]
      /\ target \in [Runs -> Targets \cup {Nil}] /\ Nil \notin Runs
      /\ DOMAIN pc = Runs /\ \A r \in Live : target[r] \in Targets
  BY ConstAssumption DEF TypeOK, SchedulerOK, LoopsOK, Live
<1>1. ASSUME SyncRead \/ SyncDone PROVE JobsAgree'
  BY <1>1, KeepJobs DEF SyncRead, SyncDone, loopVars
<1>2. ASSUME NEW t \in Targets, SyncStop(t) PROVE JobsAgree'
  <2>1. jobs[t] \in Runs
    BY <1>0, <1>2 DEF SyncStop, ToStop
  <2>2. \A u \in Targets \ {t} : jobs'[u] = jobs[u] /\ jobs[u] # jobs[t]
    BY <1>0, <1>2, <2>1 DEF SyncStop, JobsAgree
  <2>3. jobs'[t] = Nil /\ closed'[jobs[t]]
    BY <1>0, <1>2, <2>1 DEF SyncStop
  <2>4. \A r \in Runs \ {jobs[t]} : closed'[r] = closed[r]
    BY <1>0, <1>2 DEF SyncStop
  <2>5. UNCHANGED <<pc, target>>
    BY <1>2 DEF SyncStop
  <2>6. QED
    BY <1>0, <2>1, <2>2, <2>3, <2>4, <2>5 DEF JobsAgree, Live
<1>3. ASSUME NEW t \in Targets, NEW r \in Runs, SyncStart(t, r)
      PROVE  JobsAgree'
  <2>1. \A u \in Targets \ {t} : jobs'[u] = jobs[u] /\ jobs[u] # r
    BY <1>0, <1>3 DEF SyncStart, JobsAgree
  <2>2. /\ jobs[t] = Nil /\ jobs'[t] = r
        /\ pc'[r] = "begin" /\ target'[r] = t /\ ~closed'[r]
    BY <1>0, <1>3 DEF SyncStart, ToStart, JobsAgree, Live
  <2>3. \A q \in Runs \ {r} : pc'[q] = pc[q] /\ target'[q] = target[q]
    BY <1>0, <1>3 DEF SyncStart
  <2>4. closed' = closed
    BY <1>3 DEF SyncStart
  <2>5. QED
    BY <1>0, <2>1, <2>2, <2>3, <2>4 DEF JobsAgree, Live
<1>4. ASSUME StopAllJobs PROVE JobsAgree'
  <2>1. \A r \in Live : closed'[r]
    BY <1>0, <1>4 DEF StopAllJobs, JobsAgree, Live
  <2>2. \A t \in Targets : jobs'[t] = Nil
    BY <1>4 DEF StopAllJobs
  <2>3. \A r \in Runs \ Live : ~closed'[r]
    BY <1>0, <1>4 DEF StopAllJobs, JobsAgree, Live
  <2>4. UNCHANGED <<pc, target>>
    BY <1>4 DEF StopAllJobs
  <2>5. QED
    BY <2>1, <2>2, <2>3, <2>4 DEF JobsAgree, Live
<1>5. QED
  BY <1>1, <1>2, <1>3, <1>4 DEF SyncStep

LEMMA LoopJobs ==
  ASSUME NEW r \in Runs, TypeOK, JobsAgree, CheckStep(r) \/ LoopExit(r)
  PROVE  JobsAgree'
<1>0. /\ DOMAIN pc = Runs /\ DOMAIN target = Runs
      /\ closed \in [Runs -> BOOLEAN] /\ jobs \in [Targets -> Runs \cup {Nil}]
  BY DEF TypeOK, SchedulerOK, LoopsOK
<1>1. CASE CheckStep(r)
  <2>1. /\ pc[r] # "free" /\ pc'[r] # "free"
        /\ \A q \in Runs \ {r} : pc'[q] = pc[q]
        /\ UNCHANGED <<jobs, target, closed>>
    BY <1>0, <1>1 DEF CheckStep, CheckBegin, Probe, SaveLog, Record, Compare,
                      Alert, Return, Tick, Goto, syncVars
  <2>2. QED
    BY <1>0, <2>1 DEF JobsAgree, Live
<1>2. CASE LoopExit(r)
  <2>1. /\ pc[r] = "wait" /\ closed[r] /\ pc'[r] = "free" /\ ~closed'[r]
        /\ jobs' = jobs
        /\ \A q \in Runs \ {r} : /\ pc'[q] = pc[q] /\ target'[q] = target[q]
                                 /\ closed'[q] = closed[q]
    BY <1>0, <1>2 DEF LoopExit, syncVars
  <2>2. \A t \in Targets : jobs[t] # r
    BY <2>1, ConstAssumption DEF JobsAgree
  <2>3. QED
    BY <1>0, <2>1, <2>2 DEF JobsAgree, Live
<1>3. QED
  BY <1>1, <1>2

LEMMA NextJobs == TypeOK /\ JobsAgree /\ [Next]_vars => JobsAgree'
<1> SUFFICES ASSUME TypeOK, JobsAgree, [Next]_vars PROVE JobsAgree'
  OBVIOUS
<1>1. ASSUME Environment \/ SyncFail \/ Stop \/ ProcessStarts \/ UNCHANGED vars
      PROVE  JobsAgree'
  <2>1. UNCHANGED <<jobs, pc, target, closed>>
    BY <1>1 DEF Environment, CreateTarget, EditTarget, DeleteTarget,
                ExpireLogs, FlipService, SyncFail, Stop, ProcessStarts, vars,
                syncVars, loopVars
  <2>2. QED
    BY <2>1, KeepJobs
<1>2. ASSUME ProcessEnds PROVE JobsAgree'
  BY <1>2 DEF ProcessEnds, JobsAgree, Live
<1>3. QED
  BY <1>1, <1>2, SchedulerJobs, LoopJobs DEF Next

\* No schedule of handlers, edits, syncs, stops and crashes leaks a check loop:
\* a loop nobody has stopped is in the jobs map, where syncJobs and Stop find
\* it, and a job in the map always has its own running loop.
THEOREM JobsCorrect == Spec => []JobsAgree
<1>1. Init => TypeOK /\ JobsAgree
  BY InitType, InitJobs
<1>2. TypeOK /\ JobsAgree /\ [Next]_vars => (TypeOK /\ JobsAgree)'
  BY NextType, NextJobs
<1>3. QED
  BY <1>1, <1>2, PTL DEF Spec

-----------------------------------------------------------------------------
(* The scheduler implements JobPool.                                       *)

\* JobPool's view of the runner, as in HealthRunner's INSTANCE.
Up == main # "down"
Open == [t \in Targets |-> IF jobs[t] = Nil THEN Nil ELSE conf[jobs[t]]]
Ending == [t \in Targets |-> {r \in Runs : closed[r] /\ target[r] = t}]

IInv == TypeOK /\ JobsAgree

\* What the steps below use of the invariant.
LEMMA Facts ==
  ASSUME IInv
  PROVE  /\ Nil \notin Targets \cup Configs \cup Runs
         /\ jobs \in [Targets -> Runs \cup {Nil}]
         /\ closed \in [Runs -> BOOLEAN]
         /\ target \in [Runs -> Targets \cup {Nil}]
         /\ conf \in [Runs -> Configs \cup {Nil}]
         /\ snapshot \in [Targets -> Configs \cup {Nil}]
         /\ \A t \in Targets : jobs[t] # Nil =>
              /\ jobs[t] \in Live /\ target[jobs[t]] = t /\ ~closed[jobs[t]]
              /\ conf[jobs[t]] \in Configs
         /\ \A r \in Runs : closed[r] => r \in Live /\ target[r] \in Targets
<1>1. /\ TypeOK /\ JobsAgree /\ Nil \notin Targets \cup Configs \cup Runs
      /\ jobs \in [Targets -> Runs \cup {Nil}]
      /\ closed \in [Runs -> BOOLEAN]
      /\ target \in [Runs -> Targets \cup {Nil}]
      /\ conf \in [Runs -> Configs \cup {Nil}]
      /\ snapshot \in [Targets -> Configs \cup {Nil}]
      /\ \A r \in Live : target[r] \in Targets /\ conf[r] \in Configs
  BY ConstAssumption DEF IInv, TypeOK, SchedulerOK, LoopsOK, Live
<1>2. \A t \in Targets : jobs[t] # Nil =>
        jobs[t] \in Live /\ target[jobs[t]] = t /\ ~closed[jobs[t]]
  BY <1>1 DEF JobsAgree, Live
<1>3. \A r \in Runs : closed[r] => r \in Live
  BY <1>1 DEF JobsAgree
<1>4. QED
  BY <1>1, <1>2, <1>3

LEMMA InitPool == Init => Pool!Init
<1> SUFFICES ASSUME Init PROVE Pool!Init
  OBVIOUS
<1>1. (main # "down") = TRUE
  BY DEF Init
<1>2. \A r \in Runs : ~closed[r]
  BY DEF Init
<1>3. Open = [t \in Targets |-> Nil] /\ Ending = [t \in Targets |-> {}]
  BY <1>2 DEF Init, Open, Ending
<1>4. QED
  BY <1>1, <1>3 DEF Pool!Init, Pool!NoLoops, Open, Ending

\* syncJobs starts a loop for a row that has none.
LEMMA StartPool ==
  ASSUME IInv, NEW t \in Targets, NEW r \in Runs, SyncStart(t, r)
  PROVE  Pool!Next
<1> USE Facts
<1>0. r \notin Live /\ jobs[t] = Nil /\ snapshot[t] # Nil
  BY DEF SyncStart, ToStart, Live
<1>1. /\ jobs[t] = Nil /\ snapshot[t] \in Configs /\ r \notin Live
      /\ ~closed[r] /\ \A u \in Targets : jobs[u] # r
  <2>1. snapshot[t] \in Configs /\ ~closed[r]
    BY <1>0
  <2>2. \A u \in Targets : jobs[u] = r => jobs[u] # Nil
    OBVIOUS
  <2>3. QED
    BY <1>0, <2>1, <2>2
<1> PICK c \in Configs : c = snapshot[t]
  BY <1>1
<1>2. Open[t] = Nil /\ Open' = [Open EXCEPT ![t] = c]
  <2>1. /\ jobs' = [jobs EXCEPT ![t] = r]
        /\ conf' = [conf EXCEPT ![r] = c]
    BY DEF SyncStart
  <2>2. \A u \in Targets :
          (IF jobs'[u] = Nil THEN Nil ELSE conf'[jobs'[u]]) =
            IF u = t THEN c ELSE IF jobs[u] = Nil THEN Nil ELSE conf[jobs[u]]
    <3> SUFFICES ASSUME NEW u \in Targets
                 PROVE  (IF jobs'[u] = Nil THEN Nil ELSE conf'[jobs'[u]]) =
                   IF u = t THEN c ELSE IF jobs[u] = Nil THEN Nil ELSE conf[jobs[u]]
      OBVIOUS
    <3>1. jobs'[u] = IF u = t THEN r ELSE jobs[u]
      BY <2>1
    <3>2. \A q \in Runs : conf'[q] = IF q = r THEN c ELSE conf[q]
      BY <2>1
    <3>3. r # Nil /\ jobs[u] # r /\ jobs[u] \in Runs \cup {Nil}
      BY <1>1
    <3>4. QED
      BY <3>1, <3>2, <3>3
  <2>3. Open[t] = Nil
    BY <1>1 DEF Open
  <2>4. \A u \in Targets :
          Open[u] = IF jobs[u] = Nil THEN Nil ELSE conf[jobs[u]]
    BY DEF Open
  <2>5. Open' = [u \in Targets |-> IF u = t THEN c ELSE Open[u]]
    BY <2>2, <2>4 DEF Open
  <2>6. Open = [u \in Targets |-> Open[u]]
    BY DEF Open
  <2>7. QED
    BY <2>3, <2>5, <2>6
<1>3. Ending' = Ending
  <2>1. closed' = closed /\ \A q \in Runs : q # r => target'[q] = target[q]
    BY DEF SyncStart
  <2>2. QED
    BY <1>1, <2>1 DEF Ending
<1>4. UNCHANGED Up
  BY DEF SyncStart, Up
<1>5. Pool!Start(t, c)
  BY <1>2, <1>3, <1>4 DEF Pool!Start, Open, Ending, Up
<1>6. QED
  BY <1>5 DEF Pool!Next

\* syncJobs stops the loop of a row that is gone, inactive or changed.
LEMMA StopOnePool ==
  ASSUME IInv, NEW t \in Targets, SyncStop(t)
  PROVE  Pool!Next
<1> USE Facts
<1>1. /\ jobs[t] # Nil /\ jobs[t] \in Runs /\ target[jobs[t]] = t
      /\ ~closed[jobs[t]]
  BY DEF SyncStop, ToStop, Live
<1>2. Open' = [Open EXCEPT ![t] = Nil]
  BY DEF Open, SyncStop
<1>3. Ending' = [Ending EXCEPT ![t] = @ \cup {jobs[t]}]
  <2>1. \A q \in Runs : closed'[q] <=> closed[q] \/ q = jobs[t]
    <3>1. closed' = [closed EXCEPT ![jobs[t]] = TRUE]
      BY DEF SyncStop
    <3>2. \A q \in Runs : closed'[q] = IF q = jobs[t] THEN TRUE ELSE closed[q]
      BY <1>1, <3>1
    <3>3. QED
      BY <3>2
  <2>2. target' = target
    BY DEF SyncStop
  <2>3. \A u \in Targets :
          {q \in Runs : closed'[q] /\ target'[q] = u} =
            IF u = t THEN Ending[t] \cup {jobs[t]} ELSE Ending[u]
    <3> SUFFICES ASSUME NEW u \in Targets, NEW q
                 PROVE  q \in Runs /\ closed'[q] /\ target[q] = u
                          <=> \/ q \in Runs /\ closed[q] /\ target[q] = u
                              \/ u = t /\ q = jobs[t]
      BY <2>2 DEF Ending
    <3>1. QED
      BY <1>1, <2>1
  <2>4. QED
    BY <2>3 DEF Ending
<1>4. Open[t] # Nil /\ jobs[t] \in Runs \ Ending[t]
  BY <1>1 DEF Open, Ending
<1>5. UNCHANGED Up
  BY DEF SyncStop, Up
<1>6. Pool!Replace(t, Nil)
  BY <1>2, <1>3, <1>4, <1>5 DEF Pool!Replace, Open, Ending, Up
<1>7. QED
  BY <1>6 DEF Pool!Next

\* Stop's branch of the scheduler ends every loop.
LEMMA StopAllPool ==
  ASSUME IInv, StopAllJobs
  PROVE  Pool!Next
<1> USE Facts
<1> DEFINE told == [t \in Targets |-> IF jobs[t] = Nil THEN {} ELSE {jobs[t]}]
<1>1. \A t \in Targets : jobs[t] # Nil =>
        jobs[t] \in Runs /\ target[jobs[t]] = t /\ ~closed[jobs[t]]
  BY DEF Live
<1>2. told \in [Targets -> SUBSET Runs]
  BY <1>1
<1>3. \A t \in Targets : told[t] \cap Ending[t] = {}
  BY <1>1 DEF Ending
<1>4. \A t \in Targets :
        IF Open[t] = Nil THEN told[t] = {} ELSE \E r \in Runs : told[t] = {r}
  BY <1>1 DEF Open
<1>5. Open' = [t \in Targets |-> Nil] /\ UNCHANGED Up
  BY DEF Open, Up, StopAllJobs
<1>6. Ending' = [t \in Targets |-> Ending[t] \cup told[t]]
  <2>1. \A r \in Runs :
          closed'[r] <=> closed[r] \/ \E t \in Targets : jobs[t] = r
    BY DEF StopAllJobs
  <2>2. target' = target
    BY DEF StopAllJobs
  <2>3. \A t \in Targets :
          {r \in Runs : closed'[r] /\ target[r] = t} = Ending[t] \cup told[t]
    <3> SUFFICES ASSUME NEW t \in Targets, NEW r
                 PROVE  r \in Runs /\ closed'[r] /\ target[r] = t
                          <=> r \in Ending[t] \cup told[t]
      OBVIOUS
    <3>1. r \in told[t] <=> r \in Runs /\ jobs[t] = r
      BY <1>1, ConstAssumption
    <3>2. r \in Ending[t] <=> r \in Runs /\ closed[r] /\ target[r] = t
      BY DEF Ending
    <3>3. \A u \in Targets : r \in Runs /\ jobs[u] = r => target[r] = u
      BY <1>1, ConstAssumption
    <3>4. QED
      BY <2>1, <3>1, <3>2, <3>3
  <2>4. QED
    BY <2>2, <2>3 DEF Ending
<1>7. Pool!StopAll
  <2> HIDE DEF told
  <2>1. QED
    BY <1>2, <1>3, <1>4, <1>5, <1>6 DEF Pool!StopAll, Open, Ending, Up
<1>8. QED
  BY <1>7 DEF Pool!Next

\* A loop returns from its select.
LEMMA ExitPool ==
  ASSUME IInv, NEW r \in Runs, LoopExit(r)
  PROVE  Pool!Next
<1> USE Facts
<1>1. target[r] \in Targets /\ closed[r] /\ \A t \in Targets : jobs[t] # r
  BY DEF LoopExit
<1> PICK u \in Targets : u = target[r]
  BY <1>1
<1>2. Open' = Open
  BY <1>1 DEF Open, LoopExit, syncVars
<1>3. Ending' = [Ending EXCEPT ![u] = @ \ {r}]
  <2>1. \A q \in Runs : closed'[q] <=> closed[q] /\ q # r
    <3>1. closed' = [closed EXCEPT ![r] = FALSE]
      BY DEF LoopExit
    <3>2. \A q \in Runs : closed'[q] = IF q = r THEN FALSE ELSE closed[q]
      BY <3>1
    <3>3. QED
      BY <3>2
  <2>2. \A q \in Runs : q # r => target'[q] = target[q]
    BY DEF LoopExit
  <2>3. \A v \in Targets :
          {q \in Runs : closed'[q] /\ target'[q] = v} =
            IF v = u THEN Ending[u] \ {r} ELSE Ending[v]
    <3> SUFFICES ASSUME NEW v \in Targets, NEW q
                 PROVE  q \in Runs /\ closed'[q] /\ target'[q] = v
                          <=> q \in Runs /\ closed[q] /\ target[q] = v /\ q # r
      BY <1>1 DEF Ending
    <3>1. QED
      BY <2>1, <2>2
  <2>4. QED
    BY <2>3 DEF Ending
<1>4. r \in Ending[u]
  BY <1>1 DEF Ending
<1>5. UNCHANGED Up
  BY DEF LoopExit, Up, syncVars
<1>6. Pool!End(u, r)
  BY <1>2, <1>3, <1>4, <1>5 DEF Pool!End, Open, Ending, Up
<1>7. QED
  BY <1>6 DEF Pool!Next

\* A crash takes the jobs and the loops with it; a start finds none.
LEMMA ProcessPool ==
  ASSUME IInv, ProcessEnds \/ ProcessStarts
  PROVE  Pool!Next
<1>1. CASE ProcessEnds
  <2>1. Up /\ ~Up'
    BY <1>1 DEF ProcessEnds, Up
  <2>2. Open' = [t \in Targets |-> Nil] /\ Ending' = [t \in Targets |-> {}]
    BY <1>1 DEF ProcessEnds, Open, Ending
  <2>3. Pool!ProcessEnds
    BY <2>1, <2>2 DEF Pool!ProcessEnds, Pool!NoLoops, Open, Ending, Up
  <2>4. QED
    BY <2>3 DEF Pool!Next
<1>2. CASE ProcessStarts
  <2>1. Pool!ProcessStarts
    BY <1>2 DEF ProcessStarts, Pool!ProcessStarts, loopVars
  <2>2. QED
    BY <2>1 DEF Pool!Next
<1>3. QED
  BY <1>1, <1>2

\* Steps that change neither the jobs nor a loop's copies.
LEMMA KeepPool ==
  ASSUME UNCHANGED <<jobs, target, conf, closed>>, main' # "down", main # "down"
  PROVE  UNCHANGED Pool!vars
BY DEF Pool!vars

LEMMA SamePool ==
  ASSUME UNCHANGED <<main, jobs, target, conf, closed>>
  PROVE  UNCHANGED Pool!vars
BY DEF Pool!vars

LEMMA NextPool == IInv /\ [Next]_vars => [Pool!Next]_(Pool!vars)
<1> SUFFICES ASSUME IInv, [Next]_vars, ~Pool!Next PROVE UNCHANGED Pool!vars
  OBVIOUS
<1>1. CASE Environment
  BY <1>1, SamePool
  DEF Environment, CreateTarget, EditTarget, DeleteTarget, ExpireLogs,
      FlipService, syncVars, loopVars
<1>2. CASE SyncRead
  BY <1>2, SamePool DEF SyncRead, loopVars
<1>3. CASE SyncDone \/ SyncFail \/ Stop
  <2>1. UNCHANGED <<jobs, target, conf, closed>>
    BY <1>3 DEF SyncDone, SyncFail, Stop, loopVars
  <2>2. CASE main = "down" \/ main' = "down"
    <3>1. UNCHANGED main
      BY <1>3, <2>2 DEF SyncDone, SyncFail, Stop
    <3>2. QED
      BY <2>1, <3>1, SamePool
  <2>3. QED
    BY <2>1, <2>2, KeepPool
<1>4. ASSUME NEW r \in Runs, CheckStep(r) PROVE UNCHANGED Pool!vars
  <2>1. UNCHANGED <<main, jobs, target, conf, closed>>
    BY <1>4 DEF CheckStep, CheckBegin, Probe, SaveLog, Record, Compare, Alert,
                Return, Tick, Goto, syncVars
  <2>2. QED
    BY <2>1, SamePool
<1>5. CASE UNCHANGED vars
  BY <1>5, SamePool DEF vars, syncVars, loopVars
<1>6. QED
  BY <1>1, <1>2, <1>3, <1>4, <1>5, StartPool, StopOnePool, StopAllPool,
     ExitPool, ProcessPool
  DEF Next, SyncStep

\* The scheduler's jobs map, its stop channels and its loops behave as a job
\* pool through edits, failed queries, Stop, crashes and restarts.
THEOREM PoolImplemented == Spec => ImplementsJobPool
<1>1. Init => IInv /\ Pool!Init
  BY InitType, InitJobs, InitPool DEF IInv
<1>2. IInv /\ [Next]_vars => IInv'
  BY NextType, NextJobs DEF IInv
<1>3. IInv /\ [Next]_vars => [Pool!Next]_(Pool!vars)
  BY NextPool
<1>4. QED
  BY <1>1, <1>2, <1>3, PTL DEF Spec, ImplementsJobPool, Pool!Spec

-----------------------------------------------------------------------------
(* The safe half of two liveness properties: what WatchSettles and         *)
(* StopDrains wait for, once it is there, is there to stay.                *)

\* Steps of a check change nothing that syncJobs goes by.
LEMMA CheckKeeps ==
  ASSUME NEW r \in Runs, CheckStep(r), TypeOK
  PROVE  /\ UNCHANGED <<rows, main, sched, snapshot, jobs, target, conf, closed>>
         /\ UNCHANGED Live
<1>1. /\ UNCHANGED <<rows, main, sched, snapshot, jobs, target, conf, closed>>
      /\ pc[r] # "free" /\ pc'[r] # "free"
      /\ \A q \in Runs \ {r} : pc'[q] = pc[q]
  BY DEF TypeOK, LoopsOK, CheckStep, CheckBegin, Probe, SaveLog, Record, Compare,
         Alert, Return, Tick, Goto, syncVars
<1>2. QED
  BY <1>1 DEF Live

\* The table wants configuration c for t, or no loop at all, and the server runs.
Wanted(t, c) == main = "serving" /\ ActiveConf(t) = c

Watched(t, c) == {conf[r] : r \in LoopsOf(t)} = {c} \ {Nil}

\* A sync has done for t what the table wants, and no other one under way has
\* read something else.
Settled(t, c) ==
  /\ Wanted(t, c)
  /\ sched = "apply" => snapshot[t] = c
  /\ LoopsOf(t) = {jobs[t]} \ {Nil}
  /\ IF c = Nil THEN jobs[t] = Nil ELSE jobs[t] # Nil /\ conf[jobs[t]] = c

LEMMA SettledIsWatched ==
  ASSUME NEW t \in Targets, NEW c \in Configs \cup {Nil}, Settled(t, c)
  PROVE  Watched(t, c)
<1>1. CASE c = Nil
  BY <1>1 DEF Settled, Watched
<1>2. CASE c # Nil
  BY <1>2 DEF Settled, Watched
<1>3. QED
  BY <1>1, <1>2

\* What Settled reads of t, besides what the table wants.
LEMMA KeepSettled ==
  ASSUME NEW t \in Targets, NEW c \in Configs \cup {Nil}, IInv,
         Settled(t, c), Wanted(t, c)',
         sched' = "apply" => snapshot'[t] = c,
         LoopsOf(t)' = LoopsOf(t), jobs'[t] = jobs[t],
         jobs[t] # Nil => conf'[jobs[t]] = conf[jobs[t]]
  PROVE  Settled(t, c)'
BY DEF Settled

LEMMA SettledStep ==
  ASSUME NEW t \in Targets, NEW c \in Configs \cup {Nil}, IInv, [Next]_vars,
         Settled(t, c), Wanted(t, c)'
  PROVE  Settled(t, c)'
<1> USE Facts
<1>0. /\ jobs[t] # Nil => jobs[t] \in Live
      /\ TypeOK /\ DOMAIN pc = Runs /\ DOMAIN snapshot = Targets
  BY DEF IInv, TypeOK, LoopsOK
<1>1. CASE UNCHANGED <<sched, snapshot, jobs, pc, target, conf>>
  <2>1. LoopsOf(t)' = LoopsOf(t)
    BY <1>1 DEF LoopsOf, Live
  <2>2. sched' = "apply" => snapshot'[t] = c
    BY <1>1 DEF Settled
  <2>3. QED
    BY <1>1, <2>1, <2>2, KeepSettled
<1>2. CASE Environment \/ SyncFail \/ Stop \/ ProcessStarts \/ UNCHANGED vars
  BY <1>1, <1>2 DEF Environment, CreateTarget, EditTarget, DeleteTarget,
                    ExpireLogs, FlipService, SyncFail, Stop, ProcessStarts,
                    vars, syncVars, loopVars
<1>3. CASE SyncRead \/ SyncDone
  <2>1. /\ UNCHANGED <<jobs, pc, target, conf>>
        /\ sched' = "apply" => snapshot'[t] = ActiveConf(t)
    BY <1>3 DEF SyncRead, SyncDone, loopVars
  <2>2. LoopsOf(t)' = LoopsOf(t)
    BY <2>1 DEF LoopsOf, Live
  <2>3. ActiveConf(t) = c
    BY DEF Settled, Wanted
  <2>4. QED
    BY <2>1, <2>2, <2>3, KeepSettled
<1>4. ASSUME NEW u \in Targets, SyncStop(u) PROVE Settled(t, c)'
  <2>1. /\ sched = "apply" /\ jobs[u] # Nil /\ conf[jobs[u]] # snapshot[u]
        /\ \A v \in Targets \ {u} : jobs'[v] = jobs[v]
        /\ UNCHANGED <<sched, snapshot, pc, target, conf>>
    BY <1>4 DEF SyncStop, ToStop
  <2>2. u # t
    BY <2>1 DEF Settled
  <2>3. LoopsOf(t)' = LoopsOf(t)
    BY <2>1 DEF LoopsOf, Live
  <2>4. sched' = "apply" => snapshot'[t] = c
    BY <2>1 DEF Settled
  <2>5. QED
    BY <2>1, <2>2, <2>3, <2>4, KeepSettled
<1>5. ASSUME NEW u \in Targets, NEW r \in Runs, SyncStart(u, r)
      PROVE  Settled(t, c)'
  <2>1. /\ sched = "apply" /\ jobs[u] = Nil /\ snapshot[u] # Nil
        /\ pc[r] = "free" /\ target'[r] = u
        /\ \A v \in Targets \ {u} : jobs'[v] = jobs[v]
        /\ \A q \in Runs \ {r} : /\ pc'[q] = pc[q]
                                 /\ target'[q] = target[q] /\ conf'[q] = conf[q]
        /\ UNCHANGED <<sched, snapshot>>
    BY <1>0, <1>5 DEF SyncStart, ToStart
  <2>2. u # t
    BY <2>1 DEF Settled
  <2>3. r \notin Live /\ \A q \in Runs \ {r} : q \in Live' <=> q \in Live
    BY <2>1 DEF Live
  <2>4. LoopsOf(t)' = LoopsOf(t)
    BY <2>1, <2>2, <2>3 DEF LoopsOf, Live
  <2>5. sched' = "apply" => snapshot'[t] = c
    BY <2>1 DEF Settled
  <2>6. jobs[t] # Nil => jobs[t] \in Runs \ {r}
    BY <1>0, <2>3 DEF Live
  <2>7. QED
    BY <2>1, <2>2, <2>4, <2>5, <2>6, KeepSettled
<1>6. ~StopAllJobs /\ ~ProcessEnds
  BY DEF StopAllJobs, ProcessEnds, Settled, Wanted
<1>7. ASSUME NEW r \in Runs, CheckStep(r) PROVE Settled(t, c)'
  <2>1. /\ UNCHANGED <<sched, snapshot, jobs, target, conf>> /\ UNCHANGED Live
    BY <1>0, <1>7, CheckKeeps
  <2>2. LoopsOf(t)' = LoopsOf(t)
    BY <2>1 DEF LoopsOf
  <2>3. sched' = "apply" => snapshot'[t] = c
    BY <2>1 DEF Settled
  <2>4. QED
    BY <2>1, <2>2, <2>3, KeepSettled
<1>8. ASSUME NEW r \in Runs, LoopExit(r) PROVE Settled(t, c)'
  <2>1. /\ closed[r] /\ UNCHANGED <<sched, snapshot, jobs>>
        /\ pc[r] # "free" /\ pc'[r] = "free"
        /\ \A q \in Runs \ {r} : /\ pc'[q] = pc[q]
                                 /\ target'[q] = target[q] /\ conf'[q] = conf[q]
    BY <1>0, <1>8 DEF LoopExit, syncVars
  <2>2. r # jobs[t] /\ r \notin LoopsOf(t)
    BY <2>1 DEF Settled
  <2>3. LoopsOf(t)' = LoopsOf(t)
    BY <2>1, <2>2 DEF LoopsOf, Live
  <2>4. sched' = "apply" => snapshot'[t] = c
    BY <2>1 DEF Settled
  <2>5. jobs[t] # Nil => jobs[t] \in Runs \ {r}
    BY <1>0, <2>2 DEF Live
  <2>6. QED
    BY <2>1, <2>3, <2>4, <2>5, KeepSettled
<1>9. QED
  BY <1>2, <1>3, <1>4, <1>5, <1>6, <1>7, <1>8 DEF Next, SyncStep

\* When a sync has settled t, exactly the stored configuration is being checked
\* for as long as the table wants it and the server runs: what WatchSettles then
\* needs of fairness is only that syncJobs gets there once.
THEOREM SettledForGood ==
  ASSUME NEW t \in Targets, NEW c \in Configs \cup {Nil}
  PROVE  Spec => [](Settled(t, c) /\ []Wanted(t, c) => []Watched(t, c))
<1>1. Init => IInv
  BY InitType, InitJobs DEF IInv
<1>2. IInv /\ [Next]_vars => IInv'
  BY NextType, NextJobs DEF IInv
<1>3. IInv /\ [Next]_vars /\ Settled(t, c) /\ Wanted(t, c)' => Settled(t, c)'
  BY SettledStep
<1>4. Settled(t, c) => Watched(t, c)
  BY SettledIsWatched
<1>5. QED
  BY <1>1, <1>2, <1>3, <1>4, PTL DEF Spec

NoJobsLeft == sched = "stopped" => \A t \in Targets : jobs[t] = Nil

LEMMA AllClosed ==
  ASSUME IInv, NoJobsLeft, sched = "stopped" PROVE \A r \in Live : closed[r]
<1>1. \A r \in Live : target[r] \in Targets /\ r # Nil
  BY ConstAssumption DEF IInv, TypeOK, LoopsOK, Live
<1>2. QED
  BY <1>1 DEF IInv, JobsAgree, NoJobsLeft

\* The scheduler is not started again within a process.
LEMMA StoppedStep ==
  ASSUME IInv, [Next]_vars
  PROVE  /\ sched = "stopped" =>
              \/ main' = "down" /\ \A t \in Targets : jobs'[t] = Nil
              \/ /\ sched' = "stopped" /\ Live' \subseteq Live
                 /\ UNCHANGED jobs
         /\ sched # "stopped" /\ sched' = "stopped" =>
              \A t \in Targets : jobs'[t] = Nil
<1> USE DEF IInv
<1>1. CASE Environment \/ SyncFail \/ Stop \/ ProcessStarts \/ UNCHANGED vars
  BY <1>1 DEF Environment, CreateTarget, EditTarget, DeleteTarget, ExpireLogs,
              FlipService, SyncFail, Stop, ProcessStarts, vars, syncVars,
              loopVars, Live
<1>2. CASE SyncStep
  BY <1>2 DEF SyncStep, SyncRead, SyncStop, SyncStart, SyncDone
<1>3. CASE StopAllJobs \/ ProcessEnds
  <2>1. \A t \in Targets : jobs'[t] = Nil
    BY <1>3 DEF StopAllJobs, ProcessEnds
  <2>2. sched = "stopped" => main' = "down"
    BY <1>3 DEF StopAllJobs, ProcessEnds
  <2>3. QED
    BY <2>1, <2>2
<1>4. ASSUME NEW r \in Runs, CheckStep(r)
      PROVE  UNCHANGED <<sched, jobs>> /\ UNCHANGED Live
  BY <1>4, CheckKeeps
<1>5. ASSUME NEW r \in Runs, LoopExit(r)
      PROVE  UNCHANGED <<sched, jobs>> /\ Live' \subseteq Live
  BY <1>5 DEF LoopExit, syncVars, Live, TypeOK, LoopsOK
<1>6. QED
  BY <1>1, <1>2, <1>3, <1>4, <1>5 DEF Next

\* When the scheduler has taken stopChan, every loop there is has been told to
\* stop, none is ever started again, and those that have ended stay ended: what
\* StopDrains needs of fairness is only that a loop told to stop takes its exit.
THEOREM StoppedForGood ==
  Spec => [][sched = "stopped" =>
               /\ \A r \in Live : closed[r]
               /\ \/ main' = "down"
                  \/ sched' = "stopped" /\ Live' \subseteq Live]_vars
<1>1. Init => IInv /\ NoJobsLeft
  BY InitType, InitJobs DEF IInv, Init, NoJobsLeft
<1>2. IInv /\ NoJobsLeft /\ [Next]_vars => (IInv /\ NoJobsLeft)'
  <2> SUFFICES ASSUME IInv, NoJobsLeft, [Next]_vars
               PROVE  IInv' /\ NoJobsLeft'
    OBVIOUS
  <2>1. IInv'
    BY NextType, NextJobs DEF IInv
  <2>2. NoJobsLeft'
    BY StoppedStep DEF NoJobsLeft
  <2>3. QED
    BY <2>1, <2>2
<1>3. IInv /\ NoJobsLeft /\ [Next]_vars =>
        (sched = "stopped" =>
           /\ \A r \in Live : closed[r]
           /\ \/ main' = "down"
              \/ sched' = "stopped" /\ Live' \subseteq Live)
  BY AllClosed, StoppedStep
<1>4. QED
  BY <1>1, <1>2, <1>3, PTL DEF Spec
=============================================================================
