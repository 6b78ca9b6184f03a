------------------------- MODULE CheckerRunnerProofs -------------------------
(***************************************************************************)
(* Proofs about CheckerRunner.tla, for any sets of targets, configurations *)
(* and goroutine slots and any number of changes of the portal's list.     *)
(***************************************************************************)
EXTENDS CheckerRunner, TLAPS

-----------------------------------------------------------------------------
(* Type correctness.                                                       *)

LEMMA InitType == Init => TypeOK
BY CheckerAssumption DEF Init, TypeOK, NoList, Live

LEMMA SyncType ==
  TypeOK /\ (SyncStep \/ FetchFails \/ SyncExit) => TypeOK'
<1> SUFFICES ASSUME TypeOK, SyncStep \/ FetchFails \/ SyncExit PROVE TypeOK'
  OBVIOUS
<1> USE DEF TypeOK
<1>1. CASE FetchTargets
  BY <1>1 DEF FetchTargets, loopVars, Live
<1>2. CASE LockJobs
  BY <1>2 DEF LockJobs, loopVars, Live
<1>3. CASE SyncDone
  BY <1>3 DEF SyncDone, SyncReturns, NoList, loopVars, Live
<1>4. ASSUME NEW t \in Targets, RemoveTarget(t) PROVE TypeOK'
  <2>1. jobs[t] \in Runs
    BY <1>4 DEF RemoveTarget, ToRemove
  <2>2. QED
    BY <1>4, <2>1 DEF RemoveTarget, Live
<1>5. ASSUME NEW t \in Targets, NEW r \in Runs, ApplyTarget(t, r) PROVE TypeOK'
  <2>1. list[t] \in Configs
    BY <1>5 DEF ApplyTarget, ToApply
  <2>2. \A q \in Runs : (closed[q] \/ q = jobs[t]) \in BOOLEAN
    OBVIOUS
  <2>3. closed' \in [Runs -> BOOLEAN]
    BY <1>5, <2>2 DEF ApplyTarget
  <2>4. (\A q \in Live : target[q] \in Targets /\ conf[q] \in Configs)'
    BY <1>5, <2>1 DEF ApplyTarget, Live
  <2>5. QED
    BY <1>5, <2>1, <2>3, <2>4 DEF ApplyTarget
<1>6. CASE FetchFails
  BY <1>6 DEF FetchFails, SyncReturns, loopVars, Live
<1>7. CASE SyncExit
  BY <1>7 DEF SyncExit, loopVars, Live
<1>8. QED
  BY <1>1, <1>2, <1>3, <1>4, <1>5, <1>6, <1>7 DEF SyncStep

LEMMA LoopType ==
  ASSUME TypeOK, NEW r \in Runs, CheckStep(r) \/ LoopExit(r)
  PROVE  TypeOK'
<1> USE DEF TypeOK
<1>1. CASE CheckStep(r)
  BY <1>1 DEF CheckStep, CheckTarget, SendReport, Tick, Live
<1>2. CASE LoopExit(r)
  BY <1>2 DEF LoopExit, Live
<1>3. QED
  BY <1>1, <1>2

LEMMA NextType == TypeOK /\ [Next]_vars => TypeOK'
<1> SUFFICES ASSUME TypeOK, [Next]_vars PROVE TypeOK'
  OBVIOUS
<1>1. ASSUME NEW t \in Targets, EditPortal(t) PROVE TypeOK'
  BY <1>1 DEF EditPortal, TypeOK, loopVars, Live
<1>2. CASE CloseStopSync
  BY <1>2 DEF CloseStopSync, TypeOK, loopVars, Live
<1>3. CASE CloseJobs
  BY <1>3 DEF CloseJobs, TypeOK, Live
<1>4. CASE UNCHANGED vars
  BY <1>4 DEF vars, TypeOK, loopVars, Live
<1>5. QED
  BY <1>1, <1>2, <1>3, <1>4, SyncType, LoopType DEF Next

\* Every reachable state of the checker has well-typed fields, goroutines and
\* loop copies, and a running loop has a target and a configuration.
THEOREM TypeCorrect == Spec => []TypeOK
BY InitType, NextType, PTL DEF Spec

-----------------------------------------------------------------------------
(* Jobs and loops.  JobsAgree is inductive over well-typed states.         *)

LEMMA KeepJobsAgree ==
  ASSUME JobsAgree, UNCHANGED <<jobs, loopVars>>
  PROVE  JobsAgree'
BY DEF JobsAgree, loopVars, Live

LEMMA InitJobsAgree == Init => JobsAgree
BY DEF Init, JobsAgree, Live

LEMMA NextJobsAgree == TypeOK /\ JobsAgree /\ [Next]_vars => JobsAgree'
<1> SUFFICES ASSUME TypeOK, JobsAgree, [Next]_vars PROVE JobsAgree'
  OBVIOUS
<1> USE CheckerAssumption
<1>1. ASSUME NEW t \in Targets, NEW r \in Runs, ApplyTarget(t, r)
      PROVE  JobsAgree'
  <2>1. /\ r \notin Live /\ ~closed[r]
        /\ \A u \in Targets : jobs[u] # r
    BY <1>1 DEF ApplyTarget, JobsAgree, Live, TypeOK
  <2>2. /\ jobs' = [jobs EXCEPT ![t] = r]
        /\ closed' = [q \in Runs |-> closed[q] \/ q = jobs[t]]
        /\ target' = [target EXCEPT ![r] = t]
        /\ Live' = Live \cup {r}
    BY <1>1 DEF ApplyTarget, Live, TypeOK
  <2>3. \A u \in Targets : jobs'[u] # Nil =>
          jobs'[u] \in Live' /\ target'[jobs'[u]] = u /\ ~closed'[jobs'[u]]
    <3> SUFFICES ASSUME NEW u \in Targets, jobs'[u] # Nil
                 PROVE  /\ jobs'[u] \in Live' /\ target'[jobs'[u]] = u
                        /\ ~closed'[jobs'[u]]
      OBVIOUS
    <3>1. CASE u = t
      BY <2>1, <2>2, <3>1 DEF TypeOK
    <3>2. CASE u # t
      <4>1. /\ jobs'[u] = jobs[u] /\ jobs[u] \in Live /\ target[jobs[u]] = u
            /\ ~closed[jobs[u]]
        BY <2>2, <3>2 DEF JobsAgree, TypeOK
      <4>2. jobs[u] # jobs[t]
        BY <3>2, <4>1 DEF JobsAgree, TypeOK
      <4>3. QED
        BY <2>1, <2>2, <4>1, <4>2 DEF TypeOK, Live
    <3>3. QED
      BY <3>1, <3>2
  <2>4. \A q \in Live' : ~closed'[q] => jobs'[target'[q]] = q
    <3> SUFFICES ASSUME NEW q \in Live', ~closed'[q]
                 PROVE  jobs'[target'[q]] = q
      OBVIOUS
    <3>1. CASE q = r
      BY <2>2, <3>1 DEF TypeOK
    <3>2. CASE q # r
      <4>1. q \in Live /\ target'[q] = target[q] /\ q # jobs[t] /\ ~closed[q]
        BY <2>2, <3>2 DEF TypeOK, Live
      <4>2. jobs[target[q]] = q /\ target[q] # t /\ target[q] \in Targets
        BY <4>1 DEF JobsAgree, TypeOK
      <4>3. QED
        BY <2>2, <4>1, <4>2 DEF TypeOK
    <3>3. QED
      BY <3>1, <3>2
  <2>5. \A q \in Runs \ Live' : ~closed'[q]
    BY <2>1, <2>2 DEF JobsAgree, TypeOK, Live
  <2>6. QED
    BY <2>3, <2>4, <2>5 DEF JobsAgree
<1>2. ASSUME NEW t \in Targets, RemoveTarget(t) PROVE JobsAgree'
  <2>1. jobs[t] \in Live /\ target[jobs[t]] = t
    BY <1>2 DEF RemoveTarget, ToRemove, JobsAgree
  <2>2. Live' = Live
    BY <1>2 DEF RemoveTarget, Live
  <2>3. /\ jobs' = [jobs EXCEPT ![t] = Nil]
        /\ closed' = [closed EXCEPT ![jobs[t]] = TRUE]
        /\ target' = target
    BY <1>2 DEF RemoveTarget
  <2>4. \A u \in Targets : jobs'[u] # Nil =>
          jobs'[u] \in Live' /\ target'[jobs'[u]] = u /\ ~closed'[jobs'[u]]
    BY <2>1, <2>2, <2>3 DEF JobsAgree, TypeOK, Live
  <2>5. \A q \in Live' : ~closed'[q] => jobs'[target'[q]] = q
    <3> SUFFICES ASSUME NEW q \in Live, ~closed'[q]
                 PROVE  jobs'[target[q]] = q
      BY <2>2, <2>3
    <3>1. q # jobs[t] /\ ~closed[q]
      BY <2>1, <2>3 DEF TypeOK, Live
    <3>2. jobs[target[q]] = q /\ target[q] # t /\ target[q] \in Targets
      BY <3>1 DEF JobsAgree, TypeOK
    <3>3. QED
      BY <2>3, <3>2 DEF TypeOK
  <2>6. \A q \in Runs \ Live' : ~closed'[q]
    BY <2>1, <2>2, <2>3 DEF JobsAgree, TypeOK, Live
  <2>7. QED
    BY <2>4, <2>5, <2>6 DEF JobsAgree
<1>3. CASE CloseJobs
  <2>1. Live' = Live
    BY <1>3 DEF CloseJobs, Live
  <2>2. \A r \in Runs :
          closed'[r] <=> closed[r] \/ \E t \in Targets : jobs[t] = r
    BY <1>3 DEF CloseJobs, TypeOK
  <2>3. \A t \in Targets : jobs'[t] = Nil
    BY <1>3 DEF CloseJobs
  <2>4. \A r \in Live : closed'[r]
    BY <2>2 DEF JobsAgree, TypeOK, Live
  <2>5. \A r \in Runs \ Live : ~closed'[r]
    BY <2>2 DEF JobsAgree
  <2>6. QED
    BY <2>1, <2>3, <2>4, <2>5 DEF JobsAgree
<1>4. ASSUME NEW r \in Runs, CheckStep(r) PROVE JobsAgree'
  <2>1. Live' = Live
    BY <1>4 DEF CheckStep, CheckTarget, SendReport, Tick, Live, TypeOK
  <2>2. QED
    BY <1>4, <2>1
    DEF CheckStep, CheckTarget, SendReport, Tick, JobsAgree
<1>5. ASSUME NEW r \in Runs, LoopExit(r) PROVE JobsAgree'
  <2>1. Live' = Live \ {r}
    BY <1>5 DEF LoopExit, Live, TypeOK
  <2>2. QED
    BY <1>5, <2>1 DEF LoopExit, JobsAgree, TypeOK, Live
<1>6. CASE FetchTargets \/ LockJobs \/ SyncDone \/ FetchFails \/ SyncExit
  BY <1>6, KeepJobsAgree
  DEF FetchTargets, LockJobs, SyncDone, FetchFails, SyncExit
<1>7. CASE CloseStopSync \/ \E t \in Targets : EditPortal(t)
  BY <1>7, KeepJobsAgree DEF CloseStopSync, EditPortal
<1>8. CASE UNCHANGED vars
  BY <1>8, KeepJobsAgree DEF vars
<1>9. QED
  BY <1>1, <1>2, <1>3, <1>4, <1>5, <1>6, <1>7, <1>8 DEF Next, SyncStep

IInv == TypeOK /\ JobsAgree

LEMMA Inductive == Spec => []IInv
<1>1. Init => IInv
  BY InitType, InitJobsAgree DEF IInv
<1>2. IInv /\ [Next]_vars => IInv'
  BY NextType, NextJobsAgree DEF IInv
<1>3. QED
  BY <1>1, <1>2, PTL DEF Spec

\* The jobs map and the running loops agree in every reachable state of the
\* checker: each job has its own loop, and an untold loop is on the map.
THEOREM JobsAlwaysAgree == Spec => []JobsAgree
BY Inductive, PTL DEF IInv

-----------------------------------------------------------------------------
(* The checker implements the abstract job pool.                           *)

Open == [t \in Targets |-> IF jobs[t] = Nil THEN Nil ELSE conf[jobs[t]]]
Ending == [t \in Targets |-> {r \in Runs : closed[r] /\ target[r] = t}]

LEMMA InitPool == Init => Pool!Init
BY DEF Init, Pool!Init, Pool!NoLoops

\* A target of the list whose job is new or replaced.
LEMMA ApplyPool ==
  ASSUME IInv, NEW t \in Targets, NEW r \in Runs, ApplyTarget(t, r)
  PROVE  Pool!Next
<1> USE CheckerAssumption
<1>0. TypeOK /\ JobsAgree
  BY DEF IInv
<1>1. /\ list[t] \in Configs /\ r \notin Live /\ ~closed[r]
      /\ \A u \in Targets : jobs[u] # r
  BY <1>0 DEF ApplyTarget, ToApply, JobsAgree, Live, TypeOK
<1>2. Open' = [Open EXCEPT ![t] = list[t]]
  BY <1>0, <1>1 DEF Open, ApplyTarget, TypeOK
<1> PICK c \in Configs : c = list[t]
  BY <1>1
<1>3. CASE jobs[t] = Nil
  <2>1. Ending' = Ending
    <3>1. \A q \in Runs : closed'[q] <=> closed[q]
      BY <1>0, <1>3 DEF ApplyTarget, TypeOK
    <3>2. \A q \in Runs : q # r => target'[q] = target[q]
      BY <1>0 DEF ApplyTarget, TypeOK
    <3>3. QED
      BY <1>1, <3>1, <3>2 DEF Ending
  <2>2. Open[t] = Nil
    BY <1>3 DEF Open
  <2>3. Pool!Start(t, c)
    BY <1>2, <2>1, <2>2 DEF Pool!Start, Open, Ending
  <2>4. QED
    BY <1>1, <2>3 DEF Pool!Next
<1>4. CASE jobs[t] # Nil
  <2>1. /\ jobs[t] \in Live /\ target[jobs[t]] = t /\ ~closed[jobs[t]]
        /\ jobs[t] # r
    BY <1>0, <1>1, <1>4 DEF JobsAgree
  <2>2. Ending' = [Ending EXCEPT ![t] = @ \cup {jobs[t]}]
    <3>1. \A q \in Runs : closed'[q] <=> closed[q] \/ q = jobs[t]
      BY <1>0 DEF ApplyTarget, TypeOK
    <3>2. \A q \in Runs : q # r => target'[q] = target[q]
      BY <1>0 DEF ApplyTarget, TypeOK
    <3>3. \A u \in Targets :
            {q \in Runs : closed'[q] /\ target'[q] = u} =
              IF u = t THEN Ending[t] \cup {jobs[t]} ELSE Ending[u]
      BY <1>1, <2>1, <3>1, <3>2 DEF Ending, Live
    <3>4. QED
      BY <3>3 DEF Ending
  <2>3. Open[t] \notin {Nil, list[t]}
    BY <1>0, <1>4, <2>1 DEF Open, ApplyTarget, ToApply, TypeOK, Live
  <2>4. jobs[t] \in Runs \ Ending[t]
    BY <2>1 DEF Ending, Live
  <2>5. Pool!Replace(t, c)
    BY <1>2, <2>2, <2>3, <2>4 DEF Pool!Replace, Open, Ending
  <2>6. QED
    BY <1>1, <2>5 DEF Pool!Next
<1>5. QED
  BY <1>3, <1>4

LEMMA RemovePool ==
  ASSUME IInv, NEW t \in Targets, RemoveTarget(t)
  PROVE  Pool!Next
<1> USE CheckerAssumption
<1>0. TypeOK /\ JobsAgree
  BY DEF IInv
<1>1. /\ jobs[t] # Nil /\ jobs[t] \in Live /\ target[jobs[t]] = t
      /\ ~closed[jobs[t]]
  BY <1>0 DEF RemoveTarget, ToRemove, JobsAgree
<1>2. Open' = [Open EXCEPT ![t] = Nil]
  BY <1>0 DEF Open, RemoveTarget, TypeOK
<1>3. Ending' = [Ending EXCEPT ![t] = @ \cup {jobs[t]}]
  <2>1. \A q \in Runs : closed'[q] <=> closed[q] \/ q = jobs[t]
    BY <1>0, <1>1 DEF RemoveTarget, TypeOK, Live
  <2>2. target' = target
    BY DEF RemoveTarget
  <2>3. QED
    BY <1>1, <2>1, <2>2 DEF Ending, Live
<1>4. Open[t] # Nil /\ jobs[t] \in Runs \ Ending[t]
  BY <1>0, <1>1 DEF Open, Ending, TypeOK, Live
<1>5. Pool!Replace(t, Nil)
  BY <1>2, <1>3, <1>4 DEF Pool!Replace, Open, Ending
<1>6. QED
  BY <1>5 DEF Pool!Next

\* Stop closes every job's channel.
LEMMA StopPool ==
  ASSUME IInv, CloseJobs
  PROVE  Pool!Next
<1> USE CheckerAssumption
<1>0. TypeOK /\ JobsAgree
  BY DEF IInv
<1> DEFINE told == [t \in Targets |-> IF jobs[t] = Nil THEN {} ELSE {jobs[t]}]
<1>1. \A t \in Targets : jobs[t] # Nil =>
        jobs[t] \in Runs /\ target[jobs[t]] = t /\ ~closed[jobs[t]]
  BY <1>0 DEF JobsAgree, Live
<1>2. told \in [Targets -> SUBSET Runs]
  BY <1>1
<1>3. \A t \in Targets : told[t] \cap Ending[t] = {}
  BY <1>1 DEF Ending
<1>4. \A t \in Targets :
        IF Open[t] = Nil THEN told[t] = {} ELSE \E r \in Runs : told[t] = {r}
  BY <1>0, <1>1 DEF Open, TypeOK, JobsAgree
<1>5. Open' = [t \in Targets |-> Nil]
  BY DEF Open, CloseJobs
<1>6. Ending' = [t \in Targets |-> Ending[t] \cup told[t]]
  <2>1. \A r \in Runs :
          closed'[r] <=> closed[r] \/ \E t \in Targets : jobs[t] = r
    BY <1>0 DEF CloseJobs, TypeOK
  <2>2. target' = target
    BY DEF CloseJobs
  <2>3. \A t \in Targets :
          {r \in Runs : closed'[r] /\ target[r] = t} = Ending[t] \cup told[t]
    <3> SUFFICES ASSUME NEW t \in Targets, NEW r
                 PROVE  r \in Runs /\ closed'[r] /\ target[r] = t
                          <=> r \in Ending[t] \cup told[t]
      OBVIOUS
    <3>1. r \in told[t] <=> r \in Runs /\ jobs[t] = r
      BY <1>1, CheckerAssumption
    <3>2. r \in Ending[t] <=> r \in Runs /\ closed[r] /\ target[r] = t
      BY DEF Ending
    <3>3. \A u \in Targets : r \in Runs /\ jobs[u] = r => target[r] = u
      BY <1>1, CheckerAssumption
    <3>4. QED
      BY <2>1, <3>1, <3>2, <3>3
  <2>4. QED
    BY <2>2, <2>3 DEF Ending
<1>7. Pool!StopAll
  <2> HIDE DEF told
  <2>1. QED
    BY <1>2, <1>3, <1>4, <1>5, <1>6 DEF Pool!StopAll, Open, Ending
<1>8. QED
  BY <1>7 DEF Pool!Next

LEMMA ExitPool ==
  ASSUME IInv, NEW r \in Runs, LoopExit(r)
  PROVE  Pool!Next
<1> USE CheckerAssumption
<1>0. TypeOK /\ JobsAgree
  BY DEF IInv
<1>1. target[r] \in Targets /\ closed[r] /\ \A t \in Targets : jobs[t] # r
  BY <1>0 DEF LoopExit, TypeOK, JobsAgree, Live
<1> PICK u \in Targets : u = target[r]
  BY <1>1
<1>2. Open' = Open
  BY <1>0, <1>1 DEF Open, LoopExit, TypeOK
<1>3. Ending' = [Ending EXCEPT ![u] = @ \ {r}]
  <2>1. \A q \in Runs : closed'[q] <=> closed[q] /\ q # r
    BY <1>0 DEF LoopExit, TypeOK
  <2>2. \A q \in Runs : q # r => target'[q] = target[q]
    BY <1>0 DEF LoopExit, TypeOK
  <2>3. QED
    BY <2>1, <2>2 DEF Ending
<1>4. r \in Ending[u]
  BY <1>1 DEF Ending
<1>5. Pool!End(u, r)
  BY <1>2, <1>3, <1>4 DEF Pool!End, Open, Ending
<1>6. QED
  BY <1>5 DEF Pool!Next

\* Steps that change neither the jobs nor a loop's copies.
LEMMA KeepPool ==
  ASSUME UNCHANGED <<jobs, target, conf, closed>>
  PROVE  UNCHANGED Pool!vars
BY DEF Pool!vars

LEMMA NextPool == IInv /\ [Next]_vars => [Pool!Next]_(Pool!vars)
<1> SUFFICES ASSUME IInv, [Next]_vars, ~Pool!Next PROVE UNCHANGED Pool!vars
  OBVIOUS
<1>1. CASE FetchTargets \/ LockJobs \/ SyncDone \/ FetchFails \/ SyncExit
  BY <1>1, KeepPool
  DEF FetchTargets, LockJobs, SyncDone, FetchFails, SyncExit, loopVars
<1>2. CASE CloseStopSync \/ \E t \in Targets : EditPortal(t)
  BY <1>2, KeepPool DEF CloseStopSync, EditPortal, loopVars
<1>3. ASSUME NEW r \in Runs, CheckStep(r) PROVE UNCHANGED Pool!vars
  BY <1>3, KeepPool DEF CheckStep, CheckTarget, SendReport, Tick
<1>4. CASE UNCHANGED vars
  BY <1>4, KeepPool DEF vars, loopVars
<1>5. QED
  BY <1>1, <1>2, <1>3, <1>4, ApplyPool, RemovePool, StopPool, ExitPool
  DEF Next, SyncStep

\* The checker's jobs map, its stop channels and its loops behave as a job
\* pool, whatever the portal lists and whenever Stop comes.
THEOREM PoolImplemented == Spec => ImplementsJobPool
<1>1. Init => Pool!Init
  BY InitPool
<1>2. IInv /\ [Next]_vars => [Pool!Next]_(Pool!vars)
  BY NextPool
<1>3. QED
  BY <1>1, <1>2, Inductive, PTL DEF Spec, ImplementsJobPool, Pool!Spec
-----------------------------------------------------------------------------
(* The safe halves of ListSettles and ClosedLoopsEnd.                      *)

\* The portal lists t with configuration c, or not at all, and main() is up.
Wanted(t, c) == main = "running" /\ portal[t] = c

Watched(t, c) == {conf[r] : r \in LoopsOf(t)} = {c} \ {Nil}

\* A sync has done for t what the list asks for, and no list that says anything
\* else has been fetched and waits to be applied.
Settled(t, c) ==
  /\ Wanted(t, c)
  /\ sync \in {"fetched", "apply"} => list[t] = c
  /\ LoopsOf(t) = {jobs[t]} \ {Nil}
  /\ IF c = Nil THEN jobs[t] = Nil ELSE jobs[t] # Nil /\ conf[jobs[t]] = c

LEMMA SettledIsWatched ==
  ASSUME NEW t \in Targets, NEW c \in Configs \cup {Nil}, Settled(t, c)
  PROVE  Watched(t, c)
<1>1. CASE c = Nil
  BY <1>1 DEF Settled, Watched
<1>2. CASE c # Nil
  BY <1>2 DEF Settled, Watched
<1>3. QED
  BY <1>1, <1>2

\* What Settled reads of t, besides what the portal lists.
LEMMA KeepSettled ==
  ASSUME NEW t \in Targets, NEW c \in Configs \cup {Nil},
         Settled(t, c), Wanted(t, c)',
         sync' \in {"fetched", "apply"} => list'[t] = c,
         LoopsOf(t)' = LoopsOf(t), jobs'[t] = jobs[t],
         jobs[t] # Nil => conf'[jobs[t]] = conf[jobs[t]]
  PROVE  Settled(t, c)'
BY DEF Settled

LEMMA SettledStep ==
  ASSUME NEW t \in Targets, NEW c \in Configs \cup {Nil}, IInv, [Next]_vars,
         Settled(t, c), Wanted(t, c)'
  PROVE  Settled(t, c)'
<1>0. /\ TypeOK /\ JobsAgree
      /\ sync \in {"fetched", "apply"} => list[t] = c
      /\ jobs[t] # Nil => jobs[t] \in Live /\ ~closed[jobs[t]]
  BY DEF IInv, JobsAgree, Settled
<1>1. ASSUME UNCHANGED <<jobs, target, conf>>, UNCHANGED Live,
             sync' \in {"fetched", "apply"} => list'[t] = c
      PROVE  Settled(t, c)'
  <2>1. LoopsOf(t)' = LoopsOf(t)
    BY <1>1 DEF LoopsOf
  <2>2. QED
    BY <1>1, <2>1, KeepSettled
<1>2. CASE \/ LockJobs \/ SyncDone \/ FetchFails \/ SyncExit \/ CloseStopSync
           \/ UNCHANGED vars \/ \E u \in Targets : EditPortal(u)
  BY <1>0, <1>1, <1>2
  DEF LockJobs, SyncDone, SyncReturns, FetchFails, SyncExit, CloseStopSync,
      EditPortal, vars, loopVars, Live
<1>3. CASE FetchTargets
  BY <1>1, <1>3 DEF FetchTargets, loopVars, Live, Settled, Wanted
<1>4. ~CloseJobs
  BY DEF CloseJobs, Settled, Wanted
<1>5. ASSUME NEW u \in Targets, NEW r \in Runs, ApplyTarget(u, r)
      PROVE  Settled(t, c)'
  <2>1. /\ sync = "apply" /\ u \in ToApply
        /\ pc[r] = "free" /\ target'[r] = u
        /\ \A v \in Targets \ {u} : jobs'[v] = jobs[v]
        /\ \A q \in Runs \ {r} : /\ pc'[q] = pc[q]
                                 /\ target'[q] = target[q] /\ conf'[q] = conf[q]
        /\ UNCHANGED <<sync, list>>
    BY <1>0, <1>5 DEF ApplyTarget, TypeOK
  <2>2. u # t
    BY <1>0, <2>1 DEF Settled, ToApply
  <2>3. r \notin Live /\ \A q \in Runs \ {r} : q \in Live' <=> q \in Live
    BY <2>1 DEF Live
  <2>4. LoopsOf(t)' = LoopsOf(t)
    BY <2>1, <2>2, <2>3 DEF LoopsOf, Live
  <2>5. jobs[t] # Nil => jobs[t] \in Runs \ {r}
    BY <1>0, <2>3 DEF Live
  <2>6. QED
    BY <1>0, <2>1, <2>2, <2>4, <2>5, KeepSettled
<1>6. ASSUME NEW u \in Targets, RemoveTarget(u) PROVE Settled(t, c)'
  <2>1. /\ sync = "apply" /\ jobs[u] # Nil /\ list[u] = Nil
        /\ \A v \in Targets \ {u} : jobs'[v] = jobs[v]
        /\ UNCHANGED <<sync, list, pc, target, conf>>
    BY <1>0, <1>6 DEF RemoveTarget, ToRemove, TypeOK
  <2>2. u # t
    BY <1>0, <2>1 DEF Settled
  <2>3. LoopsOf(t)' = LoopsOf(t)
    BY <2>1 DEF LoopsOf, Live
  <2>4. QED
    BY <1>0, <2>1, <2>2, <2>3, KeepSettled
<1>7. ASSUME NEW r \in Runs, CheckStep(r) PROVE Settled(t, c)'
  <2>1. /\ UNCHANGED <<sync, list, jobs, target, conf>>
        /\ pc[r] # "free" /\ pc'[r] # "free"
        /\ \A q \in Runs \ {r} : pc'[q] = pc[q]
    BY <1>0, <1>7 DEF CheckStep, CheckTarget, SendReport, Tick, TypeOK
  <2>2. UNCHANGED Live
    BY <2>1 DEF Live
  <2>3. QED
    BY <1>0, <1>1, <2>1, <2>2
<1>8. ASSUME NEW r \in Runs, LoopExit(r) PROVE Settled(t, c)'
  <2>1. /\ closed[r] /\ UNCHANGED <<sync, list, jobs>>
        /\ pc[r] # "free" /\ pc'[r] = "free"
        /\ \A q \in Runs \ {r} : /\ pc'[q] = pc[q]
                                 /\ target'[q] = target[q] /\ conf'[q] = conf[q]
    BY <1>0, <1>8 DEF LoopExit, TypeOK
  <2>2. r # jobs[t] /\ r \notin LoopsOf(t)
    BY <1>0, <2>1, CheckerAssumption DEF Settled
  <2>3. LoopsOf(t)' = LoopsOf(t)
    BY <2>1, <2>2 DEF LoopsOf, Live
  <2>4. jobs[t] # Nil => jobs[t] \in Runs \ {r}
    BY <1>0, <2>2 DEF Live
  <2>5. QED
    BY <1>0, <2>1, <2>3, <2>4, KeepSettled
<1>9. QED
  BY <1>2, <1>3, <1>4, <1>5, <1>6, <1>7, <1>8 DEF Next, SyncStep

\* When a sync has settled t, exactly what the portal lists is being checked for
\* as long as the portal lists it and main() is up, also while newer lists are
\* fetched and applied: what ListSettles needs of fairness is only that a sync
\* gets there once.
THEOREM SettledForGood ==
  ASSUME NEW t \in Targets, NEW c \in Configs \cup {Nil}
  PROVE  Spec => [](Settled(t, c) /\ []Wanted(t, c) => []Watched(t, c))
<1>1. IInv /\ [Next]_vars /\ Settled(t, c) /\ Wanted(t, c)' => Settled(t, c)'
  BY SettledStep
<1>2. Settled(t, c) => Watched(t, c)
  BY SettledIsWatched
<1>3. QED
  BY <1>1, <1>2, Inductive, PTL DEF Spec

\* Stop has emptied the jobs map and no sync is left that could fill it again.
Emptied == main = "stopped" /\ sync = "gone" /\ jobs = NoList

LEMMA EmptiedStep ==
  ASSUME IInv, [Next]_vars, Emptied PROVE Emptied' /\ Live' \subseteq Live
<1> USE DEF Emptied
<1>1. CASE UNCHANGED vars \/ \E t \in Targets : EditPortal(t)
  BY <1>1 DEF EditPortal, vars, loopVars, Live
<1>2. ~SyncStep /\ ~FetchFails /\ ~SyncExit /\ ~CloseStopSync /\ ~CloseJobs
  BY DEF SyncStep, FetchTargets, LockJobs, SyncDone, RemoveTarget, ApplyTarget,
         FetchFails, SyncExit, CloseStopSync, CloseJobs
<1>3. ASSUME NEW r \in Runs, CheckStep(r) \/ LoopExit(r)
      PROVE  Emptied' /\ Live' \subseteq Live
  BY <1>3 DEF CheckStep, CheckTarget, SendReport, Tick, LoopExit, Live, IInv,
              TypeOK
<1>4. QED
  BY <1>1, <1>2, <1>3 DEF Next

\* Once Stop has emptied the jobs map and the synchronizing goroutine has gone,
\* every loop there is has been told to stop, none is ever started again, and
\* those that have ended stay ended: what ClosedLoopsEnd needs of fairness is
\* only that a loop told to stop takes its exit.
THEOREM EmptiedForGood ==
  Spec => [][Emptied => /\ \A r \in Live : closed[r]
                        /\ Emptied' /\ Live' \subseteq Live]_vars
<1>1. ASSUME IInv, Emptied PROVE \A r \in Live : closed[r]
  <2>1. \A r \in Live : target[r] \in Targets /\ r # Nil
    BY <1>1, CheckerAssumption DEF IInv, TypeOK, Live
  <2>2. QED
    BY <1>1, <2>1 DEF IInv, JobsAgree, Emptied, NoList
<1>2. IInv /\ [Next]_vars =>
        [Emptied => /\ \A r \in Live : closed[r]
                    /\ Emptied' /\ Live' \subseteq Live]_vars
  BY <1>1, EmptiedStep
<1>3. QED
  BY <1>2, Inductive, PTL DEF Spec
=============================================================================
