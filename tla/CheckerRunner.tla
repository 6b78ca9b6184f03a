---------------------------- MODULE CheckerRunner ---------------------------
(***************************************************************************)
(* The standalone checker, checker/runner.go: it polls a portal for the    *)
(* list of targets and runs one check loop per target.  Unlike the server's*)
(* HealthRunner it fetches the list outside jobsMutex, its Stop closes the *)
(* jobs itself instead of leaving that to the synchronizing goroutine, and *)
(* the portal may change any target at any time.                           *)
(***************************************************************************)
EXTENDS Naturals, FiniteSets

CONSTANTS
  Targets,      \* target ids of the portal
  Configs,      \* URL, interval and timeout, as syncTargets compares them
  Runs,         \* check-loop goroutines that exist at the same time
  Nil,          \* not on the list, no job, no loop
  MaxEdits      \* bound on changes of the portal's list

ASSUME CheckerAssumption ==
  /\ Nil \notin Targets \cup Configs \cup Runs
  /\ MaxEdits \in Nat

VARIABLES
  portal,       \* portal[t]: the portal's entry for t, or Nil
  main,         \* main(): starting, running, closing (inside Stop), stopped
  sync,         \* syncTargets: idle, apply (holds jobsMutex), fetched, gone
  list,         \* list[t]: fetchedTargets of the syncTargets under way
  jobs,         \* jobs[t]: the loop of t's job, or Nil
  pc,           \* pc[r]: free, check, report, wait
  target,       \* target[r], conf[r]: the loop's copy of its Target
  conf,
  closed,       \* closed[r]: the job's StopCh is closed
  edits

loopVars == <<pc, target, conf, closed>>
vars == <<portal, main, sync, list, jobs, loopVars, edits>>

Live == {r \in Runs : pc[r] # "free"}
LoopsOf(t) == {r \in Live : target[r] = t}

\* The loops as JobPool sees them, by configuration and by who was told to stop.
Pool == INSTANCE JobPool WITH
  up <- TRUE,
  open <- [t \in Targets |-> IF jobs[t] = Nil THEN Nil ELSE conf[jobs[t]]],
  ending <- [t \in Targets |-> {r \in Runs : closed[r] /\ target[r] = t}]

NoList == [t \in Targets |-> Nil]

Init ==
  /\ portal \in [Targets -> Configs \cup {Nil}]
  /\ main = "starting"
  /\ sync = "idle"
  /\ list = NoList
  /\ jobs = [t \in Targets |-> Nil]
  /\ pc = [r \in Runs |-> "free"]
  /\ target = [r \in Runs |-> Nil]
  /\ conf = [r \in Runs |-> Nil]
  /\ closed = [r \in Runs |-> FALSE]
  /\ edits = 0

\* A user of the portal adds, changes or removes a target.
EditPortal(t) ==
  /\ edits < MaxEdits
  /\ \E c \in (Configs \cup {Nil}) \ {portal[t]} :
       portal' = [portal EXCEPT ![t] = c]
  /\ edits' = edits + 1
  /\ UNCHANGED <<main, sync, list, jobs, loopVars>>

-----------------------------------------------------------------------------
(* syncTargets, first in main() and then in a goroutine on every tick.     *)

\* syncTargets returns; the first time, Start goes on to spawn the goroutine.
SyncReturns ==
  /\ sync' = "idle"
  /\ main' = IF main = "starting" THEN "running" ELSE main

\* The portal answers with its list; jobsMutex is not held yet.  The select of
\* the goroutine may take the ticker even when stopSync is closed.
FetchTargets ==
  /\ sync = "idle"
  /\ list' = portal
  /\ sync' = "fetched"
  /\ UNCHANGED <<portal, main, jobs, loopVars, edits>>

\* Unreachable, refused or undecodable: nothing changes until the next tick.
FetchFails ==
  /\ sync = "idle" /\ main = "starting"
  /\ SyncReturns
  /\ UNCHANGED <<portal, list, jobs, loopVars, edits>>

\* jobsMutex.Lock(), which Stop holds while main is in "closing".
LockJobs ==
  /\ sync = "fetched" /\ main # "closing"
  /\ sync' = "apply"
  /\ UNCHANGED <<portal, main, list, jobs, loopVars, edits>>

ToApplyNewOnly == {t \in Targets : list[t] # Nil /\ jobs[t] = Nil}
ToApplyUnlisted == {t \in Targets :
  jobs[t] = Nil \/ conf[jobs[t]] # list[t]}

ToApply == {t \in Targets :
  list[t] # Nil /\ (jobs[t] = Nil \/ conf[jobs[t]] # list[t])}
ToRemove == {t \in Targets : jobs[t] # Nil /\ list[t] = Nil}

ApplyTargetKeepsOld(t, r) ==
  /\ sync = "apply"
  /\ t \in ToApply
  /\ pc[r] = "free"
  /\ jobs' = [jobs EXCEPT ![t] = r]
  /\ pc' = [pc EXCEPT ![r] = "check"]
  /\ target' = [target EXCEPT ![r] = t]
  /\ conf' = [conf EXCEPT ![r] = list[t]]
  /\ UNCHANGED <<portal, main, sync, list, closed, edits>>

\* One fetched target that is new or differs from its job: the old job's
\* channel is closed and a new job takes its place (startTargetJob).
ApplyTarget(t, r) ==
  /\ sync = "apply"
  /\ t \in ToApply
  /\ pc[r] = "free"
  /\ closed' = [q \in Runs |-> closed[q] \/ q = jobs[t]]
  /\ jobs' = [jobs EXCEPT ![t] = r]
  /\ pc' = [pc EXCEPT ![r] = "check"]
  /\ target' = [target EXCEPT ![r] = t]
  /\ conf' = [conf EXCEPT ![r] = list[t]]
  /\ UNCHANGED <<portal, main, sync, list, edits>>

\* The last loop of syncTargets: jobs that are no longer on the list.
RemoveTarget(t) ==
  /\ sync = "apply"
  /\ ToApply = {} /\ t \in ToRemove
  /\ closed' = [closed EXCEPT ![jobs[t]] = TRUE]
  /\ jobs' = [jobs EXCEPT ![t] = Nil]
  /\ UNCHANGED <<portal, main, sync, list, pc, target, conf, edits>>

SyncDone ==
  /\ sync = "apply"
  /\ ToApply = {} /\ ToRemove = {}
  /\ list' = NoList
  /\ SyncReturns
  /\ UNCHANGED <<portal, jobs, loopVars, edits>>

\* The goroutine's select takes stopSync.
SyncExit ==
  /\ sync = "idle" /\ main \in {"closing", "stopped"}
  /\ sync' = "gone"
  /\ UNCHANGED <<portal, main, list, jobs, loopVars, edits>>

-----------------------------------------------------------------------------
(* Stop, which waits for jobsMutex and not for the goroutine.              *)

CloseStopSync ==
  /\ main = "running"
  /\ main' = "closing"
  /\ UNCHANGED <<portal, sync, list, jobs, loopVars, edits>>

CloseJobs ==
  /\ main = "closing" /\ sync # "apply"
  /\ main' = "stopped"
  /\ closed' = [r \in Runs |->
                  closed[r] \/ \E t \in Targets : jobs[t] = r]
  /\ jobs' = [t \in Targets |-> Nil]
  /\ UNCHANGED <<portal, sync, list, pc, target, conf, edits>>

-----------------------------------------------------------------------------
(* A check loop.                                                           *)

\* checkAndReport: the request to the target, then the report to the portal;
\* a report that fails is logged and dropped.
CheckTarget(r) ==
  /\ pc[r] = "check"
  /\ pc' = [pc EXCEPT ![r] = "report"]
  /\ UNCHANGED <<portal, main, sync, list, jobs, target, conf, closed, edits>>

SendReportAgain(r) ==
  /\ pc[r] = "report"
  /\ pc' = [pc EXCEPT ![r] = "check"]
  /\ UNCHANGED <<portal, main, sync, list, jobs, target, conf, closed, edits>>

SendReport(r) ==
  /\ pc[r] = "report"
  /\ pc' = [pc EXCEPT ![r] = "wait"]
  /\ UNCHANGED <<portal, main, sync, list, jobs, target, conf, closed, edits>>

Tick(r) ==
  /\ pc[r] = "wait"
  /\ pc' = [pc EXCEPT ![r] = "check"]
  /\ UNCHANGED <<portal, main, sync, list, jobs, target, conf, closed, edits>>

LoopExit(r) ==
  /\ pc[r] = "wait" /\ closed[r]
  /\ pc' = [pc EXCEPT ![r] = "free"]
  /\ target' = [target EXCEPT ![r] = Nil]
  /\ conf' = [conf EXCEPT ![r] = Nil]
  /\ closed' = [closed EXCEPT ![r] = FALSE]
  /\ UNCHANGED <<portal, main, sync, list, jobs, edits>>

-----------------------------------------------------------------------------
SyncStep ==
  \/ FetchTargets \/ LockJobs \/ SyncDone
  \/ \E t \in Targets : RemoveTarget(t) \/ \E r \in Runs : ApplyTarget(t, r)

CheckStep(r) == CheckTarget(r) \/ SendReport(r) \/ Tick(r)

Next ==
  \/ \E t \in Targets : EditPortal(t)
  \/ SyncStep
  \/ FetchFails
  \/ SyncExit
  \/ CloseStopSync
  \/ CloseJobs
  \/ \E r \in Runs : CheckStep(r) \/ LoopExit(r)

Spec == Init /\ [][Next]_vars

(* Client timeouts bound every request and tickers keep ticking; a fetch    *)
(* succeeds now and then; a select with two ready channels takes each with  *)
(* probability 1/2, hence strong fairness for the branches that end a loop. *)
Fairness ==
  /\ WF_vars(SyncStep) /\ SF_vars(SyncExit) /\ WF_vars(CloseJobs)
  /\ \A r \in Runs : WF_vars(CheckStep(r)) /\ SF_vars(LoopExit(r))

FairSpec == Spec /\ Fairness

-----------------------------------------------------------------------------
(* Properties                                                              *)

\* The values that runner.go's fields, goroutines and loop copies may have; a
\* running loop always has a target and a configuration of its own.
TypeOK ==
  /\ portal \in [Targets -> Configs \cup {Nil}]
  /\ main \in {"starting", "running", "closing", "stopped"}
  /\ sync \in {"idle", "fetched", "apply", "gone"}
  /\ list \in [Targets -> Configs \cup {Nil}]
  /\ jobs \in [Targets -> Runs \cup {Nil}]
  /\ pc \in [Runs -> {"free", "check", "report", "wait"}]
  /\ target \in [Runs -> Targets \cup {Nil}]
  /\ conf \in [Runs -> Configs \cup {Nil}]
  /\ closed \in [Runs -> BOOLEAN]
  /\ edits \in Nat
  /\ \A r \in Live : target[r] \in Targets /\ conf[r] \in Configs

\* As in HealthRunner: a job has its own running loop, and a loop that nobody
\* has told to stop is one that the jobs map still knows, even when the list
\* changes between the fetch and the lock and when Stop comes in between.
JobsAgree ==
  /\ \A t \in Targets : jobs[t] # Nil =>
       jobs[t] \in Live /\ target[jobs[t]] = t /\ ~closed[jobs[t]]
  /\ \A r \in Live : ~closed[r] => jobs[target[r]] = r
  /\ \A r \in Runs \ Live : ~closed[r]

\* The checker handles its loops as a job pool must, although its lists are
\* fetched without the mutex and Stop closes jobs beside the synchronization.
ImplementsJobPool == Pool!Spec

\* While the checker runs, its loops end up being exactly those the portal's
\* list asks for, with the configuration it asks for.
ListSettles ==
  \A t \in Targets : \A c \in Configs \cup {Nil} :
    <>[](main = "running" /\ portal[t] = c)
      => <>[]({conf[r] : r \in LoopsOf(t)} = {c} \ {Nil})

\* "Stop safely terminates all target jobs and synchronization"
\* (runner.go:92), as far as the code keeps it: the synchronization ends, every
\* loop whose channel was closed, by Stop or by a sync, ends as well, and no
\* loop is left for good unless a list that was fetched before, or by the last
\* tick, was applied after Stop had emptied the jobs map.
ClosedLoopsEnd ==
  /\ \A r \in Runs : closed[r] ~> pc[r] = "free"
  /\ main = "stopped" ~> sync = "gone"
  /\ main = "stopped" /\ sync = "gone" /\ jobs = NoList ~> [](Live = {})
=============================================================================
