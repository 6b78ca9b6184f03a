------------------------------ MODULE Shutdown ------------------------------
(***************************************************************************)
(* How the server ends (the last part of main(), server/main.go), composed *)
(* with the requests of ConnPool: a signal, httpServer.Shutdown with its   *)
(* 10 seconds, the deferred Stop of the health runner, store.Close and the *)
(* return of main(), which ends whatever is still running.  The check      *)
(* loops and the cleaner are stopped by none of these steps: Stop closes   *)
(* one channel and waits for nobody, and the cleaner's ticker falls silent.*)
(***************************************************************************)
EXTENDS ConnPool

CONSTANT Background     \* requests of check loops and of the cleaner

ASSUME ShutdownAssumption == Background \subseteq Writers

VARIABLES
  main,         \* serving, draining (Shutdown), closing (deferred calls),
                \*   closed (store.Close is done), exited
  timedOut      \* Shutdown gave up on its handlers

mainVars == <<main, timedOut>>
shutdownVars == <<vars, mainVars>>

Handlers == Reqs \ Background

ShutdownInit == Init /\ main = "serving" /\ timedOut = FALSE

-----------------------------------------------------------------------------
(* main().                                                                 *)

\* SIGINT or SIGTERM: Shutdown closes the listeners.
Signal ==
  /\ main = "serving"
  /\ main' = "draining"
  /\ UNCHANGED <<vars, timedOut>>

\* Shutdown returns nil: the last handler has answered.
Drained ==
  /\ main = "draining"
  /\ \A q \in Handlers : pc[q] = "idle"
  /\ main' = "closing"
  /\ UNCHANGED <<vars, timedOut>>

\* The context's 10 seconds are over: an error is logged, main() goes on.
DrainTimeout ==
  /\ main = "draining"
  /\ main' = "closing"
  /\ timedOut' = TRUE
  /\ UNCHANGED vars

\* The deferred healthRunner.Stop and store.Close: the idle connections are
\* closed, those in use when they are returned, and Close waits for none.
CloseStore ==
  /\ main = "closing"
  /\ main' = "closed"
  /\ UNCHANGED <<vars, timedOut>>

Exit ==
  /\ main = "closed"
  /\ main' = "exited"
  /\ UNCHANGED <<vars, timedOut>>

-----------------------------------------------------------------------------
(* The requests, until the process is gone.                                *)

\* Shutdown closes the listeners; a connection accepted before may still bring
\* its request, for as long as Shutdown waits for it or after it gave up.  The
\* check loops and the cleaner start requests until the end.
StartRequest(q) ==
  /\ q \in Handlers => main \in {"serving", "draining"} \/ timedOut
  /\ Start(q)

\* The pool gives no connection any more when the store is closed.
Acquire(q) ==
  /\ main # "closed"
  /\ Connect(q) \/ (q \in Readers /\ QueryRow(q))

\* "sql: database is closed", also for those that are waiting already; a nested
\* reader closes its rows and returns.
Refused(q) ==
  /\ main = "closed"
  /\ \/ /\ pc[q] = "connect"
        /\ pc' = [pc EXCEPT ![q] = "idle"]
        /\ UNCHANGED <<pool, outer, inner>>
     \/ /\ pc[q] = "nested"
        /\ End(q)
  /\ UNCHANGED data

\* A step of a request, while the process lives.
Alive(step) == main # "exited" /\ step /\ UNCHANGED mainVars

Work(q) == (q \in Readers /\ Read(q)) \/ (q \in Writers /\ Write(q))

Proceed(q) == Acquire(q) \/ Refused(q) \/ Work(q)

WindDown == Drained \/ DrainTimeout \/ CloseStore \/ Exit

ShutdownNext ==
  \/ Signal
  \/ WindDown
  \/ \E q \in Reqs : Alive(StartRequest(q) \/ Proceed(q))

ShutdownSpec == ShutdownInit /\ [][ShutdownNext]_shutdownVars

(* Queries and transactions take finite time over finitely many rows; the   *)
(* pool hands a returned connection to a request that waits for one, so     *)
(* that none is passed over for ever.  The timeout bounds the drain, and    *)
(* main() runs on to its end.                                               *)
ShutdownFairness ==
  /\ \A q \in Reqs : SF_shutdownVars(Alive(Proceed(q)))
  /\ \A q \in Readers : SF_shutdownVars(Alive(RowsDone(q)))
  /\ WF_shutdownVars(WindDown)

FairShutdownSpec == ShutdownSpec /\ ShutdownFairness

-----------------------------------------------------------------------------
(* Properties                                                              *)

\* A request that waits for the pool ends, before the process or with it.
RequestsEndOrExit ==
  \A q \in Reqs : pc[q] = "connect" ~> (pc[q] = "idle" \/ main = "exited")
=============================================================================
