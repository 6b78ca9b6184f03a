------------------------------ MODULE ConnPool ------------------------------
(***************************************************************************)
(* How the requests of the server share the connections of SQLiteStore     *)
(* (server/db.go): a pool that opens at most MaxOpen connections and keeps *)
(* them, with the pragmas set on the one connection that existed when      *)
(* NewSQLiteStore ran.  The pool is database/sql and the locking is        *)
(* SQLite's, both seen here only as db.go uses them.                       *)
(*                                                                         *)
(* A nested reader (GetHealthTargetsStatus, GetLatestMetrics) keeps the    *)
(* connection of its outer query while each row runs queries of its own; a *)
(* writer needs one connection and SQLite's only write lock.               *)
(***************************************************************************)
EXTENDS Naturals, FiniteSets

CONSTANTS
  MaxOpen,      \* SetMaxOpenConns and SetMaxIdleConns: 10 in db.go:29
  Readers,      \* nested readers running at the same time
  Writers,      \* writers running at the same time: checks, handlers, cleaner
  Targets,      \* health_targets rows at the start
  None          \* no connection, no writer

ASSUME PoolAssumption ==
  /\ MaxOpen \in Nat \ {0}
  /\ IsFiniteSet(Readers) /\ IsFiniteSet(Writers)
  /\ Readers \cap Writers = {}
  /\ None \notin Nat \cup Readers \cup Writers

VARIABLES
  opened,       \* connections opened so far, a subset of 1 .. MaxOpen
  free,         \* those lying idle in the pool
  outer,        \* outer[q]: the connection of q's statement or outer query
  inner,        \* inner[q]: the connection of a reader's query for one row
  pc,           \* pc[q]: where request q is
  lock,         \* the writer that holds SQLite's write lock
  rows,         \* ids in health_targets
  logs          \* ids that health_logs has rows for

vars == <<opened, free, outer, inner, pc, lock, rows, logs>>
pool == <<opened, free>>
data == <<lock, rows, logs>>

Reqs == Readers \cup Writers
Conns == 1 .. MaxOpen

\* foreign_keys and busy_timeout belong to a connection: they were set on the
\* first one and no later one gets them.
Tuned(c) == c = 1

Init ==
  /\ opened = {1}
  /\ free = {1}
  /\ outer = [q \in Reqs |-> None]
  /\ inner = [q \in Reqs |-> None]
  /\ pc = [q \in Reqs |-> "idle"]
  /\ lock = None
  /\ rows = Targets
  /\ logs = {}

-----------------------------------------------------------------------------
(* The pool.                                                               *)

\* An idle connection, or else a new one; a request waits for neither.
Take(c) ==
  \/ /\ c \in free
     /\ free' = free \ {c}
     /\ UNCHANGED opened
  \/ /\ free = {}
     /\ c \in Conns \ opened
     /\ opened' = opened \cup {c}
     /\ UNCHANGED free

Release(c) ==
  /\ free' = free \cup {c}
  /\ UNCHANGED opened

Start(q) ==
  /\ pc[q] = "idle"
  /\ pc' = [pc EXCEPT ![q] = "connect"]
  /\ UNCHANGED <<pool, outer, inner, data>>

Connect(q) ==
  /\ pc[q] = "connect"
  /\ \E c \in Conns : Take(c) /\ outer' = [outer EXCEPT ![q] = c]
  /\ pc' = [pc EXCEPT ![q] = IF q \in Readers THEN "rows" ELSE "write"]
  /\ UNCHANGED <<inner, data>>

EndReturnsInner(q) ==
  /\ Release(inner[q])
  /\ outer' = [outer EXCEPT ![q] = None]
  /\ pc' = [pc EXCEPT ![q] = "idle"]
  /\ UNCHANGED inner

\* The request returns its connection and is done.
End(q) ==
  /\ Release(outer[q])
  /\ outer' = [outer EXCEPT ![q] = None]
  /\ pc' = [pc EXCEPT ![q] = "idle"]
  /\ UNCHANGED inner

-----------------------------------------------------------------------------
(* A nested reader.                                                        *)

\* rows.Next() finds a row; its query needs a second connection.
NextRow(q) ==
  /\ pc[q] = "rows"
  /\ pc' = [pc EXCEPT ![q] = "nested"]
  /\ UNCHANGED <<pool, outer, inner, data>>

QueryRow(q) ==
  /\ pc[q] = "nested"
  /\ \E c \in Conns : Take(c) /\ inner' = [inner EXCEPT ![q] = c]
  /\ pc' = [pc EXCEPT ![q] = "row"]
  /\ UNCHANGED <<outer, data>>

RowDoneNotClosed(q) ==
  /\ pc[q] = "row"
  /\ inner' = [inner EXCEPT ![q] = None]
  /\ pc' = [pc EXCEPT ![q] = "rows"]
  /\ UNCHANGED <<pool, outer, data>>

\* The row's query is scanned and closed.
RowDone(q) ==
  /\ pc[q] = "row"
  /\ Release(inner[q])
  /\ inner' = [inner EXCEPT ![q] = None]
  /\ pc' = [pc EXCEPT ![q] = "rows"]
  /\ UNCHANGED <<outer, data>>

\* No row is left, or a query failed: the deferred rows.Close().
RowsDone(q) ==
  /\ pc[q] = "rows"
  /\ End(q)
  /\ UNCHANGED data

-----------------------------------------------------------------------------
(* A writer.                                                               *)

Lock(q) ==
  /\ pc[q] = "write" /\ lock = None
  /\ lock' = q
  /\ pc' = [pc EXCEPT ![q] = "locked"]
  /\ UNCHANGED <<pool, outer, inner, rows, logs>>

\* SQLITE_BUSY: at once without busy_timeout, else after 5 seconds of waiting.
BusyAtOnce(q) ==
  /\ pc[q] = "write" /\ lock # None /\ ~Tuned(outer[q])
  /\ End(q)
  /\ UNCHANGED data

BusyTimeout(q) ==
  /\ pc[q] = "write" /\ lock # None /\ Tuned(outer[q])
  /\ End(q)
  /\ UNCHANGED data

\* SaveHealthLog; the foreign key is checked only on a tuned connection.
SaveHealthLog(q, t) ==
  /\ pc[q] = "locked"
  /\ logs' = IF t \in rows \/ ~Tuned(outer[q]) THEN logs \cup {t} ELSE logs
  /\ lock' = None
  /\ End(q)
  /\ UNCHANGED rows

\* DeleteHealthTarget; the cascade happens only on a tuned connection.
DeleteHealthTarget(q, t) ==
  /\ pc[q] = "locked"
  /\ t \in rows
  /\ rows' = rows \ {t}
  /\ logs' = IF Tuned(outer[q]) THEN logs \ {t} ELSE logs
  /\ lock' = None
  /\ End(q)

OtherWriteNotRolledBack(q) ==
  /\ pc[q] = "locked"
  /\ lock' = None
  /\ outer' = [outer EXCEPT ![q] = None]
  /\ pc' = [pc EXCEPT ![q] = "idle"]
  /\ UNCHANGED <<pool, inner, rows, logs>>

\* Any other statement or transaction that writes, committed or rolled back.
OtherWrite(q) ==
  /\ pc[q] = "locked"
  /\ lock' = None
  /\ End(q)
  /\ UNCHANGED <<rows, logs>>

-----------------------------------------------------------------------------
Read(q) == NextRow(q) \/ RowDone(q) \/ RowsDone(q)

Write(q) ==
  \/ Lock(q) \/ BusyAtOnce(q) \/ BusyTimeout(q) \/ OtherWrite(q)
  \/ \E t \in Targets : SaveHealthLog(q, t) \/ DeleteHealthTarget(q, t)

Next ==
  \/ \E q \in Reqs : Start(q) \/ Connect(q)
  \/ \E q \in Readers : Read(q) \/ QueryRow(q)
  \/ \E q \in Writers : Write(q)

Spec == Init /\ [][Next]_vars

-----------------------------------------------------------------------------
(* Properties                                                              *)

\* Where a request can be in its handler, and which connections and rows there
\* are: at most one writer holds SQLite's write lock.
TypeOK ==
  /\ opened \in SUBSET Conns
  /\ free \in SUBSET opened
  /\ outer \in [Reqs -> opened \cup {None}]
  /\ inner \in [Reqs -> opened \cup {None}]
  /\ pc \in [Reqs -> {"idle", "connect", "rows", "nested", "row", "write",
                      "locked"}]
  /\ lock \in Writers \cup {None}
  /\ rows \in SUBSET Targets
  /\ logs \in SUBSET Targets

Held == {outer[q] : q \in Reqs} \cup {inner[q] : q \in Reqs}

\* No connection is lost and none is shared: each opened connection is idle or
\* is held once, and a request holds exactly those its place in the code needs.
ConnsAccounted ==
  /\ free \cap Held = {}
  /\ opened = free \cup (Held \ {None})
  /\ \A q1, q2 \in Reqs :
       /\ outer[q1] # None => outer[q1] # inner[q2]
       /\ q1 # q2 /\ outer[q1] # None => outer[q1] # outer[q2]
       /\ q1 # q2 /\ inner[q1] # None => inner[q1] # inner[q2]
  /\ \A q \in Reqs :
       /\ outer[q] = None <=> pc[q] \in {"idle", "connect"}
       /\ inner[q] # None <=> pc[q] = "row"
       /\ lock = q <=> pc[q] = "locked"

\* Requests never all wait for connections that only they could return, the
\* deadlock that db.go:28 says the pool's limits prevent: while one waits, a
\* connection can be had or some request is still moving towards its end.
NotWedged ==
  (\E q \in Reqs : pc[q] \in {"connect", "nested"}) =>
    \/ free # {} \/ opened # Conns
    \/ \E q \in Reqs : pc[q] \in {"rows", "row", "write", "locked"}

\* Deleting a target deletes its logs (docs/03_db_spec.md:13).
NoOrphanLogs == logs \subseteq rows
=============================================================================
