--------------------------- MODULE ConnPoolProofs ---------------------------
(***************************************************************************)
(* Proofs about ConnPool.tla and about Shutdown.tla, which composes it with *)
(* the end of main(), for any number of connections, readers and writers.  *)
(***************************************************************************)
EXTENDS Shutdown, FiniteSetTheorems, TLAPS

Places == {"idle", "connect", "rows", "nested", "row", "write", "locked"}

LEMMA NoneIsNoConn == None \notin Conns
BY PoolAssumption DEF Conns

\* What Take does, in either of its two cases.
LEMMA TakeEffect ==
  ASSUME TypeOK, NEW c \in Conns, Take(c)
  PROVE  /\ free' = free \ {c}
         /\ opened' = opened \cup {c}
         /\ c \in free \/ (free = {} /\ c \notin opened)
BY DEF Take, TypeOK

-----------------------------------------------------------------------------
(* Type correctness.                                                       *)

LEMMA StartType == ASSUME TypeOK, NEW q \in Reqs, Start(q) PROVE TypeOK'
BY DEF TypeOK, Start, pool, data

LEMMA ConnectType == ASSUME TypeOK, NEW q \in Reqs, Connect(q) PROVE TypeOK'
<1>1. PICK c \in Conns : Take(c) /\ outer' = [outer EXCEPT ![q] = c]
  BY DEF Connect
<1>2. free' = free \ {c} /\ opened' = opened \cup {c}
  BY <1>1, TakeEffect
<1>3. free' \in SUBSET opened' /\ opened' \in SUBSET Conns
  BY <1>2, TakeEffect, <1>1 DEF TypeOK, Take
<1>4. outer' \in [Reqs -> opened' \cup {None}]
  BY <1>1, <1>2 DEF TypeOK
<1>5. inner' \in [Reqs -> opened' \cup {None}]
  BY <1>2 DEF TypeOK, Connect
<1>6. pc' \in [Reqs -> Places]
  BY DEF TypeOK, Connect, Places
<1>7. QED
  BY <1>3, <1>4, <1>5, <1>6 DEF TypeOK, Connect, data, Places

LEMMA QueryRowType ==
  ASSUME TypeOK, NEW q \in Readers, QueryRow(q) PROVE TypeOK'
<1>1. PICK c \in Conns : Take(c) /\ inner' = [inner EXCEPT ![q] = c]
  BY DEF QueryRow
<1>2. free' = free \ {c} /\ opened' = opened \cup {c}
  BY <1>1, TakeEffect
<1>3. free' \in SUBSET opened' /\ opened' \in SUBSET Conns
  BY <1>1, <1>2 DEF TypeOK, Take
<1>4. inner' \in [Reqs -> opened' \cup {None}]
  BY <1>1, <1>2 DEF TypeOK, Reqs
<1>5. outer' \in [Reqs -> opened' \cup {None}]
  BY <1>2 DEF TypeOK, QueryRow
<1>6. pc' \in [Reqs -> Places]
  BY DEF TypeOK, QueryRow, Places
<1>7. QED
  BY <1>3, <1>4, <1>5, <1>6 DEF TypeOK, QueryRow, data, Places

\* The connection that ends a request must be one: Placed says it is.
Placed ==
  \A q \in Reqs :
    /\ outer[q] = None <=> pc[q] \in {"idle", "connect"}
    /\ inner[q] # None <=> pc[q] = "row"
    /\ lock = q <=> pc[q] = "locked"

LEMMA EndType ==
  ASSUME TypeOK, NEW q \in Reqs, outer[q] # None, End(q)
  PROVE  /\ opened' \in SUBSET Conns
         /\ free' \in SUBSET opened'
         /\ outer' \in [Reqs -> opened' \cup {None}]
         /\ inner' \in [Reqs -> opened' \cup {None}]
         /\ pc' \in [Reqs -> Places]
BY DEF End, Release, TypeOK, Places

LEMMA ReadType ==
  ASSUME TypeOK, Placed, NEW q \in Readers, Read(q) PROVE TypeOK'
<1>0. q \in Reqs
  BY DEF Reqs
<1>1. CASE NextRow(q)
  BY <1>1 DEF NextRow, TypeOK, pool, data
<1>2. CASE RowDone(q)
  <2>1. inner[q] \in opened
    BY <1>0, <1>2 DEF RowDone, TypeOK, Placed
  <2>2. QED
    BY <1>0, <1>2, <2>1 DEF RowDone, Release, TypeOK, data
<1>3. CASE RowsDone(q)
  BY <1>0, <1>3, EndType DEF RowsDone, TypeOK, Placed, Places, data
<1>4. QED
  BY <1>1, <1>2, <1>3 DEF Read

LEMMA WriteType ==
  ASSUME TypeOK, Placed, NEW q \in Writers, Write(q) PROVE TypeOK'
<1>0. q \in Reqs
  BY DEF Reqs
<1>1. CASE Lock(q)
  BY <1>1 DEF Lock, TypeOK, pool
<1>2. CASE BusyAtOnce(q) \/ BusyTimeout(q)
  BY <1>0, <1>2, EndType
  DEF BusyAtOnce, BusyTimeout, TypeOK, Placed, Places, data
<1>3. CASE OtherWrite(q)
  BY <1>0, <1>3, EndType DEF OtherWrite, TypeOK, Placed, Places
<1>4. ASSUME NEW t \in Targets, SaveHealthLog(q, t) PROVE TypeOK'
  <2>1. logs' \in SUBSET Targets
    BY <1>4 DEF SaveHealthLog, TypeOK
  <2>2. QED
    BY <1>0, <1>4, <2>1, EndType DEF SaveHealthLog, TypeOK, Placed, Places
<1>5. ASSUME NEW t \in Targets, DeleteHealthTarget(q, t) PROVE TypeOK'
  <2>1. logs' \in SUBSET Targets /\ rows' \in SUBSET Targets
    BY <1>5 DEF DeleteHealthTarget, TypeOK
  <2>2. QED
    BY <1>0, <1>5, <2>1, EndType
    DEF DeleteHealthTarget, TypeOK, Placed, Places
<1>6. QED
  BY <1>1, <1>2, <1>3, <1>4, <1>5 DEF Write

LEMMA TypeStep == TypeOK /\ Placed /\ [Next]_vars => TypeOK'
<1> SUFFICES ASSUME TypeOK, Placed, [Next]_vars PROVE TypeOK'
  OBVIOUS
<1>1. CASE UNCHANGED vars
  BY <1>1 DEF TypeOK, vars
<1>2. CASE Next
  BY <1>2, StartType, ConnectType, ReadType, QueryRowType, WriteType DEF Next
<1>3. QED
  BY <1>1, <1>2

-----------------------------------------------------------------------------
(* Where a request is decides what it holds.                               *)

\* Readers and writers keep to their own places.
Kinds ==
  \A q \in Reqs :
    /\ pc[q] \in {"rows", "nested", "row"} => q \in Readers
    /\ pc[q] \in {"write", "locked"} => q \in Writers

LEMMA PlacedStep ==
  TypeOK /\ Placed /\ Kinds /\ [Next]_vars => Placed' /\ Kinds'
<1> SUFFICES ASSUME TypeOK, Placed, Kinds, [Next]_vars PROVE Placed' /\ Kinds'
  OBVIOUS
<1> USE DEF TypeOK, Placed, Kinds
<1>1. CASE UNCHANGED vars
  BY <1>1 DEF vars
<1>2. ASSUME NEW q \in Reqs, Start(q) PROVE Placed' /\ Kinds'
  BY <1>2 DEF Start, data
<1>3. ASSUME NEW q \in Reqs, Connect(q) PROVE Placed' /\ Kinds'
  <2>1. PICK c \in Conns : outer' = [outer EXCEPT ![q] = c]
    BY <1>3 DEF Connect
  <2>2. QED
    BY <1>3, <2>1, NoneIsNoConn DEF Connect, data, Reqs
<1>4. ASSUME NEW q \in Readers, Read(q) PROVE Placed' /\ Kinds'
  <2>1. CASE NextRow(q)
    BY <2>1 DEF NextRow, data, Reqs
  <2>2. CASE RowDone(q)
    BY <2>2 DEF RowDone, data, Reqs
  <2>3. CASE RowsDone(q)
    BY <2>3 DEF RowsDone, End, data, Reqs
  <2>4. QED
    BY <1>4, <2>1, <2>2, <2>3 DEF Read
<1>5. ASSUME NEW q \in Readers, QueryRow(q) PROVE Placed' /\ Kinds'
  <2>1. PICK c \in Conns : inner' = [inner EXCEPT ![q] = c]
    BY <1>5 DEF QueryRow
  <2>2. QED
    BY <1>5, <2>1, NoneIsNoConn DEF QueryRow, data, Reqs
<1>6. ASSUME NEW q \in Writers, Write(q) PROVE Placed' /\ Kinds'
  <2>0. None \notin Reqs
    BY PoolAssumption DEF Reqs
  <2>1. CASE Lock(q)
    BY <2>0, <2>1 DEF Lock, Reqs
  <2>2. CASE BusyAtOnce(q) \/ BusyTimeout(q)
    BY <2>2 DEF BusyAtOnce, BusyTimeout, End, data, Reqs
  <2>3. ASSUME pc[q] = "locked", lock' = None, End(q)
        PROVE  Placed' /\ Kinds'
    BY <2>0, <2>3 DEF End, Reqs
  <2>4. QED
    BY <1>6, <2>1, <2>2, <2>3
    DEF Write, OtherWrite, SaveHealthLog, DeleteHealthTarget
<1>7. QED
  BY <1>1, <1>2, <1>3, <1>4, <1>5, <1>6 DEF Next

\* The invariant all theorems of this module rest on.
PInv == TypeOK /\ Placed /\ Kinds

LEMMA InitPInv == Init => PInv
<1> SUFFICES ASSUME Init PROVE PInv
  OBVIOUS
<1>1. 1 \in Conns /\ None \notin Reqs
  BY PoolAssumption DEF Conns, Reqs
<1>2. QED
  BY <1>1 DEF Init, PInv, TypeOK, Placed, Kinds

LEMMA PInvStep == PInv /\ [Next]_vars => PInv'
BY TypeStep, PlacedStep DEF PInv

\* Every variable of the pool has its type, in every reachable state.
THEOREM PoolTyped == Spec => []TypeOK
<1>1. PInv => TypeOK
  BY DEF PInv
<1>2. QED
  BY InitPInv, PInvStep, <1>1, PTL DEF Spec

-----------------------------------------------------------------------------
(* Connections are neither lost nor shared.                                *)

\* ConnsAccounted without its part on places, connection by connection.
Owned ==
  /\ \A q \in Reqs : outer[q] \notin free /\ inner[q] \notin free
  /\ \A c \in opened : c \in free \/ \E q \in Reqs : c \in {outer[q], inner[q]}
  /\ \A q1, q2 \in Reqs :
       /\ outer[q1] # None => outer[q1] # inner[q2]
       /\ q1 # q2 /\ outer[q1] # None => outer[q1] # outer[q2]
       /\ q1 # q2 /\ inner[q1] # None => inner[q1] # inner[q2]

LEMMA OwnedAccounts == PInv /\ Owned => ConnsAccounted
<1> SUFFICES ASSUME PInv, Owned PROVE ConnsAccounted
  OBVIOUS
<1>1. free \cap Held = {}
  BY DEF Owned, Held
<1>2. None \notin opened
  BY NoneIsNoConn DEF PInv, TypeOK
<1>3. opened = free \cup (Held \ {None})
  <2>1. ASSUME NEW c \in opened PROVE c \in free \cup (Held \ {None})
    BY <1>2, <2>1 DEF Owned, Held
  <2>2. Held \ {None} \subseteq opened
    BY DEF PInv, TypeOK, Held
  <2>3. QED
    BY <2>1, <2>2 DEF PInv, TypeOK
<1>4. QED
  BY <1>1, <1>3 DEF ConnsAccounted, Owned, PInv, Placed

\* A connection that Take hands out belongs to nobody.
LEMMA TakenIsFresh ==
  ASSUME PInv, Owned, NEW c \in Conns, Take(c), NEW q \in Reqs
  PROVE  outer[q] # c /\ inner[q] # c
<1>1. c \in free \/ c \notin opened
  BY TakeEffect DEF PInv
<1>2. c # None
  BY NoneIsNoConn
<1>3. QED
  BY <1>1, <1>2 DEF PInv, TypeOK, Owned

LEMMA ConnectOwned ==
  ASSUME PInv, Owned, NEW q \in Reqs, Connect(q) PROVE Owned'
<1>1. PICK c \in Conns : Take(c) /\ outer' = [outer EXCEPT ![q] = c]
  BY DEF Connect
<1>2. free' = free \ {c} /\ opened' = opened \cup {c}
  BY <1>1, TakeEffect DEF PInv
<1>3. \A p \in Reqs : outer[p] # c /\ inner[p] # c
  BY <1>1, TakenIsFresh
<1>4. outer[q] = None /\ inner' = inner
  BY DEF Connect, PInv, Placed
<1>5. \A p \in Reqs : outer'[p] = IF p = q THEN c ELSE outer[p]
  BY <1>1 DEF PInv, TypeOK
<1>6. \A p \in Reqs : outer'[p] \notin free' /\ inner'[p] \notin free'
  BY <1>2, <1>4, <1>5 DEF Owned
<1>7. \A d \in opened' :
        d \in free' \/ \E p \in Reqs : d \in {outer'[p], inner'[p]}
  <2>1. TAKE d \in opened'
  <2>2. CASE d = c
    BY <1>5, <2>2
  <2>3. CASE d # c
    <3>1. d \in opened /\ d # None
      BY <1>2, <2>3, NoneIsNoConn DEF PInv, TypeOK
    <3>2. QED
      BY <1>2, <1>4, <1>5, <2>3, <3>1 DEF Owned
  <2>4. QED
    BY <2>2, <2>3
<1>8. \A q1, q2 \in Reqs :
        /\ outer'[q1] # None => outer'[q1] # inner'[q2]
        /\ q1 # q2 /\ outer'[q1] # None => outer'[q1] # outer'[q2]
        /\ q1 # q2 /\ inner'[q1] # None => inner'[q1] # inner'[q2]
  BY <1>3, <1>4, <1>5 DEF Owned
<1>9. QED
  BY <1>6, <1>7, <1>8 DEF Owned

LEMMA QueryRowOwned ==
  ASSUME PInv, Owned, NEW q \in Readers, QueryRow(q) PROVE Owned'
<1>0. q \in Reqs
  BY DEF Reqs
<1>1. PICK c \in Conns : Take(c) /\ inner' = [inner EXCEPT ![q] = c]
  BY DEF QueryRow
<1>2. free' = free \ {c} /\ opened' = opened \cup {c}
  BY <1>1, TakeEffect DEF PInv
<1>3. \A p \in Reqs : outer[p] # c /\ inner[p] # c
  BY <1>1, TakenIsFresh
<1>4. inner[q] = None /\ outer' = outer
  BY <1>0 DEF QueryRow, PInv, Placed
<1>5. \A p \in Reqs : inner'[p] = IF p = q THEN c ELSE inner[p]
  BY <1>1 DEF PInv, TypeOK
<1>6. \A p \in Reqs : outer'[p] \notin free' /\ inner'[p] \notin free'
  BY <1>2, <1>4, <1>5 DEF Owned
<1>7. \A d \in opened' :
        d \in free' \/ \E p \in Reqs : d \in {outer'[p], inner'[p]}
  <2>1. TAKE d \in opened'
  <2>2. CASE d = c
    BY <1>0, <1>5, <2>2
  <2>3. CASE d # c
    <3>1. d \in opened /\ d # None
      BY <1>2, <2>3, NoneIsNoConn DEF PInv, TypeOK
    <3>2. QED
      BY <1>2, <1>4, <1>5, <2>3, <3>1 DEF Owned
  <2>4. QED
    BY <2>2, <2>3
<1>8. \A q1, q2 \in Reqs :
        /\ outer'[q1] # None => outer'[q1] # inner'[q2]
        /\ q1 # q2 /\ outer'[q1] # None => outer'[q1] # outer'[q2]
        /\ q1 # q2 /\ inner'[q1] # None => inner'[q1] # inner'[q2]
  BY <1>3, <1>4, <1>5 DEF Owned
<1>9. QED
  BY <1>6, <1>7, <1>8 DEF Owned

LEMMA EndOwned ==
  ASSUME PInv, Owned, NEW q \in Reqs, outer[q] # None, End(q) PROVE Owned'
<1>1. free' = free \cup {outer[q]} /\ opened' = opened /\ inner' = inner
  BY DEF End, Release
<1>2. \A p \in Reqs : outer'[p] = IF p = q THEN None ELSE outer[p]
  BY DEF End, PInv, TypeOK
<1>3. None \notin free /\ None \notin opened
  BY NoneIsNoConn DEF PInv, TypeOK
<1>4. QED
  BY <1>1, <1>2, <1>3 DEF Owned

LEMMA RowDoneOwned ==
  ASSUME PInv, Owned, NEW q \in Readers, RowDone(q) PROVE Owned'
<1>0. q \in Reqs /\ inner[q] # None
  BY DEF Reqs, RowDone, PInv, Placed
<1>1. free' = free \cup {inner[q]} /\ opened' = opened /\ outer' = outer
  BY DEF RowDone, Release
<1>2. \A p \in Reqs : inner'[p] = IF p = q THEN None ELSE inner[p]
  BY DEF RowDone, PInv, TypeOK
<1>3. None \notin free /\ None \notin opened
  BY NoneIsNoConn DEF PInv, TypeOK
<1>4. QED
  BY <1>0, <1>1, <1>2, <1>3 DEF Owned

LEMMA OwnedStep == PInv /\ Owned /\ [Next]_vars => Owned'
<1> SUFFICES ASSUME PInv, Owned, [Next]_vars PROVE Owned'
  OBVIOUS
<1>1. CASE UNCHANGED <<pool, outer, inner>>
  BY <1>1 DEF Owned, pool
<1>2. ASSUME NEW q \in Reqs, Start(q) \/ Connect(q) PROVE Owned'
  BY <1>1, <1>2, ConnectOwned DEF Start
<1>3. ASSUME NEW q \in Readers, Read(q) \/ QueryRow(q) PROVE Owned'
  <2>1. RowsDone(q) => outer[q] # None /\ q \in Reqs
    BY DEF RowsDone, PInv, Placed, Reqs
  <2>2. QED
    BY <1>1, <1>3, <2>1, QueryRowOwned, RowDoneOwned, EndOwned
    DEF Read, NextRow, RowsDone
<1>4. ASSUME NEW q \in Writers, Write(q) PROVE Owned'
  <2>1. CASE Lock(q)
    BY <1>1, <2>1 DEF Lock
  <2>2. CASE ~Lock(q)
    <3>1. End(q) /\ pc[q] \in {"write", "locked"} /\ q \in Reqs
      BY <1>4, <2>2 DEF Write, BusyAtOnce, BusyTimeout, OtherWrite,
                        SaveHealthLog, DeleteHealthTarget, Reqs
    <3>2. QED
      BY <3>1, EndOwned DEF PInv, Placed
  <2>3. QED
    BY <2>1, <2>2
<1>5. CASE UNCHANGED vars
  BY <1>1, <1>5 DEF vars, pool
<1>6. QED
  BY <1>2, <1>3, <1>4, <1>5 DEF Next

LEMMA InitOwned == Init => Owned
BY PoolAssumption DEF Init, Owned, Conns

\* In every reachable state each opened connection lies idle or is held exactly
\* once, and each request holds what its place in db.go needs.
THEOREM PoolAccounted == Spec => []ConnsAccounted
<1>1. PInv /\ Owned /\ [Next]_vars => (PInv /\ Owned)'
  BY PInvStep, OwnedStep
<1>2. QED
  BY InitPInv, InitOwned, <1>1, OwnedAccounts, PTL DEF Spec

-----------------------------------------------------------------------------
(* Waiting for connections.                                                *)

\* With fewer nested readers than connections, they cannot hold all of them
\* while they wait for one more each.
LEMMA EnoughConnections ==
  ASSUME PInv, ConnsAccounted, Cardinality(Readers) < MaxOpen
  PROVE  NotWedged
<1> SUFFICES ASSUME free = {}, opened = Conns,
                    \A q \in Reqs :
                      pc[q] \notin {"rows", "row", "write", "locked"}
             PROVE  FALSE
  BY DEF NotWedged
<1> DEFINE Waiting == {q \in Readers : pc[q] = "nested"}
           conn == [q \in Waiting |-> outer[q]]
<1>1. \A q \in Reqs : inner[q] = None
  BY DEF PInv, Placed
<1>2. \A q \in Reqs : outer[q] # None => q \in Waiting
  BY DEF PInv, Placed, Kinds, TypeOK
<1>3. \A q \in Waiting : outer[q] \in Conns
  BY DEF PInv, Placed, TypeOK, Reqs
<1>4. \A c \in Conns : \E q \in Waiting : conn[q] = c
  <2>1. TAKE c \in Conns
  <2>2. c \in Held \ {None}
    BY <2>1 DEF ConnsAccounted
  <2>3. PICK q \in Reqs : c = outer[q] \/ c = inner[q]
    BY <2>2 DEF Held
  <2>4. QED
    BY <1>1, <1>2, <2>2, <2>3
<1>5. conn \in Surjection(Waiting, Conns)
  BY <1>3, <1>4 DEF Surjection
<1>6. IsFiniteSet(Waiting) /\ Cardinality(Waiting) <= Cardinality(Readers)
  BY PoolAssumption, FS_Subset
<1>7. Cardinality(Conns) <= Cardinality(Waiting)
  BY <1>5, <1>6, FS_Surjection
<1>8. Cardinality(Conns) = MaxOpen
  BY PoolAssumption, FS_Interval DEF Conns
<1>9. Cardinality(Readers) \in Nat /\ Cardinality(Waiting) \in Nat
  BY PoolAssumption, <1>6, FS_CardinalityType
<1>10. QED
  BY <1>6, <1>7, <1>8, <1>9, PoolAssumption

\* Fewer nested readers at a time than SetMaxOpenConns allows connections is
\* enough for the pool never to wedge (db.go:28).
THEOREM PoolNotWedged ==
  ASSUME Cardinality(Readers) < MaxOpen
  PROVE  Spec => []NotWedged
<1>1. PInv /\ Owned /\ [Next]_vars => (PInv /\ Owned)'
  BY PInvStep, OwnedStep
<1>2. PInv /\ Owned => NotWedged
  BY OwnedAccounts, EnoughConnections
<1>3. QED
  BY InitPInv, InitOwned, <1>1, <1>2, PTL DEF Spec

\* A wedged pool lets requests start and nothing else.
LEMMA WedgedStep ==
  ASSUME TypeOK, ~NotWedged, [Next]_vars
  PROVE  ~NotWedged'
<1>1. /\ free = {} /\ opened = Conns
      /\ \A q \in Reqs : pc[q] \in {"idle", "connect", "nested"}
      /\ \E q \in Reqs : pc[q] \in {"connect", "nested"}
  BY DEF NotWedged, TypeOK
<1>2. ASSUME NEW c \in Conns PROVE ~Take(c)
  BY <1>1 DEF Take
<1>3. ASSUME NEW q \in Reqs, Start(q) PROVE ~NotWedged'
  BY <1>1, <1>3 DEF Start, pool, TypeOK, NotWedged
<1>4. \A q \in Reqs : ~Connect(q) /\ ~QueryRow(q)
  BY <1>2 DEF Connect, QueryRow
<1>5. \A q \in Reqs : ~Read(q) /\ ~Write(q)
  BY <1>1 DEF Read, NextRow, RowDone, RowsDone, Write, Lock, BusyAtOnce,
              BusyTimeout, OtherWrite, SaveHealthLog, DeleteHealthTarget
<1>6. CASE UNCHANGED vars
  BY <1>6 DEF vars, NotWedged
<1>7. QED
  BY <1>3, <1>4, <1>5, <1>6 DEF Next, Reqs

\* Once the requests all wait for each other's connections (against db.go:28)
\* they wait for ever: none has a deadline, and none that comes later helps.
THEOREM WedgedForEver == Spec => [](~NotWedged => []~NotWedged)
<1>1. TypeOK /\ ~NotWedged /\ [Next]_vars => ~NotWedged'
  BY WedgedStep
<1>2. QED
  BY <1>1, PoolTyped, PTL DEF Spec

-----------------------------------------------------------------------------
(* Logs and their targets.                                                 *)

OrphanInv == 1 \in opened /\ (opened = {1} => NoOrphanLogs)

\* While there is one connection, every statement runs on the tuned one.
LEMMA TunedWrites ==
  ASSUME PInv, opened = {1}, NEW q \in Writers, pc[q] = "locked"
  PROVE  Tuned(outer[q])
BY DEF PInv, Placed, TypeOK, Tuned, Reqs

LEMMA OpenedGrows ==
  ASSUME PInv, [Next]_vars PROVE opened \subseteq opened'
<1>1. ASSUME NEW q \in Reqs, Connect(q) \/ QueryRow(q)
      PROVE  opened \subseteq opened'
  BY <1>1, TakeEffect DEF Connect, QueryRow, PInv
<1>2. ASSUME NEW q \in Reqs, Start(q) \/ Read(q) \/ Write(q)
      PROVE  opened' = opened
  BY <1>2 DEF Start, Read, NextRow, RowDone, RowsDone, Write, Lock, BusyAtOnce,
              BusyTimeout, OtherWrite, SaveHealthLog, DeleteHealthTarget, End,
              Release, pool
<1>3. QED
  BY <1>1, <1>2 DEF Next, vars, Reqs

LEMMA OrphanStep == PInv /\ OrphanInv /\ [Next]_vars => OrphanInv'
<1> SUFFICES ASSUME PInv, OrphanInv, [Next]_vars, opened' = {1}
             PROVE  NoOrphanLogs'
  BY OpenedGrows DEF OrphanInv
<1>1. opened = {1} /\ logs \subseteq rows
  BY OpenedGrows DEF OrphanInv, NoOrphanLogs
<1>2. ASSUME NEW q \in Writers, NEW t \in Targets,
             SaveHealthLog(q, t) \/ DeleteHealthTarget(q, t)
      PROVE  NoOrphanLogs'
  <2>1. Tuned(outer[q])
    BY <1>1, <1>2, TunedWrites DEF SaveHealthLog, DeleteHealthTarget
  <2>2. QED
    BY <1>1, <1>2, <2>1 DEF SaveHealthLog, DeleteHealthTarget, NoOrphanLogs
<1>3. CASE UNCHANGED data
  BY <1>1, <1>3 DEF data, NoOrphanLogs
<1>4. ASSUME NEW q \in Reqs, Start(q) \/ Connect(q) \/ Read(q) \/ QueryRow(q)
      PROVE  UNCHANGED data
  BY <1>4 DEF Start, Connect, Read, NextRow, RowDone, RowsDone, QueryRow
<1>5. ASSUME NEW q \in Writers,
             Lock(q) \/ BusyAtOnce(q) \/ BusyTimeout(q) \/ OtherWrite(q)
      PROVE  UNCHANGED <<rows, logs>>
  BY <1>5 DEF Lock, BusyAtOnce, BusyTimeout, OtherWrite, data
<1>6. CASE UNCHANGED <<rows, logs>>
  BY <1>1, <1>6 DEF NoOrphanLogs
<1>7. QED
  BY <1>2, <1>3, <1>4, <1>5, <1>6 DEF Next, Write, Reqs, vars

\* The logs that outlive their target (against docs/03_db_spec.md:13) need a
\* second connection: up to the moment the pool opens one, all of them cascade.
THEOREM OrphansNeedTwo == Spec => [](opened = {1} => NoOrphanLogs)
<1>1. Init => OrphanInv
  BY DEF Init, OrphanInv, NoOrphanLogs
<1>2. PInv /\ OrphanInv /\ [Next]_vars => (PInv /\ OrphanInv)'
  BY PInvStep, OrphanStep
<1>3. OrphanInv => (opened = {1} => NoOrphanLogs)
  BY DEF OrphanInv
<1>4. QED
  BY InitPInv, <1>1, <1>2, <1>3, PTL DEF Spec

-----------------------------------------------------------------------------
(* Shutdown.  A step of the server is a step of ConnPool, a step of main() *)
(* alone or a refusal by the closed store: the invariants carry over.      *)

\* A step of the server, seen from the pool.
LEMMA PoolSteps ==
  ASSUME [ShutdownNext]_shutdownVars
  PROVE  [Next]_vars \/ \E q \in Reqs : Refused(q)
<1>1. CASE UNCHANGED shutdownVars \/ Signal \/ WindDown
  BY <1>1 DEF shutdownVars, Signal, WindDown, Drained, DrainTimeout,
              CloseStore, Exit
<1>2. ASSUME NEW q \in Reqs, Alive(StartRequest(q) \/ Proceed(q)), ~Refused(q)
      PROVE  Next
  BY <1>2 DEF Alive, StartRequest, Proceed, Acquire, Work, Next
<1>3. QED
  BY <1>1, <1>2 DEF ShutdownNext

-----------------------------------------------------------------------------
(* A refused request leaves the pool in order.                             *)

\* The first case of Refused: a request that held nothing is gone.
LEMMA RefusedCases ==
  ASSUME PInv, NEW q \in Reqs, Refused(q)
  PROVE  /\ UNCHANGED data
         /\ \/ /\ pc[q] = "connect"
               /\ pc' = [pc EXCEPT ![q] = "idle"]
               /\ UNCHANGED <<pool, outer, inner>>
            \/ pc[q] = "nested" /\ outer[q] # None /\ End(q)
BY DEF Refused, PInv, Placed

LEMMA RefusedPInv == ASSUME PInv, NEW q \in Reqs, Refused(q) PROVE PInv'
<1>1. CASE pc[q] = "connect" /\ pc' = [pc EXCEPT ![q] = "idle"]
           /\ UNCHANGED <<pool, outer, inner, data>>
  BY <1>1 DEF PInv, TypeOK, Placed, Kinds, pool, data, Reqs
<1>2. CASE pc[q] = "nested" /\ outer[q] # None /\ End(q) /\ UNCHANGED data
  <2>1. TypeOK'
    BY <1>2, EndType DEF PInv, TypeOK, Places, data
  <2>2. Placed' /\ Kinds'
    BY <1>2 DEF PInv, TypeOK, Placed, Kinds, End, data, Reqs
  <2>3. QED
    BY <2>1, <2>2 DEF PInv
<1>3. QED
  BY <1>1, <1>2, RefusedCases

LEMMA RefusedOwned ==
  ASSUME PInv, Owned, NEW q \in Reqs, Refused(q) PROVE Owned'
<1>1. CASE UNCHANGED <<pool, outer, inner>>
  BY <1>1 DEF Owned, pool
<1>2. CASE outer[q] # None /\ End(q)
  BY <1>2, EndOwned
<1>3. QED
  BY <1>1, <1>2, RefusedCases

LEMMA ShutdownInvStep ==
  PInv /\ Owned /\ [ShutdownNext]_shutdownVars => (PInv /\ Owned)'
BY PoolSteps, PInvStep, OwnedStep, RefusedPInv, RefusedOwned

LEMMA InitShutdownInv == ShutdownInit => PInv /\ Owned
BY InitPInv, InitOwned DEF ShutdownInit

\* Every variable of the pool has its type until the process is gone.
THEOREM ShutdownTyped == ShutdownSpec => []TypeOK
<1>1. PInv => TypeOK
  BY DEF PInv
<1>2. QED
  BY InitShutdownInv, ShutdownInvStep, <1>1, PTL DEF ShutdownSpec

\* Neither the drain nor the refusals of a closed store lose or share a
\* connection.
THEOREM ShutdownAccounted == ShutdownSpec => []ConnsAccounted
BY InitShutdownInv, ShutdownInvStep, OwnedAccounts, PTL DEF ShutdownSpec

\* With fewer nested readers than connections the pool does not wedge, whether
\* the server runs, drains or closes.
THEOREM ShutdownNotWedged ==
  ASSUME Cardinality(Readers) < MaxOpen
  PROVE  ShutdownSpec => []NotWedged
<1>1. PInv /\ Owned => NotWedged
  BY OwnedAccounts, EnoughConnections
<1>2. QED
  BY InitShutdownInv, ShutdownInvStep, <1>1, PTL DEF ShutdownSpec

\* In the running server a wedge ends only with the store: no step, except those
\* of a closed store, lets a waiting request go.
THEOREM WedgedUntilClosed ==
  ShutdownSpec =>
    [][~NotWedged /\ main # "closed" => ~NotWedged']_shutdownVars
<1>1. PInv /\ [ShutdownNext]_shutdownVars
        => (~NotWedged /\ main # "closed" => ~NotWedged')
  BY PoolSteps, WedgedStep DEF PInv, Refused
<1>2. QED
  BY InitShutdownInv, ShutdownInvStep, <1>1, PTL DEF ShutdownSpec

=============================================================================
