------------------------ MODULE SimpleDataSource2Proofs ------------------------
(***************************************************************************)
(* Machine-checked proofs about the connection pool, for any set of        *)
(* threads, any pool size and any number of calls of close().              *)
(***************************************************************************)
EXTENDS SimpleDataSource2, FiniteSetTheorems, SequenceTheorems, TLAPS

\* Moving one thread changes the number of threads at S by what it leaves and
\* what it enters.
LEMMA CountUpdate ==
    ASSUME NEW f \in [Threads -> ThreadPC], NEW t \in Threads, NEW b \in ThreadPC, NEW S
    PROVE  /\ Count(f, S) \in Nat
           /\ Count([f EXCEPT ![t] = b], S) = Count(f, S) - AsNat(f[t] \in S) + AsNat(b \in S)
           /\ Count([f EXCEPT ![t] = b], S) \in Nat
<1> DEFINE g == [f EXCEPT ![t] = b]
           A == {u \in Threads : f[u] \in S}
           B == {u \in Threads : g[u] \in S}
<1>1. IsFiniteSet(A) /\ IsFiniteSet(B)
  BY PoolAssumption, FS_Subset
<1>2. Cardinality(A) \in Nat /\ Cardinality(B) \in Nat
  BY <1>1, FS_CardinalityType
<1>0. Count(f, S) = Cardinality(A) /\ Count(g, S) = Cardinality(B)
  BY DEF Count
<1> HIDE DEF A, B, g
<1>3. ASSUME f[t] \in S /\ b \in S
      PROVE  /\ Count(f, S) \in Nat /\ Count(g, S) \in Nat
             /\ Count(g, S) = Count(f, S) - AsNat(f[t] \in S) + AsNat(b \in S)
  <2>1. A = B
    BY <1>3 DEF A, B, g
  <2>. QED BY <1>0, <1>2, <1>3, <2>1 DEF AsNat
<1>4. ASSUME f[t] \in S /\ b \notin S
      PROVE  /\ Count(f, S) \in Nat /\ Count(g, S) \in Nat
             /\ Count(g, S) = Count(f, S) - AsNat(f[t] \in S) + AsNat(b \in S)
  <2>1. B = A \ {t} /\ t \in A
    BY <1>4 DEF A, B, g
  <2>2. Cardinality(B) = Cardinality(A) - 1
    BY <1>1, <2>1, FS_RemoveElement
  <2>. QED BY <1>0, <1>2, <1>4, <2>2 DEF AsNat
<1>5. ASSUME f[t] \notin S /\ b \in S
      PROVE  /\ Count(f, S) \in Nat /\ Count(g, S) \in Nat
             /\ Count(g, S) = Count(f, S) - AsNat(f[t] \in S) + AsNat(b \in S)
  <2>1. B = A \cup {t} /\ t \notin A
    BY <1>5 DEF A, B, g
  <2>2. Cardinality(B) = Cardinality(A) + 1
    BY <1>1, <2>1, FS_AddElement
  <2>. QED BY <1>0, <1>2, <1>5, <2>2 DEF AsNat
<1>6. ASSUME f[t] \notin S /\ b \notin S
      PROVE  /\ Count(f, S) \in Nat /\ Count(g, S) \in Nat
             /\ Count(g, S) = Count(f, S) - AsNat(f[t] \in S) + AsNat(b \in S)
  <2>1. A = B
    BY <1>6 DEF A, B, g
  <2>. QED BY <1>0, <1>2, <1>6, <2>1 DEF AsNat
<1>7. /\ Count(f, S) \in Nat /\ Count(g, S) \in Nat
      /\ Count(g, S) = Count(f, S) - AsNat(f[t] \in S) + AsNat(b \in S)
  BY <1>3, <1>4, <1>5, <1>6
<1>. QED BY <1>7 DEF g

\* The thread counts of a type-correct state are natural numbers.
LEMMA AtNat == ASSUME TypeOK, NEW S PROVE At(S) \in Nat
<1>1. IsFiniteSet({t \in Threads : pc[t] \in S})
  BY PoolAssumption, FS_Subset
<1>. QED BY <1>1, FS_CardinalityType DEF At, Count

\* A thread that is at S is counted.
LEMMA AtPositive == ASSUME TypeOK, NEW S, NEW t \in Threads, pc[t] \in S PROVE At(S) > 0
<1> DEFINE A == {u \in Threads : pc[u] \in S}
<1>1. IsFiniteSet(A) /\ t \in A
  BY PoolAssumption, FS_Subset
<1>2. Cardinality(A) \in Nat /\ (Cardinality(A) = 0 <=> A = {})
  BY <1>1, FS_CardinalityType, FS_EmptySet
<1>. QED BY <1>1, <1>2 DEF At, Count

-----------------------------------------------------------------------------
TypeInv == TypeOK /\ RefsOpened

\* Every step keeps the types and hands out only connections that were opened.
LEMMA TypeStep == TypeInv /\ [Next]_vars => TypeInv'
<1> SUFFICES ASSUME TypeInv, [Next]_vars PROVE TypeInv'
  OBVIOUS
<1> USE PoolAssumption DEF TypeInv, TypeOK, RefsOpened, Owns, CheckerOwns, Constructed, Conns, NoConn,
        ThreadPC, CheckerPC, CloserPC, poolVars, ctorVars, threadVars, checkerVars, closeVars
<1>1. CASE PopulateConnection
  <2>1. populated \in Nat /\ populated + 1 \in Conns
    BY <1>1 DEF PopulateConnection
  <2>2. recycledConnections' \in Seq(Conns)
    <3>1. Append(recycledConnections, populated + 1) \in Seq(Conns)
      BY <2>1
    <3>. QED BY <1>1, <3>1 DEF PopulateConnection
  <2>3. \A i \in DOMAIN recycledConnections' : recycledConnections'[i] <= populated'
    BY <1>1, <2>1 DEF PopulateConnection
  <2>. QED BY <1>1, <2>1, <2>2, <2>3 DEF PopulateConnection
<1>2. ASSUME NEW t \in Threads, GetConnection(t) PROVE TypeInv'
  BY <1>2 DEF GetConnection
<1>3. ASSUME NEW t \in Threads, Take(t) PROVE TypeInv'
  BY <1>3 DEF Take
<1>4. ASSUME NEW t \in Threads, TakeInterrupted(t) PROVE TypeInv'
  BY <1>4 DEF TakeInterrupted
<1>5. ASSUME NEW t \in Threads, TakeTimedOut(t) PROVE TypeInv'
  BY <1>5 DEF TakeTimedOut
<1>6. ASSUME NEW t \in Threads, ReturnConnection(t) PROVE TypeInv'
  BY <1>6 DEF ReturnConnection
<1>7. ASSUME NEW t \in Threads, CloseHandlerAdd(t) PROVE TypeInv'
  <2>1. ref[t] \in Conns /\ ref[t] <= populated /\ extraCloses' \in Nat /\ Constructed
    BY <1>7 DEF CloseHandlerAdd, CallsClose
  <2>2. recycledConnections' \in Seq(Conns)
    BY <1>7, <2>1 DEF CloseHandlerAdd
  <2>3. \A i \in DOMAIN recycledConnections' : recycledConnections'[i] <= populated'
    BY <1>7, <2>1 DEF CloseHandlerAdd
  <2>. QED BY <1>7, <2>1, <2>2, <2>3 DEF CloseHandlerAdd
<1>8. ASSUME NEW t \in Threads, CloseHandlerAddFails(t) PROVE TypeInv'
  BY <1>8 DEF CloseHandlerAddFails, CallsClose
<1>9. ASSUME NEW t \in Threads, CloseHandlerDecrement(t) PROVE TypeInv'
  BY <1>9 DEF CloseHandlerDecrement
<1>10. CASE CheckLoop
  BY <1>10 DEF CheckLoop
<1>11. CASE CheckTake
  BY <1>11 DEF CheckTake
<1>12. CASE CheckIncrement
  BY <1>12 DEF CheckIncrement
<1>13. CASE CheckDies
  BY <1>13 DEF CheckDies
<1>14. CASE CheckAdd
  BY <1>14 DEF CheckAdd
<1>15. CASE CheckDecrement
  BY <1>15 DEF CheckDecrement
<1>16. CASE CheckSleep
  BY <1>16 DEF CheckSleep
<1>17. CASE Close
  BY <1>17 DEF Close
<1>18. CASE DrainTest
  BY <1>18 DEF DrainTest
<1>19. CASE DrainTake
  BY <1>19 DEF DrainTake
<1>20. CASE UNCHANGED vars
  BY <1>20 DEF vars
<1>. QED
  BY <1>1, <1>2, <1>3, <1>4, <1>5, <1>6, <1>7, <1>8, <1>9, <1>10, <1>11, <1>12, <1>13, <1>14, <1>15, <1>16, <1>17, <1>18, <1>19, <1>20 DEF Next, ThreadStep, CheckerStep

\* The freshly constructed pool has the right types.
LEMMA TypeInit == Init => TypeInv
<1> SUFFICES ASSUME Init PROVE TypeInv
  OBVIOUS
<1> USE PoolAssumption DEF Init, Owns, CheckerOwns, Constructed, Conns, NoConn, ThreadPC,
        CheckerPC, CloserPC
<1>1. TypeOK
  <2>1. recycledConnections \in Seq(Conns)
    BY EmptySeq
  <2>2. /\ pc \in [Threads -> ThreadPC]
        /\ ref \in [Threads -> Conns \cup {NoConn}]
    OBVIOUS
  <2>3. /\ populated \in 0..MaximumPoolSize /\ opened \in 0..populated
        /\ activeConnections \in Int /\ closeCalls \in Nat /\ extraCloses \in Nat /\ leaked \in Nat
    OBVIOUS
  <2>4. isClosed \in BOOLEAN /\ checker \in CheckerPC /\ closer \in CloserPC
    OBVIOUS
  <2>5. checked \in Conns \cup {NoConn}
    OBVIOUS
  <2>. QED BY <2>1, <2>2, <2>3, <2>4, <2>5 DEF TypeOK
<1>2. RefsOpened
  BY DEF RefsOpened
<1>. QED BY <1>1, <1>2 DEF TypeInv

\* The pool's variables keep their types: in particular every idle entry is a
\* connection of the pool, never a null reference.
THEOREM TypeCorrect == Spec => []TypeOK
<1>2. TypeInv => TypeOK
  BY DEF TypeInv
<1>. QED BY <1>2, TypeInit, TypeStep, PTL DEF Spec

-----------------------------------------------------------------------------
\* How the thread counts move when thread t goes to b, and when nobody moves.
LEMMA MoveAt ==
    ASSUME TypeOK, NEW t \in Threads, NEW b \in ThreadPC, pc' = [pc EXCEPT ![t] = b], NEW CONSTANT S
    PROVE  At(S)' = At(S) - AsNat(pc[t] \in S) + AsNat(b \in S)
<1>1. pc \in [Threads -> ThreadPC]
  BY DEF TypeOK
<1>. QED BY <1>1, CountUpdate DEF At

\* A step that moves no thread keeps every count.
LEMMA StayAt == ASSUME pc' = pc, NEW CONSTANT S PROVE At(S)' = At(S)
BY DEF At, Count

\* The effect of each step of a borrower on the counts the gauges need.
LEMMA ThreadMoves ==
    ASSUME TypeOK, NEW t \in Threads
    PROVE  /\ GetConnection(t) \/ TakeInterrupted(t) =>
                 /\ At({"taken"})' = At({"taken"}) /\ At({"decr"})' = At({"decr"})
                 /\ At({"use", "decr"})' = At({"use", "decr"})
           /\ Take(t) =>
                 /\ At({"taken"})' = At({"taken"}) + 1 /\ At({"decr"})' = At({"decr"})
                 /\ At({"use", "decr"})' = At({"use", "decr"})
           /\ TakeTimedOut(t) =>
                 /\ At({"taken"})' = At({"taken"}) - 1 /\ At({"decr"})' = At({"decr"})
                 /\ At({"use", "decr"})' = At({"use", "decr"})
           /\ ReturnConnection(t) =>
                 /\ At({"taken"})' = At({"taken"}) - 1 /\ At({"decr"})' = At({"decr"})
                 /\ At({"use", "decr"})' = At({"use", "decr"}) + 1
           /\ CloseHandlerAdd(t) =>
                 /\ At({"taken"})' = At({"taken"}) /\ At({"decr"})' = At({"decr"}) + 1
                 /\ pc[t] = "use" => At({"use", "decr"})' = At({"use", "decr"})
           /\ CloseHandlerAddFails(t) =>
                 /\ At({"taken"})' = At({"taken"}) /\ At({"decr"})' = At({"decr"})
           /\ CloseHandlerDecrement(t) =>
                 /\ At({"taken"})' = At({"taken"}) /\ At({"decr"})' = At({"decr"}) - 1
                 /\ At({"use", "decr"})' = At({"use", "decr"}) - 1
<1>0. \A S : At(S) \in Nat
  BY AtNat
<1> USE <1>0 DEF AsNat, ThreadPC
<1>1. ASSUME GetConnection(t) \/ TakeInterrupted(t)
      PROVE  \E b \in {"take", "out"} : pc' = [pc EXCEPT ![t] = b] /\ pc[t] \in {"take", "out"}
  BY <1>1 DEF GetConnection, TakeInterrupted
<1>8. ASSUME GetConnection(t) \/ TakeInterrupted(t)
      PROVE  /\ At({"taken"})' = At({"taken"})
             /\ At({"decr"})' = At({"decr"})
             /\ At({"use", "decr"})' = At({"use", "decr"})
  <2> PICK b \in {"take", "out"} : pc' = [pc EXCEPT ![t] = b] /\ pc[t] \in {"take", "out"}
    BY <1>1, <1>8
  <2>1. At({"taken"})' = At({"taken"}) - AsNat(pc[t] \in {"taken"}) + AsNat(b \in {"taken"})
    BY MoveAt
  <2>2. At({"decr"})' = At({"decr"}) - AsNat(pc[t] \in {"decr"}) + AsNat(b \in {"decr"})
    BY MoveAt
  <2>3. At({"use", "decr"})' = At({"use", "decr"}) - AsNat(pc[t] \in {"use", "decr"}) + AsNat(b \in {"use", "decr"})
    BY MoveAt
  <2>. QED BY <2>1, <2>2, <2>3
<1>2. ASSUME Take(t)
      PROVE  /\ At({"taken"})' = At({"taken"}) + 1
             /\ At({"decr"})' = At({"decr"})
             /\ At({"use", "decr"})' = At({"use", "decr"})
  <2>1. pc' = [pc EXCEPT ![t] = "taken"] /\ pc[t] \in ThreadPC
    BY <1>2 DEF Take, TypeOK
  <2>2. At({"taken"})' = At({"taken"}) - AsNat(pc[t] \in {"taken"}) + AsNat("taken" \in {"taken"})
    BY <2>1, MoveAt
  <2>3. At({"decr"})' = At({"decr"}) - AsNat(pc[t] \in {"decr"}) + AsNat("taken" \in {"decr"})
    BY <2>1, MoveAt
  <2>4. At({"use", "decr"})' = At({"use", "decr"}) - AsNat(pc[t] \in {"use", "decr"}) + AsNat("taken" \in {"use", "decr"})
    BY <2>1, MoveAt
  <2>. QED BY <1>2, <2>1, <2>2, <2>3, <2>4 DEF Take
<1>3. ASSUME TakeTimedOut(t)
      PROVE  /\ At({"taken"})' = At({"taken"}) - 1
             /\ At({"decr"})' = At({"decr"})
             /\ At({"use", "decr"})' = At({"use", "decr"})
  <2>1. pc' = [pc EXCEPT ![t] = "out"] /\ pc[t] \in ThreadPC
    BY <1>3 DEF TakeTimedOut, TypeOK
  <2>2. At({"taken"})' = At({"taken"}) - AsNat(pc[t] \in {"taken"}) + AsNat("out" \in {"taken"})
    BY <2>1, MoveAt
  <2>3. At({"decr"})' = At({"decr"}) - AsNat(pc[t] \in {"decr"}) + AsNat("out" \in {"decr"})
    BY <2>1, MoveAt
  <2>4. At({"use", "decr"})' = At({"use", "decr"}) - AsNat(pc[t] \in {"use", "decr"}) + AsNat("out" \in {"use", "decr"})
    BY <2>1, MoveAt
  <2>. QED BY <1>3, <2>1, <2>2, <2>3, <2>4 DEF TakeTimedOut
<1>4. ASSUME ReturnConnection(t)
      PROVE  /\ At({"taken"})' = At({"taken"}) - 1
             /\ At({"decr"})' = At({"decr"})
             /\ At({"use", "decr"})' = At({"use", "decr"}) + 1
  <2>1. pc' = [pc EXCEPT ![t] = "use"] /\ pc[t] \in ThreadPC
    BY <1>4 DEF ReturnConnection, TypeOK
  <2>2. At({"taken"})' = At({"taken"}) - AsNat(pc[t] \in {"taken"}) + AsNat("use" \in {"taken"})
    BY <2>1, MoveAt
  <2>3. At({"decr"})' = At({"decr"}) - AsNat(pc[t] \in {"decr"}) + AsNat("use" \in {"decr"})
    BY <2>1, MoveAt
  <2>4. At({"use", "decr"})' = At({"use", "decr"}) - AsNat(pc[t] \in {"use", "decr"}) + AsNat("use" \in {"use", "decr"})
    BY <2>1, MoveAt
  <2>. QED BY <1>4, <2>1, <2>2, <2>3, <2>4 DEF ReturnConnection
<1>5. ASSUME CloseHandlerAdd(t)
      PROVE  /\ At({"taken"})' = At({"taken"})
             /\ At({"decr"})' = At({"decr"}) + 1
             /\ (pc[t] = "use" => At({"use", "decr"})' = At({"use", "decr"}))
  <2>1. pc' = [pc EXCEPT ![t] = "decr"] /\ pc[t] \in ThreadPC
    BY <1>5 DEF CloseHandlerAdd, CallsClose, TypeOK
  <2>2. At({"taken"})' = At({"taken"}) - AsNat(pc[t] \in {"taken"}) + AsNat("decr" \in {"taken"})
    BY <2>1, MoveAt
  <2>3. At({"decr"})' = At({"decr"}) - AsNat(pc[t] \in {"decr"}) + AsNat("decr" \in {"decr"})
    BY <2>1, MoveAt
  <2>4. At({"use", "decr"})' = At({"use", "decr"}) - AsNat(pc[t] \in {"use", "decr"}) + AsNat("decr" \in {"use", "decr"})
    BY <2>1, MoveAt
  <2>. QED BY <1>5, <2>1, <2>2, <2>3, <2>4 DEF CloseHandlerAdd, CallsClose
<1>6. ASSUME CloseHandlerAddFails(t)
      PROVE  /\ At({"taken"})' = At({"taken"})
             /\ At({"decr"})' = At({"decr"})
  <2>1. pc' = [pc EXCEPT ![t] = "out"] /\ pc[t] \in ThreadPC
    BY <1>6 DEF CloseHandlerAddFails, CallsClose, TypeOK
  <2>2. At({"taken"})' = At({"taken"}) - AsNat(pc[t] \in {"taken"}) + AsNat("out" \in {"taken"})
    BY <2>1, MoveAt
  <2>3. At({"decr"})' = At({"decr"}) - AsNat(pc[t] \in {"decr"}) + AsNat("out" \in {"decr"})
    BY <2>1, MoveAt
  <2>. QED BY <1>6, <2>1, <2>2, <2>3 DEF CloseHandlerAddFails, CallsClose
<1>7. ASSUME CloseHandlerDecrement(t)
      PROVE  /\ At({"taken"})' = At({"taken"})
             /\ At({"decr"})' = At({"decr"}) - 1
             /\ At({"use", "decr"})' = At({"use", "decr"}) - 1
  <2>1. pc' = [pc EXCEPT ![t] = "out"] /\ pc[t] \in ThreadPC
    BY <1>7 DEF CloseHandlerDecrement, TypeOK
  <2>2. At({"taken"})' = At({"taken"}) - AsNat(pc[t] \in {"taken"}) + AsNat("out" \in {"taken"})
    BY <2>1, MoveAt
  <2>3. At({"decr"})' = At({"decr"}) - AsNat(pc[t] \in {"decr"}) + AsNat("out" \in {"decr"})
    BY <2>1, MoveAt
  <2>4. At({"use", "decr"})' = At({"use", "decr"}) - AsNat(pc[t] \in {"use", "decr"}) + AsNat("out" \in {"use", "decr"})
    BY <2>1, MoveAt
  <2>. QED BY <1>7, <2>1, <2>2, <2>3, <2>4 DEF CloseHandlerDecrement
<1>. QED BY <1>2, <1>3, <1>4, <1>5, <1>6, <1>7, <1>8

-----------------------------------------------------------------------------
\* Every step, closing twice included, moves the gauges together.
LEMMA GaugesStep == TypeInv /\ GaugesConserved /\ [Next]_vars => GaugesConserved'
<1> SUFFICES ASSUME TypeInv, GaugesConserved, [Next]_vars PROVE GaugesConserved'
  OBVIOUS
<1>stay. ASSUME pc' = pc PROVE At({"taken"})' = At({"taken"}) /\ At({"decr"})' = At({"decr"})
  BY <1>stay, StayAt
<1>nat. /\ At({"taken"}) \in Nat /\ At({"decr"}) \in Nat /\ Len(recycledConnections) \in Nat
        /\ activeConnections \in Int /\ opened \in Int /\ leaked \in Nat /\ TypeOK
  BY AtNat, PoolAssumption DEF TypeInv, TypeOK
<1> USE <1>nat DEF GaugesConserved, poolVars, ctorVars, threadVars, checkerVars, closeVars
<1>1. CASE PopulateConnection
  <2>1. /\ activeConnections' = activeConnections /\ leaked' = leaked /\ checker' = checker /\ pc' = pc
        /\ \/ Len(recycledConnections') = Len(recycledConnections) + 1 /\ opened' = opened + 1
           \/ Len(recycledConnections') = Len(recycledConnections) /\ opened' = opened
    BY <1>1 DEF PopulateConnection, TypeOK
  <2>2. At({"taken"})' = At({"taken"}) /\ At({"decr"})' = At({"decr"})
    BY <2>1, <1>stay
  <2>3. CASE Len(recycledConnections') = Len(recycledConnections) + 1 /\ opened' = opened + 1
    BY <2>1, <2>2, <2>3 DEF AsNat
  <2>4. CASE Len(recycledConnections') = Len(recycledConnections) /\ opened' = opened
    BY <2>1, <2>2, <2>4 DEF AsNat
  <2>. QED BY <2>1, <2>3, <2>4
<1>2. ASSUME NEW t \in Threads, GetConnection(t) PROVE GaugesConserved'
  BY <1>2, ThreadMoves DEF GetConnection, AsNat
<1>3. ASSUME NEW t \in Threads, Take(t) PROVE GaugesConserved'
  <2>1. /\ activeConnections' = activeConnections /\ leaked' = leaked /\ opened' = opened
        /\ checker' = checker
    BY <1>3 DEF Take
  <2>2. Len(recycledConnections') = Len(recycledConnections) - 1
    BY <1>3 DEF Take, TypeOK
  <2>3. At({"taken"})' = At({"taken"}) + 1 /\ At({"decr"})' = At({"decr"})
    BY <1>3, ThreadMoves
  <2>. QED BY <2>1, <2>2, <2>3 DEF AsNat
<1>4. ASSUME NEW t \in Threads, TakeInterrupted(t) PROVE GaugesConserved'
  BY <1>4, ThreadMoves DEF TakeInterrupted, AsNat
<1>5. ASSUME NEW t \in Threads, TakeTimedOut(t) PROVE GaugesConserved'
  <2>1. /\ activeConnections' = activeConnections /\ leaked' = leaked + 1 /\ opened' = opened
        /\ checker' = checker
    BY <1>5 DEF TakeTimedOut
  <2>2. Len(recycledConnections') = Len(recycledConnections)
    BY <1>5 DEF TakeTimedOut, TypeOK
  <2>3. At({"taken"})' = At({"taken"}) - 1 /\ At({"decr"})' = At({"decr"})
    BY <1>5, ThreadMoves
  <2>. QED BY <2>1, <2>2, <2>3 DEF AsNat
<1>6. ASSUME NEW t \in Threads, ReturnConnection(t) PROVE GaugesConserved'
  <2>1. /\ activeConnections' = activeConnections + 1 /\ leaked' = leaked /\ opened' = opened
        /\ checker' = checker
    BY <1>6 DEF ReturnConnection
  <2>2. Len(recycledConnections') = Len(recycledConnections)
    BY <1>6 DEF ReturnConnection, TypeOK
  <2>3. At({"taken"})' = At({"taken"}) - 1 /\ At({"decr"})' = At({"decr"})
    BY <1>6, ThreadMoves
  <2>. QED BY <2>1, <2>2, <2>3 DEF AsNat
<1>7. ASSUME NEW t \in Threads, CloseHandlerAdd(t) PROVE GaugesConserved'
  <2>1. /\ activeConnections' = activeConnections /\ leaked' = leaked /\ opened' = opened
        /\ checker' = checker
    BY <1>7 DEF CloseHandlerAdd
  <2>2. Len(recycledConnections') = Len(recycledConnections) + 1
    BY <1>7 DEF CloseHandlerAdd, TypeOK
  <2>3. At({"taken"})' = At({"taken"}) /\ At({"decr"})' = At({"decr"}) + 1
    BY <1>7, ThreadMoves
  <2>. QED BY <2>1, <2>2, <2>3 DEF AsNat
<1>8. ASSUME NEW t \in Threads, CloseHandlerAddFails(t) PROVE GaugesConserved'
  BY <1>8, ThreadMoves DEF CloseHandlerAddFails, AsNat
<1>9. ASSUME NEW t \in Threads, CloseHandlerDecrement(t) PROVE GaugesConserved'
  <2>1. /\ activeConnections' = activeConnections - 1 /\ leaked' = leaked /\ opened' = opened
        /\ checker' = checker
    BY <1>9 DEF CloseHandlerDecrement
  <2>2. Len(recycledConnections') = Len(recycledConnections)
    BY <1>9 DEF CloseHandlerDecrement, TypeOK
  <2>3. At({"taken"})' = At({"taken"}) /\ At({"decr"})' = At({"decr"}) - 1
    BY <1>9, ThreadMoves
  <2>. QED BY <2>1, <2>2, <2>3 DEF AsNat
<1>10. CASE CheckLoop
  BY <1>10, <1>stay DEF CheckLoop, AsNat
<1>11. CASE CheckTake
  <2>1. /\ activeConnections' = activeConnections /\ leaked' = leaked /\ opened' = opened
        /\ checker = "take" /\ checker' = "taken" /\ pc' = pc
    BY <1>11 DEF CheckTake
  <2>2. Len(recycledConnections') = Len(recycledConnections) - 1
    BY <1>11 DEF CheckTake, TypeOK
  <2>. QED BY <2>1, <2>2, <1>stay DEF AsNat
<1>12. CASE CheckIncrement
  <2>1. /\ activeConnections' = activeConnections + 1 /\ leaked' = leaked /\ opened' = opened
        /\ checker = "taken" /\ checker' = "valid" /\ pc' = pc
    BY <1>12 DEF CheckIncrement
  <2>2. Len(recycledConnections') = Len(recycledConnections)
    BY <1>12 DEF CheckIncrement, TypeOK
  <2>. QED BY <2>1, <2>2, <1>stay DEF AsNat
<1>13. CASE CheckDies
  BY <1>13, <1>stay DEF CheckDies, AsNat
<1>14. CASE CheckAdd
  <2>1. /\ activeConnections' = activeConnections /\ leaked' = leaked /\ opened' = opened
        /\ checker = "valid" /\ checker' = "decr" /\ pc' = pc
    BY <1>14 DEF CheckAdd
  <2>2. Len(recycledConnections') = Len(recycledConnections) + 1
    BY <1>14 DEF CheckAdd, TypeOK
  <2>. QED BY <2>1, <2>2, <1>stay DEF AsNat
<1>15. CASE CheckDecrement
  <2>1. /\ activeConnections' = activeConnections - 1 /\ leaked' = leaked /\ opened' = opened
        /\ checker = "decr" /\ checker' = "sleep" /\ pc' = pc
    BY <1>15 DEF CheckDecrement
  <2>2. Len(recycledConnections') = Len(recycledConnections)
    BY <1>15 DEF CheckDecrement, TypeOK
  <2>. QED BY <2>1, <2>2, <1>stay DEF AsNat
<1>16. CASE CheckSleep
  BY <1>16, <1>stay DEF CheckSleep, AsNat
<1>17. CASE Close
  BY <1>17, <1>stay DEF Close, AsNat
<1>18. CASE DrainTest
  BY <1>18, <1>stay DEF DrainTest, AsNat
<1>19. CASE DrainTake
  <2>1. /\ activeConnections' = activeConnections /\ leaked' = leaked + 1 /\ opened' = opened
        /\ checker' = checker /\ pc' = pc
    BY <1>19 DEF DrainTake
  <2>2. Len(recycledConnections') = Len(recycledConnections) - 1
    BY <1>19 DEF DrainTake, TypeOK
  <2>. QED BY <2>1, <2>2, <1>stay DEF AsNat
<1>20. CASE UNCHANGED vars
  BY <1>20, <1>stay DEF vars, AsNat
<1>. QED
  BY <1>1, <1>2, <1>3, <1>4, <1>5, <1>6, <1>7, <1>8, <1>9, <1>10,
     <1>11, <1>12, <1>13, <1>14, <1>15, <1>16, <1>17, <1>18, <1>19, <1>20 DEF Next, ThreadStep, CheckerStep

\* A new pool has empty gauges.
LEMMA GaugesInit == Init => GaugesConserved
<1> SUFFICES ASSUME Init PROVE GaugesConserved
  OBVIOUS
<1>1. {t \in Threads : pc[t] \in {"taken"}} = {} /\ {t \in Threads : pc[t] \in {"decr"}} = {}
  BY DEF Init
<1>2. At({"taken"}) = 0 /\ At({"decr"}) = 0
  BY <1>1, FS_EmptySet DEF At, Count
<1>3. Len(recycledConnections) = 0
  BY DEF Init
<1>. QED BY <1>2, <1>3 DEF Init, GaugesConserved, AsNat

\* The sum of the pool's two gauges is the number of surviving connections, up
\* to the steps in flight, for any number of threads and any misuse of close().
THEOREM GaugesAlwaysConserved == Spec => []GaugesConserved
BY TypeInit, GaugesInit, TypeStep, GaugesStep, PTL DEF Spec

-----------------------------------------------------------------------------
\* With good developers only a borrower calls closeHandler.
LEMMA GoodClose ==
    ASSUME TypeOK, GoodDevelopers', NEW t \in Threads, CallsClose(t)
    PROVE  pc[t] = "use" /\ extraCloses' = extraCloses
BY DEF CallsClose, GoodDevelopers, TypeOK

\* Extra closes are never undone: developers that are good after a step were
\* good before it.
LEMMA GoodBefore == TypeOK /\ [Next]_vars /\ GoodDevelopers' => GoodDevelopers
<1> SUFFICES ASSUME TypeOK, [Next]_vars, extraCloses' = 0 PROVE extraCloses = 0
  BY DEF GoodDevelopers
<1>1. ASSUME NEW t \in Threads, CallsClose(t) PROVE extraCloses = 0
  BY <1>1, GoodClose DEF GoodDevelopers
<1>2. ASSUME NEW t \in Threads, CloseHandlerAdd(t) \/ CloseHandlerAddFails(t) PROVE extraCloses = 0
  BY <1>1, <1>2 DEF CloseHandlerAdd, CloseHandlerAddFails
<1>3. CASE extraCloses' = extraCloses
  BY <1>3
<1>4. ASSUME NEW t \in Threads, ThreadStep(t) PROVE extraCloses = 0
  BY <1>2, <1>3, <1>4 DEF ThreadStep, GetConnection, Take, TakeInterrupted, TakeTimedOut,
     ReturnConnection, CloseHandlerDecrement
<1>5. ASSUME CheckerStep PROVE extraCloses = 0
  BY <1>3, <1>5 DEF CheckerStep, CheckLoop, CheckTake, CheckIncrement, CheckDies, CheckAdd,
     CheckDecrement, CheckSleep
<1>. QED BY <1>3, <1>4, <1>5 DEF Next, PopulateConnection, Close, DrainTest, DrainTake, vars

\* The threads about to decrement are among those the counter counts, and a
\* borrower at "use" comes on top of them.
LEMMA DecrementersCounted ==
    ASSUME TypeOK
    PROVE  /\ At({"decr"}) <= At({"use", "decr"})
           /\ At({"use"}) > 0 => At({"decr"}) + 1 <= At({"use", "decr"})
<1> DEFINE U == {t \in Threads : pc[t] \in {"use"}}
           D == {t \in Threads : pc[t] \in {"decr"}}
           UD == {t \in Threads : pc[t] \in {"use", "decr"}}
<1>1. IsFiniteSet(U) /\ IsFiniteSet(D) /\ IsFiniteSet(UD)
  BY PoolAssumption, FS_Subset
<1>2. D \subseteq UD
  OBVIOUS
<1>3. Cardinality(D) <= Cardinality(UD)
  BY <1>1, <1>2, FS_Subset
<1>4. ASSUME Cardinality(U) > 0 PROVE Cardinality(D) + 1 <= Cardinality(UD)
  <2>1. PICK t \in U : TRUE
    BY <1>1, <1>4, FS_EmptySet
  <2>2. D \subseteq UD \ {t} /\ t \in UD
    BY <2>1
  <2>3. IsFiniteSet(UD \ {t}) /\ Cardinality(UD \ {t}) = Cardinality(UD) - 1
    BY <1>1, <2>2, FS_RemoveElement
  <2>4. Cardinality(D) <= Cardinality(UD \ {t})
    BY <2>2, <2>3, FS_Subset
  <2>5. Cardinality(D) \in Nat /\ Cardinality(UD) \in Nat
    BY <1>1, FS_CardinalityType
  <2>. QED BY <2>3, <2>4, <2>5
<1>. QED BY <1>3, <1>4 DEF At, Count

\* The two accounting invariants leave a slot free for whoever gives back.
LEMMA Room == TypeInv /\ GaugesConserved /\ ActiveIsExact => QueueHasRoom
<1> SUFFICES ASSUME TypeInv, GaugesConserved, ActiveIsExact, GoodDevelopers,
                    At({"use"}) > 0 \/ checker = "valid"
             PROVE  Len(recycledConnections) < QueueCapacity
  BY DEF QueueHasRoom
<1>1. /\ At({"taken"}) \in Nat /\ At({"decr"}) \in Nat /\ At({"use", "decr"}) \in Nat
      /\ Len(recycledConnections) \in Nat
      /\ activeConnections \in Int /\ leaked \in Nat /\ opened \in Nat
      /\ QueueCapacity \in Nat /\ opened <= QueueCapacity /\ TypeOK
  BY AtNat, PoolAssumption DEF TypeInv, TypeOK
<1>2. /\ At({"decr"}) <= At({"use", "decr"})
      /\ At({"use"}) > 0 => At({"decr"}) + 1 <= At({"use", "decr"})
  BY <1>1, DecrementersCounted
<1>3. activeConnections = At({"use", "decr"}) + AsNat(checker \in {"valid", "decr", "dead"})
  BY DEF ActiveIsExact
<1>4. /\ AsNat(checker = "decr") <= AsNat(checker \in {"valid", "decr", "dead"})
      /\ checker = "valid" => AsNat(checker = "decr") + 1 <= AsNat(checker \in {"valid", "decr", "dead"})
      /\ AsNat(checker = "decr") \in Nat /\ AsNat(checker = "taken") \in Nat
      /\ AsNat(checker \in {"valid", "decr", "dead"}) \in Nat
  BY DEF AsNat
<1> DEFINE cd == AsNat(checker = "decr")
           ct == AsNat(checker = "taken")
           ca == AsNat(checker \in {"valid", "decr", "dead"})
<1>5. activeConnections + Len(recycledConnections) + At({"taken"}) + ct = (opened - leaked) + At({"decr"}) + cd
  BY DEF GaugesConserved
<1>6. activeConnections >= At({"decr"}) + cd + 1
  <2> HIDE DEF cd, ct, ca
  <2>1. CASE At({"use"}) > 0
    BY <1>1, <1>2, <1>3, <1>4, <2>1 DEF cd, ca
  <2>2. CASE checker = "valid"
    BY <1>1, <1>2, <1>3, <1>4, <2>2 DEF cd, ca
  <2>. QED BY <2>1, <2>2
<1>7. cd \in Nat /\ ct \in Nat
  BY DEF AsNat
<1> HIDE DEF cd, ct, ca
<1>. QED BY <1>1, <1>5, <1>6, <1>7

\* With good developers every step keeps the active counter exact.
LEMMA ActiveStep == TypeInv /\ GaugesConserved /\ ActiveIsExact /\ [Next]_vars => ActiveIsExact'
<1> SUFFICES ASSUME TypeInv, GaugesConserved, ActiveIsExact, [Next]_vars,
                    GoodDevelopers, GoodDevelopers'
             PROVE  ActiveIsExact'
  BY GoodBefore DEF ActiveIsExact, TypeInv
<1>stay. ASSUME pc' = pc PROVE At({"use", "decr"})' = At({"use", "decr"})
  BY <1>stay, StayAt
<1>nat. /\ At({"use", "decr"}) \in Nat /\ activeConnections \in Int /\ TypeOK
        /\ Len(recycledConnections) \in Nat /\ QueueCapacity \in Nat
  BY AtNat, PoolAssumption DEF TypeInv, TypeOK
<1> USE <1>nat DEF ActiveIsExact, poolVars, ctorVars, threadVars, checkerVars, closeVars
<1>1. CASE PopulateConnection
  BY <1>1, <1>stay DEF PopulateConnection, AsNat
<1>2. ASSUME NEW t \in Threads, GetConnection(t) PROVE ActiveIsExact'
  BY <1>2, ThreadMoves DEF GetConnection, AsNat
<1>3. ASSUME NEW t \in Threads, Take(t) PROVE ActiveIsExact'
  BY <1>3, ThreadMoves DEF Take, AsNat
<1>4. ASSUME NEW t \in Threads, TakeInterrupted(t) PROVE ActiveIsExact'
  BY <1>4, ThreadMoves DEF TakeInterrupted, AsNat
<1>5. ASSUME NEW t \in Threads, TakeTimedOut(t) PROVE ActiveIsExact'
  BY <1>5, ThreadMoves DEF TakeTimedOut, AsNat
<1>6. ASSUME NEW t \in Threads, ReturnConnection(t) PROVE ActiveIsExact'
  <2>1. activeConnections' = activeConnections + 1 /\ checker' = checker
    BY <1>6 DEF ReturnConnection
  <2>2. At({"use", "decr"})' = At({"use", "decr"}) + 1
    BY <1>6, ThreadMoves
  <2>. QED BY <2>1, <2>2 DEF AsNat
<1>7. ASSUME NEW t \in Threads, CloseHandlerAdd(t) PROVE ActiveIsExact'
  <2>1. pc[t] = "use" /\ activeConnections' = activeConnections /\ checker' = checker
    BY <1>7, GoodClose DEF CloseHandlerAdd
  <2>2. At({"use", "decr"})' = At({"use", "decr"})
    BY <1>7, <2>1, ThreadMoves
  <2>. QED BY <2>1, <2>2 DEF AsNat
<1>8. ASSUME NEW t \in Threads, CloseHandlerAddFails(t) PROVE ActiveIsExact'
  <2>1. pc[t] = "use" /\ Len(recycledConnections) >= QueueCapacity
    BY <1>8, GoodClose DEF CloseHandlerAddFails
  <2>2. At({"use"}) > 0
    BY <2>1, AtPositive
  <2>. QED BY <2>1, <2>2, Room DEF QueueHasRoom
<1>9. ASSUME NEW t \in Threads, CloseHandlerDecrement(t) PROVE ActiveIsExact'
  <2>1. activeConnections' = activeConnections - 1 /\ checker' = checker
    BY <1>9 DEF CloseHandlerDecrement
  <2>2. At({"use", "decr"})' = At({"use", "decr"}) - 1
    BY <1>9, ThreadMoves
  <2>. QED BY <2>1, <2>2 DEF AsNat
<1>10. CASE CheckLoop
  BY <1>10, <1>stay DEF CheckLoop, AsNat
<1>11. CASE CheckTake
  BY <1>11, <1>stay DEF CheckTake, AsNat
<1>12. CASE CheckIncrement
  BY <1>12, <1>stay DEF CheckIncrement, AsNat
<1>13. CASE CheckDies
  BY <1>13, <1>stay DEF CheckDies, AsNat
<1>14. CASE CheckAdd
  BY <1>14, <1>stay DEF CheckAdd, AsNat
<1>15. CASE CheckDecrement
  BY <1>15, <1>stay DEF CheckDecrement, AsNat
<1>16. CASE CheckSleep
  BY <1>16, <1>stay DEF CheckSleep, AsNat
<1>17. CASE Close
  BY <1>17, <1>stay DEF Close, AsNat
<1>18. CASE DrainTest
  BY <1>18, <1>stay DEF DrainTest, AsNat
<1>19. CASE DrainTake
  BY <1>19, <1>stay DEF DrainTake, AsNat
<1>20. CASE UNCHANGED vars
  BY <1>20, <1>stay DEF vars, AsNat
<1>. QED
  BY <1>1, <1>2, <1>3, <1>4, <1>5, <1>6, <1>7, <1>8, <1>9, <1>10,
     <1>11, <1>12, <1>13, <1>14, <1>15, <1>16, <1>17, <1>18, <1>19, <1>20 DEF Next, ThreadStep, CheckerStep

\* The active counter is exact, and giving a connection back never fails, for
\* any number of threads as long as nobody closes twice.
THEOREM ActiveAlwaysExact == Spec => []ActiveIsExact /\ []QueueHasRoom
<1>1. Init => ActiveIsExact
  <2>1. Init => {t \in Threads : pc[t] \in {"use", "decr"}} = {}
    BY DEF Init
  <2>2. Init => At({"use", "decr"}) = 0
    BY <2>1, FS_EmptySet DEF At, Count
  <2>. QED BY <2>2 DEF Init, ActiveIsExact, AsNat
<1>. QED BY <1>1, TypeInit, GaugesInit, TypeStep, GaugesStep, ActiveStep, Room, PTL DEF Spec

-----------------------------------------------------------------------------
\* Indices of a queue after a take() and after an add().
LEMMA TailIndices ==
    ASSUME NEW q \in Seq(Conns), q # <<>>
    PROVE  /\ DOMAIN Tail(q) = 1..(Len(q) - 1) /\ DOMAIN q = 1..Len(q) /\ Len(q) \in Nat \ {0}
           /\ \A i \in 1..(Len(q) - 1) : Tail(q)[i] = q[i + 1]
           /\ Head(q) = q[1] /\ 1 \in DOMAIN q
OBVIOUS

\* The indices of a queue with one connection more at its end.
LEMMA AppendIndices ==
    ASSUME NEW q \in Seq(Conns), NEW c \in Conns
    PROVE  /\ DOMAIN Append(q, c) = 1..(Len(q) + 1) /\ DOMAIN q = 1..Len(q) /\ Len(q) \in Nat
           /\ \A i \in 1..Len(q) : Append(q, c)[i] = q[i]
           /\ Append(q, c)[Len(q) + 1] = c
OBVIOUS

\* With good developers no step makes two parties share a connection.
LEMMA SharingStep == TypeInv /\ NoSharing /\ [Next]_vars => NoSharing'
<1> SUFFICES ASSUME TypeInv, NoSharing, [Next]_vars, GoodDevelopers, GoodDevelopers'
             PROVE  NoSharing'
  BY GoodBefore DEF NoSharing, TypeInv
<1>type. /\ recycledConnections \in Seq(Conns) /\ pc \in [Threads -> ThreadPC]
         /\ ref \in [Threads -> Conns \cup {NoConn}] /\ populated \in Nat
         /\ TypeOK /\ RefsOpened
  BY PoolAssumption DEF TypeInv, TypeOK
<1> USE <1>type DEF NoSharing, Owns, CheckerOwns, poolVars, ctorVars, threadVars, checkerVars, closeVars
<1>1. CASE PopulateConnection
  <2>1. populated + 1 \in Conns
    BY <1>1, PoolAssumption DEF PopulateConnection, Constructed, Conns, TypeOK
  <2>2. \A i \in DOMAIN recycledConnections : recycledConnections[i] # populated + 1
    BY DEF RefsOpened, Conns
  <2>3. /\ checker' = checker /\ checker = "loop" /\ pc' = pc
        /\ \A t \in Threads : pc[t] = "out"
    BY <1>1 DEF PopulateConnection, RefsOpened
  <2>4. \A i, j \in DOMAIN recycledConnections' :
            recycledConnections'[i] = recycledConnections'[j] => i = j
    BY <1>1, <2>1, <2>2, AppendIndices DEF PopulateConnection
  <2>. QED BY <2>3, <2>4
<1>2. ASSUME NEW t \in Threads, GetConnection(t) PROVE NoSharing'
  BY <1>2 DEF GetConnection
<1>3. ASSUME NEW t \in Threads, Take(t) PROVE NoSharing'
  BY <1>3, TailIndices DEF Take
<1>4. ASSUME NEW t \in Threads, TakeInterrupted(t) PROVE NoSharing'
  BY <1>4 DEF TakeInterrupted
<1>5. ASSUME NEW t \in Threads, TakeTimedOut(t) PROVE NoSharing'
  BY <1>5 DEF TakeTimedOut
<1>6. ASSUME NEW t \in Threads, ReturnConnection(t) PROVE NoSharing'
  BY <1>6 DEF ReturnConnection
<1>7. ASSUME NEW t \in Threads, CloseHandlerAdd(t) PROVE NoSharing'
  <2>1. pc[t] = "use" /\ ref[t] \in Conns
    BY <1>7, GoodClose, PoolAssumption DEF CloseHandlerAdd, RefsOpened, Conns, TypeOK
  <2>. QED BY <1>7, <2>1, AppendIndices DEF CloseHandlerAdd
<1>8. ASSUME NEW t \in Threads, CloseHandlerAddFails(t) PROVE NoSharing'
  BY <1>8 DEF CloseHandlerAddFails
<1>9. ASSUME NEW t \in Threads, CloseHandlerDecrement(t) PROVE NoSharing'
  BY <1>9 DEF CloseHandlerDecrement
<1>10. CASE CheckLoop
  BY <1>10 DEF CheckLoop
<1>11. CASE CheckTake
  BY <1>11, TailIndices DEF CheckTake
<1>12. CASE CheckIncrement
  BY <1>12 DEF CheckIncrement
<1>13. CASE CheckDies
  BY <1>13 DEF CheckDies
<1>14. CASE CheckAdd
  <2>1. checked \in Conns
    BY <1>14, PoolAssumption DEF CheckAdd, RefsOpened, Conns, TypeOK
  <2>. QED BY <1>14, <2>1, AppendIndices DEF CheckAdd
<1>15. CASE CheckDecrement
  BY <1>15 DEF CheckDecrement
<1>16. CASE CheckSleep
  BY <1>16 DEF CheckSleep
<1>17. CASE Close
  BY <1>17 DEF Close
<1>18. CASE DrainTest
  BY <1>18 DEF DrainTest
<1>19. CASE DrainTake
  BY <1>19, TailIndices DEF DrainTake
<1>20. CASE UNCHANGED vars
  BY <1>20 DEF vars
<1>. QED
  BY <1>1, <1>2, <1>3, <1>4, <1>5, <1>6, <1>7, <1>8, <1>9, <1>10,
     <1>11, <1>12, <1>13, <1>14, <1>15, <1>16, <1>17, <1>18, <1>19, <1>20 DEF Next, ThreadStep, CheckerStep

\* No connection is ever shared: for any number of threads, any pool size and
\* any interleaving with the checker and with close().
THEOREM NeverShared == Spec => []NoSharing
<1>1. Init => NoSharing
  BY DEF Init, NoSharing, Owns, CheckerOwns
<1>. QED BY <1>1, TypeInit, TypeStep, SharingStep, PTL DEF Spec

-----------------------------------------------------------------------------
\* What the refinement mapping is on a state where nothing is shared.
OwnerLaw ==
    \A c \in Conns :
        /\ c > populated => ownerOf[c] = "unopened"
        /\ c <= populated /\ Idle(c) => ownerOf[c] = "idle"
        /\ \A u \in Users : Has(u, c) => c <= populated /\ ~Idle(c) /\ ownerOf[c] = u
        /\ c <= populated /\ ~Idle(c) /\ (\A u \in Users : ~Has(u, c)) => ownerOf[c] = "lost"

\* The mapping reads the owner off the queue and the references.
LEMMA OwnerCases == TypeInv /\ NoSharing /\ GoodDevelopers => OwnerLaw
<1> SUFFICES ASSUME TypeInv, NoSharing, GoodDevelopers, NEW c \in Conns
             PROVE  /\ c > populated => ownerOf[c] = "unopened"
                    /\ c <= populated /\ Idle(c) => ownerOf[c] = "idle"
                    /\ \A u \in Users : Has(u, c) => c <= populated /\ ~Idle(c) /\ ownerOf[c] = u
                    /\ c <= populated /\ ~Idle(c) /\ (\A u \in Users : ~Has(u, c)) => ownerOf[c] = "lost"
  BY DEF OwnerLaw
<1>0. populated \in Int /\ c \in Int
  BY PoolAssumption DEF TypeInv, TypeOK, Conns
<1>1. ownerOf[c] = IF c > populated THEN "unopened"
                   ELSE IF Idle(c) THEN "idle"
                   ELSE IF \E u \in Users : Has(u, c) THEN CHOOSE u \in Users : Has(u, c)
                   ELSE "lost"
  BY DEF ownerOf
<1>2. ASSUME NEW u \in Users, Has(u, c) PROVE c <= populated /\ ~Idle(c)
  BY <1>0, <1>2 DEF Has, Users, Idle, NoSharing, TypeInv, RefsOpened
<1>3. ASSUME NEW u \in Users, NEW v \in Users, Has(u, c), Has(v, c) PROVE u = v
  BY <1>3 DEF Has, Users, NoSharing
<1>4. ASSUME NEW u \in Users, Has(u, c) PROVE ownerOf[c] = u
  <2>1. ownerOf[c] = CHOOSE v \in Users : Has(v, c)
    BY <1>0, <1>1, <1>2, <1>4
  <2>2. \E v \in Users : Has(v, c)
    BY <1>4
  <2>3. (CHOOSE v \in Users : Has(v, c)) \in Users /\ Has(CHOOSE v \in Users : Has(v, c), c)
    BY <2>2
  <2>. QED BY <1>3, <1>4, <2>1, <2>3
<1>5. /\ c > populated => ownerOf[c] = "unopened"
      /\ c <= populated /\ Idle(c) => ownerOf[c] = "idle"
      /\ c <= populated /\ ~Idle(c) /\ (\A u \in Users : ~Has(u, c)) => ownerOf[c] = "lost"
  BY <1>0, <1>1
<1>. QED BY <1>2, <1>4, <1>5

\* A step that moves no connection does not change the owners.
LEMMA OwnerSame ==
    ASSUME populated' = populated, recycledConnections' = recycledConnections,
           \A u \in Users, c \in Conns : Has(u, c)' <=> Has(u, c)
    PROVE  ownerOf' = ownerOf
<1>1. \A c \in Conns : Idle(c)' <=> Idle(c)
  BY DEF Idle
<1>2. ASSUME NEW c \in Conns PROVE ownerOf'[c] = ownerOf[c]
  <2>1. (\E u \in Users : Has(u, c)') <=> (\E u \in Users : Has(u, c))
    OBVIOUS
  <2>2. (CHOOSE u \in Users : Has(u, c)') = (CHOOSE u \in Users : Has(u, c))
    OBVIOUS
  <2>. QED BY <1>1, <2>1, <2>2 DEF ownerOf
<1>. QED BY <1>2 DEF ownerOf

\* One owner changes: how a step that moves connection c maps.
LEMMA OwnerMove ==
    ASSUME OwnerLaw, OwnerLaw', populated' = populated, populated \in Int, NEW c \in Conns, NEW x,
           \A d \in Conns \ {c} : (Idle(d)' <=> Idle(d)) /\ \A u \in Users : Has(u, d)' <=> Has(u, d),
           ownerOf'[c] = x
    PROVE  ownerOf' = [ownerOf EXCEPT ![c] = x]
<1>1. ASSUME NEW d \in Conns \ {c} PROVE ownerOf'[d] = ownerOf[d]
  <2>0. d \in Int
    BY DEF Conns
  <2>1. CASE d > populated
    BY <2>1 DEF OwnerLaw
  <2>2. CASE d <= populated /\ Idle(d)
    BY <2>2 DEF OwnerLaw
  <2>3. CASE d <= populated /\ ~Idle(d) /\ \E u \in Users : Has(u, d)
    BY <2>3 DEF OwnerLaw
  <2>4. CASE d <= populated /\ ~Idle(d) /\ \A u \in Users : ~Has(u, d)
    BY <2>4 DEF OwnerLaw
  <2>. QED BY <2>0, <2>1, <2>2, <2>3, <2>4
<1>2. ownerOf = [d \in Conns |-> ownerOf[d]] /\ ownerOf' = [d \in Conns |-> ownerOf'[d]]
  BY DEF ownerOf
<1>. QED BY <1>1, <1>2

\* With good developers every step of the pool is a step of the promise.
LEMMA PromiseStep ==
    TypeInv /\ QueueHasRoom /\ NoSharing /\ OwnerLaw /\ OwnerLaw' /\ GoodDevelopers
        /\ GoodDevelopers' /\ [Next]_vars
        => [Promise!Next]_ownerOf
<1> SUFFICES ASSUME TypeInv, QueueHasRoom, NoSharing, OwnerLaw, OwnerLaw', GoodDevelopers,
                    GoodDevelopers', [Next]_vars
             PROVE  Promise!Next \/ ownerOf' = ownerOf
  OBVIOUS
<1>type. /\ recycledConnections \in Seq(Conns) /\ pc \in [Threads -> ThreadPC]
         /\ ref \in [Threads -> Conns \cup {NoConn}] /\ populated \in Int
         /\ TypeOK /\ RefsOpened /\ "checker" \notin Threads
  BY PoolAssumption DEF TypeInv, TypeOK
<1> USE <1>type DEF poolVars, ctorVars, threadVars, checkerVars, closeVars
<1>1. CASE PopulateConnection
  <2>0. PICK c \in Conns : c = populated + 1
    BY <1>1, PoolAssumption DEF PopulateConnection, Constructed, Conns, TypeOK
  <2>1. /\ ownerOf[c] = "unopened" /\ c <= populated' /\ populated' = c
        /\ checker' = checker /\ checker = "loop" /\ pc' = pc /\ \A t \in Threads : pc[t] = "out"
    BY <1>1, <2>0, PoolAssumption DEF PopulateConnection, Constructed, Conns, TypeOK, RefsOpened, OwnerLaw
  <2>2. \A u \in Users, d \in Conns : ~Has(u, d) /\ ~Has(u, d)'
    BY <2>1 DEF Has, Owns, CheckerOwns, Users
  <2>3. ~Idle(c)
    BY <2>0 DEF Idle, RefsOpened, Conns
  <2>4. ASSUME NEW d \in Conns \ {c} PROVE Idle(d)' <=> Idle(d)
    <3>1. CASE recycledConnections' = Append(recycledConnections, c)
      <4> DEFINE q == recycledConnections
      <4>1. /\ DOMAIN Append(q, c) = 1..(Len(q) + 1) /\ DOMAIN q = 1..Len(q) /\ Len(q) \in Nat
            /\ \A i \in 1..Len(q) : Append(q, c)[i] = q[i]
            /\ Append(q, c)[Len(q) + 1] = c
        BY AppendIndices
      <4>2. DOMAIN q' = 1..(Len(q) + 1) /\ q'[Len(q) + 1] = c /\ \A i \in 1..Len(q) : q'[i] = q[i]
        BY <3>1, <4>1
      <4> HIDE DEF q
      <4>3. (\E i \in DOMAIN q' : q'[i] = d) <=> (\E i \in DOMAIN q : q[i] = d)
        BY <4>1, <4>2
      <4>. QED BY <4>3 DEF Idle, q
    <3>2. CASE UNCHANGED recycledConnections
      BY <3>2 DEF Idle
    <3>. QED BY <1>1, <2>0, <3>1, <3>2 DEF PopulateConnection
  <2>5. ASSUME NEW d \in Conns \ {c} PROVE ownerOf'[d] = ownerOf[d]
    <3>1. d \in Int /\ (d > populated <=> d > populated') /\ (d <= populated <=> d <= populated')
      BY <2>0, <2>1 DEF Conns
    <3>. QED BY <2>2, <2>4, <3>1 DEF OwnerLaw
  <2>6. ownerOf = [d \in Conns |-> ownerOf[d]] /\ ownerOf' = [d \in Conns |-> ownerOf'[d]]
    BY DEF ownerOf
  <2>7. CASE Idle(c)'
    <3>1. ownerOf'[c] = "idle"
      BY <2>1, <2>7 DEF OwnerLaw
    <3>2. ownerOf' = [ownerOf EXCEPT ![c] = "idle"]
      BY <2>5, <2>6, <3>1
    <3>. QED BY <2>1, <3>2 DEF Promise!Next, Promise!Open
  <2>8. CASE ~Idle(c)'
    <3>1. ownerOf'[c] = "lost"
      BY <2>1, <2>2, <2>8 DEF OwnerLaw
    <3>2. ownerOf' = [ownerOf EXCEPT ![c] = "lost"]
      BY <2>5, <2>6, <3>1
    <3>. QED BY <2>1, <3>2 DEF Promise!Next, Promise!OpenFails
  <2>. QED BY <2>7, <2>8
<1>2. ASSUME NEW t \in Threads, GetConnection(t) PROVE ownerOf' = ownerOf
  <2>1. \A u \in Users, c \in Conns : Has(u, c)' <=> Has(u, c)
    BY <1>2 DEF GetConnection, Has, Owns, CheckerOwns, Users
  <2>. QED BY <1>2, <2>1, OwnerSame DEF GetConnection
<1>3. ASSUME NEW t \in Threads, Take(t) PROVE Promise!Next
  <2>0. PICK c \in Conns : c = Head(recycledConnections) /\ c = recycledConnections[1]
    BY <1>3, TailIndices, HeadTailProperties DEF Take
  <2>1. c <= populated /\ Idle(c) /\ populated' = populated
    BY <1>3, <2>0, TailIndices DEF Take, Idle, RefsOpened
  <2>2. ASSUME NEW d \in Conns PROVE Idle(d)' <=> Idle(d) /\ d # c
    <3>1. ASSUME Idle(d)' PROVE Idle(d) /\ d # c
      <4>1. PICK i \in 1..(Len(recycledConnections) - 1) : recycledConnections[i + 1] = d
        BY <1>3, <3>1, TailIndices DEF Take, Idle
      <4>2. i + 1 \in DOMAIN recycledConnections /\ 1 \in DOMAIN recycledConnections /\ i + 1 # 1
        BY <1>3, TailIndices DEF Take
      <4>. QED BY <2>0, <4>1, <4>2 DEF Idle, NoSharing
    <3>2. ASSUME Idle(d), d # c PROVE Idle(d)'
      <4>1. PICK i \in DOMAIN recycledConnections : recycledConnections[i] = d
        BY <3>2 DEF Idle
      <4>2. i \in 1..Len(recycledConnections) /\ i # 1 /\ Len(recycledConnections) \in Nat
        BY <2>0, <3>2, <4>1
      <4>3. i - 1 \in DOMAIN recycledConnections' /\ recycledConnections'[i - 1] = d
        BY <1>3, <4>1, <4>2, TailIndices DEF Take
      <4>. QED BY <4>3 DEF Idle
    <3>. QED BY <3>1, <3>2
  <2>3. ownerOf[c] = "idle" /\ \A u \in Users : ~Has(u, c)
    BY <2>1 DEF OwnerLaw
  <2>4. t \in Users /\ Has(t, c)' /\ \A u \in Users, d \in Conns \ {c} : Has(u, d)' <=> Has(u, d)
    BY <1>3, <2>0, <2>3 DEF Take, Has, Owns, CheckerOwns, Users
  <2>5. ownerOf'[c] = t
    BY <2>1, <2>4 DEF OwnerLaw
  <2>6. ownerOf' = [ownerOf EXCEPT ![c] = t]
    BY <2>1, <2>2, <2>4, <2>5, OwnerMove
  <2>. QED BY <2>1, <2>3, <2>4, <2>6 DEF Promise!Next, Promise!Borrow
<1>4. ASSUME NEW t \in Threads, TakeInterrupted(t) PROVE ownerOf' = ownerOf
  <2>1. \A u \in Users, c \in Conns : Has(u, c)' <=> Has(u, c)
    BY <1>4 DEF TakeInterrupted, Has, Owns, CheckerOwns, Users
  <2>. QED BY <1>4, <2>1, OwnerSame DEF TakeInterrupted
<1>5. ASSUME NEW t \in Threads, TakeTimedOut(t) PROVE Promise!Next
  <2>0. PICK c \in Conns : c = ref[t]
    BY <1>5, PoolAssumption DEF TakeTimedOut, RefsOpened, Owns, Conns, TypeOK
  <2>1. c <= populated /\ t \in Users /\ Has(t, c) /\ populated' = populated
    BY <1>5, <2>0, PoolAssumption DEF TakeTimedOut, RefsOpened, Has, Owns, Conns, Users, TypeOK
  <2>2. ownerOf[c] = t /\ ~Idle(c) /\ \A d \in Conns : Idle(d)' <=> Idle(d)
    BY <1>5, <2>1 DEF TakeTimedOut, OwnerLaw, Idle
  <2>3. \A u \in Users : ~Has(u, c)'
    BY <1>5, <2>0 DEF TakeTimedOut, Has, Owns, CheckerOwns, Users, NoSharing
  <2>4. \A u \in Users, d \in Conns \ {c} : Has(u, d)' <=> Has(u, d)
    BY <1>5, <2>0 DEF TakeTimedOut, Has, Owns, CheckerOwns, Users
  <2>5. ownerOf'[c] = "lost"
    BY <2>1, <2>2, <2>3 DEF OwnerLaw
  <2>6. ownerOf' = [ownerOf EXCEPT ![c] = "lost"]
    BY <2>1, <2>2, <2>4, <2>5, OwnerMove
  <2>. QED BY <2>1, <2>2, <2>6 DEF Promise!Next, Promise!Lose
<1>6. ASSUME NEW t \in Threads, ReturnConnection(t) PROVE ownerOf' = ownerOf
  <2>1. \A u \in Users, c \in Conns : Has(u, c)' <=> Has(u, c)
    BY <1>6 DEF ReturnConnection, Has, Owns, CheckerOwns, Users
  <2>. QED BY <1>6, <2>1, OwnerSame DEF ReturnConnection
<1>7. ASSUME NEW t \in Threads, CloseHandlerAdd(t) PROVE Promise!Next
  <2>0. PICK c \in Conns : c = ref[t]
    BY <1>7, GoodClose, PoolAssumption DEF CloseHandlerAdd, RefsOpened, Owns, CheckerOwns, Conns, TypeOK
  <2>1. c <= populated /\ t \in Users /\ Has(t, c) /\ populated' = populated
    BY <1>7, <2>0, GoodClose, PoolAssumption DEF CloseHandlerAdd, RefsOpened, Has, Owns, CheckerOwns, Conns, Users, TypeOK
  <2>2. ownerOf[c] = t /\ ~Idle(c)
    BY <2>1 DEF OwnerLaw
  <2>3. \A d \in Conns : Idle(d)' <=> Idle(d) \/ d = c
    BY <1>7, <2>0, AppendIndices DEF CloseHandlerAdd, Idle
  <2>4. \A u \in Users, d \in Conns \ {c} : Has(u, d)' <=> Has(u, d)
    BY <1>7, <2>0 DEF CloseHandlerAdd, Has, Owns, CheckerOwns, Users
  <2>5. ownerOf'[c] = "idle"
    BY <2>1, <2>3 DEF OwnerLaw
  <2>6. ownerOf' = [ownerOf EXCEPT ![c] = "idle"]
    BY <2>1, <2>3, <2>4, <2>5, OwnerMove
  <2>. QED BY <2>1, <2>2, <2>6 DEF Promise!Next, Promise!GiveBack
<1>8. ASSUME NEW t \in Threads, CloseHandlerAddFails(t) PROVE FALSE
  <2>1. pc[t] = "use" /\ Len(recycledConnections) >= QueueCapacity
    BY <1>8, GoodClose DEF CloseHandlerAddFails
  <2>2. At({"use"}) > 0 /\ At({"use"}) \in Nat /\ Len(recycledConnections) \in Nat /\ QueueCapacity \in Nat
    BY <2>1, AtPositive, AtNat, PoolAssumption, LenProperties
  <2>. QED BY <2>1, <2>2 DEF QueueHasRoom
<1>9. ASSUME NEW t \in Threads, CloseHandlerDecrement(t) PROVE ownerOf' = ownerOf
  <2>1. \A u \in Users, c \in Conns : Has(u, c)' <=> Has(u, c)
    BY <1>9 DEF CloseHandlerDecrement, Has, Owns, CheckerOwns, Users
  <2>. QED BY <1>9, <2>1, OwnerSame DEF CloseHandlerDecrement
<1>10. CASE CheckLoop
  <2>1. \A u \in Users, c \in Conns : Has(u, c)' <=> Has(u, c)
    BY <1>10 DEF CheckLoop, Has, Owns, CheckerOwns, Users
  <2>. QED BY <1>10, <2>1, OwnerSame DEF CheckLoop
<1>11. CASE CheckTake
  <2>0. PICK c \in Conns : c = Head(recycledConnections) /\ c = recycledConnections[1]
    BY <1>11, TailIndices, HeadTailProperties DEF CheckTake
  <2>1. c <= populated /\ Idle(c) /\ populated' = populated
    BY <1>11, <2>0, TailIndices DEF CheckTake, Idle, RefsOpened
  <2>2. ASSUME NEW d \in Conns PROVE Idle(d)' <=> Idle(d) /\ d # c
    <3>1. ASSUME Idle(d)' PROVE Idle(d) /\ d # c
      <4>1. PICK i \in 1..(Len(recycledConnections) - 1) : recycledConnections[i + 1] = d
        BY <1>11, <3>1, TailIndices DEF CheckTake, Idle
      <4>2. i + 1 \in DOMAIN recycledConnections /\ 1 \in DOMAIN recycledConnections /\ i + 1 # 1
        BY <1>11, TailIndices DEF CheckTake
      <4>. QED BY <2>0, <4>1, <4>2 DEF Idle, NoSharing
    <3>2. ASSUME Idle(d), d # c PROVE Idle(d)'
      <4>1. PICK i \in DOMAIN recycledConnections : recycledConnections[i] = d
        BY <3>2 DEF Idle
      <4>2. i \in 1..Len(recycledConnections) /\ i # 1 /\ Len(recycledConnections) \in Nat
        BY <2>0, <3>2, <4>1
      <4>3. i - 1 \in DOMAIN recycledConnections' /\ recycledConnections'[i - 1] = d
        BY <1>11, <4>1, <4>2, TailIndices DEF CheckTake
      <4>. QED BY <4>3 DEF Idle
    <3>. QED BY <3>1, <3>2
  <2>3. ownerOf[c] = "idle" /\ \A u \in Users : ~Has(u, c)
    BY <2>1 DEF OwnerLaw
  <2>4. "checker" \in Users /\ Has("checker", c)' /\ \A u \in Users, d \in Conns \ {c} : Has(u, d)' <=> Has(u, d)
    BY <1>11, <2>0, <2>3 DEF CheckTake, Has, Owns, CheckerOwns, Users
  <2>5. ownerOf'[c] = "checker"
    BY <2>1, <2>4 DEF OwnerLaw
  <2>6. ownerOf' = [ownerOf EXCEPT ![c] = "checker"]
    BY <2>1, <2>2, <2>4, <2>5, OwnerMove
  <2>. QED BY <2>1, <2>3, <2>4, <2>6 DEF Promise!Next, Promise!Borrow
<1>12. CASE CheckIncrement
  <2>1. \A u \in Users, c \in Conns : Has(u, c)' <=> Has(u, c)
    BY <1>12 DEF CheckIncrement, Has, Owns, CheckerOwns, Users
  <2>. QED BY <1>12, <2>1, OwnerSame DEF CheckIncrement
<1>13. CASE CheckDies
  <2>1. \A u \in Users, c \in Conns : Has(u, c)' <=> Has(u, c)
    BY <1>13 DEF CheckDies, Has, Owns, CheckerOwns, Users
  <2>. QED BY <1>13, <2>1, OwnerSame DEF CheckDies
<1>14. CASE CheckAdd
  <2>0. PICK c \in Conns : c = checked
    BY <1>14, PoolAssumption DEF CheckAdd, RefsOpened, Owns, CheckerOwns, Conns, TypeOK
  <2>1. c <= populated /\ "checker" \in Users /\ Has("checker", c) /\ populated' = populated
    BY <1>14, <2>0, PoolAssumption DEF CheckAdd, RefsOpened, Has, Owns, CheckerOwns, Conns, Users, TypeOK
  <2>2. ownerOf[c] = "checker" /\ ~Idle(c)
    BY <2>1 DEF OwnerLaw
  <2>3. \A d \in Conns : Idle(d)' <=> Idle(d) \/ d = c
    <3>1. /\ DOMAIN recycledConnections' = 1..(Len(recycledConnections) + 1)
          /\ DOMAIN recycledConnections = 1..Len(recycledConnections) /\ Len(recycledConnections) \in Nat
          /\ \A i \in 1..Len(recycledConnections) : recycledConnections'[i] = recycledConnections[i]
          /\ recycledConnections'[Len(recycledConnections) + 1] = c
      BY <1>14, <2>0, AppendIndices DEF CheckAdd
    <3>. QED BY <3>1 DEF Idle
  <2>4. \A u \in Users, d \in Conns \ {c} : Has(u, d)' <=> Has(u, d)
    BY <1>14, <2>0 DEF CheckAdd, Has, Owns, CheckerOwns, Users
  <2>5. ownerOf'[c] = "idle"
    BY <2>1, <2>3 DEF OwnerLaw
  <2>6. ownerOf' = [ownerOf EXCEPT ![c] = "idle"]
    BY <2>1, <2>3, <2>4, <2>5, OwnerMove
  <2>. QED BY <2>1, <2>2, <2>6 DEF Promise!Next, Promise!GiveBack
<1>15. CASE CheckDecrement
  <2>1. \A u \in Users, c \in Conns : Has(u, c)' <=> Has(u, c)
    BY <1>15 DEF CheckDecrement, Has, Owns, CheckerOwns, Users
  <2>. QED BY <1>15, <2>1, OwnerSame DEF CheckDecrement
<1>16. CASE CheckSleep
  <2>1. \A u \in Users, c \in Conns : Has(u, c)' <=> Has(u, c)
    BY <1>16 DEF CheckSleep, Has, Owns, CheckerOwns, Users
  <2>. QED BY <1>16, <2>1, OwnerSame DEF CheckSleep
<1>17. CASE Close
  <2>1. \A u \in Users, c \in Conns : Has(u, c)' <=> Has(u, c)
    BY <1>17 DEF Close, Has, Owns, CheckerOwns, Users
  <2>. QED BY <1>17, <2>1, OwnerSame DEF Close
<1>18. CASE DrainTest
  <2>1. \A u \in Users, c \in Conns : Has(u, c)' <=> Has(u, c)
    BY <1>18 DEF DrainTest, Has, Owns, CheckerOwns, Users
  <2>. QED BY <1>18, <2>1, OwnerSame DEF DrainTest
<1>19. CASE DrainTake
  <2>0. PICK c \in Conns : c = Head(recycledConnections) /\ c = recycledConnections[1]
    BY <1>19, TailIndices, HeadTailProperties DEF DrainTake
  <2>1. c <= populated /\ Idle(c) /\ populated' = populated
    BY <1>19, <2>0, TailIndices DEF DrainTake, Idle, RefsOpened
  <2>2. ASSUME NEW d \in Conns PROVE Idle(d)' <=> Idle(d) /\ d # c
    <3>1. ASSUME Idle(d)' PROVE Idle(d) /\ d # c
      <4>1. PICK i \in 1..(Len(recycledConnections) - 1) : recycledConnections[i + 1] = d
        BY <1>19, <3>1, TailIndices DEF DrainTake, Idle
      <4>2. i + 1 \in DOMAIN recycledConnections /\ 1 \in DOMAIN recycledConnections /\ i + 1 # 1
        BY <1>19, TailIndices DEF DrainTake
      <4>. QED BY <2>0, <4>1, <4>2 DEF Idle, NoSharing
    <3>2. ASSUME Idle(d), d # c PROVE Idle(d)'
      <4>1. PICK i \in DOMAIN recycledConnections : recycledConnections[i] = d
        BY <3>2 DEF Idle
      <4>2. i \in 1..Len(recycledConnections) /\ i # 1 /\ Len(recycledConnections) \in Nat
        BY <2>0, <3>2, <4>1
      <4>3. i - 1 \in DOMAIN recycledConnections' /\ recycledConnections'[i - 1] = d
        BY <1>19, <4>1, <4>2, TailIndices DEF DrainTake
      <4>. QED BY <4>3 DEF Idle
    <3>. QED BY <3>1, <3>2
  <2>3. ownerOf[c] = "idle" /\ \A u \in Users : ~Has(u, c)
    BY <2>1 DEF OwnerLaw
  <2>4. \A u \in Users, d \in Conns : Has(u, d)' <=> Has(u, d)
    BY <1>19 DEF DrainTake, Has, Owns, CheckerOwns, Users
  <2>5. ownerOf'[c] = "lost"
    BY <2>1, <2>2, <2>3, <2>4 DEF OwnerLaw
  <2>6. ownerOf' = [ownerOf EXCEPT ![c] = "lost"]
    BY <2>1, <2>2, <2>4, <2>5, OwnerMove
  <2>. QED BY <2>1, <2>3, <2>6 DEF Promise!Next, Promise!Discard
<1>20. CASE UNCHANGED vars
  <2>1. \A u \in Users, c \in Conns : Has(u, c)' <=> Has(u, c)
    BY <1>20 DEF vars, Has, Owns, CheckerOwns, Users
  <2>. QED BY <1>20, <2>1, OwnerSame DEF vars
<1>. QED
  BY <1>1, <1>2, <1>3, <1>4, <1>5, <1>6, <1>7, <1>8, <1>9, <1>10,
     <1>11, <1>12, <1>13, <1>14, <1>15, <1>16, <1>17, <1>18, <1>19, <1>20 DEF Next, ThreadStep, CheckerStep

\* The pool's non-atomic operations implement the promise of ConnectionPool:
\* one owner per connection, hand-over only through the idle state, no revival.
THEOREM PoolKeepsPromise == Spec => KeepsPromise
<1>1. Init => Promise!Init
  <2> SUFFICES ASSUME Init, NEW c \in Conns PROVE ownerOf[c] = "unopened"
    BY DEF Promise!Init, ownerOf
  <2>. QED BY DEF Init, ownerOf, Conns
<1>2. Spec => [](TypeInv /\ NoSharing /\ QueueHasRoom)
  BY TypeInit, TypeStep, NeverShared, ActiveAlwaysExact, PTL DEF Spec
<1>3. TypeInv' /\ NoSharing' /\ GoodDevelopers' => OwnerLaw'
  BY OwnerCases, PTL
<1>4. TypeInv /\ NoSharing /\ QueueHasRoom /\ TypeInv' /\ NoSharing' /\ [Next]_vars
          => [GoodDevelopers' => Promise!Next]_ownerOf
  <2> SUFFICES ASSUME TypeInv, NoSharing, QueueHasRoom, TypeInv', NoSharing', [Next]_vars, GoodDevelopers'
               PROVE  [Promise!Next]_ownerOf
    OBVIOUS
  <2>1. GoodDevelopers
    BY GoodBefore DEF TypeInv
  <2>2. OwnerLaw /\ OwnerLaw'
    BY <1>3, <2>1, OwnerCases
  <2>. QED BY <2>1, <2>2, PromiseStep
<1>. QED BY <1>1, <1>2, <1>4, PTL DEF Spec, KeepsPromise
=============================================================================
