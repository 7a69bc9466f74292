--------------------------- MODULE SimpleDataSource2 ---------------------------
(***************************************************************************)
(* The hand-written JDBC connection pool.  Threads of the server borrow    *)
(* connections with getConnection() and give them back by calling close()  *)
(* on the proxy, which runs closeHandler.  A background thread takes idle   *)
(* connections out to validate them, and the server's shutdown code calls  *)
(* the pool's own close().  The queue of idle connections and the counter  *)
(* of active ones are two separate atomic objects, so every operation is a *)
(* sequence of steps that interleave with those of the other threads.      *)
(***************************************************************************)
EXTENDS Integers, Sequences, FiniteSets

CONSTANTS
    Threads,          \* the server threads that borrow connections
    MaximumPoolSize,  \* maximumPoolSize: connections opened by the constructor
    QueueCapacity,    \* slots of the blocking queue (rounded up by the library)
    MaxCloseCalls,    \* bound on the calls of the pool's close()
    MaxExtraCloses    \* bound on closes of a connection already given back

ASSUME PoolAssumption ==
    /\ MaximumPoolSize \in Nat \ {0}
    /\ QueueCapacity \in Nat
    /\ QueueCapacity >= MaximumPoolSize
    /\ MaxCloseCalls \in Nat
    /\ MaxExtraCloses \in Nat
    /\ IsFiniteSet(Threads)
    /\ "checker" \notin Threads

\* Connection i is the one the i-th round of the constructor's loop opens.
Conns == 1..MaximumPoolSize
NoConn == 0

VARIABLES
    recycledConnections,  \* the queue of idle connections
    activeConnections,    \* the AtomicInteger
    isClosed,             \* the AtomicBoolean
    populated,            \* constructor: rounds of the constructor's loop that are over
    pc,                   \* where each borrowing thread is
    ref,                  \* the connection a thread has a reference to
    checker,              \* where the db-conn-validity-check-thread is
    checked,              \* the connection the checker took
    closer,               \* where the (synchronized) close() is
    closeCalls,           \* calls of close() so far
    extraCloses,          \* history: closes of a connection already given back
    opened,               \* history: connections the constructor opened
    leaked                \* history: connections taken and dropped uncounted

poolVars == <<recycledConnections, activeConnections>>
ctorVars == <<populated, opened>>
threadVars == <<pc, ref>>
checkerVars == <<checker, checked>>
closeVars == <<isClosed, closer, closeCalls>>
vars == <<recycledConnections, activeConnections, isClosed, populated, pc, ref,
          checker, checked, closer, closeCalls, extraCloses, opened, leaked>>

ThreadPC == {"out", "take", "taken", "use", "decr"}
CheckerPC == {"loop", "take", "taken", "valid", "decr", "sleep", "dead", "stopped"}
CloserPC == {"idle", "drain", "drainTake"}

\* The constructor has returned and the pool can be reached by other threads.
Constructed == populated = MaximumPoolSize

Init ==
    /\ recycledConnections = <<>>
    /\ activeConnections = 0
    /\ isClosed = FALSE
    /\ populated = 0
    /\ pc = [t \in Threads |-> "out"]
    /\ ref = [t \in Threads |-> NoConn]
    /\ checker = "loop"
    /\ checked = NoConn
    /\ closer = "idle"
    /\ closeCalls = 0
    /\ extraCloses = 0
    /\ opened = 0
    /\ leaked = 0

-----------------------------------------------------------------------------
\* The constructor's loop.  A round whose connection attempt throws is only
\* logged: the pool starts with one connection fewer.
PopulateConnection ==
    /\ ~Constructed
    /\ populated' = populated + 1
    /\ \/ /\ recycledConnections' = Append(recycledConnections, populated + 1)
          /\ opened' = opened + 1
       \/ UNCHANGED <<recycledConnections, opened>>
    /\ UNCHANGED <<activeConnections, threadVars, checkerVars, closeVars, extraCloses, leaked>>

-----------------------------------------------------------------------------
\* getConnection() up to the blocking take(): a closed pool throws instead.
GetConnection(t) ==
    /\ Constructed
    /\ pc[t] = "out"
    /\ ~isClosed
    /\ pc' = [pc EXCEPT ![t] = "take"]
    /\ UNCHANGED <<poolVars, ctorVars, ref, checkerVars, closeVars, extraCloses, leaked>>

\* recycledConnections.take() returns in getConnection().
Take(t) ==
    /\ pc[t] = "take"
    /\ recycledConnections # <<>>
    /\ ref' = [ref EXCEPT ![t] = Head(recycledConnections)]
    /\ recycledConnections' = Tail(recycledConnections)
    /\ pc' = [pc EXCEPT ![t] = "taken"]
    /\ UNCHANGED <<activeConnections, ctorVars, checkerVars, closeVars, extraCloses, leaked>>

\* The thread is interrupted while it waits: getConnection() returns null.
TakeInterrupted(t) ==
    /\ pc[t] = "take"
    /\ pc' = [pc EXCEPT ![t] = "out"]
    /\ UNCHANGED <<poolVars, ctorVars, ref, checkerVars, closeVars, extraCloses, leaked>>

\* Mutant: the borrower is counted before the timeout is tested.
TakeTimedOutCounted(t) ==
    /\ pc[t] = "taken"
    /\ activeConnections' = activeConnections + 1
    /\ pc' = [pc EXCEPT ![t] = "out"]
    /\ ref' = [ref EXCEPT ![t] = NoConn]
    /\ leaked' = leaked + 1
    /\ UNCHANGED <<recycledConnections, ctorVars, checkerVars, closeVars, extraCloses>>

\* The take() lasted beyond timeoutTime: TimeoutException.  The connection that
\* was taken is neither put back nor counted.
TakeTimedOut(t) ==
    /\ pc[t] = "taken"
    /\ pc' = [pc EXCEPT ![t] = "out"]
    /\ ref' = [ref EXCEPT ![t] = NoConn]
    /\ leaked' = leaked + 1
    /\ UNCHANGED <<poolVars, ctorVars, checkerVars, closeVars, extraCloses>>

\* activeConnections.incrementAndGet(), and getConnection() returns.
ReturnConnection(t) ==
    /\ pc[t] = "taken"
    /\ activeConnections' = activeConnections + 1
    /\ pc' = [pc EXCEPT ![t] = "use"]
    /\ UNCHANGED <<recycledConnections, ctorVars, ref, checkerVars, closeVars, extraCloses, leaked>>

\* close() on the proxy is called: by the borrower, or again by a thread that
\* kept its reference after giving the connection back.
CallsClose(t) ==
    \/ pc[t] = "use" /\ UNCHANGED extraCloses
    \/ /\ pc[t] = "out"
       /\ ref[t] # NoConn
       /\ extraCloses < MaxExtraCloses
       /\ extraCloses' = extraCloses + 1

\* First statement of closeHandler: recycledConnections.add(conn).
CloseHandlerAdd(t) ==
    /\ CallsClose(t)
    /\ Len(recycledConnections) < QueueCapacity
    /\ recycledConnections' = Append(recycledConnections, ref[t])
    /\ pc' = [pc EXCEPT ![t] = "decr"]
    /\ UNCHANGED <<activeConnections, ctorVars, ref, checkerVars, closeVars, leaked>>

\* Mutant: the counter goes down although add() threw.
CloseHandlerAddFailsCounted(t) ==
    /\ CallsClose(t)
    /\ Len(recycledConnections) >= QueueCapacity
    /\ activeConnections' = activeConnections - 1
    /\ pc' = [pc EXCEPT ![t] = "out"]
    /\ UNCHANGED <<recycledConnections, ctorVars, ref, checkerVars, closeVars, leaked>>

\* add() throws IllegalStateException on a full queue: closeHandler stops there.
CloseHandlerAddFails(t) ==
    /\ CallsClose(t)
    /\ Len(recycledConnections) >= QueueCapacity
    /\ pc' = [pc EXCEPT ![t] = "out"]
    /\ UNCHANGED <<poolVars, ctorVars, ref, checkerVars, closeVars, leaked>>

\* Second statement of closeHandler: activeConnections.decrementAndGet().
CloseHandlerDecrement(t) ==
    /\ pc[t] = "decr"
    /\ activeConnections' = activeConnections - 1
    /\ pc' = [pc EXCEPT ![t] = "out"]
    /\ UNCHANGED <<recycledConnections, ctorVars, ref, checkerVars, closeVars, extraCloses, leaked>>

-----------------------------------------------------------------------------
\* Mutant: the loop does not look at isClosed.
CheckLoopForever ==
    /\ Constructed
    /\ checker = "loop"
    /\ checker' = "take"
    /\ UNCHANGED <<poolVars, ctorVars, threadVars, checked, closeVars, extraCloses, leaked>>

\* checkConnection(): the test of its while loop.
CheckLoop ==
    /\ Constructed
    /\ checker = "loop"
    /\ checker' = IF isClosed THEN "stopped" ELSE "take"
    /\ UNCHANGED <<poolVars, ctorVars, threadVars, checked, closeVars, extraCloses, leaked>>

\* Mutant: the checker looks at the head of the queue without taking it.
CheckPeek ==
    /\ checker = "take"
    /\ recycledConnections # <<>>
    /\ checked' = Head(recycledConnections)
    /\ checker' = "taken"
    /\ UNCHANGED <<poolVars, ctorVars, threadVars, closeVars, extraCloses, leaked>>

\* checkConnection(): take().
CheckTake ==
    /\ checker = "take"
    /\ recycledConnections # <<>>
    /\ checked' = Head(recycledConnections)
    /\ recycledConnections' = Tail(recycledConnections)
    /\ checker' = "taken"
    /\ UNCHANGED <<activeConnections, ctorVars, threadVars, closeVars, extraCloses, leaked>>

CheckIncrement ==
    /\ checker = "taken"
    /\ activeConnections' = activeConnections + 1
    /\ checker' = "valid"
    /\ UNCHANGED <<recycledConnections, ctorVars, threadVars, checked, closeVars, extraCloses, leaked>>

\* Mutants: the counter goes down when the checker dies; the connection is
\* replaced and yet kept for the add() below.
CheckDiesUncounted ==
    /\ checker = "valid"
    /\ activeConnections' = activeConnections - 1
    /\ checker' = "dead"
    /\ UNCHANGED <<recycledConnections, ctorVars, threadVars, checked, closeVars, extraCloses, leaked>>

\* isValid() answered FALSE (or the add() below it threw): the cast of the proxy
\* to ConnectionProxy raises an exception the loop does not catch, and the
\* thread ends with the connection in its hands.
CheckDies ==
    /\ checker = "valid"
    /\ checker' = "dead"
    /\ UNCHANGED <<poolVars, ctorVars, threadVars, checked, closeVars, extraCloses, leaked>>

CheckAdd ==
    /\ checker = "valid"
    /\ Len(recycledConnections) < QueueCapacity
    /\ recycledConnections' = Append(recycledConnections, checked)
    /\ checker' = "decr"
    /\ UNCHANGED <<activeConnections, ctorVars, threadVars, checked, closeVars, extraCloses, leaked>>

CheckDecrement ==
    /\ checker = "decr"
    /\ activeConnections' = activeConnections - 1
    /\ checker' = "sleep"
    /\ UNCHANGED <<recycledConnections, ctorVars, threadVars, checked, closeVars, extraCloses, leaked>>

CheckSleep ==
    /\ checker = "sleep"
    /\ checker' = "loop"
    /\ UNCHANGED <<poolVars, ctorVars, threadVars, checked, closeVars, extraCloses, leaked>>

CheckerStep == CheckLoop \/ CheckTake \/ CheckIncrement \/ CheckDies \/ CheckAdd
                  \/ CheckDecrement \/ CheckSleep

-----------------------------------------------------------------------------
\* close(): compareAndSet.  The call that flips the flag returns at once, and
\* only a later call goes on to the drain loop.
Close ==
    /\ Constructed
    /\ closer = "idle"
    /\ closeCalls < MaxCloseCalls
    /\ closeCalls' = closeCalls + 1
    /\ isClosed' = TRUE
    /\ closer' = IF isClosed THEN "drain" ELSE "idle"
    /\ UNCHANGED <<poolVars, ctorVars, threadVars, checkerVars, extraCloses, leaked>>

\* The drain loop's isEmpty() test.
DrainTest ==
    /\ closer = "drain"
    /\ closer' = IF recycledConnections = <<>> THEN "idle" ELSE "drainTake"
    /\ UNCHANGED <<poolVars, ctorVars, threadVars, checkerVars, isClosed, closeCalls, extraCloses, leaked>>

\* The drain loop's take(), followed by the cast to ConnectionProxy, which
\* throws out of close(): one connection is lost and the loop is over.
DrainTake ==
    /\ closer = "drainTake"
    /\ recycledConnections # <<>>
    /\ recycledConnections' = Tail(recycledConnections)
    /\ leaked' = leaked + 1
    /\ closer' = "idle"
    /\ UNCHANGED <<activeConnections, ctorVars, threadVars, checkerVars, isClosed, closeCalls, extraCloses>>

-----------------------------------------------------------------------------
ThreadStep(t) ==
    \/ GetConnection(t)
    \/ Take(t)
    \/ TakeInterrupted(t)
    \/ TakeTimedOut(t)
    \/ ReturnConnection(t)
    \/ CloseHandlerAdd(t)
    \/ CloseHandlerAddFails(t)
    \/ CloseHandlerDecrement(t)

Next ==
    \/ PopulateConnection
    \/ \E t \in Threads : ThreadStep(t)
    \/ CheckerStep
    \/ Close \/ DrainTest \/ DrainTake

Spec == Init /\ [][Next]_vars

\* The checker is a thread of its own and the JVM schedules it.
FairSpec == Spec /\ WF_vars(CheckerStep)

-----------------------------------------------------------------------------
\* closeHandler's own assumption: nobody has closed the same borrowing twice.
GoodDevelopers == extraCloses = 0

\* Who has taken a connection out of the queue and not yet put it back.
Owns(t) == pc[t] \in {"taken", "use"}
CheckerOwns == checker \in {"taken", "valid", "dead"}

AsNat(b) == IF b THEN 1 ELSE 0
Count(f, S) == Cardinality({t \in Threads : f[t] \in S})
At(S) == Count(pc, S)

TypeOK ==
    /\ recycledConnections \in Seq(Conns)
    /\ activeConnections \in Int
    /\ isClosed \in BOOLEAN
    /\ populated \in 0..MaximumPoolSize
    /\ pc \in [Threads -> ThreadPC]
    /\ ref \in [Threads -> Conns \cup {NoConn}]
    /\ checker \in CheckerPC
    /\ checked \in Conns \cup {NoConn}
    /\ closer \in CloserPC
    /\ closeCalls \in Nat
    /\ extraCloses \in Nat
    /\ opened \in 0..populated
    /\ leaked \in Nat

\* Only opened connections travel: what is idle or owned was populated before.
RefsOpened ==
    /\ \A t \in Threads : Owns(t) => ref[t] \in 1..populated
    /\ CheckerOwns => checked \in 1..populated
    /\ \A i \in DOMAIN recycledConnections : recycledConnections[i] <= populated
    /\ ~Constructed => checker = "loop" /\ \A t \in Threads : pc[t] = "out" /\ ref[t] = NoConn

\* The two gauges of logStats() add up, at every instant and whatever the
\* borrowers do (closing twice included), to the connections that were opened
\* and not leaked, up to the steps in flight between a take() and its
\* incrementAndGet() and between an add() and its decrementAndGet().
GaugesConserved ==
    activeConnections + Len(recycledConnections)
        + At({"taken"}) + AsNat(checker = "taken")
      = (opened - leaked) + At({"decr"}) + AsNat(checker = "decr")

\* With good developers activeConnections counts exactly the borrowers inside
\* getConnection()..closeHandler, plus the checker; a checker that died on an
\* invalid connection stays counted for ever.
ActiveIsExact ==
    GoodDevelopers =>
        activeConnections = At({"use", "decr"}) + AsNat(checker \in {"valid", "decr", "dead"})

\* With good developers a connection is idle at most once, is never idle while
\* somebody has it, and nobody else has it: a transaction's statements cannot
\* end up in somebody else's transaction.
NoSharing ==
    GoodDevelopers =>
        /\ \A i, j \in DOMAIN recycledConnections :
               recycledConnections[i] = recycledConnections[j] => i = j
        /\ \A t \in Threads : Owns(t) =>
               /\ \A i \in DOMAIN recycledConnections : recycledConnections[i] # ref[t]
               /\ \A u \in Threads \ {t} : Owns(u) => ref[u] # ref[t]
               /\ CheckerOwns => checked # ref[t]
        /\ CheckerOwns =>
               \A i \in DOMAIN recycledConnections : recycledConnections[i] # checked

\* With good developers the add() of closeHandler and of checkConnection()
\* always finds a free slot: giving a connection back never throws.
QueueHasRoom ==
    GoodDevelopers =>
        ((At({"use"}) > 0 \/ checker = "valid") => Len(recycledConnections) < QueueCapacity)

\* The checker loop ends after close(), unless its connection turned out to be
\* invalid (dead) or it waits in take() on a queue that stays empty.
CheckerEnds ==
    <>isClosed => <>[](\/ checker \in {"stopped", "dead"}
                       \/ checker = "take" /\ recycledConnections = <<>>)

-----------------------------------------------------------------------------
\* The promise: ConnectionPool, read off the queue and the threads' references.
Users == Threads \cup {"checker"}

Has(u, c) == IF u = "checker" THEN CheckerOwns /\ checked = c
                              ELSE Owns(u) /\ ref[u] = c

Idle(c) == \E i \in DOMAIN recycledConnections : recycledConnections[i] = c

ownerOf == [c \in Conns |->
    IF c > populated THEN "unopened"
    ELSE IF Idle(c) THEN "idle"
    ELSE IF \E u \in Users : Has(u, c) THEN CHOOSE u \in Users : Has(u, c)
    ELSE "lost"]

Promise == INSTANCE ConnectionPool WITH owner <- ownerOf

\* As long as developers are good the pool implements the promise: its non-atomic
\* operations never share a connection, hand it over directly or revive it.
KeepsPromise == Promise!Init /\ [][GoodDevelopers' => Promise!Next]_ownerOf
=============================================================================
