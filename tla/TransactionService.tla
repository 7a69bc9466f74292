-------------------------- MODULE TransactionService --------------------------
(***************************************************************************)
(* TransactionServiceImpl: one client-streaming call per transaction.      *)
(* A stream borrows a read-write connection and a transaction id, applies  *)
(* each message to the objects table, writes the transaction log, and      *)
(* answers once.  The connection comes from SimpleDataSource2 (here with   *)
(* an atomic take and give-back, see ConnectionPool); its proxy turns an   *)
(* SQLException of prepareStatement(), commit() or rollback() into an      *)
(* unchecked exception, which no handler catches.                          *)
(* The database is external: row locks, unique indexes, a foreign key and  *)
(* READ COMMITTED sessions, as the statements in Store use them.           *)
(***************************************************************************)
EXTENDS Selection

CONSTANTS
    Streams,         \* the calls clients make
    PoolSize,        \* connections of the read-write pool
    QueueCapacity,   \* slots of the pool's queue
    Names,           \* object names
    lower,           \* lower[n]: the name in lower case, as nameLower stores it
    InitialObjects,  \* the table before the first call
    Scripts,         \* Scripts[s]: the message sequences the client of s may send
    IntMax,          \* Integer.MAX_VALUE, in Math.toIntExact
    SeqStarts,       \* what txn_id_seq may be when the server starts
    Faults,          \* statements may fail and connections may break
    NoRow,           \* a name without a row
    Same,            \* a row its session has not written
    Null

RowOps == {"insert", "update", "rename", "delete"}
Conns == 1..PoolSize
Row == [ver : Nat, txn : Nat, mem : Nat]
Message == [op : STRING, name : Names, to : Names, old : Nat, new : Nat, bad : BOOLEAN]

ASSUME TxnAssumption ==
    /\ PoolSize \in Nat \ {0}
    /\ QueueCapacity \in Nat /\ QueueCapacity >= PoolSize
    /\ Faults \in BOOLEAN /\ SeqStarts \subseteq Nat
    /\ IntMax \in Nat
    /\ Null \notin Nat
    /\ NoRow # Same /\ NoRow \notin Row /\ Same \notin Row
    /\ \A n \in Names : lower[n] \in Names /\ lower[lower[n]] = lower[n]
    /\ InitialObjects \in [Names -> Row \cup {NoRow}]
    /\ \A s \in Streams : \A q \in Scripts[s] : q \in Seq(Message)

VARIABLES
    objects,         \* committed rows
    headers,         \* committed ids of tdms_trans_header_primary
    parts,           \* committed rows of tdms_trans_part_primary, in commit order
    seqVal,          \* txn_id_seq
    work,            \* per connection: the uncommitted transaction of its session
    broken,          \* per connection: the session is gone
    idle,            \* recycledConnections
    active,          \* activeConnections
    st,              \* per stream: call not begun, open, closed or cancelled
    conn,            \* per stream: the field connection
    resultSet,       \* per stream: the id the field resultSet holds, or Null
    txnId,           \* per stream: the field txnId
    transpartIndex,  \* per stream: the field transpartIndex
    script,          \* per stream: what the client sends, half-close last
    pos,             \* per stream: messages handled, the half-close included
    reply,           \* per stream: what the client has been told
    late,            \* history: a half-close was delivered on a call already closed
    history          \* the committed operations, in commit order

dbVars == <<objects, headers, parts, work, history>>
poolVars == <<idle, active>>
vars == <<objects, headers, parts, seqVal, work, broken, idle, active, st, conn, resultSet,
          txnId, transpartIndex, script, pos, reply, late, history>>

NoWork == [objs |-> [n \in Names |-> Same], headers |-> {}, parts |-> <<>>, ops |-> <<>>]

Init ==
    /\ objects = InitialObjects
    /\ headers = {} /\ parts = <<>> /\ seqVal \in SeqStarts
    /\ work = [c \in Conns |-> NoWork]
    /\ broken = [c \in Conns |-> FALSE]
    /\ \E n \in 1..PoolSize : idle = [i \in 1..n |-> i]   \* those the pool could open
    /\ active = 0
    /\ st = [s \in Streams |-> "idle"]
    /\ conn = [s \in Streams |-> Null]
    /\ resultSet = [s \in Streams |-> Null]
    /\ txnId = [s \in Streams |-> Null]
    /\ transpartIndex = [s \in Streams |-> 0]
    /\ script \in {f \in [Streams -> UNION {Scripts[s] : s \in Streams}] :
                      \A s \in Streams : f[s] \in Scripts[s]}
    /\ pos = [s \in Streams |-> 0]
    /\ reply = [s \in Streams |-> "none"]
    /\ late = FALSE
    /\ history = <<>>

-----------------------------------------------------------------------------
\* What a session sees: its own writes over the committed rows.
View(c) == [n \in Names |-> IF work[c].objs[n] = Same THEN objects[n] ELSE work[c].objs[n]]

\* The unique index on nameLower (and so the ones on name and on typeId, nameLower).
TakenBy(tbl, n) == {m \in Names : tbl[m] # NoRow /\ lower[m] = lower[n]}

\* Mutant: the WHERE clause forgets updateCount.
MatchesByName(tbl, m) == tbl[m.name] # NoRow

\* The WHERE clause of UPDATE, RENAME and DELETE: name, updateCount, dbIdUpdated.
Matches(tbl, m) == tbl[m.name] # NoRow /\ tbl[m.name].ver = m.old

\* Each statement: does it affect exactly one row, and which table it leaves.
insertRec(tbl, m, id) ==
    [ok |-> TakenBy(tbl, m.name) = {},
     tbl |-> [tbl EXCEPT ![m.name] = [ver |-> m.new, txn |-> id, mem |-> id]]]

updateRec(tbl, m, id) ==
    [ok |-> Matches(tbl, m),
     tbl |-> [tbl EXCEPT ![m.name] = [ver |-> m.new, txn |-> id, mem |-> id]]]

\* A rename keeps mem and writes the new name, version and transaction.
renameDataRecords(tbl, m, id) ==
    [ok |-> Matches(tbl, m) /\ TakenBy(tbl, m.to) \subseteq {m.name},
     tbl |-> IF tbl[m.name] = NoRow THEN tbl
             ELSE [tbl EXCEPT ![m.name] = NoRow,
                              ![m.to] = [ver |-> m.new, txn |-> id, mem |-> tbl[m.name].mem]]]

deleteDataRecords(tbl, m) ==
    [ok |-> Matches(tbl, m), tbl |-> [tbl EXCEPT ![m.name] = NoRow]]

\* The switch of onNext; an unknown operation changes no row.
Statement(tbl, m, id) ==
    CASE m.op = "insert" -> insertRec(tbl, m, id)
      [] m.op = "update" -> updateRec(tbl, m, id)
      [] m.op = "rename" -> renameDataRecords(tbl, m, id)
      [] m.op = "delete" -> deleteDataRecords(tbl, m)
      [] OTHER -> [ok |-> TRUE, tbl |-> tbl]

\* The rows a statement writes.
Touches(m) == CASE m.op = "rename" -> {m.name, m.to}
                [] m.op \in RowOps \ {"rename"} -> {m.name}
                [] OTHER -> {}

\* Session d has written row n, or a row with n's index entry.
WroteRow(d, n) == work[d].objs[n] # Same
WroteKey(d, n) == \E k \in Names : lower[k] = lower[n] /\ WroteRow(d, k)

\* The statement of m on c waits for d: for the row its WHERE clause found in the
\* committed data, or for the index entry it is about to write.
WaitsFor(c, m, d) ==
    \/ m.op = "insert" /\ WroteKey(d, m.name)
    \/ m.op \in RowOps \ {"insert"} /\ Matches(View(c), m) /\ WroteRow(d, m.name)
    \/ m.op = "rename" /\ Matches(View(c), m) /\ WroteKey(d, m.to)

Blocked(c, m) == \E d \in Conns \ {c} : WaitsFor(c, m, d)

\* insertHeaderLog and insertTranspartLog: the primary key of the header table
\* and the foreign key of the part table.
LogAccepted(c, m, id) ==
    IF m.op = "header" THEN id \notin headers \cup work[c].headers
                       ELSE id \in headers \cup work[c].headers

\* The session's transaction after message m of stream s was applied and logged.
Applied(c, s, m, id) ==
    LET after == Statement(View(c), m, id).tbl
    IN [objs |-> [n \in Names |-> IF n \in Touches(m) THEN after[n] ELSE work[c].objs[n]],
        headers |-> work[c].headers \cup (IF m.op = "header" THEN {id} ELSE {}),
        parts |-> IF m.op = "header" THEN work[c].parts
                  ELSE Append(work[c].parts, [id |-> id, part |-> transpartIndex[s], op |-> m.op]),
        ops |-> IF m.op = "header" THEN work[c].ops
                ELSE Append(work[c].ops, [s |-> s, id |-> id, msg |-> m])]

\* COMMIT on the session of c.
Commits(c) ==
    /\ objects' = View(c)
    /\ headers' = headers \cup work[c].headers
    /\ parts' = parts \o work[c].parts
    /\ history' = history \o work[c].ops
    /\ work' = [work EXCEPT ![c] = NoWork]

\* ROLLBACK on the session of c, or the server ending a broken session.
RollsBack(c) ==
    /\ work' = [work EXCEPT ![c] = NoWork]
    /\ UNCHANGED <<objects, headers, parts, history>>

-----------------------------------------------------------------------------
\* The pool's getConnection() and closeHandler, with their two steps in one.
\* add() on a full queue throws, and nothing is counted.
TakesConnection == idle # <<>> /\ idle' = Tail(idle)

QueueHasRoom == Len(idle) < QueueCapacity

ClosesConnection(c) ==
    IF QueueHasRoom THEN idle' = Append(idle, c) /\ active' = active - 1
                    ELSE UNCHANGED poolVars

\* The call is over and the client has been told a (once: a second answer throws).
Answers(s, a) ==
    /\ st' = [st EXCEPT ![s] = IF a = "cancelled" THEN a ELSE "closed"]
    /\ reply' = [reply EXCEPT ![s] = IF @ = "none" THEN a ELSE @]

\* The initializers: a connection, then the transaction id.
Begin(s) ==
    /\ st[s] = "idle"
    /\ TakesConnection
    /\ active' = active + 1
    /\ conn' = [conn EXCEPT ![s] = Head(idle)]
    /\ \/ /\ ~broken[Head(idle)]
          /\ seqVal' = seqVal + 1
          /\ resultSet' = [resultSet EXCEPT ![s] = seqVal + 1]
          /\ st' = [st EXCEPT ![s] = "open"] /\ UNCHANGED reply
       \* executeQuery() fails: the SQLException is only printed
       \/ /\ Faults \/ broken[Head(idle)]
          /\ st' = [st EXCEPT ![s] = "open"]
          /\ UNCHANGED <<seqVal, resultSet, reply>>
       \* prepareStatement() fails: the unchecked exception ends the call
       \/ /\ broken[Head(idle)]
          /\ Answers(s, "error")
          /\ UNCHANGED <<seqVal, resultSet>>
    /\ UNCHANGED <<dbVars, broken, txnId, transpartIndex, script, pos, late>>

\* getConnection() waited too long: it drops what it took and throws.
BeginTimesOut(s) ==
    /\ st[s] = "idle"
    /\ TakesConnection
    /\ Answers(s, "error")
    /\ UNCHANGED <<dbVars, seqVal, broken, active, conn, resultSet, txnId, transpartIndex, script, pos, late>>

-----------------------------------------------------------------------------
\* The next message of an open call, and the id onNext works with.
HasNext(s) == st[s] = "open" /\ pos[s] < Len(script[s])
Msg(s) == script[s][pos[s] + 1]
Id(s) == IF txnId[s] = Null THEN resultSet[s] ELSE txnId[s]

\* Timestamp.valueOf() rejects the time of an insert or an update.
BadTime(m) == m.op \in {"insert", "update"} /\ m.bad

\* What every onNext does first: read the id once, and consume the message.
OnNextBegins(s) ==
    /\ HasNext(s)
    /\ pos' = [pos EXCEPT ![s] = @ + 1]
    /\ txnId' = [txnId EXCEPT ![s] = Id(s)]
    /\ UNCHANGED <<seqVal, conn, resultSet, script, late>>

\* Mutant: the part index is not advanced.
PartNotAdvanced(s) == transpartIndex[s]

\* transpartIndex++ after a part, not after a header.
PartAdvanced(s) == IF Msg(s).op = "header" THEN transpartIndex[s] ELSE transpartIndex[s] + 1

\* A header, a row operation or an unknown operation, applied and logged.
OnNext(s) ==
    /\ OnNextBegins(s)
    /\ Id(s) # Null /\ ~broken[conn[s]]
    /\ Msg(s).op # "trailer" /\ ~BadTime(Msg(s))
    /\ ~Blocked(conn[s], Msg(s))
    /\ Statement(View(conn[s]), Msg(s), Id(s)).ok
    /\ LogAccepted(conn[s], Msg(s), Id(s))
    /\ work' = [work EXCEPT ![conn[s]] = Applied(conn[s], s, Msg(s), Id(s))]
    /\ transpartIndex' = [transpartIndex EXCEPT ![s] = PartAdvanced(s)]
    /\ UNCHANGED <<objects, headers, parts, history, broken, poolVars, st, reply>>

\* The trailer: commitTransaction(), and the call stays open.
OnNextCommits(s) ==
    /\ OnNextBegins(s)
    /\ Id(s) # Null /\ ~broken[conn[s]]
    /\ Msg(s).op = "trailer"
    /\ Commits(conn[s])
    /\ UNCHANGED <<broken, poolVars, st, reply, transpartIndex>>

\* Mutants of onError(): the rollback is forgotten; the rollback is a commit;
\* neither rollback nor close happens.
OnErrorKeepsWork(s, id) ==
    /\ ClosesConnection(conn[s])
    /\ Answers(s, "failure")
    /\ UNCHANGED dbVars

OnErrorCommits(s, id) ==
    /\ Commits(conn[s])
    /\ ClosesConnection(conn[s])
    /\ Answers(s, "failure")

OnErrorLeaks(s, id) ==
    /\ Answers(s, "failure")
    /\ UNCHANGED <<dbVars, poolVars>>

\* onError(): roll back, close, answer MsgOnFailure.  The answer is not reached
\* when the rollback or the close threw, or the id is absent or too large.
OnError(s, id) ==
    /\ RollsBack(conn[s])
    /\ ClosesConnection(conn[s])
    /\ Answers(s, IF ~broken[conn[s]] /\ QueueHasRoom /\ id # Null /\ id <= IntMax
                  THEN "failure" ELSE "error")

\* The sessions in a cycle of waits; the database fails one of them.
Waits(s, u) == /\ conn[s] # conn[u]
               /\ HasNext(s) /\ st[u] = "open"
               /\ WaitsFor(conn[s], Msg(s), conn[u])
Stuck(S) == S # {} /\ \A s \in S : \E u \in S : Waits(s, u)
Deadlocked(s) == \E S \in SUBSET Streams :
    s \in S /\ Stuck(S) /\ \A T \in SUBSET S : Stuck(T) => T = S

\* A statement fails with an SQLException or affects no row: onError().
StatementFails(s) ==
    /\ OnNextBegins(s)
    /\ Id(s) # Null /\ Msg(s).op # "trailer" /\ ~BadTime(Msg(s))
    /\ OnError(s, Id(s))
    /\ UNCHANGED <<broken, transpartIndex>>

\* It must fail: a broken connection, a deadlock, no row or a constraint.
OnNextFails(s) ==
    /\ StatementFails(s)
    /\ \/ broken[conn[s]]
       \/ Deadlocked(s)
       \/ /\ ~Blocked(conn[s], Msg(s))
          /\ \/ ~Statement(View(conn[s]), Msg(s), Id(s)).ok
             \/ ~LogAccepted(conn[s], Msg(s), Id(s))

\* It fails for a reason of the database's own, or because it waited for a row
\* that was deleted meanwhile.
OnNextFaults(s) == Faults /\ StatementFails(s)

\* An unchecked exception leaves onNext: no resultSet, a bad timestamp, or
\* prepareStatement() on a broken connection.  gRPC closes the call; nobody
\* rolls back or returns the connection.
OnNextThrows(s) ==
    /\ OnNextBegins(s)
    /\ Id(s) = Null \/ BadTime(Msg(s)) \/ broken[conn[s]]
    /\ Answers(s, "error")
    /\ UNCHANGED <<dbVars, broken, poolVars, transpartIndex>>

\* The connection breaks during a commit: the session may or may not have
\* committed, and the unchecked exception leaves the handler.
CommitThrows(s) ==
    /\ Commits(conn[s]) \/ RollsBack(conn[s])
    /\ broken' = [broken EXCEPT ![conn[s]] = TRUE]
    /\ Answers(s, "error")
    /\ UNCHANGED poolVars

OnNextCommitThrows(s) ==
    /\ OnNextBegins(s)
    /\ Id(s) # Null /\ Msg(s).op = "trailer"
    /\ Faults
    /\ CommitThrows(s)
    /\ UNCHANGED transpartIndex

-----------------------------------------------------------------------------
\* The half-close reaches onCompleted() after the last message.  gRPC also
\* delivers one it had received when the server closed the call.
HalfClosed(s) ==
    /\ conn[s] # Null
    /\ \/ st[s] = "open" /\ pos[s] = Len(script[s])
       \/ st[s] = "closed" /\ pos[s] <= Len(script[s])
    /\ pos' = [pos EXCEPT ![s] = Len(script[s]) + 1]
    /\ late' = (late \/ st[s] = "closed")
    /\ UNCHANGED <<seqVal, conn, resultSet, txnId, transpartIndex, script>>

\* Commit, close, answer MsgOnSuccess (unless the id is absent or too large, or
\* the close threw).
OnCompleted(s) ==
    /\ HalfClosed(s)
    /\ ~broken[conn[s]]
    /\ Commits(conn[s])
    /\ ClosesConnection(conn[s])
    /\ Answers(s, IF QueueHasRoom /\ txnId[s] # Null /\ txnId[s] <= IntMax
                  THEN "success" ELSE "error")
    /\ UNCHANGED broken

OnCompletedThrows(s) ==
    /\ HalfClosed(s)
    /\ Faults
    /\ CommitThrows(s)

\* The client cancels, or its connection to the server is lost: gRPC calls
\* onError(), whose answer no client reads, and delivers nothing more.
ClientCancels(s) ==
    /\ st[s] = "open"
    /\ RollsBack(conn[s])
    /\ ClosesConnection(conn[s])
    /\ Answers(s, "cancelled")
    /\ UNCHANGED <<seqVal, broken, conn, resultSet, txnId, transpartIndex, script, pos, late>>

\* The session of a connection ends: database restart, failover, network.
Breaks(c) ==
    /\ Faults /\ ~broken[c]
    /\ RollsBack(c)
    /\ broken' = [broken EXCEPT ![c] = TRUE]
    /\ UNCHANGED <<seqVal, poolVars, st, conn, resultSet, txnId, transpartIndex, script, pos, reply, late>>

-----------------------------------------------------------------------------
\* What the server does by itself once the client has sent its messages.
Serves(s) ==
    \/ Begin(s)
    \/ OnNext(s) \/ OnNextCommits(s) \/ OnNextFails(s) \/ OnNextThrows(s) \/ OnNextCommitThrows(s)
    \/ OnCompleted(s) \/ OnCompletedThrows(s)

Next ==
    \/ \E s \in Streams : Serves(s) \/ OnNextFaults(s) \/ BeginTimesOut(s) \/ ClientCancels(s)
    \/ \E c \in Conns : Breaks(c)

Spec == Init /\ [][Next]_vars

\* Each call has a thread of the server's executor, and clients that do not
\* cancel send what they have to send.  Neither a fault nor a late half-close
\* is relied on.
FairSpec == Spec /\ \A s \in Streams : WF_vars(st[s] # "closed" /\ Serves(s))
-----------------------------------------------------------------------------
MaybeId == Nat \cup {Null}

TypeOK ==
    /\ objects \in [Names -> Row \cup {NoRow}]
    /\ headers \subseteq 1..seqVal
    /\ \A i \in DOMAIN parts : parts[i].id \in headers /\ parts[i].part \in Nat
    /\ seqVal \in Nat
    /\ \A c \in Conns : work[c].objs \in [Names -> Row \cup {NoRow, Same}]
    /\ broken \in [Conns -> BOOLEAN]
    /\ idle \in Seq(Conns) /\ Len(idle) <= QueueCapacity
    /\ active \in Int
    /\ st \in [Streams -> {"idle", "open", "closed", "cancelled"}]
    /\ conn \in [Streams -> Conns \cup {Null}]
    /\ resultSet \in [Streams -> MaybeId] /\ txnId \in [Streams -> MaybeId]
    /\ transpartIndex \in [Streams -> Nat]
    /\ \A s \in Streams : pos[s] \in 0..(Len(script[s]) + 1)
    /\ reply \in [Streams -> {"none", "success", "failure", "error", "cancelled"}]
    /\ late \in BOOLEAN

\* The operations (neither header nor trailer) among the first k messages of s.
OpsUpTo(s, k) ==
    Selected(script[s], {i \in 1..k : script[s][i].op \notin {"header", "trailer"}})

\* What stream s has committed, in order.
Committed(s) ==
    LET mine == Selected(history, {i \in DOMAIN history : history[i].s = s})
    IN [i \in DOMAIN mine |-> mine[i].msg]

\* What a message claims about the table it meets: the name is free in every
\* spelling, or the row is there with the version the client read.
Claim(tbl, m) ==
    CASE m.op = "insert" -> \A n \in Names : lower[n] = lower[m.name] => tbl[n] = NoRow
      [] m.op \in RowOps \ {"insert"} -> tbl[m.name] # NoRow /\ tbl[m.name].ver = m.old
      [] OTHER -> TRUE

\* The tables that the committed operations lead through, one after the other.
Replay ==
    LET tbl[i \in 0..Len(history)] ==
            IF i = 0 THEN InitialObjects
            ELSE Statement(tbl[i - 1], history[i].msg, history[i].id).tbl
    IN tbl

\* Replaying the committed operations one after the other, in commit order,
\* gives the committed table, and every operation finds what it claims: no
\* interleaving of streams loses an update that the version check of the
\* UPDATE, RENAME and DELETE statements was to catch.
SerialHistory ==
    LET tbl == Replay
    IN /\ tbl[Len(history)] = objects
       /\ \A i \in DOMAIN history : Claim(tbl[i - 1], history[i].msg)

\* The transaction log tells the history: for each id the part rows are its
\* committed operations in order, below a committed header, numbered from 0 by
\* transpartIndex without a gap.  (A late half-close gives a connection to two
\* calls, and the rollback of one then drops parts of the other: gaps.)
\* (And every variable has its type.)
LogMatchesHistory ==
    /\ TypeOK
    /\ \A id \in 1..seqVal :
          LET rows == Selected(parts, {i \in DOMAIN parts : parts[i].id = id})
              done == Selected(history, {i \in DOMAIN history : history[i].id = id})
          IN /\ Len(rows) = Len(done)
             /\ \A i \in DOMAIN rows : /\ rows[i].op = done[i].msg.op
                                       /\ ~late => rows[i].part = i - 1
             /\ rows # <<>> => id \in headers

\* Where stream s may have committed: at a trailer it handled, or at the end.
CommitPoints(s) ==
    {0} \cup {i \in DOMAIN script[s] : i <= pos[s] /\ script[s][i].op = "trailer"}
        \cup {i \in {Len(script[s])} : pos[s] = i + 1}
LastTrailer(s) == CHOOSE i \in CommitPoints(s) : \A j \in CommitPoints(s) : j <= i

\* The answer tells the truth about the database: MsgOnSuccess means that every
\* operation of the call is committed; MsgOnFailure, a cancelled call and a call
\* still open mean that nothing after the last trailer is; a call that ended
\* with an error committed up to some trailer or up to its end.  (A late
\* half-close commits whatever the connection's next user has written.)
AnswerMatchesDatabase ==
    ~late => \A s \in Streams :
        /\ reply[s] = "success" => Committed(s) = OpsUpTo(s, Len(script[s]))
        /\ reply[s] \in {"none", "failure", "cancelled"} =>
               Committed(s) = OpsUpTo(s, LastTrailer(s))
        /\ reply[s] = "error" =>
               \E k \in CommitPoints(s) : Committed(s) = OpsUpTo(s, k)

\* A database transaction belongs to one call: an idle connection carries no
\* uncommitted work and no open call uses it, open calls have connections of
\* their own, and what a session has not committed comes from its own call.
\* (A late half-close closes the connection a second time.)
SessionIsPrivate ==
    ~late =>
    /\ \A i \in DOMAIN idle :
          work[idle[i]] = NoWork /\ \A s \in Streams : st[s] = "open" => conn[s] # idle[i]
    /\ \A s, u \in Streams : st[s] = "open" /\ st[u] = "open" /\ conn[s] = conn[u] => s = u
    /\ \A c \in Conns : \A i \in DOMAIN work[c].ops : conn[work[c].ops[i].s] = c

\* Connections that no call uses and that never come back.
Lost == {c \in Conns : /\ \A i \in DOMAIN idle : idle[i] # c
                       /\ \A s \in Streams : st[s] = "open" => conn[s] # c}

\* A call ended by an unchecked exception has left its transaction open: the
\* row locks stay, with a connection nobody has.
LocksLeft == \E s \in Streams : reply[s] = "error" /\ conn[s] \in Lost /\ work[conn[s]] # NoWork

\* Every call ends, deadlocks between sessions included; only a pool that has
\* lost all its connections, or locks left behind by an exception that escaped
\* from onNext, leave a call waiting.
CallsEnd ==
    \A s \in Streams : <>(st[s] \notin {"idle", "open"} \/ Lost = Conns \/ LocksLeft)

\* What the pool's assertInnerState() asserts of its counter.
InnerState == active >= 0
=============================================================================
