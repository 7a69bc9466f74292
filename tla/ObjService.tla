------------------------------ MODULE ObjService ------------------------------
(***************************************************************************)
(* ObjServiceImpl: the read requests, each run by a thread of the gRPC     *)
(* server through a method of ObjectRepository.  A request takes a         *)
(* connection (atomically, see ConnectionPool), runs one SELECT, gives the *)
(* connection back and answers; getIndexRecordInBatches does so once per   *)
(* batch.  The methods differ in what they do when something fails: which  *)
(* exceptions they catch, whether the connection goes back, what is        *)
(* answered.  Pooled connections keep their database session, and no       *)
(* method here ends the transaction its SELECT began.                      *)
(* NO_DB and CACHED are off: getObjectExt reads the database.              *)
(***************************************************************************)
EXTENDS Integers, Sequences, FiniteSets, SequencesExt

CONSTANTS
    Requests,         \* the calls clients make
    Queries,          \* Queries[r]: what the client of r may ask
    ROSize, RWSize,   \* connections of the two pools
    Names,            \* names, numbered in the order of the index on nameLower
    lower,            \* lower[n]: the name in lower case
    InitialObjects,   \* the objects table at the start: [Names -> row or NoRow]
    InitialIndex,     \* an index table at the start, in the order a scan meets its rows
    limitBatchSize,   \* 100 in getIndexRecordInBatches
    MaxWrites,        \* bound: changes to the objects table
    MaxInserts,       \* bound: rows added to the index table
    MaxCuts,          \* bound: connections that break
    Faults,           \* connections may break and a take may time out
    NoRow, Null

Pools == {"ro", "rw"}
Size(p) == IF p = "ro" THEN ROSize ELSE RWSize
PoolConns(p) == {<<p, i>> : i \in 1..Size(p)}
Conns == PoolConns("ro") \cup PoolConns("rw")

\* One kind per way of treating failures: lookupByName, lookupByType and their
\* streams; getObject; the getObjectMany family; getIndexMsgManyByNameExtStream;
\* getObjectExt; getIndexMsgByName; getIndexRecordMany; getIndexRecordInBatches.
Kinds == {"lookup", "mem", "many", "manyIndex", "full", "msg", "index", "batches"}

ASSUME ObjServiceAssumption ==
    /\ ROSize \in Nat \ {0} /\ RWSize \in Nat \ {0}
    /\ limitBatchSize \in Nat \ {0}
    /\ MaxWrites \in Nat /\ MaxInserts \in Nat /\ MaxCuts \in Nat
    /\ Faults \in BOOLEAN
    /\ Names \subseteq Nat
    /\ InitialObjects \in [Names -> {NoRow} \cup [type : Nat, ver : Nat]] /\ InitialIndex \in Seq(Names)
    /\ \A n \in Names : lower[n] \in Names /\ lower[lower[n]] = lower[n]
    /\ \A r \in Requests : \A q \in Queries[r] : q.kind \in Kinds /\ q.accepted \in BOOLEAN

VARIABLES
    tables,       \* every committed state of the objects table, the last one is current
    index,        \* the index table
    session,      \* per connection: none, in a transaction, aborted, cut (unknown to the driver), closed
    snapshot,     \* per connection: Len(tables) and Len(index) when its transaction began
    idle,         \* per pool: recycledConnections
    checking,     \* per pool: the checkConnection thread is alive
    pc,           \* per request: new, take, query, close, over
    query,        \* per request: what it asks
    conn,         \* per request: the connection it took last
    fate,         \* per request: how its last statement went
    batch,        \* per request: the rows its last statement returned
    streamed,     \* per request: the rows of the batches before
    reply,        \* per request: how the call ended
    began,        \* per request: Len(tables) and Len(index) when it began
    ran,          \* per request: the connections it has run a statement on
    cut           \* the connections that ever broke

vars == <<tables, index, session, snapshot, idle, checking, pc, query, conn, fate, batch, streamed, reply, began, ran, cut>>
callVars == <<pc, query, conn, fate, batch, streamed, reply, began, ran>>

objects == tables[Len(tables)]

\* The call has not ended yet.
NoReply == [status |-> "none", rows |-> <<>>]

\* SimpleJDBCConnectionProvider gives both pools autoCommit = false.
autoCommit(p) == FALSE

Init ==
    /\ tables = <<InitialObjects>> /\ index = InitialIndex
    /\ session = [c \in Conns |-> "none"]
    /\ snapshot = [c \in Conns |-> [table |-> 1, index |-> Len(InitialIndex)]]
    /\ idle = [p \in Pools |-> [i \in 1..Size(p) |-> <<p, i>>]]
    /\ checking = [p \in Pools |-> TRUE]
    /\ pc = [r \in Requests |-> "new"]
    /\ query \in {f \in [Requests -> UNION {Queries[r] : r \in Requests}] :
                     \A r \in Requests : f[r] \in Queries[r]}
    /\ conn = [r \in Requests |-> Null]
    /\ fate = [r \in Requests |-> "none"]
    /\ batch = [r \in Requests |-> <<>>]
    /\ streamed = [r \in Requests |-> <<>>]
    /\ reply = [r \in Requests |-> NoReply]
    /\ began = [r \in Requests |-> [table |-> 1, index |-> Len(InitialIndex)]]
    /\ ran = [r \in Requests |-> {}]
    /\ cut = {}

-----------------------------------------------------------------------------
\* The SELECT statements.

\* expression(): the comparison and the order of a lookup.
expression(t) ==
    CASE t = 2 -> [cmp |-> "=", asc |-> TRUE]
      [] t = 3 -> [cmp |-> "<=", asc |-> TRUE]
      [] t = 4 -> [cmp |-> "<=", asc |-> FALSE]
      [] t = 6 -> [cmp |-> ">=", asc |-> FALSE]
      [] OTHER -> [cmp |-> ">=", asc |-> TRUE]

Compares(cmp, a, b) == CASE cmp = "=" -> a = b [] cmp = "<=" -> a <= b [] cmp = ">=" -> a >= b

\* A row of the objects table as an answer carries it.
Row(tbl, n) == <<n, tbl[n]>>

RowsOf(tbl) == {n \in Names : tbl[n] # NoRow}

\* LOOKUP_OBJECTS and LOOKUP_OBJECTS_BY_TYPEID.
lookup(tbl, q) ==
    LET e == expression(q.type)
        hits == {n \in RowsOf(tbl) : /\ Compares(e.cmp, lower[n], lower[q.name])
                                     /\ q.objectType \in {Null, tbl[n].type}}
        sorted == SetToSortSeq(hits, LAMBDA a, b : IF e.asc THEN lower[a] < lower[b]
                                                            ELSE lower[b] < lower[a])
    IN [i \in 1..(IF q.limit < Len(sorted) THEN q.limit ELSE Len(sorted)) |-> Row(tbl, sorted[i])]

\* GET_MEM and GET_FULL_OBJECT: the name is put in lower case.
getFullObject(tbl, q) == SetToSeq({Row(tbl, n) : n \in {m \in RowsOf(tbl) : lower[m] = lower[q.name]}})

\* GET_MANY_MEM_RECORDS and GET_MANY_RECORDS.
getMany(tbl, q) ==
    SetToSeq({Row(tbl, n) : n \in {m \in RowsOf(tbl) : \E k \in q.names : lower[m] = lower[k]}})

\* GET_MANY_INDEX_RECORDS.
getIdxMany(idx, q) == SelectSeq(idx, LAMBDA n : \E k \in q.names : lower[n] = lower[k])

\* GET_FULL_INDEX_RECORD compares name, GET_INDEX_RECORD compares nameLower; neither
\* puts what the client sent in lower case.
getIndexObjects(idx, q) == SelectSeq(idx, LAMBDA n : n = q.name)
getIndexRecord(idx, q) == SelectSeq(idx, LAMBDA n : lower[n] = q.name)

\* Mutant: the offset counts the last row of the batch before once more.
BatchOverlaps(idx, offset) ==
    SubSeq(idx, IF offset = 0 THEN 1 ELSE offset,
           IF offset + limitBatchSize < Len(idx) THEN offset + limitBatchSize ELSE Len(idx))

\* GET_FROM_INDEX_TABLE_WITH_LIMIT; no ORDER BY: the rows as a scan meets them.
indexRecordsInBatch(idx, offset) ==
    SubSeq(idx, offset + 1, IF offset + limitBatchSize < Len(idx) THEN offset + limitBatchSize ELSE Len(idx))

\* What the statement of request q answers; a batch starts where the last one ended.
Answer(q, tbl, idx, offset) ==
    CASE q.kind = "lookup" -> lookup(tbl, q)
      [] q.kind \in {"mem", "full"} -> getFullObject(tbl, q)
      [] q.kind = "many" -> getMany(tbl, q)
      [] q.kind = "manyIndex" -> getIdxMany(idx, q)
      [] q.kind = "msg" -> getIndexObjects(idx, q)
      [] q.kind = "index" -> getIndexRecord(idx, q)
      [] q.kind = "batches" -> indexRecordsInBatch(idx, offset)

Now == [table |-> Len(tables), index |-> Len(index)]

\* Mutant: REPEATABLE READ, where every statement sees what its transaction began with.
VisibleRepeatable(c) == IF session[c] = "open" THEN snapshot[c] ELSE Now

\* Both pools ask for READ COMMITTED: a statement sees what is committed when it runs.
Visible(c) == Now

-----------------------------------------------------------------------------
\* How the methods and the handlers treat failures.

\* getIndexObjectsFromCSV is the one read on the read-write pool.
PoolOf(k) == IF k = "msg" THEN "rw" ELSE "ro"

\* Mutant: getManyMemByName and its like close only on the way through.
LosesConnectionMany(k) == k \in {"mem", "full", "many", "manyIndex"}

\* try-with-resources closes whatever happens.  getMemByKeyInBytes closes only on
\* the way through; getFullObject calls rs.close() first, on a null rs when the
\* statement failed, and so never gets to connection.close().
LosesConnection(k) == k \in {"mem", "full"}

\* Methods that catch Exception; the others catch SQLException only, which neither
\* the pool's TimeoutException nor the proxy's UndeclaredThrowableException is.
CatchesAll(k) == k \in {"lookup", "full", "msg"}

\* How a call ends: done with rows, told that the object is not there, failed, a
\* null response, or nothing: the handler logged the exception and the call stays open.
Reply(k, f, rows) ==
    LET escapes == f = "unchecked" /\ ~CatchesAll(k)
        status == CASE k = "index" /\ (escapes \/ rows = <<>>) -> "error"
                    [] escapes -> "open"
                    [] k = "full" /\ rows = <<>> -> "open"
                    [] k = "mem" /\ rows = <<>> -> "notFound"
                    [] k = "msg" /\ f # "ok" -> "null"
                    [] k = "msg" /\ rows = <<>> -> "notFound"
                    [] OTHER -> "done"
    IN [status |-> status, rows |-> rows]

\* Mutant: the loop has lost its break.
NextBatchForever(r) == query[r].kind = "batches" /\ fate[r] = "ok"

\* A batch that came back full is followed by the next one.
NextBatch(r) ==
    query[r].kind = "batches" /\ fate[r] = "ok" /\ Len(batch[r]) = limitBatchSize

-----------------------------------------------------------------------------
\* A request arrives; getNumber() of a type the protocol does not know throws.
Begin(r) ==
    /\ pc[r] = "new"
    /\ began' = [began EXCEPT ![r] = Now]
    /\ IF query[r].kind = "lookup" /\ query[r].type = Null
       THEN /\ pc' = [pc EXCEPT ![r] = "over"]
            /\ reply' = [reply EXCEPT ![r] = [status |-> "open", rows |-> <<>>]]
       ELSE /\ pc' = [pc EXCEPT ![r] = "take"]
            /\ UNCHANGED reply
    /\ UNCHANGED <<tables, index, session, snapshot, idle, checking, query, conn, fate, batch, streamed, ran, cut>>

\* The pool's take() returned a connection.
getConnection(r) ==
    LET p == PoolOf(query[r].kind)
    IN /\ pc[r] = "take" /\ idle[p] # <<>>
       /\ conn' = [conn EXCEPT ![r] = Head(idle[p])]
       /\ idle' = [idle EXCEPT ![p] = Tail(@)]
       /\ pc' = [pc EXCEPT ![r] = "query"]
       /\ UNCHANGED <<tables, index, session, snapshot, checking, query, fate, batch, streamed, reply, began, ran, cut>>

\* The call ends with what the handler makes of rows and of how the statement went.
Ends(r, f, rows) ==
    /\ fate' = [fate EXCEPT ![r] = f]
    /\ pc' = [pc EXCEPT ![r] = "over"]
    /\ reply' = [reply EXCEPT ![r] = Reply(query[r].kind, f, rows)]

\* take() came back too late: the pool throws, and keeps no trace of the connection.
getConnectionTimesOut(r) ==
    LET p == PoolOf(query[r].kind)
    IN /\ Faults
       /\ pc[r] = "take" /\ idle[p] # <<>>
       /\ conn' = [conn EXCEPT ![r] = Head(idle[p])]
       /\ idle' = [idle EXCEPT ![p] = Tail(@)]
       /\ Ends(r, "unchecked", streamed[r])
       /\ UNCHANGED <<tables, index, session, snapshot, checking, query, batch, streamed, began, ran, cut>>

\* The SELECT runs, and begins a transaction if none is open.
executeQuery(r) ==
    LET c == conn[r] v == Visible(c)
    IN /\ pc[r] = "query" /\ session[c] \in {"none", "open"} /\ query[r].accepted
       /\ batch' = [batch EXCEPT ![r] =
                      Answer(query[r], tables[v.table], SubSeq(index, 1, v.index), Len(streamed[r]))]
       /\ snapshot' = [snapshot EXCEPT ![c] = IF session[c] = "none" THEN Now ELSE @]
       /\ session' = [session EXCEPT ![c] = IF autoCommit(c[1]) THEN "none" ELSE "open"]
       /\ fate' = [fate EXCEPT ![r] = "ok"]
       /\ ran' = [ran EXCEPT ![r] = @ \cup {c}]
       /\ pc' = [pc EXCEPT ![r] = "close"]
       /\ UNCHANGED <<tables, index, idle, checking, query, conn, streamed, reply, began, cut>>

\* What a failed statement leaves: an aborted transaction refuses every statement
\* until it is rolled back, which nobody does; a driver that meets a cut session
\* closes its end.
AfterFailure(c) ==
    CASE session[c] = "cut" -> "closed"
      [] session[c] = "closed" -> "closed"
      [] OTHER -> IF autoCommit(c[1]) THEN "none" ELSE "aborted"

\* The statement fails: executeQuery throws an SQLException, or, on a connection
\* the driver knows to be closed, prepareStatement does and the proxy wraps it.
executeQueryFails(r) ==
    LET c == conn[r]
        f == IF session[c] = "closed" THEN "unchecked" ELSE "sql"
    IN /\ pc[r] = "query"
       /\ session[c] \in {"aborted", "cut", "closed"} \/ ~query[r].accepted
       /\ session' = [session EXCEPT ![c] = AfterFailure(c)]
       /\ ran' = [ran EXCEPT ![r] = @ \cup {c}]
       /\ batch' = [batch EXCEPT ![r] = <<>>]
       /\ IF LosesConnection(query[r].kind)
          THEN Ends(r, f, <<>>)
          ELSE /\ fate' = [fate EXCEPT ![r] = f]
               /\ pc' = [pc EXCEPT ![r] = "close"]
               /\ UNCHANGED reply
       /\ UNCHANGED <<tables, index, snapshot, idle, checking, query, conn, streamed, began, cut>>

\* What the client is given: the batches one after the other, or the one result.
Answered(r) == IF query[r].kind = "batches" THEN streamed[r] \o batch[r] ELSE batch[r]

\* The connection goes back as it is, then the handler answers or reads on.
close(r) ==
    LET c == conn[r]
    IN /\ pc[r] = "close"
       /\ idle' = [idle EXCEPT ![c[1]] = Append(@, c)]
       /\ IF NextBatch(r)
          THEN /\ streamed' = [streamed EXCEPT ![r] = Answered(r)]
               /\ pc' = [pc EXCEPT ![r] = "take"]
               /\ UNCHANGED <<fate, reply>>
          ELSE Ends(r, fate[r], Answered(r)) /\ UNCHANGED streamed
       /\ UNCHANGED <<tables, index, session, snapshot, checking, query, conn, batch, began, ran, cut>>

\* checkConnection takes an idle connection: a valid one goes back (one whose
\* transaction is aborted answers isValid with true), an invalid one ends the
\* thread at the cast of the proxy.
checkConnection(p) ==
    /\ checking[p] /\ idle[p] # <<>>
    /\ LET c == Head(idle[p])
       IN IF session[c] \in {"cut", "closed"}
          THEN idle' = [idle EXCEPT ![p] = Tail(@)] /\ checking' = [checking EXCEPT ![p] = FALSE]
          ELSE idle' = [idle EXCEPT ![p] = Append(Tail(@), c)] /\ UNCHANGED checking
    /\ UNCHANGED <<tables, index, session, snapshot, cut, callVars>>

\* The world: a connection breaks, a transaction changes a row, a load adds one.
Breaks(c) ==
    /\ Faults /\ Cardinality(cut) < MaxCuts
    /\ session[c] \in {"none", "open", "aborted"}
    /\ session' = [session EXCEPT ![c] = "cut"] /\ cut' = cut \cup {c}
    /\ UNCHANGED <<tables, index, snapshot, idle, checking, callVars>>

Write(n) ==
    /\ Len(tables) <= MaxWrites
    /\ objects[n] # NoRow \/ \A m \in RowsOf(objects) : lower[m] # lower[n]
    /\ \E row \in {NoRow, [type |-> 1, ver |-> Len(tables)]} \ {objects[n]} :
          tables' = Append(tables, [objects EXCEPT ![n] = row])
    /\ UNCHANGED <<index, session, snapshot, idle, checking, cut, callVars>>

InsertIndexRow(n) ==
    /\ Len(index) < Len(InitialIndex) + MaxInserts
    /\ \A i \in 1..Len(index) : lower[index[i]] # lower[n]
    /\ index' = Append(index, n)
    /\ UNCHANGED <<tables, session, snapshot, idle, checking, cut, callVars>>

Runs(r) ==
    \/ Begin(r) \/ getConnection(r) \/ getConnectionTimesOut(r)
    \/ executeQuery(r) \/ executeQueryFails(r) \/ close(r)

Next ==
    \/ \E r \in Requests : Runs(r)
    \/ \E p \in Pools : checkConnection(p)
    \/ \E c \in Conns : Breaks(c)
    \/ \E n \in Names : Write(n) \/ InsertIndexRow(n)

Spec == Init /\ [][Next]_vars

\* Fair threads: a request that can take a step takes one.  Begin is the client's.
FairSpec ==
    Spec /\ \A r \in Requests :
               WF_vars(getConnection(r) \/ executeQuery(r) \/ executeQueryFails(r) \/ close(r))

-----------------------------------------------------------------------------
\* Values, and pools that never hold more than they were built with.
TypeOK ==
    /\ session \in [Conns -> {"none", "open", "aborted", "cut", "closed"}]
    /\ \A p \in Pools : Len(idle[p]) <= Size(p) /\ Range(idle[p]) \subseteq PoolConns(p)
    /\ pc \in [Requests -> {"new", "take", "query", "close", "over"}]
    /\ \A r \in Requests : pc[r] \in {"query", "close"} => conn[r] \in PoolConns(PoolOf(query[r].kind))
    /\ fate \in [Requests -> {"none", "ok", "sql", "unchecked"}]
    /\ \A r \in Requests : (pc[r] = "over") = (reply[r] # NoReply)
    /\ cut \subseteq Conns

Over(r) == pc[r] = "over"
Rows(r) == reply[r].rows

\* The right answers to r: those of the states between its beginning and now.
RightAnswers(r) ==
    {Answer(query[r], tables[k], SubSeq(index, 1, j), 0) :
        k \in began[r].table..Len(tables), j \in began[r].index..Len(index)}

\* r has run on a connection that broke, or that a rejected statement of another
\* request has left inside an aborted transaction.
Poisoned(r) ==
    \E c \in ran[r] :
        c \in cut \/ \E s \in Requests \ {r} : ~query[s].accepted /\ c \in ran[s]

\* The rows a request answers with are what its SELECT says of one committed state
\* between the beginning and the end of the call, although it ran inside a
\* transaction some earlier request began and nobody ended.  A client that gets no
\* rows asked for none that were there throughout, or its own statement was
\* rejected, or it never got to run one, or the connection it was given was spoilt
\* before: the catch blocks turn all of these into "not found".
AnswersAreGenuine ==
    \A r \in Requests :
        Over(r) /\ query[r].kind # "batches" =>
            \/ Rows(r) \in RightAnswers(r)
            \/ Rows(r) = <<>> /\ (ran[r] = {} \/ ~query[r].accepted \/ Poisoned(r))

\* getIndexRecordInBatches streams a prefix of the table, each row once although
\* rows are added meanwhile; a stream that is completed has every row that was
\* there when it began, unless a statement failed in the middle.
BatchesComplete ==
    \A r \in Requests :
        Over(r) /\ query[r].kind = "batches" =>
            /\ IsPrefix(Rows(r), index)
            /\ Len(Rows(r)) >= began[r].index \/ ~query[r].accepted \/ Poisoned(r) \/ reply[r].status = "open"

Holders(c) == {r \in Requests : pc[r] \in {"query", "close"} /\ conn[r] = c}
Places(c) == {i \in 1..Len(idle[c[1]]) : idle[c[1]][i] = c}

\* A connection is idle, once, or in the hands of one request.  If it is neither it
\* is lost, and that happens in four ways only: getObject or getObjectExt whose
\* statement failed, a take that came too late, the checker that met it broken.
\* (And every variable has its type.)
ConnectionsAccounted ==
    /\ TypeOK
    /\ \A c \in Conns :
          LET places == Cardinality(Holders(c)) + Cardinality(Places(c))
          IN \/ places = 1
             \/ /\ places = 0
                /\ \/ \E r \in Requests :
                         /\ Over(r) /\ conn[r] = c
                         /\ \/ query[r].kind \in {"mem", "full"} /\ fate[r] # "ok"
                            \/ fate[r] = "unchecked" /\ Faults
                   \/ ~checking[c[1]] /\ c \in cut

\* Every connection of the pool is lost: idle nowhere, held by nobody.
Drained(p) == \A c \in PoolConns(p) : Holders(c) = {} /\ Places(c) = {}

\* Every call the server has begun to work on comes to an end, the ones the database
\* rejects included, or waits for a pool whose connections have all been lost; a
\* loop over batches ends although rows are added while it runs.
RequestsEnd ==
    \A r \in Requests : []<>(pc[r] = "new" \/ Over(r) \/ Drained(PoolOf(query[r].kind)))
=============================================================================
