# Verification of aurora-sizing

This directory holds a TLA+ model of the object server in this repository, of its
C++ middleware and of the asynchronous database library the middleware runs on,
the TLC runs that check them on small instances, and TLAPS proofs for every
instance of the connection pool, the transaction service, the read requests, the
cache, the middleware, the resource pool, and ozo's operations and sessions. Paths below are
relative to the repository root; Java classes are in
`src/main/java/org/anonymous/`, ozo and yamail in `middleware-cpp/includes/`.

## 1. The system

The server keeps named objects in one PostgreSQL (Aurora) table `objects` and
serves them over gRPC. Index tables hold some columns per object name. A second
server in C++, the middleware, serves the same table over a binary TCP protocol.

| Part | State it keeps | Operations |
|---|---|---|
| Connection pool, `connection/pool/SimpleDataSource2` | queue of idle connections, counter of active ones, closed flag | constructor, `getConnection`, `closeHandler` (the `close()` of a borrowed connection), `checkConnection` loop, `close` |
| Transaction service, `server/TransactionServiceImpl` | per call: connection, id, part index; in the database: objects, header and part log, sequence | `onNext` (header, insert, update, rename, delete, trailer), `onError`, `onCompleted` |
| Object service, `server/ObjServiceImpl` on `module/ObjectRepository` | none of its own; the sessions of pooled connections | lookups, `getObject`, `getObjectExt`, the `Many` family, index reads, reads in batches |
| Near cache, `module/NearCachedObjectRepository` | map per process, Redis primary and replica | `getFullObject` through three levels |
| Bulk loader, in `ObjectRepository` | queue of objects, progress counters, futures | `load`, `insertObjectsFromCSV`, `dataLoadFromCSV`, `reconFromCSV`, index load |
| External ids, `sql/Store` and `server/SQLCTETester` | `txn_id_map` | trigger `generate_txn_id` |
| C++ middleware, `middleware-cpp/server`, and its client `client-cpp` | per connection: buffer, index, sizes, the decoded message | `accept`, `read`, `write`; attach, name lookup, get by name |
| Resource pool, `yamail/resource_pool/async`, used by `ozo/connection_pool.h` | lists of cells, queue of requests, a timer per io_context | `get`, return, hand-over, `invalidate`, `disable`, timeouts |
| ozo operations, `ozo/impl/async_connect.h`, `async_request.h`, `cancel.h`, `detail/deadline.h` | per operation: waits for the socket, query state, deadline | connect, oid map, request, `close`, `cancel` |
| ozo failover and transactions, `ozo/failover`, `ozo/transaction.h`, `ozo/error.h` | tries left, roles left, transaction status | retry, role-based fallback, `begin`, `commit`, `rollback` |
| ozo queries and protocol, `ozo/query_conf.h`, `query_builder.h`, `ozo/io` | query repository; none in the codec | make a query, send parameters, receive results |
| Clients: Go `clientgo/ssclient`, Java | Go transactor: buffer of operations | `Insert`, `Update`, `Rename`, `Delete`, `End` |

How they interact: each gRPC call runs on a thread of the server. Reads take a
connection from the read-only pool (one method from the read-write pool) for one
statement; a transaction call takes one from the read-write pool when it opens
and keeps it until it ends. A borrowed connection is a dynamic proxy: `close()`
runs `closeHandler`, everything else goes to the driver, and an `SQLException`
of the driver comes out of the proxy as an unchecked
`UndeclaredThrowableException`, which most catch blocks above do not expect.
Statements made from the connection are not proxied and throw `SQLException`.
Connections keep their database session, and so an open or aborted transaction,
from one borrower to the next.

In the middleware, a connection's handlers run on a network io_context; a request
goes to a database io_context, where `Repository` gets a pooled connection, runs
the query through ozo, and posts the write back. ozo's operations are callbacks:
each wait for the socket ends in a handler that is queued on a strand and runs
later, after other handlers, timers and cancellations may have run.

What is hard: the queue and the counter of the pool are two objects; the checker
competes with borrowers; a late `take()` loses a connection; sessions block each
other on row locks; calls are cancelled, fail in the middle, or get their
half-close late; failed reads are answered like absent rows; connections are
lost on some paths and poisoned on others. In C++: frames longer than they
announce; a pool with two locks and a hand-over outside both; two operations and
a timer that may each end one request; deadlines that race with handlers already
queued; retries of statements that may have been executed; sizes computed apart
from the bytes they stand for. `PROJECT.json` lists the hazards with
their lines.

What makes each part correct: the pool never gives one connection to two owners
and its gauges tell the truth; a transaction is all or nothing up to its
trailers, no update is lost, answer and log agree with the database; a read
answers with rows of a committed state, a client that is told "nothing there" is
told so for a known reason, and connections come back; a cache may be old, but
what it holds was once true of that object, and the servers agree on it. The
middleware answers the request that was sent; the resource pool leaks and shares
nothing and answers every `get`; an ozo operation calls its handler once and
leaves a clean connection; failover tries what it was asked to and no more;
parameters and results arrive as they were sent.

## 2. Modules

| Module | Models |
|---|---|
| `SimpleDataSource2` | the pool, step by step |
| `ConnectionPool` | what the pool promises to its users |
| `SimpleDataSource2Proofs` | theorems about the pool |
| `TransactionService` | transaction calls, pool and database sessions |
| `TransactionServiceProofs` | theorems about transactions |
| `ObjService` | read requests, the two pools and their sessions |
| `ObjServiceProofs` | theorems about read requests |
| `NearCache` | `getFullObject` with `usecache`: near caches, Redis, database |
| `NearCacheProofs` | theorems about the cache |
| `ResourcePool` | the yamail pool with ozo's connections in its cells |
| `ResourceLease` | what a resource pool promises its clients |
| `ResourcePoolProofs` | theorems about the resource pool |
| `MiddlewareServer` | C++ server and client with the TCP stream between them |
| `MiddlewareServerProofs` | theorems about the middleware and its client |
| `OzoOperation` | connect, request, deadline, close and cancel on one connection |
| `OzoOperationProofs` | theorems about operations |
| `OzoErrors` | error codes and conditions |
| `OzoSession` | requests under failover strategies, and transactions |
| `OzoSessionProofs` | theorems about failover and transactions |
| `Selection` | elements of a sequence picked by their positions |
| `OzoQuery` | query repository and query builder |
| `OzoCodec` | parameters and results in the binary protocol |
| `MC*` | constants for TLC |

**SimpleDataSource2.** `recycledConnections`, `activeConnections` and `isClosed`
are the fields of the class. `pc` and `ref` say where each borrowing thread is
and which proxy it refers to. One step is one access to the queue, the counter
or the flag: `Take` and `ReturnConnection` are `take()` and `incrementAndGet()`
of `getConnection`; `CloseHandlerAdd` and `CloseHandlerDecrement` are the two
lines of `closeHandler`; `CheckLoop` to `CheckSleep` are the checker's loop,
`CheckDies` its end on an invalid connection (the cast of the proxy to
`ConnectionProxy` throws `ClassCastException`, which the loop does not catch).
`TakeTimedOut` drops the connection. `CallsClose` also lets a thread close a
connection it has given back before, at most `MaxExtraCloses` times;
`GoodDevelopers` says that so far nobody has, which is the class's own
assumption. `opened`,
`leaked` and `extraCloses` are history variables. The recycler sleeps for
`Long.MAX_VALUE` and the credentials loop is empty; neither has actions.

**ConnectionPool.** One owner per connection; it changes hands through "idle"
only, and a lost connection stays lost. `SimpleDataSource2!KeepsPromise`
instantiates it with the owner read off the queue and the threads: every step
is one of the promise as long as nobody has closed twice.

**TransactionService.** One stream per call, with the fields of the anonymous
`StreamObserver`. `Begin` is its two initializers. `OnNext` is the switch with
the log insert that follows it; `OnNextCommits` the trailer. `OnNextFails` is
a statement the database refuses, with the whole `onError` behind it,
`OnNextFaults` the same for a connection that fails; `OnNextThrows` any
unchecked exception, after which gRPC closes the call and nobody rolls back or
closes. `late` remembers that a half-close came after the call was closed; what
is said of answers and private sessions holds until then. What is said of the
history holds always, and so does that the log names what was done; that its parts
are numbered without a gap holds until then, because a late half-close can give
one connection to two calls, and a rollback of one then drops parts of the other.
`OnCompleted` commits, closes, answers. Names have a lower-case form,
because the unique index is on `nameLower` while the WHERE clauses compare
`name`. The answer fails after the commit when the id exceeds `IntMax`
(`Math.toIntExact`). Give-back and take are atomic here; that is what the pool's
promise allows.

**ObjService.** A request takes a connection, runs its SELECT, gives the
connection back, and the handler answers. The kinds of request are grouped by
how they treat failures, which is where the methods differ: `LosesConnection`
(no close on failure), `CatchesAll` (which exceptions are caught) and `Reply`
(what the client is told; "open" means the handler logged and the call was
never closed). `session` is the state of each connection's database session:
no transaction, open, aborted, cut (the driver does not know yet) or closed.
`tables` is the list of all committed states of the objects table, so that an
answer can be compared with the states during the call. Writes and index
inserts come from the environment. The rows of a batch are taken to decode; the
per-row failure messages of the `Many` handlers are left out.

**NearCache.** Each thread of a server runs `getFullObject`, one access to a
shared cache per step: `getFromNearCache`, `withInitial` (the first use of a
thread-local Redis connection), `getFromRedis`, `delegateGetFullObject`,
`setToRedis`, `setToNearCache`, `Answer`. A version number stands for the whole
row. `toBytesFits` is what `toBytes` and `fromBytes` do: the buffer is allocated
from the name's length in characters and filled with its bytes, so it overflows
for names outside ASCII and is read back unchanged otherwise. The database level
is the result of `ObjService`'s "full" request: the row, or nothing when it is
absent or the read failed. `past`, `during`, `failed`, `fetched` and `shared` are
history variables. What one must know about the code: nothing is ever
invalidated, so updated and deleted objects are served from the caches for ever;
and a reader delayed between its database read and its `put` can leave a server
with an older version than the one all others see. The properties say what holds
nevertheless.

**ResourcePool.** `available`, `used`, `wasted`, `queue` and `timers` are the
fields of `storage`, `queue` and `pool_impl`; a cell's connection carries whether
it is bad, whether its transaction is open, and the number of `invalidate` calls
it has seen. `get` is split where the code gives up the mutex: lease, then
`push`. A return (`destroy`) either recycles or pops a waiting client, and hands
the cell over in a step of its own. A posted completion runs later and connects
when the cell is empty. `Timer` and the callback of a fired timer are apart, and
time passes when nothing urgent is due. `ResourceLease` is the promise: a client
asks, and gets a cell nobody else has, or an error, once.

**MiddlewareServer.** Per client: what it sends and waits for; per connection:
`buf`, `index`, `msg_size`, `header_size` and the stage of its request. A frame is
a sequence of units of about two bytes; `read` takes any prefix of what is on the
wire if the client is in `Cut`. `encode` keeps what the code does: the eight bytes
behind each block, the two- and four-byte sizes, the lookup that writes its type
over its size. `torn` marks a cut inside the bytes a frame does not announce,
after which the code cannot find the next header; `failed` marks failures of the
environment. Each `Connection` holds its own copy of the `IOContextPool`
(`message.h:52`), so `nextIOContext` is not shared. A name lookup puts its
parameter inside quotes (`repository.h:110`), so the prefix is not used: how many
rows it finds is open. After end of file or an error answer the client reads
memory nothing was written to, and is "undefined".

**OzoOperation.** `waits` holds the waits for the socket: waiting, or ready or
aborted with the handler queued. The send and the receive operation of a request
share a context with its `query_state`; `rendez` is the counter of
`io_deadline_handler`, `can` is a call of `cancel`. libpq, the socket and the server
are environment: bytes come in parts, with notices, or the link is lost, and
PQcancel, which blocks the thread of the executor given for it (`cancel.h:50` of the
public header), returns when it likes (`dispatch_cancel`) or never. Only a
cancel with a time constraint has a timer and a counter; without one the user's
handler is queued when PQcancel returns.

**OzoSession.** `tried` is the list of tries, each with its role, its share of
the time, its connection and what became of its statement: a try may fail with
the statement executed, or executed later. What happens when a try has failed is
stepped through, because a guard (`connection.h:891`) closes the connection when the
call that made it returns, and roles are gone through by nested calls
(`role_based.h:523`). `depth` is the number of calls that have not returned, `guards`
the depths of those whose guard is not released, `closes` how often one did close.
`try_ends` makes the first call; `get_next_try` decides about a retry;
`initiate_next_try` passes a role over (releases the guard, calls on), tries a role
while the failed connection is still open, or finds none; `call_returns` runs a
guard; `continuation` begins the retry or calls the user's handler. After the next
role has begun, the rest of the handler runs beside it, in any order. No time passes
while a handler runs and no other try does. `first_of_retries`, `first_of_roles`
and `can_recover` follow the strategies;
`txn` follows a transaction on client and server. `begin[failover]` does not
compile, so `begin` is a plain request. A COMMIT in a failed transaction is
answered by PostgreSQL as a success (it rolls back), and ozo passes that on.

**OzoQuery** and **OzoCodec.** One query from its source to its result:
`Configure` or `Build`, `to_binary_query`, `Execute` (the database), `Receive`.
Types, values and wire forms are records; bytes are numbers, big-endian in their
width. Facts the model keeps: an empty string parameter is sent as NULL
(`binary_query.h:166`); an array is sent with lower bound 0; an empty array leaves
the old contents of a reused object and skips the size check of `std::array`
(`array.h:154`); a null is refused before the oid is looked at;
`to_chrono_duration` overflows on the two days just beyond its range
(`duration.h:67`), against "In case of overflow (underflow) maximum (minimum)
valid value is used." (`duration.h:24`) - `RoundTrip` leaves these days out,
because the result of that overflow is not defined.

**External behaviour** (marked so in the map): PostgreSQL's READ COMMITTED
sessions, row locks, unique indexes, foreign key, deadlock detector and aborted
transactions, as the statements use them; pgjdbc, which answers `isValid` with
true for an aborted transaction and learns of a cut session when it next talks
to it; grpc-java, which closes a call with UNKNOWN when a handler throws, calls
`onError` on a cancelled call, and still delivers a half-close that had arrived
before the server completed the call, and whose default executor ends idle threads; Redis, whose replica copies the primary later
and which neither evicts nor loses entries in a failover; Jedis, whose connection
stays broken once it broke; Ehcache, which may evict; TCP, Boost.Asio and libpq
as described above. A table scan
without ORDER BY is taken to meet rows in the order they were added, which holds
for tables that only grow and are not scanned in synchronised fashion.

## 3. Runs

| Run | Instance | Shows |
|---|---|---|
| `pool` | 3 threads, 2 connections, queue of 2, 2 calls of `close`, 1 extra close, fair checker | `GaugesConserved` (double closes included), `ActiveIsExact`, `NoSharing`, `KeepsPromise` (refinement), `CheckerEnds` |
| `txn` | 2 calls, of 5 and 10 scripts, 1 or 2 connections left in the pool, failures, late half-closes, ids from 1 or at the edge | `SerialHistory`, `LogMatchesHistory`, `AnswerMatchesDatabase`, `SessionIsPrivate`, `CallsEnd` |
| `txn_inner_state` | late half-close | violation: `InnerState` |
| `obj` | 2 requests, of 16 and 3 queries, 1+1 connections, 1 break, 1 write, 1 index row, late takes | `AnswersAreGenuine`, `BatchesComplete`, `ConnectionsAccounted`, `RequestsEnd` |
| `cache` | 2 servers, 3 threads, 3 requests, 1 write, 1 eviction, 1 thread that ends, 1 failure | `CacheGenuine`, `NearHasSource`, `RedisAnswersAgree`, `DatabaseAnswersFresh`, `ReadsEnd` |
| `yamail_pool` | 3 clients on 2 io_contexts, 1 cell, queue of 2, 1 `invalidate`, end of the pool, idle time 1, lifespan 2 | `CellsConserved`, `HandedOutSound`, `TimeoutPending`, `KeepsPromise` (refinement of `ResourceLease`), `GetsEnd` |
| `middleware` | 2 clients, one with cut frames, 3 and 2 requests, 1 database connection, failures | `InStep`, `CloseHasCause`, `RequestsEnd` |
| `ozo_operation` | connect and 2 requests, with and without oid map and deadlines, 1 notice, close, cancel | `HandlerOnce`, `NothingLeftBehind`, `DeadlineHolds`, `CancelEnds` |
| `ozo_deadline` | 1 connect | violation: `DeadlineInterrupts` |
| `ozo_session` | 7 strategies, 8 codes, limits none, 2 and 5, clock up to 6, tries up to 1 late, 2 statements | `TriesAsAsked`, `FairShare`, `AtMostOnce`, `FailedAreClosed`, `CommitTellsTruth` |
| `ozo_codec` | values of 15 types, pairs of them, configurations of two queries, results of 1 or 2 rows | `AcceptsWellFormed`, `ParametersArrive`, `AcceptsWhatFits`, `RoundTrip` |
| `ozo_sizes` | the same | violation: `SizeIsLength` |

`TypeOK` of each module is a conjunct of one of these (`LogMatchesHistory`,
`ConnectionsAccounted`, `CellsConserved`, `InStep`, `HandlerOnce`,
`CommitTellsTruth`, `ParametersArrive`); for the Java pool and the cache it has a
theorem of its own.

Every property of a passing run has a mutant in `PROJECT.json`: a plausible
mistake in a mapped definition under which TLC finds the property violated.

**What the violations mean.** (1) A half-close delivered after `onError()` makes
`onCompleted()` close the connection again: the pool's counter goes below zero,
which `assertInnerState()` (never called) forbids. (2) The timer of a time
constraint cancels the socket's waits once. When it fires while the handler of a
finished wait is queued, there is nothing to cancel; the handler waits again and
no timer is left. `DeadlineHolds` of `ozo_operation` says that this is the only
way past a deadline. (3) The size of an array of optional numbers is that of its
first element times their number; with nulls among them the length handed to
libpq is wrong. `ParametersArrive` of `ozo_codec` says that the database refuses
these and that nothing else is refused or arrives changed.

Without a run: the read methods of `ObjectRepository` say "Making the Read-Only
Connection Pool Auto-commit" (line 809) while `SimpleJDBCConnectionProvider`
line 92 sets `autoCommit = false`, so connections go back inside a transaction;
`AnswersAreGenuine` of `obj` has the consequence: after one rejected statement,
later requests on that connection find nothing. `ext/std/string.h:15` says text
where the code binds varchar.

**Bounds.** Two connections and three threads give every overlap the pool's
operations can have: two owners, one waiting, the checker between them; the
second `close` call finds the pool closed. Two calls with at most two row
operations each are enough for lost updates, deadlock cycles, reuse of a
connection after each kind of end, and a trailer in the middle; three names of
which two differ in case only reach every branch of the unique index. For reads,
two requests suffice for poison and its victim, and batches of 1 over a table
that grows to two rows for full, empty and late pages. One cut reaches all
session states: cut, then closed by the first user, then met by the second or by
the checker. For the cache, the shortest way to two values in Redis takes a
writer of the old version, a delayed reader of the new one and a reader on
another server in between: three requests on two servers. Spellings and names
outside ASCII are covered by the proofs, which hold for all names. One cell and
three clients give the resource pool an owner, a request at the head of the queue
and one behind it on another io_context; waits of 1 and 2 put their timeouts in
either order, and a client with wait 0 gets its answer at once. In the
middleware, three requests are attach, lookup and a fetch; the second client
competes for the database connection. A connect with its oid map and two requests
let every leftover of one operation meet the next two. Three tries or roles are
the least where one can be passed over; a limit of 5 divides neither by 3 nor by 2. In the
codec `MaxMicros` is 32 and a day 5 microseconds, so that intervals lie inside,
at and beyond both ends. Counters stay finite through the constants whose names
begin with `Max`, and the scripts.

**Deadlock checking is off** in all runs: calls, requests and operations are
finite in number, and a thread may wait in `take()` on an empty queue for ever.

**Fairness.** Weak fairness of each thread's own steps: the checker and the
request handlers are threads that a scheduler runs. `CheckerEnds` assumes
nothing of borrowers. `CallsEnd` assumes clients that send their messages and
half-close in time, since the service has no deadline, and relies on no failure;
the database's deadlock detector is part of `OnNextFails`. It lets a call wait
when every connection is lost, or when an exception that escaped from `onNext`
left row locks with a connection nobody has. `RequestsEnd` needs no fairness of the queue because
only finitely many requests compete for it. Beginning a request is the client's
choice and is not fair. `ReadsEnd` is fair to the threads' steps only: the
replica need not ever catch up, and it takes for granted that the database level
returns, which is `RequestsEnd`'s business. In the C++ models the io_contexts
have threads that run what is queued, timers expire and time passes; `GetsEnd`
assumes nothing of those who have a connection, `DeadlineHolds` and `CancelEnds`
nothing of the database: PQcancel, which waits for it, is not fair. So `CancelEnds`
says of a cancel with a time constraint that its user hears of it even if PQcancel
never returns, and of one without only that he does once it has returned. (As the
header asks, it then blocks a thread of an executor of its own, not the io_context's
that runs the timer.) The middleware's `RequestsEnd` assumes a database that
answers or fails. `ozo_session` and `ozo_codec` check safety only.

## 4. Proofs

`SimpleDataSource2Proofs` proves, for every set of threads, every pool and queue
size and every bound, from `PoolAssumption` alone (sizes are natural numbers,
the queue has room for the pool, the threads are a finite set):

| Theorem | States |
|---|---|
| `TypeCorrect` | `Spec => []TypeOK` |
| `GaugesAlwaysConserved` | `Spec => []GaugesConserved` |
| `ActiveAlwaysExact` | `Spec => []ActiveIsExact /\ []QueueHasRoom` |
| `NeverShared` | `Spec => []NoSharing` |
| `PoolKeepsPromise` | `Spec => KeepsPromise`, where each step counts as long as nobody has closed twice |

The invariants build on each other. `TypeInv` adds to `TypeOK` that only
populated connections travel (`RefsOpened`). `GaugesConserved` counts threads at
program points with `At(S)`, the cardinality of a set; `CountUpdate` and
`MoveAt` say how one thread's move changes such a count, and each action then
needs arithmetic only. It holds whatever threads do, so double closes are not
excluded. `ActiveIsExact` is inductive together with it, and the two give
`QueueHasRoom` (lemma `Room`): active plus idle is at most what was opened, so a
borrower who gives back finds a slot. That in turn excludes the failing branch
of `closeHandler`. `NoSharing` is inductive with `TypeInv` once double closes are
excluded (`GoodClose`); the two index lemmas say what `Tail` and `Append` do to
a sequence without repetition. For the refinement, `OwnerCases` shows that
`ownerOf` is a function of the state without choice (`OwnerLaw`): idle, or
exactly one user, or lost. `PromiseStep` has one case per action and shows which
step of `ConnectionPool` it is, or that every owner stays.

`NearCacheProofs` proves, for all servers, threads, names, pool sizes and bounds,
from `NearCacheAssumption` alone (the constants have their types, `NoRow` and
`Null` are no versions):

| Theorem | States |
|---|---|
| `CacheTypeCorrect` | `Spec => []TypeOK` |
| `CacheAlwaysGenuine` | `Spec => []CacheGenuine` |
| `NearAlwaysHasSource` | `Spec => []NearHasSource` |
| `RedisAnswersAlwaysAgree` | `Spec => []RedisAnswersAgree` |
| `DatabaseAnswersAlwaysFresh` | `Spec => []DatabaseAnswersFresh` |

None of these is inductive alone, because a thread carries a value from one level
to the next while others change both. `Carries` says what it carries: from the
database, a version this server fetched; from Redis, what Redis still holds. The
latter is stable because `hsetnx` never replaces (step `<1>7` of `setToRedisInv`)
and reaches readers because `ReplicaFollows`. `Committed` bounds the versions
fetched and stored by those committed, and `Fresh` ties a request's database read
to the rows during the request. There is one lemma per action, and
`PartsUnchanged` for the actions that touch connections only.

`TransactionServiceProofs`, for any streams, scripts, names, pool sizes and faults,
from `TxnAssumption` (sizes and ids are natural numbers, the queue has room for the
pool, lower case is idempotent, rows are told apart from the two markers):

| Theorem | States |
|---|---|
| `HistoryIsSerial` | `Spec => []SerialHistory` |
| `SessionsArePrivate` | `Spec => []SessionIsPrivate` |
| `LogIsTrue` | `Spec => []LogMatchesHistory` |
| `AnswersAreTrue` | `Spec => []AnswerMatchesDatabase` |

Each action touches the database and the pool in one of a few ways: `DbStep` and
`PoolStep` classify them (lemma `StepKinds`), and what only depends on the class is
proved once per class.
`SerialHistory` asks for a run, the table after each committed operation; the
recursive replay is that run (`ReplayIsRun`, by a least counterexample). The
induction keeps a run of the committed history, from the first table to the present
one (`Chronicle`), and one for each session, from the present table to what the
session sees (`Sessions`). A commit appends the one to the other; what has to be
shown is that all other sessions have a run from the new table too. They do because
of `Locks` (two sessions never write one row) and `Keys` (nor claim one lower-case
name), which is what the row locks and the unique index are for. `Private` is the invariant behind private sessions (an idle
connection has no work, open calls have different connections, a session's
operations come from calls with its connection) and it is where late half-closes end
what can be said. `Logged` ties part rows to operations in every session and in the table, aligned
position by position, `IdsOf` ties an id to the one call that drew it, and `Numbers`
says that a part's number counts the parts of its id before it. `Truth` has a clause for an open call and one
for each way to end: the operations committed for a call, followed by those in its
session, are the messages it has handled, and the committed ones end at a trailer or
at the end of the script (`UpToLast`).

`ObjServiceProofs`, for any requests, queries, pool and batch sizes, tables and
numbers of changes and breaks, from `ObjServiceAssumption`:

| Theorem | States |
|---|---|
| `ConnectionsAlwaysAccounted` | `Spec => []ConnectionsAccounted` |
| `AnswersAlwaysGenuine` | `Spec => []AnswersAreGenuine` |
| `BatchesAlwaysComplete` | `Spec => []BatchesComplete` |

`Placed` says where connections are: queues have no repetition, holders are alone,
and what is in neither place is `Lost`, which nothing undoes. `Spoilt` gives each
unusable session its reason: a rejected request ran on it, or it broke. The rest is
per request. `OneAnswer` carries the result of the one statement from
`executeQuery` to the answer, as a right answer for some state since the call began;
`FullBatch` says that the batch in hand continues the rows streamed so far and is
either full or reaches what was there at the beginning. `Grows` is what every step
does to the tables, so a request that a step leaves alone keeps its part
(`CallStays`), and each action needs a look at the request that acts.

`ResourcePoolProofs`, for any clients, io_contexts, capacity, queue, times and
`invalidate` calls, from `PoolAssumption`:

| Theorem | States |
|---|---|
| `CellsAreConserved` | `Spec => []CellsConserved` |
| `ConnectionsAreSound` | `Spec => []HandedOutSound` |
| `WaitersHaveTimers` | `Spec => []TimeoutPending` |
| `PoolKeepsPromise` | `Spec => KeepsPromise`, the refinement of `ResourceLease` |

The invariant says what each state of a call means for its cell (`CallInv`,
`HandingInv`), that the three lists partition the cells and those in use belong to
one call each (`ListInv`, `OwnerInv`), that the queue has each waiting client once
(`QueueInv`), that the earliest request has the timer of its own io_context or one
that has fired (`TimerInv`), and what is known of the age and the state of each
connection, idle, on its way or in use (`SoundInv`). `get` drops what has expired
from the front of `available`, and a fired timer takes some requests out of the
queue and keeps the order of the others: the latter is what `SelectedProperties`
and the lemmas on ranks before it are for, since a sequence of picked elements is
only known through the rank of their positions (`TransactionServiceProofs` needs
the same facts, and has them too). For the refinement, `OwnerMap` gives `ownerOf` without choice, and each
step is a lease, a hand-over, a return, an answer, or leaves all of it (`AsBefore`).

`OzoOperationProofs`, for any number of operations and notices, from
`OperationAssumption`:

| Theorem | States |
|---|---|
| `CalledOnce` | `Spec => []HandlerOnce` |
| `NothingIsLeftBehind` | `Spec => []NothingLeftBehind` |

`Phase` ties operation, timer and rendezvous counter: running, waiting for the timer's
handler, or at rest. `Treats` is the list of what a step may do to them (end the
operation, end one that is over, start the next, go on to the oid map, the
deadline), and each action is one of these; `EndsLate` is the only one that calls a
handler twice, and sets `late`. Operations come in order (`Order`), and each context
belongs to one of them (`Owners`). `WaitInv` is about the waits: the connect
operation waits once, a context waits to read once, a failed context's waits have
been cancelled, and only the operation that runs waits for an answer. `Settled` is
what success leaves: a connection that takes the next query, or is gone.

`OzoSessionProofs`, for any strategies, roles, conditions, codes, limits and options,
from `SessionAssumption`:

| Theorem | States |
|---|---|
| `TriedAsAsked` | `Spec => []TriesAsAsked` |
| `SharesAreFair` | `Spec => []FairShare` |
| `ExecutedAtMostOnce` | `Spec => []AtMostOnce` |
| `FailuresAreClosed` | `Spec => []FailedAreClosed` |
| `CommitsAreTrue` | `Spec => []CommitTellsTruth` |

`Times` says when each try began and with what share, `Counts` and `Roles` how many
were left, which role it had and which were passed over, `LeftRefused` that what a
cautious strategy leaves was refused, and `TxnInv` follows the two ends of a
transaction. `FairShare` needs `Reserve`: as long as the tries end in time, an equal
share of the whole limit, rounded down, is still there for each that is left.
Rounding loses a remainder at each try, so the shares actually given may grow; the
product with the number of tries left is what every step keeps. The handler of a try
has two parts. `Decided` is what it has found out: which roles the walk has passed
over, that none is left when it gives up. `Guarded` is what it owes the connection:
only the innermost call holds a guard, a guard means that nothing was closed yet, and
a failed try without one has no open connection. A released guard without a new one
breaks the last of these, a guard kept beside the new one the first; `FailuresAreClosed` follows
with `Handled` (every try but the last has initiated another) and `Ended` (the user
is answered when all calls have returned). The invariant was checked on a smaller
`ozo_session` first.

`MiddlewareServerProofs`, for any clients, requests, cuts, buffer, table and
database connections, from `MiddlewareAssumption` (a whole request fits in the
buffer, which has 32768 bytes in the code, `connection.h:16`; the garbage sizes are
natural numbers):

| Theorem | States |
|---|---|
| `InvAlways` | `Spec => []Inv`, the inductive invariant |
| `AlwaysInStep` | `Spec => []InStep` |
| `ClosesHaveCauses` | `Spec => []CloseHasCause` |

`InStep` speaks of moments: what the server works on, what comes back, what is left
between requests. The invariant has to say where a request is at every other moment
too. `Typed` holds of every client, however its stream was cut; `Tracked` holds
until it is torn. A client that waits has its request in one place (`Waiting`):
arriving, at work, answered, or lost with a failed connection. The hard place is
`Arriving`, where bytes in the buffer and units on the wire must make up the frame
(`PartRead`) while any prefix may be read: `CutsThatTell` says after which prefixes
the stream is not torn, `HeaderFound` what `SizesOf` then finds, and `DecodedWhole`
that only a whole frame is handed on, and decodes to the request that was sent.
`msg_size` keeps a value of the frame before, which is why `Ready` names the values
it may have: a size too small would hand on half a frame. Steps that
leave a client alone are `SameKeeps` and `OnlyKeeps`; each action has a lemma. The
invariant was checked on the `middleware` instance first.

Only model-checked: liveness (`CheckerEnds`, `CallsEnd`, `RequestsEnd`,
`ReadsEnd`, `GetsEnd`, `DeadlineHolds`, `CancelEnds`), which is beyond the prover
together with ENABLED and fairness; and the four properties of `ozo_codec`
(`AcceptsWellFormed`, `ParametersArrive`, `AcceptsWhatFits`, `RoundTrip`): `OzoCodec`
computes over values nested in values with RECURSIVE operators, which the prover
does not support, and what they compute for values of any depth and length would
need induction over data. Every other safety invariant of a passing run, and both
refinements, have a theorem.

## 5. Not modelled

The bulk loader, the external id trigger and the Go transactor: offline or
outside the server's operations. What a reader of that code should know: the task
for the remaining records stops a span nobody started and dies, so `load` never
completes unless the thread count divides the record count
(`ObjectRepository.java:124`); objects queued when the rows run out are not
offloaded (`:644`), and a failed batch is logged with "will retry" and not retried
(`:686`); the trigger gives up after 100 collisions (`Store.java:30`); the Go
transactor's `End()` does not look at the response and keeps its buffer
(`transactor.go:133`). The composition of
`TransactionService` and `ObjService` on one read-write pool: each fills a run of
its own. Left out for good: the Hikari, Tomcat and unpooled providers
(configuration of third-party pools), the wiring in `GrpcServer`, statistics and
metrics, benchmark clients and experiments, the read methods only benchmarks
call, the Python generator, generated code, `tao::json` and `tao::pq` (not called),
the synchronous resource pool (not used), data files. In the modelled parts, no
property covers: `close()` of the Java pool blocking in `take()`
(`SimpleDataSource2.java:207`); handlers of the object service that log an
exception and never close the call (`ObjServiceImpl.java:170`); the middleware's
loop on end of file (`connection.h:24`); the blob whose buffer is gone when the
answer is encoded (`repository.h:93`); `disable()` running handlers under the
pool's mutex (`pool_impl.hpp:385`). No document promises otherwise, or the outcome
is undefined. Of ozo: compile-time
concepts and type registration, which have no behaviour at run time, and the
types that take the same path through the codec as those sampled. In the modelled
parts, formatting, logging, column lists and byte contents are abstracted; a row
is its name, type and version.

## 6. Plan

1. Done: the pool with its promise and proofs, transaction service, object
   service, near cache with proofs.
2. Done: resource pool with its promise, middleware and client, ozo operations,
   sessions, queries and codec.
3. Done: proofs of every safety invariant of the transaction service, the object
   service, the resource pool with its promise, ozo operations and sessions.
4. Done: proofs of the middleware's safety invariants.
5. Later: the scalar part of `OzoCodec` (integers, durations) in a module without
   recursion, with lemmas on its sizes and bounds; `ExtTxnId`, the trigger's attempts under concurrent headers;
   `BulkLoader`; `GrpcTransactor` composed with `TransactionService`.

## 7. Running

    tlc -config pool.cfg MCSimpleDataSource2          # any run: its cfg and MC module
    tlapm SimpleDataSource2Proofs.tla                 # any module with theorems

The modules with theorems are `SimpleDataSource2Proofs`, `TransactionServiceProofs`,
`ObjServiceProofs`, `NearCacheProofs`, `MiddlewareServerProofs`, `ResourcePoolProofs`,
`OzoOperationProofs` and `OzoSessionProofs`.
