------------------------------ MODULE NearCache ------------------------------
(***************************************************************************)
(* NearCachedObjectRepository.getFullObject, which getObjectExt uses when  *)
(* usecache is set: an Ehcache map in each server process, then a Redis    *)
(* hash shared by the servers, then the database.  Redis is read at a      *)
(* replica and written at the primary; nothing is ever invalidated.  The   *)
(* caches are keyed by the name as the client spelled it, the database by  *)
(* its lower-case form.  Every thread keeps, in thread-locals, the         *)
(* connection to each Redis pool that it took first.                       *)
(***************************************************************************)
EXTENDS Integers, FiniteSets

CONSTANTS
    Servers,       \* server processes
    Threads,       \* their gRPC threads
    serverOf,      \* the process of a thread
    Keys,          \* names as clients spell them
    Objects,       \* names in lower case
    lower,         \* lower[k]: toLowerCase()
    chars, bytes,  \* per object: length() of its name, and of its name's getBytes()
    MAX_TOTAL,     \* connections per Redis pool
    MaxReads,      \* bound: requests
    MaxWrites,     \* bound: changes of the objects table
    MaxExits,      \* bound: per server, idle threads that end
    MaxEvictions,  \* bound: per server, on entries that leave a near cache
    MaxFaults,     \* bound: failures of Redis and of database reads
    NoRow, Null

Pools == {"ro", "rw"}

ASSUME NearCacheAssumption ==
    /\ serverOf \in [Threads -> Servers]
    /\ lower \in [Keys -> Objects]
    /\ chars \in [Objects -> Nat] /\ bytes \in [Objects -> Nat]
    /\ MAX_TOTAL \in Nat /\ MaxReads \in Nat /\ MaxWrites \in Nat
    /\ MaxExits \in [Servers -> Nat] /\ MaxEvictions \in [Servers -> Nat]
    /\ MaxFaults \in Nat
    /\ NoRow \notin Nat /\ Null \notin Nat /\ NoRow # Null

VARIABLES
    rows,       \* per object: the version of its row, or NoRow
    past,       \* per object: every version committed so far
    writes,     \* changes of the table so far
    near,       \* per server and key: objMapCache
    primary,    \* per key: the Redis hash objMap
    replica,    \* per key: its copy
    jedis,      \* per thread and pool: jedisROConnection and jedisRWConnection
    borrowed,   \* per server and pool: connections given out
    pc,         \* per thread: idle, redis, db, setRedis, setNear, answer
    key,        \* per thread: the argument of getFullObject
    objectDTO,  \* per thread: the local variable
    from,       \* per thread: the level that answered
    during,     \* per thread: what the row was since the request began
    failed,     \* per thread: its database read failed
    fetched,    \* per server and key: versions its threads read from the database
    shared,     \* per key: versions that answers took from Redis
    exits,      \* per server: threads that ended
    reads, evictions, faults

dbVars == <<rows, past, writes>>
cacheVars == <<near, primary, replica, evictions>>
poolVars == <<jedis, borrowed, exits>>
localVars == <<key, objectDTO, from, during, failed>>
seenVars == <<fetched, shared>>
vars == <<dbVars, cacheVars, poolVars, localVars, seenVars, pc, reads, faults>>

ThreadsOf(s) == {t \in Threads : serverOf[t] = s}

\* The constructor: both caches are empty, and so are the thread-locals.
Init ==
    /\ rows = [o \in Objects |-> 0]
    /\ past = [o \in Objects |-> {0}]
    /\ writes = 0
    /\ near = [s \in Servers |-> [k \in Keys |-> Null]]
    /\ primary = [k \in Keys |-> Null]
    /\ replica = [k \in Keys |-> Null]
    /\ jedis = [t \in Threads |-> [p \in Pools |-> "none"]]
    /\ borrowed = [s \in Servers |-> [p \in Pools |-> 0]]
    /\ pc = [t \in Threads |-> "idle"]
    /\ key = [t \in Threads |-> Null]
    /\ objectDTO = [t \in Threads |-> Null]
    /\ from = [t \in Threads |-> Null]
    /\ during = [t \in Threads |-> {}]
    /\ failed = [t \in Threads |-> FALSE]
    /\ fetched = [s \in Servers |-> [k \in Keys |-> {}]]
    /\ shared = [k \in Keys |-> {}]
    /\ exits = [s \in Servers |-> 0]
    /\ reads = 0 /\ evictions = 0 /\ faults = 0

-----------------------------------------------------------------------------
\* The steps of getFullObject.

\* A level has the object, and the thread goes on at step `next`.
Found(t, value, level, next) ==
    /\ objectDTO' = [objectDTO EXCEPT ![t] = value]
    /\ from' = [from EXCEPT ![t] = level]
    /\ pc' = [pc EXCEPT ![t] = next]
    /\ UNCHANGED <<key, during>>

\* A level does not have it.
NotFound(t, next) ==
    /\ pc' = [pc EXCEPT ![t] = next]
    /\ UNCHANGED localVars

\* A request arrives and looks in the near cache; an entry there is the answer.
getFromNearCache(t, k) ==
    /\ pc[t] = "idle"
    /\ reads < MaxReads
    /\ reads' = reads + 1
    /\ \/ near[serverOf[t]][k] # Null /\ UNCHANGED <<pc, localVars>>
       \/ /\ near[serverOf[t]][k] = Null
          /\ pc' = [pc EXCEPT ![t] = "redis"]
          /\ key' = [key EXCEPT ![t] = k]
          /\ during' = [during EXCEPT ![t] = {rows[lower[k]]}]
          /\ UNCHANGED <<objectDTO, from, failed>>
    /\ UNCHANGED <<dbVars, cacheVars, poolVars, seenVars, faults>>

\* Which pool a step's Redis command goes through.
PoolAt(step) == IF step = "redis" THEN "ro" ELSE "rw"

\* ThreadLocal.get() of a thread that has no connection yet: getResource(), which
\* waits (24 days) while the pool has given out all.  Nobody gives one back.
withInitial(t) ==
    LET s == serverOf[t] p == PoolAt(pc[t]) IN
    /\ pc[t] \in {"redis", "setRedis"}
    /\ jedis[t][p] = "none"
    /\ borrowed[s][p] < MAX_TOTAL
    /\ jedis' = [jedis EXCEPT ![t][p] = "ok"]
    /\ borrowed' = [borrowed EXCEPT ![s][p] = @ + 1]
    /\ UNCHANGED <<dbVars, cacheVars, localVars, seenVars, pc, reads, exits, faults>>

\* Redis or the database fails.
Fault == faults < MaxFaults /\ faults' = faults + 1

\* A Redis command throws: getResource() could not connect, the connection broke,
\* or it had broken before, for it stays in the thread-local.
CommandFails(t) ==
    LET p == PoolAt(pc[t]) IN
    /\ \/ jedis[t][p] = "none" /\ Fault /\ jedis' = jedis
       \/ jedis[t][p] = "ok" /\ Fault /\ jedis' = [jedis EXCEPT ![t][p] = "broken"]
       \/ jedis[t][p] = "broken" /\ UNCHANGED <<jedis, faults>>
    /\ UNCHANGED <<borrowed, exits>>

\* Mutant: getResource() at each call instead of the thread-local's connection.
getFromRedisEachTime(t) ==
    /\ pc[t] = "redis"
    /\ jedis[t]["ro"] = "ok"
    /\ \/ replica[key[t]] # Null /\ Found(t, replica[key[t]], "redis", "setNear") /\ UNCHANGED failed
       \/ replica[key[t]] = Null /\ NotFound(t, "db")
    /\ jedis' = [jedis EXCEPT ![t]["ro"] = "none"]
    /\ UNCHANGED <<dbVars, cacheVars, seenVars, reads, borrowed, exits, faults>>

getFromRedis(t) ==
    /\ pc[t] = "redis"
    /\ \/ /\ jedis[t]["ro"] = "ok"
          /\ \/ replica[key[t]] # Null /\ Found(t, replica[key[t]], "redis", "setNear") /\ UNCHANGED failed
             \/ replica[key[t]] = Null /\ NotFound(t, "db")
          /\ UNCHANGED <<poolVars, faults>>
       \/ CommandFails(t) /\ NotFound(t, "db")
    /\ UNCHANGED <<dbVars, cacheVars, seenVars, reads>>

\* Mutant: what the database answered goes to the caches, also when it is nothing.
delegateGetFullObjectCachesAll(t) ==
    LET k == key[t] IN
    /\ pc[t] = "db"
    /\ \E ok \in BOOLEAN :
          /\ IF ok THEN faults' = faults ELSE Fault
          /\ failed' = [failed EXCEPT ![t] = ~ok]
          /\ Found(t, IF ok THEN rows[lower[k]] ELSE NoRow, "db", "setRedis")
          /\ UNCHANGED fetched
    /\ UNCHANGED <<dbVars, cacheVars, poolVars, shared, reads>>

\* delegate.getFullObject: the row, or nothing when there is none or the read
\* failed.  Then objectDTO.get() throws and the request is not answered.
delegateGetFullObject(t) ==
    LET k == key[t] s == serverOf[t] IN
    /\ pc[t] = "db"
    /\ \E ok \in BOOLEAN :
          LET found == ok /\ rows[lower[k]] # NoRow IN
          /\ IF ok THEN faults' = faults ELSE Fault
          /\ failed' = [failed EXCEPT ![t] = ~ok]
          /\ Found(t, IF found THEN rows[lower[k]] ELSE NoRow, "db", IF found THEN "setRedis" ELSE "answer")
          /\ fetched' = IF found THEN [fetched EXCEPT ![s][k] = @ \cup {rows[lower[k]]}] ELSE fetched
    /\ UNCHANGED <<dbVars, cacheVars, poolVars, shared, reads>>

\* toBytes() allocates length() bytes for the name and puts getBytes() there: a name
\* outside ASCII overflows the buffer.  What fits, fromBytes() reads back unchanged.
toBytesFits(o) == bytes[o] <= chars[o]

\* Mutant: hset.
hset(k, value) == primary' = [primary EXCEPT ![k] = value]

\* The field is set if it is not there.
hsetnx(k, value) == primary' = IF primary[k] = Null THEN [primary EXCEPT ![k] = value] ELSE primary

\* Whatever is thrown is logged; a command whose answer was lost may have been run.
setToRedis(t) ==
    LET k == key[t] IN
    /\ pc[t] = "setRedis"
    /\ \/ /\ jedis[t]["rw"] = "ok"
          /\ IF toBytesFits(lower[k]) THEN hsetnx(k, objectDTO[t]) ELSE primary' = primary
          /\ UNCHANGED <<poolVars, faults>>
       \/ /\ CommandFails(t)
          /\ \/ primary' = primary
             \/ jedis[t]["rw"] = "ok" /\ toBytesFits(lower[k]) /\ hsetnx(k, objectDTO[t])
    /\ NotFound(t, "setNear")
    /\ UNCHANGED <<dbVars, near, replica, evictions, seenVars, reads>>

\* Mutant: putIfAbsent, and the answer is what the cache has.
setToNearCacheIfAbsent(t) ==
    LET s == serverOf[t] k == key[t] IN
    /\ pc[t] = "setNear"
    /\ near' = IF near[s][k] = Null THEN [near EXCEPT ![s][k] = objectDTO[t]] ELSE near
    /\ Found(t, near'[s][k], from[t], "answer")
    /\ UNCHANGED <<dbVars, primary, replica, evictions, poolVars, seenVars, failed, reads, faults>>

setToNearCache(t) ==
    /\ pc[t] = "setNear"
    /\ near' = [near EXCEPT ![serverOf[t]][key[t]] = objectDTO[t]]
    /\ NotFound(t, "answer")
    /\ UNCHANGED <<dbVars, primary, replica, evictions, poolVars, seenVars, reads, faults>>

\* The response is sent, or an exception left getFullObject; the thread is free.
Answer(t) ==
    /\ pc[t] = "answer"
    /\ shared' = IF from[t] = "redis" THEN [shared EXCEPT ![key[t]] = @ \cup {objectDTO[t]}] ELSE shared
    /\ pc' = [pc EXCEPT ![t] = "idle"]
    /\ key' = [key EXCEPT ![t] = Null]
    /\ objectDTO' = [objectDTO EXCEPT ![t] = Null]
    /\ from' = [from EXCEPT ![t] = Null]
    /\ during' = [during EXCEPT ![t] = {}]
    /\ failed' = [failed EXCEPT ![t] = FALSE]
    /\ UNCHANGED <<dbVars, cacheVars, poolVars, fetched, reads, faults>>

-----------------------------------------------------------------------------
\* Around it.

\* The server's executor ends an idle thread and starts another later: thread t is
\* now a new one, and the connections of the old one are lost to their pools.
ThreadExits(t) ==
    LET s == serverOf[t] IN
    /\ pc[t] = "idle"
    /\ exits[s] < MaxExits[s]
    /\ exits' = [exits EXCEPT ![s] = @ + 1]
    /\ jedis' = [jedis EXCEPT ![t] = [p \in Pools |-> "none"]]
    /\ UNCHANGED <<dbVars, cacheVars, localVars, seenVars, pc, reads, borrowed, faults>>

\* The replica catches up.
Replicate(k) ==
    /\ replica[k] # primary[k]
    /\ replica' = [replica EXCEPT ![k] = primary[k]]
    /\ UNCHANGED <<dbVars, near, primary, evictions, poolVars, localVars, seenVars, pc, reads, faults>>

\* Ehcache makes room.
Evict(s, k) ==
    /\ near[s][k] # Null
    /\ evictions < MaxEvictions[s]
    /\ evictions' = evictions + 1
    /\ near' = [near EXCEPT ![s][k] = Null]
    /\ UNCHANGED <<dbVars, primary, replica, poolVars, localVars, seenVars, pc, reads, faults>>

\* A transaction commits a new version of an object, or its deletion.
Commit(o) ==
    /\ writes < MaxWrites
    /\ writes' = writes + 1
    /\ \E v \in {writes + 1, NoRow} :
          /\ v # rows[o]
          /\ rows' = [rows EXCEPT ![o] = v]
          /\ past' = IF v = NoRow THEN past ELSE [past EXCEPT ![o] = @ \cup {v}]
          /\ during' = [t \in Threads |->
                           IF pc[t] # "idle" /\ lower[key[t]] = o THEN during[t] \cup {v} ELSE during[t]]
    /\ UNCHANGED <<cacheVars, poolVars, seenVars, pc, key, objectDTO, from, failed, reads, faults>>

-----------------------------------------------------------------------------
Step(t) ==
    \/ withInitial(t)
    \/ getFromRedis(t)
    \/ delegateGetFullObject(t)
    \/ setToRedis(t)
    \/ setToNearCache(t)
    \/ Answer(t)

Next ==
    \/ \E t \in Threads : Step(t) \/ ThreadExits(t) \/ \E k \in Keys : getFromNearCache(t, k)
    \/ \E k \in Keys : Replicate(k) \/ \E s \in Servers : Evict(s, k)
    \/ \E o \in Objects : Commit(o)

Spec == Init /\ [][Next]_vars
FairSpec == Spec /\ \A t \in Threads : WF_vars(Step(t))

-----------------------------------------------------------------------------
\* Type invariant: what the caches, the thread-locals and the local variables hold.
\* Caches and Redis hold versions of rows, never the absence of one.
TypeOK ==
    /\ rows \in [Objects -> Nat \cup {NoRow}]
    /\ past \in [Objects -> SUBSET Nat]
    /\ near \in [Servers -> [Keys -> Nat \cup {Null}]]
    /\ primary \in [Keys -> Nat \cup {Null}]
    /\ replica \in [Keys -> Nat \cup {Null}]
    /\ jedis \in [Threads -> [Pools -> {"none", "ok", "broken"}]]
    /\ borrowed \in [Servers -> [Pools -> 0..MAX_TOTAL]]
    /\ pc \in [Threads -> {"idle", "redis", "db", "setRedis", "setNear", "answer"}]
    /\ key \in [Threads -> Keys \cup {Null}]
    /\ objectDTO \in [Threads -> Nat \cup {NoRow, Null}]
    /\ from \in [Threads -> {"redis", "db", Null}]
    /\ during \in [Threads -> SUBSET (Nat \cup {NoRow})]
    /\ failed \in [Threads -> BOOLEAN]
    /\ fetched \in [Servers -> [Keys -> SUBSET Nat]]
    /\ shared \in [Keys -> SUBSET Nat]
    /\ exits \in [Servers -> Nat]
    /\ writes \in Nat /\ reads \in Nat /\ evictions \in Nat /\ faults \in Nat

\* Whatever a near cache or Redis holds for a key was once a committed version of the
\* object of that name: no level invents, mixes up or keeps the absence of a row,
\* although entries outlive their rows and are keyed by spelling (getFullObject).
CacheGenuine ==
    \A k \in Keys :
        /\ primary[k] \in past[lower[k]] \cup {Null}
        /\ replica[k] \in past[lower[k]] \cup {Null}
        /\ \A s \in Servers : near[s][k] \in past[lower[k]] \cup {Null}

\* A server's near cache holds the version Redis holds for all servers, or one that
\* this server itself read from the database: it never keeps a third one, such as a
\* version Redis gave out and then replaced (hsetnx in setToRedis).  A delayed reader
\* may still put its own older version over the shared one.
NearHasSource ==
    \A s \in Servers, k \in Keys :
        near[s][k] = Null \/ near[s][k] = primary[k] \/ near[s][k] \in fetched[s][k]

\* Every version that an answer ever took from Redis, on any server, through a replica
\* that lags, is the one Redis holds: so all such answers for a key agree, at any time
\* (getFromRedis, setToRedis).
RedisAnswersAgree == \A k \in Keys : shared[k] \subseteq {primary[k]}

\* What a request answers after reading the database is what the row was at some time
\* during that request, whatever other threads put into the caches meanwhile; it
\* goes unanswered only if there was no row then or the read failed (getFullObject).
DatabaseAnswersFresh ==
    \A t \in Threads :
        pc[t] = "answer" /\ from[t] = "db" =>
            objectDTO[t] \in during[t] \/ (objectDTO[t] = NoRow /\ failed[t])

\* How many threads a server ever had.
ThreadsEver(s) == Cardinality(ThreadsOf(s)) + exits[s]

\* A request ends, even when Redis is gone, unless its server has had more threads
\* than a Redis pool has connections: then it may wait in getResource() for ever
\* (withInitial, MAX_TOTAL).
ReadsEnd ==
    \A t \in Threads : []<>(pc[t] = "idle" \/ ThreadsEver(serverOf[t]) > MAX_TOTAL)
=============================================================================
