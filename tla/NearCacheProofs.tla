--------------------------- MODULE NearCacheProofs ---------------------------
(***************************************************************************)
(* Theorems about NearCache, for all servers, threads, names and bounds.   *)
(* The invariant says what a thread carries between two levels of the      *)
(* cache; with it every safety property of the module is inductive.        *)
(***************************************************************************)
EXTENDS NearCache, TLAPS

-----------------------------------------------------------------------------
\* The parts of the inductive invariant.

\* A request that has begun has a name.
Keyed == \A t \in Threads : pc[t] # "idle" => key[t] \in Keys

\* What came from the database is one of the versions this server fetched, what
\* came from Redis is what Redis still holds; both are rows.
Carries ==
    \A t \in Threads :
        /\ pc[t] = "setRedis" => from[t] = "db"
        /\ pc[t] \in {"setRedis", "setNear"} => from[t] \in {"db", "redis"} /\ objectDTO[t] \in Nat
        /\ pc[t] \in {"setRedis", "setNear"} /\ from[t] = "db" => objectDTO[t] \in fetched[serverOf[t]][key[t]]
        /\ pc[t] \in {"setNear", "answer"} /\ from[t] = "redis" => objectDTO[t] = primary[key[t]] /\ objectDTO[t] \in Nat

\* Rows, fetched versions and Redis entries were committed.
Committed ==
    /\ \A o \in Objects : rows[o] \in past[o] \cup {NoRow}
    /\ \A s \in Servers, k \in Keys : fetched[s][k] \subseteq past[lower[k]]
    /\ \A k \in Keys : primary[k] \in past[lower[k]] \cup {Null}

\* The replica is behind the primary, and never different.
ReplicaFollows == \A k \in Keys : replica[k] \in {Null, primary[k]}

\* The row as it is now is among those seen during a request, and so is what the
\* request read from the database.
Fresh ==
    \A t \in Threads :
        /\ pc[t] # "idle" => rows[lower[key[t]]] \in during[t]
        /\ pc[t] \in {"setRedis", "setNear"} /\ from[t] = "db" => objectDTO[t] \in during[t]

IInv ==
    /\ TypeOK /\ Keyed /\ Carries /\ Committed /\ ReplicaFollows
    /\ RedisAnswersAgree /\ NearHasSource /\ Fresh /\ DatabaseAnswersFresh

\* The invariant holds with empty caches.
LEMMA InitInv == Init => IInv
  BY NearCacheAssumption
  DEF Init, IInv, TypeOK, Keyed, Carries, Committed, ReplicaFollows, RedisAnswersAgree,
      NearHasSource, Fresh, DatabaseAnswersFresh, Pools

\* An action that leaves alone everything these parts speak of.
LEMMA PartsUnchanged ==
    ASSUME IInv, UNCHANGED <<dbVars, near, primary, replica, seenVars, pc, key, objectDTO, from, during, failed>>
    PROVE  /\ Keyed' /\ Carries' /\ Committed' /\ ReplicaFollows'
           /\ RedisAnswersAgree' /\ NearHasSource' /\ Fresh' /\ DatabaseAnswersFresh'
  BY DEF IInv, dbVars, seenVars, Keyed, Carries, Committed, ReplicaFollows, RedisAnswersAgree,
         NearHasSource, Fresh, DatabaseAnswersFresh

-----------------------------------------------------------------------------
\* One lemma per action.

\* The first level: an answer from this server's map, or a miss.
LEMMA getFromNearCacheInv ==
    ASSUME IInv, NEW t \in Threads, NEW k \in Keys, getFromNearCache(t, k)
    PROVE  IInv'
<1> USE NearCacheAssumption DEF IInv, getFromNearCache, dbVars, cacheVars, poolVars, localVars, seenVars
<1>1. CASE near[serverOf[t]][k] # Null
  <2>1. TypeOK'
    BY <1>1 DEF TypeOK
  <2> QED  BY <1>1, <2>1, PartsUnchanged
<1>2. CASE near[serverOf[t]][k] = Null
  <2>1. /\ pc[t] = "idle" /\ reads' = reads + 1
        /\ pc' = [pc EXCEPT ![t] = "redis"]
        /\ key' = [key EXCEPT ![t] = k]
        /\ during' = [during EXCEPT ![t] = {rows[lower[k]]}]
        /\ UNCHANGED <<dbVars, cacheVars, poolVars, seenVars, objectDTO, from, failed, faults>>
    BY <1>2
  <2> HIDE DEF getFromNearCache
  <2>2. rows[lower[k]] \in Nat \cup {NoRow}
    BY DEF TypeOK
  <2>3. during' \in [Threads -> SUBSET (Nat \cup {NoRow})]
    BY <2>1, <2>2 DEF TypeOK
  <2>4. TypeOK'
    BY <2>1, <2>3 DEF TypeOK
  <2>5. Keyed' /\ Carries'
    BY <2>1 DEF TypeOK, Keyed, Carries
  <2>6. Committed' /\ ReplicaFollows' /\ RedisAnswersAgree' /\ NearHasSource'
    BY <2>1 DEF Committed, ReplicaFollows, RedisAnswersAgree, NearHasSource
  <2>7. Fresh' /\ DatabaseAnswersFresh'
    BY <2>1 DEF TypeOK, Fresh, DatabaseAnswersFresh
  <2> QED  BY <2>4, <2>5, <2>6, <2>7
<1> QED  BY <1>1, <1>2

\* A thread takes its first Redis connection from a pool.
LEMMA withInitialInv ==
    ASSUME IInv, NEW t \in Threads, withInitial(t)
    PROVE  IInv'
<1> USE NearCacheAssumption DEF IInv, withInitial, dbVars, cacheVars, poolVars, localVars, seenVars
<1>1. PoolAt(pc[t]) \in Pools /\ serverOf[t] \in Servers
  BY DEF PoolAt, Pools
<1>2. jedis' \in [Threads -> [Pools -> {"none", "ok", "broken"}]]
  BY <1>1 DEF TypeOK
<1>3. borrowed' \in [Servers -> [Pools -> 0..MAX_TOTAL]]
  BY <1>1 DEF TypeOK
<1>4. TypeOK'
  BY <1>2, <1>3 DEF TypeOK
<1> QED  BY <1>4, PartsUnchanged

\* What a failed Redis command does to the connections.
LEMMA CommandFailsType ==
    ASSUME TypeOK, NEW t \in Threads, pc[t] \in {"redis", "setRedis"}, CommandFails(t)
    PROVE  /\ jedis' \in [Threads -> [Pools -> {"none", "ok", "broken"}]]
           /\ faults' \in Nat
           /\ UNCHANGED <<borrowed, exits>>
<1>1. PoolAt(pc[t]) \in Pools
  BY DEF PoolAt, Pools
<1>2. \/ jedis' = jedis
      \/ jedis' = [jedis EXCEPT ![t][PoolAt(pc[t])] = "broken"]
  BY DEF CommandFails
<1>3. jedis' \in [Threads -> [Pools -> {"none", "ok", "broken"}]]
  <2>1. CASE jedis' = jedis
    BY <2>1 DEF TypeOK
  <2>2. CASE jedis' = [jedis EXCEPT ![t][PoolAt(pc[t])] = "broken"]
    BY <1>1, <2>2 DEF TypeOK
  <2> QED  BY <1>2, <2>1, <2>2
<1>4. faults' \in Nat
  BY DEF CommandFails, Fault, TypeOK
<1> QED  BY <1>3, <1>4 DEF CommandFails

\* The second level reads the replica: found, absent, or the command fails.
LEMMA getFromRedisInv ==
    ASSUME IInv, NEW t \in Threads, getFromRedis(t)
    PROVE  IInv'
<1> USE NearCacheAssumption DEF IInv, dbVars, cacheVars, poolVars, localVars, seenVars
<1>1. pc[t] = "redis" /\ UNCHANGED <<dbVars, cacheVars, seenVars, reads, key, during, failed>>
  BY DEF getFromRedis, Found, NotFound
<1>2. key[t] \in Keys
  BY <1>1 DEF Keyed
<1>3. /\ jedis' \in [Threads -> [Pools -> {"none", "ok", "broken"}]]
      /\ faults' \in Nat
      /\ UNCHANGED <<borrowed, exits>>
  BY <1>1, CommandFailsType DEF getFromRedis, TypeOK
<1>4. \/ replica[key[t]] # Null /\ Found(t, replica[key[t]], "redis", "setNear")
      \/ NotFound(t, "db")
  BY DEF getFromRedis
<1>5. Committed' /\ ReplicaFollows' /\ RedisAnswersAgree' /\ NearHasSource'
  BY <1>1 DEF Committed, ReplicaFollows, RedisAnswersAgree, NearHasSource
<1>6. CASE replica[key[t]] # Null /\ Found(t, replica[key[t]], "redis", "setNear")
  <2>1. replica[key[t]] = primary[key[t]] /\ replica[key[t]] \in Nat
    BY <1>2, <1>6 DEF TypeOK, ReplicaFollows
  <2>2. TypeOK'
    BY <1>1, <1>3, <1>6, <2>1 DEF TypeOK, Found
  <2>3. Keyed' /\ Carries'
    BY <1>1, <1>6, <2>1 DEF TypeOK, Found, Keyed, Carries
  <2>4. Fresh' /\ DatabaseAnswersFresh'
    BY <1>1, <1>6 DEF TypeOK, Found, Fresh, DatabaseAnswersFresh
  <2> QED  BY <1>5, <2>2, <2>3, <2>4
<1>7. CASE NotFound(t, "db")
  <2>1. TypeOK'
    BY <1>1, <1>3, <1>7 DEF TypeOK, NotFound
  <2>2. Keyed' /\ Carries'
    BY <1>1, <1>7 DEF TypeOK, NotFound, Keyed, Carries
  <2>3. Fresh' /\ DatabaseAnswersFresh'
    BY <1>1, <1>7 DEF TypeOK, NotFound, Fresh, DatabaseAnswersFresh
  <2> QED  BY <1>5, <2>1, <2>2, <2>3
<1> QED  BY <1>4, <1>6, <1>7

\* The third level reads the database, and what it finds goes up the levels.
LEMMA delegateGetFullObjectInv ==
    ASSUME IInv, NEW t \in Threads, delegateGetFullObject(t)
    PROVE  IInv'
<1> USE NearCacheAssumption DEF IInv, dbVars, cacheVars, poolVars, localVars, seenVars
<1> DEFINE s == serverOf[t]
           k == key[t]
           row == rows[lower[k]]
<1>1. pc[t] = "db" /\ UNCHANGED <<dbVars, cacheVars, poolVars, shared, reads>>
  BY DEF delegateGetFullObject
<1>2. k \in Keys /\ s \in Servers /\ row \in past[lower[k]] \cup {NoRow} /\ row \in during[t]
  BY <1>1 DEF Keyed, Committed, Fresh
<1>3. past[lower[k]] \subseteq Nat
  BY <1>2 DEF TypeOK
<1>4. PICK ok \in BOOLEAN :
        LET found == ok /\ row # NoRow IN
        /\ IF ok THEN faults' = faults ELSE Fault
        /\ failed' = [failed EXCEPT ![t] = ~ok]
        /\ Found(t, IF found THEN row ELSE NoRow, "db", IF found THEN "setRedis" ELSE "answer")
        /\ fetched' = IF found THEN [fetched EXCEPT ![s][k] = @ \cup {row}] ELSE fetched
  BY DEF delegateGetFullObject
<1>5. faults' \in Nat /\ failed' \in [Threads -> BOOLEAN]
  BY <1>4 DEF TypeOK, Fault
<1>6. ReplicaFollows' /\ RedisAnswersAgree'
  BY <1>1 DEF ReplicaFollows, RedisAnswersAgree
<1>7. CASE ok /\ row # NoRow
  <2>1. row \in Nat
    BY <1>2, <1>3, <1>7
  <2>2. /\ Found(t, row, "db", "setRedis")
        /\ fetched' = [fetched EXCEPT ![s][k] = @ \cup {row}]
    BY <1>4, <1>7
  <2>3. fetched' \in [Servers -> [Keys -> SUBSET Nat]]
    BY <1>2, <2>1, <2>2 DEF TypeOK
  <2>4. TypeOK'
    BY <1>1, <1>5, <2>1, <2>2, <2>3 DEF TypeOK, Found
  <2>5. \A r \in Servers, j \in Keys : fetched[r][j] \subseteq fetched'[r][j]
    BY <1>2, <2>2 DEF TypeOK
  <2>6. row \in fetched'[s][k]
    BY <1>2, <2>2 DEF TypeOK
  <2>7. Keyed' /\ Carries'
    BY <1>1, <2>1, <2>2, <2>5, <2>6 DEF TypeOK, Found, Keyed, Carries
  <2>8. Committed' /\ NearHasSource'
    BY <1>1, <1>2, <2>1, <2>2, <2>5 DEF TypeOK, Committed, NearHasSource
  <2>9. Fresh' /\ DatabaseAnswersFresh'
    BY <1>1, <1>2, <1>4, <2>2 DEF TypeOK, Found, Fresh, DatabaseAnswersFresh
  <2> QED  BY <1>6, <2>4, <2>7, <2>8, <2>9
<1>8. CASE ~(ok /\ row # NoRow)
  <2>1. Found(t, NoRow, "db", "answer") /\ fetched' = fetched
    BY <1>4, <1>8
  <2>2. TypeOK'
    BY <1>1, <1>5, <2>1 DEF TypeOK, Found
  <2>3. Keyed' /\ Carries'
    BY <1>1, <2>1 DEF TypeOK, Found, Keyed, Carries
  <2>4. Committed' /\ NearHasSource'
    BY <1>1, <2>1 DEF Committed, NearHasSource
  <2>5. NoRow \in during[t] \/ failed'[t]
    BY <1>2, <1>4, <1>8 DEF TypeOK
  <2>6. Fresh' /\ DatabaseAnswersFresh'
    BY <1>1, <1>4, <2>1, <2>5 DEF TypeOK, Found, Fresh, DatabaseAnswersFresh
  <2> QED  BY <1>6, <2>2, <2>3, <2>4, <2>6
<1> QED  BY <1>7, <1>8

\* What was found is stored in Redis unless it is there already.
LEMMA setToRedisInv ==
    ASSUME IInv, NEW t \in Threads, setToRedis(t)
    PROVE  IInv'
<1> USE NearCacheAssumption DEF IInv, dbVars, cacheVars, poolVars, localVars, seenVars
<1>1. /\ pc[t] = "setRedis" /\ NotFound(t, "setNear")
      /\ UNCHANGED <<dbVars, near, replica, evictions, seenVars, reads>>
  BY DEF setToRedis
<1>2. key[t] \in Keys /\ objectDTO[t] \in Nat /\ from[t] = "db"
  BY <1>1 DEF Keyed, Carries
<1>3. objectDTO[t] \in past[lower[key[t]]]
  BY <1>1, <1>2 DEF Carries, Committed
<1>4. /\ jedis' \in [Threads -> [Pools -> {"none", "ok", "broken"}]]
      /\ faults' \in Nat
      /\ UNCHANGED <<borrowed, exits>>
  BY <1>1, CommandFailsType DEF setToRedis, TypeOK
<1>5. \/ primary' = primary
      \/ primary[key[t]] = Null /\ primary' = [primary EXCEPT ![key[t]] = objectDTO[t]]
  BY DEF setToRedis, hsetnx
<1>6. primary' \in [Keys -> Nat \cup {Null}]
  <2>1. CASE primary' = primary
    BY <2>1 DEF TypeOK
  <2>2. CASE primary' = [primary EXCEPT ![key[t]] = objectDTO[t]]
    BY <1>2, <2>2 DEF TypeOK
  <2> QED  BY <1>5, <2>1, <2>2
<1>7. \A k \in Keys : primary[k] # Null => primary'[k] = primary[k]
  BY <1>5 DEF TypeOK
<1>8. TypeOK'
  BY <1>1, <1>4, <1>6 DEF TypeOK, NotFound
<1>9. Keyed' /\ Carries'
  BY <1>1, <1>2, <1>7 DEF TypeOK, NotFound, Keyed, Carries
<1>10. Committed'
  BY <1>1, <1>3, <1>5 DEF TypeOK, Committed
<1>11. ReplicaFollows' /\ RedisAnswersAgree' /\ NearHasSource'
  BY <1>1, <1>7 DEF TypeOK, ReplicaFollows, RedisAnswersAgree, NearHasSource
<1>12. Fresh' /\ DatabaseAnswersFresh'
  BY <1>1 DEF TypeOK, NotFound, Fresh, DatabaseAnswersFresh
<1> QED  BY <1>8, <1>9, <1>10, <1>11, <1>12

\* What was found is stored in this server's map, over what is there.
LEMMA setToNearCacheInv ==
    ASSUME IInv, NEW t \in Threads, setToNearCache(t)
    PROVE  IInv'
<1> USE NearCacheAssumption DEF IInv, setToNearCache, NotFound, dbVars, cacheVars, poolVars, localVars, seenVars
<1>1. key[t] \in Keys /\ objectDTO[t] \in Nat /\ serverOf[t] \in Servers
  BY DEF Keyed, Carries
<1>2. near' \in [Servers -> [Keys -> Nat \cup {Null}]]
  BY <1>1 DEF TypeOK
<1>3. TypeOK'
  BY <1>2 DEF TypeOK
<1>4. Keyed' /\ Carries'
  BY DEF TypeOK, Keyed, Carries
<1>5. Committed' /\ ReplicaFollows' /\ RedisAnswersAgree'
  BY DEF Committed, ReplicaFollows, RedisAnswersAgree
<1>6. objectDTO[t] = primary[key[t]] \/ objectDTO[t] \in fetched[serverOf[t]][key[t]]
  BY DEF Carries
<1>7. NearHasSource'
  BY <1>1, <1>6 DEF TypeOK, NearHasSource
<1>8. Fresh' /\ DatabaseAnswersFresh'
  BY DEF TypeOK, Fresh, DatabaseAnswersFresh
<1> QED  BY <1>3, <1>4, <1>5, <1>7, <1>8

\* The request ends with what its levels found.
LEMMA AnswerInv ==
    ASSUME IInv, NEW t \in Threads, Answer(t)
    PROVE  IInv'
<1> USE NearCacheAssumption DEF IInv, Answer, dbVars, cacheVars, poolVars, localVars, seenVars
<1>1. key[t] \in Keys
  BY DEF Keyed
<1>2. from[t] = "redis" => objectDTO[t] = primary[key[t]] /\ objectDTO[t] \in Nat
  BY DEF Carries
<1>3. TypeOK'
  BY <1>1, <1>2 DEF TypeOK
<1>4. Keyed' /\ Carries'
  BY DEF TypeOK, Keyed, Carries
<1>5. Committed' /\ ReplicaFollows' /\ NearHasSource'
  BY DEF Committed, ReplicaFollows, NearHasSource
<1>6. RedisAnswersAgree'
  BY <1>1, <1>2 DEF TypeOK, RedisAnswersAgree
<1>7. Fresh' /\ DatabaseAnswersFresh'
  BY DEF TypeOK, Fresh, DatabaseAnswersFresh
<1> QED  BY <1>3, <1>4, <1>5, <1>6, <1>7

\* A thread of the executor ends, and its connections are lost.
LEMMA ThreadExitsInv ==
    ASSUME IInv, NEW t \in Threads, ThreadExits(t)
    PROVE  IInv'
<1> USE NearCacheAssumption DEF IInv, ThreadExits, dbVars, cacheVars, poolVars, localVars, seenVars
<1>1. jedis' \in [Threads -> [Pools -> {"none", "ok", "broken"}]]
  BY DEF TypeOK
<1>2. serverOf[t] \in Servers
  BY NearCacheAssumption
<1>3. exits' \in [Servers -> Nat]
  <2>1. exits[serverOf[t]] \in Nat
    BY <1>2 DEF TypeOK
  <2>2. exits' = [exits EXCEPT ![serverOf[t]] = exits[serverOf[t]] + 1]
    OBVIOUS
  <2> HIDE NearCacheAssumption DEF ThreadExits
  <2> QED  BY <1>2, <2>1, <2>2 DEF TypeOK
<1>4. TypeOK'
  BY <1>1, <1>3 DEF TypeOK
<1> QED  BY <1>4, PartsUnchanged

\* The replica copies a name from the primary.
LEMMA ReplicateInv ==
    ASSUME IInv, NEW k \in Keys, Replicate(k)
    PROVE  IInv'
<1> USE DEF IInv, Replicate, dbVars, cacheVars, poolVars, localVars, seenVars
<1>1. TypeOK'
  BY DEF TypeOK
<1>2. ReplicaFollows'
  BY DEF TypeOK, ReplicaFollows
<1>3. Keyed' /\ Carries' /\ Committed' /\ RedisAnswersAgree' /\ NearHasSource' /\ Fresh' /\ DatabaseAnswersFresh'
  BY DEF Keyed, Carries, Committed, RedisAnswersAgree, NearHasSource, Fresh, DatabaseAnswersFresh
<1> QED  BY <1>1, <1>2, <1>3

\* A near cache drops an entry.
LEMMA EvictInv ==
    ASSUME IInv, NEW s \in Servers, NEW k \in Keys, Evict(s, k)
    PROVE  IInv'
<1> USE DEF IInv, Evict, dbVars, cacheVars, poolVars, localVars, seenVars
<1>1. TypeOK'
  BY DEF TypeOK
<1>2. NearHasSource'
  BY DEF TypeOK, NearHasSource
<1>3. Keyed' /\ Carries' /\ Committed' /\ ReplicaFollows' /\ RedisAnswersAgree' /\ Fresh' /\ DatabaseAnswersFresh'
  BY DEF Keyed, Carries, Committed, ReplicaFollows, RedisAnswersAgree, Fresh, DatabaseAnswersFresh
<1> QED  BY <1>1, <1>2, <1>3

\* Another version of an object is committed.
LEMMA CommitInv ==
    ASSUME IInv, NEW o \in Objects, Commit(o)
    PROVE  IInv'
<1> USE NearCacheAssumption DEF IInv, Commit, dbVars, cacheVars, poolVars, localVars, seenVars
<1>1. TypeOK'
  BY DEF TypeOK
<1>2. Keyed' /\ Carries' /\ ReplicaFollows' /\ RedisAnswersAgree' /\ NearHasSource'
  BY DEF Keyed, Carries, ReplicaFollows, RedisAnswersAgree, NearHasSource
<1>3. Committed'
  BY DEF TypeOK, Committed
<1>4. Fresh' /\ DatabaseAnswersFresh'
  BY DEF TypeOK, Keyed, Fresh, DatabaseAnswersFresh
<1> QED  BY <1>1, <1>2, <1>3, <1>4

-----------------------------------------------------------------------------
\* Every step keeps the invariant.
LEMMA NextInv == IInv /\ [Next]_vars => IInv'
<1> SUFFICES ASSUME IInv, [Next]_vars  PROVE IInv'
  OBVIOUS
<1>1. CASE \E t \in Threads : Step(t)
  BY <1>1, withInitialInv, getFromRedisInv, delegateGetFullObjectInv, setToRedisInv,
     setToNearCacheInv, AnswerInv DEF Step
<1>2. CASE \E t \in Threads : ThreadExits(t) \/ \E k \in Keys : getFromNearCache(t, k)
  BY <1>2, ThreadExitsInv, getFromNearCacheInv
<1>3. CASE \E k \in Keys : Replicate(k) \/ \E s \in Servers : Evict(s, k)
  BY <1>3, ReplicateInv, EvictInv
<1>4. CASE \E o \in Objects : Commit(o)
  BY <1>4, CommitInv
<1>5. CASE UNCHANGED vars
  <2>1. TypeOK'
    BY <1>5 DEF IInv, TypeOK, vars, dbVars, cacheVars, poolVars, localVars, seenVars
  <2> QED  BY <1>5, <2>1, PartsUnchanged DEF IInv, vars, cacheVars, localVars
<1> QED  BY <1>1, <1>2, <1>3, <1>4, <1>5 DEF Next

\* It holds always.
LEMMA AlwaysInv == Spec => []IInv
  BY InitInv, NextInv, PTL DEF Spec

\* The caches, thread-locals and local variables of getFullObject keep their types; in
\* particular no level ever stores the absence of a row.
THEOREM CacheTypeCorrect == Spec => []TypeOK
<1>1. IInv => TypeOK
  BY DEF IInv
<1> QED  BY <1>1, AlwaysInv, PTL

\* Whatever a near cache, Redis or its replica holds for a name was committed under it.
THEOREM CacheAlwaysGenuine == Spec => []CacheGenuine
<1>1. IInv => CacheGenuine
  BY NearCacheAssumption DEF IInv, CacheGenuine, Committed, ReplicaFollows, NearHasSource
<1> QED  BY <1>1, AlwaysInv, PTL

\* A near cache holds what Redis holds, or what its own server read from the database.
THEOREM NearAlwaysHasSource == Spec => []NearHasSource
<1>1. IInv => NearHasSource
  BY DEF IInv
<1> QED  BY <1>1, AlwaysInv, PTL

\* All answers out of Redis for one name agree, on all servers and for ever.
THEOREM RedisAnswersAlwaysAgree == Spec => []RedisAnswersAgree
<1>1. IInv => RedisAnswersAgree
  BY DEF IInv
<1> QED  BY <1>1, AlwaysInv, PTL

\* An answer read from the database was current during the request, whatever other
\* threads and servers did to the caches meanwhile.
THEOREM DatabaseAnswersAlwaysFresh == Spec => []DatabaseAnswersFresh
<1>1. IInv => DatabaseAnswersFresh
  BY DEF IInv
<1> QED  BY <1>1, AlwaysInv, PTL
=============================================================================
