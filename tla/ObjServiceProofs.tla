-------------------------- MODULE ObjServiceProofs --------------------------
(***************************************************************************)
(* Machine-checked proofs about the read requests, for any requests and    *)
(* queries, pools and batches of any size, any tables and any number of    *)
(* writes, inserted rows and broken connections.                           *)
(***************************************************************************)
EXTENDS ObjService, FiniteSetTheorems, SequenceTheorems, TLAPS

Tables == [Names -> {NoRow} \cup [type : Nat, ver : Nat]]
Sessions == {"none", "open", "aborted", "cut", "closed"}
Points == {"new", "take", "query", "close", "over"}
Fates == {"none", "ok", "sql", "unchecked"}

Typed ==
    /\ tables \in Seq(Tables) /\ tables # <<>> /\ index \in Seq(Names)
    /\ session \in [Conns -> Sessions]
    /\ idle \in [Pools -> Seq(Conns)] /\ checking \in [Pools -> BOOLEAN]
    /\ pc \in [Requests -> Points] /\ fate \in [Requests -> Fates]
    /\ \A r \in Requests : query[r] \in Queries[r]
    /\ DOMAIN conn = Requests /\ DOMAIN batch = Requests
    /\ DOMAIN reply = Requests /\ DOMAIN began = Requests
    /\ streamed \in [Requests -> Seq(Names)] /\ ran \in [Requests -> SUBSET Conns]
    /\ cut \subseteq Conns
    /\ \A r \in Requests : IF Over(r) THEN reply[r].status # "none" ELSE reply[r] = NoReply

Held(r) == pc[r] \in {"query", "close"}
Once(q) == \A i, j \in 1..Len(q) : q[i] = q[j] => i = j

\* How connection c came to be lost.
Lost(c) ==
    \/ \E r \in Requests :
          /\ Over(r) /\ conn[r] = c
          /\ \/ query[r].kind \in {"mem", "full"} /\ fate[r] # "ok"
             \/ fate[r] = "unchecked" /\ Faults
    \/ ~checking[c[1]] /\ c \in cut

\* Every connection is in one place, or lost.
Placed ==
    /\ \A p \in Pools : Once(idle[p]) /\ Range(idle[p]) \subseteq PoolConns(p)
    /\ \A r \in Requests : Held(r) =>
          /\ conn[r] \in PoolConns(PoolOf(query[r].kind))
          /\ conn[r] \notin Range(idle[PoolOf(query[r].kind)])
    /\ \A r, s \in Requests : Held(r) /\ Held(s) /\ conn[r] = conn[s] => r = s
    /\ \A c \in Conns : c \in Range(idle[c[1]]) \/ (\E r \in Requests : Held(r) /\ conn[r] = c) \/ Lost(c)

\* A session that refuses statements has its reason.
Spoilt ==
    \A c \in Conns :
        /\ session[c] = "aborted" => \E s \in Requests : ~query[s].accepted /\ c \in ran[s]
        /\ session[c] \in {"cut", "closed"} => c \in cut

\* Why a statement of r may have failed.
Refused(r) == ~query[r].accepted \/ Poisoned(r)

Prefix(s) == s \in Seq(Names) /\ Len(s) <= Len(index) /\ s = SubSeq(index, 1, Len(s))

\* The last batch of r: the rows behind those it has, as many as fit, or all that
\* were there when it began.
FullBatch(r) ==
    LET n == Len(streamed[r])
    IN \E m \in n..Len(index) :
          /\ batch[r] = SubSeq(index, n + 1, m)
          /\ m = n + limitBatchSize \/ began[r].index <= m

\* What a request with a single statement has in its hands.
OneAnswer(r) ==
    query[r].kind # "batches" =>
        /\ streamed[r] = <<>>
        /\ pc[r] \in {"new", "take", "query"} => ran[r] = {}
        /\ pc[r] = "close" => IF fate[r] = "ok" THEN batch[r] \in RightAnswers(r)
                              ELSE Refused(r) /\ batch[r] = <<>>
        /\ Over(r) => \/ Rows(r) \in RightAnswers(r)
                      \/ Rows(r) = <<>> /\ (ran[r] = {} \/ Refused(r))

\* What a request that reads in batches has in its hands.
InBatches(r) ==
    query[r].kind = "batches" =>
        /\ pc[r] = "close" => IF fate[r] = "ok" THEN FullBatch(r)
                              ELSE Refused(r) /\ batch[r] = <<>>
        /\ Over(r) => /\ Prefix(Rows(r))
                      /\ began[r].index <= Len(Rows(r)) \/ Refused(r) \/ reply[r].status = "open"

Began(r) == began[r].table \in 1..Len(tables) /\ began[r].index \in 0..Len(index)

CallInv(r) == Began(r) /\ Prefix(streamed[r]) /\ OneAnswer(r) /\ InBatches(r)

Inv == Typed /\ Placed /\ Spoilt /\ \A r \in Requests : CallInv(r)

-----------------------------------------------------------------------------
\* Queues without repetition: what is left when the head is taken.
LEMMA HeadTaken ==
    ASSUME NEW S, NEW q \in Seq(S), q # <<>>, Once(q)
    PROVE  /\ Tail(q) \in Seq(S) /\ Once(Tail(q))
           /\ Head(q) \in Range(q) /\ Head(q) \in S
           /\ Range(Tail(q)) = Range(q) \ {Head(q)}
<1>1. /\ Tail(q) \in Seq(S) /\ Len(Tail(q)) = Len(q) - 1 /\ Len(q) \in Nat /\ Len(q) >= 1
      /\ \A i \in 1..Len(Tail(q)) : Tail(q)[i] = q[i + 1]
      /\ Head(q) = q[1] /\ DOMAIN q = 1..Len(q) /\ DOMAIN Tail(q) = 1..Len(Tail(q)) /\ Head(q) \in S
  OBVIOUS
<1>2. Once(Tail(q))
  BY <1>1 DEF Once
<1>3. Head(q) \in Range(q)
  BY <1>1 DEF Range
<1>4. ASSUME NEW x \in Range(Tail(q)) PROVE x \in Range(q) /\ x # Head(q)
  <2>1. PICK i \in 1..Len(Tail(q)) : x = Tail(q)[i]
    BY <1>1 DEF Range
  <2>2. x = q[i + 1] /\ i + 1 \in 1..Len(q) /\ 1 \in 1..Len(q) /\ i + 1 # 1
    BY <2>1, <1>1
  <2> QED
    BY <2>2, <1>1 DEF Range, Once
<1>5. ASSUME NEW x \in Range(q), x # Head(q) PROVE x \in Range(Tail(q))
  <2>1. PICK i \in 1..Len(q) : x = q[i]
    BY <1>1 DEF Range
  <2>2. i - 1 \in 1..Len(Tail(q)) /\ (i - 1) + 1 = i
    BY <2>1, <1>1, <1>5
  <2>3. Tail(q)[i - 1] = x
    BY <2>1, <2>2, <1>1
  <2> QED
    BY <2>2, <2>3, <1>1 DEF Range
<1> QED
  BY <1>1, <1>2, <1>3, <1>4, <1>5

\* ... and what is in it when something new is put behind.
LEMMA PutBehind ==
    ASSUME NEW S, NEW q \in Seq(S), Once(q), NEW e \in S, e \notin Range(q)
    PROVE  /\ Append(q, e) \in Seq(S) /\ Once(Append(q, e))
           /\ Range(Append(q, e)) = Range(q) \cup {e}
<1>1. /\ Append(q, e) \in Seq(S) /\ Len(Append(q, e)) = Len(q) + 1 /\ Len(q) \in Nat
      /\ \A i \in 1..Len(q) : Append(q, e)[i] = q[i]
      /\ Append(q, e)[Len(q) + 1] = e
      /\ DOMAIN q = 1..Len(q) /\ DOMAIN Append(q, e) = 1..(Len(q) + 1)
  OBVIOUS
<1>2. \A i \in 1..Len(q) : q[i] # e
  BY <1>1 DEF Range
<1>3. Once(Append(q, e))
  <2>1. \A i \in 1..(Len(q) + 1) : i \in 1..Len(q) \/ i = Len(q) + 1
    BY <1>1
  <2> QED
    BY <1>1, <1>2, <2>1 DEF Once
<1>4. \A x \in Range(Append(q, e)) : x \in Range(q) \/ x = e
  BY <1>1 DEF Range
<1>5. \A x \in Range(q) : x \in Range(Append(q, e))
  BY <1>1 DEF Range
<1>6. e \in Range(Append(q, e))
  BY <1>1 DEF Range
<1> QED
  BY <1>1, <1>3, <1>4, <1>5, <1>6

\* Connections of a pool and of the other one.
LEMMA ConnPool ==
    /\ \A p \in Pools : \A c \in PoolConns(p) : c[1] = p /\ c \in Conns
    /\ \A c \in Conns : c[1] \in Pools /\ c \in PoolConns(c[1])
    /\ \A k : PoolOf(k) \in Pools
    /\ \A p \in Pools : Size(p) \in Nat
  BY ObjServiceAssumption DEF Pools, PoolConns, Conns, PoolOf, Size

\* A queue without repetition is not longer than the pool has connections.
LEMMA QueueFits ==
    ASSUME NEW p \in Pools, NEW q \in Seq(Conns), Once(q), Range(q) \subseteq PoolConns(p)
    PROVE  Len(q) <= Size(p)
<1> DEFINE n == Len(q)
           f == [i \in 1..n |-> q[i][2]]
<1>1. n \in Nat /\ Size(p) \in Nat /\ DOMAIN q = 1..n
  BY ConnPool
<1>2. \A i \in 1..n : q[i] \in PoolConns(p)
  BY <1>1 DEF Range
<1>3. \A i \in 1..n : q[i][2] \in 1..Size(p) /\ q[i] = <<p, q[i][2]>>
  BY <1>2 DEF PoolConns
<1>4. f \in [1..n -> 1..Size(p)]
  BY <1>3
<1>5. \A i, j \in 1..n : f[i] = f[j] => i = j
  <2> SUFFICES ASSUME NEW i \in 1..n, NEW j \in 1..n, f[i] = f[j] PROVE i = j
    OBVIOUS
  <2>1. q[i] = <<p, f[i]>> /\ q[j] = <<p, f[j]>>
    BY <1>3
  <2>2. q[i] = q[j]
    BY <2>1
  <2> QED
    BY <2>2 DEF Once
<1>6. f \in Injection(1..n, 1..Size(p))
  BY <1>4, <1>5 DEF Injection, IsInjective
<1>7. \A k \in Nat : IsFiniteSet(1..k) /\ Cardinality(1..k) = k
  BY FS_Interval
<1> QED
  BY <1>1, <1>6, <1>7, FS_Injection

-----------------------------------------------------------------------------
\* What any step does to what requests refer to: tables and index grow, requests
\* have run on more connections, more connections have broken.
Grows ==
    /\ Len(tables) <= Len(tables')
    /\ \A k \in 1..Len(tables) : tables'[k] = tables[k]
    /\ Len(index) <= Len(index')
    /\ \A i \in 1..Len(index) : index'[i] = index[i]
    /\ \A s \in Requests : ran[s] \subseteq ran'[s]
    /\ cut \subseteq cut' /\ query' = query

\* A step leaves request r alone.
Same(r) ==
    /\ pc'[r] = pc[r] /\ conn'[r] = conn[r] /\ fate'[r] = fate[r] /\ batch'[r] = batch[r]
    /\ streamed'[r] = streamed[r] /\ reply'[r] = reply[r] /\ began'[r] = began[r] /\ ran'[r] = ran[r]

\* Subsequences of the index are what they were.
LEMMA IndexGrows ==
    ASSUME index \in Seq(Names), index' \in Seq(Names), Grows,
           NEW n \in Nat, NEW m \in Nat, m <= Len(index)
    PROVE  SubSeq(index', n + 1, m) = SubSeq(index, n + 1, m)
<1>1. /\ Len(index) \in Nat /\ DOMAIN index = 1..Len(index)
      /\ Len(index') \in Nat /\ Len(index) <= Len(index')
      /\ \A i \in 1..Len(index) : index'[i] = index[i] /\ index[i] \in Names
  BY DEF Grows
<1>2. \A i \in (n + 1)..m : i \in 1..Len(index)
  BY <1>1
<1>3. \A i \in (n + 1)..m : index[i] \in Names /\ index'[i] \in Names
  BY <1>1, <1>2
<1>4. n + 1 \in Int /\ m \in Int
  OBVIOUS
<1> DEFINE s == SubSeq(index, n + 1, m)
           t == SubSeq(index', n + 1, m)
<1>5. /\ s \in Seq(Names) /\ Len(s) = IF n + 1 <= m THEN m - (n + 1) + 1 ELSE 0
      /\ \A i \in 1..(m - (n + 1) + 1) : s[i] = index[n + 1 + i - 1]
  BY <1>3, <1>4, SubSeqProperties
<1>6. /\ t \in Seq(Names) /\ Len(t) = IF n + 1 <= m THEN m - (n + 1) + 1 ELSE 0
      /\ \A i \in 1..(m - (n + 1) + 1) : t[i] = index'[n + 1 + i - 1]
  BY <1>3, <1>4, SubSeqProperties
<1> HIDE DEF s, t
<1>7. /\ Len(s) = Len(t) /\ Len(s) \in Nat
      /\ \A i \in 1..Len(s) : i \in 1..(m - (n + 1) + 1) /\ n + 1 + i - 1 \in 1..Len(index)
  BY <1>1, <1>5, <1>6
<1>8. \A i \in 1..Len(s) : s[i] = t[i]
  BY <1>1, <1>5, <1>6, <1>7
<1>9. s = t
  BY <1>5, <1>6, <1>7, <1>8
<1> QED
  BY <1>9 DEF s, t

\* A beginning of the index stays one.
LEMMA PrefixStays ==
    ASSUME index \in Seq(Names), index' \in Seq(Names), Grows, NEW s, Prefix(s)
    PROVE  Prefix(s)'
<1>1. s \in Seq(Names) /\ Len(s) \in Nat /\ Len(s) <= Len(index) /\ s = SubSeq(index, 1, Len(s))
      /\ Len(index) \in Nat /\ Len(index') \in Nat /\ Len(index) <= Len(index')
  BY DEF Prefix, Grows
<1>2. SubSeq(index', 0 + 1, Len(s)) = SubSeq(index, 0 + 1, Len(s))
  BY <1>1, IndexGrows
<1> QED
  BY <1>1, <1>2 DEF Prefix

\* A right answer stays right as long as the call lasts.
LEMMA RightStays ==
    ASSUME Typed, Typed', Grows, NEW r \in Requests, Began(r), began'[r] = began[r]
    PROVE  RightAnswers(r) \subseteq RightAnswers(r)'
<1> SUFFICES ASSUME NEW x \in RightAnswers(r) PROVE x \in RightAnswers(r)'
  OBVIOUS
<1>1. /\ tables \in Seq(Tables) /\ tables' \in Seq(Tables)
      /\ index \in Seq(Names) /\ index' \in Seq(Names)
      /\ Len(tables) \in Nat /\ Len(tables') \in Nat /\ Len(index) \in Nat /\ Len(index') \in Nat
      /\ began[r].table \in 1..Len(tables) /\ began[r].index \in 0..Len(index)
      /\ Len(tables) <= Len(tables') /\ Len(index) <= Len(index') /\ query' = query
      /\ \A k \in 1..Len(tables) : tables'[k] = tables[k]
  BY DEF Typed, Began, Grows
<1>2. PICK k \in began[r].table..Len(tables), j \in began[r].index..Len(index) :
         x = Answer(query[r], tables[k], SubSeq(index, 1, j), 0)
  BY DEF RightAnswers
<1>3. k \in 1..Len(tables) /\ j \in Nat /\ j <= Len(index)
  BY <1>1, <1>2
<1>4. SubSeq(index', 0 + 1, j) = SubSeq(index, 0 + 1, j)
  BY <1>1, <1>3, IndexGrows
<1>5. x = Answer(query'[r], tables'[k], SubSeq(index', 1, j), 0)
  <2>1. query'[r] = query[r] /\ tables'[k] = tables[k]
    BY <1>1, <1>3
  <2>2. SubSeq(index', 1, j) = SubSeq(index, 1, j)
    BY <1>4
  <2> QED
    BY <1>2, <2>1, <2>2, Zenon
<1>6. k \in began'[r].table..Len(tables') /\ j \in began'[r].index..Len(index')
  BY <1>1, <1>2
<1> QED
  BY <1>5, <1>6 DEF RightAnswers

\* A reason for a failure stays one.
LEMMA RefusedStays ==
    ASSUME Grows, NEW r \in Requests, Refused(r)
    PROVE  Refused(r)'
  BY DEF Grows, Refused, Poisoned

\* A request that the step leaves alone keeps its part of the invariant.
LEMMA CallStays ==
    ASSUME Typed, Typed', Grows, NEW r \in Requests, CallInv(r), Same(r)
    PROVE  CallInv(r)'
<1>1. Began(r)'
  BY DEF CallInv, Began, Grows, Same, Typed
<1>2. index \in Seq(Names) /\ index' \in Seq(Names) /\ Prefix(streamed[r]) /\ Began(r)
  BY DEF Typed, CallInv
<1>3. streamed'[r] = streamed[r] /\ began'[r] = began[r] /\ query' = query
      /\ pc'[r] = pc[r] /\ fate'[r] = fate[r] /\ batch'[r] = batch[r] /\ reply'[r] = reply[r] /\ ran'[r] = ran[r]
  BY DEF Same, Grows
<1>4. Prefix(streamed[r])'
  BY <1>2, <1>3, PrefixStays
<1>5. RightAnswers(r) \subseteq RightAnswers(r)'
  BY <1>2, <1>3, RightStays
<1>6. Refused(r) => Refused(r)'
  BY RefusedStays
<1>7. OneAnswer(r)'
  BY <1>3, <1>5, <1>6 DEF CallInv, OneAnswer, Over, Rows
<1>8. FullBatch(r) => FullBatch(r)'
  <2> SUFFICES ASSUME FullBatch(r) PROVE FullBatch(r)'
    OBVIOUS
  <2>1. Len(streamed[r]) \in Nat /\ Len(index) \in Nat /\ Len(index') \in Nat /\ Len(index) <= Len(index')
    BY <1>2 DEF Prefix, Grows
  <2>2. PICK m \in Len(streamed[r])..Len(index) :
           /\ batch[r] = SubSeq(index, Len(streamed[r]) + 1, m)
           /\ m = Len(streamed[r]) + limitBatchSize \/ began[r].index <= m
    BY DEF FullBatch
  <2>3. m \in Nat /\ m <= Len(index)
    BY <2>1, <2>2
  <2>4. SubSeq(index', Len(streamed[r]) + 1, m) = SubSeq(index, Len(streamed[r]) + 1, m)
    BY <1>2, <2>1, <2>3, IndexGrows
  <2>5. m \in Len(streamed'[r])..Len(index')
    BY <1>3, <2>1, <2>2
  <2> QED
    BY <1>3, <2>2, <2>4, <2>5 DEF FullBatch
<1>9. Prefix(Rows(r)) => Prefix(Rows(r))'
  BY <1>2, <1>3, PrefixStays DEF Rows
<1>10. InBatches(r)'
  BY <1>3, <1>6, <1>8, <1>9 DEF CallInv, InBatches, Over, Rows
<1> QED
  BY <1>1, <1>4, <1>7, <1>10 DEF CallInv

-----------------------------------------------------------------------------
\* A step of request r is nobody else's, and one that has ended takes no step.
Acts(r) == ~Over(r) /\ \A s \in Requests : s # r => Same(s)

Kept == Typed' /\ Placed' /\ Spoilt' /\ \A r \in Requests : CallInv(r)'

\* The invariants of the calls after a step of r: it is enough to look at r.
LEMMA CallsKept ==
    ASSUME Inv, Typed', Grows, NEW r \in Requests, Acts(r), CallInv(r)'
    PROVE  \A s \in Requests : CallInv(s)'
<1> SUFFICES ASSUME NEW s \in Requests, s # r PROVE CallInv(s)'
  OBVIOUS
<1>1. Same(s) /\ Typed /\ CallInv(s)
  BY DEF Acts, Inv
<1> QED
  BY <1>1, CallStays

\* ... and after a step of none.
LEMMA CallsKeptByWorld ==
    ASSUME Inv, Typed', Grows, \A s \in Requests : Same(s)
    PROVE  \A s \in Requests : CallInv(s)'
<1> SUFFICES ASSUME NEW s \in Requests PROVE CallInv(s)'
  OBVIOUS
<1>1. Same(s) /\ Typed /\ CallInv(s)
  BY DEF Inv
<1> QED
  BY <1>1, CallStays

\* A lost connection stays lost.
LEMMA LostStays ==
    ASSUME NEW c \in Conns, Lost(c), Grows, \A p \in Pools : ~checking[p] => ~checking'[p],
           \A r \in Requests : Over(r) => Same(r)
    PROVE  Lost(c)'
<1>1. c[1] \in Pools
  BY ConnPool
<1>2. CASE ~checking[c[1]] /\ c \in cut
  <2>1. ~checking'[c[1]]
    BY <1>1, <1>2, Zenon
  <2>2. c \in cut'
    BY <1>2 DEF Grows
  <2> QED
    BY <2>1, <2>2, Zenon DEF Lost
<1>3. CASE \E r \in Requests :
             /\ Over(r) /\ conn[r] = c
             /\ \/ query[r].kind \in {"mem", "full"} /\ fate[r] # "ok"
                \/ fate[r] = "unchecked" /\ Faults
  <2>1. PICK r \in Requests :
             /\ Over(r) /\ conn[r] = c
             /\ \/ query[r].kind \in {"mem", "full"} /\ fate[r] # "ok"
                \/ fate[r] = "unchecked" /\ Faults
    BY <1>3
  <2>2. Same(r) /\ query' = query
    BY <2>1 DEF Grows
  <2> QED
    BY <2>1, <2>2 DEF Lost, Same, Over
<1> QED
  BY <1>2, <1>3 DEF Lost

\* Nothing is moved by a step that leaves queues and holders as they are.
LEMMA NotMoved ==
    ASSUME Typed, Placed, Grows, idle' = idle, checking' = checking,
           \A r \in Requests : (Held(r)' <=> Held(r)) /\ conn'[r] = conn[r],
           \A r \in Requests : Over(r) => Same(r)
    PROVE  Placed'
<1>1. query' = query
  BY DEF Grows
<1>2. ASSUME NEW c \in Conns
      PROVE  (c \in Range(idle[c[1]]) \/ (\E r \in Requests : Held(r) /\ conn[r] = c) \/ Lost(c))'
  <2>1. CASE Lost(c)
    BY <2>1, LostStays
  <2>2. CASE c \in Range(idle[c[1]])
    BY <2>2
  <2>3. CASE \E r \in Requests : Held(r) /\ conn[r] = c
    BY <2>3
  <2> QED
    BY <2>1, <2>2, <2>3 DEF Placed
<1>3. \A p \in Pools : Once(idle'[p]) /\ Range(idle'[p]) \subseteq PoolConns(p)
  BY DEF Placed
<1>4. \A r \in Requests : Held(r)' =>
          /\ conn'[r] \in PoolConns(PoolOf(query'[r].kind))
          /\ conn'[r] \notin Range(idle'[PoolOf(query'[r].kind)])
  BY <1>1 DEF Placed
<1>5. \A r, s \in Requests : Held(r)' /\ Held(s)' /\ conn'[r] = conn'[s] => r = s
  BY DEF Placed
<1> QED
  BY <1>2, <1>3, <1>4, <1>5 DEF Placed

\* What a step may do to the session of c.
SessionStep(c) ==
    \/ session'[c] = session[c] \/ session'[c] = "open"
    \/ session'[c] = "aborted" /\ \E s \in Requests : ~query[s].accepted /\ c \in ran'[s]
    \/ session'[c] \in {"cut", "closed"} /\ c \in cut'

\* A session is spoilt for the same reason as before if it is what it was.
LEMMA SpoiltStays ==
    ASSUME Spoilt, Grows, \A c \in Conns : SessionStep(c)
    PROVE  Spoilt'
<1> SUFFICES ASSUME NEW c \in Conns
             PROVE  /\ session'[c] = "aborted" => \E s \in Requests : ~query'[s].accepted /\ c \in ran'[s]
                    /\ session'[c] \in {"cut", "closed"} => c \in cut'
  BY DEF Spoilt
<1>1. query' = query /\ cut \subseteq cut' /\ \A s \in Requests : ran[s] \subseteq ran'[s]
  BY DEF Grows
<1>2. /\ session[c] = "aborted" => \E s \in Requests : ~query[s].accepted /\ c \in ran[s]
      /\ session[c] \in {"cut", "closed"} => c \in cut
  BY DEF Spoilt
<1>3. CASE session'[c] = session[c]
  BY <1>1, <1>2, <1>3
<1>4. CASE session'[c] # session[c]
  BY <1>1, <1>4 DEF SessionStep
<1> QED
  BY <1>3, <1>4

-----------------------------------------------------------------------------
\* Tables and index that stay as they are have grown.
LEMMA NothingGrows ==
    ASSUME Typed, tables' = tables, index' = index, query' = query, cut \subseteq cut',
           \A s \in Requests : ran[s] \subseteq ran'[s]
    PROVE  Grows
  BY DEF Typed, Grows

\* The moment a call begins, or a statement sees.
LEMMA NowIs ==
    ASSUME Typed
    PROVE  /\ Now.table = Len(tables) /\ Now.index = Len(index)
           /\ Len(tables) \in Nat \ {0} /\ Len(index) \in Nat
  BY DEF Typed, Now

\* A call that begins refers to the tables as they are now.
LEMMA BeginKeeps ==
    ASSUME Inv, NEW r \in Requests, Begin(r)
    PROVE  Kept
<1>1. Typed /\ Placed /\ Spoilt /\ CallInv(r)
  BY DEF Inv
<1>2. /\ pc[r] = "new" /\ began' = [began EXCEPT ![r] = Now] /\ DOMAIN began = Requests
      /\ tables' = tables /\ index' = index /\ session' = session /\ idle' = idle /\ checking' = checking
      /\ query' = query /\ conn' = conn /\ fate' = fate /\ batch' = batch /\ streamed' = streamed
      /\ ran' = ran /\ cut' = cut /\ ran[r] = ran'[r]
  BY <1>1 DEF Begin, Typed
<1>3. /\ pc'[r] \in {"take", "over"}
      /\ pc' = [pc EXCEPT ![r] = pc'[r]]
      /\ IF pc'[r] = "over" THEN /\ query[r].kind = "lookup"
                                 /\ reply' = [reply EXCEPT ![r] = [status |-> "open", rows |-> <<>>]]
         ELSE reply' = reply
  BY <1>1 DEF Begin, Typed
<1>4. Acts(r)
  BY <1>1, <1>2, <1>3 DEF Acts, Same, Over, Typed
<1>5. pc' \in [Requests -> Points] /\ DOMAIN reply' = Requests /\ DOMAIN began' = Requests
  BY <1>1, <1>2, <1>3 DEF Typed, Points
<1>6. Typed'
  <2>1. ASSUME NEW s \in Requests
        PROVE  IF Over(s)' THEN reply'[s].status # "none" ELSE reply'[s] = NoReply
    <3>1. CASE s # r
      BY <1>1, <1>2, <1>3, <3>1 DEF Typed, Over
    <3>2. CASE s = r /\ pc'[r] = "over"
      BY <1>1, <1>3, <3>2 DEF Typed, Over
    <3>3. CASE s = r /\ pc'[r] # "over"
      BY <1>1, <1>2, <1>3, <3>3 DEF Typed, Over
    <3> QED
      BY <3>1, <3>2, <3>3
  <2> QED
    BY <1>1, <1>2, <1>5, <2>1 DEF Typed
<1>7. Grows
  BY <1>1, <1>2, NothingGrows
<1>8. Placed'
  <2>1. \A s \in Requests : (Held(s)' <=> Held(s)) /\ conn'[s] = conn[s]
    BY <1>1, <1>2, <1>3 DEF Held, Typed
  <2>2. \A s \in Requests : Over(s) => Same(s)
    BY <1>4 DEF Acts
  <2> QED
    BY <1>1, <1>2, <1>7, <2>1, <2>2, NotMoved
<1>9. Spoilt'
  BY <1>1, <1>2, <1>7, SpoiltStays DEF SessionStep
<1>10. CallInv(r)'
  <2>1. Began(r)'
    BY <1>1, <1>2, NowIs DEF Began
  <2>2. Prefix(streamed[r])'
    BY <1>1, <1>2 DEF CallInv, Prefix
  <2>3. query[r].kind # "batches" => streamed[r] = <<>> /\ ran[r] = {}
    BY <1>1, <1>2 DEF CallInv, OneAnswer
  <2>4. Over(r)' => Rows(r)' = <<>> /\ query[r].kind = "lookup"
    BY <1>1, <1>2, <1>3 DEF Over, Rows, Typed
  <2>5. OneAnswer(r)'
    BY <1>2, <1>3, <2>3, <2>4 DEF OneAnswer
  <2>6. InBatches(r)'
    BY <1>2, <1>3, <2>4 DEF InBatches
  <2> QED
    BY <2>1, <2>2, <2>5, <2>6 DEF CallInv
<1> QED
  BY <1>4, <1>6, <1>7, <1>8, <1>9, <1>10, CallsKept DEF Kept

\* Taking the head of its queue and the typing that goes with it.
LEMMA TakeIdle ==
    ASSUME Typed, Placed, NEW p \in Pools, idle[p] # <<>>,
           NEW q, q = [idle EXCEPT ![p] = Tail(@)]
    PROVE  /\ q \in [Pools -> Seq(Conns)]
           /\ \A x \in Pools : Once(q[x]) /\ Range(q[x]) \subseteq PoolConns(x)
           /\ \A x \in Pools : x # p => q[x] = idle[x]
           /\ Head(idle[p]) \in Range(idle[p]) /\ Head(idle[p]) \in PoolConns(p)
           /\ Range(q[p]) = Range(idle[p]) \ {Head(idle[p])}
<1>1. idle \in [Pools -> Seq(Conns)] /\ idle[p] \in Seq(Conns) /\ Once(idle[p])
      /\ Range(idle[p]) \subseteq PoolConns(p)
  BY DEF Typed, Placed
<1>2. /\ Tail(idle[p]) \in Seq(Conns) /\ Once(Tail(idle[p]))
      /\ Head(idle[p]) \in Range(idle[p])
      /\ Range(Tail(idle[p])) = Range(idle[p]) \ {Head(idle[p])}
  BY <1>1, HeadTaken
<1>3. q[p] = Tail(idle[p]) /\ \A x \in Pools : x # p => q[x] = idle[x]
  BY <1>1
<1> QED
  BY <1>1, <1>2, <1>3 DEF Placed

\* A connection that leaves its queue for request r is in its hands, and lost if
\* the call ends there.
LEMMA TakenPlaced ==
    ASSUME Typed, Placed, Grows, NEW r \in Requests, Acts(r), ~Held(r),
           LET p == PoolOf(query[r].kind)
           IN  idle[p] # <<>> /\ idle' = [idle EXCEPT ![p] = Tail(@)] /\ conn'[r] = Head(idle[p]),
           checking' = checking, Held(r)' \/ (Over(r) /\ fate[r] = "unchecked" /\ Faults)'
    PROVE  Placed'
<1> DEFINE p == PoolOf(query[r].kind)
           h == Head(idle[p])
<1>1. p \in Pools /\ query' = query
  BY ConnPool DEF Grows
<1>2. /\ \A x \in Pools : Once(idle'[x]) /\ Range(idle'[x]) \subseteq PoolConns(x)
      /\ \A x \in Pools : x # p => idle'[x] = idle[x]
      /\ h \in Range(idle[p]) /\ h \in PoolConns(p)
      /\ Range(idle'[p]) = Range(idle[p]) \ {h} /\ conn'[r] = h
  BY <1>1, TakeIdle
<1> HIDE DEF h
<1>3. h \in Conns /\ h[1] = p
  BY <1>1, <1>2, ConnPool
<1>4. \A s \in Requests : s # r => (Held(s)' <=> Held(s)) /\ conn'[s] = conn[s]
  BY DEF Acts, Same, Held
<1>5. \A s \in Requests : Held(s) => /\ conn[s] \in PoolConns(PoolOf(query[s].kind))
                                    /\ conn[s] \notin Range(idle[PoolOf(query[s].kind)])
                                    /\ PoolOf(query[s].kind) \in Pools
  BY ConnPool DEF Placed
<1>6. \A s \in Requests : Held(s) => conn[s] # h
  <2> SUFFICES ASSUME NEW s \in Requests, Held(s), conn[s] = h PROVE FALSE
    OBVIOUS
  <2>1. h[1] = PoolOf(query[s].kind)
    BY <1>5, ConnPool
  <2> QED
    BY <2>1, <1>3, <1>2, <1>5
<1>7. \A s \in Requests : Held(s)' =>
          /\ conn'[s] \in PoolConns(PoolOf(query'[s].kind))
          /\ conn'[s] \notin Range(idle'[PoolOf(query'[s].kind)])
  <2> SUFFICES ASSUME NEW s \in Requests, Held(s)'
               PROVE  /\ conn'[s] \in PoolConns(PoolOf(query[s].kind))
                      /\ conn'[s] \notin Range(idle'[PoolOf(query[s].kind)])
    BY <1>1
  <2>1. CASE s = r
    BY <2>1, <1>2
  <2>2. CASE s # r
    BY <2>2, <1>2, <1>4, <1>5
  <2> QED
    BY <2>1, <2>2
<1>8. \A s, t \in Requests : Held(s)' /\ Held(t)' /\ conn'[s] = conn'[t] => s = t
  BY <1>2, <1>4, <1>6 DEF Placed
<1>9. \A s \in Requests : Over(s) => Same(s)
  BY DEF Acts
<1>10. ASSUME NEW c \in Conns
       PROVE  (c \in Range(idle[c[1]]) \/ (\E s \in Requests : Held(s) /\ conn[s] = c) \/ Lost(c))'
  <2>1. CASE Lost(c)
    BY <2>1, <1>9, LostStays
  <2>2. CASE \E s \in Requests : Held(s) /\ conn[s] = c
    BY <2>2, <1>4
  <2>3. CASE c \in Range(idle[c[1]]) /\ c # h
    <3>1. c[1] \in Pools
      BY ConnPool
    <3> QED
      BY <2>3, <3>1, <1>2
  <2>4. CASE c = h /\ Held(r)'
    BY <2>4, <1>2
  <2>5. CASE c = h /\ (Over(r) /\ fate[r] = "unchecked" /\ Faults)'
    BY <2>5, <1>2 DEF Lost
  <2> QED
    BY <2>1, <2>2, <2>3, <2>4, <2>5 DEF Placed
<1> QED
  BY <1>2, <1>7, <1>8, <1>10 DEF Placed

\* What a call is answered.
LEMMA ReplyIs ==
    ASSUME NEW k, NEW f, NEW rows
    PROVE  /\ Reply(k, f, rows).rows = rows /\ Reply(k, f, rows).status # "none"
           /\ k = "batches" /\ f = "unchecked" => Reply(k, f, rows).status = "open"
  BY DEF Reply, CatchesAll

\* The values of a call that ends.
LEMMA EndsTyped ==
    ASSUME Typed, NEW r \in Requests, NEW f \in Fates, NEW rows, Ends(r, f, rows)
    PROVE  /\ pc' \in [Requests -> Points] /\ fate' \in [Requests -> Fates] /\ DOMAIN reply' = Requests
           /\ \A s \in Requests : IF Over(s)' THEN reply'[s].status # "none" ELSE reply'[s] = NoReply
           /\ pc'[r] = "over" /\ fate'[r] = f /\ Rows(r)' = rows
           /\ reply'[r] = Reply(query[r].kind, f, rows)
           /\ \A s \in Requests : s # r => pc'[s] = pc[s] /\ fate'[s] = fate[s] /\ reply'[s] = reply[s]
<1> DEFINE a == Reply(query[r].kind, f, rows)
<1>1. a.rows = rows /\ a.status # "none"
  BY ReplyIs
<1> HIDE DEF a
<1>2. /\ fate' = [fate EXCEPT ![r] = f] /\ pc' = [pc EXCEPT ![r] = "over"]
      /\ reply' = [reply EXCEPT ![r] = a]
  BY DEF Ends, a
<1>3. /\ pc \in [Requests -> Points] /\ fate \in [Requests -> Fates] /\ DOMAIN reply = Requests
      /\ \A s \in Requests : IF Over(s) THEN reply[s].status # "none" ELSE reply[s] = NoReply
  BY DEF Typed
<1>4. pc' \in [Requests -> Points] /\ fate' \in [Requests -> Fates] /\ DOMAIN reply' = Requests
  BY <1>2, <1>3 DEF Points
<1>5. pc'[r] = "over" /\ fate'[r] = f /\ reply'[r] = a /\ Rows(r)' = rows
  BY <1>1, <1>2, <1>3 DEF Rows
<1>6. \A s \in Requests : s # r => pc'[s] = pc[s] /\ fate'[s] = fate[s] /\ reply'[s] = reply[s]
  BY <1>2, <1>3
<1>7. ASSUME NEW s \in Requests
      PROVE  IF Over(s)' THEN reply'[s].status # "none" ELSE reply'[s] = NoReply
  <2>1. CASE s = r
    BY <2>1, <1>1, <1>5 DEF Over
  <2>2. CASE s # r
    BY <2>2, <1>3, <1>6 DEF Over
  <2> QED
    BY <2>1, <2>2
<1> QED
  BY <1>4, <1>5, <1>6, <1>7 DEF a

\* One action of a request after the other: take(),
LEMMA getConnectionKeeps ==
    ASSUME Inv, NEW r \in Requests, getConnection(r)
    PROVE  Kept
<1> DEFINE p == PoolOf(query[r].kind)
<1>1. Typed /\ Placed /\ Spoilt /\ CallInv(r) /\ p \in Pools
  BY ConnPool DEF Inv
<1>2. /\ pc[r] = "take" /\ idle[p] # <<>>
      /\ conn' = [conn EXCEPT ![r] = Head(idle[p])] /\ idle' = [idle EXCEPT ![p] = Tail(@)]
      /\ pc' = [pc EXCEPT ![r] = "query"]
      /\ tables' = tables /\ index' = index /\ session' = session /\ checking' = checking
      /\ query' = query /\ fate' = fate /\ batch' = batch /\ streamed' = streamed
      /\ reply' = reply /\ began' = began /\ ran' = ran /\ cut' = cut
  BY DEF getConnection
<1>3. pc'[r] = "query" /\ conn'[r] = Head(idle[p])
  BY <1>1, <1>2 DEF Typed
<1>4. Acts(r)
  BY <1>1, <1>2 DEF Acts, Same, Over, Typed
<1>5. idle' \in [Pools -> Seq(Conns)]
  BY <1>1, <1>2, TakeIdle
<1>6. /\ pc' \in [Requests -> Points] /\ DOMAIN conn' = Requests
      /\ \A s \in Requests : IF Over(s)' THEN reply'[s].status # "none" ELSE reply'[s] = NoReply
  BY <1>1, <1>2 DEF Typed, Points, Over
<1>7. Typed'
  BY <1>1, <1>2, <1>5, <1>6 DEF Typed
<1>8. Grows
  BY <1>1, <1>2, NothingGrows
<1>9. Placed'
  <2>1. ~Held(r) /\ Held(r)'
    BY <1>2, <1>3 DEF Held
  <2> QED
    BY <1>1, <1>2, <1>3, <1>4, <1>8, <2>1, TakenPlaced
<1>10. Spoilt'
  BY <1>1, <1>2, <1>8, SpoiltStays DEF SessionStep
<1>11. CallInv(r)'
  BY <1>1, <1>2, <1>3 DEF CallInv, Began, Prefix, OneAnswer, InBatches, Over
<1> QED
  BY <1>4, <1>7, <1>8, <1>9, <1>10, <1>11, CallsKept DEF Kept

\* a take() that came back too late, which loses the connection and ends the call,
LEMMA getConnectionTimesOutKeeps ==
    ASSUME Inv, NEW r \in Requests, getConnectionTimesOut(r)
    PROVE  Kept
<1> DEFINE p == PoolOf(query[r].kind)
<1>1. Typed /\ Placed /\ Spoilt /\ CallInv(r) /\ p \in Pools
  BY ConnPool DEF Inv
<1>2. /\ pc[r] = "take" /\ idle[p] # <<>> /\ Faults
      /\ conn' = [conn EXCEPT ![r] = Head(idle[p])] /\ idle' = [idle EXCEPT ![p] = Tail(@)]
      /\ Ends(r, "unchecked", streamed[r])
      /\ tables' = tables /\ index' = index /\ session' = session /\ checking' = checking
      /\ query' = query /\ batch' = batch /\ streamed' = streamed
      /\ began' = began /\ ran' = ran /\ cut' = cut
  BY DEF getConnectionTimesOut
<1>3. /\ pc' \in [Requests -> Points] /\ fate' \in [Requests -> Fates] /\ DOMAIN reply' = Requests
      /\ \A s \in Requests : IF Over(s)' THEN reply'[s].status # "none" ELSE reply'[s] = NoReply
      /\ pc'[r] = "over" /\ fate'[r] = "unchecked" /\ Rows(r)' = streamed[r]
      /\ reply'[r] = Reply(query[r].kind, "unchecked", streamed[r])
      /\ \A s \in Requests : s # r => pc'[s] = pc[s] /\ fate'[s] = fate[s] /\ reply'[s] = reply[s]
  BY <1>1, <1>2, EndsTyped DEF Fates
<1>4. /\ conn'[r] = Head(idle[p]) /\ DOMAIN conn' = Requests
      /\ \A s \in Requests : s # r => conn'[s] = conn[s]
  BY <1>1, <1>2 DEF Typed
<1>5. Acts(r)
  BY <1>2, <1>3, <1>4 DEF Acts, Same, Over
<1>6. idle' \in [Pools -> Seq(Conns)]
  BY <1>1, <1>2, TakeIdle
<1>7. Typed'
  BY <1>1, <1>2, <1>3, <1>4, <1>6 DEF Typed
<1>8. Grows
  BY <1>1, <1>2, NothingGrows
<1>9. Placed'
  <2>1. ~Held(r) /\ (Over(r) /\ fate[r] = "unchecked" /\ Faults)'
    BY <1>2, <1>3 DEF Held, Over
  <2> QED
    BY <1>1, <1>2, <1>4, <1>5, <1>8, <2>1, TakenPlaced
<1>10. Spoilt'
  BY <1>1, <1>2, <1>8, SpoiltStays DEF SessionStep
<1>11. CallInv(r)'
  <2>1. Began(r)' /\ Prefix(streamed[r])'
    BY <1>1, <1>2 DEF CallInv, Began, Prefix
  <2>2. OneAnswer(r)'
    BY <1>1, <1>2, <1>3 DEF CallInv, OneAnswer
  <2>3. query[r].kind = "batches" => reply'[r].status = "open"
    BY <1>3, ReplyIs
  <2>4. Prefix(Rows(r))'
    BY <1>2, <1>3, <2>1 DEF Prefix
  <2>5. InBatches(r)'
    BY <1>2, <1>3, <2>3, <2>4 DEF InBatches
  <2> QED
    BY <2>1, <2>2, <2>5 DEF CallInv
<1> QED
  BY <1>5, <1>7, <1>8, <1>9, <1>10, <1>11, CallsKept DEF Kept

-----------------------------------------------------------------------------
\* What a statement answers depends on the place only when it reads in batches.
LEMMA AnswerIs ==
    ASSUME NEW q, q.kind \in Kinds, NEW t, NEW i, NEW n
    PROVE  /\ q.kind # "batches" => Answer(q, t, i, n) = Answer(q, t, i, 0)
           /\ q.kind = "batches" => Answer(q, t, i, n) = indexRecordsInBatch(i, n)
<1>1. CASE q.kind = "batches"
  BY <1>1 DEF Answer
<1>2. CASE q.kind = "lookup"
  BY <1>2 DEF Answer
<1>3. CASE q.kind \in {"mem", "full"}
  BY <1>3 DEF Answer
<1>4. CASE q.kind = "many"
  BY <1>4 DEF Answer
<1>5. CASE q.kind = "manyIndex"
  BY <1>5 DEF Answer
<1>6. CASE q.kind = "msg"
  BY <1>6 DEF Answer
<1>7. CASE q.kind = "index"
  BY <1>7 DEF Answer
<1> QED
  BY <1>1, <1>2, <1>3, <1>4, <1>5, <1>6, <1>7 DEF Kinds

\* The kind of a query and whether the database accepts it.
LEMMA QueryIs ==
    ASSUME Typed, NEW r \in Requests
    PROVE  query[r].kind \in Kinds /\ query[r].accepted \in BOOLEAN
  BY ObjServiceAssumption DEF Typed

\* a statement that answers: with what is committed now, which is during the call,
LEMMA executeQueryKeeps ==
    ASSUME Inv, NEW r \in Requests, executeQuery(r)
    PROVE  Kept
<1> DEFINE c == conn[r]
           n == Len(streamed[r])
           a == Answer(query[r], tables[Len(tables)], SubSeq(index, 1, Len(index)), n)
<1>1. Typed /\ Placed /\ Spoilt /\ CallInv(r)
  BY DEF Inv
<1>2. /\ pc[r] = "query" /\ session[c] \in {"none", "open"}
      /\ batch' = [batch EXCEPT ![r] = a]
      /\ session' = [session EXCEPT ![c] = "open"]
      /\ fate' = [fate EXCEPT ![r] = "ok"] /\ ran' = [ran EXCEPT ![r] = @ \cup {c}]
      /\ pc' = [pc EXCEPT ![r] = "close"]
      /\ tables' = tables /\ index' = index /\ idle' = idle /\ checking' = checking
      /\ query' = query /\ conn' = conn /\ streamed' = streamed /\ reply' = reply
      /\ began' = began /\ cut' = cut
  BY DEF executeQuery, Visible, Now, autoCommit
<1> HIDE DEF a
<1>3. c \in Conns
  BY <1>1, <1>2, ConnPool DEF Placed, Held
<1>4. /\ pc'[r] = "close" /\ fate'[r] = "ok" /\ batch'[r] = a /\ ran'[r] = ran[r] \cup {c}
      /\ \A s \in Requests : s # r => /\ pc'[s] = pc[s] /\ fate'[s] = fate[s]
                                      /\ batch'[s] = batch[s] /\ ran'[s] = ran[s]
  BY <1>1, <1>2 DEF Typed
<1>5. Acts(r)
  BY <1>2, <1>4 DEF Acts, Same, Over
<1>6. /\ pc' \in [Requests -> Points] /\ fate' \in [Requests -> Fates] /\ DOMAIN batch' = Requests
      /\ session' \in [Conns -> Sessions]
  BY <1>1, <1>2 DEF Typed, Points, Fates, Sessions
<1>7. ran' \in [Requests -> SUBSET Conns]
  BY <1>1, <1>2, <1>3 DEF Typed
<1>8. \A s \in Requests : IF Over(s)' THEN reply'[s].status # "none" ELSE reply'[s] = NoReply
  BY <1>1, <1>2, <1>4 DEF Typed, Over
<1>9. Typed'
  BY <1>1, <1>2, <1>6, <1>7, <1>8 DEF Typed
<1>10. \A s \in Requests : ran[s] \subseteq ran'[s]
  BY <1>4
<1>11. Grows
  BY <1>1, <1>2, <1>10, NothingGrows
<1>12. Placed'
  <2>1. \A s \in Requests : (Held(s)' <=> Held(s)) /\ conn'[s] = conn[s]
    BY <1>2, <1>4 DEF Held
  <2>2. \A s \in Requests : Over(s) => Same(s)
    BY <1>5 DEF Acts
  <2> QED
    BY <1>1, <1>2, <1>11, <2>1, <2>2, NotMoved
<1>13. Spoilt'
  <2>1. \A x \in Conns : session'[x] = session[x] \/ session'[x] = "open"
    BY <1>1, <1>2 DEF Typed
  <2> QED
    BY <1>1, <1>11, <2>1, SpoiltStays DEF SessionStep
<1>14. CallInv(r)'
  <2>1. Began(r)' /\ Prefix(streamed[r])'
    BY <1>1, <1>2 DEF CallInv, Began, Prefix
  <2>2. /\ Len(tables) \in began[r].table..Len(tables) /\ Len(index) \in began[r].index..Len(index)
        /\ began[r].index \in 0..Len(index) /\ Len(index) \in Nat /\ n \in Nat /\ n <= Len(index)
        /\ index \in Seq(Names)
    BY <1>1 DEF CallInv, Began, Typed, Prefix
  <2>3. SubSeq(index, 1, Len(index)) = index
    BY <2>2, SubSeqFull
  <2>4. query[r].kind \in Kinds
    BY <1>1, QueryIs
  <2>5. query[r].kind # "batches" => a \in RightAnswers(r)'
    <3>1. query[r].kind # "batches" =>
             a = Answer(query[r], tables[Len(tables)], SubSeq(index, 1, Len(index)), 0)
      BY <2>4, AnswerIs DEF a
    <3> QED
      BY <1>2, <2>2, <3>1 DEF RightAnswers
  <2>6. query[r].kind = "batches" => FullBatch(r)'
    <3> SUFFICES ASSUME query[r].kind = "batches" PROVE FullBatch(r)'
      OBVIOUS
    <3> DEFINE m == IF n + limitBatchSize < Len(index) THEN n + limitBatchSize ELSE Len(index)
    <3>1. a = SubSeq(index, n + 1, m)
      <4>1. a = indexRecordsInBatch(SubSeq(index, 1, Len(index)), n)
        BY <2>4, AnswerIs DEF a
      <4>2. a = indexRecordsInBatch(index, n)
        BY <4>1, <2>3
      <4> QED
        BY <4>2 DEF indexRecordsInBatch
    <3>2. limitBatchSize \in Nat \ {0}
      BY ObjServiceAssumption
    <3>3. m \in n..Len(index) /\ (m = n + limitBatchSize \/ began[r].index <= m)
      BY <2>2, <3>2
    <3> HIDE DEF m
    <3> QED
      BY <1>2, <1>4, <3>1, <3>3 DEF FullBatch
  <2>7. OneAnswer(r)'
    BY <1>1, <1>2, <1>4, <2>5 DEF CallInv, OneAnswer, Over
  <2>8. InBatches(r)'
    BY <1>2, <1>4, <2>6 DEF InBatches, Over
  <2> QED
    BY <2>1, <2>7, <2>8 DEF CallInv
<1> QED
  BY <1>5, <1>9, <1>11, <1>12, <1>13, <1>14, CallsKept DEF Kept

\* A connection that a call has lost is lost, and nothing else moves.
LEMMA LosingPlaced ==
    ASSUME Typed, Placed, Grows, NEW r \in Requests, Acts(r), Held(r), Over(r)',
           query[r].kind \in {"mem", "full"}, fate'[r] # "ok", conn' = conn,
           idle' = idle, checking' = checking
    PROVE  Placed'
<1>1. query' = query /\ ~Held(r)'
  BY DEF Grows, Held, Over
<1>2. \A s \in Requests : s # r => (Held(s)' <=> Held(s))
  BY DEF Acts, Same, Held
<1>3. \A s \in Requests : Over(s) => Same(s)
  BY DEF Acts
<1>4. \A p \in Pools : Once(idle'[p]) /\ Range(idle'[p]) \subseteq PoolConns(p)
  BY DEF Placed
<1>5. \A s \in Requests : Held(s)' => Held(s)
  BY <1>1, <1>2
<1>6. \A s \in Requests : Held(s)' =>
          /\ conn'[s] \in PoolConns(PoolOf(query'[s].kind))
          /\ conn'[s] \notin Range(idle'[PoolOf(query'[s].kind)])
  BY <1>1, <1>5 DEF Placed
<1>7. \A s, t \in Requests : Held(s)' /\ Held(t)' /\ conn'[s] = conn'[t] => s = t
  BY <1>5 DEF Placed
<1>8. ASSUME NEW c \in Conns
      PROVE  (c \in Range(idle[c[1]]) \/ (\E s \in Requests : Held(s) /\ conn[s] = c) \/ Lost(c))'
  <2>1. CASE Lost(c)
    BY <2>1, <1>3, LostStays
  <2>2. CASE c \in Range(idle[c[1]])
    BY <2>2
  <2>3. CASE \E s \in Requests : Held(s) /\ conn[s] = c /\ s # r
    BY <2>3, <1>2
  <2>4. CASE conn[r] = c
    BY <2>4, <1>1 DEF Lost
  <2> QED
    BY <2>1, <2>2, <2>3, <2>4 DEF Placed
<1> QED
  BY <1>4, <1>6, <1>7, <1>8 DEF Placed

\* a statement that fails: it was refused itself, or the session was spoilt before,
LEMMA executeQueryFailsKeeps ==
    ASSUME Inv, NEW r \in Requests, executeQueryFails(r)
    PROVE  Kept
<1> DEFINE c == conn[r]
           f == IF session[c] = "closed" THEN "unchecked" ELSE "sql"
<1>1. Typed /\ Placed /\ Spoilt /\ CallInv(r)
  BY DEF Inv
<1>2. /\ session' = [session EXCEPT ![c] = AfterFailure(c)]
      /\ ran' = [ran EXCEPT ![r] = @ \cup {c}] /\ batch' = [batch EXCEPT ![r] = <<>>]
      /\ tables' = tables /\ index' = index /\ idle' = idle /\ checking' = checking
      /\ query' = query /\ conn' = conn /\ streamed' = streamed
      /\ began' = began /\ cut' = cut
  BY DEF executeQueryFails
<1>3. IF query[r].kind \in {"mem", "full"} THEN Ends(r, f, <<>>)
      ELSE fate' = [fate EXCEPT ![r] = f] /\ pc' = [pc EXCEPT ![r] = "close"] /\ reply' = reply
  BY DEF executeQueryFails, LosesConnection
<1>4. pc[r] = "query"
  BY DEF executeQueryFails
<1>5. c \in Conns /\ c[1] \in Pools
  BY <1>1, <1>4, ConnPool DEF Placed, Held
<1>6. f \in Fates /\ f # "ok" /\ f # "none"
  BY DEF Fates
<1> HIDE DEF f
<1>7. /\ pc' \in [Requests -> Points] /\ fate' \in [Requests -> Fates] /\ DOMAIN reply' = Requests
      /\ \A s \in Requests : IF Over(s)' THEN reply'[s].status # "none" ELSE reply'[s] = NoReply
      /\ pc'[r] = IF query[r].kind \in {"mem", "full"} THEN "over" ELSE "close"
      /\ fate'[r] = f
      /\ query[r].kind \in {"mem", "full"} => Rows(r)' = <<>>
      /\ \A s \in Requests : s # r => pc'[s] = pc[s] /\ fate'[s] = fate[s] /\ reply'[s] = reply[s]
  <2>1. CASE query[r].kind \in {"mem", "full"}
    <3>1. Ends(r, f, <<>>)
      BY <1>3, <2>1
    <3> QED
      BY <1>1, <1>6, <2>1, <3>1, EndsTyped
  <2>2. CASE query[r].kind \notin {"mem", "full"}
    <3>1. fate' = [fate EXCEPT ![r] = f] /\ pc' = [pc EXCEPT ![r] = "close"] /\ reply' = reply
      BY <1>3, <2>2
    <3>2. /\ pc' \in [Requests -> Points] /\ fate' \in [Requests -> Fates] /\ DOMAIN reply' = Requests
          /\ pc'[r] = "close" /\ fate'[r] = f
          /\ \A s \in Requests : s # r => pc'[s] = pc[s] /\ fate'[s] = fate[s] /\ reply'[s] = reply[s]
      BY <1>1, <1>6, <3>1 DEF Typed, Points
    <3>3. \A s \in Requests : IF Over(s)' THEN reply'[s].status # "none" ELSE reply'[s] = NoReply
      BY <1>1, <1>4, <3>1, <3>2 DEF Typed, Over
    <3> QED
      BY <2>2, <3>2, <3>3
  <2> QED
    BY <2>1, <2>2
<1>8. /\ batch'[r] = <<>> /\ ran'[r] = ran[r] \cup {c} /\ DOMAIN batch' = Requests
      /\ \A s \in Requests : s # r => batch'[s] = batch[s] /\ ran'[s] = ran[s]
      /\ ran' \in [Requests -> SUBSET Conns]
  BY <1>1, <1>2, <1>5 DEF Typed
<1>9. Acts(r)
  BY <1>2, <1>4, <1>7, <1>8 DEF Acts, Same, Over
<1>10. AfterFailure(c) = IF session[c] \in {"cut", "closed"} THEN "closed" ELSE "aborted"
  BY DEF AfterFailure, autoCommit
<1>11. session' \in [Conns -> Sessions]
  BY <1>1, <1>2, <1>10 DEF Typed, Sessions
<1>12. Typed'
  BY <1>1, <1>2, <1>7, <1>8, <1>11 DEF Typed
<1>13. Grows
  BY <1>1, <1>2, <1>8, NothingGrows
<1>14. Placed'
  <2>1. CASE query[r].kind \in {"mem", "full"}
    <3>1. Held(r) /\ Over(r)' /\ fate'[r] # "ok"
      BY <1>4, <1>6, <1>7, <2>1 DEF Held, Over
    <3> QED
      BY <1>1, <1>2, <1>9, <1>13, <2>1, <3>1, LosingPlaced
  <2>2. CASE query[r].kind \notin {"mem", "full"}
    <3>1. \A s \in Requests : (Held(s)' <=> Held(s)) /\ conn'[s] = conn[s]
      BY <1>2, <1>4, <1>7, <2>2 DEF Held
    <3>2. \A s \in Requests : Over(s) => Same(s)
      BY <1>9 DEF Acts
    <3> QED
      BY <1>1, <1>2, <1>13, <3>1, <3>2, NotMoved
  <2> QED
    BY <2>1, <2>2
<1>15. session[c] \in {"cut", "closed"} => c \in cut
  BY <1>1, <1>5 DEF Spoilt
<1>16. session[c] = "aborted" => \E s \in Requests : ~query[s].accepted /\ c \in ran[s]
  BY <1>1, <1>5 DEF Spoilt
<1>17. session[c] \notin {"aborted", "cut", "closed"} => ~query[r].accepted
  BY DEF executeQueryFails
<1>18. Spoilt'
  <2>1. ASSUME NEW x \in Conns PROVE SessionStep(x)
    <3>1. CASE x # c
      BY <1>1, <1>2, <3>1 DEF Typed, SessionStep
    <3>2. CASE x = c
      <4>1. session'[c] = AfterFailure(c)
        BY <1>1, <1>2, <1>5 DEF Typed
      <4>2. CASE session[c] \in {"cut", "closed"}
        BY <4>1, <4>2, <1>2, <1>10, <1>15, <3>2 DEF SessionStep
      <4>3. CASE session[c] = "aborted"
        BY <4>1, <4>3, <1>10, <3>2 DEF SessionStep
      <4>4. CASE session[c] \notin {"aborted", "cut", "closed"}
        BY <4>1, <4>4, <1>8, <1>10, <1>17, <3>2 DEF SessionStep
      <4> QED
        BY <4>2, <4>3, <4>4
    <3> QED
      BY <3>1, <3>2
  <2> QED
    BY <1>1, <1>13, <2>1, SpoiltStays
<1>19. Refused(r)'
  <2>1. c \in ran'[r] /\ query' = query /\ cut' = cut
    BY <1>2, <1>8
  <2>2. CASE session[c] \in {"cut", "closed"}
    BY <2>1, <2>2, <1>15 DEF Refused, Poisoned
  <2>3. CASE session[c] = "aborted"
    <3>1. PICK s \in Requests : ~query[s].accepted /\ c \in ran[s]
      BY <1>16, <2>3
    <3>2. CASE s = r
      BY <2>1, <3>1, <3>2 DEF Refused
    <3>3. CASE s # r
      BY <1>8, <2>1, <3>1, <3>3 DEF Refused, Poisoned
    <3> QED
      BY <3>2, <3>3
  <2>4. CASE session[c] \notin {"aborted", "cut", "closed"}
    BY <1>17, <2>1, <2>4 DEF Refused
  <2> QED
    BY <2>2, <2>3, <2>4
<1>20. CallInv(r)'
  <2>1. Began(r)' /\ Prefix(streamed[r])'
    BY <1>1, <1>2 DEF CallInv, Began, Prefix
  <2>2. OneAnswer(r)'
    BY <1>1, <1>2, <1>6, <1>7, <1>8, <1>19 DEF CallInv, OneAnswer, Over
  <2>3. InBatches(r)'
    BY <1>2, <1>6, <1>7, <1>8, <1>19 DEF InBatches, Over
  <2> QED
    BY <2>1, <2>2, <2>3 DEF CallInv
<1> QED
  BY <1>9, <1>12, <1>13, <1>14, <1>18, <1>20, CallsKept DEF Kept

-----------------------------------------------------------------------------
\* A connection that is given back is in its queue.
LEMMA ReturnedPlaced ==
    ASSUME Typed, Placed, Grows, NEW r \in Requests, Acts(r), Held(r), ~Held(r)',
           idle' = [idle EXCEPT ![conn[r][1]] = Append(@, conn[r])],
           conn' = conn, checking' = checking
    PROVE  Placed' /\ idle' \in [Pools -> Seq(Conns)]
<1> DEFINE c == conn[r]
           p == PoolOf(query[r].kind)
<1>1. query' = query /\ p \in Pools
  BY ConnPool DEF Grows
<1>2. c \in PoolConns(p) /\ c \notin Range(idle[p])
  BY DEF Placed
<1>3. c \in Conns /\ c[1] = p
  BY <1>1, <1>2, ConnPool
<1>4. idle \in [Pools -> Seq(Conns)] /\ idle[p] \in Seq(Conns) /\ Once(idle[p])
      /\ Range(idle[p]) \subseteq PoolConns(p)
  BY <1>1 DEF Typed, Placed
<1>5. /\ idle' = [idle EXCEPT ![p] = Append(@, c)]
      /\ idle'[p] = Append(idle[p], c) /\ \A x \in Pools : x # p => idle'[x] = idle[x]
  BY <1>1, <1>3, <1>4
<1> HIDE DEF p, c
<1>6. /\ Append(idle[p], c) \in Seq(Conns) /\ Once(Append(idle[p], c))
      /\ Range(Append(idle[p], c)) = Range(idle[p]) \cup {c}
  BY <1>2, <1>3, <1>4, PutBehind
<1>7. idle' \in [Pools -> Seq(Conns)]
  BY <1>1, <1>4, <1>5, <1>6
<1>8. \A x \in Pools : Once(idle'[x]) /\ Range(idle'[x]) \subseteq PoolConns(x)
  BY <1>2, <1>4, <1>5, <1>6 DEF Placed
<1>9. \A s \in Requests : s # r => (Held(s)' <=> Held(s))
  BY DEF Acts, Same, Held
<1>10. \A s \in Requests : Held(s)' => Held(s) /\ conn[s] # c
  BY <1>9 DEF Placed, c
<1>11. \A s \in Requests : Held(s)' =>
          /\ conn'[s] \in PoolConns(PoolOf(query'[s].kind))
          /\ conn'[s] \notin Range(idle'[PoolOf(query'[s].kind)])
  <2> SUFFICES ASSUME NEW s \in Requests, Held(s)'
               PROVE  /\ conn[s] \in PoolConns(PoolOf(query[s].kind))
                      /\ conn[s] \notin Range(idle'[PoolOf(query[s].kind)])
    BY <1>1
  <2>1. /\ conn[s] \in PoolConns(PoolOf(query[s].kind)) /\ conn[s] # c
        /\ conn[s] \notin Range(idle[PoolOf(query[s].kind)]) /\ PoolOf(query[s].kind) \in Pools
    BY <1>10, ConnPool DEF Placed
  <2> QED
    BY <2>1, <1>5, <1>6
<1>12. \A s, t \in Requests : Held(s)' /\ Held(t)' /\ conn'[s] = conn'[t] => s = t
  BY <1>10 DEF Placed
<1>13. \A s \in Requests : Over(s) => Same(s)
  BY DEF Acts
<1>14. ASSUME NEW x \in Conns
       PROVE  (x \in Range(idle[x[1]]) \/ (\E s \in Requests : Held(s) /\ conn[s] = x) \/ Lost(x))'
  <2>1. CASE Lost(x)
    BY <2>1, <1>13, LostStays
  <2>2. CASE x \in Range(idle[x[1]])
    <3>1. x[1] \in Pools
      BY ConnPool
    <3> QED
      BY <2>2, <3>1, <1>5, <1>6
  <2>3. CASE \E s \in Requests : Held(s) /\ conn[s] = x /\ s # r
    BY <2>3, <1>9
  <2>4. CASE conn[r] = x
    BY <2>4, <1>3, <1>5, <1>6 DEF c
  <2> QED
    BY <2>1, <2>2, <2>3, <2>4 DEF Placed
<1> QED
  BY <1>7, <1>8, <1>11, <1>12, <1>14 DEF Placed

\* A full batch continues the rows before it.
LEMMA BatchJoins ==
    ASSUME Typed, NEW r \in Requests, CallInv(r), FullBatch(r), query[r].kind = "batches"
    PROVE  /\ Answered(r) \in Seq(Names) /\ Prefix(Answered(r))
           /\ Len(batch[r]) # limitBatchSize => began[r].index <= Len(Answered(r))
<1> DEFINE n == Len(streamed[r])
<1>1. /\ index \in Seq(Names) /\ Len(index) \in Nat /\ n \in Nat /\ n <= Len(index)
      /\ streamed[r] = SubSeq(index, 1, n)
      /\ limitBatchSize \in Nat \ {0} /\ began[r].index \in 0..Len(index)
  BY ObjServiceAssumption DEF Typed, CallInv, Prefix, Began
<1>2. PICK m \in n..Len(index) :
         /\ batch[r] = SubSeq(index, n + 1, m)
         /\ m = n + limitBatchSize \/ began[r].index <= m
  BY DEF FullBatch
<1> HIDE DEF n
<1>3. 1 \in 1..(Len(index) + 1) /\ n \in (1 - 1)..Len(index) /\ m \in Nat /\ n <= m /\ m <= Len(index)
  BY <1>1, <1>2
<1>4. SubSeq(index, 1, n) \o SubSeq(index, n + 1, m) = SubSeq(index, 1, m)
  BY <1>1, <1>2, <1>3, ConcatAdjacentSubSeq
<1>5. Answered(r) = SubSeq(index, 1, m)
  <2>1. Answered(r) = streamed[r] \o batch[r]
    BY DEF Answered
  <2> QED
    BY <2>1, <1>1, <1>2, <1>4, Zenon
<1>6. \A i, j \in Nat : j <= Len(index) =>
          /\ SubSeq(index, i + 1, j) \in Seq(Names)
          /\ Len(SubSeq(index, i + 1, j)) = IF i + 1 <= j THEN j - (i + 1) + 1 ELSE 0
  <2> SUFFICES ASSUME NEW i \in Nat, NEW j \in Nat, j <= Len(index)
               PROVE  /\ SubSeq(index, i + 1, j) \in Seq(Names)
                      /\ Len(SubSeq(index, i + 1, j)) = IF i + 1 <= j THEN j - (i + 1) + 1 ELSE 0
    OBVIOUS
  <2>1. i + 1 \in Int /\ j \in Int /\ \A k \in (i + 1)..j : index[k] \in Names
    BY <1>1
  <2> QED
    BY <2>1, SubSeqProperties
<1>7. SubSeq(index, 1, m) \in Seq(Names) /\ Len(SubSeq(index, 1, m)) = m
  <2>1. /\ SubSeq(index, 0 + 1, m) \in Seq(Names)
        /\ Len(SubSeq(index, 0 + 1, m)) = IF 0 + 1 <= m THEN m - (0 + 1) + 1 ELSE 0
    BY <1>3, <1>6
  <2> QED
    BY <2>1, <1>3
<1>8. Len(batch[r]) = m - n
  <2>1. Len(SubSeq(index, n + 1, m)) = IF n + 1 <= m THEN m - (n + 1) + 1 ELSE 0
    BY <1>1, <1>3, <1>6
  <2>2. Len(batch[r]) = Len(SubSeq(index, n + 1, m))
    BY <1>2, Zenon
  <2> QED
    BY <2>1, <2>2, <1>1, <1>3
<1>9. Prefix(Answered(r))
  BY <1>3, <1>5, <1>7 DEF Prefix
<1>10. Len(batch[r]) # limitBatchSize => began[r].index <= m
  BY <1>1, <1>2, <1>3, <1>8
<1> QED
  BY <1>5, <1>7, <1>9, <1>10

\* and the end of a batch or of the call.
LEMMA closeKeeps ==
    ASSUME Inv, NEW r \in Requests, close(r)
    PROVE  Kept
<1> DEFINE a == Answered(r)
<1>1. Typed /\ Placed /\ Spoilt /\ CallInv(r)
  BY DEF Inv
<1>2. /\ pc[r] = "close" /\ idle' = [idle EXCEPT ![conn[r][1]] = Append(@, conn[r])]
      /\ tables' = tables /\ index' = index /\ session' = session /\ checking' = checking
      /\ query' = query /\ conn' = conn /\ batch' = batch
      /\ began' = began /\ ran' = ran /\ cut' = cut
  BY DEF close
<1>3. NextBatch(r) =>
         /\ streamed' = [streamed EXCEPT ![r] = a] /\ pc' = [pc EXCEPT ![r] = "take"]
         /\ fate' = fate /\ reply' = reply
  BY DEF close
<1>4. ~NextBatch(r) => Ends(r, fate[r], a) /\ streamed' = streamed
  BY DEF close
<1>5. fate[r] \in Fates
  BY <1>1 DEF Typed
<1>6. query[r].kind = "batches" /\ fate[r] = "ok" => FullBatch(r)
  BY <1>1, <1>2 DEF CallInv, InBatches
<1>7. query[r].kind = "batches" /\ fate[r] = "ok" =>
         /\ a \in Seq(Names) /\ Prefix(a)
         /\ Len(batch[r]) # limitBatchSize => began[r].index <= Len(a)
  BY <1>1, <1>6, BatchJoins
<1>8. query[r].kind # "batches" => a = batch[r]
  BY DEF Answered
<1>9. query[r].kind = "batches" /\ fate[r] # "ok" => a = streamed[r] /\ Refused(r)
  <2> SUFFICES ASSUME query[r].kind = "batches", fate[r] # "ok" PROVE a = streamed[r] /\ Refused(r)
    OBVIOUS
  <2>1. batch[r] = <<>> /\ Refused(r) /\ streamed[r] \in Seq(Names)
    BY <1>1, <1>2 DEF CallInv, InBatches, Typed
  <2>2. streamed[r] \o <<>> = streamed[r]
    BY <2>1, ConcatEmptySeq
  <2> QED
    BY <2>1, <2>2 DEF Answered
<1>10. NextBatch(r) => query[r].kind = "batches" /\ fate[r] = "ok"
  BY DEF NextBatch
<1>11. ~NextBatch(r) /\ query[r].kind = "batches" /\ fate[r] = "ok" => Len(batch[r]) # limitBatchSize
  BY DEF NextBatch
<1> HIDE DEF a
<1>12. /\ pc' \in [Requests -> Points] /\ fate' \in [Requests -> Fates] /\ DOMAIN reply' = Requests
       /\ streamed' \in [Requests -> Seq(Names)]
       /\ \A s \in Requests : IF Over(s)' THEN reply'[s].status # "none" ELSE reply'[s] = NoReply
       /\ pc'[r] = IF NextBatch(r) THEN "take" ELSE "over"
       /\ fate'[r] = fate[r] /\ streamed'[r] = (IF NextBatch(r) THEN a ELSE streamed[r])
       /\ ~NextBatch(r) => Rows(r)' = a
       /\ \A s \in Requests : s # r => /\ pc'[s] = pc[s] /\ fate'[s] = fate[s] /\ reply'[s] = reply[s]
                                       /\ streamed'[s] = streamed[s]
  <2>1. CASE NextBatch(r)
    <3>1. /\ streamed' = [streamed EXCEPT ![r] = a] /\ pc' = [pc EXCEPT ![r] = "take"]
          /\ fate' = fate /\ reply' = reply /\ a \in Seq(Names)
      BY <1>3, <1>7, <1>10, <2>1
    <3>2. /\ pc' \in [Requests -> Points] /\ fate' \in [Requests -> Fates] /\ DOMAIN reply' = Requests
          /\ streamed' \in [Requests -> Seq(Names)]
          /\ pc'[r] = "take" /\ fate'[r] = fate[r] /\ streamed'[r] = a
          /\ \A s \in Requests : s # r => /\ pc'[s] = pc[s] /\ fate'[s] = fate[s] /\ reply'[s] = reply[s]
                                          /\ streamed'[s] = streamed[s]
      BY <1>1, <3>1 DEF Typed, Points
    <3>3. \A s \in Requests : IF Over(s)' THEN reply'[s].status # "none" ELSE reply'[s] = NoReply
      BY <1>1, <1>2, <3>1, <3>2 DEF Typed, Over
    <3> QED
      BY <2>1, <3>2, <3>3
  <2>2. CASE ~NextBatch(r)
    <3>1. Ends(r, fate[r], a) /\ streamed' = streamed
      BY <1>4, <2>2
    <3>2. /\ pc' \in [Requests -> Points] /\ fate' \in [Requests -> Fates] /\ DOMAIN reply' = Requests
          /\ \A s \in Requests : IF Over(s)' THEN reply'[s].status # "none" ELSE reply'[s] = NoReply
          /\ pc'[r] = "over" /\ fate'[r] = fate[r] /\ Rows(r)' = a
          /\ \A s \in Requests : s # r => pc'[s] = pc[s] /\ fate'[s] = fate[s] /\ reply'[s] = reply[s]
      BY <1>1, <1>5, <3>1, EndsTyped
    <3>3. streamed' \in [Requests -> Seq(Names)]
      BY <1>1, <3>1 DEF Typed
    <3> QED
      BY <2>2, <3>1, <3>2, <3>3
  <2> QED
    BY <2>1, <2>2
<1>13. Acts(r)
  BY <1>2, <1>12 DEF Acts, Same, Over
<1>14. Grows
  BY <1>1, <1>2, NothingGrows
<1>15. Placed' /\ idle' \in [Pools -> Seq(Conns)]
  <2>1. Held(r) /\ ~Held(r)'
    BY <1>2, <1>12 DEF Held
  <2> QED
    BY <1>1, <1>2, <1>13, <1>14, <2>1, ReturnedPlaced
<1>16. Typed'
  BY <1>1, <1>2, <1>12, <1>15 DEF Typed
<1>17. Spoilt'
  BY <1>1, <1>2, <1>14, SpoiltStays DEF SessionStep
<1>18. CallInv(r)'
  <2>1. Began(r)'
    BY <1>1, <1>2 DEF CallInv, Began
  <2>2. \A s : Prefix(s) => Prefix(s)'
    BY <1>2 DEF Prefix
  <2>3. Prefix(streamed[r])'
    BY <1>1, <1>7, <1>10, <1>12, <2>2 DEF CallInv
  <2>4. Refused(r) => Refused(r)'
    BY <1>14, RefusedStays
  <2>5. query[r].kind # "batches" => ~NextBatch(r)
    BY <1>10
  <2>6. query[r].kind # "batches" /\ fate[r] = "ok" => a \in RightAnswers(r)'
    BY <1>1, <1>2, <1>8 DEF CallInv, OneAnswer, RightAnswers
  <2>7. query[r].kind # "batches" /\ fate[r] # "ok" => a = <<>> /\ Refused(r)'
    BY <1>1, <1>2, <1>8, <2>4 DEF CallInv, OneAnswer
  <2>8. OneAnswer(r)'
    BY <1>1, <1>2, <1>12, <2>5, <2>6, <2>7 DEF CallInv, OneAnswer
  <2>9. CASE query[r].kind = "batches" /\ ~NextBatch(r) /\ fate[r] = "ok"
    <3>1. Prefix(Rows(r))' /\ began'[r].index <= Len(Rows(r)')
      BY <1>2, <1>7, <1>11, <1>12, <2>2, <2>9
    <3> QED
      BY <3>1, <2>1, <2>3, <2>8, <2>9, <1>12 DEF CallInv, InBatches, Over
  <2>10. CASE query[r].kind = "batches" /\ ~NextBatch(r) /\ fate[r] # "ok"
    <3>1. Prefix(Rows(r))' /\ Refused(r)'
      BY <1>1, <1>9, <1>12, <2>2, <2>4, <2>10 DEF CallInv
    <3> QED
      BY <3>1, <2>1, <2>3, <2>8, <2>10, <1>12 DEF CallInv, InBatches, Over
  <2>11. CASE query[r].kind # "batches" \/ NextBatch(r)
    BY <1>2, <1>12, <2>1, <2>3, <2>8, <2>11 DEF CallInv, InBatches, Over
  <2> QED
    BY <2>9, <2>10, <2>11
<1> QED
  BY <1>13, <1>14, <1>15, <1>16, <1>17, <1>18, CallsKept DEF Kept

-----------------------------------------------------------------------------
\* The checker moves an idle connection to the end of its queue, or loses it.
LEMMA checkConnectionKeeps ==
    ASSUME Inv, NEW p \in Pools, checkConnection(p)
    PROVE  Kept
<1> DEFINE c == Head(idle[p])
           t == [idle EXCEPT ![p] = Tail(@)]
<1>1. Typed /\ Placed /\ Spoilt /\ idle[p] \in Seq(Conns) /\ Once(idle[p]) /\ DOMAIN idle = Pools
  BY DEF Inv, Typed, Placed
<1>2. /\ idle[p] # <<>> /\ checking[p]
      /\ tables' = tables /\ index' = index /\ session' = session /\ cut' = cut
      /\ pc' = pc /\ query' = query /\ conn' = conn /\ fate' = fate /\ batch' = batch
      /\ streamed' = streamed /\ reply' = reply /\ began' = began /\ ran' = ran
  BY DEF checkConnection, callVars
<1>3. IF session[c] \in {"cut", "closed"}
      THEN idle' = t /\ checking' = [checking EXCEPT ![p] = FALSE]
      ELSE idle' = [idle EXCEPT ![p] = Append(Tail(@), c)] /\ checking' = checking
  BY DEF checkConnection
<1>4. /\ t \in [Pools -> Seq(Conns)]
      /\ \A x \in Pools : Once(t[x]) /\ Range(t[x]) \subseteq PoolConns(x)
      /\ \A x \in Pools : x # p => t[x] = idle[x]
      /\ c \in Range(idle[p]) /\ c \in PoolConns(p)
      /\ Range(t[p]) = Range(idle[p]) \ {c}
  BY <1>1, <1>2, TakeIdle
<1>5. t[p] = Tail(idle[p])
  BY <1>1
<1> HIDE DEF c, t
<1>6. c \in Conns /\ c[1] = p
  BY <1>4, ConnPool
<1>7. Grows
  BY <1>1, <1>2, NothingGrows
<1>8. \A s \in Requests : Same(s)
  BY <1>2 DEF Same
<1>9. /\ idle' \in [Pools -> Seq(Conns)]
      /\ \A x \in Pools : Once(idle'[x]) /\ Range(idle'[x]) \subseteq PoolConns(x)
      /\ \A x \in Pools : Range(idle'[x]) \subseteq Range(idle[x])
      /\ \A x \in Pools : \A d \in Range(idle[x]) :
            d # c \/ session[c] \notin {"cut", "closed"} => d \in Range(idle'[x])
  <2>1. CASE session[c] \in {"cut", "closed"}
    <3>1. idle' = t
      BY <1>3, <2>1
    <3>2. \A x \in Pools : \A d \in Range(idle[x]) : d # c => d \in Range(t[x])
      BY <1>4
    <3> QED
      BY <3>1, <3>2, <1>4, <2>1
  <2>2. CASE session[c] \notin {"cut", "closed"}
    <3>1. idle' = [idle EXCEPT ![p] = Append(Tail(@), c)]
      BY <1>3, <2>2
    <3>2. idle'[p] = Append(t[p], c) /\ \A x \in Pools : x # p => idle'[x] = t[x] /\ idle'[x] = idle[x]
      BY <3>1, <1>1, <1>4, <1>5
    <3>3. /\ Append(t[p], c) \in Seq(Conns) /\ Once(Append(t[p], c))
          /\ Range(Append(t[p], c)) = Range(t[p]) \cup {c}
      BY <1>4, <1>6, PutBehind
    <3>4. Range(idle'[p]) = Range(idle[p])
      BY <3>2, <3>3, <1>4
    <3>5. idle' \in [Pools -> Seq(Conns)]
      BY <3>1, <3>2, <3>3, <1>1, <1>4
    <3>6. ASSUME NEW x \in Pools
          PROVE  Once(idle'[x]) /\ Range(idle'[x]) = Range(idle[x]) /\ Range(idle[x]) \subseteq PoolConns(x)
      <4>1. CASE x = p
        BY <4>1, <3>2, <3>3, <3>4, <1>1 DEF Placed
      <4>2. CASE x # p
        BY <4>2, <3>2, <1>1 DEF Placed
      <4> QED
        BY <4>1, <4>2
    <3> QED
      BY <3>5, <3>6
  <2> QED
    BY <2>1, <2>2
<1>10. /\ checking' \in [Pools -> BOOLEAN]
       /\ session[c] \in {"cut", "closed"} => ~checking'[p] /\ c \in cut'
       /\ \A x \in Pools : ~checking[x] => ~checking'[x]
  <2>1. checking \in [Pools -> BOOLEAN]
    BY <1>1 DEF Typed
  <2>2. CASE session[c] \in {"cut", "closed"}
    <3>1. checking' = [checking EXCEPT ![p] = FALSE]
      BY <1>3, <2>2
    <3>2. c \in cut'
      BY <1>1, <1>2, <1>6, <2>2 DEF Spoilt
    <3> QED
      BY <3>1, <3>2, <2>1
  <2>3. CASE session[c] \notin {"cut", "closed"}
    BY <1>3, <2>1, <2>3
  <2> QED
    BY <2>2, <2>3
<1>11. Placed'
  <2>1. \A s \in Requests : Held(s)' => Held(s)
    BY <1>2 DEF Held
  <2>2. \A s \in Requests : Held(s)' =>
          /\ conn'[s] \in PoolConns(PoolOf(query'[s].kind))
          /\ conn'[s] \notin Range(idle'[PoolOf(query'[s].kind)])
    BY <1>1, <1>2, <1>9, <2>1, ConnPool DEF Placed
  <2>3. \A s, u \in Requests : Held(s)' /\ Held(u)' /\ conn'[s] = conn'[u] => s = u
    BY <1>1, <1>2, <2>1 DEF Placed
  <2>4. ASSUME NEW d \in Conns
        PROVE  (d \in Range(idle[d[1]]) \/ (\E s \in Requests : Held(s) /\ conn[s] = d) \/ Lost(d))'
    <3>1. CASE Lost(d)
      BY <3>1, <1>7, <1>8, <1>10, LostStays
    <3>2. CASE \E s \in Requests : Held(s) /\ conn[s] = d
      BY <3>2, <1>2 DEF Held
    <3>3. CASE d \in Range(idle[d[1]]) /\ (d # c \/ session[c] \notin {"cut", "closed"})
      BY <3>3, <1>9, ConnPool
    <3>4. CASE d = c /\ session[c] \in {"cut", "closed"}
      BY <3>4, <1>6, <1>10 DEF Lost
    <3> QED
      BY <1>1, <3>1, <3>2, <3>3, <3>4 DEF Placed
  <2> QED
    BY <1>9, <2>2, <2>3, <2>4 DEF Placed
<1>12. Typed'
  BY <1>1, <1>2, <1>9, <1>10 DEF Typed, Over
<1>13. Spoilt'
  BY <1>1, <1>2, <1>7, SpoiltStays DEF SessionStep
<1> QED
  BY <1>7, <1>8, <1>11, <1>12, <1>13, CallsKeptByWorld DEF Kept

\* The world: a connection breaks,
LEMMA BreaksKeeps ==
    ASSUME Inv, NEW c \in Conns, Breaks(c)
    PROVE  Kept
<1>1. Typed /\ Placed /\ Spoilt
  BY DEF Inv
<1>2. /\ session' = [session EXCEPT ![c] = "cut"] /\ cut' = cut \cup {c}
      /\ tables' = tables /\ index' = index /\ idle' = idle /\ checking' = checking
      /\ pc' = pc /\ query' = query /\ conn' = conn /\ fate' = fate /\ batch' = batch
      /\ streamed' = streamed /\ reply' = reply /\ began' = began /\ ran' = ran
  BY DEF Breaks, callVars
<1>3. \A s \in Requests : Same(s)
  BY <1>2 DEF Same
<1>4. Grows
  BY <1>1, <1>2, NothingGrows
<1>5. session' \in [Conns -> Sessions] /\ cut' \subseteq Conns
  BY <1>1, <1>2 DEF Typed, Sessions
<1>6. Typed'
  BY <1>1, <1>2, <1>5 DEF Typed, Over
<1>7. Placed'
  BY <1>1, <1>2, <1>3, <1>4, NotMoved DEF Held
<1>8. Spoilt'
  <2>1. \A x \in Conns : SessionStep(x)
    BY <1>1, <1>2 DEF Typed, SessionStep
  <2> QED
    BY <1>1, <1>4, <2>1, SpoiltStays
<1> QED
  BY <1>3, <1>4, <1>6, <1>7, <1>8, CallsKeptByWorld DEF Kept

\* a state is added to the objects table,
LEMMA WriteKeeps ==
    ASSUME Inv, NEW n \in Names, Write(n)
    PROVE  Kept
<1>1. Typed /\ Placed /\ Spoilt
  BY DEF Inv
<1>2. /\ \E row \in {NoRow, [type |-> 1, ver |-> Len(tables)]} \ {objects[n]} :
            tables' = Append(tables, [objects EXCEPT ![n] = row])
      /\ index' = index /\ session' = session /\ idle' = idle /\ checking' = checking /\ cut' = cut
      /\ pc' = pc /\ query' = query /\ conn' = conn /\ fate' = fate /\ batch' = batch
      /\ streamed' = streamed /\ reply' = reply /\ began' = began /\ ran' = ran
  BY DEF Write, callVars
<1>3. \A s \in Requests : Same(s)
  BY <1>2 DEF Same
<1>4. PICK row \in {NoRow, [type |-> 1, ver |-> Len(tables)]} :
         tables' = Append(tables, [objects EXCEPT ![n] = row])
  BY <1>2
<1>5. tables \in Seq(Tables) /\ Len(tables) \in Nat \ {0} /\ index \in Seq(Names) /\ Len(index) \in Nat
  BY <1>1 DEF Typed
<1>6. [objects EXCEPT ![n] = row] \in Tables
  <2>1. objects \in Tables
    BY <1>5 DEF objects
  <2>2. row \in {NoRow} \cup [type : Nat, ver : Nat]
    BY <1>4, <1>5
  <2> QED
    BY <2>1, <2>2 DEF Tables
<1>7. /\ tables' \in Seq(Tables) /\ tables' # <<>> /\ Len(tables') = Len(tables) + 1
      /\ \A k \in 1..Len(tables) : tables'[k] = tables[k]
  BY <1>4, <1>5, <1>6, AppendProperties
<1>8. Grows
  BY <1>2, <1>5, <1>7 DEF Grows
<1>9. Typed'
  BY <1>1, <1>2, <1>7 DEF Typed, Over
<1>10. Placed'
  BY <1>1, <1>2, <1>3, <1>8, NotMoved DEF Held
<1>11. Spoilt'
  BY <1>1, <1>2, <1>8, SpoiltStays DEF SessionStep
<1> QED
  BY <1>3, <1>8, <1>9, <1>10, <1>11, CallsKeptByWorld DEF Kept

\* a row to the index table.
LEMMA InsertIndexRowKeeps ==
    ASSUME Inv, NEW n \in Names, InsertIndexRow(n)
    PROVE  Kept
<1>1. Typed /\ Placed /\ Spoilt
  BY DEF Inv
<1>2. /\ index' = Append(index, n)
      /\ tables' = tables /\ session' = session /\ idle' = idle /\ checking' = checking /\ cut' = cut
      /\ pc' = pc /\ query' = query /\ conn' = conn /\ fate' = fate /\ batch' = batch
      /\ streamed' = streamed /\ reply' = reply /\ began' = began /\ ran' = ran
  BY DEF InsertIndexRow, callVars
<1>3. \A s \in Requests : Same(s)
  BY <1>2 DEF Same
<1>4. tables \in Seq(Tables) /\ Len(tables) \in Nat /\ index \in Seq(Names) /\ Len(index) \in Nat
  BY <1>1 DEF Typed
<1>5. /\ index' \in Seq(Names) /\ Len(index') = Len(index) + 1
      /\ \A k \in 1..Len(index) : index'[k] = index[k]
  BY <1>2, <1>4, AppendProperties
<1>6. Grows
  BY <1>2, <1>4, <1>5 DEF Grows
<1>7. Typed'
  BY <1>1, <1>2, <1>5 DEF Typed, Over
<1>8. Placed'
  BY <1>1, <1>2, <1>3, <1>6, NotMoved DEF Held
<1>9. Spoilt'
  BY <1>1, <1>2, <1>6, SpoiltStays DEF SessionStep
<1> QED
  BY <1>3, <1>6, <1>7, <1>8, <1>9, CallsKeptByWorld DEF Kept

-----------------------------------------------------------------------------
\* All connections are idle, and no call has begun.
LEMMA InitInv == Init => Inv
<1> SUFFICES ASSUME Init PROVE Inv
  OBVIOUS
<1>1. /\ tables = <<InitialObjects>> /\ index = InitialIndex
      /\ session = [c \in Conns |-> "none"]
      /\ idle = [p \in Pools |-> [i \in 1..Size(p) |-> <<p, i>>]]
      /\ checking = [p \in Pools |-> TRUE]
      /\ pc = [r \in Requests |-> "new"]
      /\ \A r \in Requests : query[r] \in Queries[r]
      /\ conn = [r \in Requests |-> Null] /\ fate = [r \in Requests |-> "none"]
      /\ batch = [r \in Requests |-> <<>>] /\ streamed = [r \in Requests |-> <<>>]
      /\ reply = [r \in Requests |-> NoReply]
      /\ began = [r \in Requests |-> [table |-> 1, index |-> Len(InitialIndex)]]
      /\ ran = [r \in Requests |-> {}] /\ cut = {}
  BY DEF Init
<1>2. InitialObjects \in Tables /\ InitialIndex \in Seq(Names)
  BY ObjServiceAssumption DEF Tables
<1>3. tables \in Seq(Tables) /\ tables # <<>> /\ Len(tables) = 1 /\ index \in Seq(Names) /\ Len(index) \in Nat
  BY <1>1, <1>2
<1>4. ASSUME NEW p \in Pools
      PROVE  /\ idle[p] \in Seq(Conns) /\ Once(idle[p]) /\ Range(idle[p]) \subseteq PoolConns(p)
             /\ \A c \in PoolConns(p) : c \in Range(idle[p])
  <2>1. Size(p) \in Nat /\ idle[p] = [i \in 1..Size(p) |-> <<p, i>>]
    BY <1>1, ConnPool
  <2>2. \A i \in 1..Size(p) : <<p, i>> \in PoolConns(p) /\ <<p, i>> \in Conns
    BY ConnPool DEF PoolConns
  <2>3. idle[p] \in Seq(Conns) /\ Len(idle[p]) = Size(p) /\ DOMAIN idle[p] = 1..Size(p)
        /\ \A i \in 1..Size(p) : idle[p][i] = <<p, i>>
    BY <2>1, <2>2
  <2>4. Once(idle[p])
    BY <2>3 DEF Once
  <2>5. Range(idle[p]) \subseteq PoolConns(p)
    BY <2>2, <2>3 DEF Range
  <2>6. ASSUME NEW c \in PoolConns(p) PROVE c \in Range(idle[p])
    <3>1. PICK i \in 1..Size(p) : c = <<p, i>>
      BY DEF PoolConns
    <3> QED
      BY <2>3, <3>1 DEF Range
  <2> QED
    BY <2>3, <2>4, <2>5, <2>6
<1>5. Typed
  <2>1. idle \in [Pools -> Seq(Conns)]
    BY <1>1, <1>4
  <2>2. <<>> \in Seq(Names)
    OBVIOUS
  <2> QED
    BY <1>1, <1>3, <2>1, <2>2 DEF Typed, Sessions, Points, Fates, Over
<1>6. Placed
  <2>1. \A r \in Requests : ~Held(r)
    BY <1>1 DEF Held
  <2>2. \A c \in Conns : c \in Range(idle[c[1]])
    BY <1>4, ConnPool
  <2> QED
    BY <1>4, <2>1, <2>2 DEF Placed
<1>7. Spoilt
  BY <1>1 DEF Spoilt
<1>8. ASSUME NEW r \in Requests PROVE CallInv(r)
  <2>1. Began(r)
    BY <1>1, <1>3 DEF Began
  <2>2. SubSeq(index, 1, 0) = <<>> /\ Len(<<>>) = 0 /\ <<>> \in Seq(Names)
    BY SubSeqEmpty
  <2>3. Prefix(<<>>)
    BY <1>3, <2>2 DEF Prefix
  <2> QED
    BY <1>1, <2>1, <2>3 DEF CallInv, OneAnswer, InBatches, Over
<1> QED
  BY <1>5, <1>6, <1>7, <1>8 DEF Inv

\* A step of something else.
LEMMA StutterInv ==
    ASSUME Inv, UNCHANGED vars
    PROVE  Inv'
<1>1. /\ tables' = tables /\ index' = index /\ session' = session /\ idle' = idle /\ checking' = checking
      /\ cut' = cut /\ pc' = pc /\ query' = query /\ conn' = conn /\ fate' = fate /\ batch' = batch
      /\ streamed' = streamed /\ reply' = reply /\ began' = began /\ ran' = ran
  BY DEF vars
<1>2. Typed /\ Placed /\ Spoilt
  BY DEF Inv
<1>3. Grows
  BY <1>1, <1>2, NothingGrows
<1>4. \A s \in Requests : Same(s)
  BY <1>1 DEF Same
<1>5. Typed'
  BY <1>1, <1>2 DEF Typed, Over
<1>6. Placed'
  BY <1>1, <1>2, <1>3, <1>4, NotMoved DEF Held
<1>7. Spoilt'
  BY <1>1, <1>2, <1>3, SpoiltStays DEF SessionStep
<1> QED
  BY <1>3, <1>4, <1>5, <1>6, <1>7, CallsKeptByWorld DEF Inv

\* Every step of Next keeps the invariant.
LEMMA NextInv == Inv /\ [Next]_vars => Inv'
<1> SUFFICES ASSUME Inv, [Next]_vars PROVE Inv'
  OBVIOUS
<1>1. Kept => Inv'
  BY DEF Kept, Inv
<1>2. ASSUME NEW r \in Requests, Runs(r) PROVE Kept
  <2>1. CASE Begin(r)
    BY <2>1, BeginKeeps
  <2>2. CASE getConnection(r)
    BY <2>2, getConnectionKeeps
  <2>3. CASE getConnectionTimesOut(r)
    BY <2>3, getConnectionTimesOutKeeps
  <2>4. CASE executeQuery(r)
    BY <2>4, executeQueryKeeps
  <2>5. CASE executeQueryFails(r)
    BY <2>5, executeQueryFailsKeeps
  <2>6. CASE close(r)
    BY <2>6, closeKeeps
  <2> QED
    BY <1>2, <2>1, <2>2, <2>3, <2>4, <2>5, <2>6 DEF Runs
<1>3. ASSUME NEW p \in Pools, checkConnection(p) PROVE Kept
  BY <1>3, checkConnectionKeeps
<1>4. ASSUME NEW c \in Conns, Breaks(c) PROVE Kept
  BY <1>4, BreaksKeeps
<1>5. ASSUME NEW n \in Names, Write(n) PROVE Kept
  BY <1>5, WriteKeeps
<1>6. ASSUME NEW n \in Names, InsertIndexRow(n) PROVE Kept
  BY <1>6, InsertIndexRowKeeps
<1>7. CASE Next
  BY <1>1, <1>2, <1>3, <1>4, <1>5, <1>6, <1>7 DEF Next
<1>8. CASE UNCHANGED vars
  BY <1>8, StutterInv
<1> QED
  BY <1>7, <1>8

\* The invariant of the read requests: ConnectionsAccounted, AnswersAreGenuine and
\* BatchesComplete all follow from it.
THEOREM InvAlways == Spec => []Inv
<1>1. Init => Inv
  BY InitInv
<1>2. Inv /\ [Next]_vars => Inv'
  BY NextInv
<1> QED
  BY <1>1, <1>2, PTL DEF Spec

-----------------------------------------------------------------------------
\* A set with no two elements.
LEMMA AtMostOne ==
    ASSUME NEW T, \A x, y \in T : x = y
    PROVE  IF T = {} THEN Cardinality(T) = 0 ELSE Cardinality(T) = 1
<1>1. CASE T = {}
  BY <1>1, FS_EmptySet
<1>2. CASE T # {}
  <2>1. PICK x \in T : TRUE
    BY <1>2
  <2>2. T = {x}
    BY <2>1
  <2> QED
    BY <1>2, <2>2, FS_Singleton
<1> QED
  BY <1>1, <1>2

\* What the runs check follows from the invariant: the values,
LEMMA TypesFollow == Inv => TypeOK
<1> SUFFICES ASSUME Inv PROVE TypeOK
  OBVIOUS
<1>1. Typed /\ Placed
  BY DEF Inv
<1>2. \A p \in Pools : Len(idle[p]) <= Size(p) /\ Range(idle[p]) \subseteq PoolConns(p)
  BY <1>1, QueueFits DEF Typed, Placed
<1>3. \A r \in Requests : (pc[r] = "over") = (reply[r] # NoReply)
  <2> SUFFICES ASSUME NEW r \in Requests PROVE (pc[r] = "over") = (reply[r] # NoReply)
    OBVIOUS
  <2>1. NoReply.status = "none"
    BY DEF NoReply
  <2>2. IF Over(r) THEN reply[r].status # "none" ELSE reply[r] = NoReply
    BY <1>1 DEF Typed
  <2> QED
    BY <2>1, <2>2 DEF Over
<1>4. \A r \in Requests : pc[r] \in {"query", "close"} => conn[r] \in PoolConns(PoolOf(query[r].kind))
  BY <1>1 DEF Placed, Held
<1> QED
  BY <1>1, <1>2, <1>3, <1>4 DEF TypeOK, Typed, Sessions, Points, Fates

\* where the connections are, counted,
LEMMA ConnectionsFollow == Inv => ConnectionsAccounted
<1> SUFFICES ASSUME Inv, NEW c \in Conns
             PROVE  LET places == Cardinality(Holders(c)) + Cardinality(Places(c))
                    IN \/ places = 1
                       \/ places = 0 /\ Lost(c)
  BY TypesFollow DEF ConnectionsAccounted, Lost
<1>1. Typed /\ Placed
  BY DEF Inv
<1>2. c[1] \in Pools /\ idle[c[1]] \in Seq(Conns) /\ Once(idle[c[1]])
  BY <1>1, ConnPool DEF Typed, Placed
<1>3. Len(idle[c[1]]) \in Nat /\ DOMAIN idle[c[1]] = 1..Len(idle[c[1]])
  BY <1>2
<1>4. IF Holders(c) = {} THEN Cardinality(Holders(c)) = 0 ELSE Cardinality(Holders(c)) = 1
  <2>1. \A r, s \in Holders(c) : r = s
    BY <1>1 DEF Holders, Placed, Held
  <2> QED
    BY <2>1, AtMostOne
<1>5. IF Places(c) = {} THEN Cardinality(Places(c)) = 0 ELSE Cardinality(Places(c)) = 1
  <2>1. \A i, j \in Places(c) : i = j
    BY <1>2 DEF Places, Once
  <2> QED
    BY <2>1, AtMostOne
<1>6. Places(c) # {} <=> c \in Range(idle[c[1]])
  BY <1>3 DEF Places, Range
<1>7. Holders(c) # {} <=> \E r \in Requests : Held(r) /\ conn[r] = c
  BY DEF Holders, Held
<1>8. Holders(c) = {} \/ Places(c) = {}
  <2> SUFFICES ASSUME NEW r \in Requests, Held(r), conn[r] = c, c \in Range(idle[c[1]]) PROVE FALSE
    BY <1>6, <1>7
  <2>1. c \in PoolConns(PoolOf(query[r].kind)) /\ c \notin Range(idle[PoolOf(query[r].kind)])
    BY <1>1 DEF Placed
  <2>2. c[1] = PoolOf(query[r].kind)
    BY <2>1, ConnPool
  <2> QED
    BY <2>1, <2>2
<1>9. Holders(c) # {} \/ Places(c) # {} \/ Lost(c)
  BY <1>1, <1>6, <1>7 DEF Placed
<1> QED
  BY <1>4, <1>5, <1>8, <1>9

\* the single answers,
LEMMA AnswersFollow == Inv => AnswersAreGenuine
<1> SUFFICES ASSUME Inv, NEW r \in Requests, Over(r), query[r].kind # "batches"
             PROVE  \/ Rows(r) \in RightAnswers(r)
                    \/ Rows(r) = <<>> /\ (ran[r] = {} \/ ~query[r].accepted \/ Poisoned(r))
  BY DEF AnswersAreGenuine
<1> QED
  BY DEF Inv, CallInv, OneAnswer, Refused

\* and the batches.
LEMMA BatchesFollow == Inv => BatchesComplete
<1> SUFFICES ASSUME Inv, NEW r \in Requests, Over(r), query[r].kind = "batches"
             PROVE  /\ IsPrefix(Rows(r), index)
                    /\ \/ Len(Rows(r)) >= began[r].index \/ ~query[r].accepted
                       \/ Poisoned(r) \/ reply[r].status = "open"
  BY DEF BatchesComplete
<1>1. /\ Prefix(Rows(r)) /\ Began(r) /\ index \in Seq(Names)
      /\ began[r].index <= Len(Rows(r)) \/ Refused(r) \/ reply[r].status = "open"
  BY DEF Inv, CallInv, InBatches, Typed
<1>2. Rows(r) \in Seq(Names) /\ Len(Rows(r)) <= Len(index) /\ Rows(r) = SubSeq(index, 1, Len(Rows(r)))
  BY <1>1 DEF Prefix
<1>3. SubSeq(Rows(r), 1, Len(Rows(r))) = Rows(r)
  BY <1>2, SubSeqFull
<1>4. IsPrefix(Rows(r), index)
  BY <1>2, <1>3, Zenon DEF IsPrefix
<1>5. Len(Rows(r)) \in Nat /\ began[r].index \in Nat
  BY <1>1, <1>2 DEF Began
<1> QED
  BY <1>1, <1>4, <1>5 DEF Refused

\* A connection is idle, once, or in the hands of one request, or lost in one of the
\* four known ways: close() in the methods of ObjectRepository, the take of
\* getConnection and checkConnection.
THEOREM ConnectionsAlwaysAccounted == Spec => []ConnectionsAccounted
  BY InvAlways, ConnectionsFollow, PTL

\* What ObjServiceImpl answers is right for a committed state of the objects table
\* during the call, or it is empty for a known reason.
THEOREM AnswersAlwaysGenuine == Spec => []AnswersAreGenuine
  BY InvAlways, AnswersFollow, PTL

\* getIndexRecordInBatches gives every row once, in order, and all that were there
\* when the call began unless a statement failed.
THEOREM BatchesAlwaysComplete == Spec => []BatchesComplete
  BY InvAlways, BatchesFollow, PTL
=============================================================================
