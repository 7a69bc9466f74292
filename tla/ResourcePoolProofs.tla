------------------------- MODULE ResourcePoolProofs -------------------------
(***************************************************************************)
(* Machine-checked proofs about the asynchronous resource pool, for any    *)
(* clients, io_contexts, capacity, timeouts, and number of invalidate().   *)
(***************************************************************************)
EXTENDS ResourcePool, FiniteSetTheorems, SequenceTheorems, WellFoundedInduction, TLAPS

-----------------------------------------------------------------------------
(* Natural numbers and positions in sequences.  What is otherwise an induction
   is an argument about the least counterexample. *)

\* Every nonempty set of natural numbers has a least element.
LEMMA LeastNat ==
    ASSUME NEW T \in SUBSET Nat, T # {}
    PROVE  \E m \in T : \A k \in T : m <= k
<1> DEFINE R == {p \in Nat \X Nat : p[1] < p[2]}
<1>1. IsWellFoundedOn(R, Nat)
  BY NatLessThanWellFounded, Zenon DEF OpToRel
<1>2. \A k, m \in Nat : k < m => <<k, m>> \in R
  OBVIOUS
<1> HIDE DEF R
<1>3. PICK m \in T : \A k \in T : ~(<<k, m>> \in R)
  BY <1>1, WFMin
<1>4. \A k \in T : ~(k < m)
  BY <1>2, <1>3
<1>. QED BY <1>4

\* A set of positions that has all positions before any of its own is the
\* interval up to its cardinality.
LEMMA InitialSegment ==
    ASSUME NEW n \in Nat, NEW D, \A i \in D : i \in 1..n, \A i \in D : \A j \in 1..i : j \in D
    PROVE  Cardinality(D) \in 0..n /\ D = 1..Cardinality(D)
<1> DEFINE T == {k \in Nat : k + 1 \notin D}
<1>1. n \in T
  OBVIOUS
<1>2. PICK m \in T : \A k \in T : m <= k
  <2> HIDE DEF T
  <2>1. T \in SUBSET Nat
    BY DEF T
  <2>. QED BY <1>1, <2>1, LeastNat
<1>3. m \in Nat /\ m <= n /\ m + 1 \notin D
  BY <1>1, <1>2
<1>4. ASSUME NEW i \in 1..m PROVE i \in D
  <2>1. i - 1 \in Nat /\ i - 1 \notin T
    BY <1>2, <1>3, <1>4
  <2>. QED BY <2>1
<1>5. ASSUME NEW i \in D PROVE i \in 1..m
  <2>1. CASE i > m
    <3>1. m + 1 \in 1..i
      BY <1>3, <2>1
    <3>. QED BY <1>3, <3>1
  <2>. QED BY <1>3, <2>1
<1>6. D = 1..m
  BY <1>4, <1>5
<1>7. Cardinality(1..m) = m
  BY <1>3, FS_Interval
<1>. QED BY <1>3, <1>6, <1>7

\* A set numbered from 1 to n without repetition has n elements.
LEMMA Numbered ==
    ASSUME NEW n \in Nat, NEW T, NEW f \in [1..n -> T],
           \A i, j \in 1..n : f[i] = f[j] => i = j, \A x \in T : \E i \in 1..n : f[i] = x
    PROVE  IsFiniteSet(T) /\ Cardinality(T) = n
<1>1. f \in Injection(1..n, T)
  BY DEF Injection, IsInjective
<1>2. f \in Surjection(1..n, T)
  BY DEF Surjection
<1>3. IsFiniteSet(1..n) /\ Cardinality(1..n) = n
  BY FS_Interval
<1>. QED BY <1>1, <1>2, <1>3, FS_Surjection

\* The rank of a position is what it is at the position before, and one more if
\* the position is picked.
LEMMA RankStep ==
    ASSUME NEW N \in Nat, NEW K, \A j \in K : j \in 1..N, NEW i \in Nat
    PROVE  /\ Rank(K, i) \in Nat /\ Rank(K, 0) = 0
           /\ Rank(K, i) <= Cardinality(K) /\ Cardinality(K) \in Nat
           /\ Rank(K, i + 1) = IF i + 1 \in K THEN Rank(K, i) + 1 ELSE Rank(K, i)
<1> DEFINE A(k) == {j \in K : j <= k}
<1>0. \A j \in K : j \in Nat /\ j >= 1
  OBVIOUS
<1>1. IsFiniteSet(K)
  <2>1. IsFiniteSet(1..N)
    BY FS_Interval
  <2>2. K \in SUBSET (1..N)
    OBVIOUS
  <2>. QED BY <2>1, <2>2, FS_Subset
<1>2. \A k : A(k) \in SUBSET K
  OBVIOUS
<1>3. \A k : IsFiniteSet(A(k)) /\ Cardinality(A(k)) <= Cardinality(K)
  <2> SUFFICES ASSUME NEW k PROVE IsFiniteSet(A(k)) /\ Cardinality(A(k)) <= Cardinality(K)
    OBVIOUS
  <2> HIDE DEF A
  <2>. QED BY <1>1, <1>2, FS_Subset
<1>4. \A k : Cardinality(A(k)) \in Nat
  <2> HIDE DEF A
  <2>. QED BY <1>3, FS_CardinalityType
<1>5. Cardinality(K) \in Nat
  BY <1>1, FS_CardinalityType
<1>6. A(0) = {}
  BY <1>0
<1>7. Cardinality(A(0)) = 0
  BY <1>6, FS_EmptySet
<1>8. CASE i + 1 \in K
  <2>1. A(i + 1) = A(i) \cup {i + 1} /\ i + 1 \notin A(i)
    BY <1>0, <1>8
  <2>2. Cardinality(A(i + 1)) = Cardinality(A(i)) + 1
    <3> HIDE DEF A
    <3>. QED BY <1>3, <2>1, FS_AddElement
  <2>. QED BY <1>3, <1>4, <1>5, <1>7, <1>8, <2>2 DEF Rank
<1>9. CASE i + 1 \notin K
  <2>1. A(i + 1) = A(i)
    BY <1>0, <1>9
  <2>. QED BY <1>3, <1>4, <1>5, <1>7, <1>9, <2>1 DEF Rank
<1>. QED BY <1>8, <1>9

\* Ranks grow with the position, up to the number of picked positions.
LEMMA RankMonotone ==
    ASSUME NEW N \in Nat, NEW K, \A j \in K : j \in 1..N, NEW i \in Nat, NEW k \in K, i < k
    PROVE  Rank(K, i) < Rank(K, k)
<1> DEFINE A == {j \in K : j <= i}
           B == {j \in K : j <= k}
<1>0. \A j \in K : j \in Nat /\ j >= 1
  OBVIOUS
<1>1. IsFiniteSet(K)
  <2>1. IsFiniteSet(1..N)
    BY FS_Interval
  <2>2. K \in SUBSET (1..N)
    OBVIOUS
  <2>. QED BY <2>1, <2>2, FS_Subset
<1>2. A \in SUBSET B /\ B \in SUBSET K /\ k \in B /\ k \notin A
  BY <1>0
<1> HIDE DEF A, B
<1>3. IsFiniteSet(B) /\ Cardinality(B) \in Nat
  BY <1>1, <1>2, FS_Subset, FS_CardinalityType
<1>4. Cardinality(A) <= Cardinality(B) /\ Cardinality(A) # Cardinality(B) /\ IsFiniteSet(A)
  BY <1>2, <1>3, FS_Subset
<1>5. Cardinality(A) \in Nat
  BY <1>4, FS_CardinalityType
<1>6. Cardinality(A) < Cardinality(B)
  BY <1>3, <1>4, <1>5
<1>. QED BY <1>6 DEF Rank, A, B

\* The last picked position has the full rank.
LEMMA RankFull ==
    ASSUME NEW N \in Nat, NEW K, \A j \in K : j \in 1..N
    PROVE  Rank(K, N) = Cardinality(K)
<1>1. {j \in K : j <= N} = K
  OBVIOUS
<1>. QED BY <1>1 DEF Rank

\* There is exactly one picked position of each rank from 1 to their number.
LEMMA NthExists ==
    ASSUME NEW N \in Nat, NEW K, \A j \in K : j \in 1..N, NEW n \in 1..Cardinality(K)
    PROVE  Nth(K, n) \in K /\ Rank(K, Nth(K, n)) = n
<1> DEFINE T == {i \in Nat : Rank(K, i) >= n}
<1>0. Cardinality(K) \in Nat /\ n \in Nat /\ n >= 1
  BY RankStep
<1>1. N \in T
  BY <1>0, RankFull
<1>2. PICK m \in T : \A k \in T : m <= k
  <2>1. T \in SUBSET Nat
    OBVIOUS
  <2> HIDE DEF T
  <2>. QED BY <1>1, <2>1, LeastNat
<1>3. m \in Nat /\ Rank(K, m) >= n /\ m # 0
  BY <1>0, <1>2, RankStep
<1>4. m - 1 \in Nat /\ ~(Rank(K, m - 1) >= n)
  BY <1>2, <1>3
<1>5. /\ Rank(K, m - 1) \in Nat /\ Rank(K, m) \in Nat
      /\ Rank(K, m) = IF m \in K THEN Rank(K, m - 1) + 1 ELSE Rank(K, m - 1)
  <2>1. (m - 1) + 1 = m
    BY <1>3
  <2>2. Rank(K, (m - 1) + 1) = IF (m - 1) + 1 \in K THEN Rank(K, m - 1) + 1 ELSE Rank(K, m - 1)
    BY <1>4, RankStep
  <2>3. Rank(K, m - 1) \in Nat /\ Rank(K, m) \in Nat
    BY <1>3, <1>4, RankStep
  <2>. QED BY <2>1, <2>2, <2>3
<1>6. m \in K /\ Rank(K, m) = n
  BY <1>0, <1>3, <1>4, <1>5
<1>. QED BY <1>6 DEF Nth

\* What Selected returns: the picked elements, each once and in their order.
LEMMA SelectedProperties ==
    ASSUME NEW S, NEW q \in Seq(S), NEW K, \A j \in K : j \in DOMAIN q
    PROVE  /\ Selected(q, K) \in Seq(S)
           /\ Len(Selected(q, K)) = Cardinality(K) /\ Cardinality(K) \in 0..Len(q)
           /\ \A n \in 1..Cardinality(K) : Nth(K, n) \in K /\ Selected(q, K)[n] = q[Nth(K, n)]
           /\ \A i \in K : \E n \in 1..Cardinality(K) : Nth(K, n) = i
           /\ \A m, n \in 1..Cardinality(K) : Nth(K, m) = Nth(K, n) => m = n
<1> DEFINE N == Len(q)
<1>1. N \in Nat /\ DOMAIN q = 1..N /\ \A j \in K : j \in 1..N
  BY LenProperties
<1> HIDE DEF N
<1>2. Cardinality(K) \in Nat /\ \A i \in Nat : Rank(K, i) \in Nat
  BY <1>1, RankStep
<1>3. Cardinality(K) <= N
  <2>1. IsFiniteSet(1..N) /\ Cardinality(1..N) = N
    BY <1>1, FS_Interval
  <2>2. K \in SUBSET (1..N)
    BY <1>1
  <2>. QED BY <2>1, <2>2, FS_Subset
<1>4. \A n \in 1..Cardinality(K) : Nth(K, n) \in K /\ Rank(K, Nth(K, n)) = n
  BY <1>1, NthExists
<1>5. ASSUME NEW i \in K PROVE \E n \in 1..Cardinality(K) : Nth(K, n) = i
  <2>0. i \in Nat /\ i >= 1
    BY <1>1
  <2>1. Rank(K, i) \in Nat /\ Rank(K, i) <= Cardinality(K)
    BY <1>1, <2>0, RankStep
  <2>2. Rank(K, 0) = 0 /\ Rank(K, 0) < Rank(K, i)
    <3>1. Rank(K, 0) = 0
      BY <1>1, RankStep
    <3>2. 0 \in Nat /\ 0 < i
      BY <2>0
    <3>. QED BY <1>1, <3>1, <3>2, RankMonotone
  <2>3. Rank(K, i) \in 1..Cardinality(K)
    BY <1>2, <2>1, <2>2
  <2>4. Nth(K, Rank(K, i)) \in K /\ Rank(K, Nth(K, Rank(K, i))) = Rank(K, i)
    BY <1>4, <2>3
  <2>5. ASSUME NEW k \in K, k # i PROVE Rank(K, k) # Rank(K, i)
    <3>1. k \in Nat /\ (k < i \/ i < k)
      BY <1>1, <2>0, <2>5
    <3>2. Rank(K, k) \in Nat
      BY <1>2, <3>1
    <3>3. CASE k < i
      <4>1. Rank(K, k) < Rank(K, i)
        BY <1>1, <3>1, <3>3, RankMonotone
      <4>. QED BY <2>1, <3>2, <4>1
    <3>4. CASE i < k
      <4>1. Rank(K, i) < Rank(K, k)
        BY <1>1, <2>0, <3>4, RankMonotone
      <4>. QED BY <2>1, <3>2, <4>1
    <3>. QED BY <3>1, <3>3, <3>4
  <2>. QED BY <2>3, <2>4, <2>5
<1>6. Selected(q, K) \in [1..Cardinality(K) -> S]
  <2>1. \A i \in K : q[i] \in S
    BY <1>1, ElementOfSeq
  <2>. QED BY <1>4, <2>1 DEF Selected
<1>7. Selected(q, K) \in Seq(S) /\ Len(Selected(q, K)) = Cardinality(K)
  <2>1. Selected(q, K) \in Seq(S)
    <3>1. \E n \in Nat : Selected(q, K) \in [1..n -> S]
      BY <1>2, <1>6
    <3>2. Selected(q, K) \in UNION {[1..n -> S] : n \in Nat}
      BY <3>1, Zenon
    <3>. QED BY <3>2, SeqDef
  <2>2. DOMAIN Selected(q, K) = 1..Cardinality(K)
    BY DEF Selected
  <2>3. DOMAIN Selected(q, K) = 1..Len(Selected(q, K)) /\ Len(Selected(q, K)) \in Nat
    BY <2>1, LenProperties
  <2>. QED BY <1>2, <2>1, <2>2, <2>3
<1>8. \A n \in 1..Cardinality(K) : Selected(q, K)[n] = q[Nth(K, n)]
  BY DEF Selected
<1>9. \A m, n \in 1..Cardinality(K) : Nth(K, m) = Nth(K, n) => m = n
  BY <1>4, Zenon
<1>10. Cardinality(K) \in 0..Len(q)
  BY <1>1, <1>2, <1>3 DEF N
<1>. QED BY <1>4, <1>5, <1>7, <1>8, <1>9, <1>10

-----------------------------------------------------------------------------
Entry == [cell : Cells, drop : Int]
Request == [client : Clients, at : Nat]
Conn == [epoch : Nat, bad : BOOLEAN, txn : BOOLEAN]
Errs == {"ok", "disabled", "get_resource_timeout", "request_queue_overflow"}
PcOf == {"start", "push", "queued", "popped", "posted", "connecting", "using", "handing", "done"}
Req == [cell : Cells \cup {Null}, err : Errs, wait : Nat, start : Nat, epoch : Nat,
        next : Clients \cup {Null}, wipe : BOOLEAN]

\* The types, with the fields of the calls in full.
ClockTypes == now \in Nat /\ disabled \in BOOLEAN /\ epoch \in Nat /\ epoch <= MaxInvalidates
CellTypes ==
    /\ value \in [Cells -> Conn \cup {Null}]
    /\ reset_time \in [Cells -> Int] /\ waste_on_recycle \in [Cells -> BOOLEAN]
ListTypes ==
    /\ available \in Seq(Entry) /\ wasted \in Seq(Cells)
    /\ \A x \in used : x \in Cells
QueueTypes ==
    /\ queue \in Seq(Request)
    /\ timers \in [Contexts -> Nat \cup {Null}] /\ \A t \in expired : t \in Nat
CallTypes == pc \in [Clients -> PcOf] /\ req \in [Clients -> Req]
Types == ClockTypes /\ CellTypes /\ ListTypes /\ QueueTypes /\ CallTypes

\* Where a client's call stands says whether it has a cell.
CallInv ==
    \A c \in Clients :
      /\ pc[c] \in {"start", "push", "queued", "popped", "done"} => req[c].cell = Null
      /\ pc[c] \in {"push", "queued", "popped"} => req[c].err = "ok"
      /\ pc[c] = "posted" => (req[c].err = "ok" <=> req[c].cell # Null)
      /\ pc[c] \in {"connecting", "using", "handing"} => req[c].cell # Null
      /\ pc[c] = "handing" => req[c].next \in Clients /\ pc[req[c].next] = "popped"

\* No two returns hand their cells to the same client.
HandingInv ==
    \A c, d \in Clients :
       pc[c] = "handing" /\ pc[d] = "handing" /\ req[c].next = req[d].next => c = d

\* A cell is idle, empty or in use, and once in the lists: av, wa and us stand for
\* the three.
Partition(av, wa, us) ==
    /\ \A i, j \in DOMAIN av : av[i].cell = av[j].cell => i = j
    /\ \A i, j \in DOMAIN wa : wa[i] = wa[j] => i = j
    /\ \A i \in DOMAIN av : \A j \in DOMAIN wa : av[i].cell # wa[j]
    /\ \A i \in DOMAIN av : av[i].cell \notin us
    /\ \A j \in DOMAIN wa : wa[j] \notin us
    /\ \A x \in Cells : x \in us \/ (\E i \in DOMAIN av : av[i].cell = x)
                                 \/ (\E j \in DOMAIN wa : wa[j] = x)
ListInv == Partition(available, wasted, used)

\* The cells in use are those of the calls, each of one.
OwnerInv ==
    /\ \A x \in Cells : x \in used <=> \E c \in Clients : req[c].cell = x
    /\ \A c, d \in Clients : req[c].cell # Null /\ req[c].cell = req[d].cell => c = d

\* Empty cells have no connection; a client that uses one has one.
ValueInv ==
    /\ \A j \in DOMAIN wasted : value[wasted[j]] = Null
    /\ \A c \in Clients : pc[c] = "using" => value[req[c].cell] # Null
    /\ \A c \in Clients : pc[c] = "connecting" => value[req[c].cell] = Null
    /\ \A x \in Cells : value[x] # Null => value[x].epoch <= epoch

\* The queue has the clients that wait in it, once.
QueueInv ==
    /\ Len(queue) <= QueueCapacity
    /\ \A c \in Clients : pc[c] = "queued" <=> \E i \in DOMAIN queue : queue[i].client = c
    /\ \A i, j \in DOMAIN queue : queue[i].client = queue[j].client => i = j

\* The earliest request has the timer of its own io_context, or a fired one.
TimerInv ==
    queue # <<>> =>
       LET e == queue[Earliest(queue)]
       IN timers[contextOf[e.client]] = e.at \/ e.at \in expired

\* What makes a connection v, opened at the time rt, good for the call r.
Fresh(v, rt, r) ==
    /\ v.epoch >= r.epoch
    /\ rt + Lifespan > r.start \/ rt >= r.start
Clean(v) == ~v.txn /\ ~v.bad

\* An idle connection is clean, of the last epoch and leaves the list before its
\* lifespan ends; one in use that is not of the last epoch is marked; what is
\* on its way to a client is good for it.
CallTimes == \A c \in Clients : req[c].start <= now /\ req[c].epoch <= epoch
IdleSound ==
    \A i \in DOMAIN available :
       LET x == available[i].cell
       IN /\ available[i].drop <= reset_time[x] + Lifespan
          /\ value[x] # Null => Clean(value[x]) /\ value[x].epoch = epoch
UsedSound == \A x \in used : value[x] # Null /\ ~waste_on_recycle[x] => value[x].epoch = epoch
PostedSound ==
    \A c \in Clients :
       LET x == req[c].cell
       IN pc[c] = "posted" /\ x # Null /\ value[x] # Null =>
             Fresh(value[x], reset_time[x], req[c]) /\ Clean(value[x])
UsingSound ==
    \A c \in Clients :
       pc[c] = "using" => Fresh(value[req[c].cell], reset_time[req[c].cell], req[c])
HandingSound ==
    \A c \in Clients :
       LET x == req[c].cell
       IN pc[c] = "handing" /\ ~req[c].wipe /\ value[x] # Null =>
             Fresh(value[x], reset_time[x], req[req[c].next]) /\ Clean(value[x])
SoundInv == CallTimes /\ IdleSound /\ UsedSound /\ PostedSound /\ UsingSound /\ HandingSound

Inv == Types /\ CallInv /\ HandingInv /\ ListInv /\ OwnerInv /\ ValueInv /\ QueueInv /\ TimerInv
       /\ SoundInv

-----------------------------------------------------------------------------
\* The positions and elements of a sequence.
LEMMA SeqFacts ==
    ASSUME NEW S, NEW q \in Seq(S)
    PROVE  /\ Len(q) \in Nat /\ DOMAIN q = 1..Len(q) /\ \A i \in DOMAIN q : q[i] \in S
           /\ q = <<>> <=> Len(q) = 0
  OBVIOUS

\* Intervals from 1 that are equal have the same end.
LEMMA SameInterval == ASSUME NEW m \in Nat, NEW n \in Nat, 1..m = 1..n PROVE m = n
<1>1. m # 0 => m \in 1..n
  OBVIOUS
<1>2. n # 0 => n \in 1..m
  OBVIOUS
<1>. QED BY <1>1, <1>2

\* The elements of the lists and of the queue.
LEMMA ListFacts ==
    ASSUME Types
    PROVE  /\ Len(available) \in Nat /\ DOMAIN available = 1..Len(available)
           /\ \A i \in DOMAIN available : available[i].cell \in Cells /\ available[i].drop \in Int
           /\ Len(wasted) \in Nat /\ DOMAIN wasted = 1..Len(wasted)
           /\ \A i \in DOMAIN wasted : wasted[i] \in Cells
           /\ Len(queue) \in Nat /\ DOMAIN queue = 1..Len(queue) /\ (queue = <<>> <=> Len(queue) = 0)
           /\ \A i \in DOMAIN queue : queue[i].client \in Clients /\ queue[i].at \in Nat
<1>1. available \in Seq(Entry) /\ wasted \in Seq(Cells) /\ queue \in Seq(Request)
  BY DEF Types, ListTypes, QueueTypes
<1>2. /\ Len(available) \in Nat /\ DOMAIN available = 1..Len(available)
      /\ \A i \in DOMAIN available : available[i] \in Entry
  BY <1>1, SeqFacts
<1>3. /\ Len(wasted) \in Nat /\ DOMAIN wasted = 1..Len(wasted)
      /\ \A i \in DOMAIN wasted : wasted[i] \in Cells
  BY <1>1, SeqFacts
<1>4. /\ Len(queue) \in Nat /\ DOMAIN queue = 1..Len(queue) /\ (queue = <<>> <=> Len(queue) = 0)
      /\ \A i \in DOMAIN queue : queue[i] \in Request
  BY <1>1, SeqFacts
<1>5. \A e \in Entry : e.cell \in Cells /\ e.drop \in Int
  BY DEF Entry
<1>6. \A e \in Request : e.client \in Clients /\ e.at \in Nat
  BY DEF Request
<1>. QED BY <1>2, <1>3, <1>4, <1>5, <1>6

-----------------------------------------------------------------------------
(* The queue and its timers. *)

\* A nonempty queue has a request that expires first.
LEMMA EarliestIn ==
    ASSUME NEW q \in Seq(Request), q # <<>>
    PROVE  Earliest(q) \in DOMAIN q
<1> DEFINE T == {q[i].at : i \in DOMAIN q}
<1>0. Len(q) \in Nat /\ Len(q) # 0 /\ DOMAIN q = 1..Len(q) /\ \A i \in DOMAIN q : q[i].at \in Nat
  <2>1. \A e \in Request : e.at \in Nat
    BY DEF Request
  <2>. QED BY <2>1, SeqFacts
<1>1. T \in SUBSET Nat /\ T # {}
  BY <1>0
<1>2. PICK a \in T : \A b \in T : a <= b
  <2> HIDE DEF T
  <2>. QED BY <1>1, LeastNat
<1>3. a \in Nat /\ \A j \in DOMAIN q : a <= q[j].at
  BY <1>0, <1>2
<1> DEFINE U == {i \in DOMAIN q : q[i].at = a}
<1>4. U \in SUBSET Nat /\ U # {}
  BY <1>0, <1>2
<1>5. PICK i \in U : \A j \in U : i <= j
  <2> HIDE DEF U
  <2>. QED BY <1>4, LeastNat
<1>6. i \in DOMAIN q /\ q[i].at = a /\ \A j \in DOMAIN q : q[j].at = a => i <= j
  BY <1>5
<1>7. \A j \in DOMAIN q : q[i].at < q[j].at \/ (q[i].at = q[j].at /\ i <= j)
  BY <1>0, <1>3, <1>6
<1>. QED BY <1>6, <1>7 DEF Earliest

\* Whoever changes the queue arms the timer of the request that is then earliest.
LEMMA SetQueueInv ==
    ASSUME Types, NEW q \in Seq(Request), SetQueue(q)
    PROVE  TimerInv' /\ timers' \in [Contexts -> Nat \cup {Null}] /\ queue' = q
<1>1. CASE q = <<>>
  BY <1>1 DEF SetQueue, update_timer, TimerInv
<1>2. CASE q # <<>>
  <2> DEFINE e == q[Earliest(q)]
  <2>1. e \in Request
    BY <1>2, EarliestIn, SeqFacts
  <2>2. contextOf[e.client] \in Contexts /\ e.at \in Nat
    BY <2>1, PoolAssumption DEF Request
  <2>3. timers' = [timers EXCEPT ![contextOf[e.client]] = e.at] /\ queue' = q
    BY <1>2 DEF SetQueue, update_timer
  <2>4. timers' \in [Contexts -> Nat \cup {Null}] /\ timers'[contextOf[e.client]] = e.at
    <3> HIDE DEF e
    <3>. QED BY <2>2, <2>3 DEF Types, QueueTypes
  <2>5. queue'[Earliest(queue')] = e
    BY <2>3
  <2>. QED BY <2>3, <2>4, <2>5 DEF TimerInv
<1>. QED BY <1>1, <1>2

-----------------------------------------------------------------------------
(* Moving cells between the lists. *)

\* The positions of a sequence that is taken apart or extended.
LEMMA TailFacts ==
    ASSUME NEW S, NEW q \in Seq(S), q # <<>>
    PROVE  /\ Tail(q) \in Seq(S) /\ Head(q) = q[1] /\ 1 \in DOMAIN q
           /\ Len(Tail(q)) = Len(q) - 1
           /\ \A i \in DOMAIN Tail(q) : i + 1 \in DOMAIN q /\ Tail(q)[i] = q[i + 1] /\ i \in Nat /\ i # 0
           /\ \A i \in DOMAIN q : i = 1 \/ (i - 1 \in DOMAIN Tail(q) /\ Tail(q)[i - 1] = q[i])
  OBVIOUS

\* What appending an element does to the positions.
LEMMA AppendFacts ==
    ASSUME NEW S, NEW q \in Seq(S), NEW e \in S
    PROVE  /\ Append(q, e) \in Seq(S)
           /\ \A i \in DOMAIN Append(q, e) :
                 (i \in DOMAIN q /\ Append(q, e)[i] = q[i]) \/ (i = Len(q) + 1 /\ Append(q, e)[i] = e)
           /\ \A i \in DOMAIN q : i \in DOMAIN Append(q, e) /\ Append(q, e)[i] = q[i] /\ i # Len(q) + 1
           /\ Len(q) + 1 \in DOMAIN Append(q, e) /\ Append(q, e)[Len(q) + 1] = e
           /\ Len(Append(q, e)) = Len(q) + 1
  OBVIOUS

\* The first idle cell is taken.
LEMMA TakeIdle ==
    ASSUME NEW av \in Seq(Entry), NEW wa, NEW us, Partition(av, wa, us), av # <<>>
    PROVE  Partition(Tail(av), wa, us \cup {Head(av).cell})
<1>1. /\ Head(av) = av[1] /\ 1 \in DOMAIN av
      /\ \A i \in DOMAIN Tail(av) : i + 1 \in DOMAIN av /\ Tail(av)[i] = av[i + 1] /\ i \in Nat /\ i # 0
      /\ \A i \in DOMAIN av : i = 1 \/ (i - 1 \in DOMAIN Tail(av) /\ Tail(av)[i - 1] = av[i])
  BY TailFacts
<1>2. \A i, j \in DOMAIN Tail(av) : Tail(av)[i].cell = Tail(av)[j].cell => i = j
  <2> TAKE i, j \in DOMAIN Tail(av)
  <2> HAVE Tail(av)[i].cell = Tail(av)[j].cell
  <2>1. i + 1 = j + 1
    BY <1>1 DEF Partition
  <2>. QED BY <1>1, <2>1
<1>3. \A i \in DOMAIN Tail(av) : Tail(av)[i].cell \notin us \cup {Head(av).cell}
  <2> TAKE i \in DOMAIN Tail(av)
  <2>1. i + 1 # 1
    BY <1>1
  <2>. QED BY <1>1, <2>1 DEF Partition
<1>4. \A i \in DOMAIN Tail(av) : \A j \in DOMAIN wa : Tail(av)[i].cell # wa[j]
  BY <1>1 DEF Partition
<1>5. \A j \in DOMAIN wa : wa[j] \notin us \cup {Head(av).cell}
  BY <1>1 DEF Partition
<1>6. ASSUME NEW x \in Cells
      PROVE  \/ x \in us \cup {Head(av).cell} \/ (\E i \in DOMAIN Tail(av) : Tail(av)[i].cell = x)
             \/ (\E j \in DOMAIN wa : wa[j] = x)
  <2>1. CASE \E i \in DOMAIN av : av[i].cell = x
    <3>1. PICK i \in DOMAIN av : av[i].cell = x
      BY <2>1
    <3>2. CASE i = 1
      BY <1>1, <3>1, <3>2
    <3>3. CASE i - 1 \in DOMAIN Tail(av) /\ Tail(av)[i - 1] = av[i]
      BY <3>1, <3>3
    <3>. QED BY <1>1, <3>2, <3>3
  <2>. QED BY <2>1 DEF Partition
<1>. QED BY <1>2, <1>3, <1>4, <1>5, <1>6 DEF Partition

\* The first empty cell is taken.
LEMMA TakeEmpty ==
    ASSUME NEW av, NEW wa \in Seq(Cells), NEW us, Partition(av, wa, us), wa # <<>>
    PROVE  Partition(av, Tail(wa), us \cup {Head(wa)})
<1>1. /\ Head(wa) = wa[1] /\ 1 \in DOMAIN wa
      /\ \A i \in DOMAIN Tail(wa) : i + 1 \in DOMAIN wa /\ Tail(wa)[i] = wa[i + 1] /\ i \in Nat /\ i # 0
      /\ \A i \in DOMAIN wa : i = 1 \/ (i - 1 \in DOMAIN Tail(wa) /\ Tail(wa)[i - 1] = wa[i])
  BY TailFacts
<1>2. \A i, j \in DOMAIN Tail(wa) : Tail(wa)[i] = Tail(wa)[j] => i = j
  <2> TAKE i, j \in DOMAIN Tail(wa)
  <2> HAVE Tail(wa)[i] = Tail(wa)[j]
  <2>1. i + 1 = j + 1
    BY <1>1 DEF Partition
  <2>. QED BY <1>1, <2>1
<1>3. \A i \in DOMAIN Tail(wa) : Tail(wa)[i] \notin us \cup {Head(wa)}
  <2> TAKE i \in DOMAIN Tail(wa)
  <2>1. i + 1 # 1
    BY <1>1
  <2>. QED BY <1>1, <2>1 DEF Partition
<1>4. \A i \in DOMAIN av : \A j \in DOMAIN Tail(wa) : av[i].cell # Tail(wa)[j]
  BY <1>1 DEF Partition
<1>5. \A j \in DOMAIN av : av[j].cell \notin us \cup {Head(wa)}
  BY <1>1 DEF Partition
<1>6. ASSUME NEW x \in Cells
      PROVE  \/ x \in us \cup {Head(wa)} \/ (\E i \in DOMAIN av : av[i].cell = x)
             \/ (\E j \in DOMAIN Tail(wa) : Tail(wa)[j] = x)
  BY <1>1 DEF Partition
<1>. QED BY <1>2, <1>3, <1>4, <1>5, <1>6 DEF Partition

\* A cell in use becomes idle.
LEMMA PutIdle ==
    ASSUME NEW av \in Seq(Entry), NEW wa, NEW us, Partition(av, wa, us), NEW e \in Entry, e.cell \in us
    PROVE  Partition(Append(av, e), wa, us \ {e.cell})
<1> DEFINE q == Append(av, e)
<1>1. /\ \A i \in DOMAIN q : (i \in DOMAIN av /\ q[i] = av[i]) \/ (i = Len(av) + 1 /\ q[i] = e)
      /\ \A i \in DOMAIN av : i \in DOMAIN q /\ q[i] = av[i] /\ i # Len(av) + 1
      /\ Len(av) + 1 \in DOMAIN q /\ q[Len(av) + 1] = e
  BY AppendFacts
<1> HIDE DEF q
<1>2. \A i, j \in DOMAIN q : q[i].cell = q[j].cell => i = j
  BY <1>1 DEF Partition
<1>3. \A i \in DOMAIN q : q[i].cell \notin us \ {e.cell}
  BY <1>1 DEF Partition
<1>4. \A i \in DOMAIN q : \A j \in DOMAIN wa : q[i].cell # wa[j]
  BY <1>1 DEF Partition
<1>5. \A j \in DOMAIN wa : wa[j] \notin us \ {e.cell}
  BY DEF Partition
<1>6. ASSUME NEW x \in Cells
      PROVE  \/ x \in us \ {e.cell} \/ (\E i \in DOMAIN q : q[i].cell = x)
             \/ (\E j \in DOMAIN wa : wa[j] = x)
  BY <1>1 DEF Partition
<1>7. \A i, j \in DOMAIN wa : wa[i] = wa[j] => i = j
  BY DEF Partition
<1>8. Partition(q, wa, us \ {e.cell})
  BY <1>2, <1>3, <1>4, <1>5, <1>6, <1>7 DEF Partition
<1>. QED BY <1>8 DEF q

\* A cell in use becomes empty.
LEMMA PutEmpty ==
    ASSUME NEW av, NEW wa \in Seq(Cells), NEW us, Partition(av, wa, us), NEW x \in Cells, x \in us
    PROVE  Partition(av, Append(wa, x), us \ {x})
<1> DEFINE q == Append(wa, x)
<1>1. /\ \A i \in DOMAIN q : (i \in DOMAIN wa /\ q[i] = wa[i]) \/ (i = Len(wa) + 1 /\ q[i] = x)
      /\ \A i \in DOMAIN wa : i \in DOMAIN q /\ q[i] = wa[i] /\ i # Len(wa) + 1
      /\ Len(wa) + 1 \in DOMAIN q /\ q[Len(wa) + 1] = x
  BY AppendFacts
<1> HIDE DEF q
<1>2. \A i, j \in DOMAIN q : q[i] = q[j] => i = j
  BY <1>1 DEF Partition
<1>3. \A i \in DOMAIN q : q[i] \notin us \ {x}
  BY <1>1 DEF Partition
<1>4. \A i \in DOMAIN av : \A j \in DOMAIN q : av[i].cell # q[j]
  BY <1>1 DEF Partition
<1>5. ASSUME NEW y \in Cells
      PROVE  \/ y \in us \ {x} \/ (\E i \in DOMAIN av : av[i].cell = y)
             \/ (\E j \in DOMAIN q : q[j] = y)
  BY <1>1 DEF Partition
<1>6. \A i, j \in DOMAIN av : av[i].cell = av[j].cell => i = j
  BY DEF Partition
<1>7. \A i \in DOMAIN av : av[i].cell \notin us \ {x}
  BY DEF Partition
<1>8. Partition(av, q, us \ {x})
  BY <1>2, <1>3, <1>4, <1>5, <1>6, <1>7 DEF Partition
<1>. QED BY <1>8 DEF q

\* The first n idle cells become empty.
DroppedFirst(av, n) == [i \in 1..n |-> av[i].cell]

\* The cells of the first n entries, behind a list of cells.
LEMMA DroppedFirstFacts ==
    ASSUME NEW av \in Seq(Entry), NEW wa \in Seq(Cells), NEW n \in Nat, n <= Len(av)
    PROVE  /\ wa \o DroppedFirst(av, n) \in Seq(Cells)
           /\ Len(wa \o DroppedFirst(av, n)) = Len(wa) + n
           /\ \A i \in 1..Len(wa) : (wa \o DroppedFirst(av, n))[i] = wa[i]
           /\ \A i \in 1..n : (wa \o DroppedFirst(av, n))[Len(wa) + i] = av[i].cell
           /\ \A i \in 1..(Len(wa) + n) :
                 \/ i \in 1..Len(wa) /\ (wa \o DroppedFirst(av, n))[i] = wa[i]
                 \/ /\ i - Len(wa) \in 1..n
                    /\ (wa \o DroppedFirst(av, n))[i] = av[i - Len(wa)].cell
<1> DEFINE dropped == DroppedFirst(av, n)
<1>0. /\ Len(wa) \in Nat /\ Len(av) \in Nat
      /\ \A i \in 1..Len(av) : av[i].cell \in Cells
  <2>1. \A e \in Entry : e.cell \in Cells
    BY DEF Entry
  <2>. QED BY <2>1, SeqFacts
<1>2. dropped \in [1..n -> Cells]
  BY <1>0 DEF DroppedFirst
<1>3. dropped \in Seq(Cells)
  <2>1. \E m \in Nat : dropped \in [1..m -> Cells]
    BY <1>2
  <2>2. dropped \in UNION {[1..m -> Cells] : m \in Nat}
    BY <2>1, Zenon
  <2>. QED BY <2>2, SeqDef
<1>4. Len(dropped) = n
  <2>1. DOMAIN dropped = 1..Len(dropped) /\ Len(dropped) \in Nat
    BY <1>3, LenProperties
  <2>2. DOMAIN dropped = 1..n
    BY DEF DroppedFirst
  <2> DEFINE m == Len(dropped)
  <2>3. m \in Nat /\ 1..m = 1..n
    BY <2>1, <2>2
  <2> HIDE DEF m
  <2>4. m = n
    BY <2>3, SameInterval
  <2>. QED BY <2>4 DEF m
<1>5. \A i \in 1..n : dropped[i] = av[i].cell
  BY DEF DroppedFirst
<1> HIDE DEF dropped
<1>6. /\ wa \o dropped \in Seq(Cells) /\ Len(wa \o dropped) = Len(wa) + n
      /\ \A i \in 1..(Len(wa) + n) :
            (wa \o dropped)[i] = IF i <= Len(wa) THEN wa[i] ELSE dropped[i - Len(wa)]
  BY <1>3, <1>4, ConcatProperties
<1>7. /\ \A i \in 1..Len(wa) : (wa \o dropped)[i] = wa[i]
      /\ \A i \in 1..n : (wa \o dropped)[Len(wa) + i] = av[i].cell
  BY <1>0, <1>5, <1>6
<1>8. \A i \in 1..(Len(wa) + n) :
            \/ i \in 1..Len(wa) /\ (wa \o dropped)[i] = wa[i]
            \/ i - Len(wa) \in 1..n /\ (wa \o dropped)[i] = av[i - Len(wa)].cell
  BY <1>0, <1>5, <1>6
<1>. QED BY <1>6, <1>7, <1>8 DEF dropped

\* The sequence from position n + 1 on.
LEMMA SubSeqFacts ==
    ASSUME NEW S, NEW av \in Seq(S), NEW n \in Nat, n <= Len(av)
    PROVE  /\ SubSeq(av, n + 1, Len(av)) \in Seq(S)
           /\ Len(SubSeq(av, n + 1, Len(av))) = Len(av) - n
           /\ \A i \in 1..(Len(av) - n) : SubSeq(av, n + 1, Len(av))[i] = av[n + i]
<1> DEFINE p == SubSeq(av, n + 1, Len(av))
<1>1. Len(av) \in Nat /\ \A i \in (n + 1)..Len(av) : av[i] \in S
  BY SeqFacts
<1>2. /\ p \in Seq(S)
      /\ Len(p) = IF n + 1 <= Len(av) THEN Len(av) - (n + 1) + 1 ELSE 0
      /\ \A i \in 1..(Len(av) - (n + 1) + 1) : p[i] = av[(n + 1) + i - 1]
  BY <1>1, SubSeqProperties
<1> HIDE DEF p
<1>3. \A i \in 1..(Len(av) - n) : (n + 1) + i - 1 = n + i
  BY <1>1
<1>4. Len(av) - (n + 1) + 1 = Len(av) - n
  BY <1>1
<1>5. p \in Seq(S) /\ Len(p) = Len(av) - n /\ \A i \in 1..(Len(av) - n) : p[i] = av[n + i]
  <2>1. p \in Seq(S) /\ Len(p) = Len(av) - n
    BY <1>1, <1>2
  <2>2. ASSUME NEW i \in 1..(Len(av) - n) PROVE p[i] = av[n + i]
    <3>1. i \in 1..(Len(av) - (n + 1) + 1)
      BY <1>4
    <3>2. p[i] = av[(n + 1) + i - 1]
      BY <1>2, <3>1
    <3>. QED BY <1>3, <3>2
  <2>. QED BY <2>1, <2>2
<1>. QED BY <1>5 DEF p

\* The first n idle cells become empty, in one step.
LEMMA DropFirst ==
    ASSUME NEW av \in Seq(Entry), NEW wa \in Seq(Cells), NEW us, Partition(av, wa, us),
           NEW n \in Nat, n <= Len(av)
    PROVE  Partition(SubSeq(av, n + 1, Len(av)), wa \o DroppedFirst(av, n), us)
<1> DEFINE p == SubSeq(av, n + 1, Len(av))
           q == wa \o DroppedFirst(av, n)
<1>0. Len(av) \in Nat /\ DOMAIN av = 1..Len(av) /\ Len(wa) \in Nat /\ DOMAIN wa = 1..Len(wa)
  BY SeqFacts
<1>1. /\ p \in Seq(Entry) /\ Len(p) = Len(av) - n /\ \A i \in 1..(Len(av) - n) : p[i] = av[n + i]
  BY SubSeqFacts
<1>2. /\ q \in Seq(Cells) /\ Len(q) = Len(wa) + n
      /\ \A i \in 1..Len(wa) : q[i] = wa[i]
      /\ \A i \in 1..n : q[Len(wa) + i] = av[i].cell
      /\ \A i \in 1..(Len(wa) + n) : \/ i \in 1..Len(wa) /\ q[i] = wa[i]
                                     \/ i - Len(wa) \in 1..n /\ q[i] = av[i - Len(wa)].cell
  BY DroppedFirstFacts
<1> HIDE DEF p, q
<1>3. DOMAIN p = 1..(Len(av) - n) /\ DOMAIN q = 1..(Len(wa) + n)
  BY <1>1, <1>2, SeqFacts
<1>4. \A i \in DOMAIN p : n + i \in DOMAIN av /\ p[i] = av[n + i] /\ i \in Nat /\ n + i > n
  BY <1>0, <1>1, <1>3
<1>5. ASSUME NEW i \in DOMAIN p, NEW j \in DOMAIN p, p[i].cell = p[j].cell PROVE i = j
  <2>1. n + i = n + j
    BY <1>4, <1>5 DEF Partition
  <2>. QED BY <1>4, <2>1
<1>6. ASSUME NEW i \in DOMAIN q, NEW j \in DOMAIN q, q[i] = q[j] PROVE i = j
  <2>0. i \in Nat /\ j \in Nat
    BY <1>0, <1>3
  <2>1. CASE i \in DOMAIN wa /\ q[i] = wa[i] /\ j \in DOMAIN wa /\ q[j] = wa[j]
    BY <1>6, <2>1 DEF Partition
  <2>2. CASE /\ i - Len(wa) \in DOMAIN av /\ q[i] = av[i - Len(wa)].cell
             /\ j - Len(wa) \in DOMAIN av /\ q[j] = av[j - Len(wa)].cell
    <3>1. i - Len(wa) = j - Len(wa)
      BY <1>6, <2>2 DEF Partition
    <3>. QED BY <1>0, <2>0, <3>1
  <2>3. CASE /\ i - Len(wa) \in DOMAIN av /\ q[i] = av[i - Len(wa)].cell
             /\ j \in DOMAIN wa /\ q[j] = wa[j]
    <3>1. av[i - Len(wa)].cell # wa[j]
      BY <2>3 DEF Partition
    <3>. QED BY <1>6, <2>3, <3>1
  <2>4. CASE /\ i \in DOMAIN wa /\ q[i] = wa[i]
             /\ j - Len(wa) \in DOMAIN av /\ q[j] = av[j - Len(wa)].cell
    BY <1>6, <2>4 DEF Partition
  <2>5. \A k \in 1..n : k \in DOMAIN av
    BY <1>0
  <2>6. \A k \in DOMAIN q : \/ k \in DOMAIN wa /\ q[k] = wa[k]
                            \/ k - Len(wa) \in DOMAIN av /\ q[k] = av[k - Len(wa)].cell
    BY <1>0, <1>2, <1>3, <2>5
  <2>. QED BY <2>1, <2>2, <2>3, <2>4, <2>6
<1>7. ASSUME NEW i \in DOMAIN p, NEW j \in DOMAIN q PROVE p[i].cell # q[j]
  <2>1. CASE j \in DOMAIN wa /\ q[j] = wa[j]
    BY <1>4, <2>1 DEF Partition
  <2>2. CASE j - Len(wa) \in 1..n /\ q[j] = av[j - Len(wa)].cell
    <3>1. j - Len(wa) \in DOMAIN av /\ j - Len(wa) # n + i
      BY <1>0, <1>4, <2>2
    <3>. QED BY <1>4, <2>2, <3>1 DEF Partition
  <2>. QED BY <1>0, <1>2, <1>3, <2>1, <2>2
<1>8. \A i \in DOMAIN p : p[i].cell \notin us
  BY <1>4 DEF Partition
<1>9. ASSUME NEW j \in DOMAIN q PROVE q[j] \notin us
  <2>1. CASE j \in DOMAIN wa /\ q[j] = wa[j]
    BY <2>1 DEF Partition
  <2>2. CASE j - Len(wa) \in 1..n /\ q[j] = av[j - Len(wa)].cell
    <3>1. j - Len(wa) \in DOMAIN av
      BY <1>0, <2>2
    <3>. QED BY <2>2, <3>1 DEF Partition
  <2>. QED BY <1>0, <1>2, <1>3, <2>1, <2>2
<1>10. ASSUME NEW x \in Cells
       PROVE  x \in us \/ (\E i \in DOMAIN p : p[i].cell = x) \/ (\E j \in DOMAIN q : q[j] = x)
  <2>1. CASE \E i \in DOMAIN av : av[i].cell = x
    <3>1. PICK i \in DOMAIN av : av[i].cell = x
      BY <2>1
    <3>2. CASE i <= n
      <4>1. Len(wa) + i \in DOMAIN q /\ q[Len(wa) + i] = x
        BY <1>0, <1>2, <1>3, <3>1, <3>2
      <4>. QED BY <4>1
    <3>3. CASE i > n
      <4>1. i - n \in DOMAIN p /\ n + (i - n) = i
        BY <1>0, <1>3, <3>3
      <4>. QED BY <1>4, <3>1, <4>1
    <3>. QED BY <1>0, <3>2, <3>3
  <2>2. CASE \E j \in DOMAIN wa : wa[j] = x
    <3>1. PICK j \in DOMAIN wa : wa[j] = x
      BY <2>2
    <3>2. j \in DOMAIN q /\ q[j] = x
      BY <1>0, <1>2, <1>3, <3>1
    <3>. QED BY <3>2
  <2>. QED BY <2>1, <2>2 DEF Partition
<1>11. Partition(p, q, us)
  BY <1>5, <1>6, <1>7, <1>8, <1>9, <1>10 DEF Partition
<1>. QED BY <1>11 DEF p, q

-----------------------------------------------------------------------------
(* Leasing a cell. *)

Drops == Cardinality(Dropped)

\* lease() drops a prefix of the idle cells and stops at one whose time has not
\* come.
LEMMA DroppedPrefix ==
    ASSUME Types
    PROVE  /\ Drops \in Nat /\ Drops <= Len(available) /\ Dropped = 1..Drops
           /\ Drops < Len(available) => available[Drops + 1].drop > now
<1>0. /\ Len(available) \in Nat /\ DOMAIN available = 1..Len(available) /\ now \in Nat
      /\ \A i \in DOMAIN available : available[i].drop \in Int
  BY ListFacts DEF Types, ClockTypes
<1>1. \A i \in Dropped : i \in 1..Len(available)
  BY <1>0 DEF Dropped
<1>2. \A i \in Dropped : \A j \in 1..i : j \in Dropped
  BY <1>0 DEF Dropped
<1>3. Drops \in 0..Len(available) /\ Dropped = 1..Drops
  BY <1>0, <1>1, <1>2, InitialSegment DEF Drops
<1>4. ASSUME Drops < Len(available) PROVE available[Drops + 1].drop > now
  <2>1. Drops + 1 \in DOMAIN available /\ Drops + 1 \notin Dropped
    BY <1>0, <1>3, <1>4
  <2>2. \A j \in 1..Drops : available[j].drop <= now
    BY <1>0, <1>3 DEF Dropped
  <2>3. PICK j \in 1..(Drops + 1) : ~(available[j].drop <= now)
    BY <2>1 DEF Dropped
  <2>4. j = Drops + 1
    BY <1>3, <2>2, <2>3
  <2>. QED BY <1>0, <2>1, <2>3, <2>4
<1>. QED BY <1>0, <1>3, <1>4


\* What lease() leaves in the lists, and which cell it takes.
LEMMA LeaseFacts ==
    ASSUME Types, ListInv
    PROVE  /\ Lease.available \in Seq(Entry) /\ Lease.wasted \in Seq(Cells)
           /\ Lease.cell \in Cells \cup {Null} /\ Lease.fresh \in BOOLEAN
           /\ Lease.cell # Null => Partition(Lease.available, Lease.wasted, used \cup {Lease.cell})
           /\ Lease.cell = Null => Partition(Lease.available, Lease.wasted, used)
           /\ \A i \in DOMAIN Lease.available : \E j \in DOMAIN available :
                 j \notin Dropped /\ Lease.available[i] = available[j]
           /\ \A i \in DOMAIN Lease.wasted : \/ \E j \in DOMAIN wasted : Lease.wasted[i] = wasted[j]
                                             \/ \E j \in Dropped : Lease.wasted[i] = available[j].cell
           /\ Lease.cell # Null /\ ~Lease.fresh => \E j \in DOMAIN available :
                 j \notin Dropped /\ Lease.cell = available[j].cell /\ available[j].drop > now
           /\ Lease.cell # Null /\ Lease.fresh => \/ \E j \in DOMAIN wasted : Lease.cell = wasted[j]
                                                  \/ \E j \in Dropped : Lease.cell = available[j].cell
<1> DEFINE n == Drops
<1>0. /\ Len(available) \in Nat /\ DOMAIN available = 1..Len(available)
      /\ Len(wasted) \in Nat /\ DOMAIN wasted = 1..Len(wasted)
      /\ available \in Seq(Entry) /\ wasted \in Seq(Cells)
  BY ListFacts DEF Types, ListTypes
<1>1. /\ n \in Nat /\ n <= Len(available) /\ Dropped = 1..n
      /\ n < Len(available) => available[n + 1].drop > now
  BY DroppedPrefix
<1>2. Kept = SubSeq(available, n + 1, Len(available)) /\ WastedByLease = wasted \o DroppedFirst(available, n)
  BY DEF Kept, WastedByLease, DroppedFirst, Drops
<1> HIDE DEF n
<1>3. /\ Kept \in Seq(Entry) /\ Len(Kept) = Len(available) - n
      /\ \A i \in 1..(Len(available) - n) : Kept[i] = available[n + i]
  BY <1>0, <1>1, <1>2, SubSeqFacts
<1>4. /\ WastedByLease \in Seq(Cells) /\ Len(WastedByLease) = Len(wasted) + n
      /\ \A i \in 1..(Len(wasted) + n) :
            \/ i \in 1..Len(wasted) /\ WastedByLease[i] = wasted[i]
            \/ i - Len(wasted) \in 1..n /\ WastedByLease[i] = available[i - Len(wasted)].cell
  <2> DEFINE q == wasted \o DroppedFirst(available, n)
  <2>1. /\ q \in Seq(Cells) /\ Len(q) = Len(wasted) + n
        /\ \A i \in 1..(Len(wasted) + n) :
              \/ i \in 1..Len(wasted) /\ q[i] = wasted[i]
              \/ i - Len(wasted) \in 1..n /\ q[i] = available[i - Len(wasted)].cell
    BY <1>0, <1>1, DroppedFirstFacts
  <2> HIDE DEF q
  <2>2. WastedByLease = q
    BY <1>2 DEF q
  <2>. QED BY <2>1, <2>2
<1>5. Partition(Kept, WastedByLease, used)
  BY <1>0, <1>1, <1>2, DropFirst DEF ListInv
<1>6. /\ Len(Kept) \in Nat /\ DOMAIN Kept = 1..Len(Kept) /\ (Kept = <<>> <=> Len(Kept) = 0)
      /\ Len(WastedByLease) \in Nat /\ DOMAIN WastedByLease = 1..Len(WastedByLease)
      /\ \A i \in DOMAIN WastedByLease : WastedByLease[i] \in Cells
      /\ \A i \in DOMAIN Kept : Kept[i].cell \in Cells
  <2>1. \A e \in Entry : e.cell \in Cells
    BY DEF Entry
  <2>. QED BY <1>3, <1>4, <2>1, SeqFacts
<1>7. \A i \in DOMAIN Kept : \E j \in DOMAIN available : j \notin Dropped /\ Kept[i] = available[j]
  <2> TAKE i \in DOMAIN Kept
  <2>1. i \in 1..(Len(available) - n)
    BY <1>3, <1>6
  <2>2. n + i \in 1..Len(available) /\ n + i \notin 1..n
    BY <1>0, <1>1, <2>1
  <2>3. Kept[i] = available[n + i]
    BY <1>3, <2>1
  <2>. QED BY <1>0, <1>1, <2>2, <2>3
<1>8. \A i \in DOMAIN WastedByLease : \/ \E j \in DOMAIN wasted : WastedByLease[i] = wasted[j]
                                      \/ \E j \in Dropped : WastedByLease[i] = available[j].cell
  BY <1>0, <1>1, <1>4, <1>6
<1>9. CASE Kept # <<>>
  <2>1. Lease = [cell |-> Head(Kept).cell, available |-> Tail(Kept), wasted |-> WastedByLease, fresh |-> FALSE]
    BY <1>9 DEF Lease
  <2>2. /\ Tail(Kept) \in Seq(Entry) /\ Head(Kept) = Kept[1] /\ 1 \in DOMAIN Kept
        /\ \A i \in DOMAIN Tail(Kept) : i + 1 \in DOMAIN Kept /\ Tail(Kept)[i] = Kept[i + 1]
    BY <1>3, <1>9, TailFacts
  <2>3. n < Len(available) /\ Kept[1] = available[n + 1] /\ n + 1 \in DOMAIN available /\ n + 1 \notin Dropped
    <3>1. Len(available) - n # 0
      BY <1>3, <1>6, <1>9
    <3>0. n \in Nat /\ n <= Len(available) /\ Len(available) \in Nat
      BY <1>0, <1>1
    <3>4. n < Len(available)
      BY <3>0, <3>1
    <3>5. 1 \in 1..(Len(available) - n) /\ n + 1 \in 1..Len(available)
      BY <3>0, <3>4
    <3>6. n + 1 \notin 1..n
      BY <3>0
    <3>2. n < Len(available) /\ 1 \in 1..(Len(available) - n) /\ n + 1 \in 1..Len(available) /\ n + 1 \notin 1..n
      BY <3>4, <3>5, <3>6
    <3>3. Kept[1] = available[n + 1]
      BY <1>3, <3>2
    <3>. QED BY <1>0, <1>1, <3>2, <3>3
  <2>4. Partition(Tail(Kept), WastedByLease, used \cup {Head(Kept).cell})
    BY <1>3, <1>5, <1>9, TakeIdle
  <2>5. Head(Kept).cell \in Cells
    BY <1>6, <2>2
  <2>6. Head(Kept).cell # Null
    BY <2>5, PoolAssumption DEF Cells
  <2>7. \A i \in DOMAIN Tail(Kept) : \E j \in DOMAIN available : j \notin Dropped /\ Tail(Kept)[i] = available[j]
    BY <1>7, <2>2
  <2>8. \E j \in DOMAIN available :
           j \notin Dropped /\ Head(Kept).cell = available[j].cell /\ available[j].drop > now
    BY <1>1, <2>2, <2>3
  <2>. QED BY <1>4, <1>8, <2>1, <2>2, <2>4, <2>5, <2>6, <2>7, <2>8
<1>10. CASE Kept = <<>> /\ WastedByLease # <<>>
  <2>1. Lease = [cell |-> Head(WastedByLease), available |-> <<>>, wasted |-> Tail(WastedByLease), fresh |-> TRUE]
    BY <1>10 DEF Lease
  <2>2. /\ Tail(WastedByLease) \in Seq(Cells) /\ Head(WastedByLease) = WastedByLease[1] /\ 1 \in DOMAIN WastedByLease
        /\ \A i \in DOMAIN Tail(WastedByLease) :
              i + 1 \in DOMAIN WastedByLease /\ Tail(WastedByLease)[i] = WastedByLease[i + 1]
    BY <1>4, <1>10, TailFacts
  <2>4. Partition(<<>>, Tail(WastedByLease), used \cup {Head(WastedByLease)})
    BY <1>4, <1>5, <1>10, TakeEmpty
  <2>5. Head(WastedByLease) \in Cells
    BY <1>6, <2>2
  <2>6. Head(WastedByLease) # Null
    BY <2>5, PoolAssumption DEF Cells
  <2>7. \A i \in DOMAIN Tail(WastedByLease) :
           \/ \E j \in DOMAIN wasted : Tail(WastedByLease)[i] = wasted[j]
           \/ \E j \in Dropped : Tail(WastedByLease)[i] = available[j].cell
    BY <1>8, <2>2
  <2>8. \/ \E j \in DOMAIN wasted : Head(WastedByLease) = wasted[j]
        \/ \E j \in Dropped : Head(WastedByLease) = available[j].cell
    BY <1>8, <2>2
  <2>9. <<>> \in Seq(Entry) /\ DOMAIN <<>> = {}
    OBVIOUS
  <2>. QED BY <2>1, <2>2, <2>4, <2>5, <2>6, <2>7, <2>8, <2>9
<1>11. CASE Kept = <<>> /\ WastedByLease = <<>>
  <2>1. Lease = [cell |-> Null, available |-> <<>>, wasted |-> <<>>, fresh |-> FALSE]
    BY <1>11 DEF Lease
  <2>2. <<>> \in Seq(Entry) /\ <<>> \in Seq(Cells) /\ DOMAIN <<>> = {}
    OBVIOUS
  <2>. QED BY <1>5, <1>11, <2>1, <2>2
<1>. QED BY <1>9, <1>10, <1>11

-----------------------------------------------------------------------------
(* The steps.  A step keeps what it leaves alone: these say so once for the    *)
(* conjuncts that speak of several variables.                                 *)

\* A call record changed in one field is a call record.
LEMMA ReqFacts ==
    ASSUME NEW r \in Req
    PROVE  /\ r.cell \in Cells \cup {Null} /\ r.err \in Errs /\ r.wait \in Nat /\ r.start \in Nat
           /\ r.epoch \in Nat /\ r.next \in Clients \cup {Null} /\ r.wipe \in BOOLEAN
           /\ \A err \in Errs : Refused(r, err) \in Req /\ Refused(r, err).err = err
                                /\ Refused(r, err).cell = r.cell /\ Refused(r, err).start = r.start
                                /\ Refused(r, err).epoch = r.epoch /\ Refused(r, err).next = r.next
           /\ \A x \in Cells : Served(r, x) \in Req /\ Served(r, x).err = r.err
                                /\ Served(r, x).cell = x /\ Served(r, x).start = r.start
                                /\ Served(r, x).epoch = r.epoch /\ Served(r, x).next = r.next
           /\ \A w \in Nat : [r EXCEPT !.wait = w] \in Req
           /\ \A d \in Clients, b \in BOOLEAN : [r EXCEPT !.next = d, !.wipe = b] \in Req
<1>1. /\ r.cell \in Cells \cup {Null} /\ r.err \in Errs /\ r.wait \in Nat /\ r.start \in Nat
      /\ r.epoch \in Nat /\ r.next \in Clients \cup {Null} /\ r.wipe \in BOOLEAN
  BY DEF Req
<1>2. \A err \in Errs : Refused(r, err) \in Req /\ Refused(r, err).err = err
                                /\ Refused(r, err).cell = r.cell /\ Refused(r, err).start = r.start
                                /\ Refused(r, err).epoch = r.epoch /\ Refused(r, err).next = r.next
  BY DEF Req, Refused
<1>3. \A x \in Cells : Served(r, x) \in Req /\ Served(r, x).err = r.err
                                /\ Served(r, x).cell = x /\ Served(r, x).start = r.start
                                /\ Served(r, x).epoch = r.epoch /\ Served(r, x).next = r.next
  BY DEF Req, Served
<1>4. \A w \in Nat : [r EXCEPT !.wait = w] \in Req
  BY DEF Req
<1>5. \A d \in Clients, b \in BOOLEAN : [r EXCEPT !.next = d, !.wipe = b] \in Req
  BY DEF Req
<1>. QED BY <1>1, <1>2, <1>3, <1>4, <1>5

\* The empty call record.
LEMMA NoReqFacts ==
    /\ NoReq \in Req /\ NoReq.cell = Null /\ NoReq.err = "ok" /\ NoReq.start = 0 /\ NoReq.epoch = 0
    /\ NoReq.next = Null
  BY DEF NoReq, Req, Errs

\* Null is no cell.
LEMMA NullFacts == Null \notin Cells /\ Null \notin Clients /\ Null \notin Conn
  BY PoolAssumption DEF Cells, Conn

\* A step that leaves the queue, its timers and the fired ones alone.
LEMMA SameTimers == ASSUME TimerInv, UNCHANGED <<queue, timers, expired>> PROVE TimerInv'
<1>1. queue'[Earliest(queue')] = queue[Earliest(queue)]
  OBVIOUS
<1>. QED BY <1>1 DEF TimerInv

\* The clock runs.
LEMMA TickInv == ASSUME Inv, Tick PROVE Inv'
<1> USE DEF Inv
<1>1. UNCHANGED <<disabled, cellVars, listVars, queueVars, expired, pc, req, epoch>> /\ now' = now + 1
  BY DEF Tick
<1>2. Types'
  BY <1>1 DEF Types, ClockTypes, CellTypes, ListTypes, QueueTypes, CallTypes, cellVars, listVars, queueVars
<1>3. (CallInv /\ HandingInv)'
  BY <1>1 DEF CallInv, HandingInv
<1>4. (ListInv /\ OwnerInv)'
  BY <1>1 DEF ListInv, Partition, OwnerInv, listVars
<1>5. ValueInv'
  BY <1>1 DEF ValueInv, listVars, cellVars
<1>6. (QueueInv /\ TimerInv)'
  BY <1>1, SameTimers DEF QueueInv, queueVars
<1>7. SoundInv'
  <2>1. \A c \in Clients : req[c] \in Req
    BY DEF Types, CallTypes
  <2>2. \A c \in Clients : req[c].start \in Nat
    BY <2>1, ReqFacts
  <2>3. \A c \in Clients : req'[c].start <= now' /\ req'[c].epoch <= epoch'
    BY <1>1, <2>2 DEF SoundInv, CallTimes, Types, ClockTypes
  <2>. QED BY <1>1, <2>3 DEF SoundInv, CallTimes, IdleSound, UsedSound, PostedSound, UsingSound, HandingSound, listVars, cellVars
<1>. QED BY <1>2, <1>3, <1>4, <1>5, <1>6, <1>7

\* A timer fires: its time passes to the callback that is on its way.
LEMMA TimerFiresInv == ASSUME Inv, NEW io \in Contexts, timer_fires(io) PROVE Inv'
<1> USE DEF Inv
<1>1. /\ UNCHANGED <<now, disabled, cellVars, listVars, queue, pc, req, epoch>>
      /\ timers[io] # Null /\ expired' = expired \cup {timers[io]}
      /\ timers' = [timers EXCEPT ![io] = Null]
  BY DEF timer_fires
<1>2. Types'
  <2>1. timers' \in [Contexts -> Nat \cup {Null}] /\ \A t \in expired' : t \in Nat
    BY <1>1 DEF Types, QueueTypes
  <2>. QED BY <1>1, <2>1 DEF Types, ClockTypes, CellTypes, ListTypes, QueueTypes, CallTypes, cellVars, listVars
<1>3. (CallInv /\ HandingInv)'
  BY <1>1 DEF CallInv, HandingInv
<1>4. (ListInv /\ OwnerInv)'
  BY <1>1 DEF ListInv, Partition, OwnerInv, listVars
<1>5. ValueInv'
  BY <1>1 DEF ValueInv, listVars, cellVars
<1>6. QueueInv'
  BY <1>1 DEF QueueInv
<1>7. TimerInv'
  <2>1. CASE queue # <<>>
    <3> DEFINE e == queue[Earliest(queue)]
    <3>1. queue'[Earliest(queue')] = e
      BY <1>1
    <3>2. e \in Request
      BY <2>1, EarliestIn, SeqFacts DEF Types, QueueTypes
    <3>3. contextOf[e.client] \in Contexts
      BY <3>2, PoolAssumption DEF Request
    <3>4. timers[contextOf[e.client]] = e.at \/ e.at \in expired
      BY <2>1 DEF TimerInv
    <3> HIDE DEF e
    <3>5. timers'[contextOf[e.client]] = e.at \/ e.at \in expired'
      BY <1>1, <3>3, <3>4 DEF Types, QueueTypes
    <3>. QED BY <3>1, <3>5 DEF TimerInv
  <2>. QED BY <1>1, <2>1 DEF TimerInv
<1>8. SoundInv'
  BY <1>1 DEF SoundInv, CallTimes, IdleSound, UsedSound, PostedSound, UsingSound, HandingSound, listVars, cellVars
<1>. QED BY <1>2, <1>3, <1>4, <1>5, <1>6, <1>7, <1>8

\* A completion runs.
LEMMA DeliverInv == ASSUME Inv, NEW c \in Clients, deliver(c) PROVE Inv'
<1> USE DEF Inv
<1>1. /\ UNCHANGED <<now, disabled, cellVars, listVars, queueVars, expired, epoch>>
      /\ pc[c] = "posted"
  BY DEF deliver
<1>2. \A d \in Clients : req[d] \in Req /\ pc[d] \in PcOf
  BY DEF Types, CallTypes
<1>3. \/ /\ req[c].err # "ok" /\ req[c].cell = Null
         /\ pc' = [pc EXCEPT ![c] = "done"] /\ req' = [req EXCEPT ![c] = NoReq]
      \/ /\ req[c].err = "ok" /\ req[c].cell # Null /\ Reusable(value[req[c].cell])
         /\ pc' = [pc EXCEPT ![c] = "using"] /\ req' = req
      \/ /\ req[c].err = "ok" /\ req[c].cell # Null /\ value[req[c].cell] = Null
         /\ pc' = [pc EXCEPT ![c] = "connecting"] /\ req' = req
  BY <1>1 DEF deliver, CallInv, SoundInv, PostedSound, Clean, Reusable
<1>4. pc' \in [Clients -> PcOf] /\ req' \in [Clients -> Req]
  BY <1>3, NoReqFacts DEF Types, CallTypes, PcOf
<1>5. \A d \in Clients : d # c => pc'[d] = pc[d] /\ req'[d] = req[d]
  BY <1>3, <1>4 DEF Types, CallTypes
<1>6. /\ pc'[c] \in {"done", "using", "connecting"} /\ req'[c].cell = req[c].cell
      /\ pc'[c] = "done" <=> req[c].cell = Null
      /\ pc'[c] = "using" => value[req[c].cell] # Null
      /\ pc'[c] = "connecting" => value[req[c].cell] = Null
      /\ pc'[c] # "done" => req'[c] = req[c]
      /\ pc'[c] = "done" => req'[c] = NoReq
  BY <1>3, <1>4, NoReqFacts DEF Types, CallTypes, Reusable
<1>7. Types'
  BY <1>1, <1>4 DEF Types, ClockTypes, CellTypes, ListTypes, QueueTypes, CallTypes, cellVars, listVars, queueVars
<1>8. (CallInv /\ HandingInv)'
  <2>1. CallInv'
    BY <1>1, <1>5, <1>6 DEF CallInv
  <2>2. HandingInv'
    BY <1>5, <1>6 DEF HandingInv
  <2>. QED BY <2>1, <2>2
<1>9. (ListInv /\ OwnerInv)'
  <2>1. \A d \in Clients : req'[d].cell = req[d].cell
    BY <1>5, <1>6
  <2>. QED BY <1>1, <2>1 DEF ListInv, Partition, OwnerInv, listVars
<1>10. ValueInv'
  BY <1>1, <1>5, <1>6 DEF ValueInv, listVars, cellVars
<1>11. (QueueInv /\ TimerInv)'
  <2>1. QueueInv'
    BY <1>1, <1>5, <1>6 DEF QueueInv, queueVars
  <2>. QED BY <1>1, <2>1, SameTimers DEF queueVars
<1>12. SoundInv'
  <2>1. \A d \in Clients : req'[d].start <= now' /\ req'[d].epoch <= epoch'
    BY <1>1, <1>5, <1>6, NoReqFacts DEF SoundInv, CallTimes, Types, ClockTypes
  <2>2. \A d \in Clients : pc'[d] = "handing" => /\ pc[d] = "handing" /\ d # c /\ req[d].next \in Clients
                                                 /\ req[d].next # c
    BY <1>1, <1>5, <1>6 DEF CallInv
  <2>3. \A d \in Clients : pc'[d] = "using" =>
           Fresh(value[req[d].cell], reset_time[req[d].cell], req[d]) /\ req'[d] = req[d]
    BY <1>1, <1>5, <1>6 DEF SoundInv, PostedSound, UsingSound
  <2>4. \A d \in Clients : pc'[d] = "posted" => pc[d] = "posted" /\ req'[d] = req[d]
    BY <1>5, <1>6
  <2>. QED BY <1>1, <1>5, <2>1, <2>2, <2>3, <2>4 DEF SoundInv, CallTimes, IdleSound, UsedSound, PostedSound, UsingSound, HandingSound, listVars, cellVars
<1>. QED BY <1>7, <1>8, <1>9, <1>10, <1>11, <1>12

\* The connection that was made, good or bad, goes into the cell.
LEMMA ConnectedInv ==
    ASSUME Inv, NEW c \in Clients, NEW bad \in BOOLEAN, connected(c, bad) PROVE Inv'
<1> USE DEF Inv
<1> DEFINE x == req[c].cell
           v == Connection(bad)
<1>1. /\ UNCHANGED <<now, disabled, waste_on_recycle, listVars, queueVars, expired, req, epoch>>
      /\ pc[c] = "connecting" /\ pc' = [pc EXCEPT ![c] = "using"]
      /\ value' = [value EXCEPT ![x] = v] /\ reset_time' = [reset_time EXCEPT ![x] = now]
  BY DEF connected
<1>2. \A d \in Clients : req[d] \in Req /\ pc[d] \in PcOf
  BY DEF Types, CallTypes
<1>3. x \in Cells /\ x \in used
  <2>1. x # Null
    BY <1>1 DEF CallInv
  <2>2. x \in Cells
    BY <1>2, <2>1, ReqFacts
  <2>. QED BY <2>2 DEF OwnerInv
<1>4. v \in Conn /\ v.epoch = epoch /\ v # Null
  <2>1. v \in Conn /\ v.epoch = epoch
    BY DEF Connection, Conn, Types, ClockTypes
  <2>. QED BY <2>1, NullFacts
<1> HIDE DEF v
<1>5. /\ value' \in [Cells -> Conn \cup {Null}] /\ reset_time' \in [Cells -> Int]
      /\ value'[x] = v /\ reset_time'[x] = now
      /\ \A y \in Cells : y # x => value'[y] = value[y] /\ reset_time'[y] = reset_time[y]
  BY <1>1, <1>3, <1>4 DEF Types, CellTypes, ClockTypes
<1>6. pc' \in [Clients -> PcOf] /\ pc'[c] = "using" /\ \A d \in Clients : d # c => pc'[d] = pc[d]
  BY <1>1 DEF Types, CallTypes, PcOf
<1>7. \A d \in Clients : d # c => req[d].cell # x
  BY <1>3, NullFacts DEF OwnerInv
<1>8. /\ \A i \in DOMAIN available : available[i].cell \in Cells /\ available[i].cell # x
      /\ \A i \in DOMAIN wasted : wasted[i] \in Cells /\ wasted[i] # x
  BY <1>3, ListFacts DEF ListInv, Partition
<1> HIDE DEF x
<1>9. Types'
  BY <1>1, <1>5, <1>6 DEF Types, ClockTypes, CellTypes, ListTypes, QueueTypes, CallTypes, listVars, queueVars
<1>10. (CallInv /\ HandingInv)'
  BY <1>1, <1>6 DEF CallInv, HandingInv
<1>11. (ListInv /\ OwnerInv)'
  BY <1>1 DEF ListInv, Partition, OwnerInv, listVars
<1>12. ValueInv'
  <2>1. \A j \in DOMAIN wasted : value'[wasted[j]] = Null
    BY <1>5, <1>8 DEF ValueInv
  <2>0. \A d \in Clients : req[d].cell \in Cells \cup {Null}
    BY <1>2, ReqFacts
  <2>2. \A d \in Clients : d # c /\ pc[d] \in {"using", "connecting"} => req[d].cell \in Cells /\ req[d].cell # x
    BY <1>7, <2>0 DEF CallInv
  <2>3. \A d \in Clients : pc'[d] = "using" => value'[req[d].cell] # Null
    BY <1>4, <1>5, <1>6, <2>2 DEF ValueInv, x
  <2>4. \A d \in Clients : pc'[d] = "connecting" => value'[req[d].cell] = Null
    BY <1>4, <1>5, <1>6, <2>2 DEF ValueInv
  <2>5. \A y \in Cells : value'[y] # Null => value'[y].epoch <= epoch
    BY <1>4, <1>5 DEF ValueInv, Types, ClockTypes
  <2>. QED BY <1>1, <2>1, <2>3, <2>4, <2>5 DEF ValueInv, listVars
<1>13. (QueueInv /\ TimerInv)'
  <2>1. QueueInv'
    BY <1>1, <1>6 DEF QueueInv, queueVars
  <2>. QED BY <1>1, <2>1, SameTimers DEF queueVars
<1>14. SoundInv'
  <2>0. \A d \in Clients : req[d].cell \in Cells \cup {Null}
    BY <1>2, ReqFacts
  <2>1. \A d \in Clients : d # c /\ req[d].cell # Null => req[d].cell \in Cells /\ req[d].cell # x
    BY <1>7, <2>0
  <2>2. CallTimes'
    BY <1>1 DEF SoundInv, CallTimes
  <2>3. IdleSound'
    BY <1>1, <1>5, <1>8 DEF SoundInv, IdleSound, listVars
  <2>4. UsedSound'
    BY <1>1, <1>4, <1>5 DEF SoundInv, UsedSound, Types, ListTypes, listVars
  <2>5. PostedSound'
    BY <1>1, <1>5, <1>6, <2>1 DEF SoundInv, PostedSound
  <2>6. Fresh(v, now, req[c])
    BY <1>4 DEF Fresh, SoundInv, CallTimes
  <2>7. \A d \in Clients : d # c /\ pc[d] = "using" => req[d].cell \in Cells /\ req[d].cell # x
    BY <2>1 DEF CallInv
  <2>8. UsingSound'
    BY <1>1, <1>5, <1>6, <2>6, <2>7 DEF SoundInv, UsingSound, x
  <2>9. \A d \in Clients : d # c /\ pc[d] = "handing" => req[d].cell \in Cells /\ req[d].cell # x
    BY <2>1 DEF CallInv
  <2>10. HandingSound'
    BY <1>1, <1>5, <1>6, <2>9 DEF SoundInv, HandingSound
  <2>. QED BY <2>2, <2>3, <2>4, <2>5, <2>8, <2>10 DEF SoundInv
<1>. QED BY <1>9, <1>10, <1>11, <1>12, <1>13, <1>14

\* The calls of K, that wait, are refused.
Refuses(K, err) ==
    /\ pc' = [c \in Clients |-> IF c \in K THEN "posted" ELSE pc[c]]
    /\ req' = [c \in Clients |-> IF c \in K THEN Refused(req[c], err) ELSE req[c]]

\* A refusal touches no cell and keeps what is known of the other calls.
LEMMA RefusesInv ==
    ASSUME Inv, NEW K, \A c \in K : c \in Clients /\ pc[c] \in {"push", "queued"},
           NEW err \in Errs, err # "ok", Refuses(K, err),
           UNCHANGED <<now, cellVars, listVars, epoch>>
    PROVE  CallTypes' /\ CallInv' /\ HandingInv' /\ ListInv' /\ OwnerInv' /\ ValueInv' /\ SoundInv'
<1> USE DEF Inv
<1>1. \A c \in Clients : req[c] \in Req /\ pc[c] \in PcOf
  BY DEF Types, CallTypes
<1>2. /\ pc' \in [Clients -> PcOf]
      /\ \A c \in K : pc'[c] = "posted" /\ pc[c] \in {"push", "queued"} /\ c \in Clients
      /\ \A c \in Clients : c \notin K => pc'[c] = pc[c] /\ req'[c] = req[c]
  BY <1>1 DEF Refuses, PcOf
<1>3. /\ req' \in [Clients -> Req]
      /\ \A c \in K : req'[c].err = err
      /\ \A c \in Clients : req'[c].cell = req[c].cell /\ req'[c].start = req[c].start
                            /\ req'[c].epoch = req[c].epoch /\ req'[c].next = req[c].next
  <2>1. req' = [c \in Clients |-> IF c \in K THEN Refused(req[c], err) ELSE req[c]]
    BY DEF Refuses
  <2>2. \A c \in Clients :
           /\ Refused(req[c], err) \in Req /\ Refused(req[c], err).err = err
           /\ Refused(req[c], err).cell = req[c].cell /\ Refused(req[c], err).start = req[c].start
           /\ Refused(req[c], err).epoch = req[c].epoch /\ Refused(req[c], err).next = req[c].next
    <3> TAKE c \in Clients
    <3> DEFINE r == req[c]
    <3>1. r \in Req
      BY <1>1
    <3> HIDE DEF r
    <3>2. /\ Refused(r, err) \in Req /\ Refused(r, err).err = err
          /\ Refused(r, err).cell = r.cell /\ Refused(r, err).start = r.start
          /\ Refused(r, err).epoch = r.epoch /\ Refused(r, err).next = r.next
      BY <3>1, ReqFacts
    <3>. QED BY <3>2 DEF r
  <2>3. req' \in [Clients -> Req]
    BY <1>1, <2>1, <2>2
  <2>. QED BY <1>2, <2>1, <2>2, <2>3
<1>4. \A c \in K : req'[c].cell = Null
  BY <1>2, <1>3 DEF CallInv
<1>5. CallInv'
  BY <1>2, <1>3, <1>4 DEF CallInv
<1>6. HandingInv'
  BY <1>2, <1>3 DEF HandingInv
<1>7. ListInv' /\ OwnerInv'
  BY <1>3 DEF ListInv, Partition, OwnerInv, listVars
<1>8. ValueInv'
  BY <1>2, <1>3 DEF ValueInv, listVars, cellVars
<1>9. SoundInv'
  <2>1. CallTimes'
    BY <1>3 DEF SoundInv, CallTimes
  <2>2. IdleSound' /\ UsedSound'
    BY DEF SoundInv, IdleSound, UsedSound, listVars, cellVars
  <2>3. PostedSound'
    BY <1>2, <1>4 DEF SoundInv, PostedSound, cellVars
  <2>4. UsingSound'
    BY <1>2 DEF SoundInv, UsingSound, cellVars
  <2>5. \A c \in Clients : pc'[c] = "handing" =>
           /\ pc[c] = "handing" /\ req'[c] = req[c] /\ req[c].next \in Clients
           /\ req'[req[c].next] = req[req[c].next]
    BY <1>2 DEF CallInv
  <2>6. HandingSound'
    BY <1>2, <2>5 DEF SoundInv, HandingSound, cellVars
  <2>. QED BY <2>1, <2>2, <2>3, <2>4, <2>6 DEF SoundInv
<1>. QED BY <1>2, <1>3, <1>5, <1>6, <1>7, <1>8, <1>9 DEF CallTypes

\* The second half of get(): into the queue, or refused.
LEMMA PushInv == ASSUME Inv, NEW c \in Clients, push(c) PROVE Inv'
<1> USE DEF Inv
<1>1. pc[c] = "push" /\ UNCHANGED <<now, disabled, cellVars, listVars, expired, epoch>>
  BY DEF push
<1>2. ClockTypes' /\ CellTypes' /\ ListTypes'
  BY <1>1 DEF Types, ClockTypes, CellTypes, ListTypes, cellVars, listVars
<1>3. \A d \in Clients : req[d] \in Req /\ pc[d] \in PcOf
  BY DEF Types, CallTypes
<1>4. CASE ~fit_capacity
  <2>1. /\ pc' = [pc EXCEPT ![c] = "posted"] /\ UNCHANGED queueVars
        /\ req' = [req EXCEPT ![c] = Refused(@, "request_queue_overflow")]
    BY <1>4 DEF push
  <2>2. Refuses({c}, "request_queue_overflow")
    BY <2>1 DEF Refuses, Types, CallTypes
  <2>3. CallTypes' /\ CallInv' /\ HandingInv' /\ ListInv' /\ OwnerInv' /\ ValueInv' /\ SoundInv'
    BY <1>1, <2>2, RefusesInv DEF Errs
  <2>4. pc' \in [Clients -> PcOf] /\ pc'[c] = "posted" /\ \A d \in Clients : d # c => pc'[d] = pc[d]
    BY <2>1 DEF Types, CallTypes, PcOf
  <2>5. QueueInv' /\ TimerInv' /\ QueueTypes'
    <3>1. QueueInv'
      BY <1>1, <2>1, <2>4 DEF QueueInv, queueVars
    <3>2. TimerInv' /\ QueueTypes'
      BY <1>1, <2>1, SameTimers DEF Types, QueueTypes, queueVars
    <3>. QED BY <3>1, <3>2
  <2>. QED BY <1>2, <2>3, <2>5 DEF Types
<1>5. CASE fit_capacity
  <2> DEFINE e == [client |-> c, at |-> now + req[c].wait]
             q == Append(queue, e)
  <2>1. SetQueue(q) /\ pc' = [pc EXCEPT ![c] = "queued"] /\ req' = req /\ Len(queue) < QueueCapacity
    BY <1>5 DEF push, fit_capacity
  <2>2. e \in Request /\ e.client = c
    <3>1. req[c].wait \in Nat /\ now \in Nat
      BY <1>3, ReqFacts DEF Types, ClockTypes
    <3>. QED BY <3>1 DEF Request
  <2>3. queue \in Seq(Request)
    BY DEF Types, QueueTypes
  <2> HIDE DEF e
  <2>4. /\ q \in Seq(Request) /\ Len(q) = Len(queue) + 1
        /\ \A i \in DOMAIN q : \/ i \in DOMAIN queue /\ q[i] = queue[i]
                               \/ i = Len(queue) + 1 /\ q[i] = e
        /\ \A i \in DOMAIN queue : i \in DOMAIN q /\ q[i] = queue[i] /\ i # Len(queue) + 1
        /\ Len(queue) + 1 \in DOMAIN q /\ q[Len(queue) + 1] = e
    BY <2>2, <2>3, AppendFacts
  <2> HIDE DEF q
  <2>5. TimerInv' /\ timers' \in [Contexts -> Nat \cup {Null}] /\ queue' = q
    BY <2>1, <2>4, SetQueueInv
  <2>6. pc' \in [Clients -> PcOf] /\ pc'[c] = "queued" /\ \A d \in Clients : d # c => pc'[d] = pc[d]
    BY <2>1 DEF Types, CallTypes, PcOf
  <2>7. Types'
    <3>1. QueueTypes'
      BY <1>1, <2>4, <2>5 DEF Types, QueueTypes
    <3>2. CallTypes'
      BY <2>1, <2>6 DEF Types, CallTypes
    <3>. QED BY <1>2, <3>1, <3>2 DEF Types
  <2>8. QueueInv'
    <3>1. Len(q) <= QueueCapacity
      BY <2>1, <2>4, ListFacts, PoolAssumption
    <3>2. \A i \in DOMAIN queue : queue[i].client # c
      BY <1>1 DEF QueueInv
    <3>3. \A d \in Clients : pc'[d] = "queued" <=> \E i \in DOMAIN q : q[i].client = d
      BY <2>2, <2>4, <2>6 DEF QueueInv
    <3>4. \A i, j \in DOMAIN q : q[i].client = q[j].client => i = j
      BY <2>2, <2>4, <3>2 DEF QueueInv
    <3>. QED BY <2>5, <3>1, <3>3, <3>4 DEF QueueInv
  <2>9. CallInv' /\ HandingInv'
    <3>1. CallInv'
      BY <1>1, <2>1, <2>6 DEF CallInv
    <3>2. HandingInv'
      BY <2>1, <2>6 DEF HandingInv
    <3>. QED BY <3>1, <3>2
  <2>10. ListInv' /\ OwnerInv' /\ ValueInv'
    <3>1. ListInv' /\ OwnerInv'
      BY <1>1, <2>1 DEF ListInv, Partition, OwnerInv, listVars
    <3>2. ValueInv'
      BY <1>1, <2>1, <2>6 DEF ValueInv, listVars, cellVars
    <3>. QED BY <3>1, <3>2
  <2>11. SoundInv'
    <3>1. CallTimes' /\ IdleSound' /\ UsedSound'
      BY <1>1, <2>1 DEF SoundInv, CallTimes, IdleSound, UsedSound, listVars, cellVars
    <3>2. PostedSound' /\ UsingSound'
      BY <1>1, <2>1, <2>6 DEF SoundInv, PostedSound, UsingSound, cellVars
    <3>3. HandingSound'
      BY <1>1, <2>1, <2>6 DEF SoundInv, HandingSound, cellVars
    <3>. QED BY <3>1, <3>2, <3>3 DEF SoundInv
  <2>. QED BY <2>5, <2>7, <2>8, <2>9, <2>10, <2>11
<1>. QED BY <1>4, <1>5

\* ~pool(): the queue is emptied and its clients are told.
LEMMA DisableInv == ASSUME Inv, disable PROVE Inv'
<1> USE DEF Inv
<1> DEFINE gone == {queue[i].client : i \in DOMAIN queue}
<1>1. /\ disabled' = TRUE /\ Refuses(gone, "disabled") /\ SetQueue(<<>>)
      /\ UNCHANGED <<now, cellVars, listVars, expired, epoch>>
  BY DEF disable, Refuses
<1>2. \A c \in Clients : c \in gone <=> pc[c] = "queued"
  BY DEF QueueInv
<1>3. \A c \in gone : c \in Clients
  BY ListFacts
<1> HIDE DEF gone
<1>4. CallTypes' /\ CallInv' /\ HandingInv' /\ ListInv' /\ OwnerInv' /\ ValueInv' /\ SoundInv'
  BY <1>1, <1>2, <1>3, RefusesInv DEF Errs
<1>5. <<>> \in Seq(Request) /\ DOMAIN <<>> = {} /\ Len(<<>>) = 0
  OBVIOUS
<1>6. TimerInv' /\ timers' \in [Contexts -> Nat \cup {Null}] /\ queue' = <<>>
  BY <1>1, <1>5, SetQueueInv
<1>7. Types'
  <2>1. QueueTypes'
    BY <1>1, <1>5, <1>6 DEF Types, QueueTypes
  <2>2. ClockTypes' /\ CellTypes' /\ ListTypes'
    BY <1>1 DEF Types, ClockTypes, CellTypes, ListTypes, cellVars, listVars
  <2>. QED BY <1>4, <2>1, <2>2 DEF Types
<1>8. QueueInv'
  <2>1. \A c \in Clients : pc'[c] # "queued"
    BY <1>1, <1>2 DEF Refuses
  <2>. QED BY <1>5, <1>6, <2>1, PoolAssumption DEF QueueInv
<1>. QED BY <1>4, <1>6, <1>7, <1>8

\* The callback of a timer: the requests that expire up to its time are refused,
\* and the timer is armed for the earliest of the others.
LEMMA CancelInv == ASSUME Inv, NEW at \in expired, cancel(at) PROVE Inv'
<1> USE DEF Inv
<1> DEFINE late == Late(at)
           K == {i \in DOMAIN queue : queue[i].client \notin late}
           q == Remaining(late)
           N == Cardinality(K)
<1>1. /\ expired' = expired \ {at} /\ Refuses(late, "get_resource_timeout") /\ SetQueue(q)
      /\ UNCHANGED <<now, disabled, cellVars, listVars, epoch>>
  BY DEF cancel, Refuses
<1>2. \A c \in late : c \in Clients /\ pc[c] = "queued" /\ \E i \in DOMAIN queue : queue[i].client = c
  <2>1. \A c \in late : \E i \in DOMAIN queue : queue[i].client = c
    BY DEF Late
  <2>. QED BY <2>1, ListFacts DEF QueueInv
<1>3. q = Selected(queue, K) /\ queue \in Seq(Request) /\ \A i \in K : i \in DOMAIN queue
  BY DEF Remaining, Types, QueueTypes
<1>4. \A i \in DOMAIN queue : queue[i].client \in late \/ i \in K
  OBVIOUS
<1>5. \A i \in K : queue[i].client \notin late
  OBVIOUS
<1> HIDE DEF late, K, q
<1>6. /\ q \in Seq(Request) /\ Len(q) = N /\ N \in 0..Len(queue)
      /\ \A n \in 1..N : Nth(K, n) \in K /\ q[n] = queue[Nth(K, n)]
      /\ \A i \in K : \E n \in 1..N : Nth(K, n) = i
      /\ \A m, n \in 1..N : Nth(K, m) = Nth(K, n) => m = n
  BY <1>3, SelectedProperties
<1>7. DOMAIN q = 1..N
  BY <1>6, SeqFacts
<1>8. CallTypes' /\ CallInv' /\ HandingInv' /\ ListInv' /\ OwnerInv' /\ ValueInv' /\ SoundInv'
  BY <1>1, <1>2, RefusesInv DEF Errs
<1>9. TimerInv' /\ timers' \in [Contexts -> Nat \cup {Null}] /\ queue' = q
  BY <1>1, <1>6, SetQueueInv
<1>10. Types'
  <2>1. QueueTypes'
    BY <1>1, <1>6, <1>9 DEF Types, QueueTypes
  <2>2. ClockTypes' /\ CellTypes' /\ ListTypes'
    BY <1>1 DEF Types, ClockTypes, CellTypes, ListTypes, cellVars, listVars
  <2>. QED BY <1>8, <2>1, <2>2 DEF Types
<1>11. QueueInv'
  <2>1. Len(q) <= QueueCapacity
    BY <1>6, ListFacts, PoolAssumption DEF QueueInv
  <2>2. \A c \in Clients : pc'[c] = IF c \in late THEN "posted" ELSE pc[c]
    BY <1>1 DEF Refuses
  <2>3. ASSUME NEW c \in Clients PROVE pc'[c] = "queued" <=> \E n \in 1..N : q[n].client = c
    <3>1. ASSUME pc'[c] = "queued" PROVE \E n \in 1..N : q[n].client = c
      <4>1. c \notin late /\ pc[c] = "queued"
        BY <2>2, <3>1
      <4>2. PICK i \in DOMAIN queue : queue[i].client = c
        BY <4>1 DEF QueueInv
      <4>3. PICK n \in 1..N : Nth(K, n) = i
        BY <1>4, <1>6, <4>1, <4>2
      <4>. QED BY <1>6, <4>2, <4>3
    <3>2. ASSUME NEW n \in 1..N, q[n].client = c PROVE pc'[c] = "queued"
      <4>1. Nth(K, n) \in K /\ q[n] = queue[Nth(K, n)]
        BY <1>6
      <4>2. Nth(K, n) \in DOMAIN queue /\ c \notin late /\ queue[Nth(K, n)].client = c
        BY <1>3, <1>5, <3>2, <4>1
      <4>. QED BY <2>2, <4>2 DEF QueueInv
    <3>. QED BY <3>1, <3>2
  <2>4. ASSUME NEW m \in 1..N, NEW n \in 1..N, q[m].client = q[n].client PROVE m = n
    <3>1. Nth(K, m) = Nth(K, n)
      BY <1>3, <1>6, <2>4 DEF QueueInv
    <3>. QED BY <1>6, <3>1
  <2>. QED BY <1>7, <1>9, <2>1, <2>3, <2>4 DEF QueueInv
<1>. QED BY <1>8, <1>9, <1>10, <1>11

\* A cell some call has is in use: it is in neither list, and no other call has it.
LEMMA CellFacts ==
    ASSUME Inv, NEW c \in Clients, req[c].cell # Null
    PROVE  /\ req[c].cell \in Cells /\ req[c].cell \in used
           /\ \A d \in Clients : d # c => req[d].cell # req[c].cell
           /\ \A i \in DOMAIN available : available[i].cell # req[c].cell
           /\ \A j \in DOMAIN wasted : wasted[j] # req[c].cell
<1> USE DEF Inv
<1>1. req[c].cell \in Cells
  BY ReqFacts DEF Types, CallTypes
<1>2. req[c].cell \in used
  BY <1>1 DEF OwnerInv
<1>. QED BY <1>1, <1>2 DEF OwnerInv, ListInv, Partition

\* invalidate(): the idle cells are emptied and those in use marked.
LEMMA InvalidateInv == ASSUME Inv, invalidate PROVE Inv'
<1> USE DEF Inv
<1> DEFINE idle == {available[i].cell : i \in DOMAIN available}
           n == Len(available)
<1>0. /\ n \in Nat /\ DOMAIN available = 1..n /\ available \in Seq(Entry)
      /\ Len(wasted) \in Nat /\ DOMAIN wasted = 1..Len(wasted) /\ wasted \in Seq(Cells)
      /\ \A i \in DOMAIN wasted : wasted[i] \in Cells
      /\ \A i \in DOMAIN available : available[i].cell \in Cells
  BY ListFacts DEF Types, ListTypes
<1>1. /\ UNCHANGED <<now, disabled, reset_time, used, queueVars, expired, pc, req>>
      /\ epoch < MaxInvalidates /\ epoch' = epoch + 1 /\ available' = <<>>
      /\ value' = [x \in Cells |-> IF x \in idle THEN Null ELSE value[x]]
      /\ waste_on_recycle' = [x \in Cells |-> waste_on_recycle[x] \/ x \in used]
      /\ wasted' = wasted \o [i \in DOMAIN available |-> available[i].cell]
  BY DEF invalidate
<1>2. wasted' = wasted \o DroppedFirst(available, n)
  BY <1>0, <1>1 DEF DroppedFirst
<1>3. SubSeq(available, n + 1, n) = <<>>
  <2>1. /\ SubSeq(available, n + 1, Len(available)) \in Seq(Entry)
        /\ Len(SubSeq(available, n + 1, Len(available))) = Len(available) - n
    BY <1>0, SubSeqFacts
  <2> DEFINE p == SubSeq(available, n + 1, Len(available))
  <2>2. p \in Seq(Entry) /\ Len(p) = 0
    BY <1>0, <2>1
  <2> HIDE DEF p
  <2>3. p = <<>>
    BY <2>2
  <2>. QED BY <2>3 DEF p
<1>4. ListInv'
  <2>1. Partition(SubSeq(available, n + 1, Len(available)), wasted \o DroppedFirst(available, n), used)
    BY <1>0, DropFirst DEF ListInv
  <2>. QED BY <1>1, <1>2, <1>3, <2>1 DEF ListInv
<1>5. /\ wasted' \in Seq(Cells) /\ Len(wasted') = Len(wasted) + n
      /\ \A i \in 1..(Len(wasted) + n) : \/ i \in 1..Len(wasted) /\ wasted'[i] = wasted[i]
                                         \/ i - Len(wasted) \in 1..n /\ wasted'[i] = available[i - Len(wasted)].cell
  BY <1>0, <1>2, DroppedFirstFacts
<1>6. DOMAIN wasted' = 1..(Len(wasted) + n)
  BY <1>5, SeqFacts
<1>7. /\ value' \in [Cells -> Conn \cup {Null}] /\ waste_on_recycle' \in [Cells -> BOOLEAN]
      /\ \A x \in Cells : value'[x] = Null \/ value'[x] = value[x]
      /\ \A x \in Cells : value[x] = Null => value'[x] = Null
      /\ \A x \in used : value'[x] = value[x] /\ waste_on_recycle'[x] = TRUE /\ x \in Cells
      /\ \A i \in 1..n : value'[available[i].cell] = Null
  <2>1. \A x \in used : x \in Cells /\ x \notin idle
    BY DEF Types, ListTypes, ListInv, Partition
  <2>2. \A i \in 1..n : available[i].cell \in idle
    BY <1>0
  <2>3. \A x \in Cells : value[x] \in Conn \cup {Null} /\ waste_on_recycle[x] \in BOOLEAN
    BY DEF Types, CellTypes
  <2> HIDE DEF idle, n
  <2>4. value' \in [Cells -> Conn \cup {Null}]
    BY <1>1, <2>3
  <2>5. waste_on_recycle' \in [Cells -> BOOLEAN]
    BY <1>1, <2>3
  <2>6. \A x \in Cells : /\ value'[x] = Null \/ value'[x] = value[x]
                         /\ value[x] = Null => value'[x] = Null
    BY <1>1
  <2>7. \A x \in used : value'[x] = value[x] /\ waste_on_recycle'[x] = TRUE /\ x \in Cells
    BY <1>1, <2>1
  <2>8. \A i \in 1..n : value'[available[i].cell] = Null
    BY <1>0, <1>1, <2>2
  <2>. QED BY <2>4, <2>5, <2>6, <2>7, <2>8
<1> HIDE DEF idle, n
<1>8. Types'
  <2>1. ClockTypes'
    BY <1>1, PoolAssumption DEF Types, ClockTypes
  <2>2. CellTypes'
    BY <1>1, <1>7 DEF Types, CellTypes
  <2>3. ListTypes'
    BY <1>1, <1>5 DEF Types, ListTypes
  <2>4. QueueTypes' /\ CallTypes'
    BY <1>1 DEF Types, QueueTypes, CallTypes, queueVars
  <2>. QED BY <2>1, <2>2, <2>3, <2>4 DEF Types
<1>9. CallInv' /\ HandingInv' /\ OwnerInv'
  BY <1>1 DEF CallInv, HandingInv, OwnerInv
<1>10. QueueInv' /\ TimerInv'
  BY <1>1, SameTimers DEF QueueInv, queueVars
<1>11. \A c \in Clients : req[c].cell # Null => value'[req[c].cell] = value[req[c].cell]
  BY <1>7, CellFacts
<1>12. ValueInv'
  <2>1. ASSUME NEW j \in DOMAIN wasted' PROVE value'[wasted'[j]] = Null
    <3>1. CASE j \in 1..Len(wasted) /\ wasted'[j] = wasted[j]
      BY <1>0, <1>7, <3>1 DEF ValueInv
    <3>2. CASE j - Len(wasted) \in 1..n /\ wasted'[j] = available[j - Len(wasted)].cell
      BY <1>7, <3>2
    <3>. QED BY <1>5, <1>6, <3>1, <3>2
  <2>2. ASSUME NEW c \in Clients, pc'[c] = "using" PROVE value'[req'[c].cell] # Null
    <3>1. pc' = pc /\ req' = req
      BY <1>1
    <3>2. req[c].cell # Null /\ value[req[c].cell] # Null
      BY <2>2, <3>1 DEF ValueInv, CallInv
    <3>. QED BY <1>11, <3>1, <3>2
  <2>3. \A c \in Clients : pc'[c] = "connecting" => value'[req'[c].cell] = Null
    BY <1>1, <1>11 DEF ValueInv, CallInv
  <2>4. \A x \in Cells : value'[x] # Null => value'[x].epoch <= epoch'
    <3> TAKE x \in Cells
    <3> HAVE value'[x] # Null
    <3>1. value'[x] = value[x] /\ value[x] # Null /\ value[x] \in Conn
      BY <1>7 DEF Types, CellTypes
    <3>2. value[x].epoch <= epoch /\ value[x].epoch \in Nat /\ epoch \in Nat
      BY <3>1 DEF ValueInv, Conn, Types, ClockTypes
    <3>. QED BY <1>1, <3>1, <3>2
  <2>. QED BY <2>1, <2>2, <2>3, <2>4 DEF ValueInv
<1>13. SoundInv'
  <2>1. CallTimes'
    <3>1. \A c \in Clients : req[c].epoch \in Nat
      BY ReqFacts DEF Types, CallTypes
    <3>. QED BY <1>1, <3>1 DEF SoundInv, CallTimes, Types, ClockTypes
  <2>2. IdleSound'
    BY <1>1 DEF IdleSound
  <2>3. UsedSound'
    BY <1>1, <1>7 DEF UsedSound
  <2>4. PostedSound'
    BY <1>1, <1>11 DEF SoundInv, PostedSound
  <2>5. UsingSound'
    BY <1>1, <1>11 DEF SoundInv, UsingSound, CallInv
  <2>6. HandingSound'
    BY <1>1, <1>11 DEF SoundInv, HandingSound, CallInv
  <2>. QED BY <2>1, <2>2, <2>3, <2>4, <2>5, <2>6 DEF SoundInv
<1>. QED BY <1>4, <1>8, <1>9, <1>10, <1>12, <1>13

\* The second half of a return: the cell passes to the client taken from the queue.
LEMMA HandoverInv == ASSUME Inv, NEW c \in Clients, handover(c) PROVE Inv'
<1> USE DEF Inv
<1> DEFINE x == req[c].cell
           d == req[c].next
           v == IF req[c].wipe THEN Null ELSE value[x]
<1>1. /\ UNCHANGED <<now, disabled, reset_time, waste_on_recycle, listVars, queueVars, expired, epoch>>
      /\ pc[c] = "handing" /\ pc' = [pc EXCEPT ![c] = "done", ![d] = "posted"]
      /\ req' = [req EXCEPT ![c] = NoReq, ![d] = Served(@, x)]
      /\ value' = [value EXCEPT ![x] = v]
  BY DEF handover
<1>2. \A e \in Clients : req[e] \in Req /\ pc[e] \in PcOf
  BY DEF Types, CallTypes
<1>3. x # Null /\ d \in Clients /\ pc[d] = "popped" /\ d # c /\ req[d].cell = Null /\ req[d].err = "ok"
  BY <1>1 DEF CallInv
<1>4. /\ x \in Cells /\ x \in used /\ \A e \in Clients : e # c => req[e].cell # x
      /\ \A i \in DOMAIN available : available[i].cell # x
      /\ \A j \in DOMAIN wasted : wasted[j] # x
  BY <1>3, CellFacts
<1>5. v \in Conn \cup {Null} /\ (v # Null => v = value[x] /\ ~req[c].wipe /\ v.epoch <= epoch)
  BY <1>4 DEF Types, CellTypes, ValueInv
<1>6. /\ value' \in [Cells -> Conn \cup {Null}] /\ value'[x] = v
      /\ \A y \in Cells : y # x => value'[y] = value[y]
  <2> HIDE DEF v, x
  <2>. QED BY <1>1, <1>4, <1>5 DEF Types, CellTypes
<1> HIDE DEF v
<1>7. /\ Served(req[d], x) \in Req /\ Served(req[d], x).err = "ok" /\ Served(req[d], x).cell = x
      /\ Served(req[d], x).start = req[d].start /\ Served(req[d], x).epoch = req[d].epoch
  <2> DEFINE r == req[d]
  <2>1. r \in Req /\ r.err = "ok"
    BY <1>2, <1>3
  <2> HIDE DEF r, x
  <2>2. /\ Served(r, x) \in Req /\ Served(r, x).err = "ok" /\ Served(r, x).cell = x
        /\ Served(r, x).start = r.start /\ Served(r, x).epoch = r.epoch
    BY <1>4, <2>1, ReqFacts
  <2>. QED BY <2>2 DEF r
<1>8. /\ pc' \in [Clients -> PcOf] /\ pc'[c] = "done" /\ pc'[d] = "posted"
      /\ \A e \in Clients : e # c /\ e # d => pc'[e] = pc[e]
  <2> HIDE DEF d
  <2>. QED BY <1>1, <1>3 DEF Types, CallTypes, PcOf
<1>9. /\ req' \in [Clients -> Req] /\ req'[c] = NoReq /\ req'[d] = Served(req[d], x)
      /\ \A e \in Clients : e # c /\ e # d => req'[e] = req[e]
  <2> HIDE DEF d, x
  <2>. QED BY <1>1, <1>2, <1>3, <1>7, NoReqFacts DEF Types, CallTypes
<1>10. \A e \in Clients : pc'[e] = "handing" =>
          /\ e # c /\ e # d /\ pc[e] = "handing" /\ req'[e] = req[e] /\ req[e].next \in Clients
          /\ req[e].next # c /\ req[e].next # d /\ req'[req[e].next] = req[req[e].next]
  <2> TAKE e \in Clients
  <2> HAVE pc'[e] = "handing"
  <2>1. e # c /\ e # d /\ pc[e] = "handing" /\ req'[e] = req[e]
    BY <1>8, <1>9
  <2>2. req[e].next \in Clients /\ pc[req[e].next] = "popped"
    BY <2>1 DEF CallInv
  <2>3. req[e].next # c /\ req[e].next # d
    BY <1>1, <2>1, <2>2 DEF HandingInv
  <2>. QED BY <1>9, <2>1, <2>2, <2>3
<1> HIDE DEF x, d
<1>11. Types'
  BY <1>1, <1>6, <1>8, <1>9 DEF Types, ClockTypes, CellTypes, ListTypes, QueueTypes, CallTypes, listVars, queueVars
<1>12. CallInv'
  <2>1. \A e \in Clients : pc'[e] = "handing" => pc'[req'[e].next] = "popped"
    BY <1>8, <1>10 DEF CallInv
  <2>2. ASSUME NEW e \in Clients
        PROVE  /\ pc'[e] \in {"start", "push", "queued", "popped", "done"} => req'[e].cell = Null
               /\ pc'[e] \in {"push", "queued", "popped"} => req'[e].err = "ok"
               /\ pc'[e] = "posted" => (req'[e].err = "ok" <=> req'[e].cell # Null)
               /\ pc'[e] \in {"connecting", "using", "handing"} => req'[e].cell # Null
    <3>1. CASE e = c
      BY <1>8, <1>9, <3>1, NoReqFacts
    <3>2. CASE e = d
      BY <1>3, <1>7, <1>8, <1>9, <3>2
    <3>3. CASE e # c /\ e # d
      BY <1>8, <1>9, <3>3 DEF CallInv
    <3>. QED BY <3>1, <3>2, <3>3
  <2>. QED BY <1>10, <2>1, <2>2 DEF CallInv
<1>13. HandingInv'
  BY <1>10 DEF HandingInv
<1>14. ListInv' /\ TimerInv'
  BY <1>1, SameTimers DEF ListInv, Partition, listVars, queueVars
<1>15. /\ \A e \in Clients : e # d => req'[e].cell # x
       /\ \A y \in Cells : y # x => \A e \in Clients : req'[e].cell = y <=> req[e].cell = y
       /\ req'[d].cell = x
  <2>1. req'[c].cell = Null /\ req'[d].cell = x /\ req[c].cell = x /\ req[d].cell = Null
    BY <1>3, <1>7, <1>9, NoReqFacts DEF x
  <2>. QED BY <1>3, <1>4, <1>9, <2>1, NullFacts
<1>16. OwnerInv'
  <2>1. \A y \in Cells : y \in used <=> \E e \in Clients : req'[e].cell = y
    BY <1>3, <1>4, <1>15 DEF OwnerInv
  <2>2. ASSUME NEW e \in Clients, NEW f \in Clients, req'[e].cell # Null, req'[e].cell = req'[f].cell
        PROVE  e = f
    <3>1. CASE req'[e].cell = x
      BY <1>15, <2>2, <3>1
    <3>2. CASE req'[e].cell # x
      <4>1. req'[e].cell \in Cells
        BY <1>9, <2>2, ReqFacts
      <4>. QED BY <1>15, <2>2, <3>2, <4>1 DEF OwnerInv
    <3>. QED BY <3>1, <3>2
  <2>. QED BY <1>1, <2>1, <2>2 DEF OwnerInv, listVars
<1>17. \A e \in Clients : e # c /\ e # d /\ req[e].cell # Null =>
          req[e].cell \in Cells /\ value'[req[e].cell] = value[req[e].cell]
  BY <1>4, <1>6, CellFacts
<1>18. ValueInv'
  <2>1. \A j \in DOMAIN wasted : value'[wasted[j]] = Null
    BY <1>4, <1>6, ListFacts DEF ValueInv
  <2>2. \A e \in Clients : pc'[e] \in {"using", "connecting"} =>
           req'[e] = req[e] /\ pc'[e] = pc[e] /\ value'[req[e].cell] = value[req[e].cell]
    BY <1>8, <1>9, <1>17 DEF CallInv
  <2>3. \A y \in Cells : value'[y] # Null => value'[y].epoch <= epoch
    BY <1>5, <1>6 DEF ValueInv
  <2>4. \A e \in Clients : pc'[e] = "using" => value'[req'[e].cell] # Null
    BY <2>2 DEF ValueInv
  <2>5. \A e \in Clients : pc'[e] = "connecting" => value'[req'[e].cell] = Null
    BY <2>2 DEF ValueInv
  <2>. QED BY <1>1, <2>1, <2>3, <2>4, <2>5 DEF ValueInv, listVars
<1>19. QueueInv'
  BY <1>1, <1>3, <1>8 DEF QueueInv, queueVars
<1>20. SoundInv'
  <2>1. CallTimes'
    BY <1>1, <1>3, <1>7, <1>9, NoReqFacts DEF SoundInv, CallTimes, Types, ClockTypes
  <2>2. IdleSound'
    BY <1>1, <1>4, <1>6, ListFacts DEF SoundInv, IdleSound, listVars
  <2>3. UsedSound'
    BY <1>1, <1>4, <1>5, <1>6 DEF SoundInv, UsedSound, Types, ListTypes, listVars
  <2>4. v # Null => Fresh(v, reset_time[x], req[d]) /\ Clean(v)
    BY <1>1, <1>5 DEF SoundInv, HandingSound, x, d
  <2>5. v # Null => Fresh(v, reset_time[x], Served(req[d], x))
    BY <1>7, <2>4 DEF Fresh
  <2>6. PostedSound'
    <3> SUFFICES ASSUME NEW e \in Clients, pc'[e] = "posted", req'[e].cell # Null, value'[req'[e].cell] # Null
                 PROVE  Fresh(value'[req'[e].cell], reset_time'[req'[e].cell], req'[e]) /\ Clean(value'[req'[e].cell])
      BY DEF PostedSound
    <3>1. CASE e = d
      BY <1>1, <1>6, <1>9, <1>15, <2>4, <2>5, <3>1
    <3>2. CASE e # d
      <4>1. e # c /\ pc[e] = "posted" /\ req'[e] = req[e]
        BY <1>8, <1>9, <3>2
      <4>. QED BY <1>1, <1>17, <3>2, <4>1 DEF SoundInv, PostedSound
    <3>. QED BY <3>1, <3>2
  <2>7. UsingSound'
    <3>1. \A e \in Clients : pc'[e] = "using" =>
             req'[e] = req[e] /\ pc[e] = "using" /\ value'[req[e].cell] = value[req[e].cell]
      BY <1>8, <1>9, <1>17 DEF CallInv
    <3>. QED BY <1>1, <3>1 DEF SoundInv, UsingSound
  <2>8. HandingSound'
    <3>1. \A e \in Clients : pc'[e] = "handing" => value'[req[e].cell] = value[req[e].cell]
      BY <1>10, <1>17 DEF CallInv
    <3> SUFFICES ASSUME NEW e \in Clients, pc'[e] = "handing", ~req'[e].wipe, value'[req'[e].cell] # Null
                 PROVE  /\ Fresh(value'[req'[e].cell], reset_time'[req'[e].cell], req'[req'[e].next])
                        /\ Clean(value'[req'[e].cell])
      BY DEF HandingSound
    <3>2. /\ pc[e] = "handing" /\ req'[e] = req[e] /\ req'[req[e].next] = req[req[e].next]
          /\ value'[req[e].cell] = value[req[e].cell]
      BY <1>10, <3>1
    <3>. QED BY <1>1, <3>2 DEF SoundInv, HandingSound
  <2>. QED BY <2>1, <2>2, <2>3, <2>6, <2>7, <2>8 DEF SoundInv
<1>. QED BY <1>11, <1>12, <1>13, <1>14, <1>16, <1>18, <1>19, <1>20

\* get() when the pool object is gone.
LEMMA GetDisabledInv ==
    ASSUME Inv, NEW c \in Clients, pc[c] = "start", pc' = [pc EXCEPT ![c] = "posted"],
           NEW r \in Req, r.cell = Null, r.err # "ok", r.start <= now, r.epoch <= epoch,
           req' = [req EXCEPT ![c] = r],
           UNCHANGED <<now, disabled, cellVars, listVars, queueVars, expired, epoch>>
    PROVE  Inv'
<1> USE DEF Inv
<1>1. /\ pc' \in [Clients -> PcOf] /\ pc'[c] = "posted" /\ \A d \in Clients : d # c => pc'[d] = pc[d]
      /\ req' \in [Clients -> Req] /\ req'[c] = r /\ \A d \in Clients : d # c => req'[d] = req[d]
  BY DEF Types, CallTypes, PcOf
<1>2. req[c].cell = Null
  BY DEF CallInv
<1>3. \A d \in Clients : req'[d].cell = req[d].cell
  BY <1>1, <1>2
<1>4. Types'
  BY <1>1 DEF Types, ClockTypes, CellTypes, ListTypes, QueueTypes, CallTypes, cellVars, listVars, queueVars
<1>5. CallInv' /\ HandingInv'
  <2>1. CallInv'
    BY <1>1 DEF CallInv
  <2>2. HandingInv'
    BY <1>1 DEF HandingInv
  <2>. QED BY <2>1, <2>2
<1>6. ListInv' /\ OwnerInv' /\ TimerInv'
  BY <1>3, SameTimers DEF ListInv, Partition, OwnerInv, listVars, queueVars
<1>7. ValueInv' /\ QueueInv'
  <2>1. ValueInv'
    BY <1>1, <1>3 DEF ValueInv, listVars, cellVars
  <2>2. QueueInv'
    BY <1>1 DEF QueueInv, queueVars
  <2>. QED BY <2>1, <2>2
<1>8. SoundInv'
  <2>1. CallTimes'
    BY <1>1 DEF SoundInv, CallTimes
  <2>2. IdleSound' /\ UsedSound'
    BY DEF SoundInv, IdleSound, UsedSound, listVars, cellVars
  <2>3. PostedSound' /\ UsingSound'
    BY <1>1 DEF SoundInv, PostedSound, UsingSound, cellVars
  <2>4. HandingSound'
    BY <1>1 DEF SoundInv, HandingSound, CallInv, cellVars
  <2>. QED BY <2>1, <2>2, <2>3, <2>4 DEF SoundInv
<1>. QED BY <1>4, <1>5, <1>6, <1>7, <1>8

\* The cells lease() finds too old are emptied; the others keep what they have.
LEMMA LeaseValues ==
    ASSUME Inv, value' = [x \in Cells |-> IF \E i \in Dropped : available[i].cell = x
                                          THEN Null ELSE value[x]]
    PROVE  /\ value' \in [Cells -> Conn \cup {Null}]
           /\ \A x \in Cells : value'[x] # Null => value'[x] = value[x]
           /\ \A x \in used : value'[x] = value[x]
           /\ \A i \in Dropped : i \in DOMAIN available /\ value'[available[i].cell] = Null
           /\ \A j \in DOMAIN wasted : value'[wasted[j]] = Null
<1> USE DEF Inv
<1>1. \A i \in Dropped : i \in DOMAIN available
  BY DEF Dropped
<1>2. \A i \in DOMAIN available : available[i].cell \in Cells
  BY ListFacts
<1>3. value' \in [Cells -> Conn \cup {Null}]
  BY DEF Types, CellTypes
<1>4. \A x \in Cells : value'[x] # Null => value'[x] = value[x]
  OBVIOUS
<1>5. \A x \in used : value'[x] = value[x]
  <2>1. \A x \in used : x \in Cells /\ \A i \in Dropped : available[i].cell # x
    BY <1>1 DEF Types, ListTypes, ListInv, Partition
  <2>. QED BY <2>1
<1>6. \A i \in Dropped : value'[available[i].cell] = Null
  BY <1>1, <1>2
<1>7. \A j \in DOMAIN wasted : value'[wasted[j]] = Null
  <2>1. \A j \in DOMAIN wasted : wasted[j] \in Cells /\ value[wasted[j]] = Null
    BY ListFacts DEF ValueInv
  <2>. QED BY <2>1
<1>. QED BY <1>1, <1>3, <1>4, <1>5, <1>6, <1>7

\* What every get() of a pool that is there does to what the other calls and the
\* lists know of the connections.
LEMMA GetLists ==
    ASSUME Inv, NEW c \in Clients, pc[c] = "start",
           value' = [x \in Cells |-> IF \E i \in Dropped : available[i].cell = x
                                     THEN Null ELSE value[x]],
           available' = Lease.available, wasted' = Lease.wasted,
           UNCHANGED <<now, epoch, reset_time>>,
           pc' \in [Clients -> PcOf], \A d \in Clients : d # c => pc'[d] = pc[d],
           req' \in [Clients -> Req], \A d \in Clients : d # c => req'[d] = req[d],
           pc'[c] \in {"posted", "push"}, req'[c].start = now, req'[c].epoch = epoch
    PROVE  /\ CallTimes' /\ IdleSound' /\ UsingSound' /\ HandingSound' /\ HandingInv'
           /\ \A d \in Clients : d # c /\ req[d].cell # Null => value'[req[d].cell] = value[req[d].cell]
           /\ \A j \in DOMAIN wasted' : value'[wasted'[j]] = Null
           /\ \A x \in Cells : value'[x] # Null => value'[x].epoch <= epoch
<1> USE DEF Inv
<1>1. /\ value' \in [Cells -> Conn \cup {Null}]
      /\ \A x \in Cells : value'[x] # Null => value'[x] = value[x]
      /\ \A x \in used : value'[x] = value[x]
      /\ \A i \in Dropped : i \in DOMAIN available /\ value'[available[i].cell] = Null
      /\ \A j \in DOMAIN wasted : value'[wasted[j]] = Null
  BY LeaseValues
<1>2. /\ \A i \in DOMAIN Lease.available : \E j \in DOMAIN available :
            j \notin Dropped /\ Lease.available[i] = available[j]
      /\ \A i \in DOMAIN Lease.wasted : \/ \E j \in DOMAIN wasted : Lease.wasted[i] = wasted[j]
                                        \/ \E j \in Dropped : Lease.wasted[i] = available[j].cell
  BY LeaseFacts
<1>3. \A d \in Clients : d # c /\ req[d].cell # Null => value'[req[d].cell] = value[req[d].cell]
  BY <1>1, CellFacts
<1>4. CallTimes'
  BY DEF SoundInv, CallTimes, Types, ClockTypes
<1>5. IdleSound'
  <2>1. \A i \in DOMAIN available : available[i].cell \in Cells
    BY ListFacts
  <2>2. ASSUME NEW i \in DOMAIN available'
        PROVE  /\ available'[i].drop <= reset_time[available'[i].cell] + Lifespan
               /\ value'[available'[i].cell] # Null =>
                     Clean(value'[available'[i].cell]) /\ value'[available'[i].cell].epoch = epoch
    <3>1. PICK j \in DOMAIN available : available'[i] = available[j]
      BY <1>2
    <3>. QED BY <1>1, <2>1, <3>1 DEF SoundInv, IdleSound
  <2>. QED BY <2>2 DEF IdleSound
<1>6. UsingSound'
  <2>1. \A d \in Clients : pc'[d] = "using" => d # c /\ pc[d] = "using" /\ req[d].cell # Null
    BY DEF CallInv
  <2>. QED BY <1>3, <2>1 DEF SoundInv, UsingSound
<1>7. HandingSound'
  <2>1. \A d \in Clients : pc'[d] = "handing" => /\ d # c /\ pc[d] = "handing" /\ req[d].cell # Null
                                                 /\ req[d].next \in Clients /\ req[d].next # c
    BY DEF CallInv
  <2>2. ASSUME NEW d \in Clients, pc'[d] = "handing", ~req'[d].wipe, value'[req'[d].cell] # Null
        PROVE  /\ Fresh(value'[req'[d].cell], reset_time'[req'[d].cell], req'[req'[d].next])
               /\ Clean(value'[req'[d].cell])
    <3>1. /\ d # c /\ pc[d] = "handing" /\ req[d].cell # Null /\ req[d].next \in Clients /\ req[d].next # c
      BY <2>1, <2>2
    <3>2. /\ req'[d] = req[d] /\ req'[req[d].next] = req[req[d].next]
          /\ value'[req[d].cell] = value[req[d].cell]
      BY <1>3, <3>1
    <3>. QED BY <2>2, <3>1, <3>2 DEF SoundInv, HandingSound
  <2>. QED BY <2>2 DEF HandingSound
<1>8. HandingInv'
  <2>1. \A d \in Clients : pc'[d] = "handing" => d # c /\ pc[d] = "handing" /\ req'[d] = req[d]
    OBVIOUS
  <2>. QED BY <2>1 DEF HandingInv
<1>9. ASSUME NEW i \in DOMAIN wasted' PROVE value'[wasted'[i]] = Null
  <2>1. i \in DOMAIN Lease.wasted /\ wasted'[i] = Lease.wasted[i]
    OBVIOUS
  <2>2. CASE \E j \in DOMAIN wasted : Lease.wasted[i] = wasted[j]
    BY <1>1, <2>1, <2>2
  <2>3. CASE \E j \in Dropped : Lease.wasted[i] = available[j].cell
    BY <1>1, <2>1, <2>3
  <2>. QED BY <1>2, <2>1, <2>2, <2>3
<1>10. \A x \in Cells : value'[x] # Null => value'[x].epoch <= epoch
  BY <1>1 DEF ValueInv
<1>. QED BY <1>3, <1>4, <1>5, <1>6, <1>7, <1>8, <1>9, <1>10

\* get() up to the point where it gives up the pool's mutex.
LEMMA GetInv == ASSUME Inv, NEW c \in Clients, NEW w \in Nat, get(c, w) PROVE Inv'
<1> USE DEF Inv
<1> DEFINE r == [NoReq EXCEPT !.start = now, !.epoch = epoch]
           x == Lease.cell
<1>1. pc[c] = "start" /\ UNCHANGED <<now, disabled, queueVars, expired, epoch>>
  BY DEF get
<1>2. /\ r \in Req /\ r.cell = Null /\ r.err = "ok" /\ r.start = now /\ r.epoch = epoch
  BY DEF NoReq, Req, Errs, Types, ClockTypes
<1>3. CASE disabled
  <2>1. /\ pc' = [pc EXCEPT ![c] = "posted"] /\ req' = [req EXCEPT ![c] = Refused(r, "disabled")]
        /\ UNCHANGED <<cellVars, listVars>>
    BY <1>3 DEF get
  <2> HIDE DEF r
  <2>2. /\ Refused(r, "disabled") \in Req /\ Refused(r, "disabled").err = "disabled"
        /\ Refused(r, "disabled").cell = Null /\ Refused(r, "disabled").start = now
        /\ Refused(r, "disabled").epoch = epoch
    BY <1>2, ReqFacts DEF Errs
  <2> DEFINE s == Refused(r, "disabled")
  <2>3. /\ s \in Req /\ s.cell = Null /\ s.err # "ok" /\ s.start <= now /\ s.epoch <= epoch
        /\ req' = [req EXCEPT ![c] = s]
    BY <2>1, <2>2 DEF Types, ClockTypes
  <2> HIDE DEF s
  <2>. QED BY <1>1, <2>1, <2>3, GetDisabledInv
<1>4. CASE ~disabled
  <2>1. /\ available' = Lease.available /\ wasted' = Lease.wasted /\ UNCHANGED reset_time
        /\ value' = [y \in Cells |-> IF \E i \in Dropped : available[i].cell = y
                                     THEN Null ELSE value[y]]
        /\ x # Null => /\ used' = used \cup {x}
                       /\ waste_on_recycle' = [waste_on_recycle EXCEPT ![x] = @ /\ ~Lease.fresh]
                       /\ pc' = [pc EXCEPT ![c] = "posted"]
                       /\ req' = [req EXCEPT ![c] = Served(r, x)]
        /\ x = Null => /\ UNCHANGED <<used, waste_on_recycle>>
                       /\ pc' = [pc EXCEPT ![c] = IF w = 0 THEN "posted" ELSE "push"]
                       /\ req' = [req EXCEPT ![c] =
                            IF w = 0 THEN Refused(r, "get_resource_timeout")
                            ELSE [r EXCEPT !.wait = w]]
    BY <1>4 DEF get
  <2>2. /\ Lease.available \in Seq(Entry) /\ Lease.wasted \in Seq(Cells)
        /\ x \in Cells \cup {Null} /\ Lease.fresh \in BOOLEAN
        /\ x # Null => Partition(Lease.available, Lease.wasted, used \cup {x})
        /\ x = Null => Partition(Lease.available, Lease.wasted, used)
        /\ x # Null /\ ~Lease.fresh => \E j \in DOMAIN available :
              j \notin Dropped /\ x = available[j].cell /\ available[j].drop > now
        /\ x # Null /\ Lease.fresh => \/ \E j \in DOMAIN wasted : x = wasted[j]
                                      \/ \E j \in Dropped : x = available[j].cell
    BY LeaseFacts
  <2>3. /\ value' \in [Cells -> Conn \cup {Null}]
        /\ \A y \in Cells : value'[y] # Null => value'[y] = value[y]
        /\ \A y \in used : value'[y] = value[y]
        /\ \A i \in Dropped : i \in DOMAIN available /\ value'[available[i].cell] = Null
        /\ \A j \in DOMAIN wasted : value'[wasted[j]] = Null
    BY <2>1, LeaseValues
  <2> DEFINE s == IF x # Null THEN Served(r, x)
                  ELSE IF w = 0 THEN Refused(r, "get_resource_timeout") ELSE [r EXCEPT !.wait = w]
             p == IF x = Null /\ w # 0 THEN "push" ELSE "posted"
  <2>4. pc' = [pc EXCEPT ![c] = p] /\ req' = [req EXCEPT ![c] = s]
    BY <2>1
  <2>5. /\ s \in Req /\ s.cell = x /\ s.start = now /\ s.epoch = epoch
        /\ p = "push" => s.err = "ok" /\ x = Null
        /\ p = "posted" => (s.err = "ok" <=> x # Null)
        /\ p \in {"push", "posted"}
    <3>1. CASE x # Null
      <4> HIDE DEF r
      <4>1. /\ Served(r, x) \in Req /\ Served(r, x).err = "ok" /\ Served(r, x).cell = x
            /\ Served(r, x).start = now /\ Served(r, x).epoch = epoch
        BY <1>2, <2>2, <3>1, ReqFacts
      <4>. QED BY <3>1, <4>1
    <3>2. CASE x = Null /\ w = 0
      <4> HIDE DEF r
      <4> DEFINE t == Refused(r, "get_resource_timeout")
      <4>1. /\ t \in Req /\ t.err = "get_resource_timeout" /\ t.cell = Null /\ t.start = now /\ t.epoch = epoch
        BY <1>2, ReqFacts DEF Errs
      <4> HIDE DEF t
      <4>2. s = t /\ p = "posted"
        BY <3>2 DEF t
      <4>. QED BY <3>2, <4>1, <4>2
    <3>3. CASE x = Null /\ w # 0
      <4> DEFINE t == [r EXCEPT !.wait = w]
      <4>1. /\ t \in Req /\ t.err = "ok" /\ t.cell = Null /\ t.start = now /\ t.epoch = epoch
        BY <1>2 DEF Req, NoReq
      <4> HIDE DEF t
      <4>2. s = t /\ p = "push"
        BY <3>3 DEF t
      <4>. QED BY <3>3, <4>1, <4>2
    <3>. QED BY <3>1, <3>2, <3>3
  <2> HIDE DEF r, s, p
  <2>6. /\ pc' \in [Clients -> PcOf] /\ pc'[c] = p /\ \A d \in Clients : d # c => pc'[d] = pc[d]
        /\ req' \in [Clients -> Req] /\ req'[c] = s /\ \A d \in Clients : d # c => req'[d] = req[d]
    <3>1. p \in PcOf
      BY <2>5 DEF PcOf
    <3>. QED BY <2>4, <2>5, <3>1 DEF Types, CallTypes
  <2>7. /\ CallTimes' /\ IdleSound' /\ UsingSound' /\ HandingSound' /\ HandingInv'
        /\ \A d \in Clients : d # c /\ req[d].cell # Null => value'[req[d].cell] = value[req[d].cell]
        /\ \A j \in DOMAIN wasted' : value'[wasted'[j]] = Null
        /\ \A y \in Cells : value'[y] # Null => value'[y].epoch <= epoch
    BY <1>1, <2>1, <2>5, <2>6, GetLists
  <2>8. /\ x # Null => x \in Cells /\ x \notin used
        /\ used' = IF x # Null THEN used \cup {x} ELSE used
        /\ waste_on_recycle' \in [Cells -> BOOLEAN]
        /\ \A y \in Cells : y # x => waste_on_recycle'[y] = waste_on_recycle[y]
    <3>1. x # Null => x \in Cells /\ x \notin used
      <4>1. \A i \in DOMAIN available : available[i].cell \notin used
        BY DEF ListInv, Partition
      <4>2. \A i \in DOMAIN wasted : wasted[i] \notin used
        BY DEF ListInv, Partition
      <4>. QED BY <2>2, <2>3, <4>1, <4>2
    <3> HIDE DEF x
    <3>2. waste_on_recycle' \in [Cells -> BOOLEAN]
      BY <2>1, <2>2 DEF Types, CellTypes
    <3>3. \A y \in Cells : y # x => waste_on_recycle'[y] = waste_on_recycle[y]
      BY <2>1 DEF Types, CellTypes
    <3>. QED BY <2>1, <3>1, <3>2, <3>3
  <2>9. Types'
    <3>1. ClockTypes' /\ QueueTypes'
      BY <1>1 DEF Types, ClockTypes, QueueTypes, queueVars
    <3>2. CellTypes'
      BY <2>1, <2>3, <2>8 DEF Types, CellTypes
    <3>3. ListTypes'
      <4>1. \A y \in used' : y \in Cells
        BY <2>8 DEF Types, ListTypes
      <4>. QED BY <2>1, <2>2, <4>1 DEF ListTypes
    <3>. QED BY <2>6, <3>1, <3>2, <3>3 DEF Types, CallTypes
  <2>10. CallInv'
    BY <1>1, <2>5, <2>6 DEF CallInv
  <2>11. ListInv'
    <3> HIDE DEF x
    <3>. QED BY <2>1, <2>2, <2>8 DEF ListInv
  <2>12. req[c].cell = Null /\ req'[c].cell = x /\ \A d \in Clients : d # c => req'[d].cell = req[d].cell
    BY <1>1, <2>5, <2>6 DEF CallInv
  <2>13. OwnerInv'
    <3> HIDE DEF x
    <3>1. \A d \in Clients : x # Null => req[d].cell # x
      BY <2>8 DEF OwnerInv
    <3>2. \A y \in Cells : y \in used' <=> \E d \in Clients : req'[d].cell = y
      BY <2>8, <2>12, NullFacts DEF OwnerInv
    <3>3. \A d, e \in Clients : req'[d].cell # Null /\ req'[d].cell = req'[e].cell => d = e
      BY <2>12, <3>1 DEF OwnerInv
    <3>. QED BY <3>2, <3>3 DEF OwnerInv
  <2>14. ValueInv'
    <3>1. \A d \in Clients : pc'[d] \in {"using", "connecting"} =>
             d # c /\ pc[d] = pc'[d] /\ value'[req'[d].cell] = value[req[d].cell]
      BY <2>5, <2>6, <2>7 DEF CallInv
    <3>2. \A d \in Clients : pc'[d] = "using" => value'[req'[d].cell] # Null
      BY <3>1 DEF ValueInv
    <3>3. \A d \in Clients : pc'[d] = "connecting" => value'[req'[d].cell] = Null
      BY <3>1 DEF ValueInv
    <3>. QED BY <1>1, <2>7, <3>2, <3>3 DEF ValueInv
  <2>15. QueueInv' /\ TimerInv'
    <3>1. QueueInv'
      BY <1>1, <2>5, <2>6 DEF QueueInv, queueVars
    <3>. QED BY <1>1, <3>1, SameTimers DEF queueVars
  <2>16. UsedSound'
    <3>1. \A y \in used : value'[y] # Null /\ ~waste_on_recycle'[y] => value'[y].epoch = epoch
      <4>1. \A y \in used : y # x /\ y \in Cells
        BY <2>2, <2>8, NullFacts DEF Types, ListTypes
      <4> HIDE DEF x
      <4>. QED BY <2>3, <2>8, <4>1 DEF SoundInv, UsedSound
    <3>2. x # Null /\ value'[x] # Null => value'[x].epoch = epoch
      <4>1. x # Null /\ Lease.fresh => value'[x] = Null
        BY <2>2, <2>3
      <4>2. ASSUME x # Null, ~Lease.fresh, value'[x] # Null PROVE value'[x].epoch = epoch
        <5>1. PICK j \in DOMAIN available : x = available[j].cell
          BY <2>2, <4>2
        <5>2. value'[x] = value[x]
          BY <2>3, <2>8, <4>2
        <5>. QED BY <4>2, <5>1, <5>2 DEF SoundInv, IdleSound
      <4>. QED BY <4>1, <4>2
    <3>. QED BY <1>1, <2>8, <3>1, <3>2 DEF UsedSound
  <2>17. PostedSound'
    <3>1. ASSUME x # Null, value'[x] # Null PROVE Fresh(value'[x], reset_time[x], s) /\ Clean(value'[x])
      <4>1. ~Lease.fresh
        BY <2>2, <2>3, <3>1
      <4>2. PICK j \in DOMAIN available : x = available[j].cell /\ available[j].drop > now
        BY <2>2, <3>1, <4>1
      <4>3. value'[x] = value[x] /\ x \in Cells
        BY <2>3, <2>8, <3>1
      <4>4. Clean(value[x]) /\ value[x].epoch = epoch /\ available[j].drop <= reset_time[x] + Lifespan
        BY <3>1, <4>2, <4>3 DEF SoundInv, IdleSound
      <4>5. reset_time[x] + Lifespan > now
        <5>1. available[j].drop \in Int /\ now \in Int /\ Lifespan \in Int /\ reset_time[x] \in Int
          BY <4>3, ListFacts, PoolAssumption DEF Types, CellTypes, ClockTypes
        <5> DEFINE a == available[j].drop
                   b == reset_time[x]
        <5>2. a > now /\ a <= b + Lifespan /\ a \in Int /\ b \in Int
          BY <4>2, <4>4, <5>1
        <5> HIDE DEF a, b
        <5>3. b + Lifespan > now
          BY <5>1, <5>2
        <5>. QED BY <5>3 DEF b
      <4>6. epoch >= epoch
        BY DEF Types, ClockTypes
      <4>. QED BY <2>5, <4>3, <4>4, <4>5, <4>6 DEF Fresh
    <3>2. \A d \in Clients : pc'[d] = "posted" /\ d # c /\ req'[d].cell # Null =>
             pc[d] = "posted" /\ req'[d] = req[d] /\ value'[req[d].cell] = value[req[d].cell]
      BY <2>6, <2>7
    <3>. QED BY <2>1, <2>6, <2>12, <3>1, <3>2 DEF SoundInv, PostedSound
  <2>. QED BY <2>7, <2>9, <2>10, <2>11, <2>13, <2>14, <2>15, <2>16, <2>17 DEF SoundInv
<1>. QED BY <1>3, <1>4

\* What a client gives back: the connection of its cell as it leaves it, which
\* recycle() takes only when it is clean.
Given(c, v, wasting) ==
    /\ pc[c] \in {"connecting", "using"}
    /\ v \in Conn \cup {Null}
    /\ v # Null => value[req[c].cell] # Null /\ v.epoch = value[req[c].cell].epoch
    /\ ~wasting /\ v # Null => Clean(v)

\* A return that nobody waits for ends the call of c and leaves the connection u,
\* or none, in its cell, which goes into one of the two lists.
Returned(c, u) ==
    LET x == req[c].cell IN
    /\ pc' = [pc EXCEPT ![c] = "done"] /\ req' = [req EXCEPT ![c] = NoReq]
    /\ UNCHANGED <<now, disabled, expired, epoch, queueVars, reset_time, waste_on_recycle>>
    /\ value' = [value EXCEPT ![x] = u]
    /\ used' = used \ {x} /\ Partition(available', wasted', used')
    /\ available' \in Seq(Entry) /\ wasted' \in Seq(Cells)
    /\ \A i \in DOMAIN available' :
          \/ \E j \in DOMAIN available : available'[i] = available[j]
          \/ /\ available'[i].cell = x /\ available'[i].drop <= reset_time[x] + Lifespan
             /\ u # Null => Clean(u) /\ u.epoch = epoch
    /\ \A i \in DOMAIN wasted' :
          (\E j \in DOMAIN wasted : wasted'[i] = wasted[j]) \/ (wasted'[i] = x /\ u = Null)

\* Such a return keeps what is known of the other cells and calls.
LEMMA ReturnedInv ==
    ASSUME Inv, NEW c \in Clients, pc[c] \in {"connecting", "using"},
           NEW u \in Conn \cup {Null}, u # Null => u.epoch <= epoch, Returned(c, u)
    PROVE  Inv'
<1>0. /\ pc' = [pc EXCEPT ![c] = "done"] /\ req' = [req EXCEPT ![c] = NoReq]
      /\ UNCHANGED <<now, disabled, expired, epoch, queueVars, reset_time, waste_on_recycle>>
      /\ value' = [value EXCEPT ![req[c].cell] = u]
      /\ used' = used \ {req[c].cell} /\ Partition(available', wasted', used')
      /\ available' \in Seq(Entry) /\ wasted' \in Seq(Cells)
      /\ \A i \in DOMAIN available' :
            \/ \E j \in DOMAIN available : available'[i] = available[j]
            \/ /\ available'[i].cell = req[c].cell
               /\ available'[i].drop <= reset_time[req[c].cell] + Lifespan
               /\ u # Null => Clean(u) /\ u.epoch = epoch
      /\ \A i \in DOMAIN wasted' : \/ \E j \in DOMAIN wasted : wasted'[i] = wasted[j]
                                   \/ wasted'[i] = req[c].cell /\ u = Null
  BY DEF Returned
<1> USE <1>0 DEF Inv
<1> DEFINE x == req[c].cell
<1>1. \A d \in Clients : req[d] \in Req /\ pc[d] \in PcOf
  BY DEF Types, CallTypes
<1>2. x # Null
  BY DEF CallInv
<1>3. /\ x \in Cells /\ x \in used /\ \A d \in Clients : d # c => req[d].cell # x
      /\ \A i \in DOMAIN available : available[i].cell # x
      /\ \A j \in DOMAIN wasted : wasted[j] # x
  BY <1>2, CellFacts
<1>4. /\ value' \in [Cells -> Conn \cup {Null}] /\ value'[x] = u
      /\ \A y \in Cells : y # x => value'[y] = value[y]
  BY <1>3 DEF Types, CellTypes
<1>5. /\ pc' \in [Clients -> PcOf] /\ pc'[c] = "done" /\ \A d \in Clients : d # c => pc'[d] = pc[d]
      /\ req' \in [Clients -> Req] /\ req'[c] = NoReq /\ \A d \in Clients : d # c => req'[d] = req[d]
  BY NoReqFacts DEF Types, CallTypes, PcOf
<1>6. \A d \in Clients : d # c /\ req[d].cell # Null => value'[req[d].cell] = value[req[d].cell]
  BY <1>3, <1>4, CellFacts
<1>7. Types'
  <2>1. ClockTypes' /\ QueueTypes' /\ CallTypes'
    BY <1>5 DEF Types, ClockTypes, QueueTypes, CallTypes, queueVars
  <2>2. CellTypes'
    BY <1>4 DEF Types, CellTypes
  <2>3. ListTypes'
    BY DEF Types, ListTypes
  <2>. QED BY <2>1, <2>2, <2>3 DEF Types
<1>8. CallInv' /\ HandingInv'
  <2>1. CallInv'
    BY <1>5, NoReqFacts DEF CallInv
  <2>2. HandingInv'
    BY <1>5 DEF HandingInv
  <2>. QED BY <2>1, <2>2
<1>9. ListInv'
  BY DEF ListInv
<1>10. OwnerInv'
  <2>1. \A y \in Cells : y \in used' <=> \E d \in Clients : req'[d].cell = y
    BY <1>3, <1>5, NoReqFacts, NullFacts DEF OwnerInv
  <2>2. \A d, e \in Clients : req'[d].cell # Null /\ req'[d].cell = req'[e].cell => d = e
    BY <1>5, NoReqFacts DEF OwnerInv
  <2>. QED BY <2>1, <2>2 DEF OwnerInv
<1>11. ValueInv'
  <2>1. ASSUME NEW i \in DOMAIN wasted' PROVE value'[wasted'[i]] = Null
    <3>1. CASE \E j \in DOMAIN wasted : wasted'[i] = wasted[j]
      BY <1>3, <1>4, <3>1, ListFacts DEF ValueInv
    <3>2. CASE wasted'[i] = x /\ u = Null
      BY <1>4, <3>2
    <3>. QED BY <3>1, <3>2
  <2>2. \A d \in Clients : pc'[d] \in {"using", "connecting"} =>
           pc[d] = pc'[d] /\ req'[d] = req[d] /\ value'[req[d].cell] = value[req[d].cell]
    BY <1>5, <1>6 DEF CallInv
  <2>3. \A d \in Clients : pc'[d] = "using" => value'[req'[d].cell] # Null
    BY <2>2 DEF ValueInv
  <2>4. \A d \in Clients : pc'[d] = "connecting" => value'[req'[d].cell] = Null
    BY <2>2 DEF ValueInv
  <2>5. \A y \in Cells : value'[y] # Null => value'[y].epoch <= epoch'
    BY <1>4 DEF ValueInv
  <2>. QED BY <2>1, <2>3, <2>4, <2>5 DEF ValueInv
<1>12. QueueInv' /\ TimerInv'
  <2>1. QueueInv'
    BY <1>5 DEF QueueInv, queueVars
  <2>. QED BY <2>1, SameTimers DEF queueVars
<1>13. SoundInv'
  <2>1. CallTimes'
    BY <1>5, NoReqFacts DEF SoundInv, CallTimes, Types, ClockTypes
  <2>2. IdleSound'
    <3>1. ASSUME NEW i \in DOMAIN available'
          PROVE  /\ available'[i].drop <= reset_time[available'[i].cell] + Lifespan
                 /\ value'[available'[i].cell] # Null =>
                     Clean(value'[available'[i].cell]) /\ value'[available'[i].cell].epoch = epoch
      <4>1. CASE \E j \in DOMAIN available : available'[i] = available[j]
        BY <1>3, <1>4, <4>1, ListFacts DEF SoundInv, IdleSound
      <4>2. CASE ~(\E j \in DOMAIN available : available'[i] = available[j])
        BY <1>4, <4>2
      <4>. QED BY <4>1, <4>2
    <3>. QED BY <3>1 DEF IdleSound
  <2>3. UsedSound'
    BY <1>4 DEF SoundInv, UsedSound, Types, ListTypes
  <2>4. PostedSound'
    BY <1>5, <1>6 DEF SoundInv, PostedSound
  <2>5. UsingSound'
    BY <1>5, <1>6 DEF SoundInv, UsingSound, CallInv
  <2>6. HandingSound'
    <3>1. \A d \in Clients : pc'[d] = "handing" =>
             /\ pc[d] = "handing" /\ req'[d] = req[d] /\ value'[req[d].cell] = value[req[d].cell]
             /\ req[d].next \in Clients /\ req'[req[d].next] = req[req[d].next]
      BY <1>5, <1>6 DEF CallInv
    <3>. QED BY <3>1 DEF SoundInv, HandingSound
  <2>. QED BY <2>1, <2>2, <2>3, <2>4, <2>5, <2>6 DEF SoundInv
<1>. QED BY <1>7, <1>8, <1>9, <1>10, <1>11, <1>12, <1>13

\* The locked part of a return, when nobody waits.
LEMMA ReturnInv ==
    ASSUME Inv, NEW c \in Clients, NEW v, NEW wasting \in BOOLEAN, Given(c, v, wasting),
           GiveBack(c, v, wasting), queue = <<>>
    PROVE  Inv'
<1> USE DEF Inv
<1> DEFINE x == req[c].cell
           e == [cell |-> x, drop |-> DropTime(x)]
<1>1. /\ pc' = [pc EXCEPT ![c] = "done"] /\ req' = [req EXCEPT ![c] = NoReq]
      /\ UNCHANGED <<now, disabled, expired, epoch, queueVars>>
      /\ IF wasting THEN StorageWaste(x) ELSE StorageRecycle(x, v)
  BY DEF GiveBack
<1>2. x \in Cells /\ x \in used /\ pc[c] \in {"connecting", "using"}
  BY CellFacts DEF CallInv, Given
<1>3. /\ available \in Seq(Entry) /\ wasted \in Seq(Cells) /\ Partition(available, wasted, used)
      /\ \A i \in DOMAIN available : \E j \in DOMAIN available : available[i] = available[j]
      /\ \A i \in DOMAIN wasted : \E j \in DOMAIN wasted : wasted[i] = wasted[j]
  BY DEF Types, ListTypes, ListInv
<1>4. CASE StorageWaste(x)
  <2>1. /\ value' = [value EXCEPT ![x] = Null] /\ wasted' = Append(wasted, x) /\ used' = used \ {x}
        /\ UNCHANGED <<available, reset_time, waste_on_recycle>>
    BY <1>4 DEF StorageWaste
  <2>2. /\ wasted' \in Seq(Cells)
        /\ \A i \in DOMAIN wasted' : (\E j \in DOMAIN wasted : wasted'[i] = wasted[j]) \/ wasted'[i] = x
    <3> HIDE DEF x
    <3>1. /\ Append(wasted, x) \in Seq(Cells)
          /\ \A i \in DOMAIN Append(wasted, x) :
                \/ i \in DOMAIN wasted /\ Append(wasted, x)[i] = wasted[i]
                \/ i = Len(wasted) + 1 /\ Append(wasted, x)[i] = x
      BY <1>2, <1>3, AppendFacts
    <3>. QED BY <2>1, <3>1
  <2>3. Partition(available', wasted', used')
    <3> HIDE DEF x
    <3>1. Partition(available, Append(wasted, x), used \ {x})
      BY <1>2, <1>3, PutEmpty
    <3>. QED BY <2>1, <3>1
  <2>4. Returned(c, Null)
    BY <1>1, <1>3, <2>1, <2>2, <2>3 DEF Returned
  <2>. QED BY <1>2, <2>4, ReturnedInv
<1>5. CASE ~wasting /\ is_valid(x) /\ StorageRecycle(x, v)
  <2>1. /\ available' = Append(available, e) /\ used' = used \ {x} /\ value' = [value EXCEPT ![x] = v]
        /\ UNCHANGED <<wasted, reset_time, waste_on_recycle>>
    BY <1>5 DEF StorageRecycle
  <2>2. e \in Entry /\ e.cell = x /\ e.drop <= reset_time[x] + Lifespan
    <3>1. now \in Int /\ IdleTimeout \in Int /\ Lifespan \in Int /\ reset_time[x] \in Int
      BY <1>2, PoolAssumption DEF Types, ClockTypes, CellTypes
    <3>2. DropTime(x) \in Int /\ DropTime(x) <= reset_time[x] + Lifespan
      <4> DEFINE b == reset_time[x]
      <4>1. b \in Int /\ DropTime(x) = IF now + IdleTimeout < b + Lifespan THEN now + IdleTimeout ELSE b + Lifespan
        BY <3>1 DEF DropTime, LifeEnd
      <4> HIDE DEF b
      <4>2. DropTime(x) \in Int /\ DropTime(x) <= b + Lifespan
        BY <3>1, <4>1
      <4>. QED BY <4>2 DEF b
    <3>. QED BY <1>2, <3>2 DEF Entry
  <2>3. v # Null => Clean(v) /\ v.epoch = epoch
    BY <1>2, <1>5 DEF Given, is_valid, SoundInv, UsedSound
  <2>4. v \in Conn \cup {Null} /\ (v # Null => v.epoch <= epoch)
    BY <2>3 DEF Given, Types, ClockTypes
  <2> HIDE DEF e
  <2>5. /\ available' \in Seq(Entry)
        /\ \A i \in DOMAIN available' : (\E j \in DOMAIN available : available'[i] = available[j])
                                        \/ available'[i] = e
    <3>1. /\ Append(available, e) \in Seq(Entry)
          /\ \A i \in DOMAIN Append(available, e) :
                \/ i \in DOMAIN available /\ Append(available, e)[i] = available[i]
                \/ i = Len(available) + 1 /\ Append(available, e)[i] = e
      BY <1>3, <2>2, AppendFacts
    <3>. QED BY <2>1, <3>1
  <2>6. Partition(available', wasted', used')
    <3>1. Partition(Append(available, e), wasted, used \ {e.cell})
      BY <1>2, <1>3, <2>2, PutIdle
    <3>. QED BY <2>1, <2>2, <3>1
  <2>7. \A i \in DOMAIN available' :
              \/ \E j \in DOMAIN available : available'[i] = available[j]
              \/ /\ available'[i].cell = x
                 /\ available'[i].drop <= reset_time[x] + Lifespan
                 /\ v # Null => Clean(v) /\ v.epoch = epoch
    BY <2>2, <2>3, <2>5
  <2>8. /\ wasted' \in Seq(Cells)
        /\ \A i \in DOMAIN wasted' : \/ \E j \in DOMAIN wasted : wasted'[i] = wasted[j]
                                     \/ wasted'[i] = x /\ v = Null
    BY <1>3, <2>1
  <2>9. UNCHANGED <<now, disabled, expired, epoch, queueVars, reset_time, waste_on_recycle>>
    BY <1>1, <2>1
  <2>10. Returned(c, v)
    BY <1>1, <2>1, <2>5, <2>6, <2>7, <2>8, <2>9 DEF Returned
  <2>. QED BY <1>2, <2>4, <2>10, ReturnedInv
<1>6. StorageWaste(x) \/ (~wasting /\ is_valid(x) /\ StorageRecycle(x, v))
  <2>1. CASE wasting
    BY <1>1, <2>1
  <2>2. CASE ~wasting /\ is_valid(x)
    BY <1>1, <2>2
  <2>3. CASE ~wasting /\ ~is_valid(x)
    <3>1. StorageRecycle(x, v)
      BY <1>1, <2>3
    <3>. QED BY <2>3, <3>1 DEF StorageRecycle
  <2>. QED BY <2>1, <2>2, <2>3
<1> HIDE DEF e
<1> HIDE DEF x, Inv
<1>. QED BY <1>4, <1>5, <1>6

\* The locked part of a return, when the first client of the queue is to have the
\* cell.
LEMMA PassInv ==
    ASSUME Inv, NEW c \in Clients, NEW v, NEW wasting \in BOOLEAN, Given(c, v, wasting),
           GiveBack(c, v, wasting), queue # <<>>
    PROVE  Inv'
<1> USE DEF Inv
<1> DEFINE x == req[c].cell
           d == Head(queue).client
           wipe == wasting \/ ~is_valid(x)
           q == Tail(queue)
           r == [req[c] EXCEPT !.next = d, !.wipe = wipe]
<1>1. /\ SetQueue(q) /\ pc' = [pc EXCEPT ![c] = "handing", ![d] = "popped"]
      /\ req' = [req EXCEPT ![c].next = d, ![c].wipe = wipe]
      /\ value' = [value EXCEPT ![x] = v]
      /\ UNCHANGED <<reset_time, waste_on_recycle, listVars, now, disabled, expired, epoch>>
  BY DEF GiveBack, pop
<1>2. /\ x \in Cells /\ x \in used /\ \A e \in Clients : e # c => req[e].cell # x
      /\ \A i \in DOMAIN available : available[i].cell # x
      /\ \A j \in DOMAIN wasted : wasted[j] # x
      /\ pc[c] \in {"connecting", "using"}
  <2>1. x # Null
    BY DEF CallInv, Given
  <2>. QED BY <2>1, CellFacts DEF Given
<1>3. /\ queue \in Seq(Request) /\ q \in Seq(Request) /\ Len(q) = Len(queue) - 1
      /\ Head(queue) = queue[1] /\ 1 \in DOMAIN queue
      /\ \A i \in DOMAIN q : i + 1 \in DOMAIN queue /\ q[i] = queue[i + 1] /\ i \in Nat /\ i # 0
      /\ \A i \in DOMAIN queue : i = 1 \/ (i - 1 \in DOMAIN q /\ q[i - 1] = queue[i])
  <2>1. queue \in Seq(Request)
    BY DEF Types, QueueTypes
  <2>. QED BY <2>1, TailFacts
<1> HIDE DEF q
<1>4. d \in Clients /\ pc[d] = "queued" /\ d # c /\ req[d].cell = Null /\ req[d].err = "ok"
  <2>1. d \in Clients /\ pc[d] = "queued"
    BY <1>3, ListFacts DEF QueueInv
  <2>. QED BY <1>2, <2>1 DEF CallInv
<1> HIDE DEF d
<1>5. wipe \in BOOLEAN
  BY DEF is_valid
<1>6. ~wipe => ~wasting /\ ~waste_on_recycle[x] /\ reset_time[x] + Lifespan > now
  BY DEF is_valid, LifeEnd
<1> HIDE DEF wipe
<1>7. r \in Req /\ r.cell = x /\ r.next = d /\ r.wipe = wipe /\ r.err = req[c].err
      /\ r.start = req[c].start /\ r.epoch = req[c].epoch
  <2> DEFINE s == req[c]
  <2>1. s \in Req
    BY DEF Types, CallTypes
  <2> HIDE DEF s
  <2>2. [s EXCEPT !.next = d, !.wipe = wipe] \in Req
    BY <1>4, <1>5, <2>1, ReqFacts
  <2>3. LET t == [s EXCEPT !.next = d, !.wipe = wipe]
        IN t.cell = s.cell /\ t.next = d /\ t.wipe = wipe /\ t.err = s.err /\ t.start = s.start /\ t.epoch = s.epoch
    BY <2>1 DEF Req
  <2>. QED BY <2>2, <2>3 DEF s
<1>8. req' = [req EXCEPT ![c] = r]
  BY <1>1 DEF Types, CallTypes
<1> HIDE DEF r
<1>9. /\ pc' \in [Clients -> PcOf] /\ pc'[c] = "handing" /\ pc'[d] = "popped"
      /\ \A e \in Clients : e # c /\ e # d => pc'[e] = pc[e]
      /\ req' \in [Clients -> Req] /\ req'[c] = r /\ \A e \in Clients : e # c => req'[e] = req[e]
  <2>1. /\ pc' \in [Clients -> PcOf] /\ pc'[c] = "handing" /\ pc'[d] = "popped"
        /\ \A e \in Clients : e # c /\ e # d => pc'[e] = pc[e]
    BY <1>1, <1>4 DEF Types, CallTypes, PcOf
  <2>2. req' \in [Clients -> Req] /\ req'[c] = r /\ \A e \in Clients : e # c => req'[e] = req[e]
    BY <1>7, <1>8 DEF Types, CallTypes
  <2>. QED BY <2>1, <2>2
<1>10. /\ value' \in [Cells -> Conn \cup {Null}] /\ value'[x] = v
       /\ \A y \in Cells : y # x => value'[y] = value[y]
  <2> HIDE DEF x
  <2>. QED BY <1>1, <1>2 DEF Types, CellTypes, Given
<1>11. \A e \in Clients : req'[e].cell = req[e].cell
  BY <1>7, <1>9
<1>12. v # Null => v.epoch <= epoch /\ value[x] # Null /\ v.epoch = value[x].epoch
  BY <1>2 DEF Given, ValueInv
<1>13. \A e \in Clients : pc'[e] = "handing" /\ e # c =>
          /\ e # d /\ pc[e] = "handing" /\ req'[e] = req[e] /\ req[e].next \in Clients
          /\ req[e].next # c /\ req[e].next # d /\ pc[req[e].next] = "popped"
  BY <1>2, <1>4, <1>9 DEF CallInv
<1>14. \A e \in Clients : e # c /\ req[e].cell # Null => value'[req[e].cell] = value[req[e].cell]
  BY <1>2, <1>10, CellFacts
<1>15. TimerInv' /\ timers' \in [Contexts -> Nat \cup {Null}] /\ queue' = q
  BY <1>1, <1>3, SetQueueInv
<1> HIDE DEF x
<1>16. Types'
  <2>1. ClockTypes' /\ ListTypes'
    BY <1>1 DEF Types, ClockTypes, ListTypes, listVars
  <2>2. CellTypes'
    BY <1>1, <1>10 DEF Types, CellTypes
  <2>3. QueueTypes'
    BY <1>1, <1>3, <1>15 DEF Types, QueueTypes
  <2>. QED BY <1>9, <2>1, <2>2, <2>3 DEF Types, CallTypes
<1>17. CallInv'
  <2>1. ASSUME NEW e \in Clients
        PROVE  /\ pc'[e] \in {"start", "push", "queued", "popped", "done"} => req'[e].cell = Null
               /\ pc'[e] \in {"push", "queued", "popped"} => req'[e].err = "ok"
               /\ pc'[e] = "posted" => (req'[e].err = "ok" <=> req'[e].cell # Null)
               /\ pc'[e] \in {"connecting", "using", "handing"} => req'[e].cell # Null
               /\ pc'[e] = "handing" => req'[e].next \in Clients /\ pc'[req'[e].next] = "popped"
    <3>1. CASE e = c
      BY <1>2, <1>4, <1>7, <1>9, <3>1, NullFacts
    <3>2. CASE e = d
      BY <1>4, <1>9, <3>2
    <3>3. CASE e # c /\ e # d
      BY <1>9, <1>13, <3>3 DEF CallInv
    <3>. QED BY <3>1, <3>2, <3>3
  <2>. QED BY <2>1 DEF CallInv
<1>18. HandingInv'
  BY <1>7, <1>9, <1>13 DEF HandingInv
<1>19. ListInv' /\ OwnerInv'
  <2>1. ListInv'
    BY <1>1 DEF ListInv, listVars
  <2>2. used' = used
    BY <1>1 DEF listVars
  <2>3. OwnerInv'
    BY <1>11, <2>2 DEF OwnerInv
  <2>. QED BY <2>1, <2>3
<1>20. ValueInv'
  <2>1. \A j \in DOMAIN wasted : value'[wasted[j]] = Null
    BY <1>2, <1>10, ListFacts DEF ValueInv
  <2>2. \A e \in Clients : pc'[e] \in {"using", "connecting"} =>
           pc[e] = pc'[e] /\ req'[e] = req[e] /\ value'[req[e].cell] = value[req[e].cell]
    BY <1>4, <1>9, <1>14 DEF CallInv
  <2>3. \A e \in Clients : pc'[e] = "using" => value'[req'[e].cell] # Null
    BY <2>2 DEF ValueInv
  <2>4. \A e \in Clients : pc'[e] = "connecting" => value'[req'[e].cell] = Null
    BY <2>2 DEF ValueInv
  <2>5. \A y \in Cells : value'[y] # Null => value'[y].epoch <= epoch
    BY <1>10, <1>12 DEF ValueInv
  <2>. QED BY <1>1, <2>1, <2>3, <2>4, <2>5 DEF ValueInv, listVars
<1>21. QueueInv'
  <2>1. Len(q) <= QueueCapacity
    BY <1>3, ListFacts, PoolAssumption DEF QueueInv
  <2>2. \A i, j \in DOMAIN queue : queue[i].client = queue[j].client => i = j
    BY DEF QueueInv
  <2>3. \A i \in DOMAIN q : q[i].client # d
    <3> TAKE i \in DOMAIN q
    <3>1. i + 1 # 1
      BY <1>3
    <3>. QED BY <1>3, <2>2, <3>1 DEF d
  <2>4. ASSUME NEW e \in Clients PROVE pc'[e] = "queued" <=> \E i \in DOMAIN q : q[i].client = e
    <3>1. ASSUME pc'[e] = "queued" PROVE \E i \in DOMAIN q : q[i].client = e
      <4>1. e # d /\ pc[e] = "queued"
        BY <1>9, <3>1
      <4>2. PICK i \in DOMAIN queue : queue[i].client = e
        BY <4>1 DEF QueueInv
      <4>3. i # 1
        BY <1>3, <4>1, <4>2 DEF d
      <4>4. i - 1 \in DOMAIN q /\ q[i - 1] = queue[i]
        BY <1>3, <4>3
      <4>. QED BY <4>2, <4>4
    <3>2. ASSUME NEW i \in DOMAIN q, q[i].client = e PROVE pc'[e] = "queued"
      <4>1. e # d /\ pc[e] = "queued"
        BY <1>3, <2>3, <3>2 DEF QueueInv
      <4>. QED BY <1>2, <1>9, <4>1
    <3>. QED BY <3>1, <3>2
  <2>5. ASSUME NEW i \in DOMAIN q, NEW j \in DOMAIN q, q[i].client = q[j].client PROVE i = j
    <3>1. i + 1 = j + 1
      BY <1>3, <2>2, <2>5
    <3>. QED BY <1>3, <3>1
  <2>. QED BY <1>15, <2>1, <2>4, <2>5 DEF QueueInv
<1>22. SoundInv'
  <2>1. CallTimes'
    BY <1>1, <1>7, <1>9 DEF SoundInv, CallTimes
  <2>2. IdleSound'
    BY <1>1, <1>2, <1>10, ListFacts DEF SoundInv, IdleSound, listVars
  <2>3. UsedSound'
    BY <1>1, <1>10, <1>12 DEF SoundInv, UsedSound, Types, ListTypes, listVars
  <2>4. PostedSound'
    BY <1>1, <1>9, <1>14 DEF SoundInv, PostedSound
  <2>5. UsingSound'
    BY <1>1, <1>9, <1>14 DEF SoundInv, UsingSound, CallInv
  <2>6. ~wipe /\ v # Null => Fresh(v, reset_time[x], req[d]) /\ Clean(v)
    <3> SUFFICES ASSUME ~wipe, v # Null PROVE Fresh(v, reset_time[x], req[d]) /\ Clean(v)
      OBVIOUS
    <3>1. Clean(v)
      BY <1>6 DEF Given
    <3>2. v.epoch = epoch
      BY <1>2, <1>6, <1>12 DEF SoundInv, UsedSound
    <3>3. req[d].start <= now /\ req[d].epoch <= epoch /\ req[d] \in Req
      BY <1>4 DEF SoundInv, CallTimes, Types, CallTypes
    <3>4. reset_time[x] + Lifespan > req[d].start
      <4>1. /\ reset_time[x] \in Int /\ req[d].start \in Int /\ now \in Int /\ Lifespan \in Int
            /\ reset_time[x] + Lifespan > now
        <5>1. req[d].start \in Int
          <6>1. req[d].start \in Nat
            BY <3>3 DEF Req
          <6>. QED BY <6>1
        <5>2. reset_time[x] \in Int /\ now \in Int /\ Lifespan \in Int
          BY <1>2, PoolAssumption DEF Types, ClockTypes, CellTypes
        <5>. QED BY <1>6, <5>1, <5>2
      <4> DEFINE a == reset_time[x]
                 b == req[d].start
      <4>2. a \in Int /\ b \in Int /\ b <= now /\ a + Lifespan > now
        BY <3>3, <4>1
      <4> HIDE DEF a, b
      <4>3. a + Lifespan > b
        BY <4>1, <4>2
      <4>. QED BY <4>3 DEF a, b
    <3>5. v.epoch >= req[d].epoch
      BY <3>2, <3>3, ReqFacts DEF Types, ClockTypes
    <3>. QED BY <3>1, <3>4, <3>5 DEF Fresh
  <2>7. HandingSound'
    <3> SUFFICES ASSUME NEW e \in Clients, pc'[e] = "handing", ~req'[e].wipe, value'[req'[e].cell] # Null
                 PROVE  /\ Fresh(value'[req'[e].cell], reset_time'[req'[e].cell], req'[req'[e].next])
                        /\ Clean(value'[req'[e].cell])
      BY DEF HandingSound
    <3>1. CASE e = c
      <4>1. req'[e].cell = x /\ req'[e].next = d /\ ~wipe /\ req'[d] = req[d] /\ value'[x] = v
        BY <1>4, <1>7, <1>9, <1>10, <3>1
      <4>. QED BY <1>1, <2>6, <4>1
    <3>2. CASE e # c
      <4>1. /\ pc[e] = "handing" /\ req'[e] = req[e] /\ req'[req[e].next] = req[req[e].next]
        BY <1>9, <1>13, <3>2
      <4>2. value'[req[e].cell] = value[req[e].cell]
        BY <1>14, <3>2, <4>1 DEF CallInv
      <4>. QED BY <1>1, <4>1, <4>2 DEF SoundInv, HandingSound
    <3>. QED BY <3>1, <3>2
  <2>. QED BY <2>1, <2>2, <2>3, <2>4, <2>5, <2>7 DEF SoundInv
<1>. QED BY <1>15, <1>16, <1>17, <1>18, <1>19, <1>20, <1>21, <1>22

\* The source made no connection: the cell comes back empty.
LEMMA ConnectFailsInv == ASSUME Inv, NEW c \in Clients, connect_fails(c) PROVE Inv'
<1>1. pc[c] = "connecting" /\ GiveBack(c, value[req[c].cell], FALSE)
  BY DEF connect_fails, recycle
<1>2. value[req[c].cell] = Null
  BY <1>1 DEF Inv, ValueInv
<1>3. Given(c, value[req[c].cell], FALSE)
  BY <1>1, <1>2 DEF Given
<1>. QED BY <1>1, <1>3, ReturnInv, PassInv

\* A user lets its connection go: a bad one, or one in a transaction, is wasted.
LEMMA DestroyInv == ASSUME Inv, NEW c \in Clients, destroy(c) PROVE Inv'
<1> DEFINE o == value[req[c].cell]
<1>1. PICK txn \in BOOLEAN, bad \in BOOLEAN :
        LET v == [o EXCEPT !.txn = txn, !.bad = @ \/ bad]
        IN IF NeedsWaste(v) THEN waste(c, v) ELSE recycle(c, v)
  BY DEF destroy
<1> DEFINE v == [o EXCEPT !.txn = txn, !.bad = @ \/ bad]
<1>2. pc[c] = "using"
  BY DEF destroy
<1>3. o \in Conn /\ o # Null
  <2>1. req[c].cell \in Cells
    BY <1>2, CellFacts DEF Inv, CallInv
  <2>. QED BY <1>2, <2>1 DEF Inv, ValueInv, Types, CellTypes
<1>4. v \in Conn /\ v.epoch = o.epoch /\ v.txn = txn /\ v.bad = (o.bad \/ bad)
  <2> HIDE DEF o
  <2>. QED BY <1>3 DEF Conn
<1>5. /\ NeedsWaste(v) => GiveBack(c, v, TRUE)
      /\ ~NeedsWaste(v) => GiveBack(c, v, FALSE)
  BY <1>1 DEF waste, recycle
<1>6. ~NeedsWaste(v) <=> Clean(v)
  BY DEF NeedsWaste, Clean
<1> HIDE DEF v
<1>7. CASE NeedsWaste(v)
  <2>1. Given(c, v, TRUE)
    BY <1>2, <1>3, <1>4 DEF Given
  <2>. QED BY <1>5, <1>7, <2>1, ReturnInv, PassInv
<1>8. CASE ~NeedsWaste(v)
  <2>1. Given(c, v, FALSE)
    BY <1>2, <1>3, <1>4, <1>6, <1>8 DEF Given
  <2>. QED BY <1>5, <1>8, <2>1, ReturnInv, PassInv
<1>. QED BY <1>7, <1>8

-----------------------------------------------------------------------------
(* The invariant. *)

\* The pool starts with empty cells.
LEMMA InitInv == Init => Inv
<1> SUFFICES ASSUME Init PROVE Inv
  OBVIOUS
<1> USE DEF Init
<1>1. /\ wasted \in Seq(Cells) /\ DOMAIN wasted = Cells
  <2>1. Capacity \in Nat /\ wasted \in [1..Capacity -> Cells]
    BY PoolAssumption DEF Cells
  <2>2. \E m \in Nat : wasted \in [1..m -> Cells]
    BY <2>1
  <2>3. wasted \in UNION {[1..m -> Cells] : m \in Nat}
    BY <2>2, Zenon
  <2>. QED BY <2>1, <2>3, SeqDef
<1>2. \A c \in Clients : req[c] = NoReq /\ pc[c] = "start"
  OBVIOUS
<1>3. Types
  <2>1. ClockTypes
    <3>1. now = 0 /\ disabled = FALSE /\ epoch = 0 /\ MaxInvalidates \in Nat
      BY PoolAssumption
    <3> HIDE DEF Init
    <3>2. disabled \in BOOLEAN
      BY <3>1
    <3>3. now \in Nat /\ epoch \in Nat /\ epoch <= MaxInvalidates
      BY <3>1
    <3>. QED BY <3>2, <3>3 DEF ClockTypes
  <2>2. CellTypes
    BY PoolAssumption DEF CellTypes
  <2>3. ListTypes
    BY <1>1 DEF ListTypes
  <2>4. QueueTypes
    BY DEF QueueTypes
  <2>5. CallTypes
    BY NoReqFacts DEF CallTypes, PcOf
  <2>. QED BY <2>1, <2>2, <2>3, <2>4, <2>5 DEF Types
<1>4. CallInv /\ HandingInv
  BY <1>2, NoReqFacts DEF CallInv, HandingInv
<1>5. ListInv
  BY <1>1 DEF ListInv, Partition
<1>6. OwnerInv
  BY <1>2, NoReqFacts, NullFacts DEF OwnerInv
<1>7. ValueInv
  BY <1>1, <1>2 DEF ValueInv
<1>8. QueueInv /\ TimerInv
  BY <1>2, PoolAssumption DEF QueueInv, TimerInv
<1>9. SoundInv
  <2>1. CallTimes
    BY <1>2, NoReqFacts DEF CallTimes
  <2>2. IdleSound /\ UsedSound
    BY DEF IdleSound, UsedSound
  <2>3. PostedSound /\ UsingSound /\ HandingSound
    BY <1>2 DEF PostedSound, UsingSound, HandingSound
  <2>. QED BY <2>1, <2>2, <2>3 DEF SoundInv
<1>. QED BY <1>3, <1>4, <1>5, <1>6, <1>7, <1>8, <1>9 DEF Inv

\* Every step keeps it.
LEMMA NextInv == Inv /\ [Next]_vars => Inv'
<1> SUFFICES ASSUME Inv, [Next]_vars PROVE Inv'
  OBVIOUS
<1>1. ASSUME NEW c \in Clients, NEW w \in Waits[c], get_connection(c, w) PROVE Inv'
  <2>1. w \in Nat /\ get(c, w)
    BY <1>1, PoolAssumption DEF get_connection
  <2>. QED BY <2>1, GetInv
<1>2. ASSUME NEW c \in Clients, Runs(c) PROVE Inv'
  <2>1. CASE \E bad \in BOOLEAN : connected(c, bad)
    BY <2>1, ConnectedInv
  <2>. QED BY <1>2, <2>1, PushInv, HandoverInv, DeliverInv, ConnectFailsInv DEF Runs
<1>3. ASSUME NEW c \in Clients, destroy(c) PROVE Inv'
  BY <1>3, DestroyInv
<1>4. CASE disable
  BY <1>4, DisableInv
<1>5. CASE invalidate
  BY <1>5, InvalidateInv
<1>6. CASE Timer
  BY <1>6, TimerFiresInv, CancelInv DEF Timer
<1>7. CASE Tick
  BY <1>7, TickInv
<1>8. CASE UNCHANGED vars
  <2> USE <1>8 DEF vars, Inv
  <2>1. Types'
    BY DEF Types, ClockTypes, CellTypes, ListTypes, QueueTypes, CallTypes
  <2>2. CallInv' /\ HandingInv' /\ ListInv' /\ OwnerInv'
    BY DEF CallInv, HandingInv, ListInv, Partition, OwnerInv
  <2>3. ValueInv' /\ QueueInv' /\ TimerInv'
    BY SameTimers DEF ValueInv, QueueInv
  <2>4. SoundInv'
    BY DEF SoundInv, CallTimes, IdleSound, UsedSound, PostedSound, UsingSound, HandingSound
  <2>. QED BY <2>1, <2>2, <2>3, <2>4
<1>. QED BY <1>1, <1>2, <1>3, <1>4, <1>5, <1>6, <1>7, <1>8 DEF Next

\* The inductive invariant of the pool: the types, what each state of a call says
\* about its cell, the partition of the cells, the order of the queue and its
\* timers, and what is known of each connection.
THEOREM Invariance == Spec => []Inv
  BY InitInv, NextInv, PTL DEF Spec

-----------------------------------------------------------------------------
(* What follows from it. *)

\* The types of ResourcePool.
LEMMA InvTypeOK == Inv => TypeOK
<1> SUFFICES ASSUME Inv PROVE TypeOK
  OBVIOUS
<1> USE DEF Inv
<1>1. now \in Nat /\ disabled \in BOOLEAN /\ epoch \in Nat /\ epoch \in 0..MaxInvalidates
  BY PoolAssumption DEF Types, ClockTypes
<1>2. value \in [Cells -> [epoch : 0..epoch, bad : BOOLEAN, txn : BOOLEAN] \cup {Null}]
  <2>1. \A x \in Cells : value[x] = Null \/ (value[x] \in Conn /\ value[x].epoch <= epoch)
    BY DEF Types, CellTypes, ValueInv
  <2>2. \A v \in Conn : v.epoch <= epoch => v \in [epoch : 0..epoch, bad : BOOLEAN, txn : BOOLEAN]
    BY <1>1 DEF Conn
  <2>. QED BY <2>1, <2>2 DEF Types, CellTypes
<1>3. /\ reset_time \in [Cells -> Int] /\ waste_on_recycle \in [Cells -> BOOLEAN]
      /\ available \in Seq([cell : Cells, drop : Int])
      /\ used \subseteq Cells /\ wasted \in Seq(Cells)
  BY DEF Types, CellTypes, ListTypes, Entry
<1>4. /\ queue \in Seq([client : Clients, at : Nat]) /\ Len(queue) <= QueueCapacity
      /\ timers \in [Contexts -> Nat \cup {Null}] /\ expired \subseteq Nat
  BY DEF Types, QueueTypes, Request, QueueInv
<1>5. pc \in [Clients -> {"start", "push", "queued", "popped", "posted", "connecting", "using",
                           "handing", "done"}]
  BY DEF Types, CallTypes, PcOf
<1>6. ASSUME NEW c \in Clients
      PROVE  /\ req[c].cell \in Cells \cup {Null} /\ req[c].next \in Clients \cup {Null}
             /\ req[c].err \in {"ok", "disabled", "get_resource_timeout", "request_queue_overflow"}
             /\ pc[c] \in {"connecting", "using", "handing"} => req[c].cell \in Cells
             /\ pc[c] = "using" => value[req[c].cell] # Null
  <2>1. req[c] \in Req
    BY DEF Types, CallTypes
  <2>2. /\ req[c].cell \in Cells \cup {Null} /\ req[c].next \in Clients \cup {Null}
        /\ req[c].err \in Errs
    BY <2>1 DEF Req
  <2>. QED BY <2>2 DEF Errs, CallInv, ValueInv
<1>. QED BY <1>1, <1>2, <1>3, <1>4, <1>5, <1>6 DEF TypeOK

\* The three lists together have as many cells as the pool.
LEMMA InvConserved == Inv => CellsConserved
<1> SUFFICES ASSUME Inv PROVE CellsConserved
  OBVIOUS
<1> USE DEF Inv
<1>1. /\ Len(available) \in Nat /\ DOMAIN available = 1..Len(available)
      /\ Len(wasted) \in Nat /\ DOMAIN wasted = 1..Len(wasted)
      /\ \A i \in DOMAIN available : available[i].cell \in Cells
      /\ \A i \in DOMAIN wasted : wasted[i] \in Cells
  BY ListFacts
<1>2. IsFiniteSet(IdleCells) /\ Cardinality(IdleCells) = Len(available)
  <2> DEFINE f == [i \in 1..Len(available) |-> available[i].cell]
  <2>1. f \in [1..Len(available) -> IdleCells]
    BY <1>1 DEF IdleCells
  <2>2. \A i, j \in 1..Len(available) : f[i] = f[j] => i = j
    BY <1>1 DEF ListInv, Partition
  <2>3. \A x \in IdleCells : \E i \in 1..Len(available) : f[i] = x
    BY <1>1 DEF IdleCells
  <2> HIDE DEF f
  <2>. QED BY <1>1, <2>1, <2>2, <2>3, Numbered
<1>3. IsFiniteSet(EmptyCells) /\ Cardinality(EmptyCells) = Len(wasted)
  <2>1. wasted \in [1..Len(wasted) -> EmptyCells]
    <3>1. wasted \in Seq(Cells)
      BY DEF Types, ListTypes
    <3>2. wasted \in [1..Len(wasted) -> Cells]
      BY <3>1
    <3>. QED BY <1>1, <3>2 DEF EmptyCells
  <2>2. \A i, j \in 1..Len(wasted) : wasted[i] = wasted[j] => i = j
    BY <1>1 DEF ListInv, Partition
  <2>3. \A x \in EmptyCells : \E i \in 1..Len(wasted) : wasted[i] = x
    BY <1>1 DEF EmptyCells
  <2>. QED BY <1>1, <2>1, <2>2, <2>3, Numbered
<1>4. IdleCells \cup EmptyCells \cup used = Cells
  <2>1. \A x \in used : x \in Cells
    BY DEF Types, ListTypes
  <2>2. \A x \in IdleCells \cup EmptyCells : x \in Cells
    BY <1>1 DEF IdleCells, EmptyCells
  <2>3. \A x \in Cells : x \in IdleCells \cup EmptyCells \cup used
    BY DEF ListInv, Partition, IdleCells, EmptyCells
  <2>. QED BY <2>1, <2>2, <2>3
<1>5. /\ \A x \in IdleCells : x \notin EmptyCells /\ x \notin used
      /\ \A x \in EmptyCells : x \notin used
  BY DEF ListInv, Partition, IdleCells, EmptyCells
<1>6. IsFiniteSet(Cells) /\ Cardinality(Cells) = Capacity
  BY FS_Interval, PoolAssumption DEF Cells
<1>7. IsFiniteSet(used)
  <2>1. used \in SUBSET Cells
    BY DEF Types, ListTypes
  <2>. QED BY <1>6, <2>1, FS_Subset
<1>8. Len(available) + Len(wasted) + Cardinality(used) = Capacity
  <2>1. IdleCells \cap EmptyCells = {} /\ (IdleCells \cup EmptyCells) \cap used = {}
    BY <1>5
  <2>2. /\ IsFiniteSet(IdleCells \cup EmptyCells)
        /\ Cardinality(IdleCells \cup EmptyCells) =
              Cardinality(IdleCells) + Cardinality(EmptyCells) - Cardinality(IdleCells \cap EmptyCells)
    BY <1>2, <1>3, FS_Union
  <2>3. Cardinality((IdleCells \cup EmptyCells) \cup used) =
           Cardinality(IdleCells \cup EmptyCells) + Cardinality(used)
              - Cardinality((IdleCells \cup EmptyCells) \cap used)
    BY <1>7, <2>2, FS_Union
  <2>4. Cardinality(used) \in Nat
    BY <1>7, FS_CardinalityType
  <2>7. Cardinality(IdleCells \cap EmptyCells) = 0 /\ Cardinality((IdleCells \cup EmptyCells) \cap used) = 0
    BY <2>1, FS_EmptySet
  <2>5. Cardinality(IdleCells \cup EmptyCells) = Len(available) + Len(wasted)
    BY <1>1, <1>2, <1>3, <2>2, <2>7
  <2>6. Cardinality((IdleCells \cup EmptyCells) \cup used) = Len(available) + Len(wasted) + Cardinality(used)
    BY <1>1, <2>3, <2>4, <2>5, <2>7
  <2>. QED BY <1>4, <1>6, <2>6
<1>9. used = {req[c].cell : c \in {d \in Clients : Owns(d)}}
  <2>1. \A x \in used : \E c \in Clients : req[c].cell = x /\ Owns(c)
    BY NullFacts DEF OwnerInv, Owns, Types, ListTypes
  <2>2. \A c \in Clients : Owns(c) => req[c].cell \in used
    BY CellFacts DEF Owns
  <2>. QED BY <2>1, <2>2
<1>10. \A c, d \in Clients : Owns(c) /\ req[c].cell = req[d].cell => c = d
  BY DEF OwnerInv, Owns
<1>11. \A x \in EmptyCells : value[x] = Null
  BY DEF ValueInv, EmptyCells
<1>. QED BY <1>2, <1>3, <1>4, <1>8, <1>9, <1>10, <1>11, InvTypeOK DEF CellsConserved

\* Whoever uses a connection has a good one, and what waits is clean.
LEMMA InvSound == Inv => HandedOutSound
<1> SUFFICES ASSUME Inv PROVE HandedOutSound
  OBVIOUS
<1> USE DEF Inv
<1>1. \A c \in Clients : pc[c] = "using" =>
          /\ value[req[c].cell].epoch >= req[c].epoch
          /\ LifeEnd(req[c].cell) > req[c].start \/ reset_time[req[c].cell] >= req[c].start
  BY DEF SoundInv, UsingSound, Fresh, LifeEnd
<1>2. \A x \in Cells : value[x] # Null /\ x \in IdleCells => Clean(value[x])
  BY DEF SoundInv, IdleSound, IdleCells
<1>3. \A x \in Cells : value[x] # Null /\ (\E c \in Clients : pc[c] = "posted" /\ req[c].cell = x)
        => Clean(value[x])
  BY NullFacts DEF SoundInv, PostedSound
<1>. QED BY <1>1, <1>2, <1>3 DEF HandedOutSound, Clean

\* The earliest request of the queue has a timer.
LEMMA InvTimeout == Inv => TimeoutPending
<1> SUFFICES ASSUME Inv PROVE TimeoutPending
  OBVIOUS
<1> USE DEF Inv
<1> DEFINE e == queue[Earliest(queue)]
<1>1. ASSUME queue # <<>>
      PROVE  (\E io \in Contexts : timers[io] # Null /\ timers[io] <= e.at) \/ e.at \in expired
  <2>1. e \in Request
    BY <1>1, EarliestIn, SeqFacts DEF Types, QueueTypes
  <2>2. contextOf[e.client] \in Contexts /\ e.at \in Nat /\ e.at # Null /\ e.at <= e.at
    BY <2>1, PoolAssumption DEF Request
  <2>3. timers[contextOf[e.client]] = e.at \/ e.at \in expired
    BY <1>1 DEF TimerInv
  <2> HIDE DEF e
  <2>. QED BY <2>2, <2>3
<1>2. {queue[i].client : i \in DOMAIN queue} = {c \in Clients : pc[c] = "queued"}
  <2>1. \A i \in DOMAIN queue : queue[i].client \in Clients
    BY ListFacts
  <2>. QED BY <2>1 DEF QueueInv
<1>. QED BY <1>1, <1>2 DEF TimeoutPending, QueueInv

\* Property CellsConserved: every cell is in one list, or with one client.
THEOREM CellsAreConserved == Spec => []CellsConserved
  BY Invariance, InvConserved, PTL

\* Property HandedOutSound: nobody gets an old or a dirty connection.
THEOREM ConnectionsAreSound == Spec => []HandedOutSound
  BY Invariance, InvSound, PTL

\* Property TimeoutPending: whoever waits in the queue will be woken in time.
THEOREM WaitersHaveTimers == Spec => []TimeoutPending
  BY Invariance, InvTimeout, PTL

-----------------------------------------------------------------------------
(* The pool keeps the promise of ResourceLease.                              *)

Asking == {c \in Clients : pc[c] \in {"push", "queued", "popped"}}

\* The abstract owner of a cell is the client whose call has it.
OwnerMap ==
    /\ ownerOf \in [Cells -> Clients \cup {Null}]
    /\ \A x \in Cells, c \in Clients : ownerOf[x] = c <=> req[c].cell = x
    /\ \A x \in Cells : ownerOf[x] = Null <=> \A c \in Clients : req[c].cell # x

\* A cell in use has exactly one call that has it.
LEMMA InvOwnerMap == Inv => OwnerMap
<1> SUFFICES ASSUME Inv PROVE OwnerMap
  OBVIOUS
<1>1. ASSUME NEW x \in Cells
      PROVE  /\ ownerOf[x] \in Clients \cup {Null}
             /\ \A c \in Clients : ownerOf[x] = c <=> req[c].cell = x
             /\ ownerOf[x] = Null <=> \A c \in Clients : req[c].cell # x
  <2>1. CASE \E c \in Clients : req[c].cell = x
    <3>1. ownerOf[x] = CHOOSE c \in Clients : req[c].cell = x
      BY <2>1 DEF ownerOf
    <3>2. ownerOf[x] \in Clients /\ req[ownerOf[x]].cell = x
      BY <2>1, <3>1
    <3>3. \A c \in Clients : req[c].cell = x => c = ownerOf[x]
      BY <3>2, NullFacts DEF Inv, OwnerInv
    <3>. QED BY <3>2, <3>3, NullFacts
  <2>2. CASE ~(\E c \in Clients : req[c].cell = x)
    BY <2>2, NullFacts DEF ownerOf
  <2>. QED BY <2>1, <2>2
<1>2. ownerOf = [x \in Cells |-> ownerOf[x]]
  BY DEF ownerOf
<1>. QED BY <1>1, <1>2 DEF OwnerMap

\* No call's cell changes, so no owner does.
LEMMA SameOwners ==
    ASSUME OwnerMap, OwnerMap', \A c \in Clients : req'[c].cell = req[c].cell
    PROVE  ownerOf' = ownerOf
<1>1. \A x \in Cells : ownerOf'[x] = ownerOf[x]
  BY DEF OwnerMap
<1>2. ownerOf \in [Cells -> Clients \cup {Null}] /\ ownerOf' \in [Cells -> Clients \cup {Null}]
  BY DEF OwnerMap
<1>. QED BY <1>1, <1>2

\* One cell changes hands: to the client u, or to nobody.
LEMMA NewOwner ==
    ASSUME OwnerMap, OwnerMap', NEW x \in Cells, NEW u \in Clients \cup {Null},
           \A y \in Cells : y # x => \A c \in Clients : req'[c].cell = y <=> req[c].cell = y,
           IF u = Null THEN \A c \in Clients : req'[c].cell # x ELSE req'[u].cell = x
    PROVE  ownerOf' = [ownerOf EXCEPT ![x] = u]
<1>1. ownerOf \in [Cells -> Clients \cup {Null}] /\ ownerOf' \in [Cells -> Clients \cup {Null}]
  BY DEF OwnerMap
<1>2. ownerOf'[x] = u
  <2>1. CASE u = Null
    BY <2>1 DEF OwnerMap
  <2>2. CASE u # Null
    BY <2>2 DEF OwnerMap
  <2>. QED BY <2>1, <2>2
<1>3. \A y \in Cells : y # x => ownerOf'[y] = ownerOf[y]
  BY DEF OwnerMap
<1>. QED BY <1>1, <1>2, <1>3

\* The steps of the abstract pool, and one that changes nothing of it.
AsBefore == ownerOf' = ownerOf /\ Asking' = Asking

\* The first half of get() answers at once, or leaves the client asking.
LEMMA GetPromise ==
    ASSUME Inv, OwnerMap, OwnerMap', NEW c \in Clients, NEW w \in Nat, get(c, w)
    PROVE  Promise!Next \/ AsBefore
<1> USE DEF Inv
<1> DEFINE r == [NoReq EXCEPT !.start = now, !.epoch = epoch]
           x == Lease.cell
<1>1. pc[c] = "start" /\ req[c].cell = Null
  BY DEF get, CallInv
<1>2. r \in Req /\ r.cell = Null
  BY DEF NoReq, Req, Errs, Types, ClockTypes
<1> HIDE DEF r
<1>3. \A err \in Errs : Refused(r, err).cell = Null
  BY <1>2, ReqFacts
<1>4. [r EXCEPT !.wait = w].cell = Null
  BY <1>2 DEF Req
<1>5. \/ \E err \in Errs : /\ pc' = [pc EXCEPT ![c] = "posted"]
                           /\ req' = [req EXCEPT ![c] = Refused(r, err)]
      \/ /\ pc' = [pc EXCEPT ![c] = "push"]
         /\ req' = [req EXCEPT ![c] = [r EXCEPT !.wait = w]]
      \/ /\ x # Null /\ pc' = [pc EXCEPT ![c] = "posted"]
         /\ req' = [req EXCEPT ![c] = Served(r, x)]
  BY DEF get, Errs, r
<1>6. \A d \in Clients : d # c => req'[d].cell = req[d].cell /\ pc'[d] = pc[d]
  BY <1>5 DEF Types, CallTypes
<1>7. CASE \E err \in Errs : /\ pc' = [pc EXCEPT ![c] = "posted"]
                             /\ req' = [req EXCEPT ![c] = Refused(r, err)]
  <2>1. req'[c].cell = Null /\ pc'[c] = "posted"
    BY <1>3, <1>7 DEF Types, CallTypes
  <2>2. \A d \in Clients : req'[d].cell = req[d].cell
    BY <1>1, <1>6, <2>1
  <2>3. Asking' = Asking
    BY <1>1, <1>6, <2>1 DEF Asking
  <2>. QED BY <2>2, <2>3, SameOwners DEF AsBefore
<1>8. CASE /\ pc' = [pc EXCEPT ![c] = "push"]
           /\ req' = [req EXCEPT ![c] = [r EXCEPT !.wait = w]]
  <2>1. req'[c].cell = Null /\ pc'[c] = "push"
    BY <1>4, <1>8 DEF Types, CallTypes
  <2>2. ownerOf' = ownerOf
    BY <1>1, <1>6, <2>1, SameOwners
  <2>3. Asking' = Asking \cup {c} /\ c \notin Asking
    BY <1>1, <1>6, <2>1 DEF Asking
  <2>4. \A y \in Cells : ownerOf[y] # c
    BY <1>1, NullFacts DEF OwnerMap
  <2>5. Promise!Ask(c)
    BY <2>2, <2>3, <2>4 DEF Promise!Ask, Promise!Holds, Asking
  <2>. QED BY <2>5 DEF Promise!Next
<1>9. CASE /\ x # Null /\ pc' = [pc EXCEPT ![c] = "posted"]
           /\ req' = [req EXCEPT ![c] = Served(r, x)]
  <2>1. x \in Cells
    BY <1>9, LeaseFacts
  <2> HIDE DEF x
  <2>2. Served(r, x).cell = x
    BY <1>2, <2>1, ReqFacts
  <2>3. req'[c].cell = x /\ pc'[c] = "posted"
    BY <1>9, <2>2 DEF Types, CallTypes
  <2>4. \A d \in Clients : req[d].cell # x
    BY <1>1, <1>6, <1>9, <2>1, <2>3 DEF OwnerMap
  <2>5. ownerOf' = [ownerOf EXCEPT ![x] = c] /\ ownerOf[x] = Null
    <3>1. \A y \in Cells : y # x => \A d \in Clients : req'[d].cell = y <=> req[d].cell = y
      BY <1>1, <1>6, <2>3, NullFacts
    <3>2. c # Null
      BY NullFacts
    <3>. QED BY <2>1, <2>3, <2>4, <3>1, <3>2, NewOwner DEF OwnerMap
  <2>6. Asking' = Asking /\ c \notin Asking
    BY <1>1, <1>6, <2>3 DEF Asking
  <2>7. \A y \in Cells : ownerOf[y] # c
    BY <1>1, NullFacts DEF OwnerMap
  <2>8. Promise!GrantAtOnce(c, x)
    BY <2>5, <2>6, <2>7 DEF Promise!GrantAtOnce, Promise!Holds, Asking
  <2>. QED BY <2>1, <2>8 DEF Promise!Next
<1>. QED BY <1>5, <1>7, <1>8, <1>9

\* Refusals take the calls of K out of those that ask.
LEMMA RefusesPromise ==
    ASSUME Inv, OwnerMap, OwnerMap', NEW K, \A c \in K : c \in Clients /\ pc[c] \in {"push", "queued"},
           NEW err \in Errs, Refuses(K, err)
    PROVE  Promise!Next
<1>1. \A c \in Clients : req'[c].cell = req[c].cell
  <2> TAKE c \in Clients
  <2> DEFINE r == req[c]
  <2>1. r \in Req
    BY DEF Inv, Types, CallTypes
  <2>2. req'[c] = IF c \in K THEN Refused(r, err) ELSE r
    BY DEF Refuses
  <2> HIDE DEF r
  <2>4. Refused(r, err).cell = r.cell
    BY <2>1, ReqFacts
  <2>3. req'[c].cell = r.cell
    BY <2>2, <2>4
  <2>. QED BY <2>3 DEF r
<1>2. ownerOf' = ownerOf
  BY <1>1, SameOwners
<1>3. K \in SUBSET Clients /\ K \subseteq Asking /\ Asking' = Asking \ K
  <2>1. K \in SUBSET Clients /\ K \subseteq Asking
    BY DEF Asking
  <2>2. \A c \in Clients : pc'[c] = IF c \in K THEN "posted" ELSE pc[c]
    BY DEF Refuses
  <2>3. \A c \in Clients : pc'[c] \in {"push", "queued", "popped"} <=>
                             pc[c] \in {"push", "queued", "popped"} /\ c \notin K
    BY <2>2
  <2>. QED BY <2>1, <2>3 DEF Asking
<1>4. Promise!Refuse(K)
  BY <1>2, <1>3 DEF Promise!Refuse, Asking
<1>. QED BY <1>3, <1>4 DEF Promise!Next

\* The second half of get() goes on asking, or is refused.
LEMMA PushPromise ==
    ASSUME Inv, OwnerMap, OwnerMap', NEW c \in Clients, push(c)
    PROVE  Promise!Next \/ AsBefore
<1> USE DEF Inv
<1>1. pc[c] = "push"
  BY DEF push
<1>2. CASE ~fit_capacity
  <2>1. Refuses({c}, "request_queue_overflow")
    BY <1>2 DEF push, Refuses, Types, CallTypes
  <2>. QED BY <1>1, <2>1, RefusesPromise DEF Errs
<1>3. CASE fit_capacity
  <2>1. pc' = [pc EXCEPT ![c] = "queued"] /\ req' = req
    BY <1>3 DEF push
  <2>2. \A d \in Clients : pc'[d] = IF d = c THEN "queued" ELSE pc[d]
    BY <2>1 DEF Types, CallTypes
  <2>3. Asking' = Asking
    BY <1>1, <2>2 DEF Asking
  <2>. QED BY <2>1, <2>3, SameOwners DEF AsBefore
<1>. QED BY <1>2, <1>3

\* A hand-over passes the cell on.
LEMMA HandoverPromise ==
    ASSUME Inv, OwnerMap, OwnerMap', NEW c \in Clients, handover(c)
    PROVE  Promise!Next
<1> USE DEF Inv
<1> DEFINE x == req[c].cell
           d == req[c].next
           r == req[d]
<1>1. /\ pc[c] = "handing" /\ pc' = [pc EXCEPT ![c] = "done", ![d] = "posted"]
      /\ req' = [req EXCEPT ![c] = NoReq, ![d] = Served(@, x)]
  BY DEF handover
<1>2. x # Null /\ d \in Clients /\ pc[d] = "popped" /\ d # c /\ req[d].cell = Null
  BY <1>1 DEF CallInv
<1>3. x \in Cells /\ \A e \in Clients : e # c => req[e].cell # x
  BY <1>2, CellFacts
<1>4. r \in Req
  BY <1>2 DEF Types, CallTypes
<1>5. Served(r, x).cell = x
  <2> HIDE DEF r, x
  <2>. QED BY <1>3, <1>4, ReqFacts
<1>6. /\ \A e \in Clients : e # c /\ e # d => req'[e] = req[e] /\ pc'[e] = pc[e]
      /\ pc'[c] = "done" /\ pc'[d] = "posted" /\ req'[c] = NoReq /\ req'[d] = Served(r, x)
  <2>1. /\ \A e \in Clients : e # c /\ e # d => pc'[e] = pc[e]
        /\ pc'[c] = "done" /\ pc'[d] = "posted"
    <3> HIDE DEF d
    <3>. QED BY <1>1, <1>2 DEF Types, CallTypes
  <2>2. /\ \A e \in Clients : e # c /\ e # d => req'[e] = req[e]
        /\ req'[c] = NoReq /\ req'[d] = Served(req[d], x)
    <3> HIDE DEF d, x
    <3>. QED BY <1>1, <1>2 DEF Types, CallTypes
  <2>. QED BY <2>1, <2>2
<1>7. req'[c].cell = Null /\ req'[d].cell = x /\ req[c].cell = x
  BY <1>5, <1>6, NoReqFacts
<1> HIDE DEF x, d, r
<1>8. ownerOf' = [ownerOf EXCEPT ![x] = d] /\ ownerOf[x] = c
  <2>1. \A y \in Cells : y # x => \A e \in Clients : req'[e].cell = y <=> req[e].cell = y
    BY <1>2, <1>6, <1>7, NullFacts
  <2>2. d # Null
    BY <1>2, NullFacts
  <2>. QED BY <1>2, <1>3, <1>7, <2>1, <2>2, NewOwner DEF OwnerMap
<1>9. d \in Asking /\ Asking' = Asking \ {d}
  BY <1>1, <1>2, <1>6 DEF Asking
<1>10. PICK y \in Cells, e \in Clients : y = x /\ e = d
  BY <1>2, <1>3
<1>11. Promise!Pass(c, e, y)
  BY <1>8, <1>9, <1>10 DEF Promise!Pass, Asking
<1>. QED BY <1>11 DEF Promise!Next

\* A return gives the cell back, or keeps it for the next client.
LEMMA GiveBackPromise ==
    ASSUME Inv, OwnerMap, OwnerMap', NEW c \in Clients, pc[c] \in {"connecting", "using"}, NEW v,
           NEW wasting \in BOOLEAN, GiveBack(c, v, wasting)
    PROVE  Promise!Next \/ AsBefore
<1> USE DEF Inv
<1> DEFINE x == req[c].cell
<1>1. x \in Cells /\ \A e \in Clients : e # c => req[e].cell # x
  BY CellFacts DEF CallInv
<1>2. CASE queue = <<>>
  <2>1. pc' = [pc EXCEPT ![c] = "done"] /\ req' = [req EXCEPT ![c] = NoReq]
    BY <1>2 DEF GiveBack
  <2>2. /\ \A e \in Clients : e # c => req'[e] = req[e] /\ pc'[e] = pc[e]
        /\ pc'[c] = "done" /\ req'[c].cell = Null
    BY <2>1, NoReqFacts DEF Types, CallTypes
  <2>3. ownerOf' = [ownerOf EXCEPT ![x] = Null] /\ ownerOf[x] = c
    <3>1. \A y \in Cells : y # x => \A e \in Clients : req'[e].cell = y <=> req[e].cell = y
      BY <2>2, NullFacts
    <3>2. \A e \in Clients : req'[e].cell # x
      BY <1>1, <2>2, NullFacts
    <3>3. ownerOf[x] = c
      BY <1>1 DEF OwnerMap
    <3> HIDE DEF x
    <3>. QED BY <1>1, <3>1, <3>2, <3>3, NewOwner
  <2>4. Asking' = Asking
    BY <2>2 DEF Asking
  <2>5. Promise!Return(c, x)
    BY <2>3, <2>4 DEF Promise!Return, Asking
  <2>. QED BY <1>1, <2>5 DEF Promise!Next
<1>3. CASE queue # <<>>
  <2> DEFINE d == Head(queue).client
             wipe == wasting \/ ~is_valid(x)
  <2>1. /\ pc' = [pc EXCEPT ![c] = "handing", ![d] = "popped"]
        /\ req' = [req EXCEPT ![c].next = d, ![c].wipe = wipe]
    BY <1>3 DEF GiveBack
  <2>2. d \in Clients /\ pc[d] = "queued"
    <3>1. queue \in Seq(Request)
      BY DEF Types, QueueTypes
    <3>2. Head(queue) = queue[1] /\ 1 \in DOMAIN queue
      BY <1>3, <3>1, TailFacts
    <3>. QED BY <3>2, ListFacts DEF QueueInv
  <2> HIDE DEF d, wipe
  <2>3. /\ \A e \in Clients : e # c /\ e # d => pc'[e] = pc[e]
        /\ pc'[c] = "handing" /\ pc'[d] = "popped"
    BY <2>1, <2>2 DEF Types, CallTypes
  <2>4. \A e \in Clients : req'[e].cell = req[e].cell
    <3>1. \A e \in Clients : req[e] \in Req
      BY DEF Types, CallTypes
    <3>. QED BY <2>1, <3>1 DEF Types, CallTypes, Req
  <2>5. Asking' = Asking
    BY <2>2, <2>3 DEF Asking
  <2>. QED BY <2>4, <2>5, SameOwners DEF AsBefore
<1>. QED BY <1>2, <1>3

\* A completion leaves owners and requests as they are.
LEMMA DeliverPromise ==
    ASSUME Inv, OwnerMap, OwnerMap', NEW c \in Clients, deliver(c)
    PROVE  AsBefore
<1> USE DEF Inv
<1>1. pc[c] = "posted"
  BY DEF deliver
<1>2. \/ /\ req[c].cell = Null /\ pc' = [pc EXCEPT ![c] = "done"]
         /\ req' = [req EXCEPT ![c] = NoReq]
      \/ \E p \in {"using", "connecting"} : pc' = [pc EXCEPT ![c] = p] /\ req' = req
  BY <1>1 DEF deliver, CallInv
<1>3. /\ \A d \in Clients : req'[d].cell = req[d].cell
      /\ \A d \in Clients : d # c => pc'[d] = pc[d]
      /\ pc'[c] \in {"done", "using", "connecting"}
  BY <1>2, NoReqFacts DEF Types, CallTypes
<1>4. Asking' = Asking
  BY <1>1, <1>3 DEF Asking
<1>. QED BY <1>3, <1>4, SameOwners DEF AsBefore

\* Every step of the pool is a step of ResourceLease, or none.
LEMMA StepPromise ==
    ASSUME Inv, OwnerMap, OwnerMap', [Next]_vars
    PROVE  Promise!Next \/ AsBefore
<1>0. \A c \in Clients : pc[c] \in PcOf
  BY DEF Inv, Types, CallTypes
<1>1. ASSUME NEW c \in Clients, NEW w \in Waits[c], get_connection(c, w) PROVE Promise!Next \/ AsBefore
  <2>1. w \in Nat /\ get(c, w)
    BY <1>1, PoolAssumption DEF get_connection
  <2>. QED BY <2>1, GetPromise
<1>2. ASSUME NEW c \in Clients, Runs(c) PROVE Promise!Next \/ AsBefore
  <2>1. ASSUME NEW bad \in BOOLEAN, connected(c, bad) PROVE AsBefore
    <3>1. /\ pc[c] = "connecting" /\ req' = req /\ pc' = [pc EXCEPT ![c] = "using"]
      BY <2>1 DEF connected
    <3>2. \A d \in Clients : pc'[d] = IF d = c THEN "using" ELSE pc[d]
      BY <3>1 DEF Inv, Types, CallTypes
    <3>3. Asking' = Asking
      BY <3>1, <3>2 DEF Asking
    <3>. QED BY <3>1, <3>3, SameOwners DEF AsBefore
  <2>2. CASE connect_fails(c)
    BY <2>2, GiveBackPromise DEF connect_fails, recycle
  <2>. QED BY <1>2, <2>1, <2>2, PushPromise, HandoverPromise, DeliverPromise DEF Runs
<1>3. ASSUME NEW c \in Clients, destroy(c) PROVE Promise!Next \/ AsBefore
  <2>1. pc[c] = "using" /\ \E v : GiveBack(c, v, TRUE) \/ GiveBack(c, v, FALSE)
    BY <1>3 DEF destroy, waste, recycle
  <2>. QED BY <2>1, GiveBackPromise
<1>4. CASE disable
  <2> DEFINE gone == {queue[i].client : i \in DOMAIN queue}
  <2>1. Refuses(gone, "disabled")
    BY <1>4 DEF disable, Refuses
  <2>2. \A c \in gone : c \in Clients /\ pc[c] = "queued"
    BY ListFacts DEF Inv, QueueInv
  <2> HIDE DEF gone
  <2>. QED BY <2>1, <2>2, RefusesPromise DEF Errs
<1>5. ASSUME NEW at \in expired, cancel(at) PROVE Promise!Next
  <2> DEFINE late == Late(at)
  <2>1. Refuses(late, "get_resource_timeout")
    BY <1>5 DEF cancel, Refuses
  <2>2. \A c \in late : c \in Clients /\ pc[c] = "queued"
    BY ListFacts DEF Inv, QueueInv, Late
  <2> HIDE DEF late
  <2>. QED BY <2>1, <2>2, RefusesPromise DEF Errs
<1>6. CASE UNCHANGED <<pc, req>>
  BY <1>6, SameOwners DEF AsBefore, Asking
<1>7. (invalidate \/ Tick \/ UNCHANGED vars \/ \E io \in Contexts : timer_fires(io)) => UNCHANGED <<pc, req>>
  BY DEF invalidate, Tick, vars, timer_fires
<1>. QED BY <1>1, <1>2, <1>3, <1>4, <1>5, <1>6, <1>7 DEF Next, Timer

\* The pool starts as the abstract one.
LEMMA InitPromise == Init => Promise!Init
<1> SUFFICES ASSUME Init PROVE Promise!Init
  OBVIOUS
<1>1. Inv
  BY InitInv
<1>2. \A c \in Clients : pc[c] = "start" /\ req[c].cell = Null
  BY NoReqFacts DEF Init
<1>3. ownerOf = [x \in Cells |-> Null]
  BY <1>2, NullFacts DEF ownerOf
<1>4. {c \in Clients : pc[c] \in {"push", "queued", "popped"}} = {}
  BY <1>2
<1>. QED BY <1>3, <1>4 DEF Promise!Init

\* Property KeepsPromise: the pool implements ResourceLease; cells change hands one
\* at a time, and each request is answered once.
THEOREM PoolKeepsPromise == Spec => KeepsPromise
<1>1. Inv /\ OwnerMap /\ OwnerMap' /\ [Next]_vars => [Promise!Next]_(Promise!vars)
  <2>1. AsBefore => UNCHANGED Promise!vars
    BY DEF AsBefore, Asking, Promise!vars
  <2>. QED BY <2>1, StepPromise
<1>2. Spec => []OwnerMap
  BY Invariance, InvOwnerMap, PTL
<1>. QED BY <1>1, <1>2, Invariance, InitPromise, PTL DEF Spec, KeepsPromise, Promise!Spec
=============================================================================
