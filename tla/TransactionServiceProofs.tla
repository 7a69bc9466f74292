----------------------- MODULE TransactionServiceProofs -----------------------
(***************************************************************************)
(* Machine-checked proofs about the transaction service, for any streams,  *)
(* scripts, names, pool and queue sizes, faults included.                  *)
(***************************************************************************)
EXTENDS TransactionService, FiniteSetTheorems, SequenceTheorems, WellFoundedInduction, TLAPS

-----------------------------------------------------------------------------
(* Natural numbers and positions in sequences.  What is otherwise an induction
   is an argument about the least counterexample. *)

\* Every nonempty set of natural numbers has a least element.
LEMMA LeastNat ==
    ASSUME NEW T \in SUBSET Nat, T # {}
    PROVE  \E m \in T : \A k \in T : m <= k
<1> DEFINE R == {p \in Nat \X Nat : p[1] < p[2]}
<1>1. IsWellFoundedOn(R, Nat)
  BY NatLessThanWellFounded, Zenon DEF OpToRel
<1>2. \A k, m \in Nat : k < m => <<k, m>> \in R
  OBVIOUS
<1> HIDE DEF R
<1>3. PICK m \in T : \A k \in T : ~(<<k, m>> \in R)
  BY <1>1, WFMin
<1>4. \A k \in T : ~(k < m)
  BY <1>2, <1>3
<1>. QED BY <1>4

\* The rank of a position is what it is at the position before, and one more if
\* the position is picked.
LEMMA RankStep ==
    ASSUME NEW N \in Nat, NEW K, \A j \in K : j \in 1..N, NEW i \in Nat
    PROVE  /\ Rank(K, i) \in Nat /\ Rank(K, 0) = 0
           /\ Rank(K, i) <= Cardinality(K) /\ Cardinality(K) \in Nat
           /\ Rank(K, i + 1) = IF i + 1 \in K THEN Rank(K, i) + 1 ELSE Rank(K, i)
<1> DEFINE A(k) == {j \in K : j <= k}
<1>0. \A j \in K : j \in Nat /\ j >= 1
  OBVIOUS
<1>1. IsFiniteSet(K)
  <2>1. IsFiniteSet(1..N)
    BY FS_Interval
  <2>2. K \in SUBSET (1..N)
    OBVIOUS
  <2>. QED BY <2>1, <2>2, FS_Subset
<1>2. \A k : A(k) \in SUBSET K
  OBVIOUS
<1>3. \A k : IsFiniteSet(A(k)) /\ Cardinality(A(k)) <= Cardinality(K)
  <2> SUFFICES ASSUME NEW k PROVE IsFiniteSet(A(k)) /\ Cardinality(A(k)) <= Cardinality(K)
    OBVIOUS
  <2> HIDE DEF A
  <2>. QED BY <1>1, <1>2, FS_Subset
<1>4. \A k : Cardinality(A(k)) \in Nat
  <2> HIDE DEF A
  <2>. QED BY <1>3, FS_CardinalityType
<1>5. Cardinality(K) \in Nat
  BY <1>1, FS_CardinalityType
<1>6. A(0) = {}
  BY <1>0
<1>7. Cardinality(A(0)) = 0
  BY <1>6, FS_EmptySet
<1>8. CASE i + 1 \in K
  <2>1. A(i + 1) = A(i) \cup {i + 1} /\ i + 1 \notin A(i)
    BY <1>0, <1>8
  <2>2. Cardinality(A(i + 1)) = Cardinality(A(i)) + 1
    <3> HIDE DEF A
    <3>. QED BY <1>3, <2>1, FS_AddElement
  <2>. QED BY <1>3, <1>4, <1>5, <1>7, <1>8, <2>2 DEF Rank
<1>9. CASE i + 1 \notin K
  <2>1. A(i + 1) = A(i)
    BY <1>0, <1>9
  <2>. QED BY <1>3, <1>4, <1>5, <1>7, <1>9, <2>1 DEF Rank
<1>. QED BY <1>8, <1>9

\* Ranks grow with the position, up to the number of picked positions.
LEMMA RankMonotone ==
    ASSUME NEW N \in Nat, NEW K, \A j \in K : j \in 1..N, NEW i \in Nat, NEW k \in K, i < k
    PROVE  Rank(K, i) < Rank(K, k)
<1> DEFINE A == {j \in K : j <= i}
           B == {j \in K : j <= k}
<1>0. \A j \in K : j \in Nat /\ j >= 1
  OBVIOUS
<1>1. IsFiniteSet(K)
  <2>1. IsFiniteSet(1..N)
    BY FS_Interval
  <2>2. K \in SUBSET (1..N)
    OBVIOUS
  <2>. QED BY <2>1, <2>2, FS_Subset
<1>2. A \in SUBSET B /\ B \in SUBSET K /\ k \in B /\ k \notin A
  BY <1>0
<1> HIDE DEF A, B
<1>3. IsFiniteSet(B) /\ Cardinality(B) \in Nat
  BY <1>1, <1>2, FS_Subset, FS_CardinalityType
<1>4. Cardinality(A) <= Cardinality(B) /\ Cardinality(A) # Cardinality(B) /\ IsFiniteSet(A)
  BY <1>2, <1>3, FS_Subset
<1>5. Cardinality(A) \in Nat
  BY <1>4, FS_CardinalityType
<1>6. Cardinality(A) < Cardinality(B)
  BY <1>3, <1>4, <1>5
<1>. QED BY <1>6 DEF Rank, A, B

\* The last picked position has the full rank.
LEMMA RankFull ==
    ASSUME NEW N \in Nat, NEW K, \A j \in K : j \in 1..N
    PROVE  Rank(K, N) = Cardinality(K)
<1>1. {j \in K : j <= N} = K
  OBVIOUS
<1>. QED BY <1>1 DEF Rank

\* There is exactly one picked position of each rank from 1 to their number.
LEMMA NthExists ==
    ASSUME NEW N \in Nat, NEW K, \A j \in K : j \in 1..N, NEW n \in 1..Cardinality(K)
    PROVE  Nth(K, n) \in K /\ Rank(K, Nth(K, n)) = n
<1> DEFINE T == {i \in Nat : Rank(K, i) >= n}
<1>0. Cardinality(K) \in Nat /\ n \in Nat /\ n >= 1
  BY RankStep
<1>1. N \in T
  BY <1>0, RankFull
<1>2. PICK m \in T : \A k \in T : m <= k
  <2>1. T \in SUBSET Nat
    OBVIOUS
  <2> HIDE DEF T
  <2>. QED BY <1>1, <2>1, LeastNat
<1>3. m \in Nat /\ Rank(K, m) >= n /\ m # 0
  BY <1>0, <1>2, RankStep
<1>4. m - 1 \in Nat /\ ~(Rank(K, m - 1) >= n)
  BY <1>2, <1>3
<1>5. /\ Rank(K, m - 1) \in Nat /\ Rank(K, m) \in Nat
      /\ Rank(K, m) = IF m \in K THEN Rank(K, m - 1) + 1 ELSE Rank(K, m - 1)
  <2>1. (m - 1) + 1 = m
    BY <1>3
  <2>2. Rank(K, (m - 1) + 1) = IF (m - 1) + 1 \in K THEN Rank(K, m - 1) + 1 ELSE Rank(K, m - 1)
    BY <1>4, RankStep
  <2>3. Rank(K, m - 1) \in Nat /\ Rank(K, m) \in Nat
    BY <1>3, <1>4, RankStep
  <2>. QED BY <2>1, <2>2, <2>3
<1>6. m \in K /\ Rank(K, m) = n
  BY <1>0, <1>3, <1>4, <1>5
<1>. QED BY <1>6 DEF Nth

\* What Selected returns: the picked elements, each once and in their order.
LEMMA SelectedProperties ==
    ASSUME NEW S, NEW q \in Seq(S), NEW K, \A j \in K : j \in DOMAIN q
    PROVE  /\ Selected(q, K) \in Seq(S)
           /\ Len(Selected(q, K)) = Cardinality(K) /\ Cardinality(K) \in 0..Len(q)
           /\ \A n \in 1..Cardinality(K) : Nth(K, n) \in K /\ Selected(q, K)[n] = q[Nth(K, n)]
           /\ \A i \in K : \E n \in 1..Cardinality(K) : Nth(K, n) = i
           /\ \A m, n \in 1..Cardinality(K) : Nth(K, m) = Nth(K, n) => m = n
<1> DEFINE N == Len(q)
<1>1. N \in Nat /\ DOMAIN q = 1..N /\ \A j \in K : j \in 1..N
  BY LenProperties
<1> HIDE DEF N
<1>2. Cardinality(K) \in Nat /\ \A i \in Nat : Rank(K, i) \in Nat
  BY <1>1, RankStep
<1>3. Cardinality(K) <= N
  <2>1. IsFiniteSet(1..N) /\ Cardinality(1..N) = N
    BY <1>1, FS_Interval
  <2>2. K \in SUBSET (1..N)
    BY <1>1
  <2>. QED BY <2>1, <2>2, FS_Subset
<1>4. \A n \in 1..Cardinality(K) : Nth(K, n) \in K /\ Rank(K, Nth(K, n)) = n
  BY <1>1, NthExists
<1>5. ASSUME NEW i \in K PROVE \E n \in 1..Cardinality(K) : Nth(K, n) = i
  <2>0. i \in Nat /\ i >= 1
    BY <1>1
  <2>1. Rank(K, i) \in Nat /\ Rank(K, i) <= Cardinality(K)
    BY <1>1, <2>0, RankStep
  <2>2. Rank(K, 0) = 0 /\ Rank(K, 0) < Rank(K, i)
    <3>1. Rank(K, 0) = 0
      BY <1>1, RankStep
    <3>2. 0 \in Nat /\ 0 < i
      BY <2>0
    <3>. QED BY <1>1, <3>1, <3>2, RankMonotone
  <2>3. Rank(K, i) \in 1..Cardinality(K)
    BY <1>2, <2>1, <2>2
  <2>4. Nth(K, Rank(K, i)) \in K /\ Rank(K, Nth(K, Rank(K, i))) = Rank(K, i)
    BY <1>4, <2>3
  <2>5. ASSUME NEW k \in K, k # i PROVE Rank(K, k) # Rank(K, i)
    <3>1. k \in Nat /\ (k < i \/ i < k)
      BY <1>1, <2>0, <2>5
    <3>2. Rank(K, k) \in Nat
      BY <1>2, <3>1
    <3>3. CASE k < i
      <4>1. Rank(K, k) < Rank(K, i)
        BY <1>1, <3>1, <3>3, RankMonotone
      <4>. QED BY <2>1, <3>2, <4>1
    <3>4. CASE i < k
      <4>1. Rank(K, i) < Rank(K, k)
        BY <1>1, <2>0, <3>4, RankMonotone
      <4>. QED BY <2>1, <3>2, <4>1
    <3>. QED BY <3>1, <3>3, <3>4
  <2>. QED BY <2>3, <2>4, <2>5
<1>6. Selected(q, K) \in [1..Cardinality(K) -> S]
  <2>1. \A i \in K : q[i] \in S
    BY <1>1, ElementOfSeq
  <2>. QED BY <1>4, <2>1 DEF Selected
<1>7. Selected(q, K) \in Seq(S) /\ Len(Selected(q, K)) = Cardinality(K)
  <2>1. Selected(q, K) \in Seq(S)
    <3>1. \E n \in Nat : Selected(q, K) \in [1..n -> S]
      BY <1>2, <1>6
    <3>2. Selected(q, K) \in UNION {[1..n -> S] : n \in Nat}
      BY <3>1, Zenon
    <3>. QED BY <3>2, SeqDef
  <2>2. DOMAIN Selected(q, K) = 1..Cardinality(K)
    BY DEF Selected
  <2>3. DOMAIN Selected(q, K) = 1..Len(Selected(q, K)) /\ Len(Selected(q, K)) \in Nat
    BY <2>1, LenProperties
  <2>. QED BY <1>2, <2>1, <2>2, <2>3
<1>8. \A n \in 1..Cardinality(K) : Selected(q, K)[n] = q[Nth(K, n)]
  BY DEF Selected
<1>9. \A m, n \in 1..Cardinality(K) : Nth(K, m) = Nth(K, n) => m = n
  BY <1>4, Zenon
<1>10. Cardinality(K) \in 0..Len(q)
  BY <1>1, <1>2, <1>3 DEF N
<1>. QED BY <1>4, <1>5, <1>7, <1>8, <1>9, <1>10

\* K are the positions in two sequences in a row, of lengths h and n, that are
\* the positions A in the first and B in the second.
Joined(h, n, K, A, B) ==
    /\ \A i \in K : i \in 1..(h + n)
    /\ \A i \in A : i \in 1..h
    /\ \A j \in B : j \in 1..n
    /\ \A i \in 1..h : i \in K <=> i \in A
    /\ \A j \in 1..n : h + j \in K <=> j \in B

\* Ranks in two sequences in a row.
LEMMA RankJoin ==
    ASSUME NEW h \in Nat, NEW n \in Nat, NEW K, NEW A, NEW B, Joined(h, n, K, A, B)
    PROVE  /\ \A i \in 0..h : Rank(K, i) = Rank(A, i)
           /\ \A j \in 0..n : Rank(K, h + j) = Cardinality(A) + Rank(B, j)
           /\ Cardinality(K) = Cardinality(A) + Cardinality(B)
           /\ Cardinality(A) \in Nat /\ Cardinality(B) \in Nat
<1> USE DEF Joined
<1>1. ASSUME NEW i \in 0..h PROVE Rank(K, i) = Rank(A, i)
  <2>1. {j \in K : j <= i} = {j \in A : j <= i}
    <3>1. ASSUME NEW j \in K, j <= i PROVE j \in A
      <4>1. j \in 1..h
        BY <3>1
      <4>. QED BY <4>1
    <3>2. ASSUME NEW j \in A PROVE j \in K
      OBVIOUS
    <3>. QED BY <3>1, <3>2
  <2>. QED BY <2>1 DEF Rank
<1>2. Rank(A, h) = Cardinality(A) /\ Rank(B, n) = Cardinality(B) /\ Cardinality(A) \in Nat /\ Cardinality(B) \in Nat
  BY RankFull, RankStep
<1>3. h + n \in Nat /\ Rank(K, h + n) = Cardinality(K)
  <2>1. h + n \in Nat
    OBVIOUS
  <2>. QED BY <2>1, RankFull
<1>4. ASSUME NEW j \in 0..n, Rank(K, h + j) # Cardinality(A) + Rank(B, j) PROVE FALSE
  <2> DEFINE T == {k \in 0..n : Rank(K, h + k) # Cardinality(A) + Rank(B, k)}
  <2>1. PICK k \in T : \A l \in T : k <= l
    <3>1. j \in T /\ T \in SUBSET Nat
      BY <1>4
    <3> HIDE DEF T
    <3>. QED BY <3>1, LeastNat
  <2>2. k \in 0..n /\ Rank(K, h + k) # Cardinality(A) + Rank(B, k)
    OBVIOUS
  <2>3. k # 0
    <3>1. Rank(B, 0) = 0 /\ h \in 0..h /\ h + 0 = h
      BY RankStep
    <3>2. Rank(K, h) = Rank(A, h)
      BY <1>1, <3>1
    <3>. QED BY <1>2, <2>2, <3>1, <3>2
  <2> DEFINE l == k - 1
  <2>4. l \in 0..n /\ l \in Nat /\ l + 1 = k /\ l < k /\ h + l \in Nat /\ (h + l) + 1 = h + k /\ k \in 1..n
    BY <2>2, <2>3
  <2> HIDE DEF l
  <2>5. Rank(K, h + l) = Cardinality(A) + Rank(B, l)
    BY <2>1, <2>4
  <2>6. Rank(K, h + k) = IF h + k \in K THEN Rank(K, h + l) + 1 ELSE Rank(K, h + l)
    <3>1. Rank(K, (h + l) + 1) = IF (h + l) + 1 \in K THEN Rank(K, h + l) + 1 ELSE Rank(K, h + l)
      BY <1>3, <2>4, RankStep
    <3>. QED BY <2>4, <3>1
  <2>7. Rank(B, l) \in Nat /\ Rank(B, k) = IF k \in B THEN Rank(B, l) + 1 ELSE Rank(B, l)
    <3>1. Rank(B, l) \in Nat /\ Rank(B, l + 1) = IF l + 1 \in B THEN Rank(B, l) + 1 ELSE Rank(B, l)
      BY <2>4, RankStep
    <3>. QED BY <2>4, <3>1
  <2>8. h + k \in K <=> k \in B
    BY <2>4
  <2>. QED BY <1>2, <2>2, <2>5, <2>6, <2>7, <2>8
<1>5. n \in 0..n
  OBVIOUS
<1>. QED BY <1>1, <1>2, <1>3, <1>4, <1>5

\* A picked position is known by its rank.
LEMMA NthUnique ==
    ASSUME NEW N \in Nat, NEW K, \A j \in K : j \in 1..N, NEW i \in K
    PROVE  Nth(K, Rank(K, i)) = i
<1> DEFINE m == Rank(K, i)
           k == Nth(K, m)
<1>1. k \in K /\ Rank(K, k) = m
  BY DEF Nth
<1>2. k \in Nat /\ i \in Nat /\ Rank(K, k) = Rank(K, i)
  BY <1>1
<1>3. Rank(K, i) \in Nat
  BY <1>2, RankStep
<1> HIDE DEF k
<1>4. ASSUME k < i PROVE FALSE
  <2>1. Rank(K, k) < Rank(K, i)
    BY <1>2, <1>4, RankMonotone
  <2>. QED BY <1>2, <1>3, <2>1
<1>5. ASSUME i < k PROVE FALSE
  <2>1. Rank(K, i) < Rank(K, k)
    BY <1>1, <1>2, <1>5, RankMonotone
  <2>. QED BY <1>2, <1>3, <2>1
<1>6. k = i
  BY <1>2, <1>4, <1>5
<1>. QED BY <1>6 DEF k

\* The n-th picked position in two sequences in a row.
LEMMA NthJoin ==
    ASSUME NEW h \in Nat, NEW n \in Nat, NEW K, NEW A, NEW B, Joined(h, n, K, A, B)
    PROVE  /\ \A m \in 1..Cardinality(A) : Nth(K, m) = Nth(A, m) /\ Nth(A, m) \in A
           /\ \A m \in 1..Cardinality(B) : Nth(K, Cardinality(A) + m) = h + Nth(B, m) /\ Nth(B, m) \in B
<1>1. /\ \A i \in K : i \in 1..(h + n)
      /\ \A i \in A : i \in 1..h /\ i \in K
      /\ \A j \in B : j \in 1..n /\ h + j \in K
      /\ h + n \in Nat
  BY DEF Joined
<1>2. /\ \A i \in 0..h : Rank(K, i) = Rank(A, i)
      /\ \A j \in 0..n : Rank(K, h + j) = Cardinality(A) + Rank(B, j)
  BY RankJoin
<1>3. ASSUME NEW m \in 1..Cardinality(A) PROVE Nth(K, m) = Nth(A, m) /\ Nth(A, m) \in A
  <2>1. Nth(A, m) \in A /\ Rank(A, Nth(A, m)) = m
    BY <1>1, NthExists
  <2>2. Nth(A, m) \in K /\ Rank(K, Nth(A, m)) = m
    BY <1>1, <1>2, <2>1
  <2>3. Nth(K, Rank(K, Nth(A, m))) = Nth(A, m)
    BY <1>1, <2>2, NthUnique
  <2>. QED BY <2>1, <2>2, <2>3
<1>4. ASSUME NEW m \in 1..Cardinality(B) PROVE Nth(K, Cardinality(A) + m) = h + Nth(B, m) /\ Nth(B, m) \in B
  <2>1. Nth(B, m) \in B /\ Rank(B, Nth(B, m)) = m
    BY <1>1, NthExists
  <2>2. h + Nth(B, m) \in K /\ Rank(K, h + Nth(B, m)) = Cardinality(A) + m
    BY <1>1, <1>2, <2>1
  <2>3. Nth(K, Rank(K, h + Nth(B, m))) = h + Nth(B, m)
    BY <1>1, <2>2, NthUnique
  <2>. QED BY <2>1, <2>2, <2>3
<1>. QED BY <1>3, <1>4

\* One position more is picked, behind the others.
LEMMA SelectedAppend ==
    ASSUME NEW S, NEW q \in Seq(S), NEW k \in Nat, k + 1 \in 1..Len(q), NEW K, \A j \in K : j \in 1..k
    PROVE  Selected(q, K \cup {k + 1}) = Append(Selected(q, K), q[k + 1])
<1> DEFINE L == K \cup {k + 1}
           a == Cardinality(K)
<1>1. Joined(k, 1, L, K, {1})
  BY DEF Joined
<1>2. Cardinality({1}) = 1
  BY FS_Singleton
<1> HIDE DEF L
<1>3. Cardinality(L) = a + 1 /\ a \in Nat
  BY <1>1, <1>2, RankJoin
<1>4. /\ \A m \in 1..a : Nth(L, m) = Nth(K, m) /\ Nth(K, m) \in K
      /\ \A m \in 1..1 : Nth(L, a + m) = k + Nth({1}, m) /\ Nth({1}, m) \in {1}
  BY <1>1, <1>2, NthJoin
<1>5. Nth(L, a + 1) = k + 1
  BY <1>4
<1> HIDE DEF a
<1>6. \A m \in 1..a : q[Nth(K, m)] \in S
  BY <1>4
<1> DEFINE x == [m \in 1..a |-> q[Nth(K, m)]]
<1>7. x \in Seq(S) /\ Len(x) = a
  <2>1. x \in [1..a -> S]
    BY <1>6
  <2>. QED BY <1>3, <2>1
<1>8. [m \in 1..(a + 1) |-> q[Nth(L, m)]] = Append(x, q[k + 1])
  <2>1. Append(x, q[k + 1]) = [m \in 1..(Len(x) + 1) |-> IF m <= Len(x) THEN x[m] ELSE q[k + 1]]
    <3> HIDE DEF x
    <3>. QED BY <1>7
  <2>2. ASSUME NEW m \in 1..(a + 1) PROVE q[Nth(L, m)] = IF m <= a THEN x[m] ELSE q[k + 1]
    <3>1. CASE m = a + 1
      BY <1>3, <1>5, <3>1
    <3>2. CASE m \in 1..a
      BY <1>3, <1>4, <3>2
    <3>. QED BY <1>3, <3>1, <3>2
  <2> HIDE DEF x
  <2>. QED BY <1>7, <2>1, <2>2
<1>. QED BY <1>3, <1>8 DEF Selected, L, a

-----------------------------------------------------------------------------
Tables == [Names -> Row \cup {NoRow}]
Writes == [Names -> Row \cup {NoRow, Same}]
Part == [id : Nat, part : Nat, op : STRING]
Op == [s : Streams, id : Nat, msg : Message]
Work == [objs : Writes, headers : SUBSET Nat, parts : Seq(Part), ops : Seq(Op)]

-----------------------------------------------------------------------------
(* Statements and replays. *)

\* The kinds of values are apart.
LEMMA Apart == NoRow \notin Row /\ Same \notin Row /\ NoRow # Same
  BY TxnAssumption

\* The fields of a message, of an operation and of a row.
LEMMA MessageFacts ==
    /\ \A m \in Message : m.name \in Names /\ m.to \in Names /\ m.new \in Nat
    /\ \A e \in Op : e.id \in Nat /\ e.msg \in Message /\ e.s \in Streams
    /\ \A r \in Row : r.ver \in Nat /\ r.txn \in Nat /\ r.mem \in Nat
    /\ \A a, b, d \in Nat : [ver |-> a, txn |-> b, mem |-> d] \in Row
  BY DEF Message, Op, Row

\* One row is replaced.
LEMMA OneRow ==
    ASSUME NEW u \in Tables, NEW k \in Names, NEW x \in Row \cup {NoRow}
    PROVE  /\ [u EXCEPT ![k] = x] \in Tables
           /\ \A n \in Names : [u EXCEPT ![k] = x][n] = IF n = k THEN x ELSE u[n]
  BY DEF Tables

\* What a statement leaves alone, and that what it writes depends on the row it
\* names only, if it finds what it claims.
LEMMA StatementEffect ==
    ASSUME NEW t \in Tables, NEW m \in Message, NEW id \in Nat, Claim(t, m)
    PROVE  /\ Statement(t, m, id).tbl \in Tables
           /\ Touches(m) \subseteq Names
           /\ \A n \in Names : n \notin Touches(m) => Statement(t, m, id).tbl[n] = t[n]
           /\ m.op \in RowOps => m.name \in Touches(m)
           /\ \A u \in Tables : \A n \in Touches(m) :
                t[m.name] = u[m.name] => Statement(u, m, id).tbl[n] = Statement(t, m, id).tbl[n]
<1>1. m.name \in Names /\ m.to \in Names /\ m.new \in Nat
  BY MessageFacts
<1>2. CASE m.op = "insert"
  <2> DEFINE x == [ver |-> m.new, txn |-> id, mem |-> id]
  <2>1. \A u : Statement(u, m, id).tbl = [u EXCEPT ![m.name] = x]
    BY <1>2 DEF Statement, insertRec
  <2>2. Touches(m) = {m.name}
    BY <1>2 DEF Touches, RowOps
  <2>3. x \in Row
    BY <1>1, MessageFacts
  <2> HIDE DEF x
  <2>4. ASSUME NEW u \in Tables
        PROVE  /\ Statement(u, m, id).tbl \in Tables
               /\ \A n \in Names : Statement(u, m, id).tbl[n] = IF n = m.name THEN x ELSE u[n]
    <3>1. /\ [u EXCEPT ![m.name] = x] \in Tables
          /\ \A n \in Names : [u EXCEPT ![m.name] = x][n] = IF n = m.name THEN x ELSE u[n]
      BY <1>1, <2>3, OneRow
    <3>2. Statement(u, m, id).tbl = [u EXCEPT ![m.name] = x]
      BY <2>1
    <3>. QED BY <3>1, <3>2
  <2>. QED BY <1>1, <2>2, <2>4
<1>3. CASE m.op = "update"
  <2> DEFINE x == [ver |-> m.new, txn |-> id, mem |-> id]
  <2>1. \A u : Statement(u, m, id).tbl = [u EXCEPT ![m.name] = x]
    BY <1>3 DEF Statement, updateRec
  <2>2. Touches(m) = {m.name}
    BY <1>3 DEF Touches, RowOps
  <2>3. x \in Row
    BY <1>1, MessageFacts
  <2> HIDE DEF x
  <2>4. ASSUME NEW u \in Tables
        PROVE  /\ Statement(u, m, id).tbl \in Tables
               /\ \A n \in Names : Statement(u, m, id).tbl[n] = IF n = m.name THEN x ELSE u[n]
    <3>1. /\ [u EXCEPT ![m.name] = x] \in Tables
          /\ \A n \in Names : [u EXCEPT ![m.name] = x][n] = IF n = m.name THEN x ELSE u[n]
      BY <1>1, <2>3, OneRow
    <3>2. Statement(u, m, id).tbl = [u EXCEPT ![m.name] = x]
      BY <2>1
    <3>. QED BY <3>1, <3>2
  <2>. QED BY <1>1, <2>2, <2>4
<1>4. CASE m.op = "delete"
  <2>1. \A u : Statement(u, m, id).tbl = [u EXCEPT ![m.name] = NoRow]
    BY <1>4 DEF Statement, deleteDataRecords
  <2>2. Touches(m) = {m.name}
    BY <1>4 DEF Touches, RowOps
  <2>4. ASSUME NEW u \in Tables
        PROVE  /\ Statement(u, m, id).tbl \in Tables
               /\ \A n \in Names : Statement(u, m, id).tbl[n] = IF n = m.name THEN NoRow ELSE u[n]
    <3>1. /\ [u EXCEPT ![m.name] = NoRow] \in Tables
          /\ \A n \in Names : [u EXCEPT ![m.name] = NoRow][n] = IF n = m.name THEN NoRow ELSE u[n]
      BY <1>1, OneRow
    <3>2. Statement(u, m, id).tbl = [u EXCEPT ![m.name] = NoRow]
      BY <2>1
    <3>. QED BY <3>1, <3>2
  <2>. QED BY <1>1, <2>2, <2>4
<1>5. CASE m.op = "rename"
  <2>1. t[m.name] # NoRow
    BY <1>5 DEF Claim, RowOps
  <2>2. \A u : u[m.name] # NoRow => Statement(u, m, id).tbl =
           [u EXCEPT ![m.name] = NoRow,
                     ![m.to] = [ver |-> m.new, txn |-> id, mem |-> u[m.name].mem]]
    BY <1>5 DEF Statement, renameDataRecords
  <2>3. Touches(m) = {m.name, m.to}
    BY <1>5 DEF Touches
  <2>4. t[m.name] \in Row
    BY <1>1, <2>1 DEF Tables
  <2> DEFINE r == [ver |-> m.new, txn |-> id, mem |-> t[m.name].mem]
  <2>5. r \in Row
    BY <1>1, <2>4, MessageFacts
  <2>6. Statement(t, m, id).tbl = [t EXCEPT ![m.name] = NoRow, ![m.to] = r]
    BY <2>1, <2>2
  <2>7. \A u : u[m.name] = t[m.name] =>
           Statement(u, m, id).tbl = [u EXCEPT ![m.name] = NoRow, ![m.to] = r]
    BY <2>1, <2>2
  <2> HIDE DEF r
  <2>8. Statement(t, m, id).tbl \in Tables
    BY <1>1, <2>5, <2>6 DEF Tables
  <2>9. \A u \in Tables : u[m.name] = t[m.name] => \A n \in Names :
           Statement(u, m, id).tbl[n] = IF n = m.to THEN r ELSE IF n = m.name THEN NoRow ELSE u[n]
    BY <1>1, <2>7 DEF Tables
  <2>. QED BY <1>1, <1>5, <2>3, <2>8, <2>9
<1>6. CASE m.op \notin RowOps
  <2>1. \A u : Statement(u, m, id).tbl = u
    BY <1>6 DEF Statement, RowOps
  <2>2. Touches(m) = {}
    BY <1>6 DEF Touches, RowOps
  <2>. QED BY <1>6, <2>1, <2>2
<1>. QED BY <1>2, <1>3, <1>4, <1>5, <1>6 DEF RowOps

\* R are the tables that the operations q lead through, from t on; each finds
\* what it claims.
Run(R, t, q) ==
    /\ R \in [0..Len(q) -> Tables] /\ R[0] = t
    /\ \A i \in 1..Len(q) : /\ R[i] = Statement(R[i - 1], q[i].msg, q[i].id).tbl
                            /\ Claim(R[i - 1], q[i].msg)

\* One more operation.
LEMMA RunExtends ==
    ASSUME NEW q \in Seq(Op), NEW e \in Op, NEW R, NEW t, Run(R, t, q),
           Claim(R[Len(q)], e.msg)
    PROVE  LET S == [i \in 0..(Len(q) + 1) |->
                        IF i <= Len(q) THEN R[i] ELSE Statement(R[Len(q)], e.msg, e.id).tbl]
           IN  Run(S, t, Append(q, e))
<1> DEFINE n == Len(q)
           x == Statement(R[n], e.msg, e.id).tbl
           S == [i \in 0..(n + 1) |-> IF i <= n THEN R[i] ELSE x]
           p == Append(q, e)
<1>1. n \in Nat /\ R \in [0..n -> Tables] /\ R[0] = t /\ R[n] \in Tables
  BY DEF Run
<1>2. x \in Tables
  BY <1>1, MessageFacts, StatementEffect
<1>3. Len(p) = n + 1 /\ p[n + 1] = e /\ \A i \in 1..n : p[i] = q[i]
  OBVIOUS
<1>4. \A i \in 1..n : /\ R[i] = Statement(R[i - 1], q[i].msg, q[i].id).tbl
                      /\ Claim(R[i - 1], q[i].msg)
  BY DEF Run
<1> HIDE DEF n, p, x
<1>5. S \in [0..(n + 1) -> Tables] /\ S[0] = t /\ S[n + 1] = x /\ S[n] = R[n]
  BY <1>1, <1>2
<1>6. ASSUME NEW i \in 1..(n + 1)
      PROVE  S[i] = Statement(S[i - 1], p[i].msg, p[i].id).tbl /\ Claim(S[i - 1], p[i].msg)
  <2>1. CASE i \in 1..n
    <3>1. S[i] = R[i] /\ S[i - 1] = R[i - 1] /\ p[i] = q[i]
      BY <1>1, <1>3, <2>1
    <3>. QED BY <1>4, <2>1, <3>1
  <2>2. CASE i = n + 1
    <3>1. i - 1 = n /\ S[i] = x /\ S[i - 1] = R[n] /\ p[i] = e
      BY <1>1, <1>3, <1>5, <2>2
    <3>. QED BY <3>1 DEF x, n
  <2>. QED BY <1>1, <2>1, <2>2
<1> HIDE DEF S
<1>7. Run(S, t, p)
  BY <1>3, <1>5, <1>6 DEF Run
<1>. QED BY <1>7 DEF S, n, p, x

\* The operations of one session after the history.
LEMMA RunsJoin ==
    ASSUME NEW p \in Seq(Op), NEW q \in Seq(Op), NEW H, NEW R, NEW t, Run(H, t, p),
           Run(R, H[Len(p)], q)
    PROVE  \E J : Run(J, t, p \o q) /\ J[Len(p \o q)] = R[Len(q)]
<1> DEFINE h == Len(p)
           n == Len(q)
           J == [i \in 0..(h + n) |-> IF i <= h THEN H[i] ELSE R[i - h]]
           r == p \o q
<1>1. h \in Nat /\ n \in Nat /\ H \in [0..h -> Tables] /\ R \in [0..n -> Tables]
      /\ H[0] = t /\ R[0] = H[h]
  BY DEF Run
<1>2. Len(r) = h + n /\ (\A i \in 1..h : r[i] = p[i]) /\ \A i \in (h + 1)..(h + n) : r[i] = q[i - h]
  OBVIOUS
<1>3. \A i \in 1..h : H[i] = Statement(H[i - 1], p[i].msg, p[i].id).tbl /\ Claim(H[i - 1], p[i].msg)
  BY DEF Run
<1>4. \A i \in 1..n : R[i] = Statement(R[i - 1], q[i].msg, q[i].id).tbl /\ Claim(R[i - 1], q[i].msg)
  BY DEF Run
<1> HIDE DEF h, n, r
<1>5. J \in [0..(h + n) -> Tables] /\ J[0] = t
  <2>1. ASSUME NEW i \in 0..(h + n) PROVE J[i] \in Tables
    <3>1. CASE i <= h
      <4>1. i \in 0..h
        BY <1>1, <3>1
      <4>. QED BY <1>1, <3>1, <4>1
    <3>2. CASE ~(i <= h)
      <4>1. i - h \in 0..n
        BY <1>1, <3>2
      <4>. QED BY <1>1, <3>2, <4>1
    <3>. QED BY <3>1, <3>2
  <2>2. 0 \in 0..(h + n) /\ 0 <= h
    BY <1>1
  <2>. QED BY <1>1, <2>1, <2>2
<1>6. ASSUME NEW i \in 1..(h + n)
      PROVE  J[i] = Statement(J[i - 1], r[i].msg, r[i].id).tbl /\ Claim(J[i - 1], r[i].msg)
  <2>1. CASE i <= h
    <3>1. i \in 1..h /\ J[i] = H[i] /\ J[i - 1] = H[i - 1] /\ r[i] = p[i]
      BY <1>1, <1>2, <2>1
    <3>. QED BY <1>3, <3>1
  <2>2. CASE i > h
    <3>1. i - h \in 1..n /\ J[i] = R[i - h] /\ r[i] = q[i - h]
      <4>1. i - h \in 1..n /\ i \in (h + 1)..(h + n) /\ i \in 0..(h + n) /\ ~(i <= h)
        BY <1>1, <2>2
      <4>2. r[i] = q[i - h]
        BY <1>2, <4>1
      <4>. QED BY <4>1, <4>2
    <3>2. J[i - 1] = R[(i - h) - 1]
      <4>1. CASE i = h + 1
        BY <1>1, <4>1
      <4>2. CASE i > h + 1
        BY <1>1, <4>2
      <4>. QED BY <1>1, <2>2, <4>1, <4>2
    <3>. QED BY <1>4, <3>1, <3>2
  <2>. QED BY <1>1, <2>1, <2>2
<1>7. J[h + n] = R[n]
  <2>1. CASE n = 0
    BY <1>1, <2>1
  <2>2. CASE n # 0
    <3>1. h + n \in 0..(h + n) /\ ~(h + n <= h) /\ (h + n) - h = n
      BY <1>1, <2>2
    <3>. QED BY <3>1
  <2>. QED BY <2>1, <2>2
<1> HIDE DEF J
<1>8. Run(J, t, r)
  BY <1>2, <1>5, <1>6 DEF Run
<1>. QED BY <1>2, <1>7, <1>8 DEF r, n

-----------------------------------------------------------------------------
(* What a session has written, over the committed table. *)

ViewOf(objs, t) == [n \in Names |-> IF objs[n] = Same THEN t[n] ELSE objs[n]]

\* The operations of a session lead from the committed table to what it sees;
\* they touch the rows it has written only, and the others are as committed.
Session(w, t) ==
    \E R : /\ Run(R, t, w.ops) /\ R[Len(w.ops)] = ViewOf(w.objs, t)
           /\ \A i \in 1..Len(w.ops) : \A n \in Touches(w.ops[i].msg) : w.objs[n] # Same
           /\ \A i \in 0..Len(w.ops) : \A n \in Names : w.objs[n] = Same => R[i][n] = t[n]

\* The fields of a session's work.
LEMMA WorkFacts ==
    ASSUME NEW w \in Work
    PROVE  /\ w.objs \in Writes /\ w.ops \in Seq(Op) /\ w.parts \in Seq(Part) /\ w.headers \in SUBSET Nat
           /\ DOMAIN w.ops = 1..Len(w.ops) /\ Len(w.ops) \in Nat
           /\ \A i \in 1..Len(w.ops) : w.ops[i] \in Op /\ w.ops[i].msg \in Message /\ w.ops[i].id \in Nat
<1>1. w.objs \in Writes /\ w.ops \in Seq(Op) /\ w.parts \in Seq(Part) /\ w.headers \in SUBSET Nat
  BY DEF Work
<1>2. DOMAIN w.ops = 1..Len(w.ops) /\ Len(w.ops) \in Nat /\ \A i \in 1..Len(w.ops) : w.ops[i] \in Op
  BY <1>1
<1>. QED BY <1>1, <1>2, MessageFacts

\* A view is a table.
LEMMA ViewType ==
    ASSUME NEW objs \in Writes, NEW t \in Tables
    PROVE  ViewOf(objs, t) \in Tables
  BY DEF ViewOf, Tables, Writes

\* A new transaction.
LEMMA NoSession ==
    /\ NoWork \in Work /\ NoWork.ops = <<>> /\ NoWork.headers = {} /\ NoWork.parts = <<>>
    /\ \A n \in Names : NoWork.objs[n] = Same
    /\ \A t \in Tables : Session(NoWork, t)
<1>1. /\ NoWork \in Work /\ NoWork.ops = <<>> /\ NoWork.headers = {} /\ NoWork.parts = <<>>
      /\ \A n \in Names : NoWork.objs[n] = Same
  BY DEF NoWork, Work, Writes
<1>2. ASSUME NEW t \in Tables PROVE Session(NoWork, t)
  <2> DEFINE R == [i \in 0..0 |-> t]
  <2>1. Len(NoWork.ops) = 0
    BY <1>1
  <2>2. R \in [0..0 -> Tables] /\ R[0] = t /\ \A i \in 0..0 : R[i] = t
    OBVIOUS
  <2>3. ViewOf(NoWork.objs, t) = t
    BY <1>1 DEF ViewOf, Tables
  <2> HIDE DEF R
  <2>4. Run(R, t, NoWork.ops)
    BY <2>1, <2>2 DEF Run
  <2>5. R[Len(NoWork.ops)] = ViewOf(NoWork.objs, t)
    BY <2>1, <2>2, <2>3
  <2>6. \A i \in 1..Len(NoWork.ops) : FALSE
    BY <2>1
  <2>7. \A i \in 0..Len(NoWork.ops) : \A n \in Names : NoWork.objs[n] = Same => R[i][n] = t[n]
    BY <2>1, <2>2
  <2>. QED BY <2>4, <2>5, <2>6, <2>7 DEF Session
<1>. QED BY <1>1, <1>2

\* A session goes on over another committed table, if that has the same rows
\* where the session has written and under the names it has inserted.
LEMMA SessionRebased ==
    ASSUME NEW w \in Work, NEW t \in Tables, NEW u \in Tables, Session(w, t),
           \A n \in Names : w.objs[n] # Same => u[n] = t[n],
           \A i \in 1..Len(w.ops) : w.ops[i].msg.op = "insert" =>
               \A k \in Names : lower[k] = lower[w.ops[i].msg.name] => u[k] = t[k]
    PROVE  Session(w, u)
<1> DEFINE q == w.ops
           objs == w.objs
           n == Len(q)
<1>1. PICK R : /\ Run(R, t, q) /\ R[n] = ViewOf(objs, t)
               /\ \A i \in 1..n : \A k \in Touches(q[i].msg) : objs[k] # Same
               /\ \A i \in 0..n : \A k \in Names : objs[k] = Same => R[i][k] = t[k]
  BY DEF Session
<1> DEFINE S == [i \in 0..n |-> [k \in Names |-> IF objs[k] = Same THEN u[k] ELSE R[i][k]]]
<1>2. n \in Nat /\ objs \in Writes /\ \A i \in 1..n : q[i].msg \in Message /\ q[i].id \in Nat
  BY WorkFacts
<1>3. R \in [0..n -> Tables] /\ R[0] = t
  BY <1>1 DEF Run
<1>4. /\ \A k \in Names : objs[k] # Same => u[k] = t[k]
      /\ \A i \in 1..n : q[i].msg.op = "insert" =>
               \A k \in Names : lower[k] = lower[q[i].msg.name] => u[k] = t[k]
  OBVIOUS
<1> HIDE DEF q, objs, n
<1>5. \A i \in 0..n : /\ S[i] \in Tables
                      /\ \A k \in Names : S[i][k] = IF objs[k] = Same THEN u[k] ELSE R[i][k]
  BY <1>3 DEF Tables
<1>6. S \in [0..n -> Tables]
  BY <1>5
<1> HIDE DEF S
<1>7. S[0] = u
  <2>1. 0 \in 0..n
    BY <1>2
  <2>2. \A k \in Names : S[0][k] = u[k]
    BY <1>3, <1>4, <1>5, <2>1
  <2>. QED BY <1>5, <2>1, <2>2 DEF Tables
<1>8. ASSUME NEW i \in 1..n
      PROVE  S[i] = Statement(S[i - 1], q[i].msg, q[i].id).tbl /\ Claim(S[i - 1], q[i].msg)
  <2> DEFINE m == q[i].msg
             id == q[i].id
             a == R[i - 1]
             b == S[i - 1]
  <2>1. i - 1 \in 0..n /\ i \in 0..n /\ m \in Message /\ id \in Nat /\ m.name \in Names
    BY <1>2, MessageFacts
  <2>2. a \in Tables /\ b \in Tables /\ R[i] \in Tables /\ S[i] \in Tables
    BY <1>3, <1>5, <2>1
  <2>3. R[i] = Statement(a, m, id).tbl /\ Claim(a, m)
    BY <1>1 DEF Run, n
  <2>4. \A k \in Touches(m) : objs[k] # Same
    BY <1>1
  <2>5. /\ \A k \in Names : b[k] = IF objs[k] = Same THEN u[k] ELSE a[k]
        /\ \A k \in Names : S[i][k] = IF objs[k] = Same THEN u[k] ELSE R[i][k]
        /\ \A k \in Names : objs[k] = Same => a[k] = t[k]
    BY <1>1, <1>5, <2>1
  <2>6. m.op = "insert" => \A k \in Names : lower[k] = lower[m.name] => u[k] = t[k]
    BY <1>4
  <2> HIDE DEF m, id, a, b
  <2>7. /\ Touches(m) \subseteq Names
        /\ \A k \in Names : k \notin Touches(m) => Statement(a, m, id).tbl[k] = a[k]
        /\ m.op \in RowOps => m.name \in Touches(m)
        /\ \A k \in Touches(m) : a[m.name] = b[m.name] =>
               Statement(b, m, id).tbl[k] = Statement(a, m, id).tbl[k]
    BY <2>1, <2>2, <2>3, StatementEffect
  <2>8. m.op \in RowOps => b[m.name] = a[m.name]
    BY <2>1, <2>4, <2>5, <2>7
  <2>9. Claim(b, m)
    <3>1. CASE m.op = "insert"
      <4>1. \A k \in Names : lower[k] = lower[m.name] => a[k] = NoRow
        BY <2>3, <3>1 DEF Claim
      <4>2. \A k \in Names : lower[k] = lower[m.name] => b[k] = NoRow
        BY <2>5, <2>6, <3>1, <4>1
      <4>. QED BY <3>1, <4>2 DEF Claim
    <3>2. CASE m.op \in RowOps /\ m.op # "insert"
      BY <2>3, <2>8, <3>2 DEF Claim, RowOps
    <3>3. CASE m.op \notin RowOps
      BY <3>3 DEF Claim, RowOps
    <3>. QED BY <3>1, <3>2, <3>3
  <2>10. Statement(b, m, id).tbl \in Tables
         /\ \A k \in Names : k \notin Touches(m) => Statement(b, m, id).tbl[k] = b[k]
    BY <2>1, <2>2, <2>9, StatementEffect
  <2>11. ASSUME NEW k \in Names PROVE Statement(b, m, id).tbl[k] = S[i][k]
    <3>1. CASE k \in Touches(m)
      <4>1. m.op \in RowOps
        BY <3>1 DEF Touches, RowOps
      <4>. QED BY <2>3, <2>4, <2>5, <2>7, <2>8, <3>1, <4>1
    <3>2. CASE k \notin Touches(m)
      BY <2>3, <2>5, <2>7, <2>10, <3>2
    <3>. QED BY <3>1, <3>2
  <2>12. Statement(b, m, id).tbl = S[i]
    BY <2>2, <2>10, <2>11 DEF Tables
  <2>. QED BY <2>9, <2>12 DEF m, id, b
<1>9. S[n] = ViewOf(objs, u)
  <2>1. n \in 0..n
    BY <1>2
  <2>2. \A k \in Names : S[n][k] = IF objs[k] = Same THEN u[k] ELSE objs[k]
    BY <1>1, <1>5, <2>1 DEF ViewOf
  <2>. QED BY <1>5, <2>1, <2>2 DEF Tables, ViewOf
<1>10. Run(S, u, q)
  BY <1>6, <1>7, <1>8 DEF Run, n
<1>11. \A i \in 0..n : \A k \in Names : objs[k] = Same => S[i][k] = u[k]
  BY <1>5
<1>. QED BY <1>1, <1>9, <1>10, <1>11 DEF Session, q, objs, n

\* A session goes on with one more operation that finds what it claims.
LEMMA SessionStep ==
    ASSUME NEW w \in Work, NEW t \in Tables, Session(w, t), NEW e \in Op, NEW v \in Work,
           Claim(ViewOf(w.objs, t), e.msg), v.ops = Append(w.ops, e),
           \A k \in Names : v.objs[k] = IF k \in Touches(e.msg)
                                        THEN Statement(ViewOf(w.objs, t), e.msg, e.id).tbl[k]
                                        ELSE w.objs[k]
    PROVE  Session(v, t)
<1> DEFINE q == w.ops
           n == Len(q)
           x == ViewOf(w.objs, t)
           y == Statement(x, e.msg, e.id).tbl
<1>1. PICK R : /\ Run(R, t, q) /\ R[n] = x
               /\ \A i \in 1..n : \A k \in Touches(q[i].msg) : w.objs[k] # Same
               /\ \A i \in 0..n : \A k \in Names : w.objs[k] = Same => R[i][k] = t[k]
  BY DEF Session
<1> DEFINE S == [i \in 0..(n + 1) |-> IF i <= n THEN R[i] ELSE Statement(R[n], e.msg, e.id).tbl]
<1>2. n \in Nat /\ q \in Seq(Op) /\ w.objs \in Writes /\ v.objs \in Writes /\ e.msg \in Message /\ e.id \in Nat
  BY WorkFacts, MessageFacts
<1>3. Run(S, t, v.ops)
  BY <1>1, <1>2, RunExtends
<1>4. Len(v.ops) = n + 1 /\ v.ops[n + 1] = e /\ \A i \in 1..n : v.ops[i] = q[i]
  BY <1>2
<1>5. x \in Tables
  BY <1>2, ViewType
<1>6. /\ y \in Tables /\ Touches(e.msg) \subseteq Names
      /\ \A k \in Names : k \notin Touches(e.msg) => y[k] = x[k]
  BY <1>2, <1>5, StatementEffect
<1>7. (\A i \in 0..n : S[i] = R[i]) /\ S[n + 1] = y
  BY <1>1, <1>2
<1>8. \A k \in Names : x[k] = IF w.objs[k] = Same THEN t[k] ELSE w.objs[k]
  BY DEF ViewOf
<1>9. \A k \in Names : v.objs[k] = IF k \in Touches(e.msg) THEN y[k] ELSE w.objs[k]
  OBVIOUS
<1> HIDE DEF q, n, x, y, S
<1>10. \A k \in Touches(e.msg) : v.objs[k] # Same
  <2>1. \A k \in Names : y[k] # Same
    BY <1>6, Apart DEF Tables
  <2>. QED BY <1>6, <1>9, <2>1
<1>11. y = ViewOf(v.objs, t)
  <2>1. \A k \in Names : y[k] = IF v.objs[k] = Same THEN t[k] ELSE v.objs[k]
    BY <1>6, <1>8, <1>9, <1>10
  <2>. QED BY <1>6, <2>1 DEF Tables, ViewOf
<1>12. ASSUME NEW i \in 1..(n + 1), NEW k \in Touches(v.ops[i].msg) PROVE v.objs[k] # Same
  <2>1. CASE i \in 1..n
    <3>1. k \in Touches(q[i].msg) /\ w.objs[k] # Same
      BY <1>1, <1>4, <2>1
    <3>2. Run(R, t, q) /\ q[i].msg \in Message /\ i - 1 \in 0..n /\ q[i].id \in Nat
      BY <1>1, <1>2, <2>1, WorkFacts DEF q, n
    <3>3. R[i - 1] \in Tables /\ Claim(R[i - 1], q[i].msg)
      BY <2>1, <3>2 DEF Run, n
    <3>4. k \in Names
      BY <3>1, <3>2, <3>3, StatementEffect
    <3>. QED BY <1>9, <1>10, <3>1, <3>4
  <2>2. CASE i = n + 1
    BY <1>4, <1>10, <2>2
  <2>. QED BY <1>2, <2>1, <2>2
<1>13. ASSUME NEW i \in 0..(n + 1), NEW k \in Names, v.objs[k] = Same PROVE S[i][k] = t[k]
  <2>1. k \notin Touches(e.msg) /\ w.objs[k] = Same
    BY <1>9, <1>10, <1>13
  <2>2. CASE i \in 0..n
    BY <1>1, <1>7, <2>1, <2>2
  <2>3. CASE i = n + 1
    BY <1>6, <1>7, <1>8, <2>1, <2>3
  <2>. QED BY <1>2, <2>2, <2>3
<1>. QED BY <1>3, <1>4, <1>7, <1>11, <1>12, <1>13 DEF Session

-----------------------------------------------------------------------------
(* Types. *)

DbTypes ==
    /\ objects \in Tables /\ headers \in SUBSET Nat /\ parts \in Seq(Part) /\ history \in Seq(Op)
    /\ work \in [Conns -> Work]

PoolTypes == idle \in Seq(Conns) /\ Len(idle) <= QueueCapacity /\ active \in Int

CallTypes ==
    /\ seqVal \in Nat /\ broken \in [Conns -> BOOLEAN]
    /\ st \in [Streams -> {"idle", "open", "closed", "cancelled"}]
    /\ conn \in [Streams -> Conns \cup {Null}]
    /\ resultSet \in [Streams -> MaybeId] /\ txnId \in [Streams -> MaybeId]
    /\ transpartIndex \in [Streams -> Nat]
    /\ script \in [Streams -> Seq(Message)] /\ pos \in [Streams -> Nat]
    /\ reply \in [Streams -> {"none", "success", "failure", "error", "cancelled"}]
    /\ late \in BOOLEAN

\* A call has a connection from its beginning on, and handles its messages in turn.
Calls ==
    \A s \in Streams : /\ pos[s] <= Len(script[s]) + 1
                       /\ st[s] = "idle" => /\ conn[s] = Null /\ resultSet[s] = Null /\ txnId[s] = Null
                                           /\ transpartIndex[s] = 0
                       /\ st[s] = "open" => conn[s] # Null
                       /\ txnId[s] # Null => txnId[s] = resultSet[s]

Types == DbTypes /\ PoolTypes /\ CallTypes /\ Calls

\* The message an open call handles next.
LEMMA NextMessage ==
    ASSUME Types, NEW s \in Streams, HasNext(s)
    PROVE  /\ Msg(s) \in Message /\ conn[s] \in Conns /\ st[s] = "open"
           /\ pos[s] + 1 \in 1..Len(script[s]) /\ pos[s] \in Nat
           /\ Id(s) = resultSet[s] /\ (Id(s) # Null => Id(s) \in Nat) /\ Id(s) \in MaybeId
<1>1. script[s] \in Seq(Message) /\ pos[s] \in Nat /\ pos[s] < Len(script[s]) /\ st[s] = "open"
  BY DEF Types, CallTypes, HasNext
<1>2. pos[s] + 1 \in 1..Len(script[s])
  BY <1>1
<1>3. Msg(s) \in Message
  BY <1>1, <1>2 DEF Msg
<1>4. conn[s] \in Conns
  BY <1>1 DEF Types, CallTypes, Calls
<1>5. Id(s) = resultSet[s]
  BY DEF Types, Calls, Id
<1>6. resultSet[s] \in MaybeId
  BY DEF Types, CallTypes
<1>. QED BY <1>1, <1>2, <1>3, <1>4, <1>5, <1>6 DEF MaybeId

\* What a session's transaction becomes.
LEMMA AppliedType ==
    ASSUME Types, NEW s \in Streams, NEW c \in Conns, NEW m \in Message, NEW id \in Nat,
           Claim(View(c), m)
    PROVE  /\ Applied(c, s, m, id) \in Work
           /\ \A k \in Names : Applied(c, s, m, id).objs[k] =
                IF k \in Touches(m) THEN Statement(View(c), m, id).tbl[k] ELSE work[c].objs[k]
           /\ Applied(c, s, m, id).headers = work[c].headers \cup (IF m.op = "header" THEN {id} ELSE {})
           /\ Applied(c, s, m, id).parts = IF m.op = "header" THEN work[c].parts
                ELSE Append(work[c].parts, [id |-> id, part |-> transpartIndex[s], op |-> m.op])
           /\ Applied(c, s, m, id).ops = IF m.op = "header" THEN work[c].ops
                ELSE Append(work[c].ops, [s |-> s, id |-> id, msg |-> m])
           /\ [s |-> s, id |-> id, msg |-> m] \in Op
           /\ [id |-> id, part |-> transpartIndex[s], op |-> m.op] \in Part
           /\ View(c) = ViewOf(work[c].objs, objects) /\ View(c) \in Tables
<1>1. work[c] \in Work /\ objects \in Tables /\ transpartIndex[s] \in Nat
  BY DEF Types, DbTypes, CallTypes
<1>2. work[c].objs \in Writes /\ work[c].ops \in Seq(Op) /\ work[c].parts \in Seq(Part)
      /\ work[c].headers \in SUBSET Nat
  BY <1>1, WorkFacts
<1>3. View(c) = ViewOf(work[c].objs, objects)
  BY DEF View, ViewOf
<1>4. View(c) \in Tables
  BY <1>1, <1>2, <1>3, ViewType
<1> DEFINE after == Statement(View(c), m, id).tbl
           objs == [n \in Names |-> IF n \in Touches(m) THEN after[n] ELSE work[c].objs[n]]
           hs == work[c].headers \cup (IF m.op = "header" THEN {id} ELSE {})
           e == [s |-> s, id |-> id, msg |-> m]
           p == [id |-> id, part |-> transpartIndex[s], op |-> m.op]
           ps == IF m.op = "header" THEN work[c].parts ELSE Append(work[c].parts, p)
           es == IF m.op = "header" THEN work[c].ops ELSE Append(work[c].ops, e)
<1>5. after \in Tables
  BY <1>4, StatementEffect
<1>6. Applied(c, s, m, id) = [objs |-> objs, headers |-> hs, parts |-> ps, ops |-> es]
  BY DEF Applied
<1>7. e \in Op
  BY DEF Op
<1>8. p \in Part
  BY <1>1 DEF Part, Message
<1> HIDE DEF after, e, p
<1>9. objs \in Writes
  BY <1>2, <1>5 DEF Tables, Writes
<1>10. hs \in SUBSET Nat /\ ps \in Seq(Part) /\ es \in Seq(Op)
  BY <1>2, <1>7, <1>8
<1>11. \A k \in Names : objs[k] = IF k \in Touches(m) THEN after[k] ELSE work[c].objs[k]
  OBVIOUS
<1> HIDE DEF objs, hs, ps, es
<1>12. Applied(c, s, m, id) \in Work
  BY <1>6, <1>9, <1>10 DEF Work
<1>13. /\ Applied(c, s, m, id).objs = objs /\ Applied(c, s, m, id).headers = hs
       /\ Applied(c, s, m, id).parts = ps /\ Applied(c, s, m, id).ops = es
  BY <1>6
<1>. QED BY <1>3, <1>4, <1>7, <1>8, <1>11, <1>12, <1>13 DEF hs, ps, es, e, p, after

\* A statement that goes through finds what it claims.
LEMMA ClaimFound ==
    ASSUME NEW t \in Tables, NEW m \in Message, NEW id, Statement(t, m, id).ok
    PROVE  Claim(t, m)
<1>1. CASE m.op = "insert"
  <2>1. TakenBy(t, m.name) = {}
    BY <1>1 DEF Statement, insertRec
  <2>. QED BY <1>1, <2>1 DEF Claim, TakenBy
<1>2. CASE m.op = "update"
  BY <1>2 DEF Statement, updateRec, Matches, Claim, RowOps
<1>3. CASE m.op = "rename"
  BY <1>3 DEF Statement, renameDataRecords, Matches, Claim, RowOps
<1>4. CASE m.op = "delete"
  BY <1>4 DEF Statement, deleteDataRecords, Matches, Claim, RowOps
<1>5. CASE m.op \notin RowOps
  BY <1>5 DEF Claim, RowOps
<1>. QED BY <1>1, <1>2, <1>3, <1>4, <1>5 DEF RowOps

\* What can happen to the database.
DbStep ==
    \/ UNCHANGED dbVars
    \/ \E c \in Conns : Commits(c) \/ RollsBack(c)
    \/ \E s \in Streams : OnNext(s)

\* What can happen to the pool.
PoolStep ==
    \/ UNCHANGED poolVars
    \/ TakesConnection /\ active' \in {active, active + 1}
    \/ \E c \in Conns : ClosesConnection(c)

\* Every step is one of these for the database and for the pool.
LEMMA StepKinds ==
    ASSUME Types, [Next]_vars
    PROVE  DbStep /\ PoolStep
<1>1. ASSUME NEW s \in Streams, st[s] = "open" PROVE conn[s] \in Conns
  BY <1>1 DEF Types, CallTypes, Calls
<1>2. ASSUME NEW s \in Streams, HasNext(s) PROVE conn[s] \in Conns
  BY <1>1, <1>2 DEF HasNext
<1>3. ASSUME NEW s \in Streams, HalfClosed(s) PROVE conn[s] \in Conns
  BY <1>3 DEF Types, CallTypes, HalfClosed
<1>4. ASSUME NEW s \in Streams, Begin(s) \/ BeginTimesOut(s) PROVE DbStep /\ PoolStep
  BY <1>4 DEF Begin, BeginTimesOut, DbStep, PoolStep
<1>5. ASSUME NEW s \in Streams, OnNext(s) PROVE DbStep /\ PoolStep
  BY <1>5 DEF OnNext, DbStep, PoolStep
<1>6. ASSUME NEW s \in Streams, OnNextCommits(s) PROVE DbStep /\ PoolStep
  BY <1>2, <1>6 DEF OnNextCommits, OnNextBegins, DbStep, PoolStep
<1>7. ASSUME NEW s \in Streams, StatementFails(s) PROVE DbStep /\ PoolStep
  BY <1>2, <1>7 DEF StatementFails, OnNextBegins, OnError, DbStep, PoolStep
<1>8. ASSUME NEW s \in Streams, OnNextThrows(s) PROVE DbStep /\ PoolStep
  BY <1>8 DEF OnNextThrows, DbStep, PoolStep
<1>9. ASSUME NEW s \in Streams, OnNextCommitThrows(s) PROVE DbStep /\ PoolStep
  BY <1>2, <1>9 DEF OnNextCommitThrows, OnNextBegins, CommitThrows, DbStep, PoolStep
<1>10. ASSUME NEW s \in Streams, OnCompleted(s) PROVE DbStep /\ PoolStep
  BY <1>3, <1>10 DEF OnCompleted, DbStep, PoolStep
<1>11. ASSUME NEW s \in Streams, OnCompletedThrows(s) PROVE DbStep /\ PoolStep
  BY <1>3, <1>11 DEF OnCompletedThrows, CommitThrows, DbStep, PoolStep
<1>12. ASSUME NEW s \in Streams, ClientCancels(s) PROVE DbStep /\ PoolStep
  BY <1>1, <1>12 DEF ClientCancels, DbStep, PoolStep
<1>13. ASSUME NEW c \in Conns, Breaks(c) PROVE DbStep /\ PoolStep
  BY <1>13 DEF Breaks, DbStep, PoolStep
<1>14. ASSUME UNCHANGED vars PROVE DbStep /\ PoolStep
  BY <1>14 DEF vars, dbVars, poolVars, DbStep, PoolStep
<1>. QED BY <1>4, <1>5, <1>6, <1>7, <1>8, <1>9, <1>10, <1>11, <1>12, <1>13, <1>14
         DEF Next, Serves, OnNextFails, OnNextFaults

\* A commit in terms of its session.
LEMMA CommitTypes ==
    ASSUME DbTypes, NEW c \in Conns, Commits(c)
    PROVE  /\ DbTypes' /\ objects' = ViewOf(work[c].objs, objects)
           /\ work'[c] = NoWork /\ \A d \in Conns : d # c => work'[d] = work[d]
<1>1. work[c] \in Work /\ objects \in Tables
  BY DEF DbTypes
<1>2. objects' = ViewOf(work[c].objs, objects)
  BY DEF Commits, View, ViewOf
<1>3. objects' \in Tables
  BY <1>1, <1>2, WorkFacts, ViewType
<1>4. work' = [work EXCEPT ![c] = NoWork] /\ headers' = headers \cup work[c].headers
      /\ parts' = parts \o work[c].parts /\ history' = history \o work[c].ops
  BY DEF Commits
<1>5. work' \in [Conns -> Work] /\ work'[c] = NoWork /\ \A d \in Conns : d # c => work'[d] = work[d]
  BY <1>4, NoSession DEF DbTypes
<1>6. headers' \in SUBSET Nat /\ parts' \in Seq(Part) /\ history' \in Seq(Op)
  <2>1. work[c].ops \in Seq(Op) /\ work[c].parts \in Seq(Part) /\ work[c].headers \in SUBSET Nat
    BY <1>1, WorkFacts
  <2>2. headers \in SUBSET Nat /\ parts \in Seq(Part) /\ history \in Seq(Op)
    BY DEF DbTypes
  <2>3. headers' \in SUBSET Nat
    BY <1>4, <2>1, <2>2
  <2>4. \A p, q \in Seq(Part) : p \o q \in Seq(Part)
    OBVIOUS
  <2>5. \A p, q \in Seq(Op) : p \o q \in Seq(Op)
    OBVIOUS
  <2>6. parts' \in Seq(Part)
    BY <1>4, <2>1, <2>2, <2>4
  <2>7. history' \in Seq(Op)
    BY <1>4, <2>1, <2>2, <2>5
  <2>. QED BY <2>3, <2>6, <2>7
<1>. QED BY <1>2, <1>3, <1>5, <1>6 DEF DbTypes

\* A rollback in terms of its session.
LEMMA RollbackTypes ==
    ASSUME DbTypes, NEW c \in Conns, RollsBack(c)
    PROVE  DbTypes' /\ work'[c] = NoWork /\ \A d \in Conns : d # c => work'[d] = work[d]
  BY NoSession DEF DbTypes, RollsBack

\* A message in terms of its session.
LEMMA OnNextTypes ==
    ASSUME Types, NEW s \in Streams, OnNext(s)
    PROVE  /\ DbTypes' /\ conn[s] \in Conns /\ Msg(s) \in Message /\ Id(s) \in Nat
           /\ UNCHANGED <<objects, headers, parts, history>>
           /\ Claim(View(conn[s]), Msg(s))
           /\ work'[conn[s]] = Applied(conn[s], s, Msg(s), Id(s))
           /\ Applied(conn[s], s, Msg(s), Id(s)) \in Work
           /\ \A d \in Conns : d # conn[s] => work'[d] = work[d]
<1> DEFINE c == conn[s]
           m == Msg(s)
           id == Id(s)
<1>1. HasNext(s) /\ Id(s) # Null /\ Statement(View(c), m, id).ok
      /\ work' = [work EXCEPT ![c] = Applied(c, s, m, id)]
      /\ UNCHANGED <<objects, headers, parts, history>>
  BY DEF OnNext, OnNextBegins
<1>2. c \in Conns /\ m \in Message /\ id \in Nat
  BY <1>1, NextMessage
<1>3. work[c] \in Work /\ objects \in Tables /\ View(c) = ViewOf(work[c].objs, objects)
  BY <1>2 DEF Types, DbTypes, View, ViewOf
<1>4. View(c) \in Tables
  BY <1>3, WorkFacts, ViewType
<1> HIDE DEF c, m, id
<1>5. Claim(View(c), m)
  BY <1>1, <1>2, <1>4, ClaimFound
<1>6. Applied(c, s, m, id) \in Work
  BY <1>2, <1>5, AppliedType
<1>7. work' \in [Conns -> Work] /\ work'[c] = Applied(c, s, m, id)
      /\ \A d \in Conns : d # c => work'[d] = work[d]
  BY <1>1, <1>2, <1>6 DEF Types, DbTypes
<1>. QED BY <1>1, <1>2, <1>5, <1>6, <1>7 DEF Types, DbTypes, c, m, id

\* Connections are numbers, no connection is not.
LEMMA ConnFacts == Null \notin Conns /\ Null \notin Nat /\ PoolSize \in Nat
<1>1. PoolSize \in Nat /\ Null \notin Nat
  BY TxnAssumption
<1>2. \A c \in Conns : c \in Nat
  BY <1>1 DEF Conns
<1>. QED BY <1>1, <1>2

\* The queue of the pool after a step.
LEMMA PoolTypesStep ==
    ASSUME Types, PoolStep
    PROVE  PoolTypes'
<1>1. idle \in Seq(Conns) /\ Len(idle) <= QueueCapacity /\ active \in Int /\ QueueCapacity \in Nat
  BY TxnAssumption DEF Types, PoolTypes
<1>2. CASE UNCHANGED poolVars
  BY <1>1, <1>2 DEF PoolTypes, poolVars
<1>3. CASE TakesConnection /\ active' \in {active, active + 1}
  <2>1. idle # <<>> /\ idle' = Tail(idle)
    BY <1>3 DEF TakesConnection
  <2>2. Tail(idle) \in Seq(Conns) /\ Len(Tail(idle)) = Len(idle) - 1
    BY <1>1, <2>1
  <2>. QED BY <1>1, <1>3, <2>1, <2>2 DEF PoolTypes
<1>4. ASSUME NEW c \in Conns, ClosesConnection(c) PROVE PoolTypes'
  <2>1. CASE QueueHasRoom
    BY <1>1, <1>4, <2>1 DEF ClosesConnection, QueueHasRoom, PoolTypes
  <2>2. CASE ~QueueHasRoom
    BY <1>1, <1>4, <2>2 DEF ClosesConnection, PoolTypes, poolVars
  <2>. QED BY <2>1, <2>2
<1>. QED BY <1>2, <1>3, <1>4 DEF PoolStep

\* What a step may do to the calls: the cases, with what they leave alone.
Answered(s) ==
    \E a \in {"success", "failure", "error", "cancelled"} : Answers(s, a)

\* A call's states and answers after it was answered.
LEMMA AnsweredTypes ==
    ASSUME CallTypes, NEW s \in Streams, Answered(s)
    PROVE  /\ st' \in [Streams -> {"idle", "open", "closed", "cancelled"}]
           /\ reply' \in [Streams -> {"none", "success", "failure", "error", "cancelled"}]
           /\ st'[s] \in {"closed", "cancelled"} /\ \A u \in Streams : u # s => st'[u] = st[u]
<1>1. PICK a \in {"success", "failure", "error", "cancelled"} : Answers(s, a)
  BY DEF Answered
<1>. QED BY <1>1 DEF CallTypes, Answers

\* The variables of the calls after one message was consumed.
LEMMA MessageConsumed ==
    ASSUME Types, NEW s \in Streams, OnNextBegins(s)
    PROVE  /\ pos' \in [Streams -> Nat] /\ txnId' \in [Streams -> MaybeId]
           /\ UNCHANGED <<seqVal, conn, resultSet, script, late>>
           /\ txnId'[s] = resultSet[s] /\ \A u \in Streams : u # s => txnId'[u] = txnId[u]
           /\ pos'[s] <= Len(script[s]) /\ \A u \in Streams : u # s => pos'[u] = pos[u]
           /\ st[s] = "open" /\ conn[s] \in Conns
<1>1. HasNext(s) /\ pos' = [pos EXCEPT ![s] = @ + 1] /\ txnId' = [txnId EXCEPT ![s] = Id(s)]
      /\ UNCHANGED <<seqVal, conn, resultSet, script, late>>
  BY DEF OnNextBegins
<1>2. pos[s] + 1 \in 1..Len(script[s]) /\ pos[s] \in Nat /\ Id(s) = resultSet[s] /\ Id(s) \in MaybeId
      /\ st[s] = "open" /\ conn[s] \in Conns
  BY <1>1, NextMessage
<1>3. pos \in [Streams -> Nat] /\ txnId \in [Streams -> MaybeId] /\ script[s] \in Seq(Message)
  BY DEF Types, CallTypes
<1>4. pos' \in [Streams -> Nat] /\ pos'[s] = pos[s] + 1 /\ \A u \in Streams : u # s => pos'[u] = pos[u]
  BY <1>1, <1>2, <1>3
<1>5. txnId' \in [Streams -> MaybeId] /\ txnId'[s] = Id(s) /\ \A u \in Streams : u # s => txnId'[u] = txnId[u]
  BY <1>1, <1>2, <1>3
<1>6. pos'[s] <= Len(script[s])
  BY <1>2, <1>3, <1>4
<1>. QED BY <1>1, <1>2, <1>4, <1>5, <1>6

\* The variables of the calls after the half-close was consumed.
LEMMA HalfCloseConsumed ==
    ASSUME Types, NEW s \in Streams, HalfClosed(s)
    PROVE  /\ pos' \in [Streams -> Nat] /\ late' \in BOOLEAN
           /\ UNCHANGED <<seqVal, conn, resultSet, txnId, transpartIndex, script>>
           /\ pos'[s] = Len(script[s]) + 1 /\ \A u \in Streams : u # s => pos'[u] = pos[u]
           /\ st[s] \in {"open", "closed"} /\ conn[s] \in Conns
           /\ late' = (late \/ st[s] = "closed")
<1>1. pos' = [pos EXCEPT ![s] = Len(script[s]) + 1] /\ st[s] \in {"open", "closed"} /\ conn[s] # Null
      /\ late' = (late \/ st[s] = "closed")
      /\ UNCHANGED <<seqVal, conn, resultSet, txnId, transpartIndex, script>>
  BY DEF HalfClosed
<1>2. pos \in [Streams -> Nat] /\ script[s] \in Seq(Message) /\ conn \in [Streams -> Conns \cup {Null}]
  BY DEF Types, CallTypes
<1>3. pos' \in [Streams -> Nat] /\ pos'[s] = Len(script[s]) + 1 /\ \A u \in Streams : u # s => pos'[u] = pos[u]
  BY <1>1, <1>2
<1>4. late' \in BOOLEAN
  BY <1>1 DEF Types, CallTypes
<1>5. conn[s] \in Conns
  BY <1>1, <1>2
<1>. QED BY <1>1, <1>3, <1>4, <1>5

\* The connections' state after a commit that threw, or after a break.
LEMMA BrokenType ==
    ASSUME CallTypes, NEW c \in Conns, broken' = [broken EXCEPT ![c] = TRUE]
    PROVE  broken' \in [Conns -> BOOLEAN]
  BY DEF CallTypes

\* A new call.
LEMMA BeginCalls ==
    ASSUME Types, NEW s \in Streams, Begin(s)
    PROVE  CallTypes' /\ Calls'
<1>1. /\ st[s] = "idle" /\ TakesConnection /\ conn' = [conn EXCEPT ![s] = Head(idle)]
      /\ UNCHANGED <<broken, txnId, transpartIndex, script, pos, late>>
  BY DEF Begin
<1>2. Head(idle) \in Conns
  BY <1>1 DEF Types, PoolTypes, TakesConnection
<1>3. seqVal' \in Nat /\ resultSet' \in [Streams -> MaybeId]
      /\ \A u \in Streams : u # s => resultSet'[u] = resultSet[u]
  <2>1. CASE seqVal' = seqVal + 1 /\ resultSet' = [resultSet EXCEPT ![s] = seqVal + 1]
    BY <2>1 DEF Types, CallTypes, MaybeId
  <2>2. CASE UNCHANGED <<seqVal, resultSet>>
    BY <2>2 DEF Types, CallTypes
  <2>. QED BY <2>1, <2>2 DEF Begin
<1>4. /\ st' \in [Streams -> {"idle", "open", "closed", "cancelled"}]
      /\ reply' \in [Streams -> {"none", "success", "failure", "error", "cancelled"}]
      /\ st'[s] # "idle" /\ \A u \in Streams : u # s => st'[u] = st[u]
  <2>1. CASE st' = [st EXCEPT ![s] = "open"] /\ UNCHANGED reply
    BY <2>1 DEF Types, CallTypes
  <2>2. CASE Answers(s, "error")
    <3>1. Answered(s)
      BY <2>2 DEF Answered
    <3>. QED BY <3>1, AnsweredTypes DEF Types
  <2>. QED BY <2>1, <2>2 DEF Begin
<1>5. conn' \in [Streams -> Conns \cup {Null}] /\ conn'[s] # Null /\ \A u \in Streams : u # s => conn'[u] = conn[u]
  BY <1>1, <1>2, ConnFacts DEF Types, CallTypes
<1>6. CallTypes'
  BY <1>1, <1>3, <1>4, <1>5 DEF Types, CallTypes
<1>7. ASSUME NEW u \in Streams
      PROVE  /\ pos'[u] <= Len(script'[u]) + 1
             /\ st'[u] = "idle" => conn'[u] = Null /\ resultSet'[u] = Null /\ txnId'[u] = Null /\ transpartIndex'[u] = 0
             /\ st'[u] = "open" => conn'[u] # Null
             /\ txnId'[u] # Null => txnId'[u] = resultSet'[u]
  BY <1>1, <1>3, <1>4, <1>5 DEF Types, Calls
<1>. QED BY <1>6, <1>7 DEF Calls

\* A step that consumes a message keeps the calls' types.
LEMMA MessageCalls ==
    ASSUME Types, NEW s \in Streams, OnNextBegins(s),
           transpartIndex' \in [Streams -> Nat], \A u \in Streams : u # s => transpartIndex'[u] = transpartIndex[u],
           broken' \in [Conns -> BOOLEAN], UNCHANGED <<st, reply>> \/ Answered(s)
    PROVE  CallTypes' /\ Calls'
<1>1. /\ st' \in [Streams -> {"idle", "open", "closed", "cancelled"}]
      /\ reply' \in [Streams -> {"none", "success", "failure", "error", "cancelled"}]
      /\ st'[s] # "idle" /\ \A u \in Streams : u # s => st'[u] = st[u]
  <2>1. CASE UNCHANGED <<st, reply>>
    BY <2>1, MessageConsumed DEF Types, CallTypes
  <2>2. CASE Answered(s)
    BY <2>2, AnsweredTypes DEF Types
  <2>. QED BY <2>1, <2>2
<1>2. CallTypes'
  BY <1>1, MessageConsumed DEF Types, CallTypes
<1>3. ASSUME NEW u \in Streams
      PROVE  /\ pos'[u] <= Len(script'[u]) + 1
             /\ st'[u] = "idle" => conn'[u] = Null /\ resultSet'[u] = Null /\ txnId'[u] = Null /\ transpartIndex'[u] = 0
             /\ st'[u] = "open" => conn'[u] # Null
             /\ txnId'[u] # Null => txnId'[u] = resultSet'[u]
  <2>1. CASE u = s
    <3>1. script[s] \in Seq(Message) /\ pos'[s] \in Nat
      BY MessageConsumed DEF Types, CallTypes
    <3>2. pos'[s] <= Len(script'[s]) + 1
      BY <3>1, MessageConsumed
    <3>. QED BY <1>1, <2>1, <3>2, ConnFacts, MessageConsumed
  <2>2. CASE u # s
    BY <1>1, <2>2, MessageConsumed DEF Types, Calls
  <2>. QED BY <2>1, <2>2
<1>. QED BY <1>2, <1>3 DEF Calls

\* A step that consumes the half-close keeps the calls' types.
LEMMA HalfCloseCalls ==
    ASSUME Types, NEW s \in Streams, HalfClosed(s), broken' \in [Conns -> BOOLEAN], Answered(s)
    PROVE  CallTypes' /\ Calls'
<1>1. /\ st' \in [Streams -> {"idle", "open", "closed", "cancelled"}]
      /\ reply' \in [Streams -> {"none", "success", "failure", "error", "cancelled"}]
      /\ st'[s] \in {"closed", "cancelled"} /\ \A u \in Streams : u # s => st'[u] = st[u]
  BY AnsweredTypes DEF Types
<1>2. CallTypes'
  BY <1>1, HalfCloseConsumed DEF Types, CallTypes
<1>3. ASSUME NEW u \in Streams
      PROVE  /\ pos'[u] <= Len(script'[u]) + 1
             /\ st'[u] = "idle" => conn'[u] = Null /\ resultSet'[u] = Null /\ txnId'[u] = Null /\ transpartIndex'[u] = 0
             /\ st'[u] = "open" => conn'[u] # Null
             /\ txnId'[u] # Null => txnId'[u] = resultSet'[u]
  <2>1. CASE u = s
    <3>1. script[s] \in Seq(Message) /\ (txnId[s] # Null => txnId[s] = resultSet[s])
      BY DEF Types, CallTypes, Calls
    <3>2. pos'[s] <= Len(script'[s]) + 1
      BY <3>1, HalfCloseConsumed
    <3>. QED BY <1>1, <2>1, <3>1, <3>2, ConnFacts, HalfCloseConsumed
  <2>2. CASE u # s
    BY <1>1, <2>2, HalfCloseConsumed DEF Types, Calls
  <2>. QED BY <2>1, <2>2
<1>. QED BY <1>2, <1>3 DEF Calls

\* Every step keeps the calls' types.
LEMMA CallsStep ==
    ASSUME Types, [Next]_vars
    PROVE  CallTypes' /\ Calls'
<1>0. broken \in [Conns -> BOOLEAN] /\ transpartIndex \in [Streams -> Nat]
  BY DEF Types, CallTypes
<1>1. ASSUME NEW s \in Streams, OnNext(s) PROVE CallTypes' /\ Calls'
  <2>1. OnNextBegins(s) /\ transpartIndex' = [transpartIndex EXCEPT ![s] = PartAdvanced(s)]
        /\ UNCHANGED <<broken, st, reply>>
    BY <1>1 DEF OnNext
  <2>2. PartAdvanced(s) \in Nat
    BY <1>0 DEF PartAdvanced
  <2>3. transpartIndex' \in [Streams -> Nat] /\ \A u \in Streams : u # s => transpartIndex'[u] = transpartIndex[u]
    BY <1>0, <2>1, <2>2
  <2>. QED BY <1>0, <2>1, <2>3, MessageCalls
<1>2. ASSUME NEW s \in Streams, OnNextCommits(s) PROVE CallTypes' /\ Calls'
  <2>1. OnNextBegins(s) /\ UNCHANGED <<broken, st, reply, transpartIndex>>
    BY <1>2 DEF OnNextCommits
  <2>. QED BY <1>0, <2>1, MessageCalls
<1>3. ASSUME NEW s \in Streams, StatementFails(s) PROVE CallTypes' /\ Calls'
  <2>1. OnNextBegins(s) /\ UNCHANGED <<broken, transpartIndex>> /\ Answered(s)
    BY <1>3 DEF StatementFails, OnError, Answered
  <2>. QED BY <1>0, <2>1, MessageCalls
<1>4. ASSUME NEW s \in Streams, OnNextThrows(s) PROVE CallTypes' /\ Calls'
  <2>1. OnNextBegins(s) /\ UNCHANGED <<broken, transpartIndex>> /\ Answered(s)
    BY <1>4 DEF OnNextThrows, Answered
  <2>. QED BY <1>0, <2>1, MessageCalls
<1>5. ASSUME NEW s \in Streams, OnNextCommitThrows(s) PROVE CallTypes' /\ Calls'
  <2>1. OnNextBegins(s) /\ UNCHANGED transpartIndex /\ Answered(s)
        /\ broken' = [broken EXCEPT ![conn[s]] = TRUE]
    BY <1>5 DEF OnNextCommitThrows, CommitThrows, Answered
  <2>2. broken' \in [Conns -> BOOLEAN]
    BY <2>1, MessageConsumed, BrokenType DEF Types
  <2>. QED BY <1>0, <2>1, <2>2, MessageCalls
<1>6. ASSUME NEW s \in Streams, OnCompleted(s) PROVE CallTypes' /\ Calls'
  <2>1. HalfClosed(s) /\ UNCHANGED broken /\ Answered(s)
    BY <1>6 DEF OnCompleted, Answered
  <2>. QED BY <1>0, <2>1, HalfCloseCalls
<1>7. ASSUME NEW s \in Streams, OnCompletedThrows(s) PROVE CallTypes' /\ Calls'
  <2>1. HalfClosed(s) /\ broken' = [broken EXCEPT ![conn[s]] = TRUE] /\ Answered(s)
    BY <1>7 DEF OnCompletedThrows, CommitThrows, Answered
  <2>2. broken' \in [Conns -> BOOLEAN]
    BY <2>1, HalfCloseConsumed, BrokenType DEF Types
  <2>. QED BY <2>1, <2>2, HalfCloseCalls
<1>8. ASSUME NEW s \in Streams,
             Answered(s), UNCHANGED <<seqVal, broken, conn, resultSet, txnId, transpartIndex, script, pos, late>>
      PROVE  CallTypes' /\ Calls'
  <2>1. /\ st' \in [Streams -> {"idle", "open", "closed", "cancelled"}]
        /\ reply' \in [Streams -> {"none", "success", "failure", "error", "cancelled"}]
        /\ st'[s] \in {"closed", "cancelled"} /\ \A u \in Streams : u # s => st'[u] = st[u]
    BY <1>8, AnsweredTypes DEF Types
  <2>2. CallTypes'
    BY <1>8, <2>1 DEF Types, CallTypes
  <2>3. ASSUME NEW u \in Streams
        PROVE  /\ pos'[u] <= Len(script'[u]) + 1
               /\ st'[u] = "idle" => conn'[u] = Null /\ resultSet'[u] = Null /\ txnId'[u] = Null /\ transpartIndex'[u] = 0
               /\ st'[u] = "open" => conn'[u] # Null
               /\ txnId'[u] # Null => txnId'[u] = resultSet'[u]
    BY <1>8, <2>1 DEF Types, Calls
  <2>. QED BY <2>2, <2>3 DEF Calls
<1>9. ASSUME NEW s \in Streams, BeginTimesOut(s) \/ ClientCancels(s) PROVE CallTypes' /\ Calls'
  <2>1. Answered(s) /\ UNCHANGED <<seqVal, broken, conn, resultSet, txnId, transpartIndex, script, pos, late>>
    BY <1>9 DEF BeginTimesOut, ClientCancels, Answered
  <2>. QED BY <1>8, <2>1
<1>10. ASSUME NEW c \in Conns, Breaks(c) PROVE CallTypes' /\ Calls'
  <2>1. broken' = [broken EXCEPT ![c] = TRUE]
        /\ UNCHANGED <<seqVal, st, conn, resultSet, txnId, transpartIndex, script, pos, reply, late>>
    BY <1>10 DEF Breaks
  <2>2. broken' \in [Conns -> BOOLEAN]
    BY <2>1, BrokenType DEF Types
  <2>. QED BY <2>1, <2>2 DEF Types, CallTypes, Calls
<1>11. ASSUME UNCHANGED vars PROVE CallTypes' /\ Calls'
  BY <1>11 DEF vars, Types, CallTypes, Calls
<1>. QED BY <1>1, <1>2, <1>3, <1>4, <1>5, <1>6, <1>7, <1>9, <1>10, <1>11, BeginCalls
         DEF Next, Serves, OnNextFails, OnNextFaults

\* Every step keeps the database's types.
LEMMA DbTypesStep ==
    ASSUME Types, DbStep
    PROVE  DbTypes'
<1>1. CASE UNCHANGED dbVars
  BY <1>1 DEF Types, DbTypes, dbVars
<1>2. ASSUME NEW c \in Conns, Commits(c) \/ RollsBack(c) PROVE DbTypes'
  BY <1>2, CommitTypes, RollbackTypes DEF Types
<1>3. ASSUME NEW s \in Streams, OnNext(s) PROVE DbTypes'
  BY <1>3, OnNextTypes
<1>. QED BY <1>1, <1>2, <1>3 DEF DbStep

\* The types are invariant.
LEMMA TypesInv == Spec => []Types
<1>1. ASSUME Init PROVE Types
  <2>1. DbTypes
    <3>1. objects = InitialObjects /\ headers = {} /\ parts = <<>> /\ history = <<>> /\ work = [c \in Conns |-> NoWork]
      BY <1>1 DEF Init
    <3>2. objects \in Tables
      BY <3>1, TxnAssumption DEF Tables
    <3>3. work \in [Conns -> Work]
      BY <3>1, NoSession
    <3>. QED BY <3>1, <3>2, <3>3 DEF DbTypes
  <2>2. PoolTypes
    <3>1. PICK n \in 1..PoolSize : idle = [i \in 1..n |-> i]
      BY <1>1 DEF Init
    <3>2. PoolSize \in Nat /\ QueueCapacity \in Nat /\ QueueCapacity >= PoolSize
      BY TxnAssumption
    <3>3. idle \in [1..n -> Conns] /\ n \in Nat
      BY <3>1, <3>2 DEF Conns
    <3>4. idle \in Seq(Conns) /\ Len(idle) = n
      BY <3>1, <3>3
    <3>. QED BY <1>1, <3>2, <3>4 DEF PoolTypes, Init
  <2>3. CallTypes
    <3>1. script \in [Streams -> Seq(Message)]
      BY <1>1, TxnAssumption DEF Init
    <3>2. seqVal \in Nat
      BY <1>1, TxnAssumption DEF Init
    <3>. QED BY <1>1, <3>1, <3>2 DEF CallTypes, Init, MaybeId
  <2>4. Calls
    <3>1. \A s \in Streams : Len(script[s]) \in Nat
      BY <2>3 DEF CallTypes
    <3>. QED BY <1>1, <3>1 DEF Calls, Init
  <2>. QED BY <2>1, <2>2, <2>3, <2>4 DEF Types
<1>2. ASSUME Types, [Next]_vars PROVE Types'
  BY <1>2, StepKinds, DbTypesStep, PoolTypesStep, CallsStep DEF Types
<1>. QED BY <1>1, <1>2, PTL DEF Spec

-----------------------------------------------------------------------------
(* The committed history is serial. *)

\* Two sessions have not written the same row.
Locks ==
    \A c, d \in Conns : c # d => \A n \in Names : work[c].objs[n] = Same \/ work[d].objs[n] = Same

\* No other session has written a row with the index entry of an inserted name.
Keys ==
    \A c, d \in Conns : c # d => \A i \in 1..Len(work[c].ops) :
        work[c].ops[i].msg.op = "insert" =>
            \A k \in Names : lower[k] = lower[work[c].ops[i].msg.name] => work[d].objs[k] = Same

\* Every session's operations lead from the committed table to what it sees.
Sessions == \A c \in Conns : Session(work[c], objects)

\* The committed operations lead from the initial table to the committed one.
Chronicle == \E H : Run(H, InitialObjects, history) /\ H[Len(history)] = objects

Serial == Locks /\ Keys /\ Sessions /\ Chronicle

\* A name that a session has inserted is one it has written, and the rows with
\* the same index entry that it has not written are absent.
LEMMA InsertedIsFree ==
    ASSUME NEW w \in Work, NEW t \in Tables, Session(w, t), NEW i \in 1..Len(w.ops), w.ops[i].msg.op = "insert"
    PROVE  /\ w.ops[i].msg.name \in Names /\ w.objs[w.ops[i].msg.name] # Same
           /\ \A k \in Names : lower[k] = lower[w.ops[i].msg.name] /\ w.objs[k] = Same => t[k] = NoRow
<1> DEFINE m == w.ops[i].msg
<1>1. PICK R : /\ Run(R, t, w.ops)
               /\ \A j \in 1..Len(w.ops) : \A n \in Touches(w.ops[j].msg) : w.objs[n] # Same
               /\ \A j \in 0..Len(w.ops) : \A n \in Names : w.objs[n] = Same => R[j][n] = t[n]
  BY DEF Session
<1>2. m \in Message /\ m.name \in Names /\ Len(w.ops) \in Nat
  BY WorkFacts, MessageFacts
<1>3. m.name \in Touches(m)
  BY DEF Touches, RowOps
<1>4. Claim(R[i - 1], m)
  BY <1>1 DEF Run
<1>5. \A k \in Names : lower[k] = lower[m.name] => R[i - 1][k] = NoRow
  BY <1>4 DEF Claim
<1>6. i - 1 \in 0..Len(w.ops)
  BY <1>2
<1>. QED BY <1>1, <1>2, <1>3, <1>5, <1>6

\* What a statement that does not wait, and goes through, knows about another
\* session: that one has not written the rows this one writes; and each row
\* that is written is there, or the other session has no row with its index entry.
LEMMA NotWaiting ==
    ASSUME NEW c \in Conns, NEW d \in Conns, c # d, NEW m \in Message, NEW id,
           ~Blocked(c, m), Statement(View(c), m, id).ok
    PROVE  /\ \A n \in Touches(m) : work[d].objs[n] = Same
           /\ m.op = "insert" => \A k \in Names : lower[k] = lower[m.name] => work[d].objs[k] = Same
           /\ \A n \in Touches(m) : \/ \A k \in Names : lower[k] = lower[n] => work[d].objs[k] = Same
                                    \/ View(c)[n] # NoRow
<1>1. ~WaitsFor(c, m, d) /\ m.name \in Names /\ m.to \in Names
  BY MessageFacts DEF Blocked
<1>2. CASE m.op = "insert"
  <2>1. ~WroteKey(d, m.name) /\ Touches(m) = {m.name}
    BY <1>1, <1>2 DEF WaitsFor, Touches, RowOps
  <2>2. \A k \in Names : lower[k] = lower[m.name] => work[d].objs[k] = Same
    BY <2>1 DEF WroteKey, WroteRow
  <2>. QED BY <1>1, <2>1, <2>2
<1>3. CASE m.op \in {"update", "delete"}
  <2>1. Matches(View(c), m)
    BY <1>3 DEF Statement, updateRec, deleteDataRecords
  <2>2. ~WroteRow(d, m.name) /\ Touches(m) = {m.name} /\ m.op # "insert"
    BY <1>1, <1>3, <2>1 DEF WaitsFor, Touches, RowOps
  <2>. QED BY <2>1, <2>2 DEF WroteRow, Matches
<1>4. CASE m.op = "rename"
  <2>1. Matches(View(c), m)
    BY <1>4 DEF Statement, renameDataRecords
  <2>2. ~WroteRow(d, m.name) /\ ~WroteKey(d, m.to) /\ Touches(m) = {m.name, m.to}
    BY <1>1, <1>4, <2>1 DEF WaitsFor, Touches, RowOps
  <2>3. \A k \in Names : lower[k] = lower[m.to] => work[d].objs[k] = Same
    BY <2>2 DEF WroteKey, WroteRow
  <2>. QED BY <1>1, <1>4, <2>1, <2>2, <2>3 DEF WroteRow, Matches
<1>5. CASE m.op \notin RowOps
  <2>1. Touches(m) = {}
    BY <1>5 DEF Touches, RowOps
  <2>. QED BY <1>5, <2>1 DEF RowOps
<1>. QED BY <1>2, <1>3, <1>4, <1>5 DEF RowOps

\* A session that ends without a trace.
LEMMA RollbackSerial ==
    ASSUME Types, Serial, NEW c \in Conns, RollsBack(c)
    PROVE  Serial'
<1>1. work'[c] = NoWork /\ \A d \in Conns : d # c => work'[d] = work[d]
  BY RollbackTypes DEF Types
<1>2. UNCHANGED <<objects, history>> /\ objects \in Tables
  BY DEF RollsBack, Types, DbTypes
<1>3. NoWork.ops = <<>> /\ (\A n \in Names : NoWork.objs[n] = Same) /\ Session(NoWork, objects)
  BY <1>2, NoSession
<1>4. Locks'
  BY <1>1, <1>3 DEF Serial, Locks
<1>5. Keys'
  <2> SUFFICES ASSUME NEW a \in Conns, NEW d \in Conns, a # d, NEW i \in 1..Len(work'[a].ops),
                      work'[a].ops[i].msg.op = "insert", NEW k \in Names,
                      lower[k] = lower[work'[a].ops[i].msg.name]
               PROVE  work'[d].objs[k] = Same
    BY DEF Keys
  <2>1. a # c
    BY <1>1, <1>3
  <2>. QED BY <1>1, <1>3, <2>1 DEF Serial, Keys
<1>6. Sessions'
  <2> SUFFICES ASSUME NEW d \in Conns PROVE Session(work'[d], objects')
    BY DEF Sessions
  <2>. QED BY <1>1, <1>2, <1>3 DEF Serial, Sessions
<1>7. Chronicle'
  BY <1>2 DEF Serial, Chronicle
<1>. QED BY <1>4, <1>5, <1>6, <1>7 DEF Serial

\* A session that commits: its operations come after the history, and the other
\* sessions go on over the new table.
LEMMA CommitSerial ==
    ASSUME Types, Serial, NEW c \in Conns, Commits(c)
    PROVE  Serial'
<1>1. objects' = ViewOf(work[c].objs, objects) /\ work'[c] = NoWork
      /\ (\A d \in Conns : d # c => work'[d] = work[d]) /\ DbTypes'
  BY CommitTypes DEF Types
<1>2. objects \in Tables /\ objects' \in Tables /\ history \in Seq(Op)
      /\ \A d \in Conns : work[d] \in Work
  BY <1>1 DEF Types, DbTypes
<1>3. NoWork.ops = <<>> /\ (\A n \in Names : NoWork.objs[n] = Same) /\ Session(NoWork, objects')
  BY <1>2, NoSession
<1>4. Locks'
  BY <1>1, <1>3 DEF Serial, Locks
<1>5. Keys'
  <2> SUFFICES ASSUME NEW a \in Conns, NEW d \in Conns, a # d, NEW i \in 1..Len(work'[a].ops),
                      work'[a].ops[i].msg.op = "insert", NEW k \in Names,
                      lower[k] = lower[work'[a].ops[i].msg.name]
               PROVE  work'[d].objs[k] = Same
    BY DEF Keys
  <2>1. a # c
    BY <1>1, <1>3
  <2>. QED BY <1>1, <1>3, <2>1 DEF Serial, Keys
<1>6. ASSUME NEW d \in Conns PROVE Session(work'[d], objects')
  <2>1. CASE d = c
    BY <1>1, <1>3, <2>1
  <2>2. CASE d # c
    <3>1. \A n \in Names : work[d].objs[n] # Same => work[c].objs[n] = Same
      BY <2>2 DEF Serial, Locks
    <3>2. \A n \in Names : work[c].objs[n] = Same => objects'[n] = objects[n]
      BY <1>1 DEF ViewOf
    <3>3. \A i \in 1..Len(work[d].ops) : work[d].ops[i].msg.op = "insert" =>
             \A k \in Names : lower[k] = lower[work[d].ops[i].msg.name] => work[c].objs[k] = Same
      BY <2>2 DEF Serial, Keys
    <3>4. \A n \in Names : work[d].objs[n] # Same => objects'[n] = objects[n]
      BY <3>1, <3>2
    <3>5. \A i \in 1..Len(work[d].ops) : work[d].ops[i].msg.op = "insert" =>
             \A k \in Names : lower[k] = lower[work[d].ops[i].msg.name] => objects'[k] = objects[k]
      BY <3>2, <3>3
    <3>6. Session(work[d], objects)
      BY DEF Serial, Sessions
    <3>7. Session(work[d], objects')
      BY <1>2, <3>4, <3>5, <3>6, SessionRebased
    <3>. QED BY <1>1, <2>2, <3>7
  <2>. QED BY <2>1, <2>2
<1>7. Chronicle'
  <2>1. PICK H : Run(H, InitialObjects, history) /\ H[Len(history)] = objects
    BY DEF Serial, Chronicle
  <2>2. Session(work[c], objects) /\ work[c].ops \in Seq(Op)
    BY <1>2, WorkFacts DEF Serial, Sessions
  <2>3. PICK R : Run(R, objects, work[c].ops) /\ R[Len(work[c].ops)] = ViewOf(work[c].objs, objects)
    BY <2>2 DEF Session
  <2>4. Run(R, H[Len(history)], work[c].ops)
    BY <2>1, <2>3
  <2>5. \E J : /\ Run(J, InitialObjects, history \o work[c].ops)
               /\ J[Len(history \o work[c].ops)] = R[Len(work[c].ops)]
    <3> DEFINE q == work[c].ops
               h == history
    <3>1. h \in Seq(Op) /\ q \in Seq(Op) /\ Run(H, InitialObjects, h) /\ Run(R, H[Len(h)], q)
      BY <1>2, <2>1, <2>2, <2>4
    <3> HIDE DEF q, h
    <3>2. \E J : Run(J, InitialObjects, h \o q) /\ J[Len(h \o q)] = R[Len(q)]
      BY <3>1, RunsJoin
    <3>. QED BY <3>2 DEF q, h
  <2>6. history' = history \o work[c].ops
    BY DEF Commits
  <2>. QED BY <1>1, <2>3, <2>5, <2>6 DEF Chronicle
<1>. QED BY <1>4, <1>5, <1>6, <1>7 DEF Serial, Sessions

\* A session that goes on: it did not have to wait for any other.
LEMMA OnNextSerial ==
    ASSUME Types, Serial, NEW s \in Streams, OnNext(s)
    PROVE  Serial'
<1> DEFINE c == conn[s]
           m == Msg(s)
           id == Id(s)
           v == Applied(c, s, m, id)
           e == [s |-> s, id |-> id, msg |-> m]
<1>1. /\ c \in Conns /\ m \in Message /\ id \in Nat /\ Claim(View(c), m) /\ v \in Work
      /\ UNCHANGED <<objects, history>> /\ work'[c] = v /\ \A d \in Conns : d # c => work'[d] = work[d]
  BY OnNextTypes
<1>2. ~Blocked(c, m) /\ Statement(View(c), m, id).ok
  BY DEF OnNext
<1>3. objects \in Tables /\ \A d \in Conns : work[d] \in Work
  BY DEF Types, DbTypes
<1> HIDE DEF c, m, id, v, e
<1>4. /\ \A k \in Names : v.objs[k] =
              IF k \in Touches(m) THEN Statement(View(c), m, id).tbl[k] ELSE work[c].objs[k]
      /\ v.ops = IF m.op = "header" THEN work[c].ops ELSE Append(work[c].ops, e)
      /\ e \in Op /\ View(c) = ViewOf(work[c].objs, objects)
  <2>0. c \in Conns /\ m \in Message /\ id \in Nat /\ Claim(View(c), m)
    BY <1>1
  <2>1. View(c) = ViewOf(work[c].objs, objects)
    BY <2>0, AppliedType
  <2>2. \A k \in Names : Applied(c, s, m, id).objs[k] =
              IF k \in Touches(m) THEN Statement(View(c), m, id).tbl[k] ELSE work[c].objs[k]
    BY DEF Applied
  <2>3. Applied(c, s, m, id).ops = IF m.op = "header" THEN work[c].ops
             ELSE Append(work[c].ops, [s |-> s, id |-> id, msg |-> m])
    BY DEF Applied
  <2>4. [s |-> s, id |-> id, msg |-> m] \in Op
    BY <2>0, AppliedType
  <2>. QED BY <2>1, <2>2, <2>3, <2>4 DEF v, e
<1>5. e.msg = m /\ e.id = id
  BY DEF e
<1>6. \A d \in Conns : d # c =>
         /\ \A n \in Touches(m) : work[d].objs[n] = Same
         /\ m.op = "insert" => \A k \in Names : lower[k] = lower[m.name] => work[d].objs[k] = Same
         /\ \A n \in Touches(m) : \/ \A k \in Names : lower[k] = lower[n] => work[d].objs[k] = Same
                                  \/ View(c)[n] # NoRow
  BY <1>1, <1>2, NotWaiting
<1>7. work[c].ops \in Seq(Op) /\ Len(work[c].ops) \in Nat
  BY <1>1, <1>3, WorkFacts
<1>8. Locks'
  <2>1. ASSUME NEW d \in Conns, d # c, NEW n \in Names PROVE v.objs[n] = Same \/ work[d].objs[n] = Same
    BY <1>1, <1>4, <1>6, <2>1 DEF Serial, Locks
  <2> SUFFICES ASSUME NEW a \in Conns, NEW d \in Conns, a # d, NEW n \in Names
               PROVE  work'[a].objs[n] = Same \/ work'[d].objs[n] = Same
    BY DEF Locks
  <2>2. CASE a = c
    BY <1>1, <2>1, <2>2
  <2>3. CASE d = c
    BY <1>1, <2>1, <2>3
  <2>4. CASE a # c /\ d # c
    BY <1>1, <2>4 DEF Serial, Locks
  <2>. QED BY <2>2, <2>3, <2>4
<1>9. Keys'
  <2> SUFFICES ASSUME NEW a \in Conns, NEW d \in Conns, a # d, NEW i \in 1..Len(work'[a].ops),
                      work'[a].ops[i].msg.op = "insert", NEW k \in Names,
                      lower[k] = lower[work'[a].ops[i].msg.name]
               PROVE  work'[d].objs[k] = Same
    BY DEF Keys
  <2>1. CASE a = c
    <3>1. work'[d] = work[d] /\ work'[a] = v
      BY <1>1, <2>1
    <3>2. CASE i \in 1..Len(work[c].ops)
      <4>1. v.ops[i] = work[c].ops[i]
        BY <1>4, <1>7, <3>2
      <4>. QED BY <2>1, <3>1, <3>2, <4>1 DEF Serial, Keys
    <3>3. CASE i \notin 1..Len(work[c].ops)
      <4>1. v.ops = Append(work[c].ops, e)
        BY <1>4, <3>1, <3>3
      <4>2. Len(v.ops) = Len(work[c].ops) + 1 /\ v.ops[Len(work[c].ops) + 1] = e
        BY <1>7, <4>1
      <4>3. i = Len(work[c].ops) + 1
        BY <1>7, <3>1, <3>3, <4>2
      <4>4. v.ops[i] = e
        BY <4>2, <4>3
      <4>. QED BY <1>5, <1>6, <2>1, <3>1, <4>4
    <3>. QED BY <3>2, <3>3
  <2>2. CASE d = c
    <3> DEFINE x == work[a].ops[i].msg.name
    <3>1. work'[a] = work[a] /\ work'[d] = v
      BY <1>1, <2>2
    <3>2. i \in 1..Len(work[a].ops) /\ work[a].ops[i].msg.op = "insert" /\ lower[k] = lower[x]
      BY <3>1
    <3>3. work[c].objs[k] = Same
      BY <2>2, <3>2 DEF Serial, Keys
    <3>4. Session(work[a], objects) /\ work[a] \in Work
      BY <1>3 DEF Serial, Sessions
    <3>5. x \in Names /\ work[a].objs[x] # Same /\ (work[a].objs[k] = Same => objects[k] = NoRow)
      BY <1>3, <3>2, <3>4, InsertedIsFree
    <3> HIDE DEF x
    <3>6. k \notin Touches(m)
      <4> SUFFICES ASSUME k \in Touches(m) PROVE FALSE
        OBVIOUS
      <4>1. work[a].objs[k] = Same
        BY <1>6, <2>2
      <4>2. View(c)[k] = NoRow
        BY <1>4, <3>3, <3>5, <4>1 DEF ViewOf
      <4>3. \A j \in Names : lower[j] = lower[k] => work[a].objs[j] = Same
        BY <1>6, <2>2, <4>2
      <4>. QED BY <3>2, <3>5, <4>3
    <3>. QED BY <1>4, <3>1, <3>3, <3>6
  <2>3. CASE a # c /\ d # c
    BY <1>1, <2>3 DEF Serial, Keys
  <2>. QED BY <2>1, <2>2, <2>3
<1>10. ASSUME NEW d \in Conns PROVE Session(work'[d], objects')
  <2>1. CASE d # c
    BY <1>1, <2>1 DEF Serial, Sessions
  <2>2. CASE d = c
    <3>1. Session(work[c], objects)
      BY <1>1 DEF Serial, Sessions
    <3>2. CASE m.op = "header"
      <4>1. Touches(m) = {}
        BY <3>2 DEF Touches, RowOps
      <4>2. v.ops = work[c].ops /\ \A k \in Names : v.objs[k] = work[c].objs[k]
        BY <1>4, <3>2, <4>1
      <4>3. v.objs = work[c].objs
        <5>1. v.objs \in Writes /\ work[c].objs \in Writes
          BY <1>1, <1>3, WorkFacts
        <5>. QED BY <4>2, <5>1 DEF Writes
      <4>4. Session(v, objects)
        BY <3>1, <4>2, <4>3 DEF Session
      <4>. QED BY <1>1, <2>2, <4>4
    <3>3. CASE m.op # "header"
      <4>1. Session(v, objects)
        BY <1>1, <1>3, <1>4, <1>5, <3>1, <3>3, SessionStep
      <4>. QED BY <1>1, <2>2, <4>1
    <3>. QED BY <3>2, <3>3
  <2>. QED BY <2>1, <2>2
<1>11. Chronicle'
  BY <1>1 DEF Serial, Chronicle
<1>. QED BY <1>8, <1>9, <1>10, <1>11 DEF Serial, Sessions

\* Every step keeps the history serial.
LEMMA SerialStep ==
    ASSUME Types, Serial, DbStep
    PROVE  Serial'
<1>1. CASE UNCHANGED dbVars
  <2>1. UNCHANGED <<objects, work, history>>
    BY <1>1 DEF dbVars
  <2>. QED BY <2>1 DEF Serial, Locks, Keys, Sessions, Chronicle
<1>2. ASSUME NEW c \in Conns, Commits(c) \/ RollsBack(c) PROVE Serial'
  BY <1>2, CommitSerial, RollbackSerial
<1>3. ASSUME NEW s \in Streams, OnNext(s) PROVE Serial'
  BY <1>3, OnNextSerial
<1>. QED BY <1>1, <1>2, <1>3 DEF DbStep

\* The history is serial, by the tables it leads through.
LEMMA SerialInv == Spec => []Serial
<1>1. ASSUME Init, Types PROVE Serial
  <2>1. objects = InitialObjects /\ history = <<>> /\ \A c \in Conns : work[c] = NoWork
    BY <1>1 DEF Init
  <2>2. objects \in Tables
    BY <1>1 DEF Types, DbTypes
  <2>3. NoWork.ops = <<>> /\ (\A n \in Names : NoWork.objs[n] = Same) /\ Session(NoWork, objects)
    BY <2>2, NoSession
  <2>4. Locks
    BY <2>1, <2>3 DEF Locks
  <2>5. Keys
    BY <2>1, <2>3 DEF Keys
  <2>6. Sessions
    BY <2>1, <2>3 DEF Sessions
  <2>7. Chronicle
    <3> DEFINE H == [i \in 0..0 |-> objects]
    <3>1. Len(history) = 0
      BY <2>1
    <3>2. H \in [0..0 -> Tables] /\ H[0] = objects
      BY <2>2
    <3> HIDE DEF H
    <3>3. Run(H, InitialObjects, history)
      BY <2>1, <3>1, <3>2 DEF Run
    <3>. QED BY <3>1, <3>2, <3>3 DEF Chronicle
  <2>. QED BY <2>4, <2>5, <2>6, <2>7 DEF Serial
<1>2. ASSUME Types, Serial, [Next]_vars PROVE Serial'
  BY <1>2, StepKinds, SerialStep
<1>. QED BY <1>1, <1>2, TypesInv, PTL DEF Spec

\* The replay is the only sequence of tables the operations lead through.
LEMMA ReplayIsRun ==
    ASSUME history \in Seq(Op), NEW H, Run(H, InitialObjects, history)
    PROVE  Replay = H
<1> DEFINE n == Len(history)
           step(f, i) == IF i = 0 THEN InitialObjects
                         ELSE Statement(f[i - 1], history[i].msg, history[i].id).tbl
<1>1. n \in Nat /\ H \in [0..n -> Tables] /\ H[0] = InitialObjects
      /\ \A i \in 1..n : H[i] = Statement(H[i - 1], history[i].msg, history[i].id).tbl
  BY DEF Run
<1>2. Replay = CHOOSE f : f = [i \in 0..n |-> step(f, i)]
  BY DEF Replay
<1>3. H = [i \in 0..n |-> step(H, i)]
  <2>1. \A i \in 0..n : H[i] = step(H, i)
    <3> SUFFICES ASSUME NEW i \in 0..n PROVE H[i] = step(H, i)
      OBVIOUS
    <3>1. CASE i = 0
      BY <1>1, <3>1
    <3>2. CASE i # 0
      <4>1. i \in 1..n
        BY <1>1, <3>2
      <4>. QED BY <1>1, <3>2, <4>1
    <3>. QED BY <3>1, <3>2
  <2> HIDE DEF step
  <2>. QED BY <1>1, <2>1
<1>4. Replay = [i \in 0..n |-> step(Replay, i)]
  <2> DEFINE P(f) == f = [i \in 0..n |-> step(f, i)]
  <2>1. \E f : P(f)
    BY <1>3
  <2>2. P(CHOOSE f : P(f))
    <3> HIDE DEF P
    <3>. QED BY <2>1
  <2>. QED BY <1>2, <2>2
<1>5. ASSUME NEW i \in 0..n PROVE Replay[i] = step(Replay, i)
  <2> DEFINE g == Replay
  <2>1. g = [j \in 0..n |-> step(g, j)]
    BY <1>4
  <2> HIDE DEF g, step
  <2>2. g[i] = step(g, i)
    BY <2>1
  <2>. QED BY <2>2 DEF g
<1>6. ASSUME NEW i \in 0..n, Replay[i] # H[i] PROVE FALSE
  <2> DEFINE T == {j \in 0..n : Replay[j] # H[j]}
  <2>1. PICK j \in T : \A k \in T : j <= k
    <3>1. i \in T
      BY <1>6
    <3>2. T \in SUBSET Nat
      BY <1>1
    <3> HIDE DEF T
    <3>. QED BY <3>1, <3>2, LeastNat
  <2>2. j \in 0..n /\ Replay[j] # H[j]
    OBVIOUS
  <2>3. j # 0
    BY <1>1, <1>5, <2>2
  <2>4. j - 1 \in 0..n /\ j \in 1..n
    BY <1>1, <2>2, <2>3
  <2>5. Replay[j - 1] = H[j - 1]
    <3>1. j - 1 \notin T
      <4>1. ~(j <= j - 1)
        BY <1>1, <2>2
      <4>. QED BY <2>1, <4>1
    <3>. QED BY <2>4, <3>1
  <2>6. Replay[j] = Statement(Replay[j - 1], history[j].msg, history[j].id).tbl
    BY <1>5, <2>2, <2>3
  <2>. QED BY <1>1, <2>2, <2>4, <2>5, <2>6
<1>7. DOMAIN Replay = 0..n /\ Replay = [i \in 0..n |-> Replay[i]]
  <2> DEFINE g == Replay
  <2>1. g = [j \in 0..n |-> step(g, j)]
    BY <1>4
  <2> HIDE DEF g, step
  <2>2. DOMAIN g = 0..n /\ g = [i \in 0..n |-> g[i]]
    BY <2>1
  <2>. QED BY <2>2 DEF g
<1>8. \A i \in 0..n : Replay[i] = H[i]
  BY <1>6
<1>. QED BY <1>1, <1>7, <1>8

\* The committed operations of all streams, replayed one after the other, give
\* the committed table, and each finds what it claims: what the version checks
\* of updateRec, renameDataRecords and deleteDataRecords and the unique indexes
\* are for, however the calls are interleaved and whatever fails.
THEOREM HistoryIsSerial == Spec => []SerialHistory
<1>1. ASSUME Types, Serial PROVE SerialHistory
  <2>1. PICK H : Run(H, InitialObjects, history) /\ H[Len(history)] = objects
    BY <1>1 DEF Serial, Chronicle
  <2>2. history \in Seq(Op)
    BY <1>1 DEF Types, DbTypes
  <2>3. Replay = H
    BY <2>1, <2>2, ReplayIsRun
  <2>4. DOMAIN history = 1..Len(history)
    BY <2>2
  <2>5. \A i \in DOMAIN history : Claim(H[i - 1], history[i].msg)
    BY <2>1, <2>4 DEF Run
  <2>. QED BY <2>1, <2>3, <2>5 DEF SerialHistory
<1>. QED BY <1>1, TypesInv, SerialInv, PTL

-----------------------------------------------------------------------------
(* A session belongs to one call. *)

\* The connections in the queue are distinct, carry no work and are nobody's.
IdleFree ==
    /\ \A i, j \in 1..Len(idle) : idle[i] = idle[j] => i = j
    /\ \A i \in 1..Len(idle) : /\ work[idle[i]] = NoWork
                               /\ \A s \in Streams : st[s] = "open" => conn[s] # idle[i]

\* No two open calls have the same connection.
OpenApart == \A s, u \in Streams : st[s] = "open" /\ st[u] = "open" /\ conn[s] = conn[u] => s = u

\* The operations of a session come from the call that has its connection.
OwnOps == \A c \in Conns : \A i \in 1..Len(work[c].ops) : conn[work[c].ops[i].s] = c

Private == IdleFree /\ OpenApart /\ OwnOps

\* The queue after its head was taken.
LEMMA QueueTaken ==
    ASSUME PoolTypes, TakesConnection
    PROVE  /\ Len(idle') \in Nat /\ Len(idle) \in Nat /\ 1 \in 1..Len(idle) /\ Head(idle) = idle[1]
           /\ Head(idle) \in Conns
           /\ \A i \in 1..Len(idle') : i + 1 \in 1..Len(idle) /\ idle'[i] = idle[i + 1]
<1>1. idle \in Seq(Conns) /\ idle # <<>> /\ idle' = Tail(idle)
  BY DEF PoolTypes, TakesConnection
<1>2. Len(Tail(idle)) = Len(idle) - 1 /\ Tail(idle) \in Seq(Conns)
      /\ \A i \in 1..(Len(idle) - 1) : Tail(idle)[i] = idle[i + 1]
  BY <1>1
<1>. QED BY <1>1, <1>2

\* A step that leaves the queue as it is, or takes its head, opens no call and
\* adds nothing to a session, disturbs nothing.
LEMMA PrivateKept ==
    ASSUME Types, Private, UNCHANGED idle \/ TakesConnection, UNCHANGED conn,
           \A s \in Streams : st'[s] = "open" => st[s] = "open",
           \A c \in Conns : work'[c] \in {work[c], NoWork}
    PROVE  Private'
<1>1. \A i \in 1..Len(idle) : idle[i] \in Conns
  BY DEF Types, PoolTypes
<1>2. NoWork.ops = <<>>
  BY NoSession
<1>3. IdleFree'
  <2>1. CASE UNCHANGED idle
    BY <1>1, <2>1 DEF Private, IdleFree
  <2>2. CASE TakesConnection
    <3>1. \A i \in 1..Len(idle') : i + 1 \in 1..Len(idle) /\ idle'[i] = idle[i + 1]
      BY <2>2, QueueTaken DEF Types
    <3>2. ASSUME NEW i \in 1..Len(idle') PROVE work'[idle'[i]] = NoWork
      BY <1>1, <3>1, <3>2 DEF Private, IdleFree
    <3>3. ASSUME NEW i \in 1..Len(idle'), NEW s \in Streams, st'[s] = "open" PROVE conn'[s] # idle'[i]
      BY <3>1, <3>3 DEF Private, IdleFree
    <3>4. ASSUME NEW i \in 1..Len(idle'), NEW j \in 1..Len(idle'), idle'[i] = idle'[j] PROVE i = j
      <4>1. i + 1 = j + 1
        BY <3>1, <3>4 DEF Private, IdleFree
      <4>. QED BY <4>1
    <3>. QED BY <3>2, <3>3, <3>4 DEF IdleFree
  <2>. QED BY <2>1, <2>2
<1>4. OpenApart'
  BY DEF Private, OpenApart
<1>5. OwnOps'
  <2> SUFFICES ASSUME NEW c \in Conns, NEW i \in 1..Len(work'[c].ops) PROVE conn'[work'[c].ops[i].s] = c
    BY DEF OwnOps
  <2>1. work'[c] = work[c]
    BY <1>2
  <2>. QED BY <2>1 DEF Private, OwnOps
<1>. QED BY <1>3, <1>4, <1>5 DEF Private

\* A call that ends its transaction and gives its connection back.
LEMMA PrivateClosed ==
    ASSUME Types, Private, NEW s \in Streams, st[s] = "open", UNCHANGED conn, ClosesConnection(conn[s]),
           st'[s] # "open", \A u \in Streams : u # s => st'[u] = st[u],
           work'[conn[s]] = NoWork, \A d \in Conns : d # conn[s] => work'[d] = work[d]
    PROVE  Private'
<1> DEFINE c == conn[s]
<1>1. c \in Conns /\ idle \in Seq(Conns) /\ (\A i \in 1..Len(idle) : idle[i] \in Conns) /\ Len(idle) \in Nat
  BY DEF Types, PoolTypes, CallTypes, Calls
<1>2. NoWork.ops = <<>>
  BY NoSession
<1>3. \A i \in 1..Len(idle) : idle[i] # c
  BY DEF Private, IdleFree
<1>4. \A u \in Streams : st'[u] = "open" => st[u] = "open" /\ conn[u] # c
  BY DEF Private, OpenApart
<1>5. \A i \in 1..Len(idle) : work'[idle[i]] = NoWork
  BY <1>1, <1>3 DEF Private, IdleFree
<1>6. IdleFree'
  <2>1. CASE QueueHasRoom
    <3>1. idle' = Append(idle, c)
      BY <2>1 DEF ClosesConnection
    <3>2. Len(idle') = Len(idle) + 1 /\ idle'[Len(idle) + 1] = c /\ \A i \in 1..Len(idle) : idle'[i] = idle[i]
      BY <1>1, <3>1
    <3> HIDE DEF c
    <3>3. \A i \in 1..Len(idle') : i \in 1..Len(idle) \/ i = Len(idle) + 1
      BY <1>1, <3>2
    <3>4. ASSUME NEW i \in 1..Len(idle') PROVE work'[idle'[i]] = NoWork
      BY <1>5, <3>2, <3>3 DEF c
    <3>5. ASSUME NEW i \in 1..Len(idle'), NEW u \in Streams, st'[u] = "open" PROVE conn'[u] # idle'[i]
      <4>1. st[u] = "open" /\ conn'[u] = conn[u] /\ conn[u] # c
        BY <1>4, <3>5
      <4>. QED BY <3>2, <3>3, <4>1 DEF Private, IdleFree
    <3>6. ASSUME NEW i \in 1..Len(idle'), NEW j \in 1..Len(idle'), idle'[i] = idle'[j] PROVE i = j
      BY <1>3, <3>2, <3>3, <3>6 DEF Private, IdleFree
    <3>. QED BY <3>4, <3>5, <3>6 DEF IdleFree
  <2>2. CASE ~QueueHasRoom
    <3>1. idle' = idle
      BY <2>2 DEF ClosesConnection, poolVars
    <3>. QED BY <1>4, <1>5, <3>1 DEF Private, IdleFree
  <2>. QED BY <2>1, <2>2
<1>7. OpenApart'
  BY <1>4 DEF Private, OpenApart
<1>8. OwnOps'
  <2> SUFFICES ASSUME NEW d \in Conns, NEW i \in 1..Len(work'[d].ops) PROVE conn'[work'[d].ops[i].s] = d
    BY DEF OwnOps
  <2>1. work'[d] = work[d]
    BY <1>2
  <2>. QED BY <2>1 DEF Private, OwnOps
<1>. QED BY <1>6, <1>7, <1>8 DEF Private

\* A call that begins has a connection of its own.
LEMMA PrivateBegin ==
    ASSUME Types, Private, NEW s \in Streams, Begin(s)
    PROVE  Private'
<1>1. TakesConnection /\ conn' = [conn EXCEPT ![s] = Head(idle)] /\ work' = work /\ st[s] = "idle"
  BY DEF Begin, dbVars
<1>2. /\ 1 \in 1..Len(idle) /\ Head(idle) = idle[1] /\ Head(idle) \in Conns
      /\ \A i \in 1..Len(idle') : i + 1 \in 1..Len(idle) /\ idle'[i] = idle[i + 1]
  BY <1>1, QueueTaken DEF Types
<1>3. conn'[s] = idle[1] /\ \A u \in Streams : u # s => conn'[u] = conn[u]
  BY <1>1, <1>2 DEF Types, CallTypes
<1>4. \A u \in Streams : u # s => st'[u] = st[u]
  <2>1. CASE st' = [st EXCEPT ![s] = "open"]
    BY <2>1 DEF Types, CallTypes
  <2>2. CASE Answers(s, "error")
    BY <2>2 DEF Types, CallTypes, Answers
  <2>. QED BY <2>1, <2>2 DEF Begin
<1>5. \A i \in 1..Len(idle') : idle'[i] # idle[1]
  <2> SUFFICES ASSUME NEW i \in 1..Len(idle'), idle[i + 1] = idle[1] PROVE FALSE
    BY <1>2
  <2>1. i + 1 = 1
    BY <1>2 DEF Private, IdleFree
  <2>. QED BY <2>1
<1>6. IdleFree'
  <2>1. ASSUME NEW i \in 1..Len(idle') PROVE work'[idle'[i]] = NoWork
    BY <1>1, <1>2, <2>1 DEF Private, IdleFree
  <2>2. ASSUME NEW i \in 1..Len(idle'), NEW u \in Streams, st'[u] = "open" PROVE conn'[u] # idle'[i]
    <3>1. CASE u = s
      BY <1>3, <1>5, <3>1
    <3>2. CASE u # s
      BY <1>2, <1>3, <1>4, <2>2, <3>2 DEF Private, IdleFree
    <3>. QED BY <3>1, <3>2
  <2>3. ASSUME NEW i \in 1..Len(idle'), NEW j \in 1..Len(idle'), idle'[i] = idle'[j] PROVE i = j
    <3>1. i + 1 = j + 1
      BY <1>2, <2>3 DEF Private, IdleFree
    <3>. QED BY <3>1
  <2>. QED BY <2>1, <2>2, <2>3 DEF IdleFree
<1>7. OpenApart'
  <2>1. \A u \in Streams : st[u] = "open" => conn[u] # idle[1]
    BY <1>2 DEF Private, IdleFree
  <2>. QED BY <1>3, <1>4, <2>1 DEF Private, OpenApart
<1>8. OwnOps'
  <2> SUFFICES ASSUME NEW d \in Conns, NEW i \in 1..Len(work[d].ops) PROVE conn'[work[d].ops[i].s] = d
    BY <1>1 DEF OwnOps
  <2>1. conn[work[d].ops[i].s] = d /\ work[d].ops[i].s \in Streams
    <3>1. work[d] \in Work
      BY DEF Types, DbTypes
    <3>. QED BY <3>1, WorkFacts, MessageFacts DEF Private, OwnOps
  <2>2. conn[s] = Null
    BY <1>1 DEF Types, Calls
  <2>3. work[d].ops[i].s # s
    BY <2>1, <2>2, ConnFacts
  <2>. QED BY <1>3, <2>1, <2>3
<1>. QED BY <1>6, <1>7, <1>8 DEF Private

\* A message goes to the session of its own call.
LEMMA PrivateOnNext ==
    ASSUME Types, Private, NEW s \in Streams, OnNext(s)
    PROVE  Private'
<1> DEFINE c == conn[s]
           e == [s |-> s, id |-> Id(s), msg |-> Msg(s)]
<1>1. UNCHANGED <<idle, st, conn>> /\ HasNext(s)
  BY DEF OnNext, OnNextBegins, poolVars
<1>2. st[s] = "open" /\ c \in Conns
  BY <1>1, NextMessage
<1>3. \A d \in Conns : d # c => work'[d] = work[d]
  BY OnNextTypes
<1>4. work'[c].ops = IF Msg(s).op = "header" THEN work[c].ops ELSE Append(work[c].ops, e)
  <2>1. work'[c] = Applied(c, s, Msg(s), Id(s))
    BY OnNextTypes
  <2>. QED BY <2>1 DEF Applied
<1>5. \A i \in 1..Len(idle) : idle[i] # c /\ idle[i] \in Conns
  BY <1>2 DEF Private, IdleFree, Types, PoolTypes
<1>6. IdleFree'
  BY <1>1, <1>3, <1>5 DEF Private, IdleFree
<1>7. OpenApart'
  BY <1>1 DEF Private, OpenApart
<1>8. OwnOps'
  <2> SUFFICES ASSUME NEW d \in Conns, NEW i \in 1..Len(work'[d].ops) PROVE conn[work'[d].ops[i].s] = d
    BY <1>1 DEF OwnOps
  <2>1. CASE d # c
    BY <1>3, <2>1 DEF Private, OwnOps
  <2>2. CASE d = c
    <3>1. work[c].ops \in Seq(Op) /\ e.s = s
      BY <1>2, WorkFacts DEF Types, DbTypes
    <3> HIDE DEF e
    <3>2. CASE Msg(s).op = "header"
      BY <1>4, <2>2, <3>2 DEF Private, OwnOps
    <3>3. CASE Msg(s).op # "header"
      <4>1. work'[c].ops = Append(work[c].ops, e)
        BY <1>4, <3>3
      <4> DEFINE q == work[c].ops
      <4>2. q \in Seq(Op) /\ i \in 1..Len(Append(q, e)) /\ work'[d].ops[i] = Append(q, e)[i]
        BY <2>2, <3>1, <4>1
      <4>3. \A j \in 1..Len(q) : conn[q[j].s] = c
        BY <1>2 DEF Private, OwnOps
      <4> HIDE DEF q, c
      <4>4. CASE i \in 1..Len(q)
        <5>1. work'[d].ops[i] = q[i]
          BY <4>2, <4>4
        <5>. QED BY <2>2, <4>3, <4>4, <5>1
      <4>5. CASE i \notin 1..Len(q)
        <5>1. work'[d].ops[i] = e
          BY <4>2, <4>5
        <5>. QED BY <2>2, <3>1, <5>1 DEF c
      <4>. QED BY <4>4, <4>5
    <3>. QED BY <3>2, <3>3
  <2>. QED BY <2>1, <2>2
<1>. QED BY <1>6, <1>7, <1>8 DEF Private

\* Work after a commit or a rollback.
LEMMA SessionEnds ==
    ASSUME Types, NEW c \in Conns, Commits(c) \/ RollsBack(c)
    PROVE  work'[c] = NoWork /\ \A d \in Conns : d # c => work'[d] = work[d]
  BY CommitTypes, RollbackTypes DEF Types

\* Who is open after an answer.
LEMMA NoneOpened ==
    ASSUME Types, NEW s \in Streams, Answered(s)
    PROVE  /\ st'[s] # "open" /\ \A u \in Streams : u # s => st'[u] = st[u]
           /\ \A u \in Streams : st'[u] = "open" => st[u] = "open"
  BY AnsweredTypes DEF Types

\* Unless a half-close comes late, every step keeps the sessions private.
LEMMA PrivateStep ==
    ASSUME Types, ~late => Private, [Next]_vars, ~late'
    PROVE  ~late /\ Private'
<1>1. ASSUME NEW s \in Streams, Begin(s) PROVE ~late /\ Private'
  BY <1>1, PrivateBegin DEF Begin
<1>2. ASSUME NEW s \in Streams, BeginTimesOut(s) PROVE ~late /\ Private'
  <2>1. TakesConnection /\ UNCHANGED <<work, conn, late>> /\ Answered(s)
    BY <1>2 DEF BeginTimesOut, dbVars, Answered
  <2>. QED BY <2>1, NoneOpened, PrivateKept
<1>3. ASSUME NEW s \in Streams, OnNext(s) PROVE ~late /\ Private'
  BY <1>3, PrivateOnNext DEF OnNext, OnNextBegins
<1>4. ASSUME NEW s \in Streams, OnNextCommits(s) PROVE ~late /\ Private'
  <2>1. UNCHANGED <<idle, st, conn, late>> /\ Commits(conn[s]) /\ OnNextBegins(s)
    BY <1>4 DEF OnNextCommits, OnNextBegins, poolVars
  <2>2. \A c \in Conns : work'[c] \in {work[c], NoWork}
    BY <2>1, MessageConsumed, SessionEnds
  <2>. QED BY <2>1, <2>2, PrivateKept
<1>5. ASSUME NEW s \in Streams, StatementFails(s) PROVE ~late /\ Private'
  <2>1. OnNextBegins(s) /\ RollsBack(conn[s]) /\ ClosesConnection(conn[s]) /\ Answered(s)
    BY <1>5 DEF StatementFails, OnError, Answered
  <2>2. UNCHANGED <<conn, late>> /\ conn[s] \in Conns /\ st[s] = "open"
    BY <2>1, MessageConsumed
  <2>. QED BY <2>1, <2>2, SessionEnds, NoneOpened, PrivateClosed
<1>6. ASSUME NEW s \in Streams, OnNextThrows(s) PROVE ~late /\ Private'
  <2>1. UNCHANGED <<idle, conn, late, work>> /\ Answered(s)
    BY <1>6 DEF OnNextThrows, OnNextBegins, poolVars, dbVars, Answered
  <2>. QED BY <2>1, NoneOpened, PrivateKept
<1>7. ASSUME NEW s \in Streams, OnNextCommitThrows(s) PROVE ~late /\ Private'
  <2>1. UNCHANGED <<idle, conn, late>> /\ Answered(s) /\ OnNextBegins(s)
        /\ (Commits(conn[s]) \/ RollsBack(conn[s]))
    BY <1>7 DEF OnNextCommitThrows, OnNextBegins, CommitThrows, poolVars, Answered
  <2>2. \A c \in Conns : work'[c] \in {work[c], NoWork}
    BY <2>1, MessageConsumed, SessionEnds
  <2>. QED BY <2>1, <2>2, NoneOpened, PrivateKept
<1>8. ASSUME NEW s \in Streams, OnCompleted(s) PROVE ~late /\ Private'
  <2>1. HalfClosed(s) /\ Commits(conn[s]) /\ ClosesConnection(conn[s]) /\ Answered(s)
    BY <1>8 DEF OnCompleted, Answered
  <2>2. UNCHANGED conn /\ conn[s] \in Conns /\ ~late /\ st[s] = "open"
    BY <2>1, HalfCloseConsumed
  <2>. QED BY <2>1, <2>2, SessionEnds, NoneOpened, PrivateClosed
<1>9. ASSUME NEW s \in Streams, OnCompletedThrows(s) PROVE ~late /\ Private'
  <2>1. HalfClosed(s) /\ UNCHANGED idle /\ Answered(s) /\ (Commits(conn[s]) \/ RollsBack(conn[s]))
    BY <1>9 DEF OnCompletedThrows, CommitThrows, poolVars, Answered
  <2>2. UNCHANGED conn /\ conn[s] \in Conns /\ ~late
    BY <2>1, HalfCloseConsumed
  <2>3. \A c \in Conns : work'[c] \in {work[c], NoWork}
    BY <2>1, <2>2, SessionEnds
  <2>. QED BY <2>1, <2>2, <2>3, NoneOpened, PrivateKept
<1>10. ASSUME NEW s \in Streams, ClientCancels(s) PROVE ~late /\ Private'
  <2>1. st[s] = "open" /\ RollsBack(conn[s]) /\ ClosesConnection(conn[s]) /\ Answered(s) /\ UNCHANGED <<conn, late>>
    BY <1>10 DEF ClientCancels, Answered
  <2>2. conn[s] \in Conns
    BY <2>1 DEF Types, CallTypes, Calls
  <2>. QED BY <2>1, <2>2, SessionEnds, NoneOpened, PrivateClosed
<1>11. ASSUME NEW c \in Conns, Breaks(c) PROVE ~late /\ Private'
  <2>1. RollsBack(c) /\ UNCHANGED <<idle, st, conn, late>>
    BY <1>11 DEF Breaks, poolVars
  <2>2. \A d \in Conns : work'[d] \in {work[d], NoWork}
    BY <2>1, SessionEnds
  <2>. QED BY <2>1, <2>2, PrivateKept
<1>12. ASSUME UNCHANGED vars PROVE ~late /\ Private'
  <2>1. UNCHANGED <<idle, st, conn, late, work>>
    BY <1>12 DEF vars
  <2>. QED BY <2>1, PrivateKept
<1>. QED BY <1>1, <1>2, <1>3, <1>4, <1>5, <1>6, <1>7, <1>8, <1>9, <1>10, <1>11, <1>12
         DEF Next, Serves, OnNextFails, OnNextFaults

\* Unless a half-close came late, the sessions are private.
LEMMA PrivateInv == Spec => [](~late => Private)
<1>1. ASSUME Init PROVE Private
  <2>1. PICK n \in 1..PoolSize : idle = [i \in 1..n |-> i]
    BY <1>1 DEF Init
  <2>2. n \in Nat /\ Len(idle) = n /\ \A i \in 1..n : idle[i] = i /\ i \in Conns
    BY <2>1, ConnFacts DEF Conns
  <2>3. \A c \in Conns : work[c] = NoWork
    BY <1>1 DEF Init
  <2>4. \A s \in Streams : st[s] # "open"
    BY <1>1 DEF Init
  <2>5. IdleFree
    BY <2>2, <2>3, <2>4 DEF IdleFree
  <2>6. OwnOps
    BY <2>3, NoSession DEF OwnOps
  <2>. QED BY <2>4, <2>5, <2>6 DEF Private, OpenApart
<1>2. ASSUME Types, ~late => Private, [Next]_vars PROVE (~late => Private)'
  BY <1>2, PrivateStep
<1>. QED BY <1>1, <1>2, TypesInv, PTL DEF Spec

\* As long as gRPC delivers no half-close on a call it has closed, a database
\* transaction belongs to one call: onNext, onError and onCompleted of two
\* streams never work in the same session, and the pool hands out connections
\* without work only.
THEOREM SessionsArePrivate == Spec => []SessionIsPrivate
<1>1. ASSUME Types, ~late => Private PROVE SessionIsPrivate
  <2>1. DOMAIN idle = 1..Len(idle)
    BY <1>1 DEF Types, PoolTypes
  <2>2. \A c \in Conns : DOMAIN work[c].ops = 1..Len(work[c].ops)
    BY <1>1, WorkFacts DEF Types, DbTypes
  <2>. QED BY <1>1, <2>1, <2>2 DEF Private, IdleFree, OpenApart, OwnOps, SessionIsPrivate
<1>. QED BY <1>1, TypesInv, PrivateInv, PTL

-----------------------------------------------------------------------------
(* The transaction log. *)

\* The parts of an id, their number, and the place of a part among those of its id.
IdsAt(p, id) == {i \in 1..Len(p) : p[i].id = id}
Count(p, id) == Cardinality(IdsAt(p, id))
Place(p, i) == Rank(IdsAt(p, p[i].id), i)

\* Counting in two sequences in a row.
LEMMA CountJoin ==
    ASSUME NEW p \in Seq(Part), NEW q \in Seq(Part)
    PROVE  /\ \A id : Count(p \o q, id) = Count(p, id) + Count(q, id)
           /\ \A i \in 1..Len(p) : Place(p \o q, i) = Place(p, i)
           /\ \A j \in 1..Len(q) : Place(p \o q, Len(p) + j) = Count(p, q[j].id) + Place(q, j)
           /\ \A id : Count(p, id) \in Nat
<1> DEFINE r == p \o q
           h == Len(p)
           n == Len(q)
<1>1. h \in Nat /\ n \in Nat /\ Len(r) = h + n /\ (\A i \in 1..h : r[i] = p[i]) /\ \A j \in 1..n : r[h + j] = q[j]
  OBVIOUS
<1> HIDE DEF r, h, n
<1>2. ASSUME NEW id
      PROVE  /\ \A i \in 0..h : Rank(IdsAt(r, id), i) = Rank(IdsAt(p, id), i)
             /\ \A j \in 0..n : Rank(IdsAt(r, id), h + j) = Count(p, id) + Rank(IdsAt(q, id), j)
             /\ Count(r, id) = Count(p, id) + Count(q, id) /\ Count(p, id) \in Nat
  <2> DEFINE K == IdsAt(r, id)
             A == IdsAt(p, id)
             B == IdsAt(q, id)
  <2>1. /\ \A i \in K : i \in 1..(h + n)
        /\ \A i \in A : i \in 1..h
        /\ \A j \in B : j \in 1..n
    BY <1>1 DEF IdsAt, h, n
  <2>2. \A i \in 1..h : i \in K <=> i \in A
    BY <1>1 DEF IdsAt, h
  <2>3. \A j \in 1..n : h + j \in K <=> j \in B
    BY <1>1 DEF IdsAt, n
  <2> HIDE DEF K, A, B
  <2>4. /\ \A i \in 0..h : Rank(K, i) = Rank(A, i)
        /\ \A j \in 0..n : Rank(K, h + j) = Cardinality(A) + Rank(B, j)
        /\ Cardinality(K) = Cardinality(A) + Cardinality(B)
        /\ Cardinality(A) \in Nat
    <3>1. Joined(h, n, K, A, B)
      BY <2>1, <2>2, <2>3 DEF Joined
    <3>. QED BY <1>1, <3>1, RankJoin
  <2>. QED BY <2>4 DEF K, A, B, Count
<1>3. \A i \in 1..h : Place(r, i) = Place(p, i)
  <2> SUFFICES ASSUME NEW i \in 1..h PROVE Place(r, i) = Place(p, i)
    OBVIOUS
  <2>1. r[i] = p[i] /\ i \in 0..h
    BY <1>1
  <2>. QED BY <1>2, <2>1 DEF Place
<1>4. \A j \in 1..n : Place(r, h + j) = Count(p, q[j].id) + Place(q, j)
  <2> SUFFICES ASSUME NEW j \in 1..n PROVE Place(r, h + j) = Count(p, q[j].id) + Place(q, j)
    OBVIOUS
  <2>1. r[h + j] = q[j] /\ j \in 0..n
    BY <1>1
  <2>. QED BY <1>2, <2>1 DEF Place
<1>. QED BY <1>2, <1>3, <1>4 DEF r, h, n

\* Places are numbers.
LEMMA PlaceType ==
    ASSUME NEW q \in Seq(Part), NEW j \in 1..Len(q)
    PROVE  Place(q, j) \in Nat
<1>1. Len(q) \in Nat /\ j \in Nat /\ \A i \in IdsAt(q, q[j].id) : i \in 1..Len(q)
  BY DEF IdsAt
<1>. QED BY <1>1, RankStep DEF Place

\* A part that is in no place is not counted.
LEMMA CountNone ==
    ASSUME NEW p \in Seq(Part), NEW id, \A i \in 1..Len(p) : p[i].id # id
    PROVE  Count(p, id) = 0
<1>1. IdsAt(p, id) = {}
  BY DEF IdsAt
<1>. QED BY <1>1, FS_EmptySet DEF Count

\* Counting one part more.
LEMMA CountAppend ==
    ASSUME NEW p \in Seq(Part), NEW x \in Part
    PROVE  /\ \A id : Count(Append(p, x), id) = IF id = x.id THEN Count(p, id) + 1 ELSE Count(p, id)
           /\ \A i \in 1..Len(p) : Place(Append(p, x), i) = Place(p, i)
           /\ Place(Append(p, x), Len(p) + 1) = Count(p, x.id) + 1
           /\ \A id : Count(p, id) \in Nat
<1> DEFINE q == <<x>>
<1>1. q \in Seq(Part) /\ Len(q) = 1 /\ q[1] = x /\ Append(p, x) = p \o q
  OBVIOUS
<1> HIDE DEF q
<1>2. /\ \A id : Count(p \o q, id) = Count(p, id) + Count(q, id)
      /\ \A i \in 1..Len(p) : Place(p \o q, i) = Place(p, i)
      /\ \A j \in 1..Len(q) : Place(p \o q, Len(p) + j) = Count(p, q[j].id) + Place(q, j)
      /\ \A id : Count(p, id) \in Nat
  BY <1>1, CountJoin
<1>3. ASSUME NEW id PROVE Count(q, id) = IF id = x.id THEN 1 ELSE 0
  <2>1. CASE id = x.id
    <3>1. IdsAt(q, id) = {1}
      BY <1>1, <2>1 DEF IdsAt
    <3>. QED BY <2>1, <3>1, FS_Singleton DEF Count
  <2>2. CASE id # x.id
    BY <1>1, <2>2, CountNone
  <2>. QED BY <2>1, <2>2
<1>4. Place(q, 1) = 1
  <2>1. IdsAt(q, x.id) = {1}
    BY <1>1 DEF IdsAt
  <2>2. {j \in {1} : j <= 1} = {1}
    OBVIOUS
  <2>. QED BY <1>1, <2>1, <2>2, FS_Singleton DEF Place, Rank
<1>5. Place(p \o q, Len(p) + 1) = Count(p, x.id) + 1
  BY <1>1, <1>2, <1>4
<1>. QED BY <1>1, <1>2, <1>3, <1>5

\* Operations and their part rows, position by position.
Aligned(p, q) ==
    Len(p) = Len(q) /\ \A i \in 1..Len(p) : p[i].id = q[i].id /\ p[i].op = q[i].msg.op

\* Part rows and operations stay aligned.
LEMMA AlignedGrows ==
    ASSUME NEW p \in Seq(Part), NEW q \in Seq(Op), Aligned(p, q)
    PROVE  /\ \A x \in Part, e \in Op : x.id = e.id /\ x.op = e.msg.op => Aligned(Append(p, x), Append(q, e))
           /\ \A a \in Seq(Part), b \in Seq(Op) : Aligned(a, b) => Aligned(p \o a, q \o b)
<1>0. Len(p) = Len(q) /\ Len(p) \in Nat /\ \A i \in 1..Len(p) : p[i].id = q[i].id /\ p[i].op = q[i].msg.op
  BY DEF Aligned
<1>1. ASSUME NEW x \in Part, NEW e \in Op, x.id = e.id, x.op = e.msg.op
      PROVE  Aligned(Append(p, x), Append(q, e))
  <2>1. Len(Append(p, x)) = Len(p) + 1 /\ Len(Append(q, e)) = Len(p) + 1
    BY <1>0
  <2>2. \A i \in 1..(Len(p) + 1) : Append(p, x)[i] = IF i <= Len(p) THEN p[i] ELSE x
    OBVIOUS
  <2>3. \A i \in 1..(Len(p) + 1) : Append(q, e)[i] = IF i <= Len(p) THEN q[i] ELSE e
    BY <1>0
  <2>4. \A i \in 1..(Len(p) + 1) : i <= Len(p) => i \in 1..Len(p)
    BY <1>0
  <2>. QED BY <1>0, <1>1, <2>1, <2>2, <2>3, <2>4 DEF Aligned
<1>2. ASSUME NEW a \in Seq(Part), NEW b \in Seq(Op), Aligned(a, b)
      PROVE  Aligned(p \o a, q \o b)
  <2>0. Len(a) = Len(b) /\ Len(a) \in Nat /\ \A i \in 1..Len(a) : a[i].id = b[i].id /\ a[i].op = b[i].msg.op
    BY <1>2 DEF Aligned
  <2> DEFINE h == Len(p)
             n == Len(a)
  <2>1. Len(p \o a) = h + n /\ Len(q \o b) = h + n
    <3>1. Len(p \o a) = Len(p) + Len(a)
      OBVIOUS
    <3>2. Len(q \o b) = Len(q) + Len(b)
      OBVIOUS
    <3>. QED BY <1>0, <2>0, <3>1, <3>2
  <2>2. \A i \in 1..(h + n) : (p \o a)[i] = IF i <= h THEN p[i] ELSE a[i - h]
    BY <1>0, <2>0
  <2>3. \A i \in 1..(h + n) : (q \o b)[i] = IF i <= h THEN q[i] ELSE b[i - h]
    BY <1>0, <2>0
  <2>4. h \in Nat /\ n \in Nat /\ \A i \in 1..(h + n) : IF i <= h THEN i \in 1..h ELSE i - h \in 1..n
    BY <1>0, <2>0
  <2>5. ASSUME NEW i \in 1..(h + n) PROVE (p \o a)[i].id = (q \o b)[i].id /\ (p \o a)[i].op = (q \o b)[i].msg.op
    BY <1>0, <2>0, <2>2, <2>3, <2>4
  <2>. QED BY <2>1, <2>5 DEF Aligned
<1>. QED BY <1>1, <1>2

\* The elements of two sequences in a row.
LEMMA JoinElement ==
    ASSUME NEW S, NEW p \in Seq(S), NEW q \in Seq(S), NEW i \in 1..Len(p \o q)
    PROVE  \/ i \in 1..Len(p) /\ (p \o q)[i] = p[i]
           \/ \E j \in 1..Len(q) : i = Len(p) + j /\ (p \o q)[i] = q[j]
<1>1. Len(p) \in Nat /\ Len(q) \in Nat /\ Len(p \o q) = Len(p) + Len(q)
  OBVIOUS
<1>2. CASE i <= Len(p)
  BY <1>1, <1>2
<1>3. CASE i > Len(p)
  <2>1. i - Len(p) \in 1..Len(q) /\ i = Len(p) + (i - Len(p)) /\ (p \o q)[i] = q[i - Len(p)]
    BY <1>1, <1>3
  <2>. QED BY <2>1
<1>. QED BY <1>1, <1>2, <1>3

\* The elements of a sequence with one more.
LEMMA AppendElement ==
    ASSUME NEW S, NEW q \in Seq(S), NEW x \in S, NEW i \in 1..Len(Append(q, x))
    PROVE  \/ i \in 1..Len(q) /\ Append(q, x)[i] = q[i]
           \/ i = Len(q) + 1 /\ Append(q, x)[i] = x
  OBVIOUS

\* The log is aligned with the history and with every session's operations, and
\* every part row has its header, committed or in the same session.
Logged ==
    /\ Aligned(parts, history) /\ \A c \in Conns : Aligned(work[c].parts, work[c].ops)
    /\ \A i \in 1..Len(parts) : parts[i].id \in headers
    /\ \A c \in Conns : \A i \in 1..Len(work[c].parts) : work[c].parts[i].id \in headers \cup work[c].headers

\* An id is drawn once, for one call, and used by no other.
IdsOf ==
    /\ \A s \in Streams : resultSet[s] # Null => resultSet[s] \in 1..seqVal
    /\ \A s, u \in Streams : resultSet[s] = resultSet[u] /\ resultSet[s] # Null => s = u
    /\ \A id \in headers : id \in 1..seqVal
    /\ \A c \in Conns : \A id \in work[c].headers : id \in 1..seqVal
    /\ \A c \in Conns : \A i \in 1..Len(work[c].ops) : work[c].ops[i].id = resultSet[work[c].ops[i].s]

\* What a commit does to the log, by the session's fields.
LEMMA CommitLog ==
    ASSUME Types, NEW c \in Conns, Commits(c)
    PROVE  /\ parts \in Seq(Part) /\ work[c].parts \in Seq(Part) /\ parts' = parts \o work[c].parts
           /\ history \in Seq(Op) /\ work[c].ops \in Seq(Op) /\ history' = history \o work[c].ops
           /\ headers' = headers \cup work[c].headers
           /\ work'[c] = NoWork /\ \A d \in Conns : d # c => work'[d] = work[d]
<1>1. work[c] \in Work /\ parts \in Seq(Part) /\ history \in Seq(Op)
  BY DEF Types, DbTypes
<1>2. work[c].parts \in Seq(Part) /\ work[c].ops \in Seq(Op)
  BY <1>1, WorkFacts
<1>. QED BY <1>1, <1>2, SessionEnds DEF Commits

\* What a message does to the log, by the session's fields.
LEMMA OnNextLog ==
    ASSUME Types, NEW s \in Streams, OnNext(s)
    PROVE  LET c == conn[s]
               id == Id(s)
               x == [id |-> id, part |-> transpartIndex[s], op |-> Msg(s).op]
               e == [s |-> s, id |-> id, msg |-> Msg(s)]
           IN  /\ c \in Conns /\ id = resultSet[s] /\ id \in Nat /\ resultSet[s] # Null
               /\ x \in Part /\ e \in Op
               /\ work[c].parts \in Seq(Part) /\ work[c].ops \in Seq(Op)
               /\ UNCHANGED <<parts, history, headers>> /\ \A d \in Conns : d # c => work'[d] = work[d]
               /\ \/ /\ Msg(s).op = "header" /\ work'[c].headers = work[c].headers \cup {id}
                     /\ work'[c].parts = work[c].parts /\ work'[c].ops = work[c].ops
                  \/ /\ Msg(s).op # "header" /\ work'[c].headers = work[c].headers
                     /\ id \in headers \cup work[c].headers
                     /\ work'[c].parts = Append(work[c].parts, x) /\ work'[c].ops = Append(work[c].ops, e)
<1> DEFINE c == conn[s]
           id == Id(s)
           m == Msg(s)
           x == [id |-> id, part |-> transpartIndex[s], op |-> m.op]
           e == [s |-> s, id |-> id, msg |-> m]
<1>1. /\ c \in Conns /\ m \in Message /\ id \in Nat /\ UNCHANGED <<parts, history, headers>>
      /\ work'[c] = Applied(c, s, m, id) /\ \A d \in Conns : d # c => work'[d] = work[d]
  BY OnNextTypes
<1>2. id = resultSet[s] /\ resultSet[s] # Null
  BY NextMessage DEF OnNext, OnNextBegins
<1>3. LogAccepted(c, m, id)
  BY DEF OnNext
<1>4. transpartIndex[s] \in Nat /\ work[c] \in Work
  BY <1>1 DEF Types, DbTypes, CallTypes
<1>5. x \in Part
  BY <1>1, <1>4 DEF Part, Message
<1>6. e \in Op
  BY <1>1 DEF Op
<1>7. work[c].parts \in Seq(Part) /\ work[c].ops \in Seq(Op)
  BY <1>4, WorkFacts
<1> HIDE DEF x, e, c, id, m
<1>8. CASE m.op = "header"
  <2>1. /\ work'[c].headers = work[c].headers \cup {id}
        /\ work'[c].parts = work[c].parts /\ work'[c].ops = work[c].ops
    BY <1>1, <1>8 DEF Applied
  <2>. QED BY <1>1, <1>2, <1>5, <1>6, <1>7, <1>8, <2>1 DEF x, e, c, id, m
<1>9. CASE m.op # "header"
  <2>1. /\ work'[c].headers = work[c].headers
        /\ work'[c].parts = Append(work[c].parts, x) /\ work'[c].ops = Append(work[c].ops, e)
    BY <1>1, <1>9 DEF Applied, x, e
  <2>2. id \in headers \cup work[c].headers
    BY <1>3, <1>9 DEF LogAccepted
  <2>. QED BY <1>1, <1>2, <1>5, <1>6, <1>7, <1>9, <2>1, <2>2 DEF x, e, c, id, m
<1>. QED BY <1>8, <1>9

\* Every step keeps the log aligned with the operations.
LEMMA LoggedStep ==
    ASSUME Types, Logged, DbStep
    PROVE  Logged'
<1>0. /\ NoWork.parts = <<>> /\ NoWork.ops = <<>> /\ Aligned(<<>>, <<>>)
  BY NoSession DEF Aligned
<1>1. CASE UNCHANGED dbVars
  BY <1>1 DEF Logged, dbVars
<1>2. ASSUME NEW c \in Conns, RollsBack(c) PROVE Logged'
  <2>1. work'[c] = NoWork /\ (\A d \in Conns : d # c => work'[d] = work[d]) /\ UNCHANGED <<parts, history, headers>>
    BY <1>2, SessionEnds DEF RollsBack
  <2>2. ASSUME NEW d \in Conns
        PROVE  /\ Aligned(work'[d].parts, work'[d].ops)
               /\ \A i \in 1..Len(work'[d].parts) : work'[d].parts[i].id \in headers \cup work'[d].headers
    BY <1>0, <2>1 DEF Logged
  <2>. QED BY <2>1, <2>2 DEF Logged
<1>3. ASSUME NEW c \in Conns, Commits(c) PROVE Logged'
  <2>1. /\ parts \in Seq(Part) /\ work[c].parts \in Seq(Part) /\ parts' = parts \o work[c].parts
        /\ history \in Seq(Op) /\ work[c].ops \in Seq(Op) /\ history' = history \o work[c].ops
        /\ headers' = headers \cup work[c].headers
        /\ work'[c] = NoWork /\ \A d \in Conns : d # c => work'[d] = work[d]
    BY <1>3, CommitLog
  <2>2. Aligned(parts', history')
    BY <2>1, AlignedGrows DEF Logged
  <2>3. ASSUME NEW d \in Conns
        PROVE  /\ Aligned(work'[d].parts, work'[d].ops)
               /\ \A i \in 1..Len(work'[d].parts) : work'[d].parts[i].id \in headers' \cup work'[d].headers
    <3>1. CASE d = c
      BY <1>0, <2>1, <3>1
    <3>2. CASE d # c
      <4>1. work'[d] = work[d] /\ \A id \in headers : id \in headers'
        BY <2>1, <3>2
      <4>. QED BY <4>1 DEF Logged
    <3>. QED BY <3>1, <3>2
  <2>4. ASSUME NEW i \in 1..Len(parts') PROVE parts'[i].id \in headers'
    <3> DEFINE q == work[c].parts
               p == parts
    <3>1. p \in Seq(Part) /\ q \in Seq(Part) /\ i \in 1..Len(p \o q) /\ parts' = p \o q
      BY <2>1
    <3>2. (\A j \in 1..Len(p) : p[j].id \in headers') /\ \A j \in 1..Len(q) : q[j].id \in headers'
      BY <2>1 DEF Logged
    <3> HIDE DEF p, q
    <3>3. \/ i \in 1..Len(p) /\ (p \o q)[i] = p[i]
          \/ \E j \in 1..Len(q) : i = Len(p) + j /\ (p \o q)[i] = q[j]
      BY <3>1, JoinElement
    <3>. QED BY <3>1, <3>2, <3>3
  <2>. QED BY <2>2, <2>3, <2>4 DEF Logged
<1>4. ASSUME NEW s \in Streams, OnNext(s) PROVE Logged'
  <2> DEFINE c == conn[s]
             id == Id(s)
             x == [id |-> id, part |-> transpartIndex[s], op |-> Msg(s).op]
             e == [s |-> s, id |-> id, msg |-> Msg(s)]
  <2>1. /\ c \in Conns /\ x \in Part /\ e \in Op
        /\ work[c].parts \in Seq(Part) /\ work[c].ops \in Seq(Op)
        /\ UNCHANGED <<parts, history, headers>> /\ \A d \in Conns : d # c => work'[d] = work[d]
        /\ \/ /\ work'[c].headers = work[c].headers \cup {id}
              /\ work'[c].parts = work[c].parts /\ work'[c].ops = work[c].ops
           \/ /\ work'[c].headers = work[c].headers
              /\ id \in headers \cup work[c].headers
              /\ work'[c].parts = Append(work[c].parts, x) /\ work'[c].ops = Append(work[c].ops, e)
    BY <1>4, OnNextLog
  <2>2. x.id = id /\ x.id = e.id /\ x.op = e.msg.op
    OBVIOUS
  <2> HIDE DEF c, id, x, e
  <2>3. Aligned(work'[c].parts, work'[c].ops)
    BY <2>1, <2>2, AlignedGrows DEF Logged
  <2>4. ASSUME NEW i \in 1..Len(work'[c].parts) PROVE work'[c].parts[i].id \in headers \cup work'[c].headers
    <3>1. CASE work'[c].parts = work[c].parts
      BY <2>1, <3>1 DEF Logged
    <3>2. CASE work'[c].parts = Append(work[c].parts, x)
      <4> DEFINE q == work[c].parts
      <4>1. q \in Seq(Part) /\ i \in 1..Len(Append(q, x)) /\ work'[c].parts = Append(q, x)
        BY <2>1, <3>2
      <4>2. \A j \in 1..Len(q) : q[j].id \in headers \cup work'[c].headers
        BY <2>1 DEF Logged
      <4>3. id \in headers \cup work'[c].headers
        BY <2>1
      <4> HIDE DEF q
      <4>4. \/ i \in 1..Len(q) /\ Append(q, x)[i] = q[i]
            \/ i = Len(q) + 1 /\ Append(q, x)[i] = x
        BY <2>1, <4>1, AppendElement
      <4>. QED BY <2>2, <4>1, <4>2, <4>3, <4>4
    <3>. QED BY <2>1, <3>1, <3>2
  <2>5. ASSUME NEW d \in Conns
        PROVE  /\ Aligned(work'[d].parts, work'[d].ops)
               /\ \A i \in 1..Len(work'[d].parts) : work'[d].parts[i].id \in headers \cup work'[d].headers
    <3>1. CASE d = c
      BY <2>3, <2>4, <3>1
    <3>2. CASE d # c
      BY <2>1, <3>2 DEF Logged
    <3>. QED BY <3>1, <3>2
  <2>. QED BY <2>1, <2>5 DEF Logged
<1>. QED BY <1>1, <1>2, <1>3, <1>4 DEF DbStep

\* A step draws no id, or one for a call that has none.
Draws(s) ==
    /\ resultSet[s] = Null /\ seqVal' = seqVal + 1 /\ resultSet' = [resultSet EXCEPT ![s] = seqVal + 1]
    /\ UNCHANGED dbVars

\* Every step is one of these for the ids.
LEMMA IdKinds ==
    ASSUME Types, [Next]_vars
    PROVE  UNCHANGED <<seqVal, resultSet>> \/ \E s \in Streams : Draws(s)
<1>1. ASSUME NEW s \in Streams, Begin(s) PROVE UNCHANGED <<seqVal, resultSet>> \/ Draws(s)
  <2>1. resultSet[s] = Null
    BY <1>1 DEF Begin, Types, Calls
  <2>. QED BY <1>1, <2>1 DEF Begin, Draws
<1>2. ASSUME NEW s \in Streams, OnNextBegins(s) \/ HalfClosed(s) \/ BeginTimesOut(s) \/ ClientCancels(s)
      PROVE  UNCHANGED <<seqVal, resultSet>>
  BY <1>2 DEF OnNextBegins, HalfClosed, BeginTimesOut, ClientCancels
<1>3. ASSUME NEW s \in Streams, OnNext(s) \/ OnNextCommits(s) \/ StatementFails(s) \/ OnNextThrows(s)
                                \/ OnNextCommitThrows(s)
      PROVE  OnNextBegins(s)
  BY <1>3 DEF OnNext, OnNextCommits, StatementFails, OnNextThrows, OnNextCommitThrows
<1>4. ASSUME NEW s \in Streams, OnCompleted(s) \/ OnCompletedThrows(s) PROVE HalfClosed(s)
  BY <1>4 DEF OnCompleted, OnCompletedThrows
<1>5. ASSUME NEW c \in Conns, Breaks(c) PROVE UNCHANGED <<seqVal, resultSet>>
  BY <1>5 DEF Breaks
<1>6. ASSUME UNCHANGED vars PROVE UNCHANGED <<seqVal, resultSet>>
  BY <1>6 DEF vars
<1>. QED BY <1>1, <1>2, <1>3, <1>4, <1>5, <1>6 DEF Next, Serves, OnNextFails, OnNextFaults

\* The streams of a session's operations.
LEMMA OpStreams ==
    ASSUME Types, NEW c \in Conns, NEW i \in 1..Len(work[c].ops)
    PROVE  work[c].ops[i].s \in Streams /\ work[c].ops[i].id \in Nat
<1>1. work[c] \in Work
  BY DEF Types, DbTypes
<1>. QED BY <1>1, WorkFacts, MessageFacts

\* Every step keeps the ids apart.
LEMMA IdsStep ==
    ASSUME Types, IdsOf, [Next]_vars
    PROVE  IdsOf'
<1>0. seqVal \in Nat /\ resultSet \in [Streams -> MaybeId]
  BY DEF Types, CallTypes
<1>1. ASSUME NEW s \in Streams, Draws(s) PROVE IdsOf'
  <2>1. /\ resultSet[s] = Null /\ seqVal' = seqVal + 1
        /\ resultSet'[s] = seqVal + 1 /\ \A u \in Streams : u # s => resultSet'[u] = resultSet[u]
    BY <1>0, <1>1 DEF Draws
  <2>2. UNCHANGED <<headers, work>>
    BY <1>1 DEF Draws, dbVars
  <2>3. \A id \in 1..seqVal : id \in 1..seqVal' /\ id # seqVal + 1
    BY <1>0, <2>1
  <2>4. seqVal + 1 \in 1..seqVal'
    BY <1>0, <2>1
  <2>5. \A u \in Streams : resultSet'[u] # Null => resultSet'[u] \in 1..seqVal'
    BY <2>1, <2>3, <2>4 DEF IdsOf
  <2>6. \A u, v \in Streams : resultSet'[u] = resultSet'[v] /\ resultSet'[u] # Null => u = v
    BY <2>1, <2>3 DEF IdsOf
  <2>7. ASSUME NEW c \in Conns, NEW i \in 1..Len(work[c].ops)
        PROVE  work[c].ops[i].id = resultSet'[work[c].ops[i].s]
    <3>1. work[c].ops[i].s \in Streams /\ work[c].ops[i].id \in Nat
      BY OpStreams
    <3>2. work[c].ops[i].id = resultSet[work[c].ops[i].s]
      BY DEF IdsOf
    <3>. QED BY <2>1, <3>1, <3>2, ConnFacts
  <2>. QED BY <2>2, <2>3, <2>5, <2>6, <2>7 DEF IdsOf
<1>2. ASSUME UNCHANGED <<seqVal, resultSet>>, DbStep PROVE IdsOf'
  <2>0. NoWork.headers = {} /\ NoWork.ops = <<>>
    BY NoSession
  <2>1. CASE UNCHANGED dbVars
    BY <1>2, <2>1 DEF IdsOf, dbVars
  <2>2. ASSUME NEW c \in Conns, Commits(c) \/ RollsBack(c) PROVE IdsOf'
    <3>1. work'[c] = NoWork /\ (\A d \in Conns : d # c => work'[d] = work[d])
      BY <2>2, SessionEnds
    <3>2. headers' = headers \/ headers' = headers \cup work[c].headers
      BY <2>2 DEF Commits, RollsBack
    <3>3. \A id \in headers' : id \in 1..seqVal
      BY <3>2 DEF IdsOf
    <3>4. ASSUME NEW d \in Conns
          PROVE  /\ \A id \in work'[d].headers : id \in 1..seqVal
                 /\ \A i \in 1..Len(work'[d].ops) : work'[d].ops[i].id = resultSet[work'[d].ops[i].s]
      <4>1. CASE d = c
        BY <2>0, <3>1, <4>1
      <4>2. CASE d # c
        BY <3>1, <4>2 DEF IdsOf
      <4>. QED BY <4>1, <4>2
    <3>. QED BY <1>2, <3>3, <3>4 DEF IdsOf
  <2>3. ASSUME NEW s \in Streams, OnNext(s) PROVE IdsOf'
    <3> DEFINE c == conn[s]
               id == Id(s)
               e == [s |-> s, id |-> id, msg |-> Msg(s)]
    <3>1. /\ c \in Conns /\ id = resultSet[s] /\ resultSet[s] # Null /\ e \in Op
          /\ work[c].ops \in Seq(Op)
          /\ UNCHANGED headers /\ \A d \in Conns : d # c => work'[d] = work[d]
          /\ \/ /\ work'[c].headers = work[c].headers \cup {id} /\ work'[c].ops = work[c].ops
             \/ /\ work'[c].headers = work[c].headers /\ work'[c].ops = Append(work[c].ops, e)
      BY <2>3, OnNextLog
    <3>2. e.s = s /\ e.id = id
      OBVIOUS
    <3> HIDE DEF c, id, e
    <3>3. id \in 1..seqVal
      BY <3>1 DEF IdsOf
    <3>4. \A h \in work'[c].headers : h \in 1..seqVal
      BY <3>1, <3>3 DEF IdsOf
    <3>5. ASSUME NEW i \in 1..Len(work'[c].ops) PROVE work'[c].ops[i].id = resultSet[work'[c].ops[i].s]
      <4>1. CASE work'[c].ops = work[c].ops
        BY <3>1, <4>1 DEF IdsOf
      <4>2. CASE work'[c].ops = Append(work[c].ops, e)
        <5> DEFINE q == work[c].ops
        <5>1. q \in Seq(Op) /\ i \in 1..Len(Append(q, e)) /\ work'[c].ops = Append(q, e)
          BY <3>1, <4>2
        <5>2. \A j \in 1..Len(q) : q[j].id = resultSet[q[j].s]
          BY <3>1 DEF IdsOf
        <5> HIDE DEF q
        <5>3. \/ i \in 1..Len(q) /\ Append(q, e)[i] = q[i]
              \/ i = Len(q) + 1 /\ Append(q, e)[i] = e
          BY <3>1, <5>1, AppendElement
        <5>. QED BY <3>1, <3>2, <5>1, <5>2, <5>3
      <4>. QED BY <3>1, <4>1, <4>2
    <3>6. ASSUME NEW d \in Conns
          PROVE  /\ \A h \in work'[d].headers : h \in 1..seqVal
                 /\ \A i \in 1..Len(work'[d].ops) : work'[d].ops[i].id = resultSet[work'[d].ops[i].s]
      <4>1. CASE d = c
        BY <3>4, <3>5, <4>1
      <4>2. CASE d # c
        BY <3>1, <4>2 DEF IdsOf
      <4>. QED BY <4>1, <4>2
    <3>. QED BY <1>2, <3>1, <3>6 DEF IdsOf
  <2>. QED BY <1>2, <2>1, <2>2, <2>3 DEF DbStep
<1>. QED BY <1>1, <1>2, IdKinds, StepKinds

\* The log is aligned and the ids are apart, in every state.
LEMMA LogInv == Spec => [](Logged /\ IdsOf)
<1>1. ASSUME Init PROVE Logged /\ IdsOf
  <2>1. parts = <<>> /\ history = <<>> /\ headers = {} /\ (\A c \in Conns : work[c] = NoWork)
        /\ \A s \in Streams : resultSet[s] = Null
    BY <1>1 DEF Init
  <2>2. NoWork.parts = <<>> /\ NoWork.ops = <<>> /\ NoWork.headers = {} /\ Aligned(<<>>, <<>>)
    BY NoSession DEF Aligned
  <2>3. Logged
    BY <2>1, <2>2 DEF Logged
  <2>4. IdsOf
    BY <2>1, <2>2 DEF IdsOf
  <2>. QED BY <2>3, <2>4
<1>2. ASSUME Types, Logged /\ IdsOf, [Next]_vars PROVE (Logged /\ IdsOf)'
  <2>1. Logged'
    BY <1>2, StepKinds, LoggedStep
  <2>2. IdsOf'
    BY <1>2, IdsStep
  <2>. QED BY <2>1, <2>2
<1>. QED BY <1>1, <1>2, TypesInv, PTL DEF Spec

\* The part rows of an id are numbered from 0, committed ones first; a session
\* goes on where the committed ones end, and transpartIndex is the next number.
NumParts == \A i \in 1..Len(parts) : parts[i].part = Place(parts, i) - 1
NumWork ==
    \A c \in Conns : \A i \in 1..Len(work[c].parts) :
        work[c].parts[i].part = Count(parts, work[c].parts[i].id) + Place(work[c].parts, i) - 1
NumNext ==
    \A s \in Streams : st[s] = "open" /\ ~broken[conn[s]] /\ resultSet[s] # Null =>
        transpartIndex[s] = Count(parts, resultSet[s]) + Count(work[conn[s]].parts, resultSet[s])

Numbers == NumParts /\ NumWork /\ NumNext

LogState == Types /\ Private /\ Logged /\ IdsOf

\* The log of a session, by its fields.
LEMMA LogTypes ==
    ASSUME Types
    PROVE  /\ parts \in Seq(Part) /\ \A c \in Conns : work[c].parts \in Seq(Part)
           /\ NoWork.parts = <<>> /\ \A id : Count(<<>>, id) = 0
<1>1. \A c \in Conns : work[c] \in Work
  BY DEF Types, DbTypes
<1>2. ASSUME NEW c \in Conns PROVE work[c].parts \in Seq(Part)
  BY <1>1, WorkFacts
<1>3. ASSUME NEW id PROVE Count(<<>>, id) = 0
  <2>1. IdsAt(<<>>, id) = {}
    BY DEF IdsAt
  <2>. QED BY <2>1, FS_EmptySet DEF Count
<1>. QED BY <1>2, <1>3, NoSession DEF Types, DbTypes

\* The parts of a session belong to the call that has its connection.
LEMMA ForeignIds ==
    ASSUME LogState, NEW c \in Conns, NEW s \in Streams, resultSet[s] # Null, conn[s] # c
    PROVE  Count(work[c].parts, resultSet[s]) = 0
<1>1. Len(work[c].parts) = Len(work[c].ops)
      /\ \A i \in 1..Len(work[c].parts) : work[c].parts[i].id = work[c].ops[i].id
  BY DEF LogState, Logged, Aligned
<1>2. ASSUME NEW i \in 1..Len(work[c].parts), work[c].parts[i].id = resultSet[s] PROVE FALSE
  <2> DEFINE u == work[c].ops[i].s
  <2>1. i \in 1..Len(work[c].ops) /\ work[c].ops[i].id = resultSet[s]
    BY <1>1, <1>2
  <2>2. u \in Streams /\ resultSet[u] = resultSet[s] /\ conn[u] = c
    BY <2>1, OpStreams DEF LogState, IdsOf, Private, OwnOps
  <2>3. u = s
    BY <2>2 DEF LogState, IdsOf
  <2>. QED BY <2>2, <2>3
<1>. QED BY <1>2, LogTypes, CountNone DEF LogState

\* Two sessions log different ids.
LEMMA NoSharedIds ==
    ASSUME LogState, NEW c \in Conns, NEW d \in Conns, c # d, NEW i \in 1..Len(work[d].parts)
    PROVE  Count(work[c].parts, work[d].parts[i].id) = 0
<1> DEFINE u == work[d].ops[i].s
<1>1. i \in 1..Len(work[d].ops) /\ work[d].parts[i].id = work[d].ops[i].id
  BY DEF LogState, Logged, Aligned
<1>2. u \in Streams /\ work[d].ops[i].id \in Nat
  BY <1>1, OpStreams DEF LogState
<1>3. resultSet[u] = work[d].ops[i].id /\ conn[u] = d
  BY <1>1 DEF LogState, IdsOf, Private, OwnOps
<1> HIDE DEF u
<1>4. resultSet[u] # Null /\ conn[u] # c
  BY <1>2, <1>3, ConnFacts
<1>. QED BY <1>1, <1>2, <1>3, <1>4, ForeignIds

\* A commit keeps the numbers.
LEMMA NumbersCommit ==
    ASSUME LogState, Numbers, NEW c \in Conns, Commits(c), UNCHANGED <<conn, resultSet, transpartIndex>>,
           \A s \in Streams : st'[s] = "open" => st[s] = "open",
           \A d \in Conns : broken[d] => broken'[d]
    PROVE  Numbers'
<1> DEFINE p == parts
           q == work[c].parts
<1>1. /\ p \in Seq(Part) /\ q \in Seq(Part) /\ parts' = p \o q
      /\ work'[c] = NoWork /\ \A d \in Conns : d # c => work'[d] = work[d]
  BY CommitLog DEF LogState
<1>2. /\ \A i \in 1..Len(p) : p[i].part = Place(p, i) - 1
      /\ \A j \in 1..Len(q) : q[j].part = Count(p, q[j].id) + Place(q, j) - 1
  BY DEF Numbers, NumParts, NumWork
<1>3. NoWork.parts = <<>> /\ \A id : Count(<<>>, id) = 0
  BY LogTypes DEF LogState
<1>4. /\ \A id : Count(p \o q, id) = Count(p, id) + Count(q, id)
      /\ \A i \in 1..Len(p) : Place(p \o q, i) = Place(p, i)
      /\ \A j \in 1..Len(q) : Place(p \o q, Len(p) + j) = Count(p, q[j].id) + Place(q, j)
      /\ \A id : Count(p, id) \in Nat
  <2> HIDE DEF p, q
  <2>. QED BY <1>1, CountJoin
<1>5. NumParts'
  <2> HIDE DEF p, q
  <2> SUFFICES ASSUME NEW i \in 1..Len(p \o q) PROVE (p \o q)[i].part = Place(p \o q, i) - 1
    BY <1>1 DEF NumParts
  <2>1. \/ i \in 1..Len(p) /\ (p \o q)[i] = p[i]
        \/ \E j \in 1..Len(q) : i = Len(p) + j /\ (p \o q)[i] = q[j]
    BY <1>1, JoinElement
  <2>2. CASE i \in 1..Len(p) /\ (p \o q)[i] = p[i]
    BY <1>2, <1>4, <2>2
  <2>3. ASSUME NEW j \in 1..Len(q), i = Len(p) + j, (p \o q)[i] = q[j]
        PROVE  (p \o q)[i].part = Place(p \o q, i) - 1
    <3>1. (p \o q)[i].part = Count(p, q[j].id) + Place(q, j) - 1
      BY <1>2, <2>3
    <3>2. Place(p \o q, Len(p) + j) = Count(p, q[j].id) + Place(q, j)
      BY <1>4
    <3>3. Place(p \o q, i) = Count(p, q[j].id) + Place(q, j)
      BY <2>3, <3>2
    <3>4. Count(p, q[j].id) \in Nat /\ Place(q, j) \in Nat
      BY <1>1, <1>4, PlaceType
    <3>. QED BY <3>1, <3>3, <3>4
  <2>. QED BY <2>1, <2>2, <2>3
<1>6. NumWork'
  <2> SUFFICES ASSUME NEW d \in Conns, NEW i \in 1..Len(work'[d].parts)
               PROVE  work'[d].parts[i].part = Count(parts', work'[d].parts[i].id) + Place(work'[d].parts, i) - 1
    BY DEF NumWork
  <2>1. d # c
    BY <1>1, <1>3
  <2>2. work'[d] = work[d] /\ i \in 1..Len(work[d].parts)
    BY <1>1, <2>1
  <2> DEFINE id == work[d].parts[i].id
  <2>3. work[d].parts[i].part = Count(p, id) + Place(work[d].parts, i) - 1
    BY <2>2 DEF Numbers, NumWork
  <2>4. Count(q, id) = 0
    BY <2>1, <2>2, NoSharedIds
  <2> HIDE DEF p, q
  <2>5. Count(parts', id) = Count(p, id)
    BY <1>1, <1>4, <2>4
  <2>. QED BY <2>2, <2>3, <2>5
<1>7. NumNext'
  <2> SUFFICES ASSUME NEW s \in Streams, st'[s] = "open", ~broken'[conn[s]], resultSet[s] # Null
               PROVE  transpartIndex[s] = Count(parts', resultSet[s]) + Count(work'[conn[s]].parts, resultSet[s])
    BY DEF NumNext
  <2> DEFINE id == resultSet[s]
             d == conn[s]
  <2>1. d \in Conns /\ st[s] = "open"
    BY DEF LogState, Types, CallTypes, Calls
  <2>2. ~broken[d]
    BY <2>1
  <2>3. transpartIndex[s] = Count(p, id) + Count(work[d].parts, id)
    BY <2>1, <2>2 DEF Numbers, NumNext
  <2>4. CASE d = c
    <3>1. Count(work'[d].parts, id) = 0 /\ Count(work[d].parts, id) = Count(q, id)
      BY <1>1, <1>3, <2>4
    <3>2. Count(q, id) \in Nat
      BY <1>1, CountJoin
    <3> HIDE DEF p, q
    <3>3. Count(parts', id) = Count(p, id) + Count(q, id)
      BY <1>1, <1>4
    <3>. QED BY <1>4, <2>3, <3>1, <3>2, <3>3
  <2>5. CASE d # c
    <3>1. work'[d] = work[d]
      BY <1>1, <2>1, <2>5
    <3>2. Count(q, id) = 0
      BY <2>5, ForeignIds
    <3> HIDE DEF p, q
    <3>3. Count(parts', id) = Count(p, id)
      BY <1>1, <1>4, <3>2
    <3>. QED BY <2>3, <3>1, <3>3
  <2>. QED BY <2>4, <2>5
<1>. QED BY <1>5, <1>6, <1>7 DEF Numbers

\* A rollback keeps the numbers, if the call it is for goes no further.
LEMMA NumbersRollback ==
    ASSUME LogState, Numbers, NEW c \in Conns, RollsBack(c), UNCHANGED <<conn, resultSet, transpartIndex>>,
           \A s \in Streams : st'[s] = "open" => st[s] = "open" /\ (conn[s] = c => broken'[c]),
           \A d \in Conns : broken[d] => broken'[d]
    PROVE  Numbers'
<1>1. parts' = parts /\ work'[c] = NoWork /\ \A d \in Conns : d # c => work'[d] = work[d]
  BY SessionEnds DEF RollsBack, LogState
<1>2. NoWork.parts = <<>>
  BY LogTypes DEF LogState
<1>3. NumParts'
  BY <1>1 DEF Numbers, NumParts
<1>4. NumWork'
  <2> SUFFICES ASSUME NEW d \in Conns, NEW i \in 1..Len(work'[d].parts)
               PROVE  work'[d].parts[i].part = Count(parts, work'[d].parts[i].id) + Place(work'[d].parts, i) - 1
    BY <1>1 DEF NumWork
  <2>1. work'[d] = work[d]
    BY <1>1, <1>2
  <2>. QED BY <2>1 DEF Numbers, NumWork
<1>5. NumNext'
  <2> SUFFICES ASSUME NEW s \in Streams, st'[s] = "open", ~broken'[conn[s]], resultSet[s] # Null
               PROVE  transpartIndex[s] = Count(parts, resultSet[s]) + Count(work'[conn[s]].parts, resultSet[s])
    BY <1>1 DEF NumNext
  <2>1. conn[s] \in Conns /\ st[s] = "open"
    BY DEF LogState, Types, CallTypes, Calls
  <2>2. ~broken[conn[s]] /\ work'[conn[s]] = work[conn[s]]
    BY <1>1, <2>1
  <2>. QED BY <2>1, <2>2 DEF Numbers, NumNext
<1>. QED BY <1>3, <1>4, <1>5 DEF Numbers

\* A step that leaves the log alone and opens no call keeps the numbers.
LEMMA NumbersKept ==
    ASSUME LogState, Numbers, UNCHANGED <<parts, work, conn, resultSet, transpartIndex, broken>>,
           \A s \in Streams : st'[s] = "open" => st[s] = "open"
    PROVE  Numbers'
<1>1. NumParts' /\ NumWork'
  BY DEF Numbers, NumParts, NumWork
<1>2. NumNext'
  BY DEF Numbers, NumNext
<1>. QED BY <1>1, <1>2 DEF Numbers

\* A call that begins has logged nothing under its new id.
LEMMA NumbersBegin ==
    ASSUME LogState, Numbers, NEW s \in Streams, Begin(s)
    PROVE  Numbers'
<1>1. /\ TakesConnection /\ conn' = [conn EXCEPT ![s] = Head(idle)] /\ st[s] = "idle"
      /\ UNCHANGED <<parts, work, broken, transpartIndex>>
  BY DEF Begin, dbVars
<1>2. 1 \in 1..Len(idle) /\ Head(idle) = idle[1]
  BY <1>1, QueueTaken DEF LogState, Types
<1>3. conn'[s] = Head(idle) /\ \A u \in Streams : u # s => conn'[u] = conn[u]
  BY <1>1 DEF LogState, Types, CallTypes
<1>4. work[conn'[s]] = NoWork
  BY <1>2, <1>3 DEF LogState, Private, IdleFree
<1>5. transpartIndex[s] = 0 /\ resultSet[s] = Null
  BY <1>1 DEF LogState, Types, Calls
<1>6. \A u \in Streams : u # s => st'[u] = st[u]
  <2>1. CASE st' = [st EXCEPT ![s] = "open"]
    BY <2>1 DEF LogState, Types, CallTypes
  <2>2. CASE Answers(s, "error")
    BY <2>2 DEF LogState, Types, CallTypes, Answers
  <2>. QED BY <2>1, <2>2 DEF Begin
<1>7. (\A u \in Streams : u # s => resultSet'[u] = resultSet[u]) /\ resultSet'[s] \in {Null, seqVal + 1}
  <2>1. CASE resultSet' = [resultSet EXCEPT ![s] = seqVal + 1]
    BY <2>1 DEF LogState, Types, CallTypes
  <2>2. CASE UNCHANGED resultSet
    BY <1>5, <2>2
  <2>. QED BY <2>1, <2>2 DEF Begin
<1>8. Count(parts, seqVal + 1) = 0
  <2>1. seqVal \in Nat /\ parts \in Seq(Part)
    BY DEF LogState, Types, CallTypes, DbTypes
  <2>2. \A i \in 1..Len(parts) : parts[i].id \in 1..seqVal
    BY DEF LogState, Logged, IdsOf
  <2>3. \A i \in 1..Len(parts) : parts[i].id # seqVal + 1
    BY <2>1, <2>2
  <2>. QED BY <2>1, <2>3, CountNone
<1>9. NoWork.parts = <<>> /\ \A id : Count(<<>>, id) = 0
  BY LogTypes DEF LogState
<1>10. NumParts' /\ NumWork'
  BY <1>1 DEF Numbers, NumParts, NumWork
<1>11. NumNext'
  <2> SUFFICES ASSUME NEW u \in Streams, st'[u] = "open", ~broken[conn'[u]], resultSet'[u] # Null
               PROVE  transpartIndex[u] = Count(parts, resultSet'[u]) + Count(work[conn'[u]].parts, resultSet'[u])
    BY <1>1 DEF NumNext
  <2>1. CASE u = s
    BY <1>4, <1>5, <1>7, <1>8, <1>9, <2>1
  <2>2. CASE u # s
    BY <1>3, <1>6, <1>7, <2>2 DEF Numbers, NumNext
  <2>. QED BY <2>1, <2>2
<1>. QED BY <1>10, <1>11 DEF Numbers

\* A part that is logged gets the next number of its id.
LEMMA NumbersOnNext ==
    ASSUME LogState, Numbers, NEW s \in Streams, OnNext(s)
    PROVE  Numbers'
<1> DEFINE c == conn[s]
           id == Id(s)
           q == work[c].parts
           x == [id |-> id, part |-> transpartIndex[s], op |-> Msg(s).op]
<1>1. /\ c \in Conns /\ id = resultSet[s] /\ resultSet[s] # Null /\ x \in Part /\ q \in Seq(Part)
      /\ parts' = parts /\ \A d \in Conns : d # c => work'[d] = work[d]
      /\ \/ Msg(s).op = "header" /\ work'[c].parts = q
         \/ Msg(s).op # "header" /\ work'[c].parts = Append(q, x)
  BY OnNextLog DEF LogState
<1>2. UNCHANGED <<st, conn, resultSet, broken>> /\ ~broken[c] /\ HasNext(s)
      /\ transpartIndex' = [transpartIndex EXCEPT ![s] = PartAdvanced(s)]
  BY DEF OnNext, OnNextBegins
<1>3. st[s] = "open"
  BY <1>2 DEF HasNext
<1>4. transpartIndex[s] = Count(parts, id) + Count(q, id)
  BY <1>1, <1>2, <1>3 DEF Numbers, NumNext
<1>5. transpartIndex[s] \in Nat /\ transpartIndex'[s] = PartAdvanced(s)
      /\ \A u \in Streams : u # s => transpartIndex'[u] = transpartIndex[u]
  BY <1>2 DEF LogState, Types, CallTypes
<1>6. x.id = id /\ x.part = transpartIndex[s]
  OBVIOUS
<1> HIDE DEF c, id, x
<1>7. /\ \A k : Count(Append(q, x), k) = IF k = x.id THEN Count(q, k) + 1 ELSE Count(q, k)
      /\ \A i \in 1..Len(q) : Place(Append(q, x), i) = Place(q, i)
      /\ Place(Append(q, x), Len(q) + 1) = Count(q, x.id) + 1
      /\ \A k : Count(q, k) \in Nat
  <2> HIDE DEF q
  <2>. QED BY <1>1, CountAppend
<1>8. Count(parts, id) \in Nat
  BY LogTypes, CountJoin DEF LogState
<1>9. \A i \in 1..Len(q) : q[i].part = Count(parts, q[i].id) + Place(q, i) - 1
  BY <1>1 DEF Numbers, NumWork
<1>10. \A i \in 1..Len(work'[c].parts) :
          work'[c].parts[i].part = Count(parts, work'[c].parts[i].id) + Place(work'[c].parts, i) - 1
  <2> HIDE DEF q
  <2>1. CASE work'[c].parts = q
    BY <1>9, <2>1
  <2>2. CASE work'[c].parts = Append(q, x)
    <3> SUFFICES ASSUME NEW i \in 1..Len(Append(q, x))
                 PROVE  Append(q, x)[i].part = Count(parts, Append(q, x)[i].id) + Place(Append(q, x), i) - 1
      BY <2>2
    <3>1. \/ i \in 1..Len(q) /\ Append(q, x)[i] = q[i]
          \/ i = Len(q) + 1 /\ Append(q, x)[i] = x
      BY <1>1, AppendElement
    <3>2. CASE i \in 1..Len(q) /\ Append(q, x)[i] = q[i]
      BY <1>7, <1>9, <3>2
    <3>3. CASE i = Len(q) + 1 /\ Append(q, x)[i] = x
      BY <1>4, <1>6, <1>7, <1>8, <3>3
    <3>. QED BY <3>1, <3>2, <3>3
  <2>. QED BY <1>1, <2>1, <2>2
<1>11. NumParts'
  BY <1>1 DEF Numbers, NumParts
<1>12. NumWork'
  <2> SUFFICES ASSUME NEW d \in Conns, NEW i \in 1..Len(work'[d].parts)
               PROVE  work'[d].parts[i].part = Count(parts, work'[d].parts[i].id) + Place(work'[d].parts, i) - 1
    BY <1>1 DEF NumWork
  <2>1. CASE d = c
    BY <1>10, <2>1
  <2>2. CASE d # c
    BY <1>1, <2>2 DEF Numbers, NumWork
  <2>. QED BY <2>1, <2>2
<1>13. NumNext'
  <2> SUFFICES ASSUME NEW u \in Streams, st[u] = "open", ~broken[conn[u]], resultSet[u] # Null
               PROVE  transpartIndex'[u] = Count(parts, resultSet[u]) + Count(work'[conn[u]].parts, resultSet[u])
    BY <1>1, <1>2 DEF NumNext
  <2>1. CASE u = s
    <3>1. transpartIndex'[s] = Count(parts, id) + Count(work'[c].parts, id)
      <4> HIDE DEF q
      <4>1. CASE Msg(s).op = "header" /\ work'[c].parts = q
        BY <1>4, <1>5, <4>1 DEF PartAdvanced
      <4>2. CASE Msg(s).op # "header" /\ work'[c].parts = Append(q, x)
        BY <1>4, <1>5, <1>6, <1>7, <1>8, <4>2 DEF PartAdvanced
      <4>. QED BY <1>1, <4>1, <4>2
    <3>. QED BY <1>1, <2>1, <3>1 DEF c
  <2>2. CASE u # s
    <3>1. conn[u] # c /\ conn[u] \in Conns
      BY <1>3, <2>2 DEF LogState, Private, OpenApart, Types, CallTypes, Calls, c
    <3>2. work'[conn[u]] = work[conn[u]]
      BY <1>1, <3>1
    <3>. QED BY <1>5, <2>2, <3>2 DEF Numbers, NumNext
  <2>. QED BY <2>1, <2>2
<1>. QED BY <1>11, <1>12, <1>13 DEF Numbers

\* Unless a half-close comes late, every step keeps the numbers.
LEMMA NumbersStep ==
    ASSUME LogState, Numbers, [Next]_vars, ~late'
    PROVE  Numbers'
<1>0. Types
  BY DEF LogState
<1>1. ASSUME NEW s \in Streams, BeginTimesOut(s) PROVE Numbers'
  <2>1. UNCHANGED <<parts, work, conn, resultSet, transpartIndex, broken>> /\ Answered(s)
    BY <1>1 DEF BeginTimesOut, dbVars, Answered
  <2>. QED BY <1>0, <2>1, NoneOpened, NumbersKept
<1>2. ASSUME NEW s \in Streams, OnNextCommits(s) PROVE Numbers'
  <2>1. UNCHANGED <<st, conn, resultSet, transpartIndex, broken>> /\ Commits(conn[s]) /\ OnNextBegins(s)
    BY <1>2 DEF OnNextCommits, OnNextBegins
  <2>2. conn[s] \in Conns
    BY <1>0, <2>1, MessageConsumed
  <2>. QED BY <2>1, <2>2, NumbersCommit
<1>3. ASSUME NEW s \in Streams, st[s] = "open", conn[s] \in Conns, RollsBack(conn[s]), Answered(s),
             UNCHANGED <<conn, resultSet, transpartIndex, broken>>
      PROVE  Numbers'
  <2>1. \A u \in Streams : st'[u] = "open" => st[u] = "open" /\ conn[u] # conn[s]
    BY <1>0, <1>3, NoneOpened DEF LogState, Private, OpenApart
  <2>. QED BY <1>3, <2>1, NumbersRollback
<1>4. ASSUME NEW s \in Streams, StatementFails(s) PROVE Numbers'
  <2>1. OnNextBegins(s) /\ RollsBack(conn[s]) /\ Answered(s) /\ UNCHANGED <<conn, resultSet, transpartIndex, broken>>
    BY <1>4 DEF StatementFails, OnNextBegins, OnError, Answered
  <2>2. st[s] = "open" /\ conn[s] \in Conns
    BY <1>0, <2>1, MessageConsumed
  <2>. QED BY <1>3, <2>1, <2>2
<1>5. ASSUME NEW s \in Streams, ClientCancels(s) PROVE Numbers'
  <2>1. st[s] = "open" /\ RollsBack(conn[s]) /\ Answered(s) /\ UNCHANGED <<conn, resultSet, transpartIndex, broken>>
    BY <1>5 DEF ClientCancels, Answered
  <2>2. conn[s] \in Conns
    BY <1>0, <2>1 DEF Types, CallTypes, Calls
  <2>. QED BY <1>3, <2>1, <2>2
<1>6. ASSUME NEW s \in Streams, OnNextThrows(s) PROVE Numbers'
  <2>1. UNCHANGED <<parts, work, conn, resultSet, transpartIndex, broken>> /\ Answered(s)
    BY <1>6 DEF OnNextThrows, OnNextBegins, dbVars, Answered
  <2>. QED BY <1>0, <2>1, NoneOpened, NumbersKept
<1>7. ASSUME NEW s \in Streams, conn[s] \in Conns, CommitThrows(s), UNCHANGED <<conn, resultSet, transpartIndex>>
      PROVE  Numbers'
  <2>1. (Commits(conn[s]) \/ RollsBack(conn[s])) /\ Answered(s) /\ broken' = [broken EXCEPT ![conn[s]] = TRUE]
    BY <1>7 DEF CommitThrows, Answered
  <2>2. broken'[conn[s]] /\ \A d \in Conns : broken[d] => broken'[d]
    BY <1>0, <1>7, <2>1 DEF Types, CallTypes
  <2>3. \A u \in Streams : st'[u] = "open" => st[u] = "open"
    BY <1>0, <2>1, NoneOpened
  <2>4. CASE Commits(conn[s])
    BY <1>7, <2>2, <2>3, <2>4, NumbersCommit
  <2>5. CASE RollsBack(conn[s])
    BY <1>7, <2>2, <2>3, <2>5, NumbersRollback
  <2>. QED BY <2>1, <2>4, <2>5
<1>8. ASSUME NEW s \in Streams, OnNextCommitThrows(s) PROVE Numbers'
  <2>1. OnNextBegins(s) /\ CommitThrows(s) /\ UNCHANGED <<conn, resultSet, transpartIndex>>
    BY <1>8 DEF OnNextCommitThrows, OnNextBegins
  <2>2. conn[s] \in Conns
    BY <1>0, <2>1, MessageConsumed
  <2>. QED BY <1>7, <2>1, <2>2
<1>9. ASSUME NEW s \in Streams, OnCompletedThrows(s) PROVE Numbers'
  <2>1. HalfClosed(s) /\ CommitThrows(s)
    BY <1>9 DEF OnCompletedThrows
  <2>2. conn[s] \in Conns /\ UNCHANGED <<conn, resultSet, transpartIndex>>
    BY <1>0, <2>1, HalfCloseConsumed
  <2>. QED BY <1>7, <2>1, <2>2
<1>10. ASSUME NEW s \in Streams, OnCompleted(s) PROVE Numbers'
  <2>1. HalfClosed(s) /\ Commits(conn[s]) /\ Answered(s) /\ UNCHANGED broken
    BY <1>10 DEF OnCompleted, Answered
  <2>2. conn[s] \in Conns /\ UNCHANGED <<conn, resultSet, transpartIndex>>
    BY <1>0, <2>1, HalfCloseConsumed
  <2>. QED BY <1>0, <2>1, <2>2, NoneOpened, NumbersCommit
<1>11. ASSUME NEW c \in Conns, Breaks(c) PROVE Numbers'
  <2>1. RollsBack(c) /\ UNCHANGED <<st, conn, resultSet, transpartIndex>> /\ broken' = [broken EXCEPT ![c] = TRUE]
    BY <1>11 DEF Breaks
  <2>2. broken'[c] /\ \A d \in Conns : broken[d] => broken'[d]
    BY <1>0, <2>1 DEF Types, CallTypes
  <2>. QED BY <2>1, <2>2, NumbersRollback
<1>12. ASSUME UNCHANGED vars PROVE Numbers'
  <2>1. UNCHANGED <<parts, work, conn, resultSet, transpartIndex, broken, st>>
    BY <1>12 DEF vars
  <2>. QED BY <2>1, NumbersKept
<1>. QED BY <1>1, <1>2, <1>4, <1>5, <1>6, <1>8, <1>9, <1>10, <1>11, <1>12, NumbersBegin, NumbersOnNext
         DEF Next, Serves, OnNextFails, OnNextFaults

\* Unless a half-close came late, the parts are numbered without a gap.
LEMMA NumbersInv == Spec => [](~late => Numbers)
<1>1. ASSUME Init PROVE Numbers
  <2>1. parts = <<>> /\ (\A c \in Conns : work[c] = NoWork) /\ (\A s \in Streams : st[s] # "open")
    BY <1>1 DEF Init
  <2>2. NoWork.parts = <<>>
    BY NoSession
  <2>3. NumParts /\ NumWork
    BY <2>1, <2>2 DEF NumParts, NumWork
  <2>. QED BY <2>1, <2>3 DEF Numbers, NumNext
<1>2. ASSUME Types, ~late => Private, Logged /\ IdsOf, ~late => Numbers, [Next]_vars
      PROVE  (~late => Numbers)'
  <2> SUFFICES ASSUME ~late' PROVE Numbers'
    OBVIOUS
  <2>1. ~late
    BY <1>2, PrivateStep
  <2>2. LogState
    BY <1>2, <2>1 DEF LogState
  <2>. QED BY <1>2, <2>1, <2>2, NumbersStep
<1>. QED BY <1>1, <1>2, TypesInv, PrivateInv, LogInv, PTL DEF Spec

\* The rows that LogMatchesHistory compares, for one id.
RowsAt(q, id) == {i \in DOMAIN q : q[i].id = id}

\* They are at the same positions of the log and of the history.
LEMMA RowsMatch ==
    ASSUME Types, Logged, NEW id
    PROVE  LET K == RowsAt(parts, id)
               D == RowsAt(history, id)
           IN  /\ K = D /\ K = IdsAt(parts, id) /\ \A i \in K : i \in 1..Len(parts) /\ parts[i].id = id
               /\ Len(Selected(parts, K)) = Len(Selected(history, D))
               /\ DOMAIN Selected(parts, K) = 1..Cardinality(K)
               /\ \A n \in 1..Cardinality(K) :
                    /\ Nth(K, n) \in K /\ Rank(K, Nth(K, n)) = n
                    /\ Selected(parts, K)[n] = parts[Nth(K, n)]
                    /\ Selected(history, D)[n] = history[Nth(K, n)]
<1> DEFINE K == RowsAt(parts, id)
           D == RowsAt(history, id)
<1>1. parts \in Seq(Part) /\ history \in Seq(Op) /\ DOMAIN parts = 1..Len(parts)
      /\ DOMAIN history = 1..Len(history) /\ Len(parts) \in Nat
  BY DEF Types, DbTypes
<1>2. Len(parts) = Len(history) /\ \A i \in 1..Len(parts) : parts[i].id = history[i].id
  BY DEF Logged, Aligned
<1>3. K = D /\ K = IdsAt(parts, id) /\ \A i \in K : i \in 1..Len(parts) /\ parts[i].id = id
  BY <1>1, <1>2 DEF IdsAt, RowsAt
<1>4. (\A j \in K : j \in DOMAIN parts) /\ \A j \in D : j \in DOMAIN history
  BY DEF RowsAt
<1> HIDE DEF K, D
<1>5. /\ Selected(parts, K) \in Seq(Part) /\ Len(Selected(parts, K)) = Cardinality(K)
      /\ \A n \in 1..Cardinality(K) : Selected(parts, K)[n] = parts[Nth(K, n)]
  BY <1>1, <1>4, SelectedProperties
<1>6. /\ Len(Selected(history, D)) = Cardinality(D)
      /\ \A n \in 1..Cardinality(D) : Selected(history, D)[n] = history[Nth(D, n)]
  BY <1>1, <1>4, SelectedProperties
<1>7. \A n \in 1..Cardinality(K) : Nth(K, n) \in K /\ Rank(K, Nth(K, n)) = n
  BY <1>1, <1>3, NthExists
<1>8. DOMAIN Selected(parts, K) = 1..Cardinality(K)
  BY <1>5
<1>. QED BY <1>3, <1>5, <1>6, <1>7, <1>8 DEF K, D

\* The variables have their types, as LogMatchesHistory states them.
LEMMA TypesOK ==
    ASSUME Types, Logged, IdsOf
    PROVE  TypeOK
<1>1. /\ objects \in [Names -> Row \cup {NoRow}] /\ parts \in Seq(Part)
      /\ \A c \in Conns : work[c] \in Work
  BY DEF Types, DbTypes, Tables
<1>2. ASSUME NEW c \in Conns PROVE work[c].objs \in [Names -> Row \cup {NoRow, Same}]
  BY <1>1, WorkFacts DEF Writes
<1>3. ASSUME NEW i \in DOMAIN parts PROVE parts[i].id \in headers /\ parts[i].part \in Nat
  <2>1. i \in 1..Len(parts) /\ parts[i] \in Part
    BY <1>1
  <2>. QED BY <2>1 DEF Logged, Part
<1>4. headers \subseteq 1..seqVal
  BY DEF IdsOf
<1>5. ASSUME NEW s \in Streams PROVE pos[s] \in 0..(Len(script[s]) + 1)
  <2>1. script[s] \in Seq(Message) /\ pos[s] \in Nat /\ pos[s] <= Len(script[s]) + 1
    BY DEF Types, CallTypes, Calls
  <2>. QED BY <2>1
<1>. QED BY <1>1, <1>2, <1>3, <1>4, <1>5 DEF Types, PoolTypes, CallTypes, TypeOK

\* What tdms_trans_part_primary tells of a transaction is what was done: the
\* part rows of an id are its committed operations in order, below a committed
\* header, and, as long as no half-close came late, numbered from 0 by
\* transpartIndex without a gap; and every variable has its type.
THEOREM LogIsTrue == Spec => []LogMatchesHistory
<1>1. ASSUME Types, Logged /\ IdsOf, ~late => Numbers PROVE LogMatchesHistory
  <2>1. TypeOK
    BY <1>1, TypesOK
  <2>2. ASSUME NEW id \in 1..seqVal
        PROVE  LET rows == Selected(parts, {i \in DOMAIN parts : parts[i].id = id})
                   done == Selected(history, {i \in DOMAIN history : history[i].id = id})
               IN  /\ Len(rows) = Len(done)
                   /\ \A i \in DOMAIN rows : /\ rows[i].op = done[i].msg.op
                                             /\ ~late => rows[i].part = i - 1
                   /\ rows # <<>> => id \in headers
    <3> DEFINE K == RowsAt(parts, id)
               D == RowsAt(history, id)
               rows == Selected(parts, K)
               done == Selected(history, D)
    <3>1. /\ K = IdsAt(parts, id) /\ \A i \in K : i \in 1..Len(parts) /\ parts[i].id = id
          /\ Len(rows) = Len(done) /\ DOMAIN rows = 1..Cardinality(K)
          /\ \A n \in 1..Cardinality(K) :
                /\ Nth(K, n) \in K /\ Rank(K, Nth(K, n)) = n
                /\ rows[n] = parts[Nth(K, n)] /\ done[n] = history[Nth(K, n)]
      BY <1>1, RowsMatch
    <3> HIDE DEF K, D, rows, done
    <3>2. ASSUME NEW n \in DOMAIN rows
          PROVE  rows[n].op = done[n].msg.op /\ (~late => rows[n].part = n - 1) /\ id \in headers
      <4> DEFINE k == Nth(K, n)
      <4>1. k \in K /\ Rank(K, k) = n /\ rows[n] = parts[k] /\ done[n] = history[k]
        BY <3>1, <3>2
      <4> HIDE DEF k
      <4>2. k \in 1..Len(parts) /\ parts[k].id = id
        BY <3>1, <4>1
      <4>3. parts[k].op = history[k].msg.op /\ parts[k].id \in headers
        BY <1>1, <4>2 DEF Logged, Aligned
      <4>4. ~late => parts[k].part = Place(parts, k) - 1
        BY <1>1, <4>2 DEF Numbers, NumParts
      <4>5. Place(parts, k) = n
        BY <3>1, <4>1, <4>2 DEF Place
      <4>. QED BY <4>1, <4>2, <4>3, <4>4, <4>5
    <3>3. rows # <<>> => \E n : n \in DOMAIN rows
      <4>1. rows \in Seq(Part)
        <5>1. parts \in Seq(Part) /\ \A j \in K : j \in DOMAIN parts
          BY <1>1 DEF Types, DbTypes, K, RowsAt
        <5>. QED BY <5>1, SelectedProperties DEF rows
      <4>. QED BY <4>1
    <3>4. /\ Len(rows) = Len(done)
          /\ \A i \in DOMAIN rows : rows[i].op = done[i].msg.op /\ (~late => rows[i].part = i - 1)
          /\ rows # <<>> => id \in headers
      BY <3>1, <3>2, <3>3
    <3>. QED BY <3>4 DEF K, D, rows, done, RowsAt
  <2>. QED BY <2>1, <2>2 DEF LogMatchesHistory
<1>. QED BY <1>1, TypesInv, LogInv, NumbersInv, PTL

-----------------------------------------------------------------------------
(* The answer and the database. *)

\* The messages of a call among some operations, in their order.
Mine(q, s) == {i \in 1..Len(q) : q[i].s = s}
Msgs(q, s) == [n \in 1..Cardinality(Mine(q, s)) |-> q[Nth(Mine(q, s), n)].msg]

\* Their type, none of them, and all of a single operation.
LEMMA MsgsType ==
    ASSUME NEW q \in Seq(Op), NEW s
    PROVE  /\ Msgs(q, s) \in Seq(Message) /\ Len(Msgs(q, s)) = Cardinality(Mine(q, s))
           /\ Cardinality(Mine(q, s)) \in Nat
           /\ (\A i \in 1..Len(q) : q[i].s # s) => Msgs(q, s) = <<>>
<1> DEFINE K == Mine(q, s)
           f == [n \in 1..Cardinality(K) |-> q[Nth(K, n)].msg]
<1>1. Len(q) \in Nat /\ \A i \in 1..Len(q) : q[i].msg \in Message
  BY MessageFacts
<1>2. \A i \in K : i \in 1..Len(q)
  BY DEF Mine
<1>3. Cardinality(K) \in Nat
  <2> HIDE DEF K
  <2>1. 0 \in Nat
    OBVIOUS
  <2>. QED BY <1>1, <1>2, <2>1, RankStep
<1>4. ASSUME NEW n \in 1..Cardinality(K) PROVE q[Nth(K, n)].msg \in Message
  <2>1. Nth(K, n) \in K
    <3> HIDE DEF K
    <3>. QED BY <1>1, <1>2, NthExists
  <2>. QED BY <1>1, <1>2, <2>1
<1>5. f \in Seq(Message) /\ Len(f) = Cardinality(K)
  <2> HIDE DEF K
  <2>1. f \in [1..Cardinality(K) -> Message]
    BY <1>4
  <2>. QED BY <1>3, <2>1
<1>6. ASSUME \A i \in 1..Len(q) : q[i].s # s PROVE f = <<>>
  <2>1. K = {}
    BY <1>6 DEF Mine
  <2>2. Cardinality(K) = 0
    BY <2>1, FS_EmptySet
  <2> HIDE DEF f
  <2>. QED BY <1>5, <2>2
<1>. QED BY <1>3, <1>5, <1>6 DEF Msgs

\* A sequence that has the elements of two in a row is their concatenation.
LEMMA JoinIs ==
    ASSUME NEW S, NEW x \in Seq(S), NEW y \in Seq(S), NEW z \in Seq(S), Len(z) = Len(x) + Len(y),
           \A m \in 1..Len(x) : z[m] = x[m], \A m \in 1..Len(y) : z[Len(x) + m] = y[m]
    PROVE  z = x \o y
<1>1. x \o y \in Seq(S) /\ Len(x \o y) = Len(x) + Len(y) /\ Len(x) \in Nat /\ Len(y) \in Nat
  OBVIOUS
<1>2. ASSUME NEW m \in 1..Len(z) PROVE z[m] = (x \o y)[m]
  <2>1. CASE m \in 1..Len(x)
    BY <2>1
  <2>2. CASE m \notin 1..Len(x)
    <3>1. m - Len(x) \in 1..Len(y) /\ m = Len(x) + (m - Len(x))
      BY <1>1, <2>2
    <3>. QED BY <1>1, <2>2, <3>1
  <2>. QED BY <2>1, <2>2
<1>. QED BY <1>1, <1>2

\* The messages of a call among operations in a row.
LEMMA MsgsJoin ==
    ASSUME NEW p \in Seq(Op), NEW q \in Seq(Op), NEW s
    PROVE  Msgs(p \o q, s) = Msgs(p, s) \o Msgs(q, s)
<1> DEFINE h == Len(p)
           n == Len(q)
           r == p \o q
           A == Mine(p, s)
           B == Mine(q, s)
           K == Mine(r, s)
           a == Cardinality(A)
           b == Cardinality(B)
<1>1. /\ h \in Nat /\ n \in Nat /\ r \in Seq(Op) /\ Len(r) = h + n
      /\ \A i \in 1..h : r[i] = p[i]
      /\ \A j \in 1..n : r[h + j] = q[j] /\ h + j \in 1..(h + n)
  OBVIOUS
<1> HIDE DEF h, n, r
<1>2. Joined(h, n, K, A, B)
  BY <1>1 DEF Joined, Mine, h, n
<1>3. (\A i \in A : i \in 1..h) /\ \A j \in B : j \in 1..n
  BY DEF Mine, h, n
<1> HIDE DEF K, A, B
<1>4. Cardinality(K) = a + b /\ a \in Nat /\ b \in Nat
  BY <1>1, <1>2, RankJoin
<1>5. /\ \A m \in 1..a : Nth(K, m) = Nth(A, m) /\ Nth(A, m) \in A
      /\ \A m \in 1..b : Nth(K, a + m) = h + Nth(B, m) /\ Nth(B, m) \in B
  BY <1>1, <1>2, NthJoin
<1> DEFINE x == Msgs(p, s)
           y == Msgs(q, s)
           z == Msgs(r, s)
<1>6. /\ x \in Seq(Message) /\ y \in Seq(Message) /\ z \in Seq(Message)
      /\ Len(x) = a /\ Len(y) = b /\ Len(z) = a + b
  BY <1>1, <1>4, MsgsType DEF A, B, K
<1>7. /\ \A m \in 1..a : x[m] = p[Nth(A, m)].msg
      /\ \A m \in 1..b : y[m] = q[Nth(B, m)].msg
      /\ \A m \in 1..(a + b) : z[m] = r[Nth(K, m)].msg
  BY <1>4 DEF Msgs, A, B, K
<1> HIDE DEF x, y, z, a, b
<1>8. ASSUME NEW m \in 1..a PROVE z[m] = x[m]
  <2>1. m \in 1..(a + b)
    BY <1>4
  <2>. QED BY <1>1, <1>3, <1>5, <1>7, <2>1
<1>9. ASSUME NEW m \in 1..b PROVE z[a + m] = y[m]
  <2>1. a + m \in 1..(a + b)
    BY <1>4
  <2>2. z[a + m] = r[h + Nth(B, m)].msg
    BY <1>5, <1>7, <2>1
  <2>. QED BY <1>1, <1>3, <1>5, <1>7, <2>2
<1>10. z = x \o y
  <2>1. Len(z) = Len(x) + Len(y) /\ (\A m \in 1..Len(x) : z[m] = x[m]) /\ \A m \in 1..Len(y) : z[Len(x) + m] = y[m]
    BY <1>6, <1>8, <1>9
  <2>. QED BY <1>6, <2>1, JoinIs
<1>. QED BY <1>10 DEF x, y, z, r

\* The operations among the first k messages, and where a call that has handled
\* p messages may have committed: OpsUpTo and CommitPoints, of a sequence.
OpsAt(q, k) == {i \in 1..k : q[i].op \notin {"header", "trailer"}}
OpsIn(q, k) == Selected(q, OpsAt(q, k))
Points(q, p) == {0} \cup {i \in 1..Len(q) : i <= p /\ q[i].op = "trailer"} \cup {i \in {Len(q)} : p = i + 1}
LastPoint(q, p, k) == k \in Points(q, p) /\ \A j \in Points(q, p) : j <= k

\* The operations with one message more.
LEMMA OpsInStep ==
    ASSUME NEW q \in Seq(Message)
    PROVE  /\ OpsIn(q, 0) = <<>>
           /\ \A k \in 0..Len(q) : OpsIn(q, k) \in Seq(Message)
           /\ \A k \in Nat : k + 1 <= Len(q) =>
                OpsIn(q, k + 1) = IF q[k + 1].op \in {"header", "trailer"} THEN OpsIn(q, k)
                                  ELSE Append(OpsIn(q, k), q[k + 1])
<1>1. Len(q) \in Nat /\ DOMAIN q = 1..Len(q)
  OBVIOUS
<1>2. ASSUME NEW k \in 0..Len(q)
      PROVE  OpsIn(q, k) \in Seq(Message) /\ Len(OpsIn(q, k)) = Cardinality(OpsAt(q, k))
  <2> DEFINE K == OpsAt(q, k)
  <2>1. \A j \in K : j \in DOMAIN q
    BY <1>1 DEF OpsAt
  <2> HIDE DEF K
  <2>2. Selected(q, K) \in Seq(Message) /\ Len(Selected(q, K)) = Cardinality(K)
    BY <2>1, SelectedProperties
  <2>. QED BY <2>2 DEF OpsIn, K
<1>3. OpsIn(q, 0) = <<>>
  <2>1. OpsAt(q, 0) = {}
    BY DEF OpsAt
  <2>2. Cardinality(OpsAt(q, 0)) = 0
    BY <2>1, FS_EmptySet
  <2>3. Len(OpsIn(q, 0)) = 0 /\ OpsIn(q, 0) \in Seq(Message)
    BY <1>1, <1>2, <2>2
  <2>. QED BY <2>3
<1>4. ASSUME NEW k \in Nat, k + 1 <= Len(q)
      PROVE  OpsIn(q, k + 1) = IF q[k + 1].op \in {"header", "trailer"} THEN OpsIn(q, k)
                               ELSE Append(OpsIn(q, k), q[k + 1])
  <2>1. CASE q[k + 1].op \in {"header", "trailer"}
    <3>1. ASSUME NEW i \in 1..(k + 1), q[i].op \notin {"header", "trailer"} PROVE i \in 1..k
      <4>1. i # k + 1
        BY <2>1, <3>1
      <4>. QED BY <4>1
    <3>2. OpsAt(q, k + 1) = OpsAt(q, k)
      BY <3>1 DEF OpsAt
    <3>. QED BY <2>1, <3>2 DEF OpsIn
  <2>2. CASE q[k + 1].op \notin {"header", "trailer"}
    <3> DEFINE K == OpsAt(q, k)
    <3>1. (\A j \in K : j \in 1..k) /\ k + 1 \in 1..Len(q)
      BY <1>4 DEF OpsAt
    <3>2. OpsAt(q, k + 1) = K \cup {k + 1}
      <4>1. \A i : i \in 1..(k + 1) <=> i \in 1..k \/ i = k + 1
        OBVIOUS
      <4>. QED BY <2>2, <4>1 DEF OpsAt
    <3> HIDE DEF K
    <3>3. Selected(q, K \cup {k + 1}) = Append(Selected(q, K), q[k + 1])
      BY <3>1, SelectedAppend
    <3>. QED BY <2>2, <3>2, <3>3 DEF OpsIn, K
  <2>. QED BY <2>1, <2>2
<1>. QED BY <1>2, <1>3, <1>4

\* Where a call may have committed, before its first message, with one message
\* more, and after its half-close.
LEMMA PointsStep ==
    ASSUME NEW q \in Seq(Message)
    PROVE  /\ LastPoint(q, 0, 0) /\ \A p \in Nat : 0 \in Points(q, p)
           /\ \A p \in Nat : p + 1 <= Len(q) =>
                /\ \A k \in Points(q, p) : k \in Points(q, p + 1)
                /\ q[p + 1].op # "trailer" => Points(q, p + 1) = Points(q, p)
                /\ q[p + 1].op = "trailer" => LastPoint(q, p + 1, p + 1)
           /\ \A k \in Points(q, Len(q)) : k \in Points(q, Len(q) + 1)
           /\ Len(q) \in Points(q, Len(q) + 1)
           /\ \A p \in Nat : \A k \in Points(q, p) : k \in 0..Len(q)
<1>1. Len(q) \in Nat
  OBVIOUS
<1>2. Points(q, 0) = {0}
  <2>1. (\A i \in 1..Len(q) : ~(i <= 0)) /\ 0 # Len(q) + 1
    BY <1>1
  <2>. QED BY <2>1 DEF Points
<1>3. LastPoint(q, 0, 0)
  BY <1>2 DEF LastPoint
<1>4. ASSUME NEW p \in Nat, p + 1 <= Len(q)
      PROVE  /\ \A k \in Points(q, p) : k \in Points(q, p + 1)
             /\ q[p + 1].op # "trailer" => Points(q, p + 1) = Points(q, p)
             /\ q[p + 1].op = "trailer" => LastPoint(q, p + 1, p + 1)
  <2>1. p # Len(q) + 1 /\ p + 1 # Len(q) + 1 /\ p + 1 \in 1..Len(q)
    BY <1>1, <1>4
  <2>2. \A i \in 1..Len(q) : i <= p + 1 <=> i <= p \/ i = p + 1
    BY <1>1
  <2>3. \A k : k \in Points(q, p + 1) <=> k \in Points(q, p) \/ (k = p + 1 /\ q[p + 1].op = "trailer")
    BY <2>1, <2>2 DEF Points
  <2>4. \A k \in Points(q, p + 1) : k <= p + 1
    BY <1>1, <2>1 DEF Points
  <2>. QED BY <2>3, <2>4 DEF LastPoint
<1>5. (\A k \in Points(q, Len(q)) : k \in Points(q, Len(q) + 1)) /\ Len(q) \in Points(q, Len(q) + 1)
  <2>1. Len(q) # Len(q) + 1 /\ \A i \in 1..Len(q) : i <= Len(q) + 1 /\ i <= Len(q)
    BY <1>1
  <2>. QED BY <2>1 DEF Points
<1>6. \A p \in Nat : 0 \in Points(q, p) /\ \A k \in Points(q, p) : k \in 0..Len(q)
  BY <1>1 DEF Points
<1>. QED BY <1>3, <1>4, <1>5, <1>6

\* The operations are those up to the last point at which s may have committed.
UpToLast(s) ==
    \E k \in Nat : LastPoint(script[s], pos[s], k) /\ Msgs(history, s) = OpsIn(script[s], k)

\* What an open call has committed and what its session holds, together, are
\* the operations of the messages it has handled; a broken session holds nothing.
OpenTruth(s) ==
    LET ops == work[conn[s]].ops
    IN  /\ pos[s] <= Len(script[s]) /\ UpToLast(s)
        /\ \A i \in 1..Len(ops) : ops[i].s = s
        /\ ~broken[conn[s]] => Msgs(history, s) \o Msgs(ops, s) = OpsIn(script[s], pos[s])
        /\ broken[conn[s]] => ops = <<>>

\* What an ended call has committed, by its answer.
EndTruth(s) ==
    /\ reply[s] = "success" => Msgs(history, s) = OpsIn(script[s], Len(script[s]))
    /\ reply[s] \in {"failure", "cancelled"} => UpToLast(s)
    /\ reply[s] = "error" =>
          \E k \in Points(script[s], pos[s]) : Msgs(history, s) = OpsIn(script[s], k)

CallTruth(s) ==
    /\ st[s] = "idle" => pos[s] = 0 /\ Msgs(history, s) = <<>>
    /\ st[s] = "open" => OpenTruth(s)
    /\ st[s] \in {"closed", "cancelled"} => EndTruth(s) /\ reply[s] # "none"
    /\ st[s] \in {"idle", "open"} => reply[s] = "none"

Truth == \A s \in Streams : CallTruth(s)

\* The data of a call.
LEMMA CallFacts ==
    ASSUME Types, NEW s \in Streams
    PROVE  /\ script[s] \in Seq(Message) /\ pos[s] \in Nat /\ history \in Seq(Op)
           /\ Msgs(history, s) \in Seq(Message)
           /\ st[s] \in {"idle", "open", "closed", "cancelled"}
           /\ st[s] = "open" => conn[s] \in Conns
           /\ \A c \in Conns : work[c].ops \in Seq(Op) /\ Msgs(work[c].ops, s) \in Seq(Message)
           /\ NoWork.ops = <<>> /\ Msgs(<<>>, s) = <<>>
<1>1. /\ script[s] \in Seq(Message) /\ pos[s] \in Nat /\ history \in Seq(Op)
      /\ st[s] \in {"idle", "open", "closed", "cancelled"}
      /\ st[s] = "open" => conn[s] \in Conns
  BY DEF Types, CallTypes, DbTypes, Calls
<1>2. ASSUME NEW c \in Conns PROVE work[c].ops \in Seq(Op) /\ Msgs(work[c].ops, s) \in Seq(Message)
  <2>1. work[c] \in Work
    BY DEF Types, DbTypes
  <2>2. work[c].ops \in Seq(Op)
    BY <2>1, WorkFacts
  <2>. QED BY <2>2, MsgsType
<1>3. NoWork.ops = <<>>
  BY NoSession
<1>4. Msgs(<<>>, s) = <<>>
  <2>1. <<>> \in Seq(Op) /\ \A i \in 1..Len(<<>>) : FALSE
    OBVIOUS
  <2>. QED BY <2>1, MsgsType
<1>. QED BY <1>1, <1>2, <1>3, <1>4, MsgsType

\* A step that concerns other calls leaves the truth of s alone.
LEMMA TruthApart ==
    ASSUME Types, NEW s \in Streams, CallTruth(s),
           st'[s] = st[s], reply'[s] = reply[s], script'[s] = script[s], pos'[s] = pos[s],
           Msgs(history', s) = Msgs(history, s),
           st[s] = "open" => /\ conn'[s] = conn[s]
                             /\ \/ work'[conn[s]] = work[conn[s]] /\ broken'[conn[s]] = broken[conn[s]]
                                \/ work'[conn[s]] = NoWork /\ broken'[conn[s]]
    PROVE  CallTruth(s)'
<1>1. UpToLast(s) => UpToLast(s)'
  BY DEF UpToLast
<1>2. EndTruth(s) => EndTruth(s)'
  BY <1>1 DEF EndTruth
<1>3. ASSUME st[s] = "open" PROVE OpenTruth(s)'
  <2>1. OpenTruth(s)
    BY <1>3 DEF CallTruth
  <2>2. CASE work'[conn[s]] = work[conn[s]] /\ broken'[conn[s]] = broken[conn[s]]
    BY <1>1, <1>3, <2>1, <2>2 DEF OpenTruth
  <2>3. CASE work'[conn[s]] = NoWork /\ broken'[conn[s]]
    <3>1. NoWork.ops = <<>> /\ \A i \in 1..Len(<<>>) : FALSE
      BY NoSession
    <3>. QED BY <1>1, <1>3, <2>1, <2>3, <3>1 DEF OpenTruth
  <2>. QED BY <1>3, <2>2, <2>3
<1>. QED BY <1>2, <1>3 DEF CallTruth

\* What a commit of an open call adds to the history: its own operations.
LEMMA TruthCommit ==
    ASSUME Types, NEW s \in Streams, OpenTruth(s), st[s] = "open", Commits(conn[s])
    PROVE  /\ \A u \in Streams : u # s => Msgs(history', u) = Msgs(history, u)
           /\ ~broken[conn[s]] => Msgs(history', s) = OpsIn(script[s], pos[s])
           /\ broken[conn[s]] => Msgs(history', s) = Msgs(history, s)
<1> DEFINE c == conn[s]
           p == history
           q == work[c].ops
<1>1. c \in Conns /\ p \in Seq(Op) /\ q \in Seq(Op) /\ history' = p \o q
  BY CallFacts, CommitLog
<1>2. (\A i \in 1..Len(q) : q[i].s = s) /\ (broken[c] => q = <<>>)
      /\ (~broken[c] => Msgs(p, s) \o Msgs(q, s) = OpsIn(script[s], pos[s]))
  BY DEF OpenTruth
<1> HIDE DEF p, q
<1>3. \A u : Msgs(history', u) = Msgs(p, u) \o Msgs(q, u)
  BY <1>1, MsgsJoin
<1>4. ASSUME NEW u, Msgs(q, u) = <<>> PROVE Msgs(history', u) = Msgs(p, u)
  <2> DEFINE x == Msgs(p, u)
  <2>1. x \in Seq(Message) /\ Msgs(history', u) = x \o <<>>
    BY <1>1, <1>3, <1>4, MsgsType
  <2> HIDE DEF x
  <2>2. x \o <<>> = x
    BY <2>1
  <2>. QED BY <2>1, <2>2 DEF x
<1>5. ASSUME NEW u \in Streams, u # s PROVE Msgs(history', u) = Msgs(p, u)
  <2>1. Msgs(q, u) = <<>>
    BY <1>1, <1>2, <1>5, MsgsType
  <2>. QED BY <1>4, <2>1
<1>6. ASSUME broken[c] PROVE Msgs(history', s) = Msgs(p, s)
  <2>1. Msgs(q, s) = <<>>
    BY <1>2, <1>6, CallFacts
  <2>. QED BY <1>4, <2>1
<1>. QED BY <1>2, <1>3, <1>5, <1>6 DEF p, q

\* A step of s leaves the other calls as they are, and their operations where
\* they were.
Elsewhere(s) ==
    \A u \in Streams \ {s} :
        /\ pos'[u] = pos[u] /\ Msgs(history', u) = Msgs(history, u)
        /\ st[u] = "open" => /\ conn'[u] = conn[u]
                             /\ \/ work'[conn[u]] = work[conn[u]] /\ broken'[conn[u]] = broken[conn[u]]
                                \/ work'[conn[u]] = NoWork /\ broken'[conn[u]]

\* That is what a step on the session of s alone does.
LEMMA SessionElsewhere ==
    ASSUME Types, Private, Truth, NEW s \in Streams, st[s] = "open", UNCHANGED conn,
           \A u \in Streams : u # s => pos'[u] = pos[u],
           broken' \in {broken, [broken EXCEPT ![conn[s]] = TRUE]},
           UNCHANGED dbVars \/ Commits(conn[s]) \/ RollsBack(conn[s])
    PROVE  Elsewhere(s)
<1>1. conn[s] \in Conns /\ OpenTruth(s)
  BY CallFacts DEF Truth, CallTruth
<1>2. ASSUME NEW u \in Streams, u # s PROVE Msgs(history', u) = Msgs(history, u)
  <2>1. CASE Commits(conn[s])
    BY <1>1, <1>2, <2>1, TruthCommit
  <2>2. CASE UNCHANGED dbVars \/ RollsBack(conn[s])
    BY <2>2 DEF dbVars, RollsBack
  <2>. QED BY <2>1, <2>2
<1>3. ASSUME NEW u \in Streams, u # s, st[u] = "open"
      PROVE  work'[conn[u]] = work[conn[u]] /\ broken'[conn[u]] = broken[conn[u]]
  <2>1. conn[u] \in Conns /\ conn[u] # conn[s]
    BY <1>3, CallFacts DEF Private, OpenApart
  <2>2. broken'[conn[u]] = broken[conn[u]]
    BY <2>1 DEF Types, CallTypes
  <2>3. work'[conn[u]] = work[conn[u]]
    <3>1. CASE UNCHANGED dbVars
      BY <3>1 DEF dbVars
    <3>2. CASE Commits(conn[s]) \/ RollsBack(conn[s])
      BY <1>1, <2>1, <3>2, SessionEnds
    <3>. QED BY <3>1, <3>2
  <2>. QED BY <2>2, <2>3
<1>. QED BY <1>2, <1>3 DEF Elsewhere

\* The other calls keep their truth.
LEMMA TruthElsewhere ==
    ASSUME Types, Truth, NEW s \in Streams, Elsewhere(s), UNCHANGED script,
           NEW u \in Streams, u # s, st'[u] = st[u], reply'[u] = reply[u]
    PROVE  CallTruth(u)'
<1>1. /\ pos'[u] = pos[u] /\ Msgs(history', u) = Msgs(history, u)
      /\ st[u] = "open" => /\ conn'[u] = conn[u]
                           /\ \/ work'[conn[u]] = work[conn[u]] /\ broken'[conn[u]] = broken[conn[u]]
                              \/ work'[conn[u]] = NoWork /\ broken'[conn[u]]
  BY DEF Elsewhere
<1>. QED BY <1>1, TruthApart DEF Truth

\* The answer a becomes true of s.
Justified(s, a) ==
    /\ a = "success" => Msgs(history', s) = OpsIn(script[s], Len(script[s]))
    /\ a \in {"failure", "cancelled"} =>
          \E k \in Nat : LastPoint(script[s], pos'[s], k) /\ Msgs(history', s) = OpsIn(script[s], k)
    /\ a = "error" => \E k \in Points(script[s], pos'[s]) : Msgs(history', s) = OpsIn(script[s], k)

\* A call that ends with a true answer.
LEMMA TruthAnswers ==
    ASSUME Types, Truth, NEW s \in Streams, st[s] \in {"idle", "open"}, UNCHANGED script, Elsewhere(s),
           NEW a \in {"success", "failure", "error", "cancelled"}, Answers(s, a), Justified(s, a)
    PROVE  Truth'
<1>1. reply[s] = "none"
  BY DEF Truth, CallTruth
<1>2. /\ st'[s] \in {"closed", "cancelled"} /\ reply'[s] = a
      /\ \A u \in Streams : u # s => st'[u] = st[u] /\ reply'[u] = reply[u]
  BY <1>1 DEF Types, CallTypes, Answers
<1>3. EndTruth(s)'
  BY <1>2 DEF EndTruth, UpToLast, Justified
<1>4. CallTruth(s)'
  BY <1>2, <1>3 DEF CallTruth
<1>5. ASSUME NEW u \in Streams, u # s PROVE CallTruth(u)'
  BY <1>2, <1>5, TruthElsewhere
<1>. QED BY <1>4, <1>5 DEF Truth

\* A call begins on a session without work.
LEMMA TruthBegin ==
    ASSUME Types, Private, Truth, NEW s \in Streams, Begin(s) \/ BeginTimesOut(s)
    PROVE  Truth'
<1>1. /\ st[s] = "idle" /\ UNCHANGED <<script, pos>> /\ UNCHANGED <<dbVars, broken>> /\ TakesConnection
      /\ conn' = conn \/ conn' = [conn EXCEPT ![s] = Head(idle)]
  BY DEF Begin, BeginTimesOut
<1>2. history' = history /\ work' = work /\ broken' = broken /\ script' = script /\ pos' = pos
  BY <1>1 DEF dbVars
<1>3. \A u \in Streams : u # s => conn'[u] = conn[u]
  BY <1>1 DEF Types, CallTypes
<1>4. Elsewhere(s)
  BY <1>2, <1>3 DEF Elsewhere
<1>5. pos[s] = 0 /\ Msgs(history, s) = <<>> /\ reply[s] = "none"
  BY <1>1 DEF Truth, CallTruth
<1>6. LastPoint(script[s], 0, 0) /\ 0 \in Points(script[s], 0) /\ OpsIn(script[s], 0) = <<>>
  BY CallFacts, PointsStep, OpsInStep
<1>7. CASE Answers(s, "error")
  <2>1. Justified(s, "error")
    BY <1>2, <1>5, <1>6 DEF Justified
  <2>. QED BY <1>1, <1>2, <1>4, <1>7, <2>1, TruthAnswers
<1>8. CASE st' = [st EXCEPT ![s] = "open"] /\ UNCHANGED reply /\ conn' = [conn EXCEPT ![s] = Head(idle)]
  <2>1. st'[s] = "open" /\ conn'[s] = Head(idle) /\ \A u \in Streams : u # s => st'[u] = st[u]
    BY <1>8 DEF Types, CallTypes
  <2>2. work[Head(idle)] = NoWork
    BY <1>1, QueueTaken DEF Types, Private, IdleFree
  <2>3. NoWork.ops = <<>> /\ Msgs(<<>>, s) = <<>> /\ \A i \in 1..Len(<<>>) : FALSE
    BY CallFacts
  <2>4. UpToLast(s)'
    BY <1>2, <1>5, <1>6 DEF UpToLast
  <2>5. <<>> \o <<>> = <<>> /\ 0 <= Len(script[s])
    BY CallFacts
  <2>6. OpenTruth(s)'
    BY <1>2, <1>5, <1>6, <2>1, <2>2, <2>3, <2>4, <2>5 DEF OpenTruth
  <2>7. CallTruth(s)'
    BY <1>5, <1>8, <2>1, <2>6 DEF CallTruth
  <2>8. ASSUME NEW u \in Streams, u # s PROVE CallTruth(u)'
    BY <1>2, <1>4, <1>8, <2>1, <2>8, TruthElsewhere
  <2>. QED BY <2>7, <2>8 DEF Truth
<1>. QED BY <1>7, <1>8 DEF Begin, BeginTimesOut

\* One message more: what the operations and the last point become.
LEMMA TruthConsumed ==
    ASSUME Types, Truth, NEW s \in Streams, OnNextBegins(s)
    PROVE  /\ st[s] = "open" /\ conn[s] \in Conns /\ OpenTruth(s) /\ reply[s] = "none"
           /\ UNCHANGED <<script, conn>> /\ \A u \in Streams : u # s => pos'[u] = pos[u]
           /\ pos'[s] \in Nat /\ pos'[s] <= Len(script[s]) /\ Msg(s) \in Message
           /\ OpsIn(script[s], pos'[s]) =
                IF Msg(s).op \in {"header", "trailer"} THEN OpsIn(script[s], pos[s])
                ELSE Append(OpsIn(script[s], pos[s]), Msg(s))
           /\ \A k \in Points(script[s], pos[s]) : k \in Points(script[s], pos'[s])
           /\ Msg(s).op # "trailer" => \A k : LastPoint(script[s], pos[s], k) => LastPoint(script[s], pos'[s], k)
           /\ Msg(s).op = "trailer" => LastPoint(script[s], pos'[s], pos'[s])
<1> DEFINE q == script[s]
           p == pos[s]
<1>1. /\ st[s] = "open" /\ conn[s] \in Conns /\ UNCHANGED <<script, conn>>
      /\ \A u \in Streams : u # s => pos'[u] = pos[u]
  BY MessageConsumed
<1>2. OpenTruth(s) /\ reply[s] = "none"
  BY <1>1 DEF Truth, CallTruth
<1>3. HasNext(s) /\ pos'[s] = p + 1
  BY DEF OnNextBegins, Types, CallTypes
<1>4. Msg(s) \in Message /\ p \in Nat /\ p + 1 \in 1..Len(q) /\ q \in Seq(Message) /\ Msg(s) = q[p + 1]
  BY <1>3, NextMessage, CallFacts DEF Msg
<1> HIDE DEF p, q
<1>5. p + 1 <= Len(q)
  BY <1>4
<1>6. OpsIn(q, p + 1) = IF Msg(s).op \in {"header", "trailer"} THEN OpsIn(q, p) ELSE Append(OpsIn(q, p), Msg(s))
  BY <1>4, <1>5, OpsInStep
<1>7. /\ \A k \in Points(q, p) : k \in Points(q, p + 1)
      /\ Msg(s).op # "trailer" => Points(q, p + 1) = Points(q, p)
      /\ Msg(s).op = "trailer" => LastPoint(q, p + 1, p + 1)
  BY <1>4, <1>5, PointsStep
<1>8. Msg(s).op # "trailer" => \A k : LastPoint(q, p, k) => LastPoint(q, p + 1, k)
  BY <1>7 DEF LastPoint
<1>9. p + 1 \in Nat
  BY <1>4
<1>. QED BY <1>1, <1>2, <1>3, <1>4, <1>5, <1>6, <1>7, <1>8, <1>9 DEF p, q

\* A sequence in a row with one that grows.
LEMMA JoinAppend ==
    ASSUME NEW S, NEW x \in Seq(S), NEW y \in Seq(S), NEW e \in S
    PROVE  x \o Append(y, e) = Append(x \o y, e)
<1>1. x \o y \in Seq(S) /\ Len(x \o y) = Len(x) + Len(y) /\ Append(y, e) \in Seq(S)
      /\ Len(Append(y, e)) = Len(y) + 1 /\ Len(x) \in Nat /\ Len(y) \in Nat
  OBVIOUS
<1> DEFINE z == Append(x \o y, e)
<1>2. z \in Seq(S) /\ Len(z) = Len(x) + Len(Append(y, e))
  BY <1>1
<1>3. \A m \in 1..Len(x) : z[m] = x[m]
  BY <1>1
<1>4. ASSUME NEW m \in 1..Len(Append(y, e)) PROVE z[Len(x) + m] = Append(y, e)[m]
  <2>1. CASE m \in 1..Len(y)
    BY <1>1, <2>1
  <2>2. CASE m = Len(y) + 1
    BY <1>1, <2>2
  <2>. QED BY <1>1, <2>1, <2>2
<1> HIDE DEF z
<1>5. z = x \o Append(y, e)
  BY <1>1, <1>2, <1>3, <1>4, JoinIs
<1>. QED BY <1>5 DEF z

\* The messages of a call with one operation of its own more.
LEMMA MsgsAppend ==
    ASSUME NEW q \in Seq(Op), NEW e \in Op
    PROVE  Msgs(Append(q, e), e.s) = Append(Msgs(q, e.s), e.msg)
<1> DEFINE r == <<e>>
           s == e.s
           x == Msgs(q, s)
<1>1. r \in Seq(Op) /\ Len(r) = 1 /\ r[1] = e /\ Append(q, e) = q \o r /\ e.msg \in Message
  BY MessageFacts
<1>2. Mine(r, s) = {1}
  <2>1. \A i : i \in 1..1 <=> i = 1
    OBVIOUS
  <2> HIDE DEF r
  <2>. QED BY <1>1, <2>1 DEF Mine
<1>3. Cardinality({1}) = 1
  BY FS_Singleton
<1>4. Nth({1}, 1) = 1
  <2>1. (\A j \in {1} : j \in 1..1) /\ 1 \in Nat /\ 1 \in 1..Cardinality({1})
    BY <1>3
  <2>. QED BY <2>1, NthExists
<1>5. Msgs(r, s) \in Seq(Message) /\ Len(Msgs(r, s)) = 1 /\ Msgs(r, s)[1] = e.msg
  <2> HIDE DEF r, s
  <2>1. Msgs(r, s) \in Seq(Message) /\ Len(Msgs(r, s)) = 1
    BY <1>1, <1>2, <1>3, MsgsType
  <2>2. Msgs(r, s) = [n \in 1..1 |-> r[Nth({1}, n)].msg]
    BY <1>2, <1>3 DEF Msgs
  <2>3. 1 \in 1..1
    OBVIOUS
  <2>. QED BY <1>1, <1>4, <2>1, <2>2, <2>3
<1>6. Msgs(q \o r, s) = x \o Msgs(r, s) /\ x \in Seq(Message)
  <2> HIDE DEF r, s
  <2>. QED BY <1>1, MsgsJoin, MsgsType
<1> DEFINE y == Msgs(r, s)
           m == e.msg
<1> HIDE DEF x, y, r, s, m
<1>7. x \o y = Append(x, m)
  <2>1. x \in Seq(Message) /\ y \in Seq(Message) /\ Len(y) = 1 /\ y[1] = m /\ m \in Message
    BY <1>1, <1>5, <1>6 DEF m, y
  <2>2. y = <<m>>
    BY <2>1
  <2>. QED BY <2>1, <2>2
<1>. QED BY <1>1, <1>6, <1>7 DEF x, y, r, s, m

\* An operation that was done is in the session's work.
LEMMA TruthOnNext ==
    ASSUME LogState, Truth, NEW s \in Streams, OnNext(s)
    PROVE  Truth'
<1> DEFINE c == conn[s]
           q == work[c].ops
           e == [s |-> s, id |-> Id(s), msg |-> Msg(s)]
           h == history
<1>0. Types /\ Private
  BY DEF LogState
<1>1. OnNextBegins(s) /\ ~broken[c] /\ Msg(s).op # "trailer" /\ UNCHANGED <<st, reply, broken, history>>
  BY DEF OnNext
<1>2. /\ st[s] = "open" /\ c \in Conns /\ OpenTruth(s) /\ reply[s] = "none"
      /\ UNCHANGED <<script, conn>> /\ \A u \in Streams : u # s => pos'[u] = pos[u]
      /\ pos'[s] <= Len(script[s]) /\ Msg(s) \in Message
      /\ OpsIn(script[s], pos'[s]) =
            IF Msg(s).op \in {"header", "trailer"} THEN OpsIn(script[s], pos[s])
            ELSE Append(OpsIn(script[s], pos[s]), Msg(s))
      /\ \A k : LastPoint(script[s], pos[s], k) => LastPoint(script[s], pos'[s], k)
  BY <1>0, <1>1, TruthConsumed
<1>3. /\ e \in Op /\ q \in Seq(Op) /\ \A d \in Conns : d # c => work'[d] = work[d]
      /\ \/ Msg(s).op = "header" /\ work'[c].ops = q
         \/ Msg(s).op # "header" /\ work'[c].ops = Append(q, e)
  BY <1>0, OnNextLog
<1>4. Elsewhere(s)
  <2> SUFFICES ASSUME NEW u \in Streams, u # s, st[u] = "open" PROVE work'[conn[u]] = work[conn[u]]
    BY <1>1, <1>2 DEF Elsewhere
  <2>1. conn[u] # c /\ conn[u] \in Conns
    BY <1>0, <1>2, CallFacts DEF Private, OpenApart
  <2>. QED BY <1>3, <2>1
<1>5. UpToLast(s)'
  BY <1>1, <1>2 DEF UpToLast, OpenTruth
<1>6. /\ \A i \in 1..Len(q) : q[i].s = s
      /\ Msgs(h, s) \o Msgs(q, s) = OpsIn(script[s], pos[s])
  BY <1>1, <1>2 DEF OpenTruth
<1>7. e.s = s /\ e.msg = Msg(s)
  OBVIOUS
<1> HIDE DEF e, q, h
<1>8. /\ \A i \in 1..Len(work'[c].ops) : work'[c].ops[i].s = s
      /\ Msgs(h, s) \o Msgs(work'[c].ops, s) = OpsIn(script[s], pos'[s])
  <2>1. CASE Msg(s).op = "header" /\ work'[c].ops = q
    BY <1>2, <1>6, <2>1
  <2>2. CASE Msg(s).op # "header" /\ work'[c].ops = Append(q, e)
    <3>1. ASSUME NEW i \in 1..Len(Append(q, e)) PROVE Append(q, e)[i].s = s
      BY <1>3, <1>6, <1>7, AppendElement
    <3>2. Msgs(Append(q, e), s) = Append(Msgs(q, s), Msg(s))
      BY <1>3, <1>7, MsgsAppend
    <3>3. Msgs(h, s) \in Seq(Message) /\ Msgs(q, s) \in Seq(Message)
      BY <1>0, <1>2, CallFacts DEF h, q
    <3>4. Msgs(h, s) \o Append(Msgs(q, s), Msg(s)) = Append(Msgs(h, s) \o Msgs(q, s), Msg(s))
      BY <1>2, <3>3, JoinAppend
    <3>5. OpsIn(script[s], pos'[s]) = Append(OpsIn(script[s], pos[s]), Msg(s))
      BY <1>1, <1>2, <2>2
    <3>. QED BY <1>6, <2>2, <3>1, <3>2, <3>4, <3>5
  <2>. QED BY <1>3, <2>1, <2>2
<1>9. OpenTruth(s)'
  BY <1>1, <1>2, <1>5, <1>8 DEF OpenTruth, h, c
<1>10. CallTruth(s)'
  BY <1>1, <1>2, <1>9 DEF CallTruth
<1>11. ASSUME NEW u \in Streams, u # s PROVE CallTruth(u)'
  BY <1>0, <1>1, <1>2, <1>4, <1>11, TruthElsewhere
<1>. QED BY <1>10, <1>11 DEF Truth

\* A trailer commits everything so far.
LEMMA TruthCommits ==
    ASSUME Types, Private, Truth, NEW s \in Streams, OnNextCommits(s)
    PROVE  Truth'
<1> DEFINE c == conn[s]
           x == OpsIn(script[s], pos[s])
<1>1. OnNextBegins(s) /\ ~broken[c] /\ Msg(s).op = "trailer" /\ Commits(c) /\ UNCHANGED <<broken, st, reply>>
  BY DEF OnNextCommits
<1>2. /\ st[s] = "open" /\ c \in Conns /\ OpenTruth(s) /\ reply[s] = "none"
      /\ UNCHANGED <<script, conn>> /\ \A u \in Streams : u # s => pos'[u] = pos[u]
      /\ pos'[s] \in Nat /\ pos'[s] <= Len(script[s])
      /\ OpsIn(script[s], pos'[s]) = x
      /\ LastPoint(script[s], pos'[s], pos'[s])
  BY <1>1, TruthConsumed
<1>3. Msgs(history', s) = x
  BY <1>1, <1>2, TruthCommit
<1>4. UpToLast(s)'
  BY <1>2, <1>3 DEF UpToLast
<1>5. work'[c].ops = <<>> /\ Msgs(<<>>, s) = <<>> /\ \A i \in 1..Len(<<>>) : FALSE
  BY <1>1, <1>2, SessionEnds, NoSession, CallFacts
<1>6. x \o <<>> = x
  <2>1. x \in Seq(Message)
    BY <1>2, CallFacts, OpsInStep DEF OpenTruth
  <2> HIDE DEF x
  <2>. QED BY <2>1
<1> HIDE DEF x
<1>7. OpenTruth(s)'
  BY <1>1, <1>2, <1>3, <1>4, <1>5, <1>6 DEF OpenTruth
<1>8. CallTruth(s)'
  BY <1>1, <1>2, <1>7 DEF CallTruth
<1>9. Elsewhere(s)
  BY <1>1, <1>2, SessionElsewhere
<1>10. ASSUME NEW u \in Streams, u # s PROVE CallTruth(u)'
  BY <1>1, <1>2, <1>9, <1>10, TruthElsewhere
<1>. QED BY <1>8, <1>10 DEF Truth

\* A call that ends without a commit has committed up to its last trailer.
LEMMA TruthDropped ==
    ASSUME Types, Private, Truth, NEW s \in Streams, st[s] = "open", UNCHANGED <<script, conn, broken>>,
           \A u \in Streams : u # s => pos'[u] = pos[u],
           UNCHANGED dbVars \/ RollsBack(conn[s]),
           \A k \in Points(script[s], pos[s]) : k \in Points(script[s], pos'[s]),
           NEW a \in {"failure", "error", "cancelled"}, Answers(s, a),
           a = "error" \/ \A k : LastPoint(script[s], pos[s], k) => LastPoint(script[s], pos'[s], k)
    PROVE  Truth'
<1>1. UpToLast(s)
  BY DEF Truth, CallTruth, OpenTruth
<1>2. PICK k \in Nat : LastPoint(script[s], pos[s], k) /\ Msgs(history, s) = OpsIn(script[s], k)
  BY <1>1 DEF UpToLast
<1>3. history' = history
  BY DEF dbVars, RollsBack
<1>4. k \in Points(script[s], pos'[s])
  BY <1>2 DEF LastPoint
<1>5. Justified(s, a)
  BY <1>2, <1>3, <1>4 DEF Justified
<1>6. Elsewhere(s)
  BY SessionElsewhere
<1>. QED BY <1>5, <1>6, TruthAnswers

\* A connection that breaks during a commit has committed everything so far or
\* nothing since the last trailer.
LEMMA TruthCommitThrows ==
    ASSUME Types, Private, Truth, NEW s \in Streams, st[s] = "open", UNCHANGED <<script, conn>>,
           \A u \in Streams : u # s => pos'[u] = pos[u], CommitThrows(s),
           \A k \in Points(script[s], pos[s]) : k \in Points(script[s], pos'[s]),
           \E k \in Points(script[s], pos'[s]) : OpsIn(script[s], k) = OpsIn(script[s], pos[s])
    PROVE  Truth'
<1>1. UpToLast(s) /\ OpenTruth(s)
  BY DEF Truth, CallTruth, OpenTruth
<1>2. PICK k \in Nat : LastPoint(script[s], pos[s], k) /\ Msgs(history, s) = OpsIn(script[s], k)
  BY <1>1 DEF UpToLast
<1>3. k \in Points(script[s], pos'[s])
  BY <1>2 DEF LastPoint
<1>4. /\ Commits(conn[s]) \/ RollsBack(conn[s])
      /\ Answers(s, "error") /\ broken' = [broken EXCEPT ![conn[s]] = TRUE]
  BY DEF CommitThrows
<1>5. \E j \in Points(script[s], pos'[s]) : Msgs(history', s) = OpsIn(script[s], j)
  <2>1. CASE RollsBack(conn[s])
    BY <1>2, <1>3, <2>1 DEF RollsBack
  <2>2. CASE Commits(conn[s])
    <3>1. Msgs(history', s) = OpsIn(script[s], pos[s]) \/ Msgs(history', s) = Msgs(history, s)
      BY <1>1, <2>2, TruthCommit
    <3>. QED BY <1>2, <1>3, <3>1
  <2>. QED BY <1>4, <2>1, <2>2
<1>6. Justified(s, "error")
  BY <1>5 DEF Justified
<1>7. Elsewhere(s)
  BY <1>4, SessionElsewhere
<1>. QED BY <1>4, <1>6, <1>7, TruthAnswers

\* The half-close of an open call.
LEMMA TruthHalfClosed ==
    ASSUME Types, Truth, NEW s \in Streams, HalfClosed(s), ~late'
    PROVE  /\ st[s] = "open" /\ conn[s] \in Conns /\ OpenTruth(s) /\ UNCHANGED <<script, conn>>
           /\ \A u \in Streams : u # s => pos'[u] = pos[u]
           /\ pos[s] = Len(script[s])
           /\ \A k \in Points(script[s], pos[s]) : k \in Points(script[s], pos'[s])
           /\ Len(script[s]) \in Points(script[s], pos'[s])
<1>1. /\ conn[s] \in Conns /\ UNCHANGED <<script, conn>> /\ pos'[s] = Len(script[s]) + 1
      /\ \A u \in Streams : u # s => pos'[u] = pos[u]
      /\ st[s] = "open"
  BY HalfCloseConsumed
<1>2. pos[s] = Len(script[s])
  BY <1>1 DEF HalfClosed
<1>3. OpenTruth(s)
  BY <1>1 DEF Truth, CallTruth
<1>4. script[s] \in Seq(Message)
  BY CallFacts
<1>. QED BY <1>1, <1>2, <1>3, <1>4, PointsStep

\* The successful end commits everything.
LEMMA TruthCompleted ==
    ASSUME Types, Private, Truth, NEW s \in Streams, OnCompleted(s), ~late'
    PROVE  Truth'
<1>1. HalfClosed(s) /\ ~broken[conn[s]] /\ Commits(conn[s]) /\ UNCHANGED broken
  BY DEF OnCompleted
<1>2. /\ st[s] = "open" /\ conn[s] \in Conns /\ OpenTruth(s) /\ UNCHANGED <<script, conn>>
      /\ \A u \in Streams : u # s => pos'[u] = pos[u]
      /\ pos[s] = Len(script[s]) /\ Len(script[s]) \in Points(script[s], pos'[s])
  BY <1>1, TruthHalfClosed
<1>3. Msgs(history', s) = OpsIn(script[s], Len(script[s]))
  BY <1>1, <1>2, TruthCommit
<1>4. PICK a \in {"success", "error"} : Answers(s, a)
  BY DEF OnCompleted
<1>5. Justified(s, a)
  BY <1>2, <1>3, <1>4 DEF Justified
<1>6. Elsewhere(s)
  BY <1>1, <1>2, SessionElsewhere
<1>. QED BY <1>2, <1>4, <1>5, <1>6, TruthAnswers

\* A connection that breaks takes the uncommitted operations with it.
LEMMA TruthBreaks ==
    ASSUME Types, Truth, NEW c \in Conns, Breaks(c)
    PROVE  Truth'
<1>1. /\ RollsBack(c) /\ broken' = [broken EXCEPT ![c] = TRUE] /\ history' = history
      /\ UNCHANGED <<st, conn, script, pos, reply>>
  BY DEF Breaks, RollsBack
<1>2. /\ work'[c] = NoWork /\ broken'[c]
      /\ \A d \in Conns : d # c => work'[d] = work[d] /\ broken'[d] = broken[d]
  BY <1>1, SessionEnds DEF Types, CallTypes
<1>3. ASSUME NEW u \in Streams PROVE CallTruth(u)'
  <2>1. st[u] = "open" => conn[u] \in Conns
    BY CallFacts
  <2>2. CallTruth(u)
    BY DEF Truth
  <2>3. /\ st'[u] = st[u] /\ reply'[u] = reply[u] /\ script'[u] = script[u] /\ pos'[u] = pos[u]
        /\ conn'[u] = conn[u] /\ Msgs(history', u) = Msgs(history, u)
    BY <1>1
  <2>4. st[u] = "open" => \/ work'[conn[u]] = work[conn[u]] /\ broken'[conn[u]] = broken[conn[u]]
                          \/ work'[conn[u]] = NoWork /\ broken'[conn[u]]
    BY <1>2, <2>1
  <2>. QED BY <2>2, <2>3, <2>4, TruthApart
<1>. QED BY <1>3 DEF Truth

\* Unless a half-close comes late, every step keeps the truth.
LEMMA TruthStep ==
    ASSUME LogState, Truth, [Next]_vars, ~late'
    PROVE  Truth'
<1>0. Types /\ Private
  BY DEF LogState
<1>1. ASSUME NEW s \in Streams, StatementFails(s) PROVE Truth'
  <2>1. /\ OnNextBegins(s) /\ Msg(s).op # "trailer" /\ UNCHANGED broken /\ RollsBack(conn[s])
        /\ \E a \in {"failure", "error"} : Answers(s, a)
    BY <1>1 DEF StatementFails, OnError
  <2>2. /\ st[s] = "open" /\ UNCHANGED <<script, conn>> /\ \A u \in Streams : u # s => pos'[u] = pos[u]
        /\ \A k \in Points(script[s], pos[s]) : k \in Points(script[s], pos'[s])
        /\ \A k : LastPoint(script[s], pos[s], k) => LastPoint(script[s], pos'[s], k)
    BY <1>0, <2>1, TruthConsumed
  <2>. QED BY <1>0, <2>1, <2>2, TruthDropped
<1>2. ASSUME NEW s \in Streams, OnNextThrows(s) PROVE Truth'
  <2>1. OnNextBegins(s) /\ UNCHANGED <<dbVars, broken>> /\ Answers(s, "error")
    BY <1>2 DEF OnNextThrows
  <2>2. /\ st[s] = "open" /\ UNCHANGED <<script, conn>> /\ \A u \in Streams : u # s => pos'[u] = pos[u]
        /\ \A k \in Points(script[s], pos[s]) : k \in Points(script[s], pos'[s])
    BY <1>0, <2>1, TruthConsumed
  <2>. QED BY <1>0, <2>1, <2>2, TruthDropped
<1>3. ASSUME NEW s \in Streams, ClientCancels(s) PROVE Truth'
  <2>1. st[s] = "open" /\ UNCHANGED <<script, conn, broken, pos>> /\ RollsBack(conn[s]) /\ Answers(s, "cancelled")
    BY <1>3 DEF ClientCancels
  <2>. QED BY <1>0, <2>1, TruthDropped
<1>4. ASSUME NEW s \in Streams, OnNextCommitThrows(s) PROVE Truth'
  <2>1. OnNextBegins(s) /\ Msg(s).op = "trailer" /\ CommitThrows(s)
    BY <1>4 DEF OnNextCommitThrows
  <2>2. /\ st[s] = "open" /\ UNCHANGED <<script, conn>> /\ \A u \in Streams : u # s => pos'[u] = pos[u]
        /\ \A k \in Points(script[s], pos[s]) : k \in Points(script[s], pos'[s])
        /\ LastPoint(script[s], pos'[s], pos'[s])
        /\ OpsIn(script[s], pos'[s]) = OpsIn(script[s], pos[s])
    BY <1>0, <2>1, TruthConsumed
  <2>3. \E k \in Points(script[s], pos'[s]) : OpsIn(script[s], k) = OpsIn(script[s], pos[s])
    BY <2>2 DEF LastPoint
  <2>. QED BY <1>0, <2>1, <2>2, <2>3, TruthCommitThrows
<1>5. ASSUME NEW s \in Streams, OnCompletedThrows(s) PROVE Truth'
  <2>1. HalfClosed(s) /\ CommitThrows(s)
    BY <1>5 DEF OnCompletedThrows
  <2>2. /\ st[s] = "open" /\ UNCHANGED <<script, conn>> /\ \A u \in Streams : u # s => pos'[u] = pos[u]
        /\ \A k \in Points(script[s], pos[s]) : k \in Points(script[s], pos'[s])
        /\ pos[s] \in Points(script[s], pos'[s])
    BY <1>0, <2>1, TruthHalfClosed
  <2>. QED BY <1>0, <2>1, <2>2, TruthCommitThrows
<1>6. ASSUME UNCHANGED vars PROVE Truth'
  <2>1. UNCHANGED <<st, reply, script, pos, history, conn, work, broken>>
    BY <1>6 DEF vars
  <2>. QED BY <1>0, <2>1, TruthApart DEF Truth
<1>. QED BY <1>0, <1>1, <1>2, <1>3, <1>4, <1>5, <1>6, TruthBegin, TruthOnNext, TruthCommits, TruthCompleted,
            TruthBreaks DEF Next, Serves, OnNextFails, OnNextFaults

\* Unless a half-close came late, the answers are true.
LEMMA TruthInv == Spec => [](~late => Truth)
<1>1. ASSUME Init, Types PROVE Truth
  <2> SUFFICES ASSUME NEW s \in Streams PROVE CallTruth(s)
    BY DEF Truth
  <2>1. st[s] = "idle" /\ pos[s] = 0 /\ reply[s] = "none" /\ history = <<>>
    BY <1>1 DEF Init
  <2>2. Msgs(<<>>, s) = <<>>
    BY <1>1, CallFacts
  <2>. QED BY <2>1, <2>2 DEF CallTruth
<1>2. ASSUME Types, ~late => Private, Logged /\ IdsOf, ~late => Truth, [Next]_vars
      PROVE  (~late => Truth)'
  <2> SUFFICES ASSUME ~late' PROVE Truth'
    OBVIOUS
  <2>1. ~late
    BY <1>2, PrivateStep
  <2>2. LogState
    BY <1>2, <2>1 DEF LogState
  <2>. QED BY <1>2, <2>1, <2>2, TruthStep
<1>. QED BY <1>1, <1>2, TypesInv, PrivateInv, LogInv, PTL DEF Spec

\* What Committed, OpsUpTo and CommitPoints are, by the messages and the points.
LEMMA TruthNames ==
    ASSUME Types, NEW s \in Streams
    PROVE  /\ Committed(s) = Msgs(history, s) /\ \A k : OpsUpTo(s, k) = OpsIn(script[s], k)
           /\ CommitPoints(s) = Points(script[s], pos[s])
           /\ \A k : LastPoint(script[s], pos[s], k) => LastTrailer(s) = k
<1>1. history \in Seq(Op) /\ script[s] \in Seq(Message) /\ DOMAIN history = 1..Len(history)
      /\ DOMAIN script[s] = 1..Len(script[s]) /\ pos[s] \in Nat /\ Len(history) \in Nat
  BY CallFacts
<1>2. CommitPoints(s) = Points(script[s], pos[s])
  BY <1>1 DEF CommitPoints, Points
<1>3. \A k : OpsUpTo(s, k) = OpsIn(script[s], k)
  BY DEF OpsUpTo, OpsIn, OpsAt
<1>4. ASSUME NEW k, LastPoint(script[s], pos[s], k) PROVE LastTrailer(s) = k
  <2>1. k \in CommitPoints(s) /\ \A j \in CommitPoints(s) : j <= k
    BY <1>2, <1>4 DEF LastPoint
  <2>2. \A i \in CommitPoints(s) : i \in Nat
    BY <1>1, <1>2, PointsStep
  <2>3. LastTrailer(s) \in CommitPoints(s) /\ \A j \in CommitPoints(s) : j <= LastTrailer(s)
    BY <2>1 DEF LastTrailer
  <2>. QED BY <2>1, <2>2, <2>3
<1>5. Committed(s) = Msgs(history, s)
  <2> DEFINE K == Mine(history, s)
             mine == Selected(history, K)
  <2>1. K = {i \in DOMAIN history : history[i].s = s} /\ \A j \in K : j \in DOMAIN history
    BY <1>1 DEF Mine
  <2> HIDE DEF K
  <2>2. mine \in Seq(Op) /\ Len(mine) = Cardinality(K) /\ \A n \in 1..Cardinality(K) : mine[n] = history[Nth(K, n)]
    BY <1>1, <2>1, SelectedProperties
  <2>3. DOMAIN mine = 1..Cardinality(K)
    BY <2>2
  <2>4. Committed(s) = [i \in DOMAIN mine |-> mine[i].msg]
    BY <2>1 DEF Committed
  <2> HIDE DEF mine
  <2>5. [i \in DOMAIN mine |-> mine[i].msg] = [n \in 1..Cardinality(K) |-> history[Nth(K, n)].msg]
    BY <2>2, <2>3
  <2>. QED BY <2>4, <2>5 DEF Msgs, K
<1>. QED BY <1>2, <1>3, <1>4, <1>5

\* The answer tells the truth about the database: MsgOnSuccess means that every
\* operation of the call is committed; MsgOnFailure, a cancelled call and a call
\* still open mean that nothing after the last trailer is; and a call that ended
\* with an error has committed up to some trailer, or up to its end.
THEOREM AnswersAreTrue == Spec => []AnswerMatchesDatabase
<1>1. ASSUME Types, ~late => Truth PROVE AnswerMatchesDatabase
  <2> SUFFICES ASSUME ~late, NEW s \in Streams
               PROVE  /\ reply[s] = "success" => Committed(s) = OpsUpTo(s, Len(script[s]))
                      /\ reply[s] \in {"none", "failure", "cancelled"} => Committed(s) = OpsUpTo(s, LastTrailer(s))
                      /\ reply[s] = "error" => \E k \in CommitPoints(s) : Committed(s) = OpsUpTo(s, k)
    BY DEF AnswerMatchesDatabase
  <2>1. CallTruth(s) /\ st[s] \in {"idle", "open", "closed", "cancelled"}
    BY <1>1, CallFacts DEF Truth
  <2>2. /\ Committed(s) = Msgs(history, s) /\ \A k : OpsUpTo(s, k) = OpsIn(script[s], k)
        /\ CommitPoints(s) = Points(script[s], pos[s])
        /\ \A k : LastPoint(script[s], pos[s], k) => LastTrailer(s) = k
    BY <1>1, TruthNames
  <2>3. UpToLast(s) => Committed(s) = OpsUpTo(s, LastTrailer(s))
    BY <2>2 DEF UpToLast
  <2>4. CASE st[s] = "idle"
    <3>1. LastPoint(script[s], 0, 0) /\ OpsIn(script[s], 0) = <<>> /\ pos[s] = 0 /\ Msgs(history, s) = <<>>
      BY <1>1, <2>1, <2>4, CallFacts, PointsStep, OpsInStep DEF CallTruth
    <3>2. UpToLast(s) /\ reply[s] = "none"
      BY <2>1, <2>4, <3>1 DEF UpToLast, CallTruth
    <3>. QED BY <2>3, <3>2
  <2>5. CASE st[s] = "open"
    BY <2>1, <2>3, <2>5 DEF CallTruth, OpenTruth
  <2>6. CASE st[s] \in {"closed", "cancelled"}
    <3>1. EndTruth(s) /\ reply[s] # "none"
      BY <2>1, <2>6 DEF CallTruth
    <3>. QED BY <2>2, <2>3, <3>1 DEF EndTruth
  <2>. QED BY <2>1, <2>4, <2>5, <2>6
<1>. QED BY <1>1, TypesInv, TruthInv, PTL
=============================================================================
