------------------------------ MODULE Selection ------------------------------
(***************************************************************************)
(* Elements of a sequence picked by their positions, in their order.  It   *)
(* is SelectSeq over positions, in a form one can reason about: a position *)
(* is known by how many of the picked ones are not behind it.              *)
(***************************************************************************)
EXTENDS Integers, Sequences, FiniteSets

Rank(K, i) == Cardinality({j \in K : j <= i})
Nth(K, n) == CHOOSE i \in K : Rank(K, i) = n

Selected(q, K) == [n \in 1..Cardinality(K) |-> q[Nth(K, n)]]
=============================================================================
