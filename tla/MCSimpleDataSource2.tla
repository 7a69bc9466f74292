------------------------- MODULE MCSimpleDataSource2 -------------------------
(***************************************************************************)
(* A small instance of SimpleDataSource2 for TLC.                          *)
(***************************************************************************)
EXTENDS SimpleDataSource2

\* DisruptorBlockingQueue rounds the capacity it is asked for up to a power of two.
MCQueueCapacity == CHOOSE n \in {2^i : i \in 0..4} :
    n >= MaximumPoolSize /\ \A i \in 0..4 : 2^i >= MaximumPoolSize => n <= 2^i
=============================================================================
