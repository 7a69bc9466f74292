----------------------------- MODULE MCNearCache -----------------------------
(***************************************************************************)
(* A small instance of NearCache for TLC: threads t1 and t2 of server s1   *)
(* and t3 of server s2 read one object, whose name is ASCII.  (Spellings   *)
(* and other names are left to the proofs, which hold for all of them.)    *)
(***************************************************************************)
EXTENDS NearCache

CONSTANTS s1, s2, t1, t2, t3, k1, o1

MCServerOf == [t \in Threads |-> IF t = t3 THEN s2 ELSE s1]
MCLower == [k \in Keys |-> o1]
MCLength == [o \in Objects |-> 4]

\* The server with one thread is the one that loses threads and cache entries.
MCOnlyS2 == [s \in Servers |-> IF s = s2 THEN 1 ELSE 0]
=============================================================================
