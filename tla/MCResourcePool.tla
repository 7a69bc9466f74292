--------------------------- MODULE MCResourcePool ---------------------------
(***************************************************************************)
(* Small instances of ResourcePool for TLC: two io_contexts, the first     *)
(* client on one and the others on the second.                             *)
(***************************************************************************)
EXTENDS ResourcePool

CONSTANTS c1, c2, io1, io2

MCContextOf == [c \in Clients |-> IF c = c1 THEN io1 ELSE io2]
MCWaits == [c \in Clients |-> IF c = c1 THEN {1} ELSE IF c = c2 THEN {2} ELSE {0, 1}]
=============================================================================
