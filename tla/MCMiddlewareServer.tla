------------------------- MODULE MCMiddlewareServer -------------------------
(***************************************************************************)
(* A small instance of MiddlewareServer for TLC.                           *)
(***************************************************************************)
EXTENDS MiddlewareServer

CONSTANTS c1, c2

MCMaxRequests == [c \in Clients |-> IF c = c1 THEN 3 ELSE 2]
MCStored == <<"n1", "n2">>
=============================================================================
