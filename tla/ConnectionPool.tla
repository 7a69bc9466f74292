---------------------------- MODULE ConnectionPool ----------------------------
(***************************************************************************)
(* What a connection pool promises to the code above it: every connection  *)
(* has one owner at a time, it changes hands only through the idle state,  *)
(* and a connection that is lost never comes back.  The pool may lose      *)
(* connections; it may not share them.                                     *)
(***************************************************************************)
CONSTANTS Conns, Users

VARIABLE owner   \* owner[c]: "unopened", "idle", "lost", or the user that has it

Init == owner = [c \in Conns |-> "unopened"]

Open(c) == owner[c] = "unopened" /\ owner' = [owner EXCEPT ![c] = "idle"]

OpenFails(c) == owner[c] = "unopened" /\ owner' = [owner EXCEPT ![c] = "lost"]

Borrow(u, c) == owner[c] = "idle" /\ owner' = [owner EXCEPT ![c] = u]

GiveBack(u, c) == owner[c] = u /\ owner' = [owner EXCEPT ![c] = "idle"]

\* The user drops the connection (a timeout after the take).
Lose(u, c) == owner[c] = u /\ owner' = [owner EXCEPT ![c] = "lost"]

\* Shutdown takes an idle connection out.
Discard(c) == owner[c] = "idle" /\ owner' = [owner EXCEPT ![c] = "lost"]

Next ==
    \E c \in Conns :
        \/ Open(c) \/ OpenFails(c) \/ Discard(c)
        \/ \E u \in Users : Borrow(u, c) \/ GiveBack(u, c) \/ Lose(u, c)

Spec == Init /\ [][Next]_owner
=============================================================================
