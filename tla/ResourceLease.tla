---------------------------- MODULE ResourceLease ----------------------------
(***************************************************************************)
(* What a resource pool promises its clients: a client that asks is        *)
(* answered once, with a cell that nobody else has or with an error; a     *)
(* cell comes back to the pool or goes straight to a client that waits.    *)
(***************************************************************************)
CONSTANTS Clients, Cells, Free

VARIABLES
    owner,   \* per cell: the client that has it, or Free
    asking   \* clients whose request is not answered yet

vars == <<owner, asking>>

Init == owner = [x \in Cells |-> Free] /\ asking = {}

Holds(c) == \E x \in Cells : owner[x] = c

Ask(c) ==
    /\ c \notin asking /\ ~Holds(c)
    /\ asking' = asking \cup {c}
    /\ UNCHANGED owner

\* One timeout, or the end of the pool, refuses several requests at once.
Refuse(S) ==
    /\ S \subseteq asking
    /\ asking' = asking \ S
    /\ UNCHANGED owner

Grant(c, x) ==
    /\ c \in asking /\ owner[x] = Free
    /\ owner' = [owner EXCEPT ![x] = c]
    /\ asking' = asking \ {c}

GrantAtOnce(c, x) ==
    /\ c \notin asking /\ ~Holds(c) /\ owner[x] = Free
    /\ owner' = [owner EXCEPT ![x] = c]
    /\ UNCHANGED asking

Return(c, x) ==
    /\ owner[x] = c
    /\ owner' = [owner EXCEPT ![x] = Free]
    /\ UNCHANGED asking

Pass(c, d, x) ==
    /\ owner[x] = c /\ d \in asking
    /\ owner' = [owner EXCEPT ![x] = d]
    /\ asking' = asking \ {d}

Next ==
    \/ \E S \in SUBSET Clients : Refuse(S)
    \/ \E c \in Clients :
        \/ Ask(c)
        \/ \E x \in Cells :
            \/ Grant(c, x) \/ GrantAtOnce(c, x) \/ Return(c, x)
            \/ \E d \in Clients : Pass(c, d, x)

Spec == Init /\ [][Next]_vars
=============================================================================
