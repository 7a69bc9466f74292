---------------------------- MODULE MCObjService ----------------------------
(***************************************************************************)
(* Small instances of ObjService for TLC.  Name 2 is a spelling of name 1: *)
(* both have 1 as their lower-case form.                                   *)
(***************************************************************************)
EXTENDS ObjService

CONSTANTS r1, r2

MCNames == 1..3
MClower == [n \in MCNames |-> IF n = 2 THEN 1 ELSE n]
MCObjects == [n \in MCNames |-> IF n \in {2, 3} THEN [type |-> n % 2, ver |-> 0] ELSE NoRow]
MCIndex == <<2>>

Q(kind, name) ==
    [kind |-> kind, name |-> name, names |-> {name}, type |-> 5, objectType |-> Null,
     limit |-> 2, accepted |-> TRUE]
Rejected(q) == [q EXCEPT !.accepted = FALSE]

\* Every kind of request, for names that are there, in another spelling, or absent.
ObjectQueries == {
    Q("lookup", 1), [Q("lookup", 3) EXCEPT !.type = 4, !.limit = 1],
    [Q("lookup", 3) EXCEPT !.type = 3, !.objectType = 0],
    [Q("lookup", 1) EXCEPT !.type = Null],
    Q("mem", 1), Q("full", 3), [Q("many", 1) EXCEPT !.names = {1, 3}] }

IndexQueries == {
    Q("msg", 2), Q("msg", 3), Q("index", 3), [Q("manyIndex", 3) EXCEPT !.names = {1, 3}],
    Q("batches", 3) }

\* A negative limit, an empty list of names, an unknown table: PostgreSQL rejects them.
RejectedQueries == {
    Rejected([Q("lookup", 1) EXCEPT !.limit = 0 - 1]),
    Rejected([Q("many", 1) EXCEPT !.names = {}]),
    Rejected(Q("msg", 2)), Rejected(Q("batches", 3)) }

\* One client asks for anything, the other one spoils the connections of a pool or
\* keeps coming back for the next batch.
MCQueries == [r \in Requests |->
    IF r = r1 THEN ObjectQueries \cup IndexQueries \cup RejectedQueries
    ELSE { Q("batches", 3), Rejected([Q("lookup", 1) EXCEPT !.limit = 0 - 1]), Rejected(Q("msg", 2)) }]
=============================================================================
