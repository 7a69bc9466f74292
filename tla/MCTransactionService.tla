------------------------ MODULE MCTransactionService ------------------------
(***************************************************************************)
(* Small instances of TransactionService for TLC: three names, two of them *)
(* spellings of one lower-case name, and the calls of a few clients.       *)
(***************************************************************************)
EXTENDS TransactionService

CONSTANTS s1, s2

MCNames == {"a", "A", "b"}
MClower == [n \in MCNames |-> IF n = "A" THEN "a" ELSE n]
MCObjects == [n \in MCNames |-> IF n = "A" THEN NoRow ELSE [ver |-> 1, txn |-> 0, mem |-> 0]]

M(op, name, old, new) ==
    [op |-> op, name |-> name, old |-> old, new |-> new, to |-> name, bad |-> FALSE]
Header == M("header", "a", 0, 0)
Trailer == M("trailer", "a", 0, 0)
Update(n) == M("update", n, 1, 2)
Rename(n, k) == [M("rename", n, 1, 2) EXCEPT !.to = k]
Delete(n) == M("delete", n, 1, 0)
Insert(n) == M("insert", n, 0, 1)

\* Calls as the Go client makes them: header, operations, trailer, half-close.
Call(ops) == <<Header>> \o ops \o <<Trailer>>

GoodScripts == {
    Call(<<Update("a"), Update("b")>>),
    Call(<<Update("b"), Update("a")>>),
    Call(<<Rename("a", "A"), Delete("b")>>),
    Call(<<Rename("b", "A")>>),
    Call(<<Delete("a"), Insert("A")>>) }

\* Calls the service also accepts: no trailer at the end, no header, an unknown
\* operation, two headers, a time that does not parse, nothing at all.
OddScripts == {
    <<Header, Update("a"), Trailer, Delete("b")>>,
    <<Update("a"), Trailer>>,
    <<Header, Update("b"), M("unknown", "a", 0, 0), Header>>,
    Call(<<Delete("b"), [Update("a") EXCEPT !.bad = TRUE]>>),
    <<>> }

\* The first client behaves, the second sends anything.
MixedScripts == [s \in Streams |-> IF s = s1 THEN GoodScripts ELSE GoodScripts \cup OddScripts]
PlainScripts == [s \in Streams |-> GoodScripts]
=============================================================================
