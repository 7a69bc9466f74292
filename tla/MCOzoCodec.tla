----------------------------- MODULE MCOzoCodec -----------------------------
(* OzoCodec over a handful of types and values of each kind.               *)
EXTENDS OzoCodec

I2 == [k |-> "int", w |-> 2, oid |-> 21]
I4 == [k |-> "int", w |-> 4, oid |-> 23]
Str == [k |-> "string", oid |-> 1043]
View == [k |-> "view", oid |-> 25]
Json == [k |-> "jsonb", oid |-> 3802]
Span == [k |-> "span", oid |-> 1186]
Opt(t) == [k |-> "opt", of |-> t]
Vec(t, oid) == [k |-> "vector", of |-> t, oid |-> oid]
Pair == [k |-> "array", of |-> I4, n |-> 2, oid |-> 1007]
User == [k |-> "struct", of |-> <<I4, Opt(Str)>>, oid |-> 9001]
Ints == Vec(I4, 1007)
OptInts == Vec(Opt(I4), 1007)
Strs == Vec(Opt(Str), 1015)
Users == Vec(User, 9002)

Num(n) == [k |-> "int", n |-> n]
Txt(s) == [k |-> "text", s |-> s]
List(e) == [k |-> "list", e |-> e]
Rec(e) == [k |-> "row", e |-> e]
Of(t, vs) == {[t |-> t, v |-> v] : v \in vs}

MCSamples ==
    Of(I2, {Num(0), Num(-2), Num(258)})
    \cup Of(I4, {Num(0), Num(-1), Num(2147483647)})
    \cup Of(Opt(I4), {Null, Num(7)})
    \cup Of(Str, {Txt(<<>>), Txt(<<65>>), Txt(<<66, 67>>)})
    \cup Of(View, {Txt(<<65, 66>>)})
    \cup Of(Opt(Str), {Null, Txt(<<65>>)})
    \cup Of(Json, {[k |-> "json", s |-> <<>>], [k |-> "json", s |-> <<91, 93>>]})
    \cup Of(Span, {[k |-> "span", us |-> n] : n \in {0, -7, 32, -33}})
    \cup Of(Ints, {List(<<>>), List(<<Num(1)>>), List(<<Num(3), Num(-1)>>)})
    \cup Of(OptInts, {List(<<Null, Null>>), List(<<Num(5), Null>>), List(<<Null, Num(5)>>)})
    \cup Of(Opt(Ints), {Null, List(<<Num(9), Num(9), Num(9)>>)})
    \cup Of(Strs, {List(<<>>), List(<<Null, Txt(<<65>>)>>)})
    \cup Of(Pair, {List(<<Num(3), Num(4)>>)})
    \cup Of(User, {Rec(<<Num(1), Null>>), Rec(<<Num(2), Txt(<<65>>)>>)})
    \cup Of(Users, {List(<<Rec(<<Num(2), Txt(<<65>>)>>), Rec(<<Num(1), Null>>)>>)})

(* Two dimensions, a composite that got another field or lost one, one     *)
(* whose field changed its type, and intervals around the range.           *)
MCForeign ==
    Of(Ints, {[k |-> "table"]})
    \cup Of([User EXCEPT !.of = <<I4, Str, I4>>], {Rec(<<Num(1), Null, Num(2)>>)})
    \cup Of([User EXCEPT !.of = <<I4>>], {Rec(<<Num(1)>>)})
    \cup Of([User EXCEPT !.of = <<I2, Str>>], {Rec(<<Num(1), Null>>)})
    \cup Of(User, {Rec(<<Null, Null>>)})
    \cup Of(Span, {[k |-> "interval", us |-> u, days |-> d, months |-> m] :
                   u \in {-12, -4, 0, 3, 4}, d \in -8..8 \cup {-40, 30}, m \in {-1, 0, 1}})

Part(p) == [part |-> p]
Name(n) == [param |-> n]
Header(q) == [k |-> "header", name |-> q]
Text(parts) == [k |-> "text", text |-> parts]
Comment == [k |-> "comment"]
Refused == [k |-> "refused"]

(* A query over a struct and a query over a tuple.                         *)
ByName == [name |-> "q", members |-> <<"a", "b">>, size |-> 2, types |-> <<I4, Opt(Str)>>]
ByNumber == [name |-> "p", members |-> <<>>, size |-> 2, types |-> <<OptInts, Str>>]

LinesOfQ == {
    <<Header("q"), Text(<<Name("b"), Part("x"), Name("a"), Part("y")>>)>>,
    <<Header("q"), Text(<<Name("a"), Part("x")>>), Comment, Text(<<Name("a"), Part("y")>>)>>,
    <<Header("q"), Text(<<Name("c"), Part("x")>>)>>,
    <<Header("q"), Refused>>,
    <<Text(<<Part("x")>>), Header("q")>>,
    <<Comment>>}
LinesOfP == {
    <<Header("p"), Text(<<Name("1"), Part("y"), Name("0"), Part("x")>>)>>,
    <<Header("p"), Text(<<Name("2"), Part("y")>>)>>,
    <<Header("p"), Text(<<Name("a"), Part("y")>>)>>,
    <<>>}
MCConfs ==
    {[decls |-> ds, lines |-> l \o m] :
        ds \in {<<ByName>>, <<ByName, ByNumber>>, <<ByName, ByName>>},
        l \in LinesOfQ, m \in LinesOfP \cup LinesOfQ}

Some == {s \in MCSamples : s.t \in {Opt(I4), Str, OptInts, User}}
MCPrograms ==
    {<<[value |-> s], Part("x")>> : s \in MCSamples}
    \cup {<<[value |-> s], Part("y"), [value |-> r], Part("x")>> : s \in Some, r \in Some}

Readable == {I2, I4, Opt(I4), Str, Opt(Str), Json, Span, Ints, OptInts, Opt(Ints), Strs, Pair, User, Users}
Into(form, mode, names, types) ==
    [form |-> form, mode |-> mode, names |-> names, types |-> types, odd |-> names = <<"z">>]
MCOuts ==
    {Into("single", m, <<"x">>, <<t>>) : m \in {"insert", "forward"}, t \in Readable}
    \cup {Into("struct", "insert", <<n>>, <<t>>) : n \in {"x", "z"}, t \in {Opt(I4), Str}}
    \cup {Into(f, m, <<"x", "y">>, <<t, u>>) :
            f \in {"tuple", "struct"}, m \in {"insert", "forward"},
            t \in {Opt(I4), Opt(Str), OptInts, User}, u \in {Opt(I4), Opt(Str), OptInts, User}}
=============================================================================
