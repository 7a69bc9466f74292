------------------------------ MODULE OzoCodec ------------------------------
(***************************************************************************)
(* The binary protocol of the ozo library (src/middleware-cpp/includes/    *)
(* ozo/io): how the parameters of a query become the arrays and the buffer *)
(* handed to libpq, and how the columns of a result become C++ objects.    *)
(*                                                                         *)
(* A query goes once through the whole pipe: the query object is made, its *)
(* parameters are written, the database (external) reads them, executes    *)
(* "SELECT $i AS x, ..." and answers, and the answer is received.          *)
(*                                                                         *)
(* A C++ type is a record: k is its kind and oid the oid of its database   *)
(* type; the oid of a custom type is the one the connection's oid map      *)
(* holds.  A value is a record as well, the same for C++ and SQL: null is  *)
(* the null state of a nullable and the NULL of SQL.  A byte is a number.  *)
(***************************************************************************)
EXTENDS OzoQuery

CONSTANTS
    Samples,    \* typed values [t, v] of the user's program
    Foreign,    \* further values [oid, v] the database may hold
    Confs,      \* query configurations with their declarations
    Programs,   \* the elements given to the query builder
    Outs,       \* the objects results are received into
    MaxMicros,  \* the largest std::chrono::microseconds (2^63 - 1)
    DayMicros   \* microseconds of a day

Null == [k |-> "null"]

-----------------------------------------------------------------------------
(* Types.                                                                  *)

Nullable(t) == t.k = "opt"
unwrap(t) == IF Nullable(t) THEN t.of ELSE t
IsArray(t) == t.k \in {"vector", "array"}
type_oid(t) == unwrap(t).oid
accepts_oid(t, oid) == type_oid(t) = oid

(* type_traits<T>::size is a constant.  T may be nullable: the traits are  *)
(* those of the type it wraps.                                             *)
StaticSize(t) == unwrap(t).k \in {"int", "span"}

(* A default constructed object.                                           *)
RECURSIVE Default(_)
Default(t) ==
    CASE t.k = "opt" -> Null
      [] t.k = "int" -> [k |-> "int", n |-> 0]
      [] t.k = "span" -> [k |-> "span", us |-> 0]
      [] t.k = "string" -> [k |-> "text", s |-> <<>>]
      [] t.k = "jsonb" -> [k |-> "json", s |-> <<>>]
      [] t.k = "vector" -> [k |-> "list", e |-> <<>>]
      [] t.k = "array" -> [k |-> "list", e |-> [i \in 1..t.n |-> Default(t.of)]]
      [] t.k = "struct" -> [k |-> "row", e |-> [i \in DOMAIN t.of |-> Default(t.of[i])]]

-----------------------------------------------------------------------------
(* Integers on the wire: big endian, two's complement, w bytes.            *)

BigEndian(n, w) ==
    [i \in 1..w |-> IF w - i > 3 THEN (IF n < 0 THEN 255 ELSE 0)
                    ELSE (n \div 256^(w - i)) % 256]

FromBigEndian(b) ==
    LET low == IF Len(b) > 4 THEN SubSeq(b, Len(b) - 3, Len(b)) ELSE b
        high == IF low[1] > 127 THEN low[1] - 256 ELSE low[1]
    IN  FoldLeft(LAMBDA a, x : 256 * a + x, high, Tail(low))

-----------------------------------------------------------------------------
(* Intervals.  The C++ division and remainder truncate towards zero, and   *)
(* a sum of microseconds has the width of the type: it wraps around.  (A   *)
(* signed overflow is undefined; the only sums that reach one are named in *)
(* EdgeDays below, and no property says anything of them.)              *)

MinMicros == -MaxMicros - 1
Quot(a, b) == IF a < 0 THEN -((-a) \div b) ELSE a \div b
Rem(a, b) == a - b * Quot(a, b)
Wrap(n) == ((n - MinMicros) % (MaxMicros - MinMicros + 1)) + MinMicros

from_chrono_duration(us) ==
    [k |-> "interval", us |-> Rem(us, DayMicros), days |-> Quot(us, DayMicros), months |-> 0]

(* Fault: only whole days are compared with the range.                    *)
to_chrono_duration_by_days(i) ==
    LET surplus == Rem(i.us, DayMicros)
        total == 30 * i.months + i.days + Quot(i.us, DayMicros)
    IN  IF total < Quot(MinMicros, DayMicros) THEN MinMicros
        ELSE IF total > Quot(MaxMicros, DayMicros) THEN MaxMicros
        ELSE Wrap(total * DayMicros + surplus)

to_chrono_duration(i) ==
    LET surplus == Rem(i.us, DayMicros)
        total == 30 * i.months + i.days + Quot(i.us, DayMicros)
    IN  IF \/ total < Quot(MinMicros, DayMicros) - 1
           \/ /\ total < 0
              /\ Wrap((total + 1) * DayMicros + surplus) < MinMicros + DayMicros
        THEN MinMicros
        ELSE IF \/ Quot(MaxMicros, DayMicros) + 1 < total
                \/ /\ total > 0
                   /\ MaxMicros - DayMicros < Wrap((total - 1) * DayMicros + surplus)
        THEN MaxMicros
        ELSE Wrap(total * DayMicros + surplus)

-----------------------------------------------------------------------------
(* Sizes.                                                                  *)

RECURSIVE size_of(_, _)

data_frame_size(t, v) == 4 + (IF size_of(t, v) > 0 THEN size_of(t, v) ELSE 0)
frame_size(t, v) == 4 + data_frame_size(t, v)

(* size_of_array_impl::data_size: one frame stands for all of them when    *)
(* the size of the type is static.                                         *)
array_data_size(t, e) ==
    IF StaticSize(t)
    THEN IF e = <<>> THEN 0 ELSE data_frame_size(t, e[1]) * Len(e)
    ELSE FoldLeft(LAMBDA r, v : r + data_frame_size(t, v), 0, e)

composite_data_size(ts, e) ==
    FoldLeft(LAMBDA r, i : r + frame_size(ts[i], e[i]), 0, [i \in DOMAIN ts |-> i])

size_of(t, v) ==
    LET u == unwrap(t)
    IN  IF v = Null THEN -1
        ELSE CASE u.k = "int" -> u.w
               [] u.k = "span" -> 16
               [] u.k \in {"string", "view"} -> Len(v.s)
               [] u.k = "jsonb" -> Len(v.s) + 1
               [] IsArray(u) -> 12 + 8 + array_data_size(u.of, v.e)
               [] u.k = "struct" -> 4 + composite_data_size(u.of, v.e)

-----------------------------------------------------------------------------
(* Writing.                                                                *)

RECURSIVE send(_, _)

send_data_frame(t, v) == BigEndian(size_of(t, v), 4) \o send(t, v)
send_frame(t, v) == BigEndian(type_oid(t), 4) \o send_data_frame(t, v)

send_array(t, e) ==
    BigEndian(1, 4) \o BigEndian(0, 4) \o BigEndian(type_oid(t), 4)
        \o BigEndian(Len(e), 4) \o BigEndian(0, 4)
        \o FlattenSeq([i \in DOMAIN e |-> send_data_frame(t, e[i])])

send_composite(ts, e) ==
    BigEndian(Len(ts), 4) \o FlattenSeq([i \in DOMAIN ts |-> send_frame(ts[i], e[i])])

send_interval(i) == BigEndian(i.us, 8) \o BigEndian(i.days, 4) \o BigEndian(i.months, 4)

send(t, v) ==
    LET u == unwrap(t)
    IN  IF v = Null THEN <<>>
        ELSE CASE u.k = "int" -> BigEndian(v.n, u.w)
               [] u.k = "span" -> send_interval(from_chrono_duration(v.us))
               [] u.k \in {"string", "view"} -> v.s
               [] u.k = "jsonb" -> <<1>> \o v.s
               [] IsArray(u) -> send_array(u.of, v.e)
               [] u.k = "struct" -> send_composite(u.of, v.e)

(* Fault: a parameter without bytes has a pointer all the same.           *)
binary_query_without_nulls(ps) ==
    LET lengths == [i \in DOMAIN ps |-> LET n == size_of(ps[i].t, ps[i].v)
                                        IN  IF n > 0 THEN n ELSE 0]
        Offset(i) == FoldLeft(LAMBDA r, n : r + n, 0, SubSeq(lengths, 1, i - 1))
    IN  [lengths |-> lengths,
         types |-> [i \in DOMAIN ps |-> type_oid(ps[i].t)],
         buffer |-> FlattenSeq([i \in DOMAIN ps |-> send(ps[i].t, ps[i].v)]),
         values |-> [i \in DOMAIN ps |-> Offset(i)]]

(* The constructor of binary_query: lengths, types, one buffer, and for    *)
(* each parameter its offset in the buffer, -1 for a null pointer.         *)
binary_query(ps) ==
    LET lengths == [i \in DOMAIN ps |-> LET n == size_of(ps[i].t, ps[i].v)
                                        IN  IF n > 0 THEN n ELSE 0]
        Offset(i) == FoldLeft(LAMBDA r, n : r + n, 0, SubSeq(lengths, 1, i - 1))
    IN  [lengths |-> lengths,
         types |-> [i \in DOMAIN ps |-> type_oid(ps[i].t)],
         buffer |-> FlattenSeq([i \in DOMAIN ps |-> send(ps[i].t, ps[i].v)]),
         values |-> [i \in DOMAIN ps |-> IF lengths[i] # 0 THEN Offset(i) ELSE -1]]

-----------------------------------------------------------------------------
(* Reading.  A reader is the rest of its bytes, the error met, and the     *)
(* object as far as it is filled; after an error nothing more is read.     *)

Reader(in, v) == [in |-> in, err |-> "none", v |-> v]
Failed(r, what) == [r EXCEPT !.err = what]
Drop(in, n) == SubSeq(in, n + 1, Len(in))
Int4At(in, from) == FromBigEndian(SubSeq(in, from + 1, from + 4))

RECURSIVE recv(_, _, _, _, _, _)

(* A frame has its size, and its oid when it is that of a composite.       *)
recv_data_frame(in, t, old) ==
    IF Len(in) < 4 THEN Failed(Reader(in, old), "unexpected_eof")
    ELSE recv(Drop(in, 4), FALSE, 0, Int4At(in, 0), t, old)

recv_frame(in, t, old) ==
    IF Len(in) < 8 THEN Failed(Reader(in, old), "unexpected_eof")
    ELSE recv(Drop(in, 8), TRUE, Int4At(in, 0), Int4At(in, 4), t, old)

(* One item after the other, each in its place of the object.              *)
Items(r, ts, Frame(_, _, _)) ==
    FoldLeft(LAMBDA q, i : IF q.err # "none" THEN q
                           ELSE LET f == Frame(q.in, ts[i], q.v.e[i])
                                IN  [in |-> f.in, err |-> f.err, v |-> [q.v EXCEPT !.e[i] = f.v]],
             r, [i \in DOMAIN ts |-> i])

(* Fault: the array grows but never shrinks.                              *)
OnlyGrown(t, v, n) ==
    [v EXCEPT !.e = [i \in 1..(IF n > Len(v.e) THEN n ELSE Len(v.e)) |->
                        IF i <= Len(v.e) THEN v.e[i] ELSE Default(t.of)]]

(* fit_array_size: a vector is resized, std::array only accepts its size.  *)
Resized(t, v, n) ==
    [v EXCEPT !.e = [i \in 1..n |-> IF i <= Len(v.e) THEN v.e[i] ELSE Default(t.of)]]

recv_array(in, t, old) ==
    LET r == Reader(in, old)
        dims == Int4At(in, 0)
        size == Int4At(in, 12)
    IN  IF Len(in) < 12 THEN Failed(r, "unexpected_eof")
        ELSE IF dims > 1 THEN Failed(r, "bad_array_dimension")
        ELSE IF ~accepts_oid(unwrap(t.of), Int4At(in, 8)) THEN Failed(r, "oid_type_mismatch")
        ELSE IF dims < 1 THEN [r EXCEPT !.in = Drop(in, 12)]
        ELSE IF Len(in) < 20 THEN Failed(r, "unexpected_eof")
        ELSE IF size = 0 THEN [r EXCEPT !.in = Drop(in, 20)]
        ELSE IF t.k = "array" /\ size # t.n THEN Failed(r, "bad_array_size")
        ELSE Items(Reader(Drop(in, 20), Resized(t, old, size)),
                   [i \in 1..size |-> t.of], recv_data_frame)

(* Fault: the number of fields is not compared.                           *)
recv_any_composite(in, t, old) ==
    IF Len(in) < 4 THEN Failed(Reader(in, old), "unexpected_eof")
    ELSE Items(Reader(Drop(in, 4), old), t.of, recv_frame)

recv_composite(in, t, old) ==
    LET r == Reader(in, old)
    IN  IF Len(in) < 4 THEN Failed(r, "unexpected_eof")
        ELSE IF Int4At(in, 0) # Len(t.of) THEN Failed(r, "bad_composite_size")
        ELSE Items(Reader(Drop(in, 4), old), t.of, recv_frame)

recv_jsonb(in, size, old) ==
    IF size < 1 THEN Failed(Reader(in, old), "range_error")
    ELSE IF Len(in) < size THEN Failed(Reader(in, old), "unexpected_eof")
    ELSE Reader(Drop(in, size), [k |-> "json", s |-> SubSeq(in, 2, size)])

recv_interval(in, old) ==
    IF Len(in) < 16 THEN Failed(Reader(in, old), "unexpected_eof")
    ELSE Reader(Drop(in, 16),
                [k |-> "span", us |-> to_chrono_duration(
                    [us |-> FromBigEndian(SubSeq(in, 1, 8)),
                     days |-> Int4At(in, 8), months |-> Int4At(in, 12)])])

(* recv_impl: an object of static size accepts only its own size, a string *)
(* takes the size that comes.                                              *)
recv_impl(in, size, t, old) ==
    IF t.k = "int" /\ size # t.w THEN Failed(Reader(in, old), "bad_object_size")
    ELSE IF Len(in) < size THEN Failed(Reader(in, old), "unexpected_eof")
    ELSE LET b == SubSeq(in, 1, size)
         IN  Reader(Drop(in, size), IF t.k = "int" THEN [k |-> "int", n |-> FromBigEndian(b)]
                                    ELSE [k |-> "text", s |-> b])

(* recv: null first, then the oid, then the object.                        *)
recv(in, checked, oid, size, t, old) ==
    LET u == unwrap(t)
        object == IF Nullable(t) /\ old = Null THEN Default(u) ELSE old
    IN  IF Nullable(t) /\ size = -1 THEN Reader(in, Null)
        ELSE IF checked /\ ~accepts_oid(t, oid) THEN Failed(Reader(in, old), "oid_type_mismatch")
        ELSE IF size = -1 THEN Failed(Reader(in, old), "unexpected null")
        ELSE CASE IsArray(u) -> recv_array(in, u, object)
               [] u.k = "struct" -> recv_composite(in, u, object)
               [] u.k = "jsonb" -> recv_jsonb(in, size, object)
               [] u.k = "span" -> recv_interval(in, object)
               [] OTHER -> recv_impl(in, size, u, object)

(* A column of a row, [name, oid, isnull, data].                           *)
recv_value(c, t, old) ==
    recv(c.data, TRUE, c.oid, IF c.isnull THEN -1 ELSE Len(c.data), t, old)

(* row::find: the first column of the name, or the end.                    *)
find(row, name) ==
    LET named == {i \in DOMAIN row : row[i].name = name}
    IN  IF named = {} THEN Len(row) + 1 ELSE CHOOSE i \in named : \A j \in named : i <= j

(* recv_row: a tuple takes the columns in order, a struct by name, any     *)
(* other object the only column.                                           *)
recv_row(row, o, old) ==
    LET Column(i) == IF o.form = "struct" THEN find(row, o.names[i]) ELSE i
    IN  IF Len(row) # Len(o.types) THEN [err |-> "range_error", v |-> old]
        ELSE FoldLeft(LAMBDA q, i :
                 IF q.err # "none" THEN q
                 ELSE IF Column(i) > Len(row) THEN Failed(q, "no such column")
                 ELSE LET f == recv_value(row[Column(i)], o.types[i], q.v[i])
                      IN  [err |-> f.err, v |-> [q.v EXCEPT ![i] = f.v]],
                 [err |-> "none", v |-> old], [i \in DOMAIN o.types |-> i])

(* Fault: the object is inserted before it is received.                   *)
recv_result_in_place(rows, o, old) ==
    FoldLeft(LAMBDA q, i :
        IF q.err # "none" THEN q
        ELSE LET before == IF o.mode = "insert" THEN [j \in DOMAIN o.types |-> Default(o.types[j])]
                           ELSE old[i]
                 f == recv_row(rows[i], o, before)
             IN  [err |-> f.err,
                  rows |-> IF o.mode = "insert" THEN Append(q.rows, f.v)
                           ELSE [q.rows EXCEPT ![i] = f.v]],
        [err |-> "none", rows |-> old], [i \in DOMAIN rows |-> i])

(* recv_result: an insert iterator takes a whole new object per row, a     *)
(* forward iterator fills the objects that are there.                      *)
recv_result(rows, o, old) ==
    FoldLeft(LAMBDA q, i :
        IF q.err # "none" THEN q
        ELSE LET before == IF o.mode = "insert" THEN [j \in DOMAIN o.types |-> Default(o.types[j])]
                           ELSE old[i]
                 f == recv_row(rows[i], o, before)
             IN  [err |-> f.err,
                  rows |-> IF o.mode = "insert"
                           THEN IF f.err = "none" THEN Append(q.rows, f.v) ELSE q.rows
                           ELSE [q.rows EXCEPT ![i] = f.v]],
        [err |-> "none", rows |-> old], [i \in DOMAIN rows |-> i])

-----------------------------------------------------------------------------
(* The database (external).  It knows a value by its own encoding: what it *)
(* expects of a parameter and what it puts into a result.  An empty array  *)
(* it holds has no dimension, and it tells of nulls in the header.         *)

RECURSIVE Wire(_, _, _)

WireFrame(side, t, v) ==
    IF v = Null THEN BigEndian(-1, 4)
    ELSE LET b == Wire(side, unwrap(t), v) IN BigEndian(Len(b), 4) \o b

WireHeader(side, t, e) ==
    IF side = "result" /\ e = <<>> THEN <<0, 0>>
    ELSE <<1, IF side = "result" /\ Null \in ToSet(e) THEN 1 ELSE 0>>

Wire(side, t, v) ==
    CASE v.k = "int" -> BigEndian(v.n, t.w)
      [] v.k = "text" -> v.s
      [] v.k = "json" -> <<1>> \o v.s
      [] v.k = "interval" -> send_interval(v)
      [] v.k = "list" ->
            LET h == WireHeader(side, t, v.e)
            IN  BigEndian(h[1], 4) \o BigEndian(h[2], 4) \o BigEndian(type_oid(t.of), 4)
                \o (IF h[1] = 0 THEN <<>>
                    ELSE BigEndian(Len(v.e), 4) \o BigEndian(IF side = "result" THEN 1 ELSE 0, 4))
                \o FlattenSeq([i \in DOMAIN v.e |-> WireFrame(side, t.of, v.e[i])])
      [] v.k = "table" -> BigEndian(2, 4) \o BigEndian(0, 4) \o BigEndian(type_oid(t.of), 4)
      [] v.k = "row" ->
            BigEndian(Len(t.of), 4)
                \o FlattenSeq([i \in DOMAIN t.of |->
                        BigEndian(type_oid(t.of[i]), 4) \o WireFrame(side, t.of[i], v.e[i])])

(* The values the database can tell apart, with their types.  A span of    *)
(* the program is an interval there.                                       *)
Sql(v) == IF v.k = "span" THEN from_chrono_duration(v.us) ELSE v
Universe == {[t |-> unwrap(s.t), v |-> Sql(s.v)] : s \in {x \in Samples : x.v # Null}} \cup Foreign

(* What it makes of parameter i: the bytes at the pointer, as many as the  *)
(* length says, those behind the buffer (256) unlike anything it expects.  *)
Param(b, i) ==
    LET at == b.values[i]
        bytes == [j \in 1..b.lengths[i] |-> IF at + j <= Len(b.buffer) THEN b.buffer[at + j] ELSE 256]
        read == {c \in Universe : c.t.oid = b.types[i] /\ Wire("param", c.t, c.v) = bytes}
    IN  IF at = -1
        THEN {[t |-> (CHOOSE c \in Universe : c.t.oid = b.types[i]).t, v |-> Null]}
        ELSE IF read = {} THEN {} ELSE {CHOOSE c \in read : TRUE}

-----------------------------------------------------------------------------
(* The pipe.                                                               *)

VARIABLES
    repository, \* the query repository: its configuration and what became of it
    query,      \* the query object; meant: the values its author asked for
    bin,        \* the binary_query
    answer,     \* the database's: refused, or rows of cells [t, v] and their names
    out         \* the received object and the error, if any

vars == <<repository, query, bin, answer, out>>
None == [k |-> "none"]

Init ==
    /\ repository = None
    /\ query = None
    /\ bin = None
    /\ answer = None
    /\ out = None

(* make_query_repository over a configuration.                             *)
Configure ==
    /\ repository = None /\ query = None
    /\ \E c \in Confs :
          LET r == make_query_repository(c.decls, c.lines)
          IN  repository' = [conf |-> c, err |-> r.err, descriptions |-> r.value]
    /\ UNCHANGED <<query, bin, answer, out>>

(* The definition the configuration has for a query, as its author reads   *)
(* it: the lines between its header and the next one.                      *)
Definition(lines, name) ==
    LET start == CHOOSE i \in DOMAIN lines : lines[i].k = "header" /\ lines[i].name = name
        Within(i) == \A j \in start + 1..i : lines[j].k # "header"
    IN  FlattenSeq([i \in DOMAIN lines |->
            IF i > start /\ lines[i].k = "text" /\ Within(i) THEN lines[i].text ELSE <<>>])

(* The value of the member, or of the tuple's element, a name stands for.  *)
Member(d, vals, name) ==
    IF d.members # <<>> THEN vals[CHOOSE i \in DOMAIN d.members : d.members[i] = name]
    ELSE vals[Numbers[name] + 1]

(* query_repository::make_query with the parameters of a declared query.   *)
Ask ==
    /\ repository # None /\ query = None
    /\ repository.err = "none"
    /\ \E i \in DOMAIN repository.conf.decls :
          LET d == repository.conf.decls[i]
              asked == SelectSeq(Definition(repository.conf.lines, d.name), IsParam)
          IN  \E vals \in {f \in [1..d.size -> Samples] : \A j \in 1..d.size : f[j].t = d.types[j]} :
                 query' = [q |-> make_query(get_description(repository.descriptions, d.name), vals),
                           meant |-> [j \in DOMAIN asked |-> Member(d, vals, asked[j].param)]]
    /\ UNCHANGED <<repository, bin, answer, out>>

(* A query of the builder.                                                 *)
Build ==
    /\ repository = None /\ query = None
    /\ \E elements \in Programs :
          query' = [q |-> build(elements), meant |-> params(elements)]
    /\ UNCHANGED <<repository, bin, answer, out>>

to_binary_query ==
    /\ query # None /\ bin = None
    /\ bin' = binary_query(query.q.params)
    /\ UNCHANGED <<repository, query, answer, out>>

(* The database answers with a column for each placeholder, named by the   *)
(* pieces of the text, and with a second row of other values or nulls.     *)
Execute ==
    /\ bin # None /\ answer = None
    /\ LET places == SelectSeq(query.q.text, IsPlace)
           names == SelectSeq(query.q.text, LAMBDA e : ~IsPlace(e))
           Read(j) == Param(bin, places[j].place)
           Others(j) == {c \in Universe : \E r \in Read(j) : c.t.oid = r.t.oid /\ c.v # r.v}
                           \cup {[r EXCEPT !.v = Null] : r \in Read(j)}
           first == [j \in DOMAIN places |-> CHOOSE r \in Read(j) : TRUE]
       IN  IF \E j \in DOMAIN places : Read(j) = {}
           THEN answer' = [refused |-> TRUE, names |-> <<>>, rows |-> <<>>]
           ELSE \E rows \in {<<first>>}
                     \cup {<<first, [first EXCEPT ![j] = c]>> : j \in {1}, c \in Others(1)} :
                   answer' = [refused |-> FALSE, rows |-> rows,
                              names |-> [j \in DOMAIN places |-> names[j].part]]
    /\ UNCHANGED <<repository, query, bin, out>>

(* The proxies of a PGresult: a value with its bytes, oid and nullness, a  *)
(* row of values, the rows of the result.                                  *)
value(name, c) ==
    [name |-> name, oid |-> c.t.oid, isnull |-> c.v = Null,
     data |-> IF c.v = Null THEN <<>> ELSE Wire("result", c.t, c.v)]
Row(a, i) == [j \in DOMAIN a.names |-> value(a.names[j], a.rows[i][j])]
basic_result(a) == [i \in DOMAIN a.rows |-> Row(a, i)]

(* The answer is received into objects that are new or were used before.   *)
Receive ==
    /\ answer # None /\ out = None
    /\ ~answer.refused
    /\ \E o \in {x \in Outs : Len(x.types) = Len(answer.names) \/ x.odd} :
       \E used \in {f \in [DOMAIN o.types -> Samples] : \A j \in DOMAIN f : f[j].t = o.types[j]} :
          LET old == IF o.mode = "insert" THEN <<>>
                     ELSE [i \in DOMAIN answer.rows |-> [j \in DOMAIN used |-> used[j].v]]
              r == recv_result(basic_result(answer), o, old)
          IN  out' = [o |-> o, err |-> r.err, rows |-> r.rows]
    /\ UNCHANGED <<repository, query, bin, answer>>

Next == Configure \/ Ask \/ Build \/ to_binary_query \/ Execute \/ Receive

Spec == Init /\ [][Next]_vars

-----------------------------------------------------------------------------
(* Properties.                                                             *)

Errors == {"none", "unexpected_eof", "bad_array_dimension", "oid_type_mismatch",
           "bad_array_size", "bad_composite_size", "bad_object_size", "range_error",
           "unexpected null", "no such column"}

(* Everything has its type; the buffer of binary_query holds bytes and its *)
(* arrays have an element for each parameter.                              *)
TypeOK ==
    /\ bin # None =>
          /\ bin.buffer \in Seq(0..255)
          /\ bin.lengths \in [DOMAIN query.q.params -> Nat]
          /\ bin.values \in [DOMAIN query.q.params -> Nat \cup {-1}]
    /\ out # None => out.err \in Errors

(* The repository is made exactly from the configurations that define each *)
(* declared query once and nothing else, start with a header, and name     *)
(* only parameters the query has; and it has a text for each of them       *)
(* (make_query_repository and its checks).                                 *)
AcceptsWellFormed ==
    repository # None =>
        LET lines == repository.conf.lines
            decls == repository.conf.decls
            headers == SelectSeq(lines, LAMBDA l : l.k = "header")
            Names(s) == {s[i].name : i \in DOMAIN s}
            Known(d, e) == ~IsParam(e) \/ e.param \in ToSet(d.members)
                           \/ (d.members = <<>> /\ e.param \in DOMAIN Numbers
                                                /\ Numbers[e.param] < d.size)
            good == /\ Cardinality(Names(decls)) = Len(decls)
                    /\ Cardinality(Names(headers)) = Len(headers)
                    /\ Names(headers) = Names(decls)
                    /\ \A i \in DOMAIN lines :
                          /\ lines[i].k # "refused"
                          /\ lines[i].k = "text" => \E j \in 1..i : lines[j].k = "header"
                    /\ \A i \in DOMAIN decls :
                          \A e \in ToSet(Definition(lines, decls[i].name)) : Known(decls[i], e)
        IN  /\ (repository.err = "none") <=> good
            /\ good => Names(repository.descriptions) = Names(decls)

(* An array of nullable elements of static size, some null and some not.   *)
Mixed(p) ==
    LET u == unwrap(p.t)
    IN  /\ p.v # Null /\ IsArray(u)
        /\ StaticSize(u.of)
        /\ \E i \in DOMAIN p.v.e : (p.v.e[i] = Null) # (p.v.e[1] = Null)

(* The SQL value c is what the C++ value v stands for.  An empty string    *)
(* has no bytes and is sent as a null (binary_query.h:166).                *)
Arrived(v, c) ==
    CASE v.k = "span" -> /\ c.k = "interval" /\ c.months = 0
                         /\ c.us + DayMicros * c.days = v.us
      [] v.k = "text" -> c = (IF v.s = <<>> THEN Null ELSE v)
      [] OTHER -> c = v

(* Every placeholder of the query reaches the database as the value the    *)
(* author of the query named there, whatever the other parameters are and  *)
(* however often it is used; only an array with a mixture of nulls is      *)
(* refused (query_conf, query_builder, binary_query, send, size_of).       *)
(* (And every variable has its type.)                                      *)
ParametersArrive ==
    /\ TypeOK
    /\ answer # None =>
          IF answer.refused THEN \E i \in DOMAIN query.q.params : Mixed(query.q.params[i])
          ELSE /\ Len(answer.names) = Len(query.meant)
               /\ \A j \in DOMAIN query.meant : Arrived(query.meant[j].v, answer.rows[1][j].v)

(* A C++ type can hold a value of an SQL type.  std::array accepts an      *)
(* empty array too: recv_array returns before it looks at the size.        *)
RECURSIVE Holds(_, _, _)
Holds(t, st, v) ==
    LET u == unwrap(t)
    IN  IF v = Null THEN Nullable(t)
        ELSE /\ u.oid = type_oid(st)
             /\ v.k # "table"
             /\ v.k = "list" => /\ \A i \in DOMAIN v.e : Holds(u.of, unwrap(st).of, v.e[i])
                                /\ u.k = "array" => Len(v.e) \in {0, u.n}
             /\ v.k = "row" => /\ Len(u.of) = Len(unwrap(st).of)
                               /\ \A i \in DOMAIN u.of : Holds(u.of[i], unwrap(st).of[i], v.e[i])

Source(j) == IF out.o.form = "struct" THEN find(Row(answer, 1), out.o.names[j]) ELSE j

(* A result is received exactly when every column there is, in every row,  *)
(* fits the object it goes to: by oid, nullability, dimensions, number of  *)
(* fields and size (recv, recv_row, recv_array, recv_composite).           *)
AcceptsWhatFits ==
    out # None =>
        ((out.err = "none") <=>
            /\ Len(out.o.types) = Len(answer.names)
            /\ \A j \in DOMAIN out.o.types :
                  /\ Source(j) <= Len(answer.names)
                  /\ \A i \in DOMAIN answer.rows :
                        LET c == answer.rows[i][Source(j)] IN Holds(out.o.types[j], c.t, c.v))

Total(i) == DayMicros * (30 * i.months + i.days) + i.us

(* The two days beyond the range where the sums of to_chrono_duration      *)
(* overflow themselves.                                                    *)
EdgeDays(i) ==
    LET days == 30 * i.months + i.days + Quot(i.us, DayMicros)
        surplus == Rem(i.us, DayMicros)
    IN  \/ days = Quot(MinMicros, DayMicros) - 1 /\ surplus < Rem(MinMicros, DayMicros)
        \/ days = Quot(MaxMicros, DayMicros) + 1 /\ surplus > Rem(MaxMicros, DayMicros)

(* An interval is received as its length, and one out of the range of      *)
(* std::chrono::microseconds as the end of the range on its side           *)
(* (to_chrono_duration), but for the two days above.                       *)
IntervalClamped(c, got) ==
    /\ got.k = "span"
    /\ EdgeDays(c) \/ got.us = (IF Total(c) < MinMicros THEN MinMicros
                                ELSE IF Total(c) > MaxMicros THEN MaxMicros
                                ELSE Total(c))

(* Row i of the answer is what was received.  An empty array leaves what   *)
(* the object held.                                                        *)
ReceivedRow(i) ==
    \A j \in DOMAIN out.o.types :
        LET c == answer.rows[i][Source(j)].v
            got == out.rows[i][j]
            kept == out.o.mode = "forward" \/ unwrap(out.o.types[j]).k = "array"
        IN  IF c.k = "interval" THEN IntervalClamped(c, got)
            ELSE IF c.k = "list" /\ c.e = <<>> /\ kept THEN got.k = "list"
            ELSE got = c

(* A received result is the one the database sent: each row, and in it     *)
(* each column by its position or its name, in a new object or in one that *)
(* was used before.  When a row cannot be received, a container holds the  *)
(* rows before it, whole, and nothing of the row itself (recv_result,      *)
(* recv_row, recv, ozo::into).                                             *)
RoundTrip ==
    out # None /\ (out.err = "none" \/ out.o.mode = "insert") =>
        /\ IF out.err = "none" THEN Len(out.rows) = Len(answer.rows)
                               ELSE Len(out.rows) < Len(answer.rows)
        /\ \A i \in DOMAIN out.rows : ReceivedRow(i)

(* The size of a parameter is the number of bytes sent for it              *)
(* (binary_query.h:82, size_of.h:84).                                      *)
SizeIsLength ==
    bin # None =>
        \A i \in DOMAIN bin.lengths :
            LET p == query.q.params[i] IN bin.lengths[i] = Len(send(p.t, p.v))
=============================================================================
