---------------------- MODULE MiddlewareServerProofs ----------------------
(***************************************************************************)
(* Machine-checked proofs about the C++ middleware and its client, for any *)
(* number of clients, requests and cuts of the stream, any buffer that a   *)
(* request fits in, any table and any pool of database connections.        *)
(***************************************************************************)
EXTENDS MiddlewareServer, SequenceTheorems, TLAPS

KindSet == {"attach", "get", "lookup"}
Parts == {"h1", "h2", "h3", "type", "unset", "count", "body", "beyond", "answer", "zero"}

\* The units of the first n requests and of the server's own: what stands where
\* a type should is the type of some request.
UnitsUpTo(n) == {u \in [id : 0..n, part : Parts] : u.part = "type" => u.id # 0}

Shapes ==
    /\ DOMAIN cpc = Clients /\ DOMAIN sent = Clients /\ DOMAIN todo = Clients
    /\ DOMAIN wire = Clients /\ DOMAIN back = Clients /\ DOMAIN st = Clients
    /\ DOMAIN buf = Clients /\ DOMAIN index = Clients /\ DOMAIN msg_size = Clients
    /\ DOMAIN header_size = Clients /\ DOMAIN msg = Clients
    /\ torn \in [Clients -> BOOLEAN] /\ failed \in [Clients -> BOOLEAN] /\ accepting \in BOOLEAN

IsSequence(s) == s \in Seq({s[i] : i \in DOMAIN s})

\* What holds of every client, however its stream was cut.
Typed(c) ==
    /\ cpc[c] \in {"start", "idle", "waiting", "undefined", "gone"}
    /\ IsSequence(sent[c]) /\ \A i \in DOMAIN sent[c] : sent[c][i].kind \in KindSet
    /\ wire[c] \in Seq(UnitsUpTo(Len(sent[c])))
    /\ buf[c] \in [1..BUFFER_SIZE -> UnitsUpTo(Len(sent[c]))]
    /\ index[c] \in 0..BUFFER_SIZE /\ header_size[c] \in {2, 3}
    /\ msg_size[c] \in GarbageSizes \cup {0, 4, 5}
    /\ st[c] \in {"none", "reading", "database", "posted", "writing", "closed"}
    /\ st[c] \in {"database", "posted", "writing"} => msg[c].kind \in KindSet

\* A client attaches first and once, and only fetches by name.
Asked(c) ==
    \A i \in DOMAIN sent[c] :
        /\ sent[c][i].kind = "attach" <=> i = 1
        /\ sent[c][i].kind # "get" => sent[c][i].name = Null

Request(c) == sent[c][Len(sent[c])]
Frame(c) == encode(Len(sent[c]), Request(c).kind)
Answers(c, a) == a.kind = Request(c).kind /\ a.name = Request(c).name

\* Nothing of an old frame is left, and the next header is a long one.
Ready(c) == wire[c] = <<>> /\ index[c] = 0 /\ header_size[c] = 3 /\ msg_size[c] \in {4, 5}

\* The request is on its way: what the server has of it and what is on the wire
\* make up the frame.
Arriving(c) ==
    /\ st[c] \in {"none", "reading"} /\ back[c] = Null
    /\ header_size[c] = Len(Header(0, Request(c).kind))
    /\ IF Request(c).kind = "attach" THEN index[c] \in {0, 2, 3}
       ELSE index[c] \in 0..4 /\ msg_size[c] \in {4, 5}
    /\ wire[c] = SubSeq(Frame(c), index[c] + 1, Len(Frame(c)))
    /\ \A j \in 1..index[c] : buf[c][j] = Frame(c)[j]

\* The server has the request, or the response it made of it.
Working(c) ==
    /\ st[c] \in {"database", "posted", "writing"} /\ Ready(c) /\ back[c] = Null
    /\ Answers(c, msg[c])
    /\ st[c] = "database" /\ Request(c).kind = "lookup" => msg[c].counted

\* The answer is on its way back.
Answered(c) == st[c] = "reading" /\ Ready(c) /\ Answers(c, back[c])

\* The connection failed, perhaps with an answer on its way.
Broken(c) == st[c] = "closed" /\ failed[c] /\ (back[c] = Null \/ Answers(c, back[c]))

Starting(c) ==
    /\ sent[c] = <<>> /\ wire[c] = <<>> /\ st[c] = "none" /\ back[c] = Null
    /\ index[c] = 0 /\ header_size[c] = 2
Resting(c) ==
    /\ Len(sent[c]) >= 1 /\ back[c] = Null
    /\ \/ st[c] = "reading" /\ Ready(c)
       \/ st[c] = "closed" /\ failed[c]
Waiting(c) ==
    /\ Len(sent[c]) >= 1
    /\ Arriving(c) \/ Working(c) \/ Answered(c) \/ Broken(c)

\* Where a client is that nobody's cut has put out of step.
Tracked(c) ==
    /\ Asked(c)
    /\ cpc[c] = "start" => Starting(c)
    /\ cpc[c] = "idle" => Resting(c)
    /\ cpc[c] = "waiting" => Waiting(c)

ClientInv(c) == Typed(c) /\ (~torn[c] => Tracked(c))

\* The inductive invariant.
Inv == Shapes /\ \A c \in Clients : ClientInv(c)

-----------------------------------------------------------------------------

(* Frames. *)

\* t is p, then q, then r.
InARow(t, p, q, r) ==
    /\ Len(t) = Len(p) + Len(q) + Len(r)
    /\ \A i \in 1..Len(p) : t[i] = p[i]
    /\ \A i \in 1..Len(q) : t[Len(p) + i] = q[i]
    /\ \A i \in 1..Len(r) : t[Len(p) + Len(q) + i] = r[i]

\* What the concatenation of three sequences holds.
LEMMA ThreeInARow ==
    ASSUME NEW X, NEW p \in Seq(X), NEW q \in Seq(X), NEW r \in Seq(X)
    PROVE  (p \o q) \o r \in Seq(X) /\ InARow((p \o q) \o r, p, q, r)
<1>1. p \o q \in Seq(X) /\ Len(p \o q) = Len(p) + Len(q)
  BY ConcatProperties
<1>2. Len(p) \in Nat /\ Len(q) \in Nat /\ Len(r) \in Nat
  BY LenProperties
<1>3. \A i \in 1..(Len(p) + Len(q)) : (p \o q)[i] = IF i <= Len(p) THEN p[i] ELSE q[i - Len(p)]
  BY ConcatProperties
<1>4. (p \o q) \o r \in Seq(X) /\ Len((p \o q) \o r) = Len(p) + Len(q) + Len(r)
  BY <1>1, ConcatProperties
<1>5. \A i \in 1..(Len(p) + Len(q) + Len(r)) : ((p \o q) \o r)[i] =
          IF i <= Len(p) + Len(q) THEN (p \o q)[i] ELSE r[i - (Len(p) + Len(q))]
  BY <1>1, ConcatProperties
<1> DEFINE a == Len(p)
           b == Len(q)
           d == Len(r)
           s == p \o q
           t == s \o r
<1>6. a \in Nat /\ b \in Nat /\ d \in Nat
  BY <1>2
<1>7. \A i \in 1..(a + b) : s[i] = IF i <= a THEN p[i] ELSE q[i - a]
  BY <1>3
<1>8. \A i \in 1..(a + b + d) : t[i] = IF i <= a + b THEN s[i] ELSE r[i - (a + b)]
  BY <1>5
<1> HIDE DEF a, b, d, s, t
<1>9. \A i \in 1..a : t[i] = p[i]
  BY <1>6, <1>7, <1>8
<1>10. ASSUME NEW i \in 1..b PROVE t[a + i] = q[i]
  <2>1. a + i \in 1..(a + b) /\ a + i \in 1..(a + b + d) /\ ~(a + i <= a) /\ (a + i) - a = i /\ a + i <= a + b
    BY <1>6
  <2>. QED BY <1>7, <1>8, <2>1
<1>11. ASSUME NEW i \in 1..d PROVE t[a + b + i] = r[i]
  <2>1. a + b + i \in 1..(a + b + d) /\ ~(a + b + i <= a + b) /\ (a + b + i) - (a + b) = i
    BY <1>6
  <2>. QED BY <1>8, <2>1
<1>. QED BY <1>4, <1>9, <1>10, <1>11 DEF InARow, a, b, d, s, t

\* A unit of a request has its type.
LEMMA UnitTyped ==
    ASSUME NEW id \in Nat \ {0}, NEW part \in Parts
    PROVE  Unit(id, part) \in UnitsUpTo(id)
BY DEF UnitsUpTo, Unit

\* The units of an attach request, of a request by name and of a lookup, as
\* encode() puts them on the wire.
LEMMA FrameUnits ==
    ASSUME NEW id \in Nat \ {0}, NEW kind \in KindSet
    PROVE  LET F == encode(id, kind)  h == Len(Header(id, kind)) IN
           /\ F \in Seq(UnitsUpTo(id))
           /\ h = (IF kind = "attach" THEN 2 ELSE 3)
           /\ Len(F) = IF kind = "lookup" THEN h + 5 ELSE h + 4
           /\ F[1] = Unit(id, "h1") /\ F[2] = Unit(id, "h2") /\ (kind # "attach" => F[3] = Unit(id, "h3"))
           /\ F[h + 1] = Unit(id, "type")
           /\ kind # "lookup" => /\ F[h + 2] = Unit(id, "body") /\ F[h + 3] = Unit(id, "beyond")
                                 /\ F[h + 4] = Unit(id, "beyond")
           /\ kind = "lookup" => /\ F[h + 2] = Unit(id, "unset") /\ F[h + 3] = Unit(id, "count")
                                 /\ F[h + 4] = Unit(id, "beyond") /\ F[h + 5] = Unit(id, "beyond")
<1> DEFINE U == UnitsUpTo(id)
           H == Header(id, kind)
           B == CASE kind = "attach" -> attach_request(id)
                  [] kind = "get" -> getbyname_request(id)
                  [] kind = "lookup" -> lookup_request(id)
           E == <<Unit(id, "beyond"), Unit(id, "beyond")>>
<1>1. /\ Unit(id, "h1") \in U /\ Unit(id, "h2") \in U /\ Unit(id, "h3") \in U /\ Unit(id, "type") \in U
      /\ Unit(id, "body") \in U /\ Unit(id, "unset") \in U /\ Unit(id, "count") \in U
      /\ Unit(id, "beyond") \in U
  <2>1. \A part \in Parts : Unit(id, part) \in U
    BY UnitTyped
  <2> HIDE DEF U
  <2>. QED BY <2>1 DEF Parts
<1> HIDE DEF U
<1>2. /\ H \in Seq(U) /\ H[1] = Unit(id, "h1") /\ H[2] = Unit(id, "h2")
      /\ Len(H) = (IF kind = "attach" THEN 2 ELSE 3)
      /\ kind # "attach" => H[3] = Unit(id, "h3")
  BY <1>1 DEF Header
<1>3. /\ B \in Seq(U) /\ Len(B) = (IF kind = "lookup" THEN 3 ELSE 2) /\ B[1] = Unit(id, "type")
      /\ kind # "lookup" => B[2] = Unit(id, "body")
      /\ kind = "lookup" => B[2] = Unit(id, "unset") /\ B[3] = Unit(id, "count")
  <2>1. CASE kind = "attach"
    BY <1>1, <2>1 DEF attach_request
  <2>2. CASE kind = "get"
    BY <1>1, <2>2 DEF getbyname_request
  <2>3. CASE kind = "lookup"
    BY <1>1, <2>3 DEF lookup_request
  <2>. QED BY <2>1, <2>2, <2>3 DEF KindSet
<1>4. E \in Seq(U) /\ Len(E) = 2 /\ E[1] = Unit(id, "beyond") /\ E[2] = Unit(id, "beyond")
  BY <1>1
<1>5. encode(id, kind) = (H \o B) \o E
  BY DEF encode
<1> HIDE DEF H, B, E
<1> DEFINE F == encode(id, kind)
<1>6. /\ F \in Seq(U) /\ Len(F) = Len(H) + Len(B) + Len(E)
      /\ \A i \in 1..Len(H) : F[i] = H[i]
      /\ \A i \in 1..Len(B) : F[Len(H) + i] = B[i]
      /\ \A i \in 1..Len(E) : F[Len(H) + Len(B) + i] = E[i]
  <2> DEFINE G == (H \o B) \o E
  <2>1. /\ G \in Seq(U) /\ Len(G) = Len(H) + Len(B) + Len(E)
        /\ \A i \in 1..Len(H) : G[i] = H[i]
        /\ \A i \in 1..Len(B) : G[Len(H) + i] = B[i]
        /\ \A i \in 1..Len(E) : G[Len(H) + Len(B) + i] = E[i]
    <3>1. H \in Seq(U) /\ B \in Seq(U) /\ E \in Seq(U)
      BY <1>2, <1>3, <1>4
    <3>2. G \in Seq(U) /\ InARow(G, H, B, E)
      BY <3>1, ThreeInARow
    <3> HIDE DEF G
    <3>. QED BY <3>2 DEF InARow
  <2>2. F = G
    BY <1>5
  <2> HIDE DEF F, G
  <2>. QED BY <2>1, <2>2
<1> HIDE DEF F
<1>7. /\ 1 \in 1..Len(H) /\ 2 \in 1..Len(H) /\ (kind # "attach" => 3 \in 1..Len(H))
      /\ 1 \in 1..Len(B) /\ 2 \in 1..Len(B) /\ (kind = "lookup" => 3 \in 1..Len(B))
      /\ 1 \in 1..Len(E) /\ 2 \in 1..Len(E)
  BY <1>2, <1>3, <1>4
<1>8. /\ F[1] = Unit(id, "h1") /\ F[2] = Unit(id, "h2") /\ (kind # "attach" => F[3] = Unit(id, "h3"))
      /\ F[Len(H) + 1] = B[1] /\ F[Len(H) + 2] = B[2] /\ (kind = "lookup" => F[Len(H) + 3] = B[3])
      /\ F[Len(H) + Len(B) + 1] = E[1] /\ F[Len(H) + Len(B) + 2] = E[2]
  BY <1>2, <1>6, <1>7
<1>9. CASE kind = "lookup"
  <2>1. Len(H) = 3 /\ Len(B) = 3
    BY <1>2, <1>3, <1>9
  <2>. QED BY <1>2, <1>3, <1>4, <1>6, <1>8, <1>9, <2>1 DEF F, H, U
<1>10. CASE kind # "lookup"
  <2>1. Len(H) \in {2, 3} /\ Len(B) = 2
    BY <1>2, <1>3, <1>10
  <2>. QED BY <1>2, <1>3, <1>4, <1>6, <1>8, <1>10, <2>1 DEF F, H, U
<1>. QED BY <1>9, <1>10

\* Units of the first m requests are units of the first n, if n is not less.
LEMMA UnitsGrow ==
    ASSUME NEW m \in Nat, NEW n \in Nat, m <= n
    PROVE  /\ \A u \in UnitsUpTo(m) : u \in UnitsUpTo(n)
           /\ \A s \in Seq(UnitsUpTo(m)) : s \in Seq(UnitsUpTo(n))
           /\ \A b \in [1..BUFFER_SIZE -> UnitsUpTo(m)] : b \in [1..BUFFER_SIZE -> UnitsUpTo(n)]
<1>1. \A u \in UnitsUpTo(m) : u \in UnitsUpTo(n)
  <2>1. \A i \in 0..m : i \in 0..n
    OBVIOUS
  <2>. QED BY <2>1 DEF UnitsUpTo
<1>. QED BY <1>1

-----------------------------------------------------------------------------
(* What a step of one client leaves alone. *)

Same(d) ==
    /\ cpc'[d] = cpc[d] /\ sent'[d] = sent[d] /\ wire'[d] = wire[d] /\ back'[d] = back[d]
    /\ st'[d] = st[d] /\ buf'[d] = buf[d] /\ index'[d] = index[d] /\ msg_size'[d] = msg_size[d]
    /\ header_size'[d] = header_size[d] /\ msg'[d] = msg[d]
    /\ (torn'[d] <=> torn[d]) /\ (failed'[d] <=> failed[d])

\* A step on the connection of c is no step of another.
Only(c) == Shapes' /\ \A d \in Clients : d # c => Same(d)

\* A client whose variables stay keeps its part of the invariant.
LEMMA SameKeeps ==
    ASSUME NEW d, Same(d), ClientInv(d)
    PROVE  ClientInv(d)'
<1>1. Typed(d)'
  BY DEF Same, ClientInv, Typed, IsSequence
<1>2. Request(d)' = Request(d) /\ Frame(d)' = Frame(d)
  BY DEF Same, Request, Frame
<1>3. Asked(d)' <=> Asked(d)
  BY DEF Same, Asked
<1>4. (Arriving(d)' <=> Arriving(d)) /\ (Starting(d)' <=> Starting(d))
  BY <1>2 DEF Same, Arriving, Starting
<1>5. /\ Working(d)' <=> Working(d)
      /\ Answered(d)' <=> Answered(d)
      /\ Broken(d)' <=> Broken(d)
      /\ Resting(d)' <=> Resting(d)
  BY <1>2 DEF Same, Working, Answered, Broken, Resting, Ready, Answers
<1>. QED BY <1>1, <1>3, <1>4, <1>5 DEF ClientInv, Tracked, Waiting, Same

\* The invariant is kept by a step of c that keeps the part of c.
LEMMA OnlyKeeps ==
    ASSUME Inv, NEW c \in Clients, Only(c), ClientInv(c)'
    PROVE  Inv'
BY SameKeeps DEF Inv, Only

-----------------------------------------------------------------------------
(* The client sends a request. *)

\* A sequence one element longer.
LEMMA AppendSequence ==
    ASSUME NEW s, IsSequence(s), NEW e
    PROVE  /\ IsSequence(Append(s, e)) /\ Len(s) \in Nat /\ Len(Append(s, e)) = Len(s) + 1
           /\ \A i \in 1..Len(s) : Append(s, e)[i] = s[i]
           /\ Append(s, e)[Len(s) + 1] = e
           /\ DOMAIN Append(s, e) = 1..(Len(s) + 1) /\ DOMAIN s = 1..Len(s)
<1> DEFINE X == {s[i] : i \in DOMAIN s}
           Y == X \cup {e}
<1>1. s \in Seq(X)
  BY DEF IsSequence
<1> HIDE DEF X
<1>2. s \in Seq(Y) /\ e \in Y
  BY <1>1
<1> HIDE DEF Y
<1> DEFINE t == Append(s, e)
<1>3. /\ t \in Seq(Y) /\ Len(t) = Len(s) + 1 /\ Len(s) \in Nat
      /\ \A i \in 1..Len(s) : t[i] = s[i]
      /\ t[Len(s) + 1] = e
      /\ DOMAIN t = 1..(Len(s) + 1) /\ DOMAIN s = 1..Len(s)
  BY <1>2, AppendProperties, LenProperties
<1> HIDE DEF t
<1>4. IsSequence(t)
  <2> DEFINE Z == {t[i] : i \in DOMAIN t}
  <2>1. \A i \in DOMAIN t : t[i] \in Z
    OBVIOUS
  <2> HIDE DEF Z
  <2>2. t \in [1..Len(t) -> Z]
    BY <1>3, <2>1
  <2>3. t \in Seq(Z)
    BY <1>3, <2>2
  <2>. QED BY <2>3 DEF IsSequence, Z
<1>. QED BY <1>3, <1>4 DEF t

\* What asio::write of a request does to the client's part of the state.
LEMMA Sends ==
    ASSUME Inv, NEW c \in Clients, NEW kind \in KindSet, NEW name, Send(c, kind, name),
           DOMAIN todo' = Clients, UNCHANGED <<back, st, bufVars, msg, accepting, causes>>
    PROVE  /\ Only(c) /\ Typed(c)' /\ cpc'[c] = "waiting"
           /\ Len(sent[c]) \in Nat /\ DOMAIN sent[c] = 1..Len(sent[c])
           /\ Len(sent'[c]) = Len(sent[c]) + 1 /\ DOMAIN sent'[c] = 1..(Len(sent[c]) + 1)
           /\ \A i \in 1..Len(sent[c]) : sent'[c][i] = sent[c][i]
           /\ sent'[c][Len(sent[c]) + 1] = [kind |-> kind, name |-> name]
           /\ wire[c] = <<>> => wire'[c] = encode(Len(sent'[c]), kind)
<1> DEFINE n == Len(sent[c])
           r == [kind |-> kind, name |-> name]
           F == encode(n + 1, kind)
<1>1. /\ sent' = [sent EXCEPT ![c] = Append(sent[c], r)]
      /\ wire' = [wire EXCEPT ![c] = wire[c] \o F]
      /\ cpc' = [cpc EXCEPT ![c] = "waiting"]
  BY DEF Send
<1> HIDE DEF r, F
<1>2. Shapes /\ Typed(c)
  BY DEF Inv, ClientInv
<1>3. Only(c)
  BY <1>1, <1>2 DEF Only, Shapes, Same, bufVars, causes
<1>4. /\ sent'[c] = Append(sent[c], r) /\ wire'[c] = wire[c] \o F /\ cpc'[c] = "waiting"
  BY <1>1, <1>2 DEF Shapes
<1>5. /\ IsSequence(sent'[c]) /\ n \in Nat /\ Len(sent'[c]) = n + 1
      /\ \A i \in 1..n : sent'[c][i] = sent[c][i]
      /\ sent'[c][n + 1] = r
      /\ DOMAIN sent'[c] = 1..(n + 1) /\ DOMAIN sent[c] = 1..n
  BY <1>2, <1>4, AppendSequence DEF Typed
<1>6. F \in Seq(UnitsUpTo(n + 1))
  BY <1>5, FrameUnits DEF F
<1>7. wire[c] \in Seq(UnitsUpTo(n + 1)) /\ buf[c] \in [1..BUFFER_SIZE -> UnitsUpTo(n + 1)]
  <2>1. wire[c] \in Seq(UnitsUpTo(n)) /\ buf[c] \in [1..BUFFER_SIZE -> UnitsUpTo(n)]
    BY <1>2 DEF Typed
  <2> HIDE DEF n
  <2>2. n + 1 \in Nat /\ n \in Nat /\ n <= n + 1
    BY <1>5
  <2>. QED BY <2>1, <2>2, UnitsGrow
<1>8. wire'[c] \in Seq(UnitsUpTo(n + 1))
  BY <1>4, <1>6, <1>7, ConcatProperties
<1>9. wire[c] = <<>> => wire'[c] = F
  BY <1>4, <1>6, ConcatEmptySeq
<1>10. \A i \in DOMAIN sent'[c] : sent'[c][i].kind \in KindSet
  <2>1. r.kind = kind
    BY DEF r
  <2>2. \A i \in 1..n : sent[c][i].kind \in KindSet
    BY <1>2, <1>5 DEF Typed
  <2>. QED BY <1>5, <2>1, <2>2
<1>11. Typed(c)'
  BY <1>2, <1>4, <1>5, <1>7, <1>8, <1>10 DEF Typed, bufVars
<1>. QED BY <1>3, <1>4, <1>5, <1>9, <1>11 DEF r, F

\* After a send from a state in which nothing of an older request is left the
\* frame is arriving.
LEMMA ArrivesAfterSend ==
    ASSUME Inv, NEW c \in Clients, NEW kind \in KindSet, NEW name, Send(c, kind, name),
           DOMAIN todo' = Clients, UNCHANGED <<back, st, bufVars, msg, accepting, causes>>,
           wire[c] = <<>>, index[c] = 0, back[c] = Null, st[c] \in {"none", "reading"},
           header_size[c] = IF kind = "attach" THEN 2 ELSE 3,
           kind # "attach" => msg_size[c] \in {4, 5}
    PROVE  Arriving(c)'
<1>1. /\ Len(sent[c]) \in Nat /\ Len(sent'[c]) = Len(sent[c]) + 1
      /\ sent'[c][Len(sent[c]) + 1] = [kind |-> kind, name |-> name]
      /\ wire'[c] = encode(Len(sent'[c]), kind)
  BY Sends
<1> DEFINE n == Len(sent'[c])
           F == encode(n, kind)
<1>2. Request(c)'.kind = kind /\ Frame(c)' = F
  BY <1>1 DEF Request, Frame
<1>3. n \in Nat \ {0}
  BY <1>1
<1>4. F \in Seq(UnitsUpTo(n))
  BY <1>3, FrameUnits
<1>5. wire'[c] = F
  BY <1>1
<1> HIDE DEF n, F
<1>6. wire'[c] = SubSeq(F, 0 + 1, Len(F))
  BY <1>4, <1>5, SubSeqFull
<1>7. Len(Header(0, kind)) = IF kind = "attach" THEN 2 ELSE 3
  BY DEF Header
<1>8. /\ index'[c] = 0 /\ back'[c] = Null /\ st'[c] = st[c] /\ header_size'[c] = header_size[c]
      /\ msg_size'[c] = msg_size[c]
  BY DEF bufVars
<1>. QED BY <1>2, <1>6, <1>7, <1>8 DEF Arriving

\* attach() is the first request, and the only one of its kind.
LEMMA AttachKeeps ==
    ASSUME Inv, NEW c \in Clients, attach(c)
    PROVE  Inv'
<1>0. attach(c)
  OBVIOUS
<1>1. /\ cpc[c] = "start" /\ Send(c, "attach", Null) /\ DOMAIN todo' = Clients
      /\ UNCHANGED <<back, st, bufVars, msg, accepting, causes>>
  BY DEF attach, Inv, Shapes
<1>2. /\ Only(c) /\ Typed(c)' /\ cpc'[c] = "waiting"
      /\ Len(sent[c]) \in Nat /\ DOMAIN sent[c] = 1..Len(sent[c])
      /\ Len(sent'[c]) = Len(sent[c]) + 1 /\ DOMAIN sent'[c] = 1..(Len(sent[c]) + 1)
      /\ sent'[c][Len(sent[c]) + 1] = [kind |-> "attach", name |-> Null]
  BY <1>1, Sends DEF KindSet
<1>3. ASSUME ~torn'[c] PROVE Tracked(c)'
  <2>1. Starting(c)
    BY <1>1, <1>3 DEF Inv, ClientInv, Tracked, causes
  <2>2. Arriving(c)'
    BY <1>1, <2>1, ArrivesAfterSend DEF Starting, KindSet
  <2>3. Asked(c)'
    <3>1. Len(sent[c]) = 0
      BY <2>1 DEF Starting
    <3>2. DOMAIN sent'[c] = 1..1 /\ sent'[c][1] = [kind |-> "attach", name |-> Null]
      BY <1>2, <3>1
    <3>. QED BY <3>2 DEF Asked
  <2>. QED BY <1>2, <2>2, <2>3 DEF Tracked, Waiting
<1>. QED BY <1>2, <1>3, OnlyKeeps DEF ClientInv

\* A lookup or a request by name follows the attach.
LEMMA RequestKeeps ==
    ASSUME Inv, NEW c \in Clients, cpc[c] = "idle", NEW kind \in {"lookup", "get"}, NEW name,
           kind = "lookup" => name = Null, Send(c, kind, name),
           DOMAIN todo' = Clients, UNCHANGED <<back, st, bufVars, msg, accepting, causes>>
    PROVE  Inv'
<1>1. kind \in KindSet
  BY DEF KindSet
<1>2. /\ Only(c) /\ Typed(c)' /\ cpc'[c] = "waiting"
      /\ Len(sent[c]) \in Nat /\ DOMAIN sent[c] = 1..Len(sent[c])
      /\ Len(sent'[c]) = Len(sent[c]) + 1 /\ DOMAIN sent'[c] = 1..(Len(sent[c]) + 1)
      /\ \A i \in 1..Len(sent[c]) : sent'[c][i] = sent[c][i]
      /\ sent'[c][Len(sent[c]) + 1] = [kind |-> kind, name |-> name]
  BY <1>1, Sends
<1>3. ASSUME ~torn'[c] PROVE Tracked(c)'
  <2>1. Resting(c) /\ Asked(c)
    BY <1>3 DEF Inv, ClientInv, Tracked, causes
  <2>2. Asked(c)'
    <3>1. Len(sent[c]) + 1 # 1
      BY <1>2, <2>1 DEF Resting
    <3>2. \A i \in 1..Len(sent[c]) : /\ sent'[c][i].kind = "attach" <=> i = 1
                                     /\ sent'[c][i].kind # "get" => sent'[c][i].name = Null
      BY <1>2, <2>1 DEF Asked
    <3>. QED BY <1>2, <3>1, <3>2 DEF Asked
  <2>3. CASE st[c] = "reading" /\ Ready(c)
    <3>1. Arriving(c)'
      BY <1>1, <2>1, <2>3, ArrivesAfterSend DEF Resting, Ready
    <3>. QED BY <1>2, <2>2, <3>1 DEF Tracked, Waiting
  <2>4. CASE st[c] = "closed" /\ failed[c]
    <3>1. Broken(c)'
      BY <2>1, <2>4 DEF Resting, Broken, causes
    <3>. QED BY <1>2, <2>2, <3>1 DEF Tracked, Waiting
  <2>. QED BY <2>1, <2>3, <2>4 DEF Resting
<1>. QED BY <1>2, <1>3, OnlyKeeps DEF ClientInv

\* lookup() and getSecurity() send while nothing is on its way.
LEMMA LookupKeeps ==
    ASSUME Inv, NEW c \in Clients, lookup(c) \/ getSecurity(c)
    PROVE  Inv'
<1>1. CASE lookup(c)
  <2>1. /\ cpc[c] = "idle" /\ Send(c, "lookup", Null) /\ DOMAIN todo' = Clients
        /\ UNCHANGED <<back, st, bufVars, msg, accepting, causes>>
    BY <1>1 DEF lookup, Inv, Shapes
  <2>. QED BY <2>1, RequestKeeps
<1>2. CASE getSecurity(c)
  <2>1. /\ cpc[c] = "idle" /\ Send(c, "get", Head(todo[c])) /\ DOMAIN todo' = Clients
        /\ UNCHANGED <<back, st, bufVars, msg, accepting, causes>>
    BY <1>2 DEF getSecurity, Inv, Shapes
  <2>. QED BY <2>1, RequestKeeps
<1>. QED BY <1>1, <1>2

-----------------------------------------------------------------------------
(* The client hears of the server, or leaves. *)

\* The answer is taken: nothing is left on the wire or in the buffer.
LEMMA ReceiveKeeps ==
    ASSUME Inv, NEW c \in Clients, receive(c)
    PROVE  Inv'
<1>1. /\ cpc[c] = "waiting" /\ back[c] # Null
      /\ back' = [back EXCEPT ![c] = Null]
      /\ UNCHANGED <<sent, wire, st, bufVars, msg, accepting, causes>>
  BY DEF receive
<1>2. /\ DOMAIN todo' = Clients
      /\ \/ cpc' = [cpc EXCEPT ![c] = "idle"]
         \/ cpc' = [cpc EXCEPT ![c] = "undefined"]
  BY DEF receive, Inv, Shapes
<1>3. Shapes /\ ClientInv(c)
  BY DEF Inv
<1>4. Only(c) /\ cpc'[c] \in {"idle", "undefined"} /\ back'[c] = Null
  BY <1>1, <1>2, <1>3 DEF Only, Shapes, Same, bufVars, causes
<1>5. Typed(c)'
  BY <1>1, <1>3, <1>4 DEF ClientInv, Typed, bufVars, IsSequence
<1>6. ASSUME ~torn'[c] PROVE Tracked(c)'
  <2>1. Waiting(c) /\ Asked(c)
    BY <1>1, <1>3, <1>6 DEF ClientInv, Tracked, causes
  <2>2. Answered(c) \/ Broken(c)
    BY <1>1, <2>1 DEF Waiting, Arriving, Working
  <2>3. Resting(c)'
    BY <1>1, <1>4, <2>1, <2>2 DEF Waiting, Answered, Broken, Resting, Ready, bufVars, causes
  <2>4. Asked(c)'
    BY <1>1, <2>1 DEF Asked
  <2>. QED BY <1>4, <2>3, <2>4 DEF Tracked
<1>. QED BY <1>4, <1>5, <1>6, OnlyKeeps DEF ClientInv

\* A client that takes eof for an answer, or ends, is not followed any further.
LEMMA LeaveKeeps ==
    ASSUME Inv, NEW c \in Clients, receive_eof(c) \/ hang_up(c)
    PROVE  Inv'
<1>1. /\ cpc' = [cpc EXCEPT ![c] = "undefined"] \/ cpc' = [cpc EXCEPT ![c] = "gone"]
      /\ cpc[c] # "start"
      /\ UNCHANGED <<sent, todo, wire, back, st, bufVars, msg, accepting, causes>>
  BY DEF receive_eof, hang_up
<1>2. Shapes /\ ClientInv(c)
  BY DEF Inv
<1>3. Only(c) /\ cpc'[c] \in {"undefined", "gone"}
  BY <1>1, <1>2 DEF Only, Shapes, Same, bufVars, causes
<1>4. Typed(c)'
  BY <1>1, <1>2, <1>3 DEF ClientInv, Typed, bufVars, IsSequence
<1>5. torn'[c] \/ Asked(c)'
  BY <1>1, <1>2 DEF ClientInv, Tracked, Asked, causes
<1>. QED BY <1>3, <1>4, <1>5, OnlyKeeps DEF ClientInv, Tracked

-----------------------------------------------------------------------------
(* The server, apart from its reads. *)

\* The connection is accepted, before or after the request is sent.
LEMMA AcceptKeeps ==
    ASSUME Inv, NEW c \in Clients, accept(c)
    PROVE  Inv'
<1>1. /\ st[c] = "none" /\ cpc[c] # "start" /\ st' = [st EXCEPT ![c] = "reading"]
      /\ UNCHANGED <<clientVars, wire, back, bufVars, msg, accepting, causes>>
  BY DEF accept
<1>2. Shapes /\ ClientInv(c)
  BY DEF Inv
<1>3. Only(c) /\ st'[c] = "reading"
  BY <1>1, <1>2 DEF Only, Shapes, Same, clientVars, bufVars, causes
<1>4. Typed(c)'
  BY <1>1, <1>2, <1>3 DEF ClientInv, Typed, clientVars, bufVars, IsSequence
<1>5. ASSUME ~torn'[c] PROVE Tracked(c)'
  <2>1. Tracked(c)
    BY <1>1, <1>2, <1>5 DEF ClientInv, causes
  <2>2. Request(c)' = Request(c) /\ Frame(c)' = Frame(c) /\ Asked(c)'
    BY <1>1, <2>1 DEF Request, Frame, Tracked, Asked, clientVars
  <2>3. cpc[c] # "idle"
    BY <1>1, <2>1 DEF Tracked, Resting
  <2>4. ASSUME cpc[c] = "waiting" PROVE Waiting(c)'
    <3>1. Arriving(c) /\ Len(sent[c]) >= 1
      BY <1>1, <2>1, <2>4 DEF Tracked, Waiting, Working, Answered, Broken
    <3>2. Arriving(c)'
      BY <1>1, <1>3, <2>2, <3>1 DEF Arriving, bufVars
    <3>. QED BY <1>1, <3>1, <3>2 DEF Waiting, clientVars
  <2>. QED BY <1>1, <2>2, <2>3, <2>4 DEF Tracked, clientVars
<1>. QED BY <1>3, <1>4, <1>5, OnlyKeeps DEF ClientInv

\* The connection fails while it reads, queries or writes: it is closed, and has
\* its cause.
LEMMA FailKeeps ==
    ASSUME Inv, NEW c \in Clients, read_fails(c) \/ query_fails(c) \/ write_fails(c)
    PROVE  Inv'
<1>1. /\ st[c] \in {"reading", "database", "writing"}
      /\ st' = [st EXCEPT ![c] = "closed"] /\ failed' = [failed EXCEPT ![c] = TRUE]
      /\ UNCHANGED <<clientVars, wire, back, bufVars, msg, accepting, torn>>
  BY DEF read_fails, query_fails, write_fails, Dropped
<1>2. Shapes /\ ClientInv(c)
  BY DEF Inv
<1>3. Only(c) /\ st'[c] = "closed" /\ failed'[c]
  BY <1>1, <1>2 DEF Only, Shapes, Same, clientVars, bufVars
<1>4. Typed(c)'
  BY <1>1, <1>2, <1>3 DEF ClientInv, Typed, clientVars, bufVars, IsSequence
<1>5. ASSUME ~torn'[c] PROVE Tracked(c)'
  <2>1. Tracked(c)
    BY <1>1, <1>2, <1>5 DEF ClientInv
  <2>2. Request(c)' = Request(c) /\ Asked(c)'
    BY <1>1, <2>1 DEF Request, Tracked, Asked, clientVars
  <2>3. cpc[c] # "start"
    BY <1>1, <2>1 DEF Tracked, Starting
  <2>4. cpc[c] = "idle" => Resting(c)'
    BY <1>1, <1>3, <2>1 DEF Tracked, Resting, clientVars
  <2>5. ASSUME cpc[c] = "waiting" PROVE Waiting(c)'
    <3>1. Len(sent[c]) >= 1 /\ (back[c] = Null \/ Answers(c, back[c]))
      BY <1>1, <2>1, <2>5 DEF Tracked, Waiting, Arriving, Working, Answered, Broken
    <3>2. Broken(c)'
      BY <1>1, <1>3, <2>2, <3>1 DEF Broken, Answers
    <3>. QED BY <1>1, <3>1, <3>2 DEF Waiting, clientVars
  <2>. QED BY <1>1, <2>2, <2>3, <2>4, <2>5 DEF Tracked, clientVars
<1>. QED BY <1>3, <1>4, <1>5, OnlyKeeps DEF ClientInv

\* The response that takes the place of a message keeps its kind and its name.
LEMMA RespondKeeps ==
    ASSUME Inv, NEW c \in Clients, get_security_done(c) \/ lookup_done(c)
    PROVE  Inv'
<1>1. PICK response :
          /\ st[c] = "database" /\ response.kind = msg[c].kind /\ response.name = msg[c].name
          /\ Respond(c, response)
  BY DEF get_security_done, lookup_done, getbyname_response, lookup_response
<1>2. /\ msg' = [msg EXCEPT ![c] = response] /\ st' = [st EXCEPT ![c] = "posted"]
      /\ UNCHANGED <<clientVars, wire, back, bufVars, accepting, causes>>
  BY <1>1 DEF Respond
<1>3. Shapes /\ ClientInv(c)
  BY DEF Inv
<1>4. Only(c) /\ st'[c] = "posted" /\ msg'[c] = response
  BY <1>2, <1>3 DEF Only, Shapes, Same, clientVars, bufVars, causes
<1>5. Typed(c)'
  BY <1>1, <1>2, <1>3, <1>4 DEF ClientInv, Typed, clientVars, bufVars, IsSequence
<1>6. ASSUME ~torn'[c] PROVE Tracked(c)'
  <2>1. Tracked(c)
    BY <1>2, <1>3, <1>6 DEF ClientInv, causes
  <2>2. Request(c)' = Request(c) /\ Asked(c)'
    BY <1>2, <2>1 DEF Request, Tracked, Asked, clientVars
  <2>3. cpc[c] # "start" /\ cpc[c] # "idle"
    BY <1>1, <2>1 DEF Tracked, Starting, Resting
  <2>4. ASSUME cpc[c] = "waiting" PROVE Waiting(c)'
    <3>1. Len(sent[c]) >= 1 /\ Working(c)
      BY <1>1, <2>1, <2>4 DEF Tracked, Waiting, Arriving, Answered, Broken
    <3>2. Working(c)'
      BY <1>1, <1>2, <1>4, <2>2, <3>1 DEF Working, Answers, Ready, bufVars
    <3>. QED BY <1>2, <3>1, <3>2 DEF Waiting, clientVars
  <2>. QED BY <1>2, <2>2, <2>3, <2>4 DEF Tracked, clientVars
<1>. QED BY <1>4, <1>5, <1>6, OnlyKeeps DEF ClientInv

\* The answer is encoded over the request, of which nothing is needed any more.
LEMMA WriteKeeps ==
    ASSUME Inv, NEW c \in Clients, write(c)
    PROVE  Inv'
<1>1. /\ st[c] = "posted" /\ st' = [st EXCEPT ![c] = "writing"]
      /\ buf' = [buf EXCEPT ![c] = [j \in 1..BUFFER_SIZE |->
                     IF j <= 4 THEN Unit(0, "answer") ELSE buf[c][j]]]
      /\ UNCHANGED <<clientVars, wire, back, index, msg_size, header_size, msg, accepting, causes>>
  BY DEF write
<1>2. Shapes /\ ClientInv(c)
  BY DEF Inv
<1>3. /\ Only(c) /\ st'[c] = "writing"
      /\ buf'[c] = [j \in 1..BUFFER_SIZE |-> IF j <= 4 THEN Unit(0, "answer") ELSE buf[c][j]]
  BY <1>1, <1>2 DEF Only, Shapes, Same, clientVars, causes
<1>4. Typed(c)'
  <2>1. Len(sent[c]) \in Nat
    BY <1>2, LenProperties DEF ClientInv, Typed, IsSequence
  <2>2. Unit(0, "answer") \in UnitsUpTo(Len(sent[c]))
    BY <2>1 DEF UnitsUpTo, Unit, Parts
  <2>3. buf[c] \in [1..BUFFER_SIZE -> UnitsUpTo(Len(sent[c]))]
    BY <1>2 DEF ClientInv, Typed
  <2>4. buf'[c] \in [1..BUFFER_SIZE -> UnitsUpTo(Len(sent[c]))]
    BY <1>3, <2>2, <2>3
  <2>. QED BY <1>1, <1>2, <1>3, <2>4 DEF ClientInv, Typed, clientVars, IsSequence
<1>5. ASSUME ~torn'[c] PROVE Tracked(c)'
  <2>1. Tracked(c)
    BY <1>1, <1>2, <1>5 DEF ClientInv, causes
  <2>2. Request(c)' = Request(c) /\ Asked(c)'
    BY <1>1, <2>1 DEF Request, Tracked, Asked, clientVars
  <2>3. cpc[c] # "start" /\ cpc[c] # "idle"
    BY <1>1, <2>1 DEF Tracked, Starting, Resting
  <2>4. ASSUME cpc[c] = "waiting" PROVE Waiting(c)'
    <3>1. Len(sent[c]) >= 1 /\ Working(c)
      BY <1>1, <2>1, <2>4 DEF Tracked, Waiting, Arriving, Answered, Broken
    <3>2. Working(c)'
      BY <1>1, <1>3, <2>2, <3>1 DEF Working, Answers, Ready
    <3>. QED BY <1>1, <3>1, <3>2 DEF Waiting, clientVars
  <2>. QED BY <1>1, <2>2, <2>3, <2>4 DEF Tracked, clientVars
<1>. QED BY <1>3, <1>4, <1>5, OnlyKeeps DEF ClientInv

\* What encode() of a response sends answers the request the response is of.
LEMMA WrittenKeeps ==
    ASSUME Inv, NEW c \in Clients, write_done(c)
    PROVE  Inv'
<1>1. /\ st[c] = "writing" /\ st' = [st EXCEPT ![c] = "reading"]
      /\ back' = [back EXCEPT ![c] = Answer(msg[c])]
      /\ UNCHANGED <<clientVars, wire, bufVars, msg, accepting, causes>>
  BY DEF write_done
<1>2. Shapes /\ ClientInv(c)
  BY DEF Inv
<1>3. Only(c) /\ st'[c] = "reading" /\ back'[c] = Answer(msg[c])
  BY <1>1, <1>2 DEF Only, Shapes, Same, clientVars, bufVars, causes
<1>4. Typed(c)'
  BY <1>1, <1>2, <1>3 DEF ClientInv, Typed, clientVars, bufVars, IsSequence
<1>5. ASSUME ~torn'[c] PROVE Tracked(c)'
  <2>1. Tracked(c)
    BY <1>1, <1>2, <1>5 DEF ClientInv, causes
  <2>2. Request(c)' = Request(c) /\ Asked(c)'
    BY <1>1, <2>1 DEF Request, Tracked, Asked, clientVars
  <2>3. cpc[c] # "start" /\ cpc[c] # "idle"
    BY <1>1, <2>1 DEF Tracked, Starting, Resting
  <2>4. ASSUME cpc[c] = "waiting" PROVE Waiting(c)'
    <3>1. Len(sent[c]) >= 1 /\ Working(c) /\ Asked(c)
      BY <1>1, <2>1, <2>4 DEF Tracked, Waiting, Arriving, Answered, Broken
    <3>2. Request(c).kind # "get" => Request(c).name = Null
      <4>1. Len(sent[c]) \in DOMAIN sent[c]
        BY <1>2, <3>1, LenProperties DEF ClientInv, Typed, IsSequence
      <4>. QED BY <3>1, <4>1 DEF Asked, Request
    <3>3. msg[c].kind \in KindSet /\ Answers(c, msg[c])
      BY <1>1, <1>2, <3>1 DEF ClientInv, Typed, Working
    <3>4. Answers(c, Answer(msg[c]))
      BY <3>2, <3>3 DEF Answers, Answer, KindSet, attach_encoded, getbyname_encoded, lookup_encoded
    <3>5. Answered(c)'
      BY <1>1, <1>3, <2>2, <3>1, <3>4 DEF Answered, Working, Answers, Ready, bufVars
    <3>. QED BY <1>1, <3>1, <3>5 DEF Waiting, clientVars
  <2>. QED BY <1>1, <2>2, <2>3, <2>4 DEF Tracked, clientVars
<1>. QED BY <1>3, <1>4, <1>5, OnlyKeeps DEF ClientInv

\* The accept loop ends, or nothing happens.
LEMMA StutterKeeps ==
    ASSUME Inv, accept_fails \/ UNCHANGED vars
    PROVE  Inv'
<1>1. \A d \in Clients : Same(d)
  BY DEF accept_fails, vars, Same, clientVars, bufVars, causes
<1>2. Shapes'
  BY DEF Inv, accept_fails, vars, Shapes, clientVars, bufVars, causes
<1>3. \A d \in Clients : ClientInv(d)'
  BY <1>1, SameKeeps DEF Inv
<1>. QED BY <1>2, <1>3 DEF Inv

-----------------------------------------------------------------------------
(* The handler of a read. *)

\* A size is announced by a header or by garbage.
LEMMA SizesTyped ==
    ASSUME NEW c, NEW b, NEW h, NEW size \in Sizes(c, b, h)
    PROVE  size \in GarbageSizes \cup {0, 4, 5}
BY DEF Sizes, Announced

\* Whatever is decoded is one of the three requests, or undefined.
LEMMA KindsTyped ==
    ASSUME NEW c, Typed(c), NEW b \in [1..BUFFER_SIZE -> UnitsUpTo(Len(sent[c]))], NEW h \in {2, 3},
           NEW kind \in Kinds(c, b, h)
    PROVE  kind \in KindSet \cup {"undefined"}
<1>1. Len(sent[c]) \in Nat /\ DOMAIN sent[c] = 1..Len(sent[c])
  BY LenProperties DEF Typed, IsSequence
<1>2. b[h + 1] \in UnitsUpTo(Len(sent[c]))
  BY MiddlewareAssumption
<1>3. b[h + 1].part = "type" => b[h + 1].id \in DOMAIN sent[c]
  BY <1>1, <1>2 DEF UnitsUpTo
<1>4. b[h + 1].part = "type" => sent[c][b[h + 1].id].kind \in KindSet
  BY <1>3 DEF Typed
<1>. QED BY <1>4 DEF Kinds, KindSet

\* What the handler leaves, however the bytes came to be there.
Handled(c) ==
    /\ DOMAIN buf' = Clients /\ DOMAIN index' = Clients /\ DOMAIN msg_size' = Clients
    /\ DOMAIN header_size' = Clients /\ DOMAIN msg' = Clients /\ DOMAIN st' = Clients
    /\ failed' \in [Clients -> BOOLEAN]
    /\ \A d \in Clients : d # c =>
          /\ buf'[d] = buf[d] /\ index'[d] = index[d] /\ msg_size'[d] = msg_size[d]
          /\ header_size'[d] = header_size[d] /\ msg'[d] = msg[d] /\ st'[d] = st[d]
          /\ failed'[d] <=> failed[d]
    /\ index'[c] \in 0..BUFFER_SIZE /\ header_size'[c] \in {2, 3}
    /\ st'[c] \in {"reading", "database", "posted", "closed"}
    /\ st'[c] \in {"database", "posted"} => msg'[c].kind \in KindSet

\* process() decides about this connection only.
LEMMA ProcessMade ==
    ASSUME Shapes, NEW c \in Clients, NEW m, process(c, m)
    PROVE  /\ DOMAIN st' = Clients /\ failed' \in [Clients -> BOOLEAN]
           /\ \A d \in Clients : d # c => st'[d] = st[d] /\ (failed'[d] <=> failed[d])
           /\ \/ st'[c] = "posted" /\ m.kind = "attach"
              \/ st'[c] = "database" /\ m.kind # "attach"
              \/ st'[c] = "closed" /\ failed'[c]
<1>1. CASE m.kind = "attach"
  <2>1. st' = [st EXCEPT ![c] = "posted"] /\ failed' = failed
    BY <1>1 DEF process, attach_process
  <2>. QED BY <1>1, <2>1 DEF Shapes
<1>2. CASE m.kind # "attach" /\ HasConnection
  <2>1. st' = [st EXCEPT ![c] = "database"] /\ failed' = failed
    BY <1>2 DEF process, query_process
  <2>. QED BY <1>2, <2>1 DEF Shapes
<1>3. CASE m.kind # "attach" /\ ~HasConnection
  <2>1. st' = [st EXCEPT ![c] = "closed"] /\ failed' = [failed EXCEPT ![c] = TRUE]
    BY <1>3 DEF process, query_process
  <2>. QED BY <1>3, <2>1 DEF Shapes
<1>. QED BY <1>1, <1>2, <1>3

\* A message that is not there yet is read on.
LEMMA ReadsOn ==
    ASSUME Shapes, NEW c \in Clients, st[c] = "reading", NEW b, NEW i, NEW size,
           Handle(c, b, i, size), ~Complete(i, size, header_size[c])
    PROVE  /\ buf' = [buf EXCEPT ![c] = b] /\ msg_size' = [msg_size EXCEPT ![c] = size]
           /\ index' = [index EXCEPT ![c] = i] /\ UNCHANGED <<st, msg, header_size, failed>>
BY DEF Handle

\* A message that is there is decoded and processed.
LEMMA ReadsMessage ==
    ASSUME Shapes, NEW c \in Clients, NEW b, NEW i, NEW size,
           Handle(c, b, i, size), Complete(i, size, header_size[c])
    PROVE  /\ buf' = [buf EXCEPT ![c] = b] /\ msg_size' = [msg_size EXCEPT ![c] = size]
           /\ index' = [index EXCEPT ![c] = 0]
           /\ \E kind \in Kinds(c, b, header_size[c]) :
                 LET m == Decoded(c, b, header_size[c], kind) IN
                 \/ /\ kind = "undefined" /\ st' = [st EXCEPT ![c] = "closed"]
                    /\ UNCHANGED <<msg, header_size, failed>>
                 \/ /\ kind # "undefined" /\ msg' = [msg EXCEPT ![c] = m]
                    /\ header_size' = [header_size EXCEPT ![c] = IF kind = "attach" THEN 3 ELSE header_size[c]]
                    /\ process(c, m)
<1>1. HeaderAfter("attach") = 3
  BY DEF HeaderAfter
<1>. QED BY <1>1 DEF Handle

\* The handler keeps the types.
LEMMA HandleMade ==
    ASSUME Shapes, NEW c \in Clients, Typed(c), st[c] = "reading",
           NEW b \in [1..BUFFER_SIZE -> UnitsUpTo(Len(sent[c]))], NEW i \in 0..BUFFER_SIZE,
           NEW size, Handle(c, b, i, size)
    PROVE  Handled(c) /\ buf'[c] = b /\ msg_size'[c] = size
<1>1. header_size[c] \in {2, 3} /\ 0 \in 0..BUFFER_SIZE
  BY MiddlewareAssumption DEF Typed
<1>2. CASE ~Complete(i, size, header_size[c])
  <2>1. /\ buf' = [buf EXCEPT ![c] = b] /\ msg_size' = [msg_size EXCEPT ![c] = size]
        /\ index' = [index EXCEPT ![c] = i] /\ UNCHANGED <<st, msg, header_size, failed>>
    BY <1>2, ReadsOn
  <2>. QED BY <1>1, <2>1 DEF Handled, Shapes
<1>3. CASE Complete(i, size, header_size[c])
  <2>1. PICK kind \in Kinds(c, b, header_size[c]) :
            /\ buf' = [buf EXCEPT ![c] = b] /\ msg_size' = [msg_size EXCEPT ![c] = size]
            /\ index' = [index EXCEPT ![c] = 0]
            /\ \/ /\ kind = "undefined" /\ st' = [st EXCEPT ![c] = "closed"]
                  /\ UNCHANGED <<msg, header_size, failed>>
               \/ /\ kind # "undefined"
                  /\ msg' = [msg EXCEPT ![c] = Decoded(c, b, header_size[c], kind)]
                  /\ header_size' = [header_size EXCEPT ![c] = IF kind = "attach" THEN 3 ELSE header_size[c]]
                  /\ process(c, Decoded(c, b, header_size[c], kind))
    BY <1>3, ReadsMessage
  <2>2. CASE /\ kind = "undefined" /\ st' = [st EXCEPT ![c] = "closed"]
             /\ UNCHANGED <<msg, header_size, failed>>
    BY <1>1, <2>1, <2>2 DEF Handled, Shapes
  <2>3. CASE /\ kind # "undefined"
             /\ msg' = [msg EXCEPT ![c] = Decoded(c, b, header_size[c], kind)]
             /\ header_size' = [header_size EXCEPT ![c] = IF kind = "attach" THEN 3 ELSE header_size[c]]
             /\ process(c, Decoded(c, b, header_size[c], kind))
    <3> DEFINE m == Decoded(c, b, header_size[c], kind)
    <3>1. m.kind = kind /\ kind \in KindSet
      BY <1>1, <2>3, KindsTyped DEF Decoded
    <3> HIDE DEF m
    <3>2. /\ DOMAIN st' = Clients /\ failed' \in [Clients -> BOOLEAN]
          /\ \A d \in Clients : d # c => st'[d] = st[d] /\ (failed'[d] <=> failed[d])
          /\ st'[c] \in {"posted", "database", "closed"}
      BY <2>3, ProcessMade DEF m
    <3>3. msg' = [msg EXCEPT ![c] = m]
      BY <2>3 DEF m
    <3>. QED BY <1>1, <2>1, <2>3, <3>1, <3>2, <3>3 DEF Handled, Shapes
  <2>. QED BY <2>1, <2>2, <2>3
<1>. QED BY <1>2, <1>3

-----------------------------------------------------------------------------
(* Connection::read. *)

\* The buffer after a read of k units, and what stays on the wire.
Filled(c, k) ==
    [j \in 1..BUFFER_SIZE |->
        IF j > index[c] /\ j <= index[c] + k THEN wire[c][j - index[c]] ELSE buf[c][j]]
Rest(c, k) == SubSeq(wire[c], k + 1, Len(wire[c]))

\* The sizes the handler may take the message for.
SizesOf(c, b, i) == IF i >= header_size[c] THEN Sizes(c, b, header_size[c]) ELSE {msg_size[c]}

\* A read, in these terms.
LEMMA ReadParts ==
    ASSUME NEW c, read(c)
    PROVE  /\ st[c] = "reading" /\ wire[c] # <<>> /\ UNCHANGED <<clientVars, back, accepting>>
           /\ \E k \in 0..Len(wire[c]) :
                 /\ k <= BUFFER_SIZE - index[c] /\ (k = 0 => BUFFER_SIZE - index[c] = 0)
                 /\ torn' = [torn EXCEPT ![c] = torn[c] \/ Tears(Rest(c, k))]
                 /\ wire' = [wire EXCEPT ![c] = Rest(c, k)]
                 /\ \E size \in SizesOf(c, Filled(c, k), index[c] + k) :
                       Handle(c, Filled(c, k), index[c] + k, size)
BY DEF read, Room, Filled, Rest, SizesOf

\* A read keeps the types.
LEMMA FilledTyped ==
    ASSUME NEW c, Typed(c), NEW k \in 0..Len(wire[c]), k <= BUFFER_SIZE - index[c]
    PROVE  /\ Filled(c, k) \in [1..BUFFER_SIZE -> UnitsUpTo(Len(sent[c]))]
           /\ index[c] + k \in 0..BUFFER_SIZE
           /\ Rest(c, k) \in Seq(UnitsUpTo(Len(sent[c])))
           /\ \A size \in SizesOf(c, Filled(c, k), index[c] + k) : size \in GarbageSizes \cup {0, 4, 5}
<1> DEFINE U == UnitsUpTo(Len(sent[c]))
           w == wire[c]
           i == index[c]
<1>1. w \in Seq(U) /\ buf[c] \in [1..BUFFER_SIZE -> U] /\ i \in 0..BUFFER_SIZE /\ BUFFER_SIZE \in Nat
  BY MiddlewareAssumption DEF Typed
<1>2. Len(w) \in Nat /\ k \in 0..Len(w) /\ k <= BUFFER_SIZE - i
  BY <1>1, LenProperties
<1>3. \A size \in SizesOf(c, Filled(c, k), index[c] + k) : size \in GarbageSizes \cup {0, 4, 5}
  BY SizesTyped DEF SizesOf, Typed
<1> HIDE DEF U, w, i
<1>4. \A j \in 1..Len(w) : w[j] \in U
  BY <1>1, ElementOfSeq
<1>5. \A j \in 1..BUFFER_SIZE : j > i /\ j <= i + k => w[j - i] \in U
  <2>1. ASSUME NEW j \in 1..BUFFER_SIZE, j > i, j <= i + k PROVE j - i \in 1..Len(w)
    BY <1>1, <1>2, <2>1
  <2>. QED BY <1>4, <2>1
<1>6. [j \in 1..BUFFER_SIZE |-> IF j > i /\ j <= i + k THEN w[j - i] ELSE buf[c][j]] \in [1..BUFFER_SIZE -> U]
  BY <1>1, <1>5
<1>7. SubSeq(w, k + 1, Len(w)) \in Seq(U)
  <2>1. \A j \in (k + 1)..Len(w) : w[j] \in U
    BY <1>2, <1>4
  <2>2. k + 1 \in Int /\ Len(w) \in Int
    BY <1>2
  <2>. QED BY <2>1, <2>2, SubSeqProperties
<1>8. i + k \in 0..BUFFER_SIZE
  BY <1>1, <1>2
<1>. QED BY <1>3, <1>6, <1>7, <1>8 DEF Filled, Rest, U, w, i

\* What is left of a sequence behind its first m elements.
LEMMA Behind ==
    ASSUME NEW X, NEW s \in Seq(X), NEW m \in 0..Len(s)
    PROVE  /\ SubSeq(s, m + 1, Len(s)) \in Seq(X)
           /\ Len(SubSeq(s, m + 1, Len(s))) = Len(s) - m
           /\ \A j \in 1..(Len(s) - m) : SubSeq(s, m + 1, Len(s))[j] = s[m + j]
<1> DEFINE L == Len(s)
           q == m + 1
<1>1. L \in Nat /\ m \in Nat /\ m <= L /\ q \in Int /\ q = m + 1 /\ L \in Int
  BY LenProperties
<1>2. \A j \in q..L : s[j] \in X
  <2>1. \A j \in q..L : j \in 1..Len(s)
    BY <1>1
  <2>. QED BY <2>1, ElementOfSeq
<1> HIDE DEF L, q
<1>3. /\ SubSeq(s, q, L) \in Seq(X)
      /\ Len(SubSeq(s, q, L)) = IF q <= L THEN L - q + 1 ELSE 0
      /\ \A j \in 1..(L - q + 1) : SubSeq(s, q, L)[j] = s[q + j - 1]
  BY <1>1, <1>2, SubSeqProperties
<1>4. ASSUME NEW j \in 1..(L - m) PROVE SubSeq(s, q, L)[j] = s[m + j]
  <2>1. j \in 1..(L - q + 1) /\ q + j - 1 = m + j
    BY <1>1
  <2>. QED BY <1>3, <2>1
<1>5. Len(SubSeq(s, q, L)) = L - m
  BY <1>1, <1>3
<1>. QED BY <1>3, <1>4, <1>5 DEF L, q

\* The buffer has the part of the frame F that was read, and the wire the rest.
PartRead(c, F) ==
    /\ index[c] <= Len(F)
    /\ wire[c] = SubSeq(F, index[c] + 1, Len(F))
    /\ \A j \in 1..index[c] : buf[c][j] = F[j]

\* After a read of k units the first i of the frame are in the buffer, the rest is
\* on the wire, and a cut that does not tear the stream is not in a field.
MoreRead(c, F, k, i) ==
    /\ i \in 1..Len(F)
    /\ \A j \in 1..i : Filled(c, k)[j] = F[j]
    /\ Rest(c, k) = SubSeq(F, i + 1, Len(F))
    /\ i = Len(F) => Rest(c, k) = <<>>
    /\ i # Len(F) /\ ~Tears(Rest(c, k)) =>
          F[i + 1].part \notin {"count", "beyond"} /\ F[i + 1] # Unit(1, "h2")

\* While a frame arrives, a read takes the next k of its units.
LEMMA NextUnits ==
    ASSUME NEW c, NEW n \in Nat \ {0}, NEW F \in Seq(UnitsUpTo(n)), NEW k \in 1..Len(wire[c]),
           index[c] \in 0..BUFFER_SIZE, k <= BUFFER_SIZE - index[c], PartRead(c, F)
    PROVE  MoreRead(c, F, k, index[c] + k)
<1> DEFINE U == UnitsUpTo(n)
           w == wire[c]
           p == index[c]
           L == Len(F)
           i == p + k
           B == Filled(c, k)
           R == Rest(c, k)
<1>1. /\ L \in Nat /\ p \in Nat /\ p <= L /\ p \in 0..Len(F)
      /\ BUFFER_SIZE \in Nat /\ p <= BUFFER_SIZE /\ k <= BUFFER_SIZE - p
  BY LenProperties, MiddlewareAssumption DEF PartRead
<1>2. w \in Seq(U) /\ Len(w) = L - p /\ \A j \in 1..(L - p) : w[j] = F[p + j]
  <2>1. w = SubSeq(F, p + 1, Len(F))
    BY DEF PartRead
  <2> HIDE DEF p, w, U
  <2>2. /\ SubSeq(F, p + 1, Len(F)) \in Seq(UnitsUpTo(n))
        /\ Len(SubSeq(F, p + 1, Len(F))) = Len(F) - p
        /\ \A j \in 1..(Len(F) - p) : SubSeq(F, p + 1, Len(F))[j] = F[p + j]
    BY <1>1, Behind
  <2>. QED BY <2>1, <2>2 DEF U
<1>3. k \in Nat /\ k >= 1 /\ k <= L - p /\ k <= BUFFER_SIZE - p
  BY <1>1, <1>2
<1>4. B = [j \in 1..BUFFER_SIZE |-> IF j > p /\ j <= p + k THEN w[j - p] ELSE buf[c][j]]
  BY DEF Filled
<1>5. R = SubSeq(w, k + 1, Len(w))
  BY DEF Rest
<1>6. \A j \in 1..p : buf[c][j] = F[j]
  BY DEF PartRead
<1> HIDE DEF U, w, p, L, B, R
<1>7. i \in 1..L
  BY <1>1, <1>3
<1>8. ASSUME NEW j \in 1..i PROVE B[j] = F[j]
  <2>1. j \in 1..BUFFER_SIZE
    BY <1>1, <1>3
  <2>2. CASE j <= p
    BY <1>1, <1>4, <1>6, <2>1, <2>2
  <2>3. CASE j > p
    <3>1. j - p \in 1..(L - p) /\ p + (j - p) = j /\ j <= p + k
      BY <1>1, <1>3, <2>3
    <3>. QED BY <1>2, <1>4, <2>1, <2>3, <3>1
  <2>. QED BY <1>1, <2>2, <2>3
<1>9. R \in Seq(U) /\ Len(R) = L - i /\ \A j \in 1..(L - i) : R[j] = F[i + j]
  <2>1. k \in 0..Len(w)
    BY <1>1, <1>2, <1>3
  <2>2. R \in Seq(U) /\ Len(R) = Len(w) - k /\ \A j \in 1..(Len(w) - k) : R[j] = w[k + j]
    BY <1>2, <1>5, <2>1, Behind
  <2>3. ASSUME NEW j \in 1..(L - i) PROVE R[j] = F[i + j]
    <3>1. j \in 1..(Len(w) - k) /\ k + j \in 1..(L - p) /\ p + (k + j) = i + j
      BY <1>1, <1>2, <1>3
    <3>. QED BY <1>2, <2>2, <3>1
  <2>4. Len(R) = L - i
    BY <1>1, <1>2, <1>3, <2>2
  <2>. QED BY <2>2, <2>3, <2>4
<1>10. R = SubSeq(F, i + 1, L)
  <2>1. i \in 0..Len(F) /\ L = Len(F)
    BY <1>7 DEF L
  <2> HIDE DEF i
  <2>2. /\ SubSeq(F, i + 1, Len(F)) \in Seq(U)
        /\ Len(SubSeq(F, i + 1, Len(F))) = Len(F) - i
        /\ \A j \in 1..(Len(F) - i) : SubSeq(F, i + 1, Len(F))[j] = F[i + j]
    BY <2>1, Behind DEF U
  <2>. QED BY <1>9, <2>1, <2>2, SeqEqual
<1>11. i = L => R = <<>>
  BY <1>1, <1>9
<1>12. ASSUME i # L, ~Tears(R) PROVE F[i + 1].part \notin {"count", "beyond"} /\ F[i + 1] # Unit(1, "h2")
  <2>1. 1 \in 1..(L - i) /\ Len(R) # 0
    <3>1. L \in Nat /\ i \in Nat /\ i <= L /\ i # L /\ Len(R) = L - i
      BY <1>1, <1>7, <1>9, <1>12
    <3> HIDE DEF i
    <3>. QED BY <3>1
  <2>2. R # <<>> /\ Head(R) = R[1] /\ R[1] = F[i + 1]
    BY <1>9, <2>1
  <2>3. ~(Head(R).part \in {"count", "beyond"} \/ Head(R) = Unit(1, "h2"))
    BY <1>12, <2>2 DEF Tears
  <2>. QED BY <2>2, <2>3
<1>. QED BY <1>7, <1>8, <1>10, <1>11, <1>12 DEF MoreRead, L, B, R, p

\* Where a cut does not tear the stream: after the header, before what the frame
\* announces is there, or behind the whole frame.
LEMMA CutsThatTell ==
    ASSUME NEW n \in Nat \ {0}, NEW kind \in KindSet, kind = "attach" => n = 1,
           NEW i \in 1..Len(encode(n, kind)),
           i # Len(encode(n, kind)) =>
               /\ encode(n, kind)[i + 1].part \notin {"count", "beyond"}
               /\ encode(n, kind)[i + 1] # Unit(1, "h2")
    PROVE  IF kind = "attach" THEN i \in {2, 3} \/ (i = Len(encode(n, kind)) /\ i = 6)
           ELSE i \in 1..4 \/ (i = Len(encode(n, kind)) /\ i \in {7, 8})
<1> DEFINE F == encode(n, kind)
           L == Len(F)
           h == Len(Header(n, kind))
<1>1. /\ h = (IF kind = "attach" THEN 2 ELSE 3)
      /\ L = IF kind = "lookup" THEN h + 5 ELSE h + 4
      /\ F[2] = Unit(n, "h2")
      /\ kind # "lookup" => F[h + 3] = Unit(n, "beyond") /\ F[h + 4] = Unit(n, "beyond")
      /\ kind = "lookup" => /\ F[h + 3] = Unit(n, "count")
                            /\ F[h + 4] = Unit(n, "beyond") /\ F[h + 5] = Unit(n, "beyond")
  BY FrameUnits
<1>2. Unit(n, "beyond").part = "beyond" /\ Unit(n, "count").part = "count"
  BY DEF Unit
<1>3. i \in 1..L /\ (i # L => F[i + 1].part \notin {"count", "beyond"} /\ F[i + 1] # Unit(1, "h2"))
  OBVIOUS
<1> HIDE DEF F, L, h
<1>4. CASE kind = "attach"
  <2>1. /\ h = 2 /\ L = 6 /\ F[2] = Unit(1, "h2")
        /\ F[5].part = "beyond" /\ F[6].part = "beyond"
    BY <1>1, <1>2, <1>4
  <2>2. i \in 1..6 /\ i # 1 /\ i # 4 /\ i # 5
    BY <1>3, <2>1
  <2>. QED BY <1>4, <2>1, <2>2 DEF L, F
<1>5. CASE kind = "get"
  <2>1. h = 3 /\ L = 7 /\ F[6].part = "beyond" /\ F[7].part = "beyond"
    BY <1>1, <1>2, <1>5
  <2>2. i \in 1..7 /\ i # 5 /\ i # 6
    BY <1>3, <2>1
  <2>. QED BY <1>5, <2>1, <2>2 DEF L, F
<1>6. CASE kind = "lookup"
  <2>1. h = 3 /\ L = 8 /\ F[6].part = "count" /\ F[7].part = "beyond" /\ F[8].part = "beyond"
    BY <1>1, <1>2, <1>6
  <2>2. i \in 1..8 /\ i # 5 /\ i # 6 /\ i # 7
    BY <1>3, <2>1
  <2>. QED BY <1>6, <2>1, <2>2 DEF L, F
<1>. QED BY <1>4, <1>5, <1>6 DEF KindSet

\* The first i units of b are those of F.
Begins(b, i, F) == \A j \in 1..i : b[j] = F[j]

\* Once the header of the request is there, the size is the one encode() announced.
LEMMA HeaderFound ==
    ASSUME NEW c, NEW n \in Nat \ {0}, n \in DOMAIN sent[c], NEW kind \in KindSet,
           NEW i \in Nat, NEW h, h = Len(Header(n, kind)), i >= h,
           NEW b, Begins(b, i, encode(n, kind))
    PROVE  Sizes(c, b, h) = {IF kind = "attach" THEN 4 ELSE 5}
<1> DEFINE F == encode(n, kind)
           X == {b[j] : j \in 1..i}
           G == Header(n, kind)
<1>1. /\ h = (IF kind = "attach" THEN 2 ELSE 3)
      /\ F[1] = Unit(n, "h1") /\ F[2] = Unit(n, "h2") /\ (kind # "attach" => F[3] = Unit(n, "h3"))
  BY FrameUnits
<1>2. \A j \in 1..i : b[j] = F[j]
  BY DEF Begins
<1>3. \A j \in 1..i : b[j] \in X
  OBVIOUS
<1> HIDE DEF F, X
<1>4. \A j \in 1..h : b[j] = F[j] /\ b[j] \in X
  BY <1>1, <1>2, <1>3
<1>5. 1 \in Int /\ h \in Int
  BY <1>1
<1>6. /\ SubSeq(b, 1, h) \in Seq(X)
      /\ Len(SubSeq(b, 1, h)) = IF 1 <= h THEN h - 1 + 1 ELSE 0
      /\ \A j \in 1..(h - 1 + 1) : SubSeq(b, 1, h)[j] = b[1 + j - 1]
  BY <1>4, <1>5, SubSeqProperties
<1> DEFINE s == SubSeq(b, 1, h)
<1>7. s \in Seq(X) /\ Len(s) = h /\ \A j \in 1..h : s[j] = F[j]
  <2>1. \A j \in 1..h : j \in 1..(h - 1 + 1) /\ 1 + j - 1 = j
    BY <1>1
  <2>. QED BY <1>1, <1>4, <1>6, <2>1
<1> HIDE DEF s
<1>8. s = G
  <2>1. CASE kind = "attach"
    <3>1. h = 2 /\ s[1] = Unit(n, "h1") /\ s[2] = Unit(n, "h2")
      BY <1>1, <1>7, <2>1
    <3>2. s = <<s[1], s[2]>>
      BY <1>7, <3>1
    <3>. QED BY <2>1, <3>1, <3>2 DEF Header
  <2>2. CASE kind # "attach"
    <3>1. h = 3 /\ s[1] = Unit(n, "h1") /\ s[2] = Unit(n, "h2") /\ s[3] = Unit(n, "h3")
      BY <1>1, <1>7, <2>2
    <3>2. s = <<s[1], s[2], s[3]>>
      BY <1>7, <3>1
    <3>. QED BY <2>2, <3>1, <3>2 DEF Header
  <2>. QED BY <2>1, <2>2
<1>9. kind \in {"attach", "lookup", "get"}
  BY DEF KindSet
<1>10. \E id \in DOMAIN sent[c], k \in {"attach", "lookup", "get"} : SubSeq(b, 1, h) = Header(id, k)
  BY <1>8, <1>9 DEF s
<1>11. Sizes(c, b, h) = {IF h = 2 THEN Announced("attach") ELSE Announced("get")}
  BY <1>10 DEF Sizes
<1>. QED BY <1>1, <1>11 DEF Announced

\* A whole request is decoded to what the client asked for.
LEMMA DecodedWhole ==
    ASSUME NEW c, NEW n \in Nat \ {0}, n \in DOMAIN sent[c], NEW kind \in KindSet,
           sent[c][n].kind = kind, kind # "get" => sent[c][n].name = Null,
           NEW h, h = Len(Header(n, kind)), NEW b,
           Begins(b, Len(encode(n, kind)), encode(n, kind))
    PROVE  /\ Kinds(c, b, h) = {kind}
           /\ Decoded(c, b, h, kind).kind = kind /\ Decoded(c, b, h, kind).name = sent[c][n].name
           /\ kind = "lookup" => Decoded(c, b, h, kind).counted
<1> DEFINE F == encode(n, kind)
           L == Len(F)
<1>1. /\ h = (IF kind = "attach" THEN 2 ELSE 3)
      /\ L = IF kind = "lookup" THEN h + 5 ELSE h + 4
      /\ F[h + 1] = Unit(n, "type")
      /\ kind # "lookup" => F[h + 2] = Unit(n, "body")
      /\ kind = "lookup" => F[h + 3] = Unit(n, "count")
  BY FrameUnits
<1>2. \A j \in 1..L : b[j] = F[j]
  BY DEF Begins
<1> HIDE DEF F, L
<1>3. /\ h + 1 \in 1..L /\ h + 2 \in 1..L /\ h + 3 \in 1..L
  BY <1>1
<1>4. /\ b[h + 1] = Unit(n, "type")
      /\ kind # "lookup" => b[h + 2] = Unit(n, "body")
      /\ kind = "lookup" => b[h + 3] = Unit(n, "count")
  BY <1>1, <1>2, <1>3
<1>5. /\ Unit(n, "type").part = "type" /\ Unit(n, "type").id = n /\ Unit(n, "type") # Zero
      /\ Unit(n, "body").part = "body" /\ Unit(n, "body").id = n /\ Unit(n, "count").part = "count"
  BY DEF Unit, Zero
<1>6. Kinds(c, b, h) = {kind}
  BY <1>4, <1>5 DEF Kinds
<1>7. kind = "get" => security_name(c, b[h + 2]) = sent[c][n].name
  BY <1>4, <1>5 DEF security_name
<1>8. kind = "lookup" => counted(b[h + 3])
  BY <1>4, <1>5 DEF counted
<1>. QED BY <1>6, <1>7, <1>8 DEF Decoded

\* The read of k more units of the frame that is arriving.
Takes(c, k, size) ==
    /\ Shapes /\ Typed(c) /\ Asked(c) /\ Len(sent[c]) >= 1 /\ Arriving(c)
    /\ st[c] = "reading" /\ UNCHANGED <<clientVars, back>>
    /\ k \in 1..Len(wire[c]) /\ k <= BUFFER_SIZE - index[c] /\ ~Tears(Rest(c, k))
    /\ wire' = [wire EXCEPT ![c] = Rest(c, k)]
    /\ size \in SizesOf(c, Filled(c, k), index[c] + k)
    /\ Handle(c, Filled(c, k), index[c] + k, size)

\* A read that does not tear the stream takes the frame further, or has it whole
\* and hands it on.
LEMMA ReadArriving ==
    ASSUME NEW c \in Clients, NEW k, NEW size, Takes(c, k, size)
    PROVE  Arriving(c)' \/ Working(c)' \/ Broken(c)'
<1> DEFINE n == Len(sent[c])
           kind == sent[c][n].kind
           name == sent[c][n].name
           F == encode(n, kind)
           L == Len(F)
           h == header_size[c]
           i == index[c] + k
           B == Filled(c, k)
<1>0. /\ Shapes /\ Typed(c) /\ Asked(c) /\ Len(sent[c]) >= 1 /\ Arriving(c)
      /\ st[c] = "reading" /\ UNCHANGED <<clientVars, back>>
      /\ k \in 1..Len(wire[c]) /\ k <= BUFFER_SIZE - index[c] /\ ~Tears(Rest(c, k))
      /\ wire' = [wire EXCEPT ![c] = Rest(c, k)]
      /\ size \in SizesOf(c, Filled(c, k), index[c] + k)
      /\ Handle(c, Filled(c, k), index[c] + k, size)
  BY DEF Takes
<1>1. /\ n \in Nat \ {0} /\ n \in DOMAIN sent[c] /\ kind \in KindSet
      /\ kind = "attach" <=> n = 1
      /\ kind # "get" => name = Null
  <2>1. n \in Nat /\ DOMAIN sent[c] = 1..n
    BY <1>0, LenProperties DEF Typed, IsSequence
  <2>2. n \in DOMAIN sent[c]
    BY <1>0, <2>1
  <2>3. kind \in KindSet
    BY <1>0, <2>2 DEF Typed
  <2>4. (kind = "attach" <=> n = 1) /\ (kind # "get" => name = Null)
    BY <1>0, <2>2 DEF Asked
  <2> HIDE DEF n, kind, name
  <2>. QED BY <2>1, <2>2, <2>3, <2>4
<1>2. /\ Request(c).kind = kind /\ Request(c).name = name /\ Frame(c) = F
      /\ Request(c)' = Request(c) /\ Frame(c)' = F
  BY <1>0 DEF Request, Frame, clientVars
<1>3. /\ back[c] = Null /\ h = Len(Header(0, kind))
      /\ IF kind = "attach" THEN index[c] \in {0, 2, 3}
         ELSE index[c] \in 0..4 /\ msg_size[c] \in {4, 5}
      /\ wire[c] = SubSeq(F, index[c] + 1, L)
      /\ \A j \in 1..index[c] : buf[c][j] = F[j]
  BY <1>0, <1>2 DEF Arriving
<1>4. /\ F \in Seq(UnitsUpTo(n)) /\ h = Len(Header(n, kind)) /\ h = (IF kind = "attach" THEN 2 ELSE 3)
      /\ L \in Nat /\ L >= 6
  <2>1. F \in Seq(UnitsUpTo(n)) /\ Len(Header(n, kind)) = (IF kind = "attach" THEN 2 ELSE 3)
        /\ L = IF kind = "lookup" THEN Len(Header(n, kind)) + 5 ELSE Len(Header(n, kind)) + 4
    <3> HIDE DEF n, kind
    <3>1. LET G == encode(n, kind)  d == Len(Header(n, kind)) IN
          G \in Seq(UnitsUpTo(n)) /\ d = (IF kind = "attach" THEN 2 ELSE 3)
          /\ Len(G) = IF kind = "lookup" THEN d + 5 ELSE d + 4
      BY <1>1, FrameUnits
    <3>. QED BY <3>1
  <2>2. Len(Header(0, kind)) = (IF kind = "attach" THEN 2 ELSE 3)
    BY DEF Header
  <2>. QED BY <1>3, <2>1, <2>2
<1>5. index[c] \in 0..BUFFER_SIZE /\ index[c] <= L
  BY <1>0, <1>3, <1>4 DEF Typed
<1>6. /\ i \in 1..L /\ \A j \in 1..i : B[j] = F[j]
      /\ Rest(c, k) = SubSeq(F, i + 1, L)
      /\ i = L => Rest(c, k) = <<>>
      /\ i # L => F[i + 1].part \notin {"count", "beyond"} /\ F[i + 1] # Unit(1, "h2")
  <2>1. PartRead(c, F)
    BY <1>3, <1>5 DEF PartRead
  <2> HIDE DEF n, kind, F
  <2>2. /\ n \in Nat \ {0} /\ F \in Seq(UnitsUpTo(n)) /\ index[c] \in 0..BUFFER_SIZE
        /\ k \in 1..Len(wire[c]) /\ k <= BUFFER_SIZE - index[c]
    BY <1>0, <1>1, <1>4, <1>5
  <2>3. MoreRead(c, F, k, index[c] + k)
    BY <2>1, <2>2, NextUnits
  <2>. QED BY <1>0, <2>3, Zenon DEF MoreRead
<1>7. IF kind = "attach" THEN i \in {2, 3} \/ (i = L /\ i = 6)
      ELSE i \in 1..4 \/ (i = L /\ i \in {7, 8})
  <2> HIDE DEF n, kind, i
  <2>. QED BY <1>1, <1>6, CutsThatTell
<1> DEFINE whole == i = L /\ i >= 6
<1>8. /\ i >= h => size = IF kind = "attach" THEN 4 ELSE 5
      /\ i < h => size = msg_size[c]
  <2>1. i >= h => Sizes(c, B, h) = {IF kind = "attach" THEN 4 ELSE 5}
    <3> HIDE DEF n, kind, i, h, B
    <3>1. i \in Nat
      BY <1>4, <1>6
    <3>2. Begins(B, i, encode(n, kind))
      BY <1>6 DEF Begins
    <3>3. n \in Nat \ {0} /\ n \in DOMAIN sent[c] /\ kind \in KindSet /\ h = Len(Header(n, kind))
      BY <1>1, <1>4
    <3>4. ASSUME i >= h PROVE Sizes(c, B, h) = {IF kind = "attach" THEN 4 ELSE 5}
      <4>1. /\ n \in Nat \ {0} /\ n \in DOMAIN sent[c] /\ kind \in KindSet /\ i \in Nat
            /\ h = Len(Header(n, kind)) /\ i >= h /\ Begins(B, i, encode(n, kind))
        BY <3>1, <3>2, <3>3, <3>4
      <4>. QED BY <4>1, HeaderFound
    <3>. QED BY <3>4
  <2>2. i \in Nat /\ h \in Nat
    BY <1>4, <1>6
  <2>. QED BY <1>0, <2>1, <2>2 DEF SizesOf
<1>9. /\ whole => i >= size /\ size \in {4, 5}
      /\ ~whole => /\ ~(i >= size)
                   /\ IF kind = "attach" THEN i \in {0, 2, 3} ELSE i \in 0..4 /\ size \in {4, 5}
  <2> HIDE DEF i, h, kind, L
  <2>1. CASE kind = "attach"
    <3>1. i \in {2, 3} \/ (i = L /\ i = 6)
      BY <1>7, <2>1
    <3>2. i >= h /\ size = 4
      BY <1>4, <1>8, <2>1, <3>1
    <3>. QED BY <1>4, <2>1, <3>1, <3>2
  <2>2. CASE kind # "attach"
    <3>1. i \in 1..4 \/ (i = L /\ i \in {7, 8})
      BY <1>7, <2>2
    <3>2. h = 3 /\ (i >= 3 => size = 5) /\ (i < 3 => size \in {4, 5})
      BY <1>3, <1>4, <1>8, <2>2
    <3>3. i \in Nat /\ size \in {4, 5}
      BY <3>1, <3>2
    <3>4. CASE i \in 1..4
      BY <2>2, <3>2, <3>3, <3>4
    <3>5. CASE i = L /\ i \in {7, 8}
      BY <2>2, <3>2, <3>3, <3>5
    <3>. QED BY <3>1, <3>4, <3>5
  <2>. QED BY <2>1, <2>2
<1>10. wire'[c] = Rest(c, k) /\ back'[c] = Null
  BY <1>0, <1>3 DEF Shapes
<1>11. CASE ~whole
  <2>1. ~Complete(i, size, h)
    BY <1>9, <1>11 DEF Complete
  <2>2. /\ buf' = [buf EXCEPT ![c] = B] /\ msg_size' = [msg_size EXCEPT ![c] = size]
        /\ index' = [index EXCEPT ![c] = i] /\ UNCHANGED <<st, msg, header_size, failed>>
    BY <1>0, <2>1, ReadsOn
  <2>3. /\ buf'[c] = B /\ msg_size'[c] = size /\ index'[c] = i /\ st'[c] = "reading"
        /\ header_size'[c] = h
    BY <1>0, <2>2 DEF Shapes
  <2> HIDE DEF n, kind, name, F, i, B, whole, h, L
  <2>4. Arriving(c)'
    BY <1>2, <1>3, <1>6, <1>9, <1>10, <1>11, <2>3 DEF Arriving, L
  <2>. QED BY <2>4
<1>12. CASE whole
  <2>1. Complete(i, size, h) /\ Rest(c, k) = <<>> /\ i = L
    BY <1>6, <1>9, <1>12 DEF Complete
  <2> DEFINE m == Decoded(c, B, h, kind)
  <2>2. /\ Kinds(c, B, h) = {kind} /\ m.kind = kind /\ m.name = name
        /\ kind = "lookup" => m.counted
    <3>1. \A j \in 1..L : B[j] = F[j]
      BY <1>6, <2>1
    <3> HIDE DEF n, i, B, h, kind
    <3>2. sent[c][n].kind = kind /\ (kind # "get" => sent[c][n].name = Null)
      BY <1>1 DEF kind
    <3>3. n \in Nat \ {0} /\ n \in DOMAIN sent[c] /\ kind \in KindSet /\ h = Len(Header(n, kind))
      BY <1>1, <1>4
    <3>4. Begins(B, Len(encode(n, kind)), encode(n, kind))
      BY <3>1 DEF Begins
    <3>. QED BY <3>2, <3>3, <3>4, DecodedWhole DEF name
  <2>3. PICK kk \in Kinds(c, B, h) :
            /\ buf' = [buf EXCEPT ![c] = B] /\ msg_size' = [msg_size EXCEPT ![c] = size]
            /\ index' = [index EXCEPT ![c] = 0]
            /\ \/ /\ kk = "undefined" /\ st' = [st EXCEPT ![c] = "closed"]
                  /\ UNCHANGED <<msg, header_size, failed>>
               \/ /\ kk # "undefined"
                  /\ msg' = [msg EXCEPT ![c] = Decoded(c, B, h, kk)]
                  /\ header_size' = [header_size EXCEPT ![c] = IF kk = "attach" THEN 3 ELSE h]
                  /\ process(c, Decoded(c, B, h, kk))
    <3>1. \E kk \in Kinds(c, B, header_size[c]) :
              LET mm == Decoded(c, B, header_size[c], kk) IN
              \/ /\ kk = "undefined" /\ st' = [st EXCEPT ![c] = "closed"]
                 /\ UNCHANGED <<msg, header_size, failed>>
              \/ /\ kk # "undefined" /\ msg' = [msg EXCEPT ![c] = mm]
                 /\ header_size' = [header_size EXCEPT ![c] = IF kk = "attach" THEN 3 ELSE header_size[c]]
                 /\ process(c, mm)
      BY <1>0, <2>1, ReadsMessage
    <3>2. /\ buf' = [buf EXCEPT ![c] = B] /\ msg_size' = [msg_size EXCEPT ![c] = size]
          /\ index' = [index EXCEPT ![c] = 0]
      BY <1>0, <2>1, ReadsMessage
    <3>. QED BY <3>1, <3>2
  <2>4. kk = kind /\ kk # "undefined"
    BY <1>1, <2>2 DEF KindSet
  <2>5. /\ msg_size' = [msg_size EXCEPT ![c] = size] /\ index' = [index EXCEPT ![c] = 0]
        /\ msg' = [msg EXCEPT ![c] = m]
        /\ header_size' = [header_size EXCEPT ![c] = IF kind = "attach" THEN 3 ELSE h]
        /\ process(c, m)
    BY <2>3, <2>4
  <2> HIDE DEF n, kind, name, F, i, B, whole, h, L, m
  <2>6. \/ st'[c] = "posted" /\ m.kind = "attach"
        \/ st'[c] = "database" /\ m.kind # "attach"
        \/ st'[c] = "closed" /\ failed'[c]
    BY <1>0, <2>5, ProcessMade
  <2>7. msg_size'[c] = size /\ index'[c] = 0 /\ msg'[c] = m /\ header_size'[c] = 3
    BY <1>0, <1>4, <2>5 DEF Shapes
  <2>8. Ready(c)'
    BY <1>9, <1>10, <1>12, <2>1, <2>7 DEF Ready
  <2>9. Request(c)'.kind = kind /\ Request(c)'.name = name
    BY <1>2
  <2>10. CASE st'[c] = "closed" /\ failed'[c]
    BY <1>10, <2>10 DEF Broken
  <2>11. CASE st'[c] \in {"posted", "database"}
    <3>1. Answers(c, msg[c])'
      BY <2>2, <2>7, <2>9 DEF Answers
    <3>2. st'[c] = "database" /\ Request(c)'.kind = "lookup" => msg'[c].counted
      BY <2>2, <2>7, <2>9
    <3>. QED BY <1>10, <2>8, <2>11, <3>1, <3>2 DEF Working
  <2>. QED BY <2>6, <2>10, <2>11
<1>. QED BY <1>11, <1>12

\* A read, wherever the stream is cut.
LEMMA ReadKeeps ==
    ASSUME Inv, NEW c \in Clients, read(c)
    PROVE  Inv'
<1>1. /\ st[c] = "reading" /\ wire[c] # <<>> /\ UNCHANGED <<clientVars, back, accepting>>
      /\ Shapes /\ ClientInv(c) /\ Typed(c)
  BY ReadParts DEF Inv, ClientInv
<1>2. PICK k \in 0..Len(wire[c]) :
          /\ k <= BUFFER_SIZE - index[c] /\ (k = 0 => BUFFER_SIZE - index[c] = 0)
          /\ torn' = [torn EXCEPT ![c] = torn[c] \/ Tears(Rest(c, k))]
          /\ wire' = [wire EXCEPT ![c] = Rest(c, k)]
          /\ \E size \in SizesOf(c, Filled(c, k), index[c] + k) :
                Handle(c, Filled(c, k), index[c] + k, size)
  BY ReadParts
<1>3. PICK size \in SizesOf(c, Filled(c, k), index[c] + k) :
          Handle(c, Filled(c, k), index[c] + k, size)
  BY <1>2
<1>4. /\ Filled(c, k) \in [1..BUFFER_SIZE -> UnitsUpTo(Len(sent[c]))]
      /\ index[c] + k \in 0..BUFFER_SIZE
      /\ Rest(c, k) \in Seq(UnitsUpTo(Len(sent[c])))
      /\ size \in GarbageSizes \cup {0, 4, 5}
  BY <1>1, <1>2, <1>3, FilledTyped
<1>5. Handled(c) /\ buf'[c] = Filled(c, k) /\ msg_size'[c] = size
  BY <1>1, <1>3, <1>4, HandleMade
<1>6. wire'[c] = Rest(c, k) /\ (torn'[c] <=> torn[c] \/ Tears(Rest(c, k)))
      /\ DOMAIN wire' = Clients /\ torn' \in [Clients -> BOOLEAN]
      /\ \A d \in Clients : d # c => wire'[d] = wire[d] /\ (torn'[d] <=> torn[d])
  <2>1. (torn[c] \/ Tears(Rest(c, k))) \in BOOLEAN
    BY <1>1 DEF Shapes
  <2>. QED BY <1>1, <1>2, <2>1 DEF Shapes
<1>7. Only(c)
  BY <1>1, <1>5, <1>6 DEF Only, Shapes, Same, clientVars, Handled
<1>8. Typed(c)'
  BY <1>1, <1>4, <1>5, <1>6 DEF Typed, clientVars, IsSequence, Handled
<1>9. ASSUME ~torn'[c] PROVE Tracked(c)'
  <2>1. Tracked(c) /\ ~Tears(Rest(c, k))
    BY <1>1, <1>6, <1>9 DEF ClientInv
  <2>2. cpc[c] # "start" /\ cpc[c] # "idle"
    BY <1>1, <2>1 DEF Tracked, Starting, Resting, Ready
  <2>3. Asked(c)'
    BY <1>1, <2>1 DEF Tracked, Asked, clientVars
  <2>4. ASSUME cpc[c] = "waiting" PROVE Waiting(c)'
    <3>1. Len(sent[c]) >= 1 /\ Arriving(c) /\ Asked(c)
      BY <1>1, <2>1, <2>4 DEF Tracked, Waiting, Working, Answered, Broken, Ready
    <3>2. k # 0
      <4>1. index[c] \in 0..4 /\ BUFFER_SIZE >= 8 /\ BUFFER_SIZE \in Nat
        BY <3>1, MiddlewareAssumption DEF Arriving
      <4>. QED BY <1>2, <4>1
    <3>3. k \in 1..Len(wire[c])
      BY <1>2, <3>2
    <3>4. Arriving(c)' \/ Working(c)' \/ Broken(c)'
      <4>1. Takes(c, k, size)
        BY <1>1, <1>2, <1>3, <2>1, <3>1, <3>3 DEF Takes
      <4>. QED BY <4>1, ReadArriving
    <3>. QED BY <1>1, <3>1, <3>4 DEF Waiting, clientVars
  <2>. QED BY <1>1, <2>2, <2>3, <2>4 DEF Tracked, clientVars
<1>. QED BY <1>7, <1>8, <1>9, OnlyKeeps DEF ClientInv

\* A read of nothing, once the client is gone.
LEMMA ReadEofKeeps ==
    ASSUME Inv, NEW c \in Clients, read_eof(c)
    PROVE  Inv'
<1>1. /\ st[c] = "reading" /\ cpc[c] = "gone"
      /\ UNCHANGED <<clientVars, wire, back, accepting, torn>>
      /\ Shapes /\ ClientInv(c) /\ Typed(c)
  BY DEF Inv, ClientInv, read_eof
<1>2. PICK size \in SizesOf(c, buf[c], index[c]) : Handle(c, buf[c], index[c], size)
  BY DEF read_eof, SizesOf
<1>3. /\ buf[c] \in [1..BUFFER_SIZE -> UnitsUpTo(Len(sent[c]))] /\ index[c] \in 0..BUFFER_SIZE
      /\ size \in GarbageSizes \cup {0, 4, 5}
  BY <1>1, <1>2, SizesTyped DEF Typed, SizesOf
<1>4. Handled(c) /\ buf'[c] = buf[c] /\ msg_size'[c] = size
  BY <1>1, <1>2, <1>3, HandleMade
<1>5. Only(c)
  BY <1>1, <1>4 DEF Only, Shapes, Same, clientVars, Handled
<1>6. Typed(c)'
  BY <1>1, <1>3, <1>4 DEF Typed, clientVars, IsSequence, Handled
<1>7. torn'[c] \/ Asked(c)'
  BY <1>1 DEF ClientInv, Tracked, Asked, clientVars
<1>. QED BY <1>1, <1>5, <1>6, <1>7, OnlyKeeps DEF ClientInv, Tracked, clientVars

-----------------------------------------------------------------------------
(* The theorems. *)

\* At first nobody is connected.
LEMMA InitInv == Init => Inv
<1> SUFFICES ASSUME Init PROVE Inv
  OBVIOUS
<1>1. Shapes
  BY DEF Init, Shapes
<1>2. ASSUME NEW c \in Clients PROVE ClientInv(c)
  <2>1. Zero \in UnitsUpTo(0)
    BY DEF UnitsUpTo, Zero, Unit, Parts
  <2>2. /\ cpc[c] = "start" /\ sent[c] = <<>> /\ wire[c] = <<>> /\ back[c] = Null /\ st[c] = "none"
        /\ buf[c] = [i \in 1..BUFFER_SIZE |-> Zero] /\ index[c] = 0 /\ msg_size[c] = 0
        /\ header_size[c] = 2 /\ ~torn[c]
    BY DEF Init, NewConnection
  <2>3. Len(sent[c]) = 0 /\ DOMAIN sent[c] = {}
    BY <2>2
  <2>4. IsSequence(sent[c])
    BY <2>2 DEF IsSequence
  <2>5. 0 \in 0..BUFFER_SIZE
    BY MiddlewareAssumption
  <2>6. Typed(c)
    BY <2>1, <2>2, <2>3, <2>4, <2>5 DEF Typed
  <2>7. Tracked(c)
    BY <2>2, <2>3 DEF Tracked, Asked, Starting
  <2>. QED BY <2>6, <2>7 DEF ClientInv
<1>. QED BY <1>1, <1>2 DEF Inv

\* Every step of the middleware and its clients keeps the invariant.
LEMMA NextKeeps == Inv /\ [Next]_vars => Inv'
<1> SUFFICES ASSUME Inv, [Next]_vars PROVE Inv'
  OBVIOUS
<1>1. ASSUME NEW c \in Clients, Client(c) PROVE Inv'
  BY <1>1, AttachKeeps, LookupKeeps, ReceiveKeeps, LeaveKeeps DEF Client
<1>2. ASSUME NEW c \in Clients, Serves(c) PROVE Inv'
  BY <1>2, AcceptKeeps, ReadKeeps, ReadEofKeeps, FailKeeps, RespondKeeps, WriteKeeps, WrittenKeeps
     DEF Serves
<1>3. ASSUME NEW c \in Clients, hang_up(c) \/ read_fails(c) \/ write_fails(c) PROVE Inv'
  BY <1>3, LeaveKeeps, FailKeeps
<1>4. CASE accept_fails \/ UNCHANGED vars
  BY <1>4, StutterKeeps
<1>. QED BY <1>1, <1>2, <1>3, <1>4 DEF Next

\* The invariant holds of every state.
THEOREM InvAlways == Spec => []Inv
BY InitInv, NextKeeps, PTL DEF Spec

\* What the invariant says to InStep.
LEMMA InvInStep == Inv => InStep
<1> SUFFICES ASSUME Inv PROVE InStep
  OBVIOUS
<1>1. TypeOK
  <2>1. ASSUME NEW c \in Clients
        PROVE  /\ cpc[c] \in {"start", "idle", "waiting", "undefined", "gone"}
               /\ \A i \in DOMAIN wire[c] : wire[c][i] \in Units(c)
               /\ \A j \in 1..BUFFER_SIZE : buf[c][j] \in Units(c)
               /\ index[c] \in 0..BUFFER_SIZE /\ header_size[c] \in {2, 3}
               /\ msg_size[c] \in GarbageSizes \cup {0, Announced("attach"), Announced("get")}
               /\ st[c] \in {"none", "reading", "database", "posted", "writing", "closed"}
               /\ st[c] \in {"database", "posted", "writing"} => msg[c].kind \in {"attach", "get", "lookup"}
    <3>1. Typed(c)
      BY DEF Inv, ClientInv
    <3>2. \A u \in UnitsUpTo(Len(sent[c])) : u \in Units(c)
      BY DEF UnitsUpTo, Units, Parts
    <3>3. /\ \A i \in DOMAIN wire[c] : wire[c][i] \in UnitsUpTo(Len(sent[c]))
          /\ \A j \in 1..BUFFER_SIZE : buf[c][j] \in UnitsUpTo(Len(sent[c]))
      <4>1. wire[c] \in Seq(UnitsUpTo(Len(sent[c])))
            /\ buf[c] \in [1..BUFFER_SIZE -> UnitsUpTo(Len(sent[c]))]
        BY <3>1 DEF Typed
      <4> DEFINE U == UnitsUpTo(Len(sent[c]))
      <4> HIDE DEF U
      <4>2. wire[c] \in Seq(U) /\ buf[c] \in [1..BUFFER_SIZE -> U]
        BY <4>1 DEF U
      <4>3. /\ \A i \in DOMAIN wire[c] : wire[c][i] \in U
            /\ \A j \in 1..BUFFER_SIZE : buf[c][j] \in U
        BY <4>2, LenProperties, ElementOfSeq
      <4>. QED BY <4>3 DEF U
    <3>. QED BY <3>1, <3>2, <3>3 DEF Typed, Announced, KindSet
  <2>2. accepting \in BOOLEAN /\ torn \in [Clients -> BOOLEAN] /\ failed \in [Clients -> BOOLEAN]
    BY DEF Inv, Shapes
  <2>. QED BY <2>1, <2>2 DEF TypeOK
<1>2. ASSUME NEW c \in Clients, ~torn[c], cpc[c] = "waiting"
      PROVE  LET r == Last(sent[c]) IN
             /\ st[c] \in {"database", "posted", "writing"} =>
                  msg[c].kind = r.kind /\ msg[c].name = r.name
             /\ st[c] = "database" /\ r.kind = "lookup" => msg[c].counted
             /\ back[c] # Null => back[c].kind = r.kind /\ back[c].name = r.name
  <2>1. Waiting(c)
    BY <1>2 DEF Inv, ClientInv, Tracked
  <2>2. Last(sent[c]) = Request(c)
    BY DEF Last, Request
  <2>. QED BY <2>1, <2>2 DEF Waiting, Arriving, Working, Answered, Broken, Answers
<1>3. ASSUME NEW c \in Clients, ~torn[c], cpc[c] = "idle", st[c] # "closed"
      PROVE  /\ st[c] = "reading" /\ wire[c] = <<>> /\ index[c] = 0
             /\ Len(Header(0, "get")) = header_size[c]
  <2>1. Resting(c)
    BY <1>3 DEF Inv, ClientInv, Tracked
  <2>2. Len(Header(0, "get")) = 3
    BY DEF Header
  <2>. QED BY <1>3, <2>1, <2>2 DEF Resting, Ready
<1>. QED BY <1>1, <1>2, <1>3 DEF InStep

\* As long as no frame is cut where the code cannot tell, client and server stay
\* in step: the server works on the request the client waits for, the answer is
\* of its kind and name, and between requests nothing is left over.
THEOREM AlwaysInStep == Spec => []InStep
BY InvAlways, InvInStep, PTL

\* A client that is still there loses its connection only after such a cut, or
\* because the database, the pool or the network failed.
THEOREM ClosesHaveCauses == Spec => []CloseHasCause
<1>1. Inv => CloseHasCause
  <2> SUFFICES ASSUME Inv, NEW c \in Clients, st[c] = "closed", Live(c), ~torn[c] PROVE failed[c]
    BY DEF CloseHasCause
  <2>1. Tracked(c)
    BY DEF Inv, ClientInv
  <2>. QED BY <2>1 DEF Live, Tracked, Resting, Waiting, Arriving, Working, Answered, Broken
<1>. QED BY <1>1, InvAlways, PTL
=============================================================================
