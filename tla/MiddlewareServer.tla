-------------------------- MODULE MiddlewareServer --------------------------
(***************************************************************************)
(* The C++ middleware (server/) and the load client that drives it         *)
(* (client-cpp/), with the TCP stream between them.  TCP keeps bytes in    *)
(* order and cuts them where it likes; Connection::read puts the pieces    *)
(* together by the size a frame announces.  Every request of the client is *)
(* longer than it announces, so what a cut leaves behind matters: a frame  *)
(* is a sequence of units (about two bytes each), each remembering which   *)
(* request it is of.  The table in the database belongs to others: how     *)
(* many rows a lookup finds and whether a name exists is open.             *)
(***************************************************************************)
EXTENDS Integers, Sequences, FiniteSets, SequencesExt

CONSTANTS
    Clients,       \* client threads, one connection each
    Cut,           \* those whose frames arrive in pieces
    Stored,        \* sequence of the names in the table
    PageSize,      \* names a lookup asks for (75 in main.cpp)
    Rounds,        \* times each name of a page is fetched (400)
    DbCapacity,    \* connections of the pool: one per request in the database
    BUFFER_SIZE,   \* units of a connection's buffer (32768 bytes)
    GarbageSizes,  \* sizes that units which are no header may announce
    MaxRequests,   \* bound, per client: requests it sends
    MaxTorn,       \* bound: the same once its stream is torn
    Null

ASSUME MiddlewareAssumption ==
    /\ PageSize \in Nat \ {0} /\ Rounds \in Nat /\ DbCapacity \in Nat
    /\ BUFFER_SIZE \in Nat /\ BUFFER_SIZE >= 8  \* a whole request fits
    /\ GarbageSizes \subseteq Nat /\ MaxRequests \in [Clients -> Nat] /\ MaxTorn \in Nat
    /\ Cut \subseteq Clients

VARIABLES
    cpc,       \* per client: start, idle, waiting, undefined (left the language), gone
    sent,      \* per client: the requests it has sent
    todo,      \* per client: names it is going to fetch
    wire,      \* per client: units on their way to the server
    back,      \* per client: the answer on its way back, or Null
    st,        \* per connection: none, reading, database, posted, writing, closed
    buf, index, msg_size,  \* per connection: the fields of Connection
    header_size,
    msg,       \* per connection: the decoded request, then its answer
    accepting, \* the accept loop still runs
    torn,      \* per connection: a frame was cut where the code cannot tell
    failed     \* per connection: the database, the pool or the network failed it

clientVars == <<cpc, sent, todo>>
bufVars == <<buf, index, msg_size, header_size>>
causes == <<torn, failed>>
vars == <<cpc, sent, todo, wire, back, st, buf, index, msg_size, header_size, msg, accepting,
          torn, failed>>

-----------------------------------------------------------------------------
(* Frames. *)

Unit(id, part) == [id |-> id, part |-> part]
Zero == Unit(0, "zero")

\* What encode() of the three requests puts on the wire.  The size has two bytes
\* in an attach and four later; eight bytes behind the block are sent too.
Header(id, kind) ==
    IF kind = "attach" THEN <<Unit(id, "h1"), Unit(id, "h2")>>
    ELSE <<Unit(id, "h1"), Unit(id, "h2"), Unit(id, "h3")>>
attach_request(id) == <<Unit(id, "type"), Unit(id, "body")>>
getbyname_request(id) == <<Unit(id, "type"), Unit(id, "body")>>

\* The lookup writes its type where the size was, so that it announces seven
\* bytes; it leaves two bytes unset before the count.
lookup_request(id) == <<Unit(id, "type"), Unit(id, "unset"), Unit(id, "count")>>

encode(id, kind) ==
    Header(id, kind)
    \o (CASE kind = "attach" -> attach_request(id)
          [] kind = "get" -> getbyname_request(id)
          [] kind = "lookup" -> lookup_request(id))
    \o <<Unit(id, "beyond"), Unit(id, "beyond")>>

\* The size encode() announces, in units.
Announced(kind) == IF kind = "attach" THEN 4 ELSE 5

\* Mutant: the attach request is not told from the ones that follow it.
HeaderAlwaysShort(kind) == 2

HeaderAfter(kind) == IF kind = "attach" THEN 3 ELSE 2

NewConnection ==
    [buf |-> [i \in 1..BUFFER_SIZE |-> Zero], index |-> 0, msg_size |-> 0, header_size |-> 2]

Init ==
    /\ cpc = [c \in Clients |-> "start"]
    /\ sent = [c \in Clients |-> <<>>] /\ todo = [c \in Clients |-> <<>>]
    /\ wire = [c \in Clients |-> <<>>] /\ back = [c \in Clients |-> Null]
    /\ st = [c \in Clients |-> "none"]
    /\ buf = [c \in Clients |-> NewConnection.buf]
    /\ index = [c \in Clients |-> NewConnection.index]
    /\ msg_size = [c \in Clients |-> NewConnection.msg_size]
    /\ header_size = [c \in Clients |-> NewConnection.header_size]
    /\ msg = [c \in Clients |-> Null]
    /\ accepting = TRUE
    /\ torn = [c \in Clients |-> FALSE] /\ failed = [c \in Clients |-> FALSE]

-----------------------------------------------------------------------------
(* The client: blocking calls, one at a time. *)

\* asio::write of a whole request: what attach(), lookup() and getSecurity() do
\* before they wait.
Send(c, kind, name) ==
    /\ Len(sent[c]) < (IF torn[c] THEN MaxTorn ELSE MaxRequests[c])
    /\ sent' = [sent EXCEPT ![c] = Append(@, [kind |-> kind, name |-> name])]
    /\ wire' = [wire EXCEPT ![c] = @ \o encode(Len(sent[c]) + 1, kind)]
    /\ cpc' = [cpc EXCEPT ![c] = "waiting"]

\* Constructor and attach(): the kernel accepts the connection, the server may
\* be later.
attach(c) ==
    /\ cpc[c] = "start"
    /\ Send(c, "attach", Null)
    /\ UNCHANGED <<todo, back, st, bufVars, msg, accepting, causes>>

lookup(c) ==
    /\ cpc[c] = "idle" /\ todo[c] = <<>>
    /\ Send(c, "lookup", Null)
    /\ UNCHANGED <<todo, back, st, bufVars, msg, accepting, causes>>

getSecurity(c) ==
    /\ cpc[c] = "idle" /\ todo[c] # <<>>
    /\ Send(c, "get", Head(todo[c]))
    /\ todo' = [todo EXCEPT ![c] = Tail(@)]
    /\ UNCHANGED <<back, st, bufVars, msg, accepting, causes>>

\* The pages of main.cpp's work(): a short page is looked up again, the names
\* of a full one are fetched Rounds times.
Page(names) == IF Len(names) < PageSize THEN <<>> ELSE FlattenSeq([i \in 1..Rounds |-> names])

\* decode() of the three responses: the answer is read by the rules of the
\* request, so that one of another kind is garbage; the Security of a missing
\* name has a blob pointer nobody set, which is deleted.
attach_decodes(a) == a.kind = "attach"
getbyname_decodes(a) == a.kind = "get" /\ a.found
lookup_decodes(a) == a.kind = "lookup"
Decodes(r, a) ==
    CASE r.kind = "attach" -> attach_decodes(a)
      [] r.kind = "get" -> getbyname_decodes(a)
      [] r.kind = "lookup" -> lookup_decodes(a)

receive(c) ==
    /\ cpc[c] = "waiting" /\ back[c] # Null
    /\ LET r == Last(sent[c])  a == back[c] IN
       IF ~Decodes(r, a)
       THEN cpc' = [cpc EXCEPT ![c] = "undefined"] /\ UNCHANGED todo
       ELSE /\ cpc' = [cpc EXCEPT ![c] = "idle"]
            /\ todo' = [todo EXCEPT ![c] = IF a.kind = "lookup" THEN Page(a.names) ELSE @]
    /\ back' = [back EXCEPT ![c] = Null]
    /\ UNCHANGED <<sent, wire, st, bufVars, msg, accepting, causes>>

\* eof is taken for an answer: the size was never read, the decoded bytes are
\* those of the stack.
receive_eof(c) ==
    /\ cpc[c] = "waiting" /\ st[c] = "closed" /\ back[c] = Null
    /\ cpc' = [cpc EXCEPT ![c] = "undefined"]
    /\ UNCHANGED <<sent, todo, wire, back, st, bufVars, msg, accepting, causes>>

\* The client process ends: the server reads eof after what is on the wire.
hang_up(c) ==
    /\ cpc[c] \in {"idle", "waiting", "undefined"}
    /\ cpc' = [cpc EXCEPT ![c] = "gone"]
    /\ UNCHANGED <<sent, todo, wire, back, st, bufVars, msg, accepting, causes>>

-----------------------------------------------------------------------------
(* The server: one continuation per connection. *)

\* eventLoop: a connection is accepted and the next one awaited; an error ends
\* the loop.
accept(c) ==
    /\ accepting /\ st[c] = "none" /\ cpc[c] # "start"
    /\ st' = [st EXCEPT ![c] = "reading"]
    /\ UNCHANGED <<clientVars, wire, back, bufVars, msg, accepting, causes>>

accept_fails ==
    /\ accepting /\ accepting' = FALSE
    /\ UNCHANGED <<clientVars, wire, back, st, bufVars, msg, causes>>

\* memcpy(&msg_size, buf, header_size): the announced size if that is a header.
Sizes(c, b, h) ==
    IF \E id \in DOMAIN sent[c], kind \in {"attach", "lookup", "get"} :
           SubSeq(b, 1, h) = Header(id, kind)
    THEN {IF h = 2 THEN Announced("attach") ELSE Announced("get")}
    ELSE GarbageSizes

\* Mutant: the switch has no case for the lookup.
KindsWithoutLookup(c, b, h) ==
    IF b[h + 1].part = "type" /\ sent[c][b[h + 1].id].kind # "lookup"
    THEN {sent[c][b[h + 1].id].kind} ELSE {"undefined"}

\* MsgProcessor::decode: the type, from where the header ends.
Kinds(c, b, h) ==
    CASE b[h + 1] = Zero -> {"undefined"}
      [] b[h + 1].part = "type" -> {sent[c][b[h + 1].id].kind}
      [] OTHER -> {"undefined", "attach", "get", "lookup"}

\* decode() of the messages, from behind the type: the name of a get, the count of
\* a lookup.  What an attach says is not used.
security_name(c, u) ==
    IF u.part = "body" /\ sent[c][u.id].kind = "get" THEN sent[c][u.id].name ELSE Null
counted(u) == u.part = "count"
Decoded(c, b, h, kind) ==
    [kind |-> kind,
     name |-> IF kind = "get" THEN security_name(c, b[h + 2]) ELSE Null,
     counted |-> kind = "lookup" /\ counted(b[h + 3])]

\* Mutant: a message is complete when its header is.
CompleteByHeader(i, size, h) == i >= h

Complete(i, size, h) == i >= size

\* process(): the attach is answered at once; the others need a connection of
\* the pool, which refuses at once when it has none.
InDatabase == {c \in Clients : st[c] = "database"}
HasConnection == Cardinality(InDatabase) < DbCapacity
attach_process(c) == st' = [st EXCEPT ![c] = "posted"] /\ UNCHANGED failed
query_process(c) ==
    IF HasConnection THEN st' = [st EXCEPT ![c] = "database"] /\ UNCHANGED failed
    ELSE st' = [st EXCEPT ![c] = "closed"] /\ failed' = [failed EXCEPT ![c] = TRUE]
process(c, m) == IF m.kind = "attach" THEN attach_process(c) ELSE query_process(c)

\* The rest of the read handler, with the units b, i of them of this message:
\* read on, or decode from the start of the buffer.
Handle(c, b, i, size) ==
    LET h == header_size[c] IN
    /\ buf' = [buf EXCEPT ![c] = b]
    /\ msg_size' = [msg_size EXCEPT ![c] = size]
    /\ IF ~Complete(i, size, h)
       THEN /\ index' = [index EXCEPT ![c] = i]
            /\ UNCHANGED <<st, msg, header_size, failed>>
       ELSE /\ index' = [index EXCEPT ![c] = 0]
            /\ \E kind \in Kinds(c, b, h) :
                LET m == Decoded(c, b, h, kind) IN
                IF kind = "undefined"
                THEN /\ st' = [st EXCEPT ![c] = "closed"]
                     /\ UNCHANGED <<msg, header_size, failed>>
                ELSE /\ msg' = [msg EXCEPT ![c] = m]
                     /\ header_size' = [header_size EXCEPT ![c] =
                            IF kind = "attach" THEN HeaderAfter(kind) ELSE @]
                     /\ process(c, m)

\* A piece ends where the code cannot tell that the frame goes on: behind the
\* announced size, or inside the very first header.
Tears(rest) ==
    /\ rest # <<>>
    /\ Head(rest).part \in {"count", "beyond"} \/ Head(rest) = Unit(1, "h2")

Room(c) == BUFFER_SIZE - index[c]

\* Connection::read completes with k units, as many as there is room for.  The
\* size is read again as soon as there is a header; before, the last one counts.
read(c) ==
    /\ st[c] = "reading" /\ wire[c] # <<>>
    /\ \E k \in 0..Len(wire[c]) :
        LET i == index[c] + k
            b == [j \in 1..BUFFER_SIZE |->
                     IF j > index[c] /\ j <= i THEN wire[c][j - index[c]] ELSE buf[c][j]]
        IN /\ k <= Room(c) /\ (k = 0 => Room(c) = 0) /\ (c \notin Cut => k = Len(wire[c]))
           /\ \E size \in (IF i >= header_size[c] THEN Sizes(c, b, header_size[c])
                           ELSE {msg_size[c]}) :
                Handle(c, b, i, size)
           /\ torn' = [torn EXCEPT ![c] = @ \/ Tears(SubSeq(wire[c], k + 1, Len(wire[c])))]
           /\ wire' = [wire EXCEPT ![c] = SubSeq(@, k + 1, Len(@))]
    /\ UNCHANGED <<clientVars, back, accepting>>

\* eof counts as a read of nothing; the handler goes on as if bytes had come.
read_eof(c) ==
    /\ st[c] = "reading" /\ wire[c] = <<>> /\ cpc[c] = "gone"
    /\ \E size \in (IF index[c] >= header_size[c] THEN Sizes(c, buf[c], header_size[c])
                    ELSE {msg_size[c]}) :
         Handle(c, buf[c], index[c], size)
    /\ UNCHANGED <<clientVars, wire, back, accepting, torn>>

\* Any other error: the handler returns, the last reference to the connection is
\* gone and its socket is closed.
read_fails(c) ==
    /\ st[c] = "reading"
    /\ st' = [st EXCEPT ![c] = "closed"] /\ failed' = [failed EXCEPT ![c] = TRUE]
    /\ UNCHANGED <<clientVars, wire, back, bufVars, msg, accepting, torn>>

\* Mutant: something still refers to the connection of a failed request.
KeptOpen(c) == st' = [st EXCEPT ![c] = "kept"] /\ failed' = [failed EXCEPT ![c] = TRUE]

Dropped(c) == st' = [st EXCEPT ![c] = "closed"] /\ failed' = [failed EXCEPT ![c] = TRUE]

\* The handler of get_security_async and of lookup_async: on an error it returns
\* and nobody answers.
query_fails(c) ==
    /\ st[c] = "database" /\ Dropped(c)
    /\ UNCHANGED <<clientVars, wire, back, bufVars, msg, accepting, torn>>

\* The handlers that process() hands to the repository: the response of the
\* message, and a write posted to the connection's io_context.
getbyname_response(m, found) ==
    [kind |-> m.kind, name |-> m.name, found |-> found, names |-> <<>>]
lookup_response(m, names) ==
    [kind |-> m.kind, name |-> m.name, found |-> FALSE, names |-> names]
Respond(c, response) ==
    /\ msg' = [msg EXCEPT ![c] = response] /\ st' = [st EXCEPT ![c] = "posted"]
    /\ UNCHANGED <<clientVars, wire, back, bufVars, accepting, causes>>

get_security_done(c) ==
    /\ st[c] = "database" /\ msg[c].kind = "get"
    /\ \E found \in BOOLEAN : Respond(c, getbyname_response(msg[c], found))

\* The prefix is quoted in the text of the query: every lookup gets the first
\* names of the table, as many as the count that was decoded.
Least(a, b) == IF a < b THEN a ELSE b
lookup_done(c) ==
    /\ st[c] = "database" /\ msg[c].kind = "lookup"
    /\ \E rows \in 0..Len(Stored),
          count \in (IF msg[c].counted THEN {PageSize} ELSE 0..Len(Stored)) :
        Respond(c, lookup_response(msg[c], SubSeq(Stored, 1, Least(rows, count))))

\* Connection::write: the answer is encoded into the buffer the request came in.
write(c) ==
    /\ st[c] = "posted"
    /\ buf' = [buf EXCEPT ![c] = [j \in 1..BUFFER_SIZE |->
                   IF j <= 4 THEN Unit(0, "answer") ELSE @[j]]]
    /\ st' = [st EXCEPT ![c] = "writing"]
    /\ UNCHANGED <<clientVars, wire, back, index, msg_size, header_size, msg, accepting, causes>>

\* encode() of the responses.
attach_encoded(m) == [kind |-> "attach", name |-> Null, found |-> FALSE, names |-> <<>>]
getbyname_encoded(m) == [kind |-> "get", name |-> m.name, found |-> m.found, names |-> <<>>]
lookup_encoded(m) == [kind |-> "lookup", name |-> Null, found |-> FALSE, names |-> m.names]
Answer(m) ==
    CASE m.kind = "attach" -> attach_encoded(m)
      [] m.kind = "get" -> getbyname_encoded(m)
      [] m.kind = "lookup" -> lookup_encoded(m)

write_done(c) ==
    /\ st[c] = "writing" /\ st' = [st EXCEPT ![c] = "reading"]
    /\ back' = [back EXCEPT ![c] = Answer(msg[c])]
    /\ UNCHANGED <<clientVars, wire, bufVars, msg, accepting, causes>>

write_fails(c) ==
    /\ st[c] = "writing" /\ st' = [st EXCEPT ![c] = "closed"]
    /\ failed' = [failed EXCEPT ![c] = TRUE]
    /\ UNCHANGED <<clientVars, wire, back, bufVars, msg, accepting, torn>>

-----------------------------------------------------------------------------
Client(c) == attach(c) \/ lookup(c) \/ getSecurity(c) \/ receive(c) \/ receive_eof(c)

\* What the threads of the io_contexts run.
Serves(c) ==
    \/ accept(c) \/ read(c) \/ read_eof(c) \/ query_fails(c) \/ get_security_done(c)
    \/ lookup_done(c) \/ write(c) \/ write_done(c)

Next ==
    \/ \E c \in Clients : Client(c) \/ Serves(c) \/ hang_up(c) \/ read_fails(c) \/ write_fails(c)
    \/ accept_fails

Spec == Init /\ [][Next]_vars

\* Every io_context has threads that run its handlers, the database answers and
\* the client threads go on.
FairSpec == Spec /\ \A c \in Clients : WF_vars(Serves(c)) /\ WF_vars(Client(c))
-----------------------------------------------------------------------------
Units(c) == [id : 0..Len(sent[c]), part : {"h1", "h2", "h3", "type", "unset", "count", "body", "beyond", "answer", "zero"}]
Live(c) == cpc[c] \in {"idle", "waiting"}

TypeOK ==
    /\ \A c \in Clients :
        /\ cpc[c] \in {"start", "idle", "waiting", "undefined", "gone"}
        /\ \A i \in DOMAIN wire[c] : wire[c][i] \in Units(c)
        /\ \A j \in 1..BUFFER_SIZE : buf[c][j] \in Units(c)
        /\ index[c] \in 0..BUFFER_SIZE /\ header_size[c] \in {2, 3}
        /\ msg_size[c] \in GarbageSizes \cup {0, Announced("attach"), Announced("get")}
        /\ st[c] \in {"none", "reading", "database", "posted", "writing", "closed"}
        /\ st[c] \in {"database", "posted", "writing"} => msg[c].kind \in {"attach", "get", "lookup"}
    /\ accepting \in BOOLEAN
    /\ torn \in [Clients -> BOOLEAN] /\ failed \in [Clients -> BOOLEAN]

\* As long as no frame was cut inside the bytes it does not announce, client and
\* server stay in step.  While the client waits the server works on its request,
\* with its name and its count, and what is on its way back is the answer to it;
\* between requests nothing of an old frame is on the wire or half read, so that
\* the next header is found where it is.
\* (And every variable has its type.)
InStep ==
    /\ TypeOK
    /\ \A c \in Clients : ~torn[c] =>
          /\ cpc[c] = "waiting" =>
               LET r == Last(sent[c]) IN
               /\ st[c] \in {"database", "posted", "writing"} =>
                    msg[c].kind = r.kind /\ msg[c].name = r.name
               /\ st[c] = "database" /\ r.kind = "lookup" => msg[c].counted
               /\ back[c] # Null => back[c].kind = r.kind /\ back[c].name = r.name
          /\ cpc[c] = "idle" /\ st[c] # "closed" =>
               st[c] = "reading" /\ wire[c] = <<>> /\ index[c] = 0
                   /\ Len(Header(0, "get")) = header_size[c]

\* A client that is still there finds its connection closed only after a torn
\* frame, or because the database, the pool or the network failed.
CloseHasCause ==
    \A c \in Clients : st[c] = "closed" /\ Live(c) => torn[c] \/ failed[c]

\* Every request of a client that stays is answered, or its connection closes,
\* unless a torn frame left the server waiting for bytes nobody sends, or the
\* accept loop has ended.
Stuck(c) == cpc[c] = "waiting" /\ ~torn[c] /\ (accepting \/ st[c] # "none")
RequestsEnd == []<>(\A c \in Clients : ~Stuck(c))
=============================================================================
