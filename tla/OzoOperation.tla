---------------------------- MODULE OzoOperation ----------------------------
(***************************************************************************)
(* The asynchronous operations ozo runs on one connection: getting it      *)
(* (async_connect with the request for the oid map), requests on it (a     *)
(* send and a receive operation side by side), the deadline of each, and   *)
(* cancel().  A wait for the socket is taken by the reactor when the       *)
(* socket is ready or the wait is cancelled; its handler is then queued    *)
(* and runs later, in any order with the other handlers of the strand, one *)
(* at a time.  libpq, the socket and the database are environment.         *)
(***************************************************************************)
EXTENDS Integers, FiniteSets

CONSTANTS
    MaxOps,     \* bound: operations the user starts, the first gets the connection
    MaxNotices, \* bound: messages the database sends of its own accord
    OidMaps,    \* whether the connection has an oid map to be asked for: a set of booleans
    Timed       \* which operations have a time constraint: a set of booleans

ASSUME OperationAssumption ==
    MaxOps \in Nat \ {0} /\ MaxNotices \in Nat /\ OidMaps \subseteq BOOLEAN /\ Timed \subseteq BOOLEAN

Ops == 1..MaxOps
Contexts == 1..(MaxOps + 1)     \* request_operation_contexts: the oid map has its own

VARIABLES
    pq,       \* libpq's connection and the database behind it
    op,       \* the operation that runs: id, kind, stage, time constraint
    waits,    \* waits for the socket: of a context or of the connect operation (0)
    ctx,      \* contexts used so far
    state,    \* per context: its query_state
    owner,    \* per context: the operation it belongs to
    drain,    \* the receive operation has its result and reads to the end
    timer,    \* the operation's timer: none, armed, fired, cancelled
    rendez,   \* io_deadline_handler: calls to come and the stored error
    calls,    \* per operation: times the user's handler was called
    outcome,  \* per operation: the error it was called with first
    notices,
    missed,   \* a deadline passed while no wait was there to be cancelled
    late,     \* a send operation ran on after its request was done
    can       \* cancel(): the operation, its timer if it has one, its counter, its calls

opVars == <<op, drain, timer, rendez, calls, outcome>>
ctxVars == <<ctx, state, owner>>
vars == <<pq, op, waits, ctx, state, owner, drain, timer, rendez, calls, outcome, notices, missed,
          late, can>>

NoOp == [id |-> 0, kind |-> "none", timed |-> FALSE]

Init ==
    /\ pq \in [link : {"closed"}, out : {FALSE}, inp : {"nothing"}, got : {0}, active : {FALSE},
               oid_map : OidMaps]
    /\ op = NoOp /\ waits = {}
    /\ ctx = 0
    /\ state = [k \in Contexts |-> "send_in_progress"] /\ owner = [k \in Contexts |-> 0]
    /\ drain = FALSE /\ timer = "none" /\ rendez = [first_call |-> 2, ec |-> "ok"]
    /\ calls = [i \in Ops |-> 0] /\ outcome = [i \in Ops |-> "none"]
    /\ notices = 0 /\ missed = FALSE /\ late = FALSE
    /\ can = [pc |-> "none", timer |-> "none", state |-> 2, calls |-> 0]

-----------------------------------------------------------------------------
(* The socket. *)

Wait(dir, who) == [dir |-> dir, who |-> who, st |-> "waiting"]

\* Mutant: only what waits to write is aborted.
CancelledWrites(ws) ==
    {IF w.st = "waiting" /\ w.dir = "write" THEN [w EXCEPT !.st = "aborted"] ELSE w : w \in ws}

\* socket_.cancel() and socket_.release(): what still waits is aborted, what is
\* ready stays so.
Cancelled(ws) == {IF w.st = "waiting" THEN [w EXCEPT !.st = "aborted"] ELSE w : w \in ws}

\* The wait whose handler runs is taken out of the queue.
Taken(w) == waits \ {w}

-----------------------------------------------------------------------------
(* The completion handler of the operation and its deadline. *)

UserCalled(i, ec) ==
    /\ calls' = [calls EXCEPT ![i] = @ + 1]
    /\ outcome' = [outcome EXCEPT ![i] = IF calls[i] = 0 THEN ec ELSE @]

\* io_deadline_handler::operator(), t and r its timer and context: the first of
\* operation and timer leaves its error, the second calls the user's handler.
\* (Called a third time it has no context any more: counted as a call.)
Finish(i, ec, o, t, r) ==
    IF i # o.id \/ o.kind = "joining"
    THEN UserCalled(i, ec) /\ op' = o /\ timer' = t /\ rendez' = r
    ELSE IF ~o.timed THEN UserCalled(i, ec) /\ op' = NoOp /\ timer' = t /\ rendez' = r
    ELSE IF r.first_call = 2
    THEN /\ timer' = (IF t = "armed" THEN "cancelled" ELSE t)
         /\ rendez' = [first_call |-> 1, ec |-> ec]
         /\ op' = [o EXCEPT !.kind = "joining"]
         /\ UNCHANGED <<calls, outcome>>
    ELSE /\ UserCalled(i, r.ec) /\ op' = NoOp /\ timer' = "none"
         /\ rendez' = [first_call |-> 2, ec |-> "ok"]

\* Mutant: the timer calls the user's handler, as if it came second.
AnswersAtOnce ==
    /\ rendez.first_call = 2
    /\ UserCalled(op.id, "timed_out") /\ timer' = "none" /\ op' = NoOp
    /\ rendez' = [first_call |-> 2, ec |-> "ok"]
    /\ waits' = Cancelled(waits) /\ UNCHANGED missed

\* timer_handler, called first: the socket's waits are cancelled once.  If there
\* is none, because a handler is on its way, the operation goes on.
CancelsStream ==
    /\ rendez.first_call = 2
    /\ waits' = Cancelled(waits)
    /\ missed' = (missed \/ ~\E w \in waits :
                       w.st = "waiting" /\ (w.who = 0 \/ owner[w.who] = op.id))
    /\ rendez' = [first_call |-> 1, ec |-> "timed_out"]
    /\ timer' = "none" /\ UNCHANGED <<op, calls, outcome>>

\* ... and called second: it answers with what the operation left.
Joins ==
    /\ rendez.first_call = 1
    /\ UserCalled(op.id, rendez.ec) /\ op' = NoOp /\ timer' = "none"
    /\ rendez' = [first_call |-> 2, ec |-> "ok"]
    /\ UNCHANGED <<waits, missed>>

run_timer ==
    /\ timer \in {"fired", "cancelled"}
    /\ CancelsStream \/ Joins
    /\ UNCHANGED <<pq, ctxVars, drain, notices, late, can>>

timer_fires ==
    /\ timer = "armed" /\ timer' = "fired"
    /\ UNCHANGED <<pq, op, waits, ctxVars, drain, rendez, calls, outcome, notices, missed, late,
                   can>>

-----------------------------------------------------------------------------
(* Requests. *)

\* Mutant: the context of a failed request is not marked.
StateKept(k) == state

ErrorState(k) == [state EXCEPT ![k] = "error"]

\* request_oid_map_op::operator(): what set_oid_map makes of a request that ended
\* well; it throws when a type of the map is not in the database.
set_oid_map(o) == IF o.kind = "oids" THEN {"ok", "failed"} ELSE {"ok"}

\* done(ctx, ec) and done(ctx), in an operation o with timer t; ws are the waits
\* that are left.
RequestFails(k, ec, ws, o, t) ==
    /\ state' = ErrorState(k)
    /\ waits' = Cancelled(ws)
    /\ Finish(owner[k], ec, o, t, rendez)
    /\ UNCHANGED <<ctx, owner>>
RequestSucceeds(k, ws, o) ==
    /\ waits' = ws
    /\ \E ec \in set_oid_map(o) :
         Finish(owner[k], ec, o, timer, rendez)
    /\ UNCHANGED ctxVars

\* async_request_op: the send operation's perform() and first call, then the
\* receive operation's, which finds the connection busy.  A connection that is
\* not up, or busy with another query, does not take the query.
Request(i, o, t, ws) ==
    LET k == ctx + 1 IN
    /\ ctx' = k /\ owner' = [owner EXCEPT ![k] = i]
    /\ drain' = FALSE
    /\ \/ /\ state' = [state EXCEPT ![k] = "error"]
          /\ waits' = Cancelled(ws)
          /\ Finish(i, "failed", o, t, rendez)
          /\ UNCHANGED pq
       \/ /\ pq.link = "up" /\ ~pq.active
          /\ \E flushed \in BOOLEAN :
              /\ pq' = [pq EXCEPT !.active = TRUE, !.out = ~flushed, !.got = 0, !.inp = "nothing"]
              /\ state' = [state EXCEPT ![k] = IF flushed THEN "send_finish" ELSE @]
              /\ waits' = ws \cup {Wait("read", k)} \cup
                          (IF flushed THEN {} ELSE {Wait("write", k)})
          /\ op' = o /\ timer' = t /\ UNCHANGED <<rendez, calls, outcome>>

request(timed) ==
    /\ op = NoOp /\ outcome[1] = "ok" /\ \E i \in Ops : calls[i] = 0
    /\ LET i == CHOOSE j \in Ops : calls[j] = 0 /\ \A l \in Ops : calls[l] = 0 => j <= l
       IN Request(i, [id |-> i, kind |-> "query", timed |-> timed],
                  IF timed THEN "armed" ELSE "none", waits)
    /\ UNCHANGED <<notices, missed, late, can>>

\* The operation has been ended by another part of it.
Over(i) == op.id # i \/ op.kind = "joining"

\* async_send_query_params_op::operator(): nothing if the receive operation has
\* set an error; a flush, again and again.
run_send(w) ==
    /\ w.dir = "write" /\ w.who # 0 /\ w.st # "waiting"
    /\ late' = (late \/ (state[w.who] = "send_in_progress" /\ Over(owner[w.who])))
    /\ LET k == w.who IN
       \/ /\ state[k] # "send_in_progress" /\ waits' = Taken(w)
          /\ UNCHANGED <<pq, opVars, ctxVars>>
       \/ /\ state[k] = "send_in_progress"
          /\ w.st = "aborted" \/ pq.link # "up"
          /\ RequestFails(k, IF w.st = "aborted" THEN "aborted" ELSE "failed", Taken(w), op, timer)
          /\ UNCHANGED <<pq, drain>>
       \/ /\ state[k] = "send_in_progress" /\ w.st = "ready" /\ pq.link = "up"
          /\ \E left \in {pq.out, FALSE} :
              /\ pq' = [pq EXCEPT !.out = left]
              /\ state' = [state EXCEPT ![k] = IF left THEN @ ELSE "send_finish"]
              /\ waits' = Taken(w) \cup (IF left THEN {Wait("write", k)} ELSE {})
          /\ UNCHANGED <<opVars, ctx, owner>>
    /\ UNCHANGED <<notices, missed, can>>

\* handle_result: rows and commands are processed, which may throw; any other
\* status is an error.
HandleResult(k, w) ==
    \/ RequestSucceeds(k, Taken(w), op)
    \/ RequestFails(k, "failed", Taken(w), op, timer)

\* PQconsumeInput takes what has arrived, and flushes; it fails when the
\* connection is gone.
ConsumeFails == pq.link # "up"

Consumed == [pq EXCEPT !.inp = "nothing",
                       !.got = CASE pq.inp = "part" -> 1 [] pq.inp = "all" -> 2 [] OTHER -> @]

\* PQisBusy in the two loops: before the result, and until nothing follows it.
Arrived(d, got) == IF d THEN got = 2 ELSE got >= 1

\* Mutant: the result is taken for the end.
ResultIsEnd(got) == got >= 1

Ended(got) == got = 2

\* async_get_result_op::operator() after a wait: the first loop until there is a
\* result, the second until there is no other.
run_receive(w) ==
    /\ w.dir = "read" /\ w.who # 0 /\ w.st # "waiting"
    /\ LET k == w.who IN
       \/ /\ state[k] = "error" /\ waits' = Taken(w)
          /\ UNCHANGED <<pq, opVars, ctxVars>>
       \/ /\ state[k] # "error" /\ w.st = "aborted"
          /\ RequestFails(k, "aborted", Taken(w), op, timer)
          /\ UNCHANGED <<pq, drain>>
       \/ /\ state[k] # "error" /\ w.st = "ready" /\ ConsumeFails
          /\ IF drain THEN HandleResult(k, w) ELSE RequestFails(k, "failed", Taken(w), op, timer)
          /\ UNCHANGED <<pq, drain>>
       \/ /\ state[k] # "error" /\ w.st = "ready" /\ ~ConsumeFails
          /\ \E left \in {pq.out, FALSE} :
              LET got == Consumed.got
                  over == Arrived(drain, got) /\ Ended(got)
              IN /\ pq' = [Consumed EXCEPT !.out = left, !.active = (got # 2)]
                 /\ drain' = (drain \/ Arrived(drain, got))
                 /\ IF over THEN HandleResult(k, w)
                    ELSE /\ waits' = Taken(w) \cup {Wait("read", k)}
                         /\ UNCHANGED <<op, timer, rendez, calls, outcome, ctxVars>>
    /\ UNCHANGED <<notices, missed, late, can>>

-----------------------------------------------------------------------------
(* Getting the connection. *)

\* async_connect_op::perform: three ways to fail at once, or the first wait.
connect(timed) ==
    /\ op = NoOp /\ calls[1] = 0
    /\ LET o == [id |-> 1, kind |-> "connect", timed |-> timed]
           t == IF timed THEN "armed" ELSE "none" IN
       \/ /\ Finish(1, "failed", o, t, rendez)
          /\ UNCHANGED <<pq, waits>>
       \/ /\ op' = o /\ timer' = t
          /\ pq' = [pq EXCEPT !.link = "starting"]
          /\ waits' = {Wait("write", 0)}
          /\ UNCHANGED <<rendez, calls, outcome>>
    /\ UNCHANGED <<ctxVars, drain, notices, missed, late, can>>

\* connection_info::operator(): a new connection, whose operation the user waits for.
get_connection(timed) == connect(timed)

\* async_connect_op::operator(): an error, or what PQconnectPoll says.
run_connect(w) ==
    /\ w.who = 0 /\ w.st # "waiting"
    /\ \/ /\ waits' = Taken(w)
          /\ Finish(1, IF w.st = "aborted" THEN "aborted" ELSE "failed", op, timer, rendez)
          /\ UNCHANGED <<pq, ctxVars, drain>>
       \/ /\ w.st = "ready" /\ pq.link = "starting"
          /\ \E dir \in {"read", "write"} : waits' = Taken(w) \cup {Wait(dir, 0)}
          /\ UNCHANGED <<pq, opVars, ctxVars>>
       \/ /\ w.st = "ready" /\ pq.link = "starting" /\ ~pq.oid_map
          /\ pq' = [pq EXCEPT !.link = "up"]
          /\ waits' = Taken(w)
          /\ Finish(1, "ok", op, timer, rendez)
          /\ UNCHANGED <<ctxVars, drain>>
    /\ UNCHANGED <<notices, missed, late, can>>

\* PGRES_POLLING_OK with an oid map: request_oid_map_handler starts a request of
\* its own, under the deadline of the whole.
run_connect_oids(w) ==
    /\ pq.oid_map /\ w.who = 0 /\ w.st = "ready" /\ pq.link = "starting"
    /\ LET up == [pq EXCEPT !.link = "up"]  k == ctx + 1 IN
       /\ ctx' = k /\ owner' = [owner EXCEPT ![k] = 1] /\ drain' = FALSE
       /\ \/ /\ pq' = up /\ state' = [state EXCEPT ![k] = "error"]
             /\ waits' = Cancelled(Taken(w))
             /\ Finish(1, "failed", op, timer, rendez)
          \/ /\ pq' = [up EXCEPT !.active = TRUE]
             /\ state' = [state EXCEPT ![k] = "send_finish"]
             /\ waits' = Taken(w) \cup {Wait("read", k)}
             /\ op' = [op EXCEPT !.kind = "oids"]
             /\ UNCHANGED <<timer, rendez, calls, outcome>>
    /\ UNCHANGED <<notices, missed, late, can>>

\* The user closes the connection while an operation runs.
close ==
    /\ op # NoOp /\ pq.link # "closed"
    /\ pq' = [pq EXCEPT !.link = "closed"]
    /\ waits' = Cancelled(waits)
    /\ UNCHANGED <<opVars, ctxVars, notices, missed, late, can>>

-----------------------------------------------------------------------------
(* cancel(): PQcancel blocks a thread of the executor the user gave, for as long
   as it takes to reach the database.  With a time constraint a timer runs
   beside it, and whoever comes first, its result or the timer, calls the
   handler. *)

cancel(timed) ==
    /\ can.pc = "none" /\ pq.active
    /\ can' = [can EXCEPT !.pc = "blocked", !.timer = IF timed THEN "armed" ELSE "none"]
    /\ UNCHANGED <<pq, waits, opVars, ctxVars, notices, missed, late>>

\* PQcancel returns, well or not, and the handler is queued.
dispatch_cancel ==
    /\ can.pc = "blocked" /\ can' = [can EXCEPT !.pc = "returned"]
    /\ UNCHANGED <<pq, waits, opVars, ctxVars, notices, missed, late>>

\* Mutant: the second to come calls the handler too.
SecondCallsToo(n) == TRUE

\* Mutant: the handler waits for both.
LastCalls(n) == n - 1 = 0

FirstCalls(n) == n - 1 # 0

TimedCancel == can.timer # "none"

\* deadline_cancel_handler::operator(), which has a counter and a timer; without
\* a time constraint it is the user's handler that was queued.
cancel_done ==
    /\ can.pc = "returned"
    /\ \/ /\ ~TimedCancel
          /\ can' = [can EXCEPT !.pc = "done", !.calls = @ + 1]
       \/ /\ TimedCancel /\ FirstCalls(can.state)
          /\ can' = [can EXCEPT !.pc = "done", !.state = @ - 1, !.calls = @ + 1,
                                !.timer = IF @ = "armed" THEN "cancelled" ELSE @]
       \/ /\ TimedCancel /\ ~FirstCalls(can.state)
          /\ can' = [can EXCEPT !.pc = "done", !.state = @ - 1]
    /\ UNCHANGED <<pq, waits, opVars, ctxVars, notices, missed, late>>

\* on_timer_expired, also when the timer was cancelled.
cancel_timer ==
    /\ can.timer \in {"armed", "cancelled"}
    /\ can' = [can EXCEPT !.timer = "over", !.state = @ - 1,
                          !.calls = IF FirstCalls(can.state) THEN @ + 1 ELSE @]
    /\ UNCHANGED <<pq, waits, opVars, ctxVars, notices, missed, late>>

-----------------------------------------------------------------------------
(* The environment: the reactor sees the socket ready, the database answers a
   query it has in full, in one or two pieces, sends notices, goes away, lets
   PQcancel return (dispatch_cancel). *)

Ready(w) == waits' = Taken(w) \cup {[w EXCEPT !.st = "ready"]}
readable(w) ==
    /\ w.dir = "read" /\ w.st = "waiting"
    /\ pq.inp # "nothing" \/ pq.link \in {"starting", "lost"}
    /\ Ready(w)
    /\ UNCHANGED <<pq, opVars, ctxVars, notices, missed, late, can>>
writable(w) ==
    /\ w.dir = "write" /\ w.st = "waiting" /\ Ready(w)
    /\ UNCHANGED <<pq, opVars, ctxVars, notices, missed, late, can>>
answer(piece) ==
    /\ pq.link = "up" /\ pq.active /\ ~pq.out /\ pq.got < 2
    /\ pq.inp # "all" /\ (piece = "part" => pq.got = 0 /\ pq.inp # "part")
    /\ pq' = [pq EXCEPT !.inp = piece]
    /\ UNCHANGED <<waits, opVars, ctxVars, notices, missed, late, can>>
notice ==
    /\ pq.link = "up" /\ pq.inp = "nothing" /\ notices < MaxNotices
    /\ pq' = [pq EXCEPT !.inp = "notice"] /\ notices' = notices + 1
    /\ UNCHANGED <<waits, opVars, ctxVars, missed, late, can>>
lose ==
    /\ pq.link \in {"starting", "up"} /\ pq' = [pq EXCEPT !.link = "lost"]
    /\ UNCHANGED <<waits, opVars, ctxVars, notices, missed, late, can>>

-----------------------------------------------------------------------------
\* What the threads of the io_context run: queued handlers and timers.
Handler(w) == run_send(w) \/ run_receive(w) \/ run_connect(w) \/ run_connect_oids(w)
Runs ==
    \/ \E w \in waits : Handler(w)
    \/ run_timer \/ timer_fires \/ cancel_done \/ cancel_timer

Environment ==
    \/ \E w \in waits : readable(w) \/ writable(w)
    \/ \E piece \in {"part", "all"} : answer(piece)
    \/ notice \/ lose \/ dispatch_cancel

Next ==
    \/ Runs \/ Environment
    \/ \E timed \in Timed : get_connection(timed) \/ request(timed) \/ cancel(timed)
    \/ close

Spec == Init /\ [][Next]_vars

\* The io_context has threads that run what is queued in turn, its timers expire
\* and its reactor reports what has arrived.  The database has to do nothing:
\* nothing need arrive, and PQcancel, which waits for it, may block for ever.
Reported(w) == readable(w) /\ pq.link # "starting"
FairSpec ==
    /\ Spec
    /\ \A dir \in {"read", "write"}, k \in 0..(MaxOps + 1) :
          /\ WF_vars(\E w \in waits : w.dir = dir /\ w.who = k /\ Handler(w))
          /\ WF_vars(\E w \in waits : w.who = k /\ Reported(w))
    /\ WF_vars(run_timer) /\ WF_vars(timer_fires)
    /\ WF_vars(cancel_done) /\ WF_vars(cancel_timer)
-----------------------------------------------------------------------------
TypeOK ==
    /\ pq \in [link : {"closed", "starting", "up", "lost"}, out : BOOLEAN,
               inp : {"nothing", "notice", "part", "all"}, got : 0..2, active : BOOLEAN,
               oid_map : OidMaps]
    /\ op \in [id : 0..MaxOps, kind : {"none", "connect", "oids", "query", "joining"}, timed : BOOLEAN]
    /\ waits \subseteq [dir : {"read", "write"}, who : 0..(MaxOps + 1),
                        st : {"waiting", "ready", "aborted"}]
    /\ ctx \in 0..(MaxOps + 1)
    /\ state \in [Contexts -> {"error", "send_finish", "send_in_progress"}]
    /\ owner \in [Contexts -> 0..MaxOps] /\ drain \in BOOLEAN
    /\ timer \in {"none", "armed", "fired", "cancelled"}
    /\ rendez \in [first_call : 1..2, ec : {"ok", "failed", "aborted", "timed_out"}]
    /\ calls \in [Ops -> Nat]
    /\ outcome \in [Ops -> {"none", "ok", "failed", "aborted", "timed_out"}]
    /\ notices \in 0..MaxNotices /\ missed \in BOOLEAN /\ late \in BOOLEAN
    /\ can.pc \in {"none", "blocked", "returned", "done"}
    /\ can.calls \in Nat /\ can.state \in Nat

\* The handler of an operation is called at most once, although the send and the
\* receive operation, close() and the deadline may each end it: unless a send
\* operation outlives its request, which the receive operation ended well.  And
\* that of cancel() is called by its result or by its timer.
\* (And every variable has its type.)
HandlerOnce ==
    /\ TypeOK
    /\ late \/ \A i \in Ops : calls[i] <= 1
    /\ can.calls <= 1

\* When an operation is over, nothing of it is left that would still end it or
\* wait for the socket in its name: what is queued belongs to a context marked
\* as failed, or flushes a request that has ended well.  And one that ended well
\* has read everything the database sent for it, so that the connection takes
\* the next one; otherwise the connection is gone.
NothingLeftBehind ==
    /\ \A w \in waits :
          \/ w.who = 0 /\ op.id = 1
          \/ w.who # 0 /\ owner[w.who] = op.id
          \/ w.who # 0 /\ state[w.who] = "error" /\ w.st # "waiting"
          \/ w.who # 0 /\ state[w.who] # "error" /\ w.dir = "write"
    /\ \A i \in Ops : outcome[i] = "ok" /\ op = NoOp /\ (\A j \in Ops : calls[j] > 0 => j <= i) =>
          ~pq.active \/ pq.link # "up"

\* An operation with a time constraint ends, whatever the database and the
\* socket do, unless its deadline came while a handler was queued: the one
\* cancel is lost then, and nothing bounds the operation any more.
Bounded == op # NoOp /\ op.timed
DeadlineHolds == []<>(~Bounded \/ missed)

\* What connection_info.h says: with a time constraint the operation is
\* interrupted when that expires.
DeadlineInterrupts == []<>(~Bounded)

\* The user of cancel() hears of it: with a time constraint in any case, even if
\* PQcancel never returns; without one, when it has returned.
CancelRuns == can.pc \in {"returned", "done"} \/ (can.pc = "blocked" /\ TimedCancel)
CancelEnds == []<>(CancelRuns => can.calls > 0)
=============================================================================
