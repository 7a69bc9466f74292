---------------------------- MODULE ResourcePool ----------------------------
(***************************************************************************)
(* The asynchronous resource pool (yamail/resource_pool) with the database *)
(* connections ozo::connection_pool keeps in its cells.  A client asks on  *)
(* the thread of its io_context; get() takes the pool's mutex, gives it up *)
(* and only then takes the queue's, so other clients come in between, and  *)
(* a return hands its cell to a queued client after it gave up the mutex.  *)
(* libpq, the database and the user of a connection are environment.       *)
(***************************************************************************)
EXTENDS Selection

CONSTANTS
    Clients,         \* the users of the pool: each calls get() once
    Contexts,        \* io_contexts
    contextOf,       \* contextOf[c]: where the completion of c's get() runs
    Capacity,        \* cells of the pool
    QueueCapacity,   \* requests the queue holds
    IdleTimeout,     \* how long an unused connection is kept
    Lifespan,        \* how long a connection is kept at all
    Uptime,          \* age of the steady clock when the pool is made
    Waits,           \* Waits[c]: possible wait_durations; queue_timeout(none) is 0
    MaxTime,         \* bound: the last instant a get() is called
    MaxInvalidates,  \* bound: calls of invalidate()
    Null

Cells == 1..Capacity

ASSUME PoolAssumption ==
    /\ contextOf \in [Clients -> Contexts]
    /\ Capacity \in Nat \ {0}          \* assert_capacity
    /\ QueueCapacity \in Nat /\ IdleTimeout \in Nat /\ Lifespan \in Nat
    /\ Uptime \in Nat /\ Waits \in [Clients -> SUBSET Nat] /\ MaxTime \in Nat /\ MaxInvalidates \in Nat
    /\ Null \notin Int /\ Null \notin Clients
    /\ Null \notin [epoch : Nat, bad : BOOLEAN, txn : BOOLEAN]

VARIABLES
    now,         \* the steady clock
    disabled,    \* _disabled: the pool object is gone
    value,       \* per cell: the connection in it, or Null
    reset_time,  \* per cell
    waste_on_recycle,  \* per cell
    available,   \* available_: cells with their drop_time, oldest first
    used,        \* used_
    wasted,      \* wasted_
    queue,       \* _ordered_requests with the time each expires at
    timers,      \* per io_context: when its armed timer fires, or Null
    expired,     \* times of fired timers whose callback has not run
    pc,          \* per client: where its get() or its return stands
    req,         \* per client: the data of that call
    epoch        \* calls of invalidate() so far

cellVars == <<value, reset_time, waste_on_recycle>>
listVars == <<available, used, wasted>>
queueVars == <<queue, timers>>
vars == <<now, disabled, value, reset_time, waste_on_recycle, available, used, wasted, queue,
          timers, expired, pc, req, epoch>>

NoReq == [cell |-> Null, err |-> "ok", wait |-> 0, start |-> 0, epoch |-> 0,
          next |-> Null, wipe |-> FALSE]

\* The pool starts with empty cells; their reset_time is the epoch of the
\* steady clock, which may lie a lifespan back.
Init ==
    /\ now = 0 /\ disabled = FALSE
    /\ value = [x \in Cells |-> Null]
    /\ reset_time = [x \in Cells |-> 0 - Uptime]
    /\ waste_on_recycle = [x \in Cells |-> FALSE]
    /\ available = <<>> /\ used = {} /\ wasted = [x \in Cells |-> x]
    /\ queue = <<>> /\ timers = [io \in Contexts |-> Null] /\ expired = {}
    /\ pc = [c \in Clients |-> "start"]
    /\ req = [c \in Clients |-> NoReq]
    /\ epoch = 0

-----------------------------------------------------------------------------
(* Storage: the three lists of cells. *)

\* lease() walks over cells whose drop_time has come ...
Dropped == {i \in DOMAIN available : \A j \in 1..i : available[j].drop <= now}
Kept == SubSeq(available, Cardinality(Dropped) + 1, Len(available))
WastedByLease == wasted \o [i \in 1..Cardinality(Dropped) |-> available[i].cell]

\* Mutant: a leased cell stays in the list of idle cells.
LeaseKeepsCell ==
    IF available # <<>> THEN [cell |-> available[1].cell, available |-> available,
                              wasted |-> wasted, fresh |-> FALSE]
    ELSE IF wasted # <<>> THEN [cell |-> Head(wasted), available |-> <<>>,
                                wasted |-> Tail(wasted), fresh |-> TRUE]
    ELSE [cell |-> Null, available |-> <<>>, wasted |-> <<>>, fresh |-> FALSE]

\* ... and takes the first one left, or the first empty one.
Lease ==
    IF Kept # <<>> THEN [cell |-> Head(Kept).cell, available |-> Tail(Kept),
                         wasted |-> WastedByLease, fresh |-> FALSE]
    ELSE IF WastedByLease # <<>> THEN [cell |-> Head(WastedByLease), available |-> <<>>,
                                       wasted |-> Tail(WastedByLease), fresh |-> TRUE]
    ELSE [cell |-> Null, available |-> <<>>, wasted |-> <<>>, fresh |-> FALSE]

LifeEnd(x) == reset_time[x] + Lifespan
DropTime(x) == IF now + IdleTimeout < LifeEnd(x) THEN now + IdleTimeout ELSE LifeEnd(x)

\* Mutant: the flag invalidate() leaves on cells in use is not looked at.
ValidWithoutFlag(x) == LifeEnd(x) > now

is_valid(x) == ~waste_on_recycle[x] /\ LifeEnd(x) > now

\* Mutant: a wasted cell stays among the cells in use.
WasteKeepsUsed(x) ==
    /\ value' = [value EXCEPT ![x] = Null]
    /\ wasted' = Append(wasted, x)
    /\ UNCHANGED <<used, available, reset_time, waste_on_recycle>>

\* storage::waste and storage::recycle of a cell that nobody waits for; v is the
\* connection as its user leaves it.
StorageWaste(x) ==
    /\ value' = [value EXCEPT ![x] = Null]
    /\ wasted' = Append(wasted, x)
    /\ used' = used \ {x}
    /\ UNCHANGED <<available, reset_time, waste_on_recycle>>

StorageRecycle(x, v) ==
    IF ~is_valid(x) THEN StorageWaste(x)
    ELSE /\ available' = Append(available, [cell |-> x, drop |-> DropTime(x)])
         /\ used' = used \ {x}
         /\ value' = [value EXCEPT ![x] = v]
         /\ UNCHANGED <<wasted, reset_time, waste_on_recycle>>

-----------------------------------------------------------------------------
(* Queue: requests in order of arrival, timers for the one that expires first. *)

Earliest(q) == CHOOSE i \in DOMAIN q : \A j \in DOMAIN q :
                   q[i].at < q[j].at \/ (q[i].at = q[j].at /\ i <= j)

\* Mutant: the timer is armed for the request that came last.
ArmNewest(q) ==
    IF q = <<>> THEN [io \in Contexts |-> Null]
    ELSE [timers EXCEPT ![contextOf[q[Len(q)].client]] = q[Len(q)].at]

\* update_timer arms the timer of the io_context of the earliest request, and
\* leaves the timers of other contexts as they are.
update_timer(q) ==
    IF q = <<>> THEN [io \in Contexts |-> Null]
    ELSE [timers EXCEPT ![contextOf[q[Earliest(q)].client]] = q[Earliest(q)].at]

fit_capacity == Len(queue) < QueueCapacity

\* Mutant: the request that is served stays in the queue.
PopNothing == queue

pop == Tail(queue)

\* Mutant: lower_bound for upper_bound.
LateBefore(at) == {queue[i].client : i \in {j \in DOMAIN queue : queue[j].at < at}}

\* The requests that expire up to the time of a timer.
Late(at) == {queue[i].client : i \in {j \in DOMAIN queue : queue[j].at <= at}}

SetQueue(q) == queue' = q /\ timers' = update_timer(q)

\* A client's completion is posted with an error, or with a cell.
Refused(r, err) == [r EXCEPT !.err = err]
Served(r, x) == [r EXCEPT !.cell = x, !.wait = 0]

-----------------------------------------------------------------------------
(* pool_impl. *)

\* get() up to lock.unlock(): an error, a leased cell, or on to the queue.
get(c, w) ==
    /\ pc[c] = "start" /\ now <= MaxTime
    /\ LET r == [NoReq EXCEPT !.start = now, !.epoch = epoch]
       IN \/ /\ disabled
             /\ pc' = [pc EXCEPT ![c] = "posted"]
             /\ req' = [req EXCEPT ![c] = Refused(r, "disabled")]
             /\ UNCHANGED <<cellVars, listVars>>
          \/ /\ ~disabled
             /\ available' = Lease.available /\ wasted' = Lease.wasted
             /\ value' = [x \in Cells |-> IF \E i \in Dropped : available[i].cell = x
                                          THEN Null ELSE value[x]]
             /\ IF Lease.cell # Null
                THEN /\ used' = used \cup {Lease.cell}
                     /\ waste_on_recycle' = [waste_on_recycle EXCEPT
                            ![Lease.cell] = @ /\ ~Lease.fresh]
                     /\ pc' = [pc EXCEPT ![c] = "posted"]
                     /\ req' = [req EXCEPT ![c] = Served(r, Lease.cell)]
                ELSE /\ UNCHANGED <<used, waste_on_recycle>>
                     /\ pc' = [pc EXCEPT ![c] = IF w = 0 THEN "posted" ELSE "push"]
                     /\ req' = [req EXCEPT ![c] =
                            IF w = 0 THEN Refused(r, "get_resource_timeout")
                            ELSE [r EXCEPT !.wait = w]]
             /\ UNCHANGED reset_time
    /\ UNCHANGED <<now, disabled, queueVars, expired, epoch>>

\* The rest of get(): queue::push under the queue's own mutex.
push(c) ==
    /\ pc[c] = "push"
    /\ IF fit_capacity
       THEN /\ SetQueue(Append(queue, [client |-> c, at |-> now + req[c].wait]))
            /\ pc' = [pc EXCEPT ![c] = "queued"]
            /\ UNCHANGED req
       ELSE /\ pc' = [pc EXCEPT ![c] = "posted"]
            /\ req' = [req EXCEPT ![c] = Refused(@, "request_queue_overflow")]
            /\ UNCHANGED queueVars
    /\ UNCHANGED <<now, disabled, cellVars, listVars, expired, epoch>>

\* The locked part of recycle() and waste(): serve the queue or the storage.
GiveBack(c, v, wasting) ==
    LET x == req[c].cell IN
    /\ IF queue = <<>>
       THEN /\ IF wasting THEN StorageWaste(x) ELSE StorageRecycle(x, v)
            /\ pc' = [pc EXCEPT ![c] = "done"]
            /\ req' = [req EXCEPT ![c] = NoReq]
            /\ UNCHANGED queueVars
       ELSE /\ SetQueue(pop)
            /\ pc' = [pc EXCEPT ![c] = "handing", ![Head(queue).client] = "popped"]
            /\ req' = [req EXCEPT ![c].next = Head(queue).client,
                                  ![c].wipe = wasting \/ ~is_valid(x)]
            /\ value' = [value EXCEPT ![x] = v]
            /\ UNCHANGED <<reset_time, waste_on_recycle, listVars>>
    /\ UNCHANGED <<now, disabled, expired, epoch>>

recycle(c, v) == GiveBack(c, v, FALSE)
waste(c, v) == GiveBack(c, v, TRUE)

\* The rest of recycle() and waste(): the mutex is free, the cell stays used.
handover(c) ==
    /\ pc[c] = "handing"
    /\ LET x == req[c].cell  d == req[c].next IN
       /\ value' = [value EXCEPT ![x] = IF req[c].wipe THEN Null ELSE @]
       /\ pc' = [pc EXCEPT ![c] = "done", ![d] = "posted"]
       /\ req' = [req EXCEPT ![c] = NoReq, ![d] = Served(@, x)]
    /\ UNCHANGED <<now, disabled, reset_time, waste_on_recycle, listVars, queueVars, expired,
                   epoch>>

\* ~pool(): whoever waits in the queue is told; later pushes are not seen.
disable ==
    /\ ~disabled /\ disabled' = TRUE
    /\ LET gone == {queue[i].client : i \in DOMAIN queue} IN
       /\ pc' = [c \in Clients |-> IF c \in gone THEN "posted" ELSE pc[c]]
       /\ req' = [c \in Clients |-> IF c \in gone THEN Refused(req[c], "disabled") ELSE req[c]]
    /\ SetQueue(<<>>)
    /\ UNCHANGED <<now, cellVars, listVars, expired, epoch>>

invalidate ==
    /\ epoch < MaxInvalidates /\ epoch' = epoch + 1
    /\ LET idle == {available[i].cell : i \in DOMAIN available} IN
       value' = [x \in Cells |-> IF x \in idle THEN Null ELSE value[x]]
    /\ wasted' = wasted \o [i \in DOMAIN available |-> available[i].cell]
    /\ available' = <<>>
    /\ waste_on_recycle' = [x \in Cells |-> waste_on_recycle[x] \/ x \in used]
    /\ UNCHANGED <<now, disabled, reset_time, used, queueVars, expired, pc, req>>

-----------------------------------------------------------------------------
(* Timers: a timer that has fired can no longer be cancelled. *)

timer_fires(io) ==
    /\ timers[io] # Null /\ timers[io] <= now
    /\ expired' = expired \cup {timers[io]}
    /\ timers' = [timers EXCEPT ![io] = Null]
    /\ UNCHANGED <<now, disabled, cellVars, listVars, queue, pc, req, epoch>>

\* What queue::cancel leaves of the queue: every request that expires up to the
\* timer's time is dropped, the others keep their order.
Remaining(late) == Selected(queue, {i \in DOMAIN queue : queue[i].client \notin late})

cancel(at) ==
    /\ at \in expired
    /\ expired' = expired \ {at}
    /\ LET late == Late(at) IN
       /\ pc' = [c \in Clients |-> IF c \in late THEN "posted" ELSE pc[c]]
       /\ req' = [c \in Clients |->
                     IF c \in late THEN Refused(req[c], "get_resource_timeout") ELSE req[c]]
       /\ SetQueue(Remaining(late))
    /\ UNCHANGED <<now, disabled, cellVars, listVars, epoch>>

\* The clock stops at MaxTime, or when the last waiting request has expired.
Tick ==
    /\ now < MaxTime \/ \E i \in DOMAIN queue : now < queue[i].at
    /\ now' = now + 1
    /\ UNCHANGED <<disabled, cellVars, listVars, queueVars, expired, pc, req, epoch>>

-----------------------------------------------------------------------------
(* ozo: what is done with a cell. *)

\* connection_pool::operator(): the time constraint of the user is the time the
\* request may wait in the queue; none means it may not wait at all.
get_connection(c, w) == get(c, w)

Connection(bad) == [epoch |-> epoch, bad |-> bad, txn |-> FALSE]

Reusable(v) == v # Null /\ ~v.bad

\* pooled_connection_wrapper::operator(): an error ends the call, a good
\* connection is handed to the user, otherwise the source makes one.
deliver(c) ==
    /\ pc[c] = "posted"
    /\ LET x == req[c].cell IN
       IF req[c].err # "ok"
       THEN pc' = [pc EXCEPT ![c] = "done"] /\ req' = [req EXCEPT ![c] = NoReq]
       ELSE /\ pc' = [pc EXCEPT ![c] =
                   IF Reusable(value[x]) THEN "using" ELSE "connecting"]
            /\ UNCHANGED req
    /\ UNCHANGED <<now, disabled, cellVars, listVars, queueVars, expired, epoch>>

\* wrapper::operator(): the connection the source made, good or bad, goes into
\* the cell.
connected(c, bad) ==
    /\ pc[c] = "connecting"
    /\ value' = [value EXCEPT ![req[c].cell] = Connection(bad)]
    /\ reset_time' = [reset_time EXCEPT ![req[c].cell] = now]
    /\ pc' = [pc EXCEPT ![c] = "using"]
    /\ UNCHANGED <<now, disabled, waste_on_recycle, listVars, queueVars, expired, req, epoch>>

\* No connection object at all: the handle recycles what the cell holds.
connect_fails(c) == pc[c] = "connecting" /\ recycle(c, value[req[c].cell])

\* Mutant: a connection is wasted only when it is bad.
NeedsWasteIfBad(v) == v.bad

NeedsWaste(v) == v.bad \/ v.txn

\* ~pooled_connection, after the user has left a transaction open or not, and
\* has called close() or found the session gone, or not.  A session that ends
\* while nobody uses it is not noticed: PQstatus stays good.
destroy(c) ==
    /\ pc[c] = "using"
    /\ \E txn, bad \in BOOLEAN :
        LET v == [value[req[c].cell] EXCEPT !.txn = txn, !.bad = @ \/ bad]
        IN IF NeedsWaste(v) THEN waste(c, v) ELSE recycle(c, v)

-----------------------------------------------------------------------------
\* What the threads of the io_contexts do by themselves.
Runs(c) ==
    \/ push(c) \/ handover(c) \/ deliver(c)
    \/ connect_fails(c) \/ \E bad \in BOOLEAN : connected(c, bad)

Timer == (\E io \in Contexts : timer_fires(io)) \/ (\E at \in expired : cancel(at))

Next ==
    \/ \E c \in Clients :
        \/ \E w \in Waits[c] : get_connection(c, w)
        \/ Runs(c) \/ destroy(c)
    \/ disable \/ invalidate \/ Timer \/ Tick

Spec == Init /\ [][Next]_vars

\* Every io_context has threads that run what is posted and its timers, and
\* time goes on; nobody has to give a connection back.
FairSpec ==
    /\ Spec
    /\ \A c \in Clients : WF_vars(Runs(c))
    /\ WF_vars(Timer) /\ WF_vars(Tick)
-----------------------------------------------------------------------------
Owns(c) == req[c].cell # Null
IdleCells == {available[i].cell : i \in DOMAIN available}
EmptyCells == {wasted[i] : i \in DOMAIN wasted}

TypeOK ==
    /\ now \in Nat /\ disabled \in BOOLEAN /\ epoch \in 0..MaxInvalidates
    /\ value \in [Cells -> [epoch : 0..epoch, bad : BOOLEAN, txn : BOOLEAN] \cup {Null}]
    /\ reset_time \in [Cells -> Int] /\ waste_on_recycle \in [Cells -> BOOLEAN]
    /\ available \in Seq([cell : Cells, drop : Int])
    /\ used \subseteq Cells /\ wasted \in Seq(Cells)
    /\ queue \in Seq([client : Clients, at : Nat]) /\ Len(queue) <= QueueCapacity
    /\ timers \in [Contexts -> Nat \cup {Null}] /\ expired \subseteq Nat
    /\ pc \in [Clients -> {"start", "push", "queued", "popped", "posted", "connecting", "using",
                           "handing", "done"}]
    /\ \A c \in Clients :
          /\ req[c].cell \in Cells \cup {Null} /\ req[c].next \in Clients \cup {Null}
          /\ req[c].err \in {"ok", "disabled", "get_resource_timeout", "request_queue_overflow"}
          /\ pc[c] \in {"connecting", "using", "handing"} => req[c].cell \in Cells
          /\ pc[c] = "using" => value[req[c].cell] # Null

\* Every cell is in exactly one list and once; the cells in use are those some
\* client's call, completion or connection has, each of them one: timeouts,
\* failed connects, disable() and hand-overs between clients leak no cell and
\* share none.
\* (And every variable has its type.)
CellsConserved ==
    /\ TypeOK
    /\ Len(available) = Cardinality(IdleCells) /\ Len(wasted) = Cardinality(EmptyCells)
    /\ Len(available) + Len(wasted) + Cardinality(used) = Capacity
    /\ IdleCells \cup EmptyCells \cup used = Cells
    /\ used = {req[c].cell : c \in {d \in Clients : Owns(d)}}
    /\ \A c, d \in Clients : Owns(c) /\ req[c].cell = req[d].cell => c = d
    /\ \A x \in EmptyCells : value[x] = Null

\* Nobody gets an old or a dirty connection.  One a client uses was opened after
\* the last invalidate() before its get(), and had not reached its lifespan when
\* it called get(), if it was not opened later: neither the gap between the two
\* halves of a return nor a wait in the queue lets an old one through.  And no connection waits in the pool, or on its way to the next
\* client, inside a transaction the last user left open, or in bad state.
HandedOutSound ==
    /\ \A c \in Clients : pc[c] = "using" =>
          /\ value[req[c].cell].epoch >= req[c].epoch
          /\ LifeEnd(req[c].cell) > req[c].start \/ reset_time[req[c].cell] >= req[c].start
    /\ \A x \in Cells :
          /\ value[x] # Null
          /\ x \in IdleCells \/ \E c \in Clients : pc[c] = "posted" /\ req[c].cell = x
          => ~value[x].txn /\ ~value[x].bad

\* Whoever waits in the queue is going to be woken in time: a timer, or a fired
\* one whose callback is on its way, stands for the earliest request, although
\* contexts have timers of their own and each is moved and cancelled by others.
\* And the queue has exactly those whose get() waits, once each.
TimeoutPending ==
    /\ queue # <<>> =>
          LET at == queue[Earliest(queue)].at
          IN (\E io \in Contexts : timers[io] # Null /\ timers[io] <= at) \/ at \in expired
    /\ {queue[i].client : i \in DOMAIN queue} = {c \in Clients : pc[c] = "queued"}
    /\ \A i, j \in DOMAIN queue : queue[i].client = queue[j].client => i = j

\* The pool keeps the promise of ResourceLease: the cells change hands one at a
\* time, and each request is answered once.
ownerOf == [x \in Cells |-> IF \E c \in Clients : req[c].cell = x
                            THEN CHOOSE c \in Clients : req[c].cell = x ELSE Null]
Promise == INSTANCE ResourceLease WITH
    Free <- Null, owner <- ownerOf,
    asking <- {c \in Clients : pc[c] \in {"push", "queued", "popped"}}
KeepsPromise == Promise!Spec

\* Every get() is answered, whoever keeps the connections, by a timeout at last:
\* again and again nobody is left between the call and its answer.
Unanswered(c) == pc[c] \in {"push", "queued", "popped", "posted", "connecting"}
GetsEnd == []<>(\A c \in Clients : ~Unanswered(c))
=============================================================================
