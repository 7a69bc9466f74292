----------------------------- MODULE OzoSession -----------------------------
(***************************************************************************)
(* What a user of ozo does with whole requests: a request under a failover *)
(* strategy (retry, role_based), which may take several tries, each on a   *)
(* connection of its own and with its share of the time; or a transaction: *)
(* begin, statements, commit or rollback.  How one try waits and ends is   *)
(* OzoOperation's matter; here it ends with an error code, and the         *)
(* database may have executed its statement or not, or do so later.        *)
(***************************************************************************)
EXTENDS OzoErrors, SequencesExt

CONSTANTS
    Strategies, \* records: kind, tries, conditions, roles, close_connection
    Codes,      \* the error codes a try may end with
    Limits,     \* time constraints of an operation: NoLimit or a duration
    BeginWith,  \* the options begin() is called with: functions
    MaxTime,    \* bound: the clock
    MaxLate,    \* bound: how long after its deadline a try may end
    MaxStatements \* bound: statements in a transaction

NoLimit == -1
NoAnswer == Named("none", "no_answer")

\* A condition is a name or a state; the codes are those of Sqlstate and Named; a
\* mode is one of transaction_mode's, or none is given.
ASSUME SessionAssumption ==
    /\ MaxTime \in Nat /\ MaxLate \in Nat /\ MaxStatements \in Nat
    /\ Limits \subseteq Nat \cup {NoLimit}
    /\ \A s \in Strategies :
         /\ s.kind \in {"retry", "role_based"} /\ s.tries \in Int
         /\ s.roles \in Seq({"master", "replica"}) /\ s.close_connection \in BOOLEAN
         /\ \A c \in s.conditions : DOMAIN c = {"errc"} \/ DOMAIN c = {"state"}
    /\ \A ec \in Codes : /\ ec # NoError /\ ec # NoAnswer
                         /\ ec.cat = "sqlstate" => ec.name = "state"
    /\ \A options \in BeginWith :
         "mode" \in DOMAIN options => options["mode"] \in {"none", "read_write", "read_only"}

VARIABLES
    strategy, \* of the request; a begin() has none
    what,     \* the operation: none, request, begin
    limit,    \* its time constraint
    tried,    \* the tries so far, the last one running or over
    answer,   \* what the user's handler was called with, NoError and NoAnswer apart
    now,
    txn       \* the transaction the user has

vars == <<strategy, what, limit, tried, answer, now, txn>>

Plain == [kind |-> "plain", tries |-> 1, conditions |-> {}, roles |-> <<>>,
          close_connection |-> FALSE]

Init ==
    /\ strategy = Plain /\ what = "none" /\ limit = NoLimit
    /\ tried = <<>> /\ answer = NoAnswer /\ now = 0
    /\ txn = [obj |-> "none", server |-> "idle", asked |-> "none", mode |-> "read_write",
              wrote |-> FALSE, failed |-> FALSE, committed |-> FALSE, ended |-> "none", said |-> "none",
              statements |-> 0]

-----------------------------------------------------------------------------
(* Tries. *)

\* Mutant: the time that has passed is not taken off.
TimeLeftOfAll(deadline, at) == deadline

time_left(deadline, at) == IF deadline > at THEN deadline - at ELSE 0

\* The operation begins at time 0: its limit is its deadline.
get_try_time_constraint(t, n_tries, at) ==
    IF t = NoLimit THEN NoLimit
    ELSE IF n_tries > 0 THEN time_left(t, at) \div n_tries ELSE 0

\* A try: its role's index, the tries left with it, when it began, its time
\* constraint; how it ended and when, its connection, the database's work for it.
\* And its handler: how far it is, the calls of initiate_next_try that have not
\* returned, the depths of those whose guard will close the connection, and how
\* often one did.
Try(i, left, t) ==
    [idx |-> i, left |-> left, at |-> now, share |-> get_try_time_constraint(t, left, now),
     ec |-> NoAnswer, over |-> now, conn |-> "none", work |-> "none",
     step |-> "trying", depth |-> 0, guards |-> {}, closes |-> 0]

Current == Last(tried)
Trying == tried # <<>> /\ Current.step = "trying"
Amended(a) == [tried EXCEPT ![Len(tried)] = a]

\* get_first_try: of as many as the user asked for, or of one for every role.
first_of_retries(s, t) == Try(1, s.tries, t)
first_of_roles(s, t) == Try(1, Len(s.roles), t)

\* operation_initiator: get_first_try and initiate_operation.
request(s, t) ==
    /\ what = "none"
    /\ what' = "request" /\ strategy' = s /\ limit' = t
    /\ tried' = <<IF s.kind = "retry" THEN first_of_retries(s, t) ELSE first_of_roles(s, t)>>
    /\ UNCHANGED <<answer, now, txn>>

\* Mutant: the number of tries is not counted down.
TriesKept(n) == n

adjust_tries_remain(n) == IF n - 1 > 0 THEN n - 1 ELSE 0

\* Mutant: any error is worth a retry.
RetriesAnything(s, left, ec) == left >= 1

can_retry(s, left, ec) ==
    /\ left >= 1
    /\ s.conditions = {} \/ match_code(s.conditions, ec)

master_recovers(ec) ==
    match_code({[errc |-> "connection_error"], [errc |-> "type_mismatch"],
                [errc |-> "protocol_error"], [errc |-> "database_readonly"]}, ec)
replica_recovers(ec) ==
    match_code({[errc |-> "connection_error"], [errc |-> "type_mismatch"],
                [errc |-> "protocol_error"]}, ec)
can_recover(role, ec) == IF role = "master" THEN master_recovers(ec) ELSE replica_recovers(ec)

\* role_based_try::tries_left: of the role's and those behind it.
tries_left(s, i) == Len(s.roles) - i + 1

\* The try has a connection and its statement is sent.
got_connection ==
    /\ Trying /\ Current.conn = "none"
    /\ tried' = Amended([Current EXCEPT !.conn = "open", !.work = "sent"])
    /\ UNCHANGED <<strategy, what, limit, answer, now, txn>>

\* How a try can end: with the database's answer, for want of a connection, with
\* the connection lost, with a result that is not the user's type, or late.
Late(a) == a.share # NoLimit /\ now >= a.at + a.share
CanEnd(a, ec) ==
    CASE ec = NoError -> a.work = "done"
      [] ec.cat = "sqlstate" -> a.work = "refused"
      [] ec.name = "oid_type_mismatch" -> a.work = "done"
      [] ec.name = "timed_out" -> Late(a)
      [] ec.name \in {"pq_connect_poll_failed", "get_resource_timeout"} -> a.conn = "none"
      [] OTHER -> a.conn = "open"

-----------------------------------------------------------------------------
(* The handler of a try, continuation::operator(): it goes through while no time
   passes, but once another try has begun, that one runs beside the rest of it. *)

\* The guard of the call at this depth.
defer_close_connection(s, depth) == IF s.close_connection THEN {depth} ELSE {}

\* The operation has ended.  On an error initiate_next_try is called, unless the
\* operation is a plain one.
try_ends(ec) ==
    /\ Trying /\ CanEnd(Current, ec)
    /\ LET done == [Current EXCEPT !.ec = ec, !.over = now] IN
       tried' = Amended(
           IF ec = NoError \/ strategy.kind = "plain" THEN [done EXCEPT !.step = "none"]
           ELSE [done EXCEPT !.step = "asks", !.depth = 1, !.guards = defer_close_connection(strategy, 1)])
    /\ UNCHANGED <<strategy, what, limit, answer, now, txn>>

\* basic_try::get_next_try: the next try is made, or not.
get_next_try ==
    /\ strategy.kind = "retry" /\ tried # <<>> /\ Current.step = "asks"
    /\ LET more == can_retry(strategy, adjust_tries_remain(Current.left), Current.ec) IN
       tried' = Amended([Current EXCEPT !.step = IF more THEN "next" ELSE "none"])
    /\ UNCHANGED <<strategy, what, limit, answer, now, txn>>

\* Mutant: a role that cannot recover the error ends the failover.
EndsThere(s, i, ec) == FALSE

\* There is a role behind this one: it recovers the error and is tried, or cannot
\* and is passed over.
FallsBack(s, i, ec) == tries_left(s, i) > 1 /\ can_recover(s.roles[i + 1], ec)
PassedOver(s, i, ec) == tries_left(s, i) > 1 /\ ~can_recover(s.roles[i + 1], ec)

\* Mutants: the guard is not released; the call that is made has none.
BothGuarded(s, a) ==
    [a EXCEPT !.depth = @ + 1, !.guards = @ \cup defer_close_connection(s, a.depth + 1)]
NoneGuarded(s, a) == [a EXCEPT !.depth = @ + 1, !.guards = {}]

\* The guard is released and another call made, which has its own.
PassOver(s, a) ==
    [a EXCEPT !.depth = @ + 1,
              !.guards = (@ \ {a.depth}) \cup defer_close_connection(s, a.depth + 1)]

\* role_based_try::initiate_next_try, at the role its depth says: a role that
\* recovers the error is tried while the connection that failed is still open.
initiate_next_try ==
    /\ strategy.kind = "role_based" /\ tried # <<>> /\ Current.step = "asks"
    /\ LET i == Current.idx + (Current.depth - 1) IN
       \/ /\ PassedOver(strategy, i, Current.ec)
          /\ tried' = Amended(PassOver(strategy, Current))
       \/ /\ FallsBack(strategy, i, Current.ec)
          /\ tried' = Append(Amended([Current EXCEPT !.step = "initiated"]),
                             Try(i + 1, tries_left(strategy, i + 1), limit))
       \/ /\ ~PassedOver(strategy, i, Current.ec) /\ ~FallsBack(strategy, i, Current.ec)
          /\ tried' = Amended([Current EXCEPT !.step = "none"])
    /\ UNCHANGED <<strategy, what, limit, answer, now, txn>>

\* The innermost call returns: its guard closes the connection, if there is one.
Closes(a) == a.depth \in a.guards /\ a.conn # "none"
call_returns(k) ==
    /\ tried[k].step \in {"next", "none", "initiated"} /\ tried[k].depth > 0
    /\ LET a == tried[k] IN
       tried' = [tried EXCEPT ![k] =
           [a EXCEPT !.depth = @ - 1, !.guards = @ \ {a.depth},
                     !.conn = IF Closes(a) THEN "closed" ELSE @,
                     !.closes = IF Closes(a) THEN @ + 1 ELSE @]]
    /\ UNCHANGED <<strategy, what, limit, answer, now, txn>>

\* When all have: the try that get_next_try made begins, or the user's handler is
\* called, that of begin() with a transaction whether it failed or not.
continuation ==
    /\ tried # <<>> /\ answer = NoAnswer /\ Current.depth = 0
    /\ \/ /\ Current.step = "next"
          /\ tried' = Append(Amended([Current EXCEPT !.step = "initiated"]),
                             Try(1, adjust_tries_remain(Current.left), limit))
          /\ UNCHANGED <<answer, txn>>
       \/ /\ Current.step = "none" /\ answer' = Current.ec
          /\ txn' = IF what = "begin" THEN [txn EXCEPT !.obj = "transaction"] ELSE txn
          /\ UNCHANGED tried
    /\ UNCHANGED <<strategy, what, limit, now>>

-----------------------------------------------------------------------------
(* The database and the time. *)

\* The database executes a statement it has, or refuses it: in its own time, also
\* when nobody waits for it any more.
execute(i) ==
    /\ tried[i].work = "sent"
    /\ tried' = [tried EXCEPT ![i].work = "done"]
    /\ txn' = IF what = "begin" /\ tried[i].conn = "open"
              THEN [txn EXCEPT !.server = "intrans"] ELSE txn
    /\ UNCHANGED <<strategy, what, limit, answer, now>>
refuse(i) ==
    /\ tried[i].work = "sent"
    /\ tried' = [tried EXCEPT ![i].work = "refused"]
    /\ UNCHANGED <<strategy, what, limit, answer, now, txn>>

Tick ==
    /\ Trying /\ now < MaxTime
    /\ Current.share # NoLimit => now < Current.at + Current.share + MaxLate
    /\ now' = now + 1
    /\ UNCHANGED <<strategy, what, limit, tried, answer, txn>>

-----------------------------------------------------------------------------
(* Transactions. *)

\* A clause of BEGIN, if the option is given and is not none.
to_string(options, o) == IF o \in DOMAIN options /\ options[o] # "none" THEN <<o>> ELSE <<>>

\* Mutant: the mode is left out when an isolation level is given.
BuildsFirst(options) ==
    LET level == to_string(options, "isolation_level")
    IN (level \o (IF level = <<>> THEN to_string(options, "mode") ELSE <<>>))
           \o to_string(options, "deferrability")

\* begin_statement_builder::build: the clauses of BEGIN, in this order.
build(options) ==
    (to_string(options, "isolation_level") \o to_string(options, "mode"))
        \o to_string(options, "deferrability")

\* async_start_transaction: a plain try.
begin(options, t) ==
    /\ what = "none" /\ what' = "begin" /\ limit' = t
    /\ tried' = <<Try(1, 1, t)>>
    /\ txn' = [txn EXCEPT !.asked = IF "mode" \in DOMAIN options THEN options["mode"] ELSE "none",
                          !.mode = IF Contains(build(options), "mode") THEN options["mode"] ELSE @]
    /\ UNCHANGED <<strategy, answer, now>>

InTransaction == what = "begin" /\ answer = NoError /\ txn.obj = "transaction"
Connected == tried[1].conn = "open"

\* A statement on the transaction: the database refuses it in a transaction that
\* has failed, and a write in one that only reads.
statement(writes, ok) ==
    /\ InTransaction /\ Connected /\ txn.statements < MaxStatements
    /\ ok => txn.server = "intrans" /\ ~(writes /\ txn.mode = "read_only")
    /\ txn' = [txn EXCEPT !.statements = @ + 1, !.wrote = @ \/ (ok /\ writes),
                          !.server = IF ok THEN @ ELSE "inerror", !.failed = @ \/ ~ok]
    /\ UNCHANGED <<strategy, what, limit, tried, answer, now>>

\* Mutant: the error of COMMIT and ROLLBACK is lost on the way to the handler.
SaysOk(ec) == "ok"

\* async_end_transaction_op::operator(): the error, and the bare connection.
Said(ec) == ec

\* async_end_transaction: the database answers (a COMMIT in a failed transaction
\* rolls back, and that is no error), refuses, or is not heard of in time or any
\* more: then it has executed it or not.
EndTransaction(kind, how, executed) ==
    /\ InTransaction /\ Connected
    /\ how = "answered" => executed
    /\ how = "refused" => ~executed
    /\ tried' = IF how = "lost" THEN [tried EXCEPT ![1].conn = "closed"] ELSE tried
    /\ txn' = [txn EXCEPT !.obj = "connection", !.ended = kind,
                          !.committed = (executed /\ kind = "COMMIT" /\ txn.server = "intrans"),
                          !.server = IF executed \/ how \in {"refused", "lost"} THEN "idle" ELSE @,
                          !.said = Said(IF how = "answered" THEN "ok" ELSE how)]
    /\ UNCHANGED <<strategy, what, limit, answer, now>>

commit(how, executed) == EndTransaction("COMMIT", how, executed)
rollback(how, executed) == EndTransaction("ROLLBACK", how, executed)
-----------------------------------------------------------------------------
Next ==
    \/ \E t \in Limits :
         \/ \E s \in Strategies : request(s, t)
         \/ \E options \in BeginWith : begin(options, t)
    \/ got_connection \/ \E ec \in Codes \cup {NoError} : try_ends(ec)
    \/ get_next_try \/ initiate_next_try \/ continuation
    \/ \E i \in DOMAIN tried : call_returns(i) \/ execute(i) \/ refuse(i)
    \/ Tick
    \/ \E writes, ok \in BOOLEAN : statement(writes, ok)
    \/ \E how \in {"answered", "refused", "late", "lost"}, executed \in BOOLEAN :
         commit(how, executed) \/ rollback(how, executed)

Spec == Init /\ [][Next]_vars
-----------------------------------------------------------------------------
TypeOK ==
    /\ strategy \in Strategies \cup {Plain} /\ what \in {"none", "request", "begin"}
    /\ limit \in Limits \cup {NoLimit} /\ now \in 0..MaxTime
    /\ answer \in Codes \cup {NoError, NoAnswer}
    /\ \A i \in DOMAIN tried :
         /\ tried[i].idx \in 1..Len(strategy.roles) \cup {1} /\ tried[i].left \in Int
         /\ tried[i].share \in Nat \cup {NoLimit} /\ tried[i].at \in 0..MaxTime
         /\ tried[i].conn \in {"none", "open", "closed"}
         /\ tried[i].work \in {"none", "sent", "done", "refused"}
         /\ tried[i].step \in {"trying", "asks", "next", "none", "initiated"}
         /\ tried[i].depth \in Nat /\ tried[i].guards \subseteq Nat /\ tried[i].closes \in Nat
    /\ txn.obj \in {"none", "transaction", "connection"}
    /\ txn.server \in {"idle", "intrans", "inerror"} /\ txn.statements \in 0..MaxStatements

\* A try is never given time beyond the deadline of the whole, and as long as the
\* tries before it ended in time it has at least its equal share.
OnTime(i) == \A j \in 1..(i - 1) : tried[j].over <= tried[j].at + tried[j].share
FairShare ==
    limit # NoLimit => \A i \in DOMAIN tried :
        LET a == tried[i] IN
        /\ a.at + a.share <= limit \/ a.share = 0
        /\ OnTime(i) /\ tried[1].left > 0 => a.share >= limit \div tried[1].left

\* A request is tried as often as was asked for, and once when less was asked.
\* Roles are tried in their order, each once for every time it is named; one
\* that is passed over cannot recover the error, the one tried next can, and the
\* user hears of an error only when no role that is left can.
Recovers(i, ec) == can_recover(strategy.roles[i], ec)
TriesAsAsked ==
    CASE strategy.kind = "retry" -> Len(tried) <= IF strategy.tries > 1 THEN strategy.tries ELSE 1
      [] strategy.kind = "role_based" ->
           /\ \A k \in 1..(Len(tried) - 1) :
                LET i == tried[k].idx  j == tried[k + 1].idx  ec == tried[k].ec IN
                i < j /\ Recovers(j, ec) /\ \A r \in (i + 1)..(j - 1) : ~Recovers(r, ec)
           /\ answer \in Codes =>
                \A r \in (Current.idx + 1)..Len(strategy.roles) : ~Recovers(r, answer)
      [] OTHER -> Len(tried) <= 1

\* A strategy that retries only what the database itself refused executes the
\* statement at most once.  (One that retries lost connections, deadlines or
\* results of the wrong type may execute it with every try.)
Refusals(s) == s.conditions # {} /\ \A c \in s.conditions :
                   "state" \in DOMAIN c \/ ("errc" \in DOMAIN c /\ c.errc = "database_readonly")
AtMostOnce ==
    strategy.kind = "retry" /\ Refusals(strategy) =>
        \A i, j \in DOMAIN tried :
            tried[i].work \in {"sent", "done"} /\ tried[j].work \in {"sent", "done"} => i = j

\* Unless the user wants to keep them, the connection of a failed try is closed,
\* whatever roles were passed over and however the failover ended: before a retry
\* begins, before the user hears of the error, and, where the next role is tried
\* while it is still open, by the time its handler has returned.  And it is
\* closed once, and not at all if the user wants to keep it.
FailedAreClosed ==
    /\ \A i \in DOMAIN tried :
         LET a == tried[i] IN
         /\ a.closes <= IF strategy.close_connection THEN 1 ELSE 0
         /\ strategy.close_connection /\ i < Len(tried) =>
              a.conn # "open" \/ (strategy.kind = "role_based" /\ a.depth > 0)
    /\ strategy.close_connection /\ answer \in Codes => Current.conn # "open"

\* A commit that is answered well has committed, unless a statement of the
\* transaction had failed and the program commits all the same; a rollback never
\* commits; and the connection is then out of the transaction.  One that was
\* begun read only has written nothing.
\* (And every variable has its type.)
CommitTellsTruth ==
    /\ TypeOK
    /\ txn.said = "ok" => txn.server = "idle"
    /\ txn.said = "ok" /\ txn.ended = "COMMIT" => txn.committed \/ txn.failed
    /\ txn.committed => ~txn.failed /\ txn.ended = "COMMIT"
    /\ txn.asked = "read_only" => ~txn.wrote
=============================================================================
