-------------------------- MODULE OzoSessionProofs --------------------------
(***************************************************************************)
(* Machine-checked proofs about requests under a failover strategy and     *)
(* about transactions, for any strategies, error codes, time limits and    *)
(* options of begin().                                                     *)
(***************************************************************************)
EXTENDS OzoSession, FiniteSetTheorems, SequenceTheorems, TLAPS

-----------------------------------------------------------------------------
Ends == Codes \cup {NoError, NoAnswer}
Modes == {"none", "read_write", "read_only"}

Conns == {"none", "open", "closed"}
Works == {"none", "sent", "done", "refused"}
Steps == {"trying", "asks", "next", "none", "initiated"}

TryRec == [idx : Nat, left : Int, at : Nat, share : Int, ec : Ends, over : Nat, conn : Conns, work : Works,
           step : Steps, depth : Nat, guards : SUBSET Nat, closes : Nat]
TxnRec == [obj : {"none", "transaction", "connection"}, server : {"idle", "intrans", "inerror"},
           asked : Modes, mode : Modes, wrote : BOOLEAN, failed : BOOLEAN, committed : BOOLEAN,
           ended : {"none", "COMMIT", "ROLLBACK"}, said : {"none", "ok", "refused", "late", "lost"},
           statements : Nat]

Types ==
    /\ strategy \in Strategies \cup {Plain} /\ what \in {"none", "request", "begin"}
    /\ limit \in Nat \cup {NoLimit} /\ limit \in Limits \cup {NoLimit}
    /\ now \in Nat /\ now <= MaxTime /\ answer \in Ends
    /\ tried \in Seq(TryRec) /\ txn \in TxnRec /\ txn.statements <= MaxStatements

\* What has begun, and which operation it is.
Begun ==
    /\ what = "none" => tried = <<>> /\ answer = NoAnswer /\ now = 0 /\ strategy = Plain
    /\ what # "none" => tried # <<>>
    /\ what = "request" => strategy \in Strategies
    /\ what = "begin" => strategy = Plain /\ Len(tried) = 1

\* Each try begins when the one before it ends, with a time worked out then.
Times ==
    /\ tried # <<>> => tried[1].at = 0
    /\ \A k \in DOMAIN tried :
         /\ tried[k].at <= now
         /\ tried[k].share = get_try_time_constraint(limit, tried[k].left, tried[k].at)
         /\ k # 1 => tried[k].at = tried[k - 1].over

\* What is left to try: of as many as were asked for, or the roles not yet tried.
Counts ==
    /\ strategy.kind = "retry" => \A k \in DOMAIN tried : tried[k].left = strategy.tries - k + 1
    /\ strategy.kind = "role_based" =>
         \A k \in DOMAIN tried : /\ tried[k].left = Len(strategy.roles) - tried[k].idx + 1
                                 /\ k # 1 => tried[k].idx > tried[k - 1].idx
    /\ strategy.kind = "plain" => Len(tried) <= 1
    /\ \A k \in DOMAIN tried : /\ tried[k].idx \in 1..Len(strategy.roles) \cup {1}
                               /\ k # 1 => tried[k].left >= 1

\* While the tries end in time, their equal shares are still there.
Reserve ==
    limit # NoLimit /\ tried # <<>> /\ tried[1].left > 0 =>
        \A k \in DOMAIN tried : OnTime(k) =>
            limit - tried[k].at >= (limit \div tried[1].left) * tried[k].left

\* A role is left for the next one that recovers the error.
Roles ==
    strategy.kind = "role_based" =>
        \A k \in DOMAIN tried : k # 1 =>
             /\ Recovers(tried[k].idx, tried[k - 1].ec)
             /\ \A r \in (tried[k - 1].idx + 1)..(tried[k].idx - 1) : ~Recovers(r, tried[k - 1].ec)

\* No role from this one to that one recovers the error.
NoneOf(s, i, j, ec) == \A r \in i..j : ~can_recover(s.roles[r], ec)

\* What the handler of a try has found out under a strategy s: ...
Decided(s, a) ==
    /\ a.step = "trying" <=> a.ec = NoAnswer
    /\ a.step \in {"asks", "next", "initiated"} => a.ec \in Codes /\ s.kind # "plain"
    /\ a.step = "next" => s.kind = "retry" /\ can_retry(s, adjust_tries_remain(a.left), a.ec)
    /\ s.kind = "role_based" /\ a.step = "asks" =>
         NoneOf(s, a.idx + 1, a.idx + (a.depth - 1), a.ec)
    /\ s.kind = "role_based" /\ a.step = "none" /\ a.ec \in Codes =>
         NoneOf(s, a.idx + 1, Len(s.roles), a.ec)
    /\ a.ec = NoError => a.work = "done"
    /\ a.ec \in Codes /\ a.ec.cat = "sqlstate" => a.work = "refused"

\* ... and what it has done about the connection: only the innermost call has a
\* guard, and while there is none the connection is no longer open.
Guarded(s, a) ==
    /\ a.step = "asks" => a.depth >= 1 /\ a.guards = defer_close_connection(s, a.depth)
    /\ a.guards \subseteq {a.depth}
    /\ a.depth = 0 => a.guards = {}
    /\ a.guards # {} => s.close_connection /\ a.closes = 0
    /\ a.step = "trying" => a.closes = 0
    /\ a.closes <= (IF s.close_connection THEN 1 ELSE 0)
    /\ s.close_connection /\ a.ec \in Codes /\ a.guards = {} => a.conn # "open"
    /\ a.step = "trying" \/ a.ec = NoError \/ s.kind = "plain" => a.depth = 0
    /\ a.step = "initiated" /\ s.kind = "retry" => a.depth = 0

\* Every try but the last has initiated another.
Handled ==
    \A k \in DOMAIN tried :
        /\ Decided(strategy, tried[k]) /\ Guarded(strategy, tried[k])
        /\ k # Len(tried) <=> tried[k].step = "initiated"

\* The user hears what the last try ended with, and nothing takes time but a try.
Ended ==
    tried # <<>> =>
        LET a == tried[Len(tried)] IN
        /\ answer # NoAnswer => a.step = "none" /\ a.depth = 0 /\ a.ec = answer
        /\ a.step # "trying" => a.over = now

\* A strategy that retries refusals leaves a refused statement behind.
LeftRefused ==
    strategy.kind = "retry" /\ Refusals(strategy) =>
        \A k \in DOMAIN tried : k # Len(tried) => tried[k].work = "refused"

\* The transaction and its first statement, BEGIN.
TxnInv ==
    /\ what # "begin" => txn.obj = "none" /\ txn.asked = "none"
    /\ txn.obj = "none" => /\ ~txn.failed /\ ~txn.committed /\ ~txn.wrote
                           /\ txn.said = "none" /\ txn.server # "inerror"
    /\ txn.obj = "transaction" => /\ ~txn.committed /\ txn.said = "none"
                                  /\ txn.failed <=> txn.server = "inerror"
    /\ txn.obj = "connection" => answer = NoError
    /\ txn.failed => answer = NoError
    /\ what = "begin" =>
         /\ txn.obj = "none" <=> answer = NoAnswer
         /\ answer = NoError => tried[1].work = "done"
         /\ tried[1].work = "sent" => tried[1].conn = "open"
         /\ tried[1].work = "done" /\ txn.obj # "connection" => txn.server # "idle"
    /\ txn.said = "ok" => txn.server = "idle"
    /\ txn.said = "ok" /\ txn.ended = "COMMIT" => txn.committed \/ txn.failed
    /\ txn.committed => ~txn.failed /\ txn.ended = "COMMIT"
    /\ txn.asked = "read_only" => ~txn.wrote /\ txn.mode = "read_only"

Inv == Types /\ Begun /\ Times /\ Counts /\ Reserve /\ Roles /\ LeftRefused /\ Handled /\ Ended
       /\ TxnInv

-----------------------------------------------------------------------------
(* Arithmetic of the shares. *)

\* Products keep the order.
LEMMA Times2 ==
    ASSUME NEW a \in Nat, NEW b \in Nat, NEW n \in Nat, a <= b
    PROVE  a * n <= b * n /\ a * n \in Nat
  OBVIOUS

\* What a division leaves.
LEMMA Quotient ==
    ASSUME NEW R \in Nat, NEW n \in Nat, n > 0
    PROVE  R \div n \in Nat /\ (R \div n) * n <= R /\ R < (R \div n + 1) * n /\ R \div n <= R
<1>1. R \div n \in Nat /\ (R \div n) * n <= R /\ R < (R \div n + 1) * n
  OBVIOUS
<1> DEFINE s == R \div n
<1>2. s \in Nat /\ s * n <= R
  BY <1>1
<1> HIDE DEF s
<1>3. s <= s * n
  BY <1>2
<1>4. s <= R
  BY <1>2, <1>3
<1>. QED BY <1>1, <1>4 DEF s

\* If R is enough for n shares of q, a try that takes an n-th of R leaves enough
\* for the shares of the tries that are left.
LEMMA SharesLeft ==
    ASSUME NEW R \in Nat, NEW n \in Nat, n > 0, NEW q \in Nat, q * n <= R,
           NEW m \in Nat, m <= n - 1, NEW S \in Int, S >= R - R \div n
    PROVE  S >= q * m /\ q <= R \div n
<1> DEFINE s == R \div n
<1>1. s \in Nat /\ s * n <= R /\ R < (s + 1) * n /\ S >= R - s
  BY Quotient
<1> HIDE DEF s
<1>2. q <= s
  <2> SUFFICES ASSUME q > s PROVE FALSE
    BY <1>1
  <2>1. (s + 1) * n <= q * n
    BY <1>1, Times2
  <2>. QED BY <1>1, <2>1
<1>3. q * m <= q * (n - 1)
  <2>1. m * q <= (n - 1) * q
    BY Times2
  <2>. QED BY <2>1
<1>4. q * (n - 1) <= s * (n - 1)
  BY <1>1, <1>2, Times2
<1>5. s * (n - 1) = s * n - s
  BY <1>1
<1>6. q * m \in Nat /\ s * n \in Nat
  BY <1>1
<1>7. S >= q * m
  BY <1>1, <1>3, <1>4, <1>5, <1>6
<1>. QED BY <1>2, <1>7 DEF s

-----------------------------------------------------------------------------
(* Records and sequences of tries. *)

\* The fields of a try.
LEMMA TryFacts ==
    ASSUME NEW r \in TryRec
    PROVE  /\ r.idx \in Nat /\ r.left \in Int /\ r.at \in Nat /\ r.share \in Int
           /\ r.ec \in Ends /\ r.over \in Nat /\ r.conn \in Conns /\ r.work \in Works
           /\ r.step \in Steps /\ r.depth \in Nat /\ r.guards \in SUBSET Nat /\ r.closes \in Nat
  BY DEF TryRec

\* A sequence of tries with one replaced.
LEMMA SeqChange ==
    ASSUME NEW s \in Seq(TryRec), NEW i \in DOMAIN s, NEW r \in TryRec
    PROVE  /\ [s EXCEPT ![i] = r] \in Seq(TryRec)
           /\ Len([s EXCEPT ![i] = r]) = Len(s)
           /\ DOMAIN [s EXCEPT ![i] = r] = DOMAIN s /\ DOMAIN s = 1..Len(s)
           /\ \A k \in DOMAIN s : [s EXCEPT ![i] = r][k] = IF k = i THEN r ELSE s[k]
  OBVIOUS

Fresh(r, i, n, t) ==
    /\ r \in TryRec /\ r.idx = i /\ r.left = n /\ r.at = now
    /\ r.share = get_try_time_constraint(t, n, now) /\ r.ec = NoAnswer /\ r.over = now
    /\ r.conn = "none" /\ r.work = "none" /\ r.step = "trying" /\ r.depth = 0
    /\ r.guards = {} /\ r.closes = 0

\* A new try.
LEMMA NewTry ==
    ASSUME NEW i \in Nat, NEW n \in Int, NEW t \in Nat \cup {NoLimit}, now \in Nat
    PROVE  Fresh(Try(i, n, t), i, n, t)
<1>1. get_try_time_constraint(t, n, now) \in Int
  <2>1. CASE t = NoLimit
    BY <2>1 DEF get_try_time_constraint, NoLimit
  <2>2. CASE t # NoLimit /\ n > 0
    <3>1. t \in Nat /\ n \in Nat
      BY <2>2
    <3>2. time_left(t, now) \in Nat
      BY <3>1 DEF time_left
    <3>3. time_left(t, now) \div n \in Nat
      BY <2>2, <3>1, <3>2, Quotient
    <3>. QED BY <2>2, <3>3 DEF get_try_time_constraint
  <2>3. CASE t # NoLimit /\ ~(n > 0)
    BY <2>3 DEF get_try_time_constraint
  <2>. QED BY <2>1, <2>2, <2>3
<1>2. NoAnswer \in Ends
  BY DEF Ends
<1> DEFINE g == get_try_time_constraint(t, n, now)
<1> HIDE DEF g
<1>3. g \in Int
  BY <1>1 DEF g
<1>4. {} \in SUBSET Nat
  OBVIOUS
<1>. QED BY <1>2, <1>3, <1>4 DEF Fresh, Try, TryRec, g, Conns, Works, Steps

-----------------------------------------------------------------------------
(* Steps that leave the course of the tries alone. *)

\* The same tries, at another point of their handlers, on other connections or with
\* other work done for them; the last one may end, and the time may be a later one.
SameCourse ==
    /\ strategy' = strategy /\ what' = what /\ limit' = limit /\ (answer' = answer \/ tried # <<>>)
    /\ now' \in Nat /\ now <= now' /\ (now' = now \/ tried # <<>>)
    /\ tried' \in Seq(TryRec) /\ Len(tried') = Len(tried)
    /\ \A k \in 1..Len(tried) :
         /\ tried'[k].idx = tried[k].idx /\ tried'[k].left = tried[k].left
         /\ tried'[k].at = tried[k].at /\ tried'[k].share = tried[k].share
         /\ k # Len(tried) => tried'[k].ec = tried[k].ec /\ tried'[k].over = tried[k].over

\* Nothing that is said of the course of the tries changes.
LEMMA CourseKept ==
    ASSUME Inv, SameCourse
    PROVE  Begun' /\ Times' /\ Counts' /\ Reserve' /\ Roles'
<1>1. tried \in Seq(TryRec) /\ tried' \in Seq(TryRec) /\ now \in Nat
  BY DEF Inv, Types, SameCourse
<1>2. DOMAIN tried = 1..Len(tried) /\ DOMAIN tried' = 1..Len(tried) /\ Len(tried) \in Nat
      /\ Len(tried') = Len(tried) /\ (tried = <<>> <=> Len(tried) = 0) /\ (tried' = <<>> <=> Len(tried) = 0)
  BY <1>1 DEF SameCourse
<1>3. ASSUME NEW k \in 1..Len(tried) PROVE tried[k].at \in Nat /\ tried[k].over \in Nat
  <2>1. tried[k] \in TryRec
    BY <1>1, <1>2
  <2>. QED BY <2>1, TryFacts
<1>4. \A k \in 1..Len(tried) : k # 1 => k - 1 \in 1..Len(tried) /\ k - 1 # Len(tried)
  BY <1>2
<1>5. ASSUME NEW k \in 1..Len(tried), NEW j \in 1..(k - 1) PROVE j \in 1..Len(tried) /\ j # Len(tried)
  <2> DEFINE n == Len(tried)
  <2>1. k \in 1..n /\ j \in 1..(k - 1) /\ n \in Nat
    BY <1>2
  <2> HIDE DEF n
  <2>2. j \in 1..n /\ j # n
    BY <2>1
  <2>. QED BY <2>2 DEF n
<1>6. Begun'
  BY <1>1, <1>2 DEF Inv, Begun, SameCourse
<1>7. Times'
  <2>1. /\ now' \in Nat /\ now <= now' /\ limit' = limit
        /\ \A k \in 1..Len(tried) :
             /\ tried'[k].left = tried[k].left /\ tried'[k].at = tried[k].at
             /\ tried'[k].share = tried[k].share
             /\ k # Len(tried) => tried'[k].over = tried[k].over
    BY DEF SameCourse
  <2>2. /\ tried # <<>> => tried[1].at = 0
        /\ \A k \in 1..Len(tried) :
             /\ tried[k].at <= now
             /\ tried[k].share = get_try_time_constraint(limit, tried[k].left, tried[k].at)
             /\ k # 1 => tried[k].at = tried[k - 1].over
    BY <1>2 DEF Inv, Times
  <2>3. ASSUME NEW k \in 1..Len(tried)
        PROVE  /\ tried'[k].at <= now'
               /\ tried'[k].share = get_try_time_constraint(limit', tried'[k].left, tried'[k].at)
               /\ k # 1 => tried'[k].at = tried'[k - 1].over
    <3>1. tried'[k].at <= now'
      <4>1. tried'[k].at = tried[k].at /\ tried[k].at <= now /\ tried[k].at \in Nat
        BY <1>3, <2>1, <2>2
      <4>. QED BY <1>1, <2>1, <4>1
    <3>2. tried'[k].share = get_try_time_constraint(limit', tried'[k].left, tried'[k].at)
      BY <2>1, <2>2
    <3>3. k # 1 => tried'[k].at = tried'[k - 1].over
      BY <1>4, <2>1, <2>2
    <3>. QED BY <3>1, <3>2, <3>3
  <2>4. tried' # <<>> => tried'[1].at = 0
    <3>1. tried' # <<>> => tried # <<>> /\ 1 \in 1..Len(tried)
      BY <1>2
    <3>. QED BY <2>1, <2>2, <3>1
  <2>. QED BY <1>2, <2>3, <2>4 DEF Times
<1>8. Counts'
  <2>1. strategy' = strategy /\ \A k \in 1..Len(tried) :
            tried'[k].idx = tried[k].idx /\ tried'[k].left = tried[k].left
    BY DEF SameCourse
  <2>2. \A k \in 1..Len(tried) : k # 1 => k - 1 \in 1..Len(tried)
    BY <1>2
  <2>. QED BY <1>2, <2>1, <2>2 DEF Inv, Counts
<1>9. Reserve'
  <2>1. ASSUME NEW k \in 1..Len(tried) PROVE OnTime(k)' <=> OnTime(k)
    <3>1. \A j \in 1..(k - 1) : /\ tried'[j].over = tried[j].over
                                 /\ tried'[j].at = tried[j].at /\ tried'[j].share = tried[j].share
      BY <1>5 DEF SameCourse
    <3>. QED BY <3>1 DEF OnTime
  <2>2. limit' = limit /\ \A k \in 1..Len(tried) :
            tried'[k].left = tried[k].left /\ tried'[k].at = tried[k].at
    BY DEF SameCourse
  <2>3. tried' # <<>> => tried # <<>> /\ 1 \in 1..Len(tried)
    BY <1>2
  <2>. QED BY <1>2, <2>1, <2>2, <2>3 DEF Inv, Reserve
<1>10. Roles'
  <2> SUFFICES ASSUME strategy.kind = "role_based", NEW k \in 1..Len(tried), k # 1
               PROVE  /\ Recovers(tried'[k].idx, tried'[k - 1].ec)
                      /\ \A r \in (tried'[k - 1].idx + 1)..(tried'[k].idx - 1) :
                             ~Recovers(r, tried'[k - 1].ec)
    BY <1>2 DEF Roles, Recovers, SameCourse
  <2>1. k - 1 \in 1..Len(tried) /\ k - 1 # Len(tried)
    BY <1>4
  <2>2. /\ tried'[k].idx = tried[k].idx /\ tried'[k - 1].idx = tried[k - 1].idx
        /\ tried'[k - 1].ec = tried[k - 1].ec
    BY <2>1 DEF SameCourse
  <2>3. /\ Recovers(tried[k].idx, tried[k - 1].ec)
        /\ \A r \in (tried[k - 1].idx + 1)..(tried[k].idx - 1) : ~Recovers(r, tried[k - 1].ec)
    BY <1>2 DEF Inv, Roles
  <2>. QED BY <2>2, <2>3
<1>. QED BY <1>6, <1>7, <1>8, <1>9, <1>10

\* The codes a try ends with are neither success nor "no answer".
LEMMA CodesApart ==
    /\ NoError # NoAnswer /\ NoError \notin Codes /\ NoAnswer \notin Codes
    /\ \A ec \in Codes : ec # NoError /\ ec # NoAnswer
<1>1. NoError # NoAnswer
  BY DEF NoError, NoAnswer, Named
<1>2. \A ec \in Codes : ec # NoError /\ ec # NoAnswer
  BY SessionAssumption
<1>. QED BY <1>1, <1>2

\* The fields of the transaction.
LEMMA TxnFacts ==
    ASSUME NEW r \in TxnRec
    PROVE  /\ r.obj \in {"none", "transaction", "connection"}
           /\ r.server \in {"idle", "intrans", "inerror"} /\ r.asked \in Modes /\ r.mode \in Modes
           /\ r.wrote \in BOOLEAN /\ r.failed \in BOOLEAN /\ r.committed \in BOOLEAN
           /\ r.ended \in {"none", "COMMIT", "ROLLBACK"}
           /\ r.said \in {"none", "ok", "refused", "late", "lost"} /\ r.statements \in Nat
  BY DEF TxnRec

\* What the end of a transaction makes of its record, r, is a record of one.
TxnEnd(r, k, c, s, d) ==
    [r EXCEPT !.obj = "connection", !.ended = k, !.committed = c, !.server = s, !.said = d]

LEMMA TxnEnds ==
    ASSUME NEW r \in TxnRec, NEW k \in {"COMMIT", "ROLLBACK"}, NEW c \in BOOLEAN,
           NEW s \in {"idle", "intrans", "inerror"},
           NEW d \in {"none", "ok", "refused", "late", "lost"}
    PROVE  TxnEnd(r, k, c, s, d) \in TxnRec
  BY DEF TxnRec, TxnEnd

\* What becomes of one try, r, in its handler or on its connection.
Changed(i, r) ==
    /\ tried' = [tried EXCEPT ![i] = r] /\ r \in TryRec
    /\ UNCHANGED <<strategy, what, limit, answer, now>>
    /\ r.idx = tried[i].idx /\ r.left = tried[i].left /\ r.at = tried[i].at /\ r.share = tried[i].share
    /\ i # Len(tried) => /\ r.ec = tried[i].ec /\ r.over = tried[i].over
                         /\ tried[i].work = "refused" => r.work = "refused"
    /\ r.step = "initiated" <=> tried[i].step = "initiated"
    /\ Decided(strategy, r) /\ Guarded(strategy, r)
    /\ i = Len(tried) =>
         /\ answer # NoAnswer => r.step = "none" /\ r.depth = 0 /\ r.ec = answer
         /\ r.step # "trying" => r.over = now

\* All that is said of the tries stays true.
LEMMA OneChanged ==
    ASSUME Inv, NEW i \in DOMAIN tried, NEW r, Changed(i, r)
    PROVE  /\ Begun' /\ Times' /\ Counts' /\ Reserve' /\ Roles' /\ LeftRefused' /\ Handled' /\ Ended'
           /\ txn' \in TxnRec /\ txn'.statements <= MaxStatements => Types'
           /\ \A k \in DOMAIN tried : tried'[k] = IF k = i THEN r ELSE tried[k]
<1> DEFINE n == Len(tried)
<1>1. tried \in Seq(TryRec) /\ now \in Nat
  BY DEF Inv, Types
<1>2. n \in Nat /\ n >= 1 /\ DOMAIN tried = 1..n /\ i \in 1..n /\ tried # <<>>
  BY <1>1
<1>3. r \in TryRec /\ tried' = [tried EXCEPT ![i] = r] /\ UNCHANGED <<strategy, what, limit, answer, now>>
  BY DEF Changed
<1>4. /\ tried' \in Seq(TryRec) /\ Len(tried') = n /\ DOMAIN tried' = 1..n
      /\ \A k \in 1..n : tried'[k] = IF k = i THEN r ELSE tried[k]
  <2> DEFINE T == [tried EXCEPT ![i] = r]
  <2>1. /\ T \in Seq(TryRec) /\ Len(T) = n /\ DOMAIN T = 1..n
        /\ \A k \in 1..n : T[k] = IF k = i THEN r ELSE tried[k]
    BY <1>1, <1>2, <1>3, SeqChange
  <2>2. tried' = T
    BY <1>3
  <2> HIDE DEF T, n
  <2>. QED BY <2>1, <2>2
<1>5. /\ r.idx = tried[i].idx /\ r.left = tried[i].left /\ r.at = tried[i].at
      /\ r.share = tried[i].share
      /\ i # n => r.ec = tried[i].ec /\ r.over = tried[i].over
  BY DEF Changed
<1>6. SameCourse
  <2>1. \A k \in 1..n :
          /\ tried'[k].idx = tried[k].idx /\ tried'[k].left = tried[k].left
          /\ tried'[k].at = tried[k].at /\ tried'[k].share = tried[k].share
          /\ k # n => tried'[k].ec = tried[k].ec /\ tried'[k].over = tried[k].over
    <3> SUFFICES ASSUME NEW k \in 1..n
                 PROVE  /\ tried'[k].idx = tried[k].idx /\ tried'[k].left = tried[k].left
                        /\ tried'[k].at = tried[k].at /\ tried'[k].share = tried[k].share
                        /\ k # n => tried'[k].ec = tried[k].ec /\ tried'[k].over = tried[k].over
      OBVIOUS
    <3>1. CASE k = i
      <4>1. tried'[k] = r
        BY <1>4, <3>1
      <4>. QED BY <1>5, <3>1, <4>1
    <3>2. CASE k # i
      <4>1. tried'[k] = tried[k]
        BY <1>4, <3>2
      <4>. QED BY <4>1
    <3>. QED BY <3>1, <3>2
  <2>. QED BY <1>1, <1>2, <1>3, <1>4, <2>1 DEF SameCourse
<1>7. Begun' /\ Times' /\ Counts' /\ Reserve' /\ Roles'
  BY <1>6, CourseKept
<1>8. txn' \in TxnRec /\ txn'.statements <= MaxStatements => Types'
  BY <1>3, <1>4 DEF Inv, Types
<1>9. LeftRefused'
  BY <1>2, <1>3, <1>4 DEF Inv, LeftRefused, Changed
<1>10. Handled'
  <2>1. ASSUME NEW k \in 1..n
        PROVE  /\ Decided(strategy, tried'[k]) /\ Guarded(strategy, tried'[k])
               /\ k # n <=> tried'[k].step = "initiated"
    <3>1. /\ Decided(strategy, tried[k]) /\ Guarded(strategy, tried[k])
          /\ k # n <=> tried[k].step = "initiated"
      BY <1>2 DEF Inv, Handled
    <3>2. CASE k = i
      BY <1>4, <3>1, <3>2 DEF Changed
    <3>3. CASE k # i
      BY <1>4, <3>1, <3>3
    <3>. QED BY <3>2, <3>3
  <2>. QED BY <1>3, <1>4, <2>1 DEF Handled
<1>11. Ended'
  <2>1. CASE i = n
    BY <1>2, <1>3, <1>4, <2>1 DEF Ended, Changed
  <2>2. CASE i # n
    BY <1>2, <1>3, <1>4, <2>2 DEF Inv, Ended
  <2>. QED BY <2>1, <2>2
<1>. QED BY <1>2, <1>4, <1>7, <1>8, <1>9, <1>10, <1>11

\* The transaction does not change, nor the statement and the connection of BEGIN.
LEMMA TxnKept ==
    ASSUME Inv, UNCHANGED <<what, answer, txn>>,
           what = "begin" => tried'[1].work = tried[1].work /\ tried'[1].conn = tried[1].conn
    PROVE  TxnInv' /\ txn' \in TxnRec /\ txn'.statements <= MaxStatements
<1>1. txn' \in TxnRec /\ txn'.statements <= MaxStatements
  BY DEF Inv, Types
<1>2. TxnInv'
  BY DEF Inv, TxnInv
<1>. QED BY <1>1, <1>2

\* The try that is running or was the last.
LEMMA CurrentTry ==
    ASSUME Inv, tried # <<>>
    PROVE  /\ Current = tried[Len(tried)] /\ Len(tried) \in DOMAIN tried /\ Current \in TryRec
           /\ Decided(strategy, Current) /\ Guarded(strategy, Current)
           /\ Current.step # "initiated" /\ now \in Nat
           /\ answer # NoAnswer => Current.step = "none" /\ Current.depth = 0 /\ Current.ec = answer
           /\ Current.step # "trying" => Current.over = now
           /\ what = "begin" => Len(tried) = 1 /\ strategy.kind = "plain"
           /\ strategy \in Strategies \cup {Plain}
           /\ \A a : Amended(a) = [tried EXCEPT ![Len(tried)] = a]
<1>1. tried \in Seq(TryRec) /\ now \in Nat /\ strategy \in Strategies \cup {Plain}
  BY DEF Inv, Types
<1>2. Len(tried) \in DOMAIN tried /\ Current = tried[Len(tried)]
  BY <1>1 DEF Current, Last
<1>3. what = "begin" => Len(tried) = 1 /\ strategy.kind = "plain"
  BY DEF Inv, Begun, Plain
<1>4. Current \in TryRec
  BY <1>1, <1>2
<1>. QED BY <1>1, <1>2, <1>3, <1>4 DEF Inv, Handled, Ended, Amended

\* A connection for the current try.
LEMMA GotConnection ==
    ASSUME Inv, got_connection
    PROVE  Inv'
<1> DEFINE n == Len(tried)
           a == tried[n]
           r == [a EXCEPT !.conn = "open", !.work = "sent"]
<1>1. tried # <<>> /\ Current.step = "trying" /\ UNCHANGED <<strategy, what, limit, answer, now, txn>>
      /\ Current.conn = "none"
  BY DEF got_connection, Trying
<1>2. n \in DOMAIN tried /\ a \in TryRec /\ Decided(strategy, a) /\ Guarded(strategy, a) /\ a.step = "trying"
      /\ answer = NoAnswer /\ a.conn = "none"
  BY <1>1, CurrentTry
<1>3. tried' = [tried EXCEPT ![n] = r]
  BY <1>1, CurrentTry DEF got_connection
<1> HIDE DEF n
<1> HIDE DEF a
<1>4. r \in TryRec
  BY <1>2 DEF TryRec, Conns, Works
<1>5. /\ r.conn = "open" /\ r.work = "sent" /\ r.idx = a.idx /\ r.left = a.left /\ r.at = a.at
      /\ r.share = a.share /\ r.ec = a.ec /\ r.over = a.over /\ r.step = a.step
      /\ r.depth = a.depth /\ r.guards = a.guards /\ r.closes = a.closes
  BY <1>2 DEF TryRec
<1> HIDE DEF r
<1>6. a.ec = NoAnswer
  BY <1>2 DEF Decided
<1>7. Decided(strategy, r)
  BY <1>2, <1>5, <1>6, CodesApart DEF Decided
<1>8. Guarded(strategy, r)
  BY <1>2, <1>5, <1>6, CodesApart DEF Guarded
<1>9. Changed(n, r)
  BY <1>1, <1>2, <1>3, <1>4, <1>5, <1>7, <1>8 DEF Changed, n, a
<1>10. /\ Begun' /\ Times' /\ Counts' /\ Reserve' /\ Roles' /\ LeftRefused' /\ Handled' /\ Ended'
       /\ txn' \in TxnRec /\ txn'.statements <= MaxStatements => Types'
       /\ tried'[n] = r
  BY <1>2, <1>9, OneChanged
<1>11. Types'
  BY <1>1, <1>10 DEF Inv, Types
<1>12. TxnInv'
  <2>1. what = "begin" => tried'[1] = r
    BY <1>1, <1>10, CurrentTry DEF n
  <2>. QED BY <1>1, <1>2, <1>5, <2>1, CodesApart DEF Inv, TxnInv
<1>. QED BY <1>10, <1>11, <1>12 DEF Inv

\* The database executes the statement of a try, or refuses it.
LEMMA Executed ==
    ASSUME Inv, NEW i \in DOMAIN tried, execute(i) \/ refuse(i)
    PROVE  Inv'
<1> PICK w \in {"done", "refused"} :
        /\ tried' = [tried EXCEPT ![i].work = w] /\ tried[i].work = "sent"
        /\ w = "done" => txn' = IF what = "begin" /\ tried[i].conn = "open"
                                THEN [txn EXCEPT !.server = "intrans"] ELSE txn
        /\ w = "refused" => txn' = txn
  BY DEF execute, refuse
<1> DEFINE a == tried[i]
           r == [a EXCEPT !.work = w]
<1>1. tried \in Seq(TryRec) /\ now \in Nat /\ txn \in TxnRec /\ txn.statements <= MaxStatements
  BY DEF Inv, Types
<1>2. a \in TryRec /\ Decided(strategy, a) /\ Guarded(strategy, a) /\ a.work = "sent"
      /\ UNCHANGED <<strategy, what, limit, answer, now>>
  BY <1>1 DEF Inv, Handled, execute, refuse
<1>3. tried' = [tried EXCEPT ![i] = r]
  OBVIOUS
<1>4. i = Len(tried) =>
        /\ answer # NoAnswer => a.step = "none" /\ a.depth = 0 /\ a.ec = answer
        /\ a.step # "trying" => a.over = now
  BY <1>1 DEF Inv, Ended
<1> HIDE DEF a
<1>5. r \in TryRec
  BY <1>2 DEF TryRec, Works
<1>6. /\ r.conn = a.conn /\ r.work = w /\ r.idx = a.idx /\ r.left = a.left /\ r.at = a.at
      /\ r.share = a.share /\ r.ec = a.ec /\ r.over = a.over /\ r.step = a.step
      /\ r.depth = a.depth /\ r.guards = a.guards /\ r.closes = a.closes
  BY <1>2 DEF TryRec
<1> HIDE DEF r
<1>7. Decided(strategy, r)
  BY <1>2, <1>6 DEF Decided
<1>8. Guarded(strategy, r)
  BY <1>2, <1>6 DEF Guarded
<1>9. Changed(i, r)
  BY <1>2, <1>3, <1>4, <1>5, <1>6, <1>7, <1>8 DEF Changed, a
<1>10. /\ Begun' /\ Times' /\ Counts' /\ Reserve' /\ Roles' /\ LeftRefused' /\ Handled' /\ Ended'
       /\ txn' \in TxnRec /\ txn'.statements <= MaxStatements => Types'
       /\ tried'[i] = r
  BY <1>9, OneChanged
<1>11. txn' \in TxnRec /\ txn'.statements = txn.statements
  BY <1>1 DEF TxnRec
<1>12. TxnInv'
  <2>1. CASE what # "begin"
    BY <1>2, <2>1 DEF Inv, TxnInv
  <2>2. CASE what = "begin"
    <3>1. i = 1 /\ tried'[1] = r /\ a = tried[1]
      BY <1>1, <1>10, <2>2 DEF Inv, Begun, a
    <3>2. tried[1].conn = "open" /\ tried[1].work = "sent" /\ answer # NoError
      BY <1>2, <2>2, <3>1 DEF Inv, TxnInv
    <3>3. txn.obj # "connection" /\ ~txn.failed /\ txn.said # "ok"
      BY <1>1, <2>2, <3>2, TxnFacts DEF Inv, TxnInv
    <3>4. CASE w = "done"
      <4>1. txn' = [txn EXCEPT !.server = "intrans"]
        BY <2>2, <3>1, <3>2, <3>4
      <4>2. /\ txn'.server = "intrans" /\ txn'.obj = txn.obj /\ txn'.asked = txn.asked
            /\ txn'.mode = txn.mode /\ txn'.wrote = txn.wrote /\ txn'.failed = txn.failed
            /\ txn'.committed = txn.committed /\ txn'.ended = txn.ended /\ txn'.said = txn.said
        BY <1>1, <4>1 DEF TxnRec
      <4>. QED BY <1>2, <1>6, <2>2, <3>1, <3>2, <3>3, <3>4, <4>2 DEF Inv, TxnInv
    <3>5. CASE w = "refused"
      BY <1>2, <1>6, <2>2, <3>1, <3>2, <3>3, <3>5 DEF Inv, TxnInv
    <3>. QED BY <3>4, <3>5
  <2>. QED BY <2>1, <2>2
<1>. QED BY <1>1, <1>10, <1>11, <1>12 DEF Inv

\* Time passes.
LEMMA Ticked ==
    ASSUME Inv, Tick
    PROVE  Inv'
<1>1. now \in Nat /\ MaxTime \in Nat /\ tried \in Seq(TryRec)
  BY SessionAssumption DEF Inv, Types
<1>2. now' = now + 1 /\ now < MaxTime /\ tried # <<>> /\ Current.step = "trying"
      /\ UNCHANGED <<strategy, what, limit, tried, answer, txn>>
  BY DEF Tick, Trying
<1>3. SameCourse
  BY <1>1, <1>2 DEF SameCourse
<1>4. Begun' /\ Times' /\ Counts' /\ Reserve' /\ Roles'
  BY <1>3, CourseKept
<1>5. Types'
  BY <1>1, <1>2 DEF Inv, Types
<1>6. LeftRefused' /\ Handled' /\ TxnInv'
  BY <1>2 DEF Inv, LeftRefused, Handled, TxnInv
<1>7. Ended'
  BY <1>2, CurrentTry DEF Inv, Ended
<1>. QED BY <1>4, <1>5, <1>6, <1>7 DEF Inv

\* A statement of the transaction.
LEMMA StatementMade ==
    ASSUME Inv, NEW writes \in BOOLEAN, NEW ok \in BOOLEAN, statement(writes, ok)
    PROVE  Inv'
<1>1. now \in Nat /\ tried \in Seq(TryRec) /\ txn \in TxnRec /\ MaxStatements \in Nat
  BY SessionAssumption DEF Inv, Types
<1>2. UNCHANGED <<strategy, what, limit, tried, answer, now>>
  BY DEF statement
<1>3. what = "begin" /\ answer = NoError /\ txn.obj = "transaction" /\ txn.statements < MaxStatements
  BY DEF statement, InTransaction
<1>4. SameCourse
  BY <1>1, <1>2 DEF SameCourse
<1>5. Begun' /\ Times' /\ Counts' /\ Reserve' /\ Roles'
  BY <1>4, CourseKept
<1>6. LeftRefused' /\ Handled' /\ Ended'
  BY <1>2 DEF Inv, LeftRefused, Handled, Ended
<1>7. /\ txn' = [txn EXCEPT !.statements = txn.statements + 1, !.wrote = txn.wrote \/ (ok /\ writes),
                            !.server = IF ok THEN txn.server ELSE "inerror",
                            !.failed = txn.failed \/ ~ok]
      /\ ok => txn.server = "intrans" /\ ~(writes /\ txn.mode = "read_only")
  BY DEF statement
<1>8. /\ txn'.statements = txn.statements + 1 /\ txn'.wrote = (txn.wrote \/ (ok /\ writes))
      /\ txn'.server = (IF ok THEN txn.server ELSE "inerror") /\ txn'.failed = (txn.failed \/ ~ok)
      /\ txn'.obj = txn.obj /\ txn'.asked = txn.asked /\ txn'.mode = txn.mode
      /\ txn'.committed = txn.committed /\ txn'.ended = txn.ended /\ txn'.said = txn.said
  BY <1>1, <1>7 DEF TxnRec
<1>9. txn' \in TxnRec
  <2>1. (txn.wrote \/ (ok /\ writes)) \in BOOLEAN /\ (txn.failed \/ ~ok) \in BOOLEAN
    OBVIOUS
  <2>2. (IF ok THEN txn.server ELSE "inerror") \in {"idle", "intrans", "inerror"}
        /\ txn.statements + 1 \in Nat
    BY <1>1, TxnFacts
  <2>. QED BY <1>1, <1>7, <2>1, <2>2 DEF TxnRec
<1>10. Types'
  <2>1. txn'.statements <= MaxStatements
    BY <1>1, <1>3, <1>8, TxnFacts
  <2>. QED BY <1>2, <1>9, <2>1 DEF Inv, Types
<1>11. TxnInv'
  <2>1. ~txn.committed /\ txn.said = "none" /\ (txn.failed <=> txn.server = "inerror")
        /\ tried[1].work = "done" /\ txn.server # "idle"
        /\ (txn.asked = "read_only" => ~txn.wrote /\ txn.mode = "read_only")
    BY <1>3 DEF Inv, TxnInv
  <2>2. CASE ok
    <3>1. txn'.server = "intrans" /\ (txn'.failed <=> FALSE) /\ (txn'.wrote <=> (txn.wrote \/ writes))
      BY <1>7, <1>8, <2>1, <2>2
    <3>2. txn'.asked = "read_only" => ~txn'.wrote /\ txn'.mode = "read_only"
      BY <1>7, <1>8, <2>1, <2>2, <3>1
    <3>. QED BY <1>2, <1>3, <1>8, <2>1, <3>1, <3>2, CodesApart DEF TxnInv
  <2>3. CASE ~ok
    <3>1. txn'.server = "inerror" /\ (txn'.failed <=> TRUE) /\ (txn'.wrote <=> txn.wrote)
      BY <1>7, <1>8, <2>1, <2>3
    <3>. QED BY <1>2, <1>3, <1>8, <2>1, <3>1, CodesApart DEF TxnInv
  <2>. QED BY <2>2, <2>3
<1>. QED BY <1>5, <1>6, <1>10, <1>11 DEF Inv

\* COMMIT and ROLLBACK.
LEMMA TransactionEnded ==
    ASSUME Inv, NEW kind \in {"COMMIT", "ROLLBACK"}, NEW executed \in BOOLEAN,
           NEW how \in {"answered", "refused", "late", "lost"}, EndTransaction(kind, how, executed)
    PROVE  Inv'
<1>1. now \in Nat /\ tried \in Seq(TryRec) /\ txn \in TxnRec /\ txn.statements <= MaxStatements
  BY DEF Inv, Types
<1>2. UNCHANGED <<strategy, what, limit, answer, now>>
  BY DEF EndTransaction
<1>3. what = "begin" /\ answer = NoError /\ txn.obj = "transaction"
  BY DEF EndTransaction, InTransaction
<1>4. Len(tried) = 1 /\ DOMAIN tried = 1..1 /\ tried # <<>> /\ 1 \in DOMAIN tried /\ tried[1] \in TryRec
  BY <1>1, <1>3 DEF Inv, Begun
<1>5. /\ Begun' /\ Times' /\ Counts' /\ Reserve' /\ Roles' /\ LeftRefused' /\ Handled' /\ Ended'
      /\ txn' \in TxnRec /\ txn'.statements <= MaxStatements => Types'
      /\ tried'[1].work = tried[1].work
  <2>1. CASE how # "lost"
    <3>1. tried' = tried
      BY <2>1 DEF EndTransaction
    <3>2. SameCourse
      BY <1>1, <1>2, <3>1 DEF SameCourse
    <3>3. Begun' /\ Times' /\ Counts' /\ Reserve' /\ Roles'
      BY <3>2, CourseKept
    <3>4. LeftRefused' /\ Handled' /\ Ended'
      BY <1>2, <3>1 DEF Inv, LeftRefused, Handled, Ended
    <3>5. txn' \in TxnRec /\ txn'.statements <= MaxStatements => Types'
      BY <1>2, <3>1 DEF Inv, Types
    <3>. QED BY <3>1, <3>3, <3>4, <3>5
  <2>2. CASE how = "lost"
    <3> DEFINE a == tried[1]
               r == [a EXCEPT !.conn = "closed"]
    <3>1. tried' = [tried EXCEPT ![1] = r]
      BY <2>2 DEF EndTransaction
    <3>2. /\ a \in TryRec /\ Decided(strategy, a) /\ Guarded(strategy, a) /\ a.step = "none"
          /\ a.depth = 0 /\ a.ec = answer /\ a.over = now
      BY <1>3, <1>4, CodesApart DEF Inv, Handled, Ended
    <3> HIDE DEF a
    <3>3. r \in TryRec
      BY <3>2 DEF TryRec, Conns
    <3>4. /\ r.conn = "closed" /\ r.work = a.work /\ r.idx = a.idx /\ r.left = a.left /\ r.at = a.at
          /\ r.share = a.share /\ r.ec = a.ec /\ r.over = a.over /\ r.step = a.step
          /\ r.depth = a.depth /\ r.guards = a.guards /\ r.closes = a.closes
      BY <3>2 DEF TryRec
    <3> HIDE DEF r
    <3>5. Decided(strategy, r)
      BY <3>2, <3>4 DEF Decided
    <3>6. Guarded(strategy, r)
      BY <3>2, <3>4 DEF Guarded
    <3>7. Changed(1, r)
      BY <1>2, <1>4, <3>1, <3>2, <3>3, <3>4, <3>5, <3>6 DEF Changed, a
    <3>. QED BY <1>4, <3>4, <3>7, OneChanged DEF a
  <2>. QED BY <2>1, <2>2
<1> DEFINE com == executed /\ kind = "COMMIT" /\ txn.server = "intrans"
           srv == IF executed \/ how \in {"refused", "lost"} THEN "idle" ELSE txn.server
           sd == IF how = "answered" THEN "ok" ELSE how
<1>10. txn' = [txn EXCEPT !.obj = "connection", !.ended = kind, !.committed = com,
                          !.server = srv, !.said = sd]
  BY DEF EndTransaction, Said
<1>11. com \in BOOLEAN /\ srv \in {"idle", "intrans", "inerror"}
       /\ sd \in {"none", "ok", "refused", "late", "lost"} /\ (how = "answered" => executed)
       /\ (sd = "ok" => how = "answered")
  BY <1>1, TxnFacts DEF EndTransaction
<1>12. (sd = "ok" => srv = "idle" /\ (kind = "COMMIT" => com \/ txn.server # "intrans"))
       /\ (com => kind = "COMMIT" /\ txn.server = "intrans")
  BY <1>11
<1> HIDE DEF com, srv, sd
<1>13. /\ txn'.obj = "connection" /\ txn'.ended = kind /\ txn'.committed = com /\ txn'.server = srv
       /\ txn'.said = sd /\ txn'.asked = txn.asked /\ txn'.mode = txn.mode
       /\ txn'.wrote = txn.wrote /\ txn'.failed = txn.failed /\ txn'.statements = txn.statements
  BY <1>1, <1>10 DEF TxnRec
<1>14. txn' \in TxnRec
  <2>1. txn \in TxnRec /\ kind \in {"COMMIT", "ROLLBACK"}
    BY <1>1
  <2>2. com \in BOOLEAN /\ srv \in {"idle", "intrans", "inerror"}
        /\ sd \in {"none", "ok", "refused", "late", "lost"}
    BY <1>11
  <2>3. TxnEnd(txn, kind, com, srv, sd) \in TxnRec
    BY <2>1, <2>2, TxnEnds
  <2>4. txn' = TxnEnd(txn, kind, com, srv, sd)
    BY <1>10 DEF TxnEnd
  <2>. QED BY <2>3, <2>4
<1>15. Types'
  BY <1>1, <1>5, <1>13, <1>14
<1>16. TxnInv'
  <2>1. ~txn.committed /\ txn.said = "none" /\ (txn.failed <=> txn.server = "inerror")
        /\ tried[1].work = "done" /\ txn.server # "idle"
        /\ (txn.asked = "read_only" => ~txn.wrote /\ txn.mode = "read_only")
    BY <1>3 DEF Inv, TxnInv
  <2>2. txn.server = "intrans" \/ txn.server = "inerror"
    BY <1>1, <2>1, TxnFacts
  <2>. QED BY <1>2, <1>3, <1>5, <1>12, <1>13, <2>1, <2>2, CodesApart DEF TxnInv
<1>. QED BY <1>5, <1>15, <1>16 DEF Inv

-----------------------------------------------------------------------------
(* The first try. *)

\* Whatever the operation is, its first try has all the time there is.
LEMMA FirstTry ==
    ASSUME Inv, what = "none", NEW t \in Limits, NEW left \in Int,
           tried' = <<Try(1, left, t)>>, limit' = t, answer' = answer, now' = now
    PROVE  /\ tried' \in Seq(TryRec) /\ Len(tried') = 1 /\ DOMAIN tried' = 1..1 /\ tried' # <<>>
           /\ tried'[1].idx = 1 /\ tried'[1].left = left /\ tried'[1].ec = NoAnswer
           /\ tried'[1].conn = "none" /\ tried'[1].work = "none" /\ answer = NoAnswer /\ now = 0
           /\ limit' \in Nat \cup {NoLimit}
           /\ Times' /\ Reserve' /\ LeftRefused' /\ Handled' /\ Ended'
<1>1. now = 0 /\ answer = NoAnswer /\ tried = <<>>
  BY DEF Inv, Begun
<1>2. t \in Nat \cup {NoLimit}
  BY SessionAssumption
<1> DEFINE r == Try(1, left, t)
<1>3. /\ r \in TryRec /\ r.idx = 1 /\ r.left = left /\ r.at = now
      /\ r.share = get_try_time_constraint(t, left, now) /\ r.ec = NoAnswer
      /\ r.conn = "none" /\ r.work = "none"
      /\ r.step = "trying" /\ r.depth = 0 /\ r.guards = {} /\ r.closes = 0
  <2>1. now \in Nat /\ 1 \in Nat
    BY <1>1
  <2>2. Fresh(r, 1, left, t)
    BY <1>2, <2>1, NewTry
  <2> HIDE DEF r
  <2>. QED BY <2>2 DEF Fresh
<1>4. tried' = <<r>>
  OBVIOUS
<1> HIDE DEF r
<1>5. tried' \in Seq(TryRec) /\ Len(tried') = 1 /\ DOMAIN tried' = 1..1 /\ tried' # <<>> /\ tried'[1] = r
  BY <1>3, <1>4
<1>6. Times'
  BY <1>1, <1>3, <1>5 DEF Times
<1>7. Reserve'
  <2> SUFFICES ASSUME t # NoLimit, left > 0
               PROVE  t - 0 >= (t \div left) * left
    BY <1>1, <1>3, <1>5 DEF Reserve
  <2>1. t \in Nat /\ left \in Nat
    BY <1>2
  <2>. QED BY <2>1, Quotient
<1>8. LeftRefused'
  BY <1>5 DEF LeftRefused
<1>9. \A s : Decided(s, r) /\ Guarded(s, r)
  <2>1. \A s : Decided(s, r)
    BY <1>3, CodesApart DEF Decided
  <2>2. \A s : Guarded(s, r)
    BY <1>3, CodesApart DEF Guarded
  <2>. QED BY <2>1, <2>2
<1>10. Handled' /\ Ended'
  BY <1>1, <1>3, <1>5, <1>9 DEF Handled, Ended
<1>. QED BY <1>1, <1>2, <1>3, <1>5, <1>6, <1>7, <1>8, <1>10

\* A request begins.
LEMMA Requested ==
    ASSUME Inv, NEW t \in Limits, NEW s \in Strategies, request(s, t)
    PROVE  Inv'
<1> DEFINE left == IF s.kind = "retry" THEN s.tries ELSE Len(s.roles)
<1>1. what = "none" /\ what' = "request" /\ strategy' = s /\ limit' = t
      /\ UNCHANGED <<answer, now, txn>> /\ tried' = <<Try(1, left, t)>>
  BY DEF request, first_of_retries, first_of_roles
<1>2. s.kind \in {"retry", "role_based"} /\ s.tries \in Int /\ Len(s.roles) \in Nat
  BY SessionAssumption
<1>3. left \in Int /\ (s.kind = "retry" => left = s.tries) /\ (s.kind # "retry" => left = Len(s.roles))
  BY <1>2
<1> HIDE DEF left
<1>4. /\ tried' \in Seq(TryRec) /\ Len(tried') = 1 /\ DOMAIN tried' = 1..1 /\ tried' # <<>>
      /\ tried'[1].idx = 1 /\ tried'[1].left = left /\ tried'[1].ec = NoAnswer
      /\ tried'[1].conn = "none" /\ tried'[1].work = "none" /\ answer = NoAnswer /\ now = 0
      /\ limit' \in Nat \cup {NoLimit}
      /\ Times' /\ Reserve' /\ LeftRefused' /\ Handled' /\ Ended'
  BY <1>1, <1>3, FirstTry
<1>5. Types'
  BY <1>1, <1>4 DEF Inv, Types
<1>6. Begun'
  BY <1>1, <1>4 DEF Begun
<1>7. Counts'
  BY <1>1, <1>2, <1>3, <1>4 DEF Counts
<1>8. Roles'
  BY <1>1, <1>4, CodesApart DEF Roles
<1>9. TxnInv'
  BY <1>1 DEF Inv, TxnInv
<1>. QED BY <1>4, <1>5, <1>6, <1>7, <1>8, <1>9 DEF Inv

\* An element of two sequences in a row is one of theirs.
LEMMA InEither ==
    ASSUME NEW S, NEW p \in Seq(S), NEW q \in Seq(S), NEW e
    PROVE  p \o q \in Seq(S) /\ (Contains(p \o q, e) <=> Contains(p, e) \/ Contains(q, e))
<1> DEFINE s == p \o q
           m == Len(p)
           n == Len(q)
<1>1. s \in Seq(S) /\ Len(s) = m + n /\ m \in Nat /\ n \in Nat
  BY ConcatProperties, LenProperties
<1>2. \A i \in 1..(m + n) : s[i] = IF i <= m THEN p[i] ELSE q[i - m]
  BY ConcatProperties
<1> HIDE DEF s
<1>3. ASSUME NEW i \in 1..m, p[i] = e PROVE Contains(s, e)
  <2>1. i \in 1..(m + n) /\ s[i] = e
    BY <1>1, <1>2, <1>3
  <2>. QED BY <1>1, <2>1 DEF Contains
<1>4. ASSUME NEW i \in 1..n, q[i] = e PROVE Contains(s, e)
  <2>1. m + i \in 1..(m + n) /\ ~(m + i <= m) /\ (m + i) - m = i
    BY <1>1
  <2>2. s[m + i] = e
    BY <1>2, <1>4, <2>1
  <2>. QED BY <1>1, <2>1, <2>2 DEF Contains
<1>5. ASSUME NEW i \in 1..(m + n), s[i] = e PROVE Contains(p, e) \/ Contains(q, e)
  <2>1. CASE i <= m
    <3>1. i \in 1..m /\ p[i] = e
      BY <1>1, <1>2, <1>5, <2>1
    <3>. QED BY <3>1 DEF Contains
  <2>2. CASE ~(i <= m)
    <3>1. i - m \in 1..n /\ q[i - m] = e
      BY <1>1, <1>2, <1>5, <2>2
    <3>. QED BY <3>1 DEF Contains
  <2>. QED BY <2>1, <2>2
<1>6. Contains(s, e) <=> Contains(p, e) \/ Contains(q, e)
  BY <1>1, <1>3, <1>4, <1>5 DEF Contains
<1>. QED BY <1>1, <1>6 DEF s

\* The statement of begin() names the mode exactly if one is given.
LEMMA ModeBuilt ==
    ASSUME NEW options
    PROVE  Contains(build(options), "mode") <=>
               "mode" \in DOMAIN options /\ options["mode"] # "none"
<1> DEFINE level == to_string(options, "isolation_level")
           mode == to_string(options, "mode")
           last == to_string(options, "deferrability")
<1> DEFINE S == {"isolation_level", "mode", "deferrability"}
<1>1. level \in Seq(S) /\ mode \in Seq(S) /\ last \in Seq(S)
  <2>1. ASSUME NEW o \in S PROVE to_string(options, o) \in Seq(S)
    <3> HIDE DEF S
    <3>1. to_string(options, o) = <<o>> \/ to_string(options, o) = <<>>
      BY DEF to_string
    <3>2. <<o>> \in Seq(S)
      <4>1. <<o>> \in [1..1 -> S]
        OBVIOUS
      <4>. QED BY <4>1, SeqDef
    <3>3. <<>> \in Seq(S)
      BY EmptySeq
    <3>. QED BY <3>1, <3>2, <3>3
  <2>. QED BY <2>1
<1>2. ~Contains(level, "mode") /\ ~Contains(last, "mode")
  BY DEF Contains, to_string
<1>3. Contains(mode, "mode") <=> "mode" \in DOMAIN options /\ options["mode"] # "none"
  BY DEF Contains, to_string
<1>4. build(options) = (level \o mode) \o last
  BY DEF build
<1> HIDE DEF level, mode, last, S
<1>5. level \o mode \in Seq(S) /\ (Contains(level \o mode, "mode") <=> Contains(mode, "mode"))
  BY <1>1, <1>2, InEither
<1>6. Contains(build(options), "mode") <=> Contains(mode, "mode")
  <2>1. Contains((level \o mode) \o last, "mode") <=> Contains(level \o mode, "mode") \/ Contains(last, "mode")
    BY <1>1, <1>5, InEither
  <2>. QED BY <1>2, <1>4, <1>5, <2>1
<1>. QED BY <1>3, <1>6

\* A transaction begins.
LEMMA BeginMade ==
    ASSUME Inv, NEW t \in Limits, NEW options \in BeginWith, begin(options, t)
    PROVE  Inv'
<1> DEFINE asked == IF "mode" \in DOMAIN options THEN options["mode"] ELSE "none"
           mode == IF Contains(build(options), "mode") THEN options["mode"] ELSE txn.mode
<1>1. what = "none" /\ what' = "begin" /\ limit' = t /\ UNCHANGED <<strategy, answer, now>>
      /\ tried' = <<Try(1, 1, t)>> /\ txn' = [txn EXCEPT !.asked = asked, !.mode = mode]
  BY DEF begin
<1>2. txn \in TxnRec /\ strategy = Plain
  BY <1>1 DEF Inv, Types, Begun
<1>3. asked \in Modes /\ mode \in Modes /\ (asked = "read_only" => mode = "read_only")
  <2>1. "mode" \in DOMAIN options => options["mode"] \in Modes
    BY SessionAssumption DEF Modes
  <2>2. txn.mode \in Modes
    BY <1>2, TxnFacts
  <2>3. asked \in Modes
    BY <2>1 DEF Modes
  <2>4. mode \in Modes
    BY <2>1, <2>2, ModeBuilt
  <2>5. asked = "read_only" => mode = "read_only"
    BY ModeBuilt
  <2>. QED BY <2>3, <2>4, <2>5
<1> HIDE DEF asked, mode
<1>4. /\ tried' \in Seq(TryRec) /\ Len(tried') = 1 /\ DOMAIN tried' = 1..1 /\ tried' # <<>>
      /\ tried'[1].idx = 1 /\ tried'[1].left = 1 /\ tried'[1].ec = NoAnswer
      /\ tried'[1].conn = "none" /\ tried'[1].work = "none" /\ answer = NoAnswer /\ now = 0
      /\ limit' \in Nat \cup {NoLimit}
      /\ Times' /\ Reserve' /\ LeftRefused' /\ Handled' /\ Ended'
  BY <1>1, FirstTry
<1>5. /\ txn' \in TxnRec /\ txn'.asked = asked /\ txn'.mode = mode /\ txn'.obj = txn.obj
      /\ txn'.server = txn.server /\ txn'.wrote = txn.wrote /\ txn'.failed = txn.failed
      /\ txn'.committed = txn.committed /\ txn'.ended = txn.ended /\ txn'.said = txn.said
      /\ txn'.statements = txn.statements
  BY <1>1, <1>2, <1>3 DEF TxnRec
<1>6. Types'
  BY <1>1, <1>4, <1>5 DEF Inv, Types
<1>7. Begun'
  BY <1>1, <1>2, <1>4 DEF Begun
<1>8. Plain.kind = "plain" /\ strategy' = Plain
  BY <1>1, <1>2 DEF Plain
<1>9. Counts' /\ Roles'
  BY <1>4, <1>8 DEF Counts, Roles
<1>10. TxnInv'
  <2>1. txn.obj = "none" /\ ~txn.failed /\ ~txn.committed /\ ~txn.wrote /\ txn.said = "none"
        /\ txn.server # "inerror"
    BY <1>1 DEF Inv, TxnInv
  <2>. QED BY <1>1, <1>3, <1>4, <1>5, <2>1, CodesApart DEF TxnInv
<1>. QED BY <1>4, <1>6, <1>7, <1>9, <1>10 DEF Inv

-----------------------------------------------------------------------------
(* The handler of a try. *)

\* The database has answered what is no error, and refused what is a state.
LEMMA EndsWith ==
    ASSUME NEW a, NEW ec \in Codes \cup {NoError}, CanEnd(a, ec)
    PROVE  /\ ec = NoError => a.work = "done"
           /\ ec \in Codes /\ ec.cat = "sqlstate" => a.work = "refused"
<1>1. ec = NoError => a.work = "done"
  BY DEF CanEnd, NoError, Named
<1>2. ASSUME ec \in Codes, ec.cat = "sqlstate" PROVE a.work = "refused"
  <2>1. ec.name = "state" /\ ec # NoError
    BY <1>2, SessionAssumption
  <2>. QED BY <1>2, <2>1 DEF CanEnd
<1>. QED BY <1>1, <1>2

\* A try ends.
LEMMA TryEnded ==
    ASSUME Inv, NEW ec \in Codes \cup {NoError}, try_ends(ec)
    PROVE  Inv'
<1> DEFINE n == Len(tried)
           a == tried[n]
           s == strategy
           plain == ec = NoError \/ s.kind = "plain"
           d == [a EXCEPT !.ec = ec, !.over = now]
           p == [d EXCEPT !.step = "none"]
           g == defer_close_connection(s, 1)
           q == [d EXCEPT !.step = "asks", !.depth = 1, !.guards = g]
           r == IF plain THEN p ELSE q
<1>1. tried # <<>> /\ Current.step = "trying" /\ UNCHANGED <<strategy, what, limit, answer, now, txn>>
      /\ CanEnd(Current, ec)
  BY DEF try_ends, Trying
<1>2. n \in DOMAIN tried /\ a \in TryRec /\ Decided(s, a) /\ Guarded(s, a) /\ a.step = "trying"
      /\ answer = NoAnswer /\ CanEnd(a, ec) /\ now \in Nat /\ Current = a
  BY <1>1, CurrentTry
<1>3. tried' = [tried EXCEPT ![n] = r]
  BY <1>1, <1>2, CurrentTry DEF try_ends
<1>4. ec \in Ends /\ ec # NoAnswer /\ g \in SUBSET Nat
  BY CodesApart DEF Ends, defer_close_connection
<1>5. a.ec = NoAnswer /\ a.depth = 0 /\ a.guards = {} /\ a.closes = 0
  BY <1>2 DEF Decided, Guarded
<1>6. (s.kind = "plain" => ~s.close_connection) /\ s.kind \in {"plain", "retry", "role_based"}
  BY <1>1, CurrentTry, SessionAssumption DEF Plain
<1>7. ec = NoError => a.work = "done"
  BY <1>2, EndsWith
<1>8. ec \in Codes /\ ec.cat = "sqlstate" => a.work = "refused"
  BY <1>2, EndsWith
<1> HIDE DEF n
<1> HIDE DEF a
<1> HIDE DEF g
<1>9. /\ d \in TryRec /\ d.ec = ec /\ d.over = now /\ d.conn = a.conn /\ d.work = a.work
      /\ d.idx = a.idx /\ d.left = a.left /\ d.at = a.at /\ d.share = a.share
      /\ d.depth = a.depth /\ d.guards = a.guards /\ d.closes = a.closes
  BY <1>2, <1>4 DEF TryRec
<1> HIDE DEF d
<1>10. /\ p \in TryRec /\ p.ec = d.ec /\ p.over = d.over /\ p.conn = d.conn /\ p.work = d.work
       /\ p.idx = d.idx /\ p.left = d.left /\ p.at = d.at /\ p.share = d.share
       /\ p.step = "none" /\ p.depth = d.depth /\ p.guards = d.guards /\ p.closes = d.closes
  BY <1>9 DEF TryRec, Steps
<1>11. q \in TryRec
  BY <1>4, <1>9 DEF TryRec, Steps
<1>12. /\ q.ec = d.ec /\ q.over = d.over /\ q.conn = d.conn /\ q.work = d.work
       /\ q.idx = d.idx /\ q.left = d.left /\ q.at = d.at /\ q.share = d.share
       /\ q.step = "asks" /\ q.depth = 1 /\ q.guards = g /\ q.closes = d.closes
  BY <1>4, <1>9 DEF TryRec
<1> HIDE DEF p, q
<1>13. /\ r \in TryRec /\ r.ec = ec /\ r.over = now /\ r.conn = a.conn /\ r.work = a.work
       /\ r.idx = a.idx /\ r.left = a.left /\ r.at = a.at /\ r.share = a.share /\ r.closes = 0
       /\ plain => r.step = "none" /\ r.depth = 0 /\ r.guards = {}
       /\ ~plain => r.step = "asks" /\ r.depth = 1 /\ r.guards = g
  BY <1>5, <1>9, <1>10, <1>11, <1>12
<1>14. ec \in Codes <=> ec # NoError
  BY CodesApart
<1> HIDE DEF r
<1>15. Decided(s, r)
  <2>1. CASE plain
    BY <1>4, <1>7, <1>8, <1>13, <1>14, <2>1 DEF Decided
  <2>2. CASE ~plain
    <3>1. r.idx \in Nat /\ r.depth = 1 /\ r.step = "asks"
      BY <1>13, <2>2, TryFacts
    <3>2. NoneOf(s, r.idx + 1, r.idx + (r.depth - 1), r.ec)
      BY <3>1 DEF NoneOf
    <3>. QED BY <1>4, <1>7, <1>8, <1>13, <1>14, <2>2, <3>1, <3>2 DEF Decided
  <2>. QED BY <2>1, <2>2
<1>16. Guarded(s, r)
  <2>1. CASE plain
    BY <1>6, <1>13, <1>14, <2>1 DEF Guarded
  <2>2. CASE ~plain
    BY <1>6, <1>13, <1>14, <2>2 DEF Guarded, defer_close_connection, g
  <2>. QED BY <2>1, <2>2
<1>17. Changed(n, r)
  BY <1>1, <1>2, <1>3, <1>13, <1>15, <1>16 DEF Changed, n, a
<1>18. /\ Begun' /\ Times' /\ Counts' /\ Reserve' /\ Roles' /\ LeftRefused' /\ Handled' /\ Ended'
       /\ txn' \in TxnRec /\ txn'.statements <= MaxStatements => Types'
       /\ tried'[n] = r
  BY <1>2, <1>17, OneChanged
<1>19. TxnInv' /\ txn' \in TxnRec /\ txn'.statements <= MaxStatements
  <2>1. what = "begin" => n = 1
    BY <1>1, CurrentTry DEF n
  <2>2. what = "begin" => tried'[1].work = tried[1].work /\ tried'[1].conn = tried[1].conn
    BY <1>13, <1>18, <2>1 DEF a
  <2>. QED BY <1>1, <2>2, TxnKept
<1>. QED BY <1>18, <1>19 DEF Inv

\* Only an operation under a strategy asks for another try.
LEMMA Asking ==
    ASSUME Inv, tried # <<>>, Current.step \in {"asks", "next"}
    PROVE  /\ what = "request" /\ strategy \in Strategies /\ strategy.kind \in {"retry", "role_based"}
           /\ answer = NoAnswer /\ Current.ec \in Codes /\ Current.over = now
           /\ Len(strategy.roles) \in Nat
<1>1. strategy.kind # "plain" /\ Current.ec \in Codes
  BY CurrentTry DEF Decided
<1>2. strategy \in Strategies
  BY <1>1, CurrentTry DEF Plain
<1>3. what = "request"
  BY <1>1, CurrentTry DEF Inv, Types, Begun
<1>. QED BY <1>1, <1>2, <1>3, CurrentTry, SessionAssumption

\* The handler of the current try goes on, and begins no other.
LEMMA GoesOn ==
    ASSUME Inv, tried # <<>>, Current.step = "asks",
           UNCHANGED <<strategy, what, limit, answer, now, txn>>,
           NEW r \in TryRec, tried' = Amended(r),
           r.step \in {"asks", "next", "none"}, Decided(strategy, r), Guarded(strategy, r),
           r.ec = Current.ec, r.over = Current.over, r.idx = Current.idx, r.left = Current.left,
           r.at = Current.at, r.share = Current.share
    PROVE  Inv'
<1> DEFINE n == Len(tried)
<1>1. n \in DOMAIN tried /\ Current = tried[n] /\ tried' = [tried EXCEPT ![n] = r]
      /\ Current.step # "initiated" /\ Current.over = now
  BY CurrentTry
<1>2. answer = NoAnswer /\ what = "request"
  BY Asking
<1>3. Changed(n, r)
  BY <1>1, <1>2 DEF Changed
<1>4. /\ Begun' /\ Times' /\ Counts' /\ Reserve' /\ Roles' /\ LeftRefused' /\ Handled' /\ Ended'
      /\ txn' \in TxnRec /\ txn'.statements <= MaxStatements => Types'
  BY <1>1, <1>3, OneChanged
<1>5. TxnInv' /\ txn' \in TxnRec /\ txn'.statements <= MaxStatements
  BY <1>2, TxnKept
<1>. QED BY <1>4, <1>5 DEF Inv

\* The strategy of retries decides.
LEMMA Retried ==
    ASSUME Inv, get_next_try
    PROVE  Inv'
<1> DEFINE a == Current
           st == IF can_retry(strategy, adjust_tries_remain(a.left), a.ec) THEN "next" ELSE "none"
           r == [a EXCEPT !.step = st]
<1>1. tried # <<>> /\ a.step = "asks" /\ strategy.kind = "retry" /\ tried' = Amended(r)
      /\ UNCHANGED <<strategy, what, limit, answer, now, txn>>
  BY DEF get_next_try
<1>2. a \in TryRec /\ Decided(strategy, a) /\ Guarded(strategy, a)
  BY <1>1, CurrentTry
<1>3. st \in {"next", "none"} /\ (st = "next" => can_retry(strategy, adjust_tries_remain(a.left), a.ec))
  OBVIOUS
<1> HIDE DEF a, st
<1>4. r \in TryRec
  BY <1>2, <1>3 DEF TryRec, Steps
<1>5. /\ r.conn = a.conn /\ r.work = a.work /\ r.idx = a.idx /\ r.left = a.left /\ r.at = a.at
      /\ r.share = a.share /\ r.ec = a.ec /\ r.over = a.over /\ r.step = st
      /\ r.depth = a.depth /\ r.guards = a.guards /\ r.closes = a.closes
  BY <1>2 DEF TryRec
<1> HIDE DEF r
<1>6. a.ec \in Codes /\ a.ec # NoAnswer
  BY <1>1, <1>2, CodesApart DEF Decided
<1>7. Decided(strategy, r)
  BY <1>1, <1>2, <1>3, <1>5, <1>6 DEF Decided
<1>8. Guarded(strategy, r)
  BY <1>1, <1>2, <1>3, <1>5, <1>6, CodesApart DEF Guarded
<1>. QED BY <1>1, <1>3, <1>4, <1>5, <1>7, <1>8, GoesOn DEF a

\* A call returns, and its guard closes the connection.
LEMMA Returned ==
    ASSUME Inv, NEW i \in DOMAIN tried, call_returns(i)
    PROVE  Inv'
<1> DEFINE a == tried[i]
           c == IF Closes(a) THEN "closed" ELSE a.conn
           m == IF Closes(a) THEN a.closes + 1 ELSE a.closes
           d == a.depth - 1
           g == a.guards \ {a.depth}
           r == [a EXCEPT !.depth = d, !.guards = g, !.conn = c, !.closes = m]
<1>1. tried \in Seq(TryRec) /\ UNCHANGED <<strategy, what, limit, answer, now, txn>>
      /\ a.step \in {"next", "none", "initiated"} /\ a.depth > 0 /\ tried' = [tried EXCEPT ![i] = r]
  <2>1. tried \in Seq(TryRec) /\ UNCHANGED <<strategy, what, limit, answer, now, txn>>
        /\ a.step \in {"next", "none", "initiated"} /\ a.depth > 0
    BY DEF Inv, Types, call_returns
  <2>2. tried' = [tried EXCEPT ![i] = r]
    BY DEF call_returns
  <2>. QED BY <2>1, <2>2
<1>2. a \in TryRec /\ Decided(strategy, a) /\ Guarded(strategy, a)
  BY <1>1 DEF Inv, Handled
<1>3. i = Len(tried) =>
        /\ answer # NoAnswer => a.step = "none" /\ a.depth = 0 /\ a.ec = answer
        /\ a.step # "trying" => a.over = now
  BY <1>1 DEF Inv, Ended
<1>4. a.depth \in Nat /\ a.closes \in Nat /\ a.conn \in Conns /\ a.guards \in SUBSET Nat
  BY <1>2, TryFacts
<1>5. a.guards \subseteq {a.depth} /\ (a.guards # {} => strategy.close_connection /\ a.closes = 0)
      /\ strategy.kind # "plain" /\ a.ec # NoError
      /\ (a.step = "initiated" => strategy.kind # "retry")
      /\ a.closes <= (IF strategy.close_connection THEN 1 ELSE 0)
      /\ (strategy.close_connection /\ a.ec \in Codes /\ a.guards = {} => a.conn # "open")
  BY <1>1, <1>2 DEF Guarded
<1>6. g = {} /\ d \in Nat
  BY <1>1, <1>4, <1>5
<1>7. c \in Conns /\ m \in Nat /\ m <= (IF strategy.close_connection THEN 1 ELSE 0)
      /\ (strategy.close_connection /\ a.ec \in Codes => c # "open")
  <2>1. CASE Closes(a)
    <3>1. strategy.close_connection /\ a.closes = 0
      BY <1>5, <2>1 DEF Closes
    <3>. QED BY <2>1, <3>1 DEF Conns
  <2>2. CASE ~Closes(a)
    <3>1. a.guards # {} => a.conn = "none"
      BY <1>5, <2>2 DEF Closes
    <3>. QED BY <1>4, <1>5, <2>2, <3>1
  <2>. QED BY <2>1, <2>2
<1> HIDE DEF a
<1> HIDE DEF c, m, d, g
<1>8. r \in TryRec
  BY <1>2, <1>4, <1>6, <1>7 DEF TryRec
<1>9. /\ r.conn = c /\ r.work = a.work /\ r.idx = a.idx /\ r.left = a.left /\ r.at = a.at
      /\ r.share = a.share /\ r.ec = a.ec /\ r.over = a.over /\ r.step = a.step
      /\ r.depth = d /\ r.guards = g /\ r.closes = m
  BY <1>2 DEF TryRec
<1> HIDE DEF r
<1>10. Decided(strategy, r)
  BY <1>1, <1>2, <1>9 DEF Decided
<1>11. Guarded(strategy, r)
  BY <1>1, <1>5, <1>6, <1>7, <1>9 DEF Guarded
<1>12. Changed(i, r)
  BY <1>1, <1>3, <1>8, <1>9, <1>10, <1>11 DEF Changed, a
<1>13. /\ Begun' /\ Times' /\ Counts' /\ Reserve' /\ Roles' /\ LeftRefused' /\ Handled' /\ Ended'
       /\ txn' \in TxnRec /\ txn'.statements <= MaxStatements => Types'
  BY <1>12, OneChanged
<1>14. TxnInv' /\ txn' \in TxnRec /\ txn'.statements <= MaxStatements
  <2>1. what # "begin"
    BY <1>5 DEF Inv, Begun, Plain
  <2>. QED BY <1>1, <2>1, TxnKept
<1>. QED BY <1>13, <1>14 DEF Inv

\* The try that may follow a, at role i and with so many left: one fewer, or the
\* roles from there.
MayFollow(a, i, left) ==
    /\ i \in Nat /\ left \in Nat /\ left >= 1 /\ left <= a.left - 1
    /\ strategy.kind = "retry" =>
         i = 1 /\ left = a.left - 1 /\ can_retry(strategy, left, a.ec)
    /\ strategy.kind = "role_based" =>
         /\ i \in (a.idx + 1)..Len(strategy.roles) /\ left = Len(strategy.roles) - i + 1
         /\ can_recover(strategy.roles[i], a.ec)
         /\ NoneOf(strategy, a.idx + 1, i - 1, a.ec)

Follows(i, left) ==
    /\ tried' = Append(Amended([Current EXCEPT !.step = "initiated"]), Try(i, left, limit))
    /\ UNCHANGED <<strategy, what, limit, answer, now, txn>>

\* A retry of what the database refuses follows a refusal.
LEMMA RefusedBefore ==
    ASSUME NEW s \in Strategies, Refusals(s), NEW left, NEW ec \in Codes, can_retry(s, left, ec)
    PROVE  ec.cat = "sqlstate"
<1>1. PICK c \in s.conditions : IF "errc" \in DOMAIN c THEN ErrcEquivalent(ec, c.errc)
                                ELSE SqlEquivalent(ec, c.state)
  BY DEF Refusals, can_retry, match_code
<1>2. CASE "errc" \in DOMAIN c
  <2>1. DOMAIN c = {"errc"}
    BY <1>2, SessionAssumption
  <2>2. c.errc = "database_readonly"
    BY <2>1 DEF Refusals
  <2>3. SqlEquivalent(ec, read_only_sql_transaction)
    BY <1>1, <1>2, <2>2 DEF ErrcEquivalent
  <2>. QED BY <2>3 DEF SqlEquivalent
<1>3. CASE "errc" \notin DOMAIN c
  BY <1>1, <1>3 DEF SqlEquivalent
<1>. QED BY <1>2, <1>3

\* Another try follows, with its share of the time that is left.
LEMMA NextTry ==
    ASSUME Inv, tried # <<>>, Current.step \in {"asks", "next"}, NEW i, NEW left,
           MayFollow(Current, i, left), Follows(i, left),
           strategy.kind = "retry" => Current.depth = 0
    PROVE  Inv'
<1> DEFINE n == Len(tried)
           a == tried[n]
           b == Try(i, left, limit)
           r == [a EXCEPT !.step = "initiated"]
           T == [tried EXCEPT ![n] = r]
<1>1. tried \in Seq(TryRec) /\ now \in Nat /\ txn \in TxnRec /\ n \in Nat /\ n >= 1
      /\ DOMAIN tried = 1..n /\ limit \in Nat \cup {NoLimit} /\ n \in DOMAIN tried
  BY DEF Inv, Types
<1>2. /\ strategy \in Strategies /\ what = "request" /\ answer = NoAnswer
      /\ a = Current /\ a \in TryRec /\ a.ec \in Codes /\ a.over = now
      /\ Decided(strategy, a) /\ Guarded(strategy, a) /\ a.step \in {"asks", "next"}
      /\ MayFollow(a, i, left) /\ (strategy.kind = "retry" => a.depth = 0)
  BY CurrentTry, Asking
<1>3. /\ i \in Nat /\ left \in Nat /\ left >= 1 /\ left <= a.left - 1
      /\ strategy.kind = "retry" =>
           i = 1 /\ left = a.left - 1 /\ can_retry(strategy, left, a.ec)
      /\ strategy.kind = "role_based" =>
           /\ i \in (a.idx + 1)..Len(strategy.roles)
           /\ left = Len(strategy.roles) - i + 1
           /\ Recovers(i, a.ec)
           /\ \A k \in (a.idx + 1)..(i - 1) : ~Recovers(k, a.ec)
  BY <1>2 DEF MayFollow, NoneOf, Recovers
<1>4. /\ b \in TryRec /\ b.idx = i /\ b.left = left /\ b.at = now
      /\ b.share = get_try_time_constraint(limit, left, now) /\ b.ec = NoAnswer
      /\ b.conn = "none" /\ b.work = "none" /\ b.over = now
      /\ b.step = "trying" /\ b.depth = 0 /\ b.guards = {} /\ b.closes = 0
  <2>1. now \in Nat /\ i \in Nat /\ left \in Int /\ limit \in Nat \cup {NoLimit}
    BY <1>1, <1>3
  <2>2. Fresh(b, i, left, limit)
    BY <2>1, NewTry
  <2> HIDE DEF b
  <2>. QED BY <2>2 DEF Fresh
<1>5. strategy.kind \in {"retry", "role_based"} /\ Len(strategy.roles) \in Nat /\ strategy.tries \in Int
  BY <1>2, SessionAssumption
<1>6. a.left \in Int /\ a.idx \in Nat /\ a.at \in Nat /\ a.share \in Int
  BY <1>2, TryFacts
<1>7. tried' = Append(T, b) /\ UNCHANGED <<strategy, what, limit, answer, now, txn>>
  BY <1>2, CurrentTry DEF Follows
<1> HIDE DEF b
<1> HIDE DEF a
<1>8. r \in TryRec
  BY <1>2 DEF TryRec, Steps
<1>9. /\ r.conn = a.conn /\ r.work = a.work /\ r.idx = a.idx /\ r.left = a.left /\ r.at = a.at
      /\ r.share = a.share /\ r.ec = a.ec /\ r.over = a.over /\ r.step = "initiated"
      /\ r.depth = a.depth /\ r.guards = a.guards /\ r.closes = a.closes
  BY <1>2 DEF TryRec
<1> HIDE DEF r
<1>10. /\ T \in Seq(TryRec) /\ Len(T) = n /\ DOMAIN T = 1..n
       /\ \A k \in 1..n : T[k] = IF k = n THEN r ELSE tried[k]
  BY <1>1, <1>8, SeqChange
<1> HIDE DEF T
<1> HIDE DEF n
<1>11. /\ tried' \in Seq(TryRec) /\ Len(tried') = n + 1 /\ DOMAIN tried' = 1..(n + 1)
       /\ tried'[n + 1] = b /\ \A k \in 1..n : tried'[k] = T[k]
  BY <1>1, <1>4, <1>7, <1>10
<1>12. /\ \A k \in 1..n :
            /\ tried'[k].idx = tried[k].idx /\ tried'[k].left = tried[k].left
            /\ tried'[k].at = tried[k].at /\ tried'[k].share = tried[k].share
            /\ tried'[k].work = tried[k].work /\ tried'[k].ec = tried[k].ec
            /\ tried'[k].over = tried[k].over
            /\ k # n => tried'[k] = tried[k]
       /\ tried'[n] = r
  BY <1>1, <1>9, <1>10, <1>11 DEF a
<1>13. tried' # <<>> /\ a = tried[n]
  BY <1>1, <1>11 DEF n, a
<1>14. Types'
  BY <1>2, <1>7, <1>11 DEF Inv, Types
<1>15. Begun'
  BY <1>1, <1>2, <1>7, <1>13 DEF Begun
<1>16. Times'
  <2>1. ASSUME NEW k \in 1..n
        PROVE  /\ tried'[k].at <= now
               /\ tried'[k].share = get_try_time_constraint(limit, tried'[k].left, tried'[k].at)
               /\ k # 1 => tried'[k].at = tried'[k - 1].over
    <3>1. k # 1 => k - 1 \in 1..n
      BY <1>1
    <3>2. /\ tried[k].at <= now
          /\ tried[k].share = get_try_time_constraint(limit, tried[k].left, tried[k].at)
          /\ k # 1 => tried[k].at = tried[k - 1].over
      BY <1>1 DEF Inv, Times
    <3>3. /\ tried'[k].at = tried[k].at /\ tried'[k].left = tried[k].left
          /\ tried'[k].share = tried[k].share
          /\ k # 1 => tried'[k - 1].over = tried[k - 1].over
      BY <1>12, <3>1
    <3>. QED BY <3>2, <3>3
  <2>2. tried'[1].at = 0
    <3>1. 1 \in 1..n /\ tried # <<>>
      BY <1>1
    <3>. QED BY <1>12, <3>1 DEF Inv, Times
  <2>3. b.at <= now /\ b.at = tried'[n].over
        /\ b.share = get_try_time_constraint(limit, b.left, b.at)
    BY <1>1, <1>2, <1>4, <1>9, <1>12
  <2>. QED BY <1>1, <1>7, <1>11, <2>1, <2>2, <2>3 DEF Times
<1>17. Counts'
  <2>1. CASE strategy.kind = "retry"
    <3>1. a.left = strategy.tries - n + 1
      BY <1>1, <1>13, <2>1 DEF Inv, Counts
    <3>2. b.left = strategy.tries - (n + 1) + 1 /\ b.idx = 1 /\ b.left >= 1
      BY <1>1, <1>3, <1>4, <1>5, <2>1, <3>1
    <3>3. \A k \in 1..n : /\ tried'[k].left = strategy.tries - k + 1
                          /\ tried'[k].idx \in 1..Len(strategy.roles) \cup {1}
                          /\ k # 1 => tried'[k].left >= 1
      BY <1>1, <1>12, <2>1 DEF Inv, Counts
    <3>. QED BY <1>1, <1>7, <1>11, <2>1, <3>2, <3>3 DEF Counts
  <2>2. CASE strategy.kind = "role_based"
    <3>1. b.left = Len(strategy.roles) - b.idx + 1 /\ b.idx > tried'[n].idx
          /\ b.idx \in 1..Len(strategy.roles) /\ b.left >= 1
      <4>1. i \in (a.idx + 1)..Len(strategy.roles) /\ left = Len(strategy.roles) - i + 1
            /\ left >= 1
        BY <1>3, <2>2
      <4>2. tried'[n].idx = a.idx /\ b.idx = i /\ b.left = left
        BY <1>4, <1>9, <1>12
      <4>. QED BY <1>5, <1>6, <4>1, <4>2
    <3>2. ASSUME NEW k \in 1..n
          PROVE  /\ tried'[k].left = Len(strategy.roles) - tried'[k].idx + 1
                 /\ k # 1 => tried'[k].idx > tried'[k - 1].idx
                 /\ tried'[k].idx \in 1..Len(strategy.roles) \cup {1}
                 /\ k # 1 => tried'[k].left >= 1
      <4>1. /\ tried[k].left = Len(strategy.roles) - tried[k].idx + 1
            /\ k # 1 => tried[k].idx > tried[k - 1].idx
            /\ tried[k].idx \in 1..Len(strategy.roles) \cup {1}
            /\ k # 1 => tried[k].left >= 1
        BY <1>1, <2>2 DEF Inv, Counts
      <4>2. tried'[k].left = tried[k].left /\ tried'[k].idx = tried[k].idx
        BY <1>12
      <4>3. k # 1 => tried'[k - 1].idx = tried[k - 1].idx
        BY <1>1, <1>12
      <4>. QED BY <4>1, <4>2, <4>3
    <3>3. ASSUME NEW k \in 1..(n + 1)
          PROVE  /\ tried'[k].left = Len(strategy.roles) - tried'[k].idx + 1
                 /\ k # 1 => tried'[k].idx > tried'[k - 1].idx
                 /\ tried'[k].idx \in 1..Len(strategy.roles) \cup {1}
                 /\ k # 1 => tried'[k].left >= 1
      <4>1. CASE k \in 1..n
        BY <3>2, <4>1
      <4>2. CASE k = n + 1
        BY <1>1, <1>11, <3>1, <4>2
      <4>. QED BY <1>1, <4>1, <4>2
    <3>. QED BY <1>7, <1>11, <2>2, <3>3 DEF Counts
  <2>. QED BY <1>5, <2>1, <2>2
<1>18. Reserve'
  <2> SUFFICES ASSUME limit # NoLimit, tried'[1].left > 0, NEW k \in 1..(n + 1), OnTime(k)'
               PROVE  limit - tried'[k].at >= (limit \div tried'[1].left) * tried'[k].left
    BY <1>7, <1>11 DEF Reserve
  <2>1. limit \in Nat /\ 1 \in 1..n /\ tried'[1].left = tried[1].left /\ tried[1].left \in Nat
    <3>1. 1 \in 1..n /\ tried[1] \in TryRec
      BY <1>1
    <3>2. tried[1].left \in Int
      BY <3>1, TryFacts
    <3>. QED BY <1>1, <1>12, <3>1, <3>2
  <2>2. ASSUME NEW j \in 1..n, \A l \in 1..(j - 1) : tried'[l].over <= tried'[l].at + tried'[l].share
        PROVE  limit - tried[j].at >= (limit \div tried[1].left) * tried[j].left
    <3>1. \A l \in 1..(j - 1) : tried'[l] = tried[l]
      BY <1>1, <1>12
    <3>2. OnTime(j)
      BY <2>2, <3>1 DEF OnTime
    <3>. QED BY <1>1, <2>1, <3>2 DEF Inv, Reserve
  <2>3. \A l \in 1..(k - 1) : tried'[l].over <= tried'[l].at + tried'[l].share
    BY DEF OnTime
  <2>4. CASE k \in 1..n
    BY <1>12, <2>1, <2>2, <2>3, <2>4
  <2>5. CASE k = n + 1
    <3> DEFINE q == limit \div tried[1].left
               R == limit - a.at
    <3>1. q \in Nat
      BY <2>1, Quotient
    <3>2. R \in Int /\ R >= q * a.left
      <4>1. n \in 1..n /\ k - 1 = n
        BY <1>1, <2>5
      <4>2. \A l \in 1..(n - 1) : tried'[l].over <= tried'[l].at + tried'[l].share
        BY <1>1, <2>3, <4>1
      <4>3. limit - tried[n].at >= (limit \div tried[1].left) * tried[n].left
        BY <2>2, <4>1, <4>2
      <4>. QED BY <1>6, <1>13, <2>1, <4>3
    <3>3. a.left \in Nat /\ a.left > 0
      BY <1>3, <1>6
    <3> HIDE DEF q
    <3>4. R \in Nat
      <4>1. q * a.left \in Nat
        BY <3>1, <3>3
      <4>. QED BY <3>2, <4>1
    <3>5. a.share = R \div a.left
      <4>1. a.share = get_try_time_constraint(limit, a.left, a.at)
        BY <1>1, <1>13 DEF Inv, Times
      <4>2. time_left(limit, a.at) = R
        BY <1>6, <2>1, <3>4 DEF time_left
      <4>. QED BY <3>3, <4>1, <4>2 DEF get_try_time_constraint
    <3>6. now <= a.at + a.share
      <4>1. n \in 1..(k - 1) /\ n \in 1..n
        BY <1>1, <2>5
      <4>2. tried'[n].over = now /\ tried'[n].at = a.at /\ tried'[n].share = a.share
        BY <1>2, <1>9, <1>12
      <4>. QED BY <2>3, <4>1, <4>2
    <3>7. limit - now \in Int /\ limit - now >= R - R \div a.left
      BY <1>1, <1>6, <2>1, <3>5, <3>6
    <3> HIDE DEF R
    <3>8. limit - now >= q * left
      BY <1>3, <1>6, <3>1, <3>2, <3>3, <3>4, <3>7, SharesLeft
    <3>. QED BY <1>4, <1>11, <2>1, <2>5, <3>8 DEF q
  <2>. QED BY <1>1, <2>4, <2>5
<1>19. Roles'
  <2> SUFFICES ASSUME strategy.kind = "role_based" PROVE Roles'
    BY <1>7 DEF Roles
  <2>1. \A k \in 1..n : k # 1 =>
             /\ Recovers(tried'[k].idx, tried'[k - 1].ec)
             /\ \A j \in (tried'[k - 1].idx + 1)..(tried'[k].idx - 1) : ~Recovers(j, tried'[k - 1].ec)
    <3> SUFFICES ASSUME NEW k \in 1..n, k # 1
                 PROVE  /\ Recovers(tried'[k].idx, tried'[k - 1].ec)
                        /\ \A j \in (tried'[k - 1].idx + 1)..(tried'[k].idx - 1) :
                               ~Recovers(j, tried'[k - 1].ec)
      OBVIOUS
    <3>1. tried'[k].idx = tried[k].idx /\ tried'[k - 1] = tried[k - 1]
      BY <1>1, <1>12
    <3>2. /\ Recovers(tried[k].idx, tried[k - 1].ec)
          /\ \A j \in (tried[k - 1].idx + 1)..(tried[k].idx - 1) : ~Recovers(j, tried[k - 1].ec)
      BY <1>1 DEF Inv, Roles
    <3>. QED BY <3>1, <3>2
  <2>2. /\ Recovers(b.idx, tried'[n].ec)
        /\ \A j \in (tried'[n].idx + 1)..(b.idx - 1) : ~Recovers(j, tried'[n].ec)
    BY <1>3, <1>4, <1>9, <1>12
  <2>3. ASSUME NEW k \in 1..(n + 1), k # 1
        PROVE  /\ Recovers(tried'[k].idx, tried'[k - 1].ec)
               /\ \A j \in (tried'[k - 1].idx + 1)..(tried'[k].idx - 1) : ~Recovers(j, tried'[k - 1].ec)
    <3>1. CASE k \in 1..n
      BY <2>1, <2>3, <3>1
    <3>2. CASE k = n + 1
      <4>1. k - 1 = n /\ tried'[k] = b
        BY <1>1, <1>11, <3>2
      <4>. QED BY <2>2, <4>1
    <3>. QED BY <1>1, <3>1, <3>2
  <2>. QED BY <1>7, <1>11, <2>3 DEF Roles, Recovers
<1>20. LeftRefused'
  <2> SUFFICES ASSUME strategy.kind = "retry", Refusals(strategy), NEW k \in 1..n
               PROVE  tried'[k].work = "refused"
    BY <1>1, <1>7, <1>11 DEF LeftRefused, Refusals
  <2>1. CASE k = n
    <3>1. a.ec.cat = "sqlstate"
      BY <1>2, <1>3, RefusedBefore
    <3>2. a.work = "refused"
      BY <1>2, <3>1 DEF Decided
    <3>. QED BY <1>12, <1>13, <2>1, <3>2
  <2>2. CASE k # n
    BY <1>1, <1>12, <2>2 DEF Inv, LeftRefused, n
  <2>. QED BY <2>1, <2>2
<1>21. Handled'
  <2>1. Decided(strategy, r) /\ Guarded(strategy, r) /\ r.step = "initiated"
    <3>1. a.ec # NoAnswer /\ a.ec # NoError /\ a.step # "trying" /\ strategy.kind # "plain"
      BY <1>2, <1>5, CodesApart
    <3>2. Decided(strategy, r)
      BY <1>2, <1>9, <3>1 DEF Decided
    <3>3. Guarded(strategy, r)
      BY <1>2, <1>9, <3>1 DEF Guarded
    <3>. QED BY <1>9, <3>2, <3>3
  <2>2. Decided(strategy, b) /\ Guarded(strategy, b) /\ b.step # "initiated"
    <3>1. Decided(strategy, b)
      BY <1>4, CodesApart DEF Decided
    <3>2. Guarded(strategy, b)
      BY <1>4, CodesApart DEF Guarded
    <3>. QED BY <1>4, <3>1, <3>2
  <2>3. ASSUME NEW k \in 1..n
        PROVE  Decided(strategy, tried'[k]) /\ Guarded(strategy, tried'[k]) /\ tried'[k].step = "initiated"
    <3>1. CASE k = n
      BY <1>12, <2>1, <3>1
    <3>2. CASE k # n
      BY <1>1, <1>12, <3>2 DEF Inv, Handled, n
    <3>. QED BY <3>1, <3>2
  <2>4. ASSUME NEW k \in 1..(n + 1)
        PROVE  /\ Decided(strategy, tried'[k]) /\ Guarded(strategy, tried'[k])
               /\ k # n + 1 <=> tried'[k].step = "initiated"
    <3>1. CASE k \in 1..n
      BY <1>1, <2>3, <3>1
    <3>2. CASE k = n + 1
      BY <1>11, <2>2, <3>2
    <3>. QED BY <1>1, <3>1, <3>2
  <2>. QED BY <1>7, <1>11, <2>4 DEF Handled
<1>22. Ended'
  BY <1>2, <1>4, <1>7, <1>11 DEF Ended
<1>23. TxnInv'
  BY <1>2, <1>7 DEF Inv, TxnInv
<1>. QED BY <1>14, <1>15, <1>16, <1>17, <1>18, <1>19, <1>20, <1>21, <1>22, <1>23 DEF Inv

\* Roles are gone through one by one: each is passed over, or tried.
LEMMA NextRole ==
    ASSUME Inv, initiate_next_try
    PROVE  Inv'
<1> DEFINE a == Current
           s == strategy
           i == a.idx + (a.depth - 1)
<1>1. tried # <<>> /\ a.step = "asks" /\ s.kind = "role_based"
      /\ UNCHANGED <<strategy, what, limit, answer, now, txn>>
  BY DEF initiate_next_try
<1>2. a \in TryRec /\ Decided(s, a) /\ Guarded(s, a)
  BY <1>1, CurrentTry
<1>3. /\ a.ec \in Codes /\ Len(s.roles) \in Nat /\ a.idx \in Nat /\ a.depth \in Nat
      /\ a.ec # NoError /\ a.ec # NoAnswer
  BY <1>1, <1>2, Asking, TryFacts, CodesApart
<1>4. a.depth >= 1 /\ a.guards = defer_close_connection(s, a.depth)
      /\ NoneOf(s, a.idx + 1, i, a.ec)
  BY <1>1, <1>2 DEF Decided, Guarded
<1>5. i \in Nat /\ i >= a.idx /\ a.idx + a.depth = i + 1
  BY <1>3, <1>4
<1>6. CASE PassedOver(s, i, a.ec) /\ tried' = Amended(PassOver(s, a))
  <2> DEFINE d == a.depth + 1
             g == (a.guards \ {a.depth}) \cup defer_close_connection(s, a.depth + 1)
             r == [a EXCEPT !.depth = d, !.guards = g]
  <2>1. r = PassOver(s, a)
    BY DEF PassOver
  <2>2. d \in Nat /\ d - 1 = a.depth
    BY <1>3
  <2>3. g = defer_close_connection(s, d)
    BY <1>4 DEF defer_close_connection
  <2>4. g \in SUBSET Nat /\ g \subseteq {d} /\ (g # {} => s.close_connection /\ a.closes = 0)
        /\ (s.close_connection => g # {})
    <3>1. s.close_connection => a.closes = 0
      BY <1>2, <1>4 DEF Guarded, defer_close_connection
    <3>. QED BY <2>2, <2>3, <3>1 DEF defer_close_connection
  <2>5. NoneOf(s, a.idx + 1, a.idx + (d - 1), a.ec)
    <3>1. ~can_recover(s.roles[i + 1], a.ec)
      BY <1>6 DEF PassedOver
    <3>2. a.idx + (d - 1) = i + 1
      BY <1>5, <2>2
    <3>3. ASSUME NEW k \in (a.idx + 1)..(i + 1) PROVE ~can_recover(s.roles[k], a.ec)
      <4>1. CASE k = i + 1
        BY <3>1, <4>1
      <4>2. CASE k # i + 1
        <5>1. k \in (a.idx + 1)..i
          BY <1>3, <1>5, <4>2
        <5>. QED BY <1>4, <5>1 DEF NoneOf
      <4>. QED BY <4>1, <4>2
    <3>. QED BY <3>2, <3>3 DEF NoneOf
  <2>6. /\ a \in TryRec /\ a.step = "asks" /\ d >= 1
    BY <1>1, <1>2, <1>3
  <2> HIDE DEF a
  <2> HIDE DEF d, g
  <2>7. r \in TryRec
    BY <2>2, <2>4, <2>6 DEF TryRec
  <2>8. /\ r.conn = a.conn /\ r.work = a.work /\ r.idx = a.idx /\ r.left = a.left /\ r.at = a.at
        /\ r.share = a.share /\ r.ec = a.ec /\ r.over = a.over /\ r.step = a.step
        /\ r.depth = d /\ r.guards = g /\ r.closes = a.closes
    BY <2>6 DEF TryRec
  <2> HIDE DEF r
  <2>9. Decided(s, r)
    BY <1>1, <1>2, <1>3, <2>5, <2>6, <2>8 DEF Decided
  <2>10. Guarded(s, r)
    BY <1>1, <1>2, <1>3, <2>2, <2>3, <2>4, <2>6, <2>8 DEF Guarded
  <2>. QED BY <1>1, <1>6, <2>1, <2>6, <2>7, <2>8, <2>9, <2>10, GoesOn DEF a
<1>7. CASE FallsBack(s, i, a.ec) /\ Follows(i + 1, tries_left(s, i + 1))
  <2>1. Len(s.roles) - i + 1 > 1 /\ can_recover(s.roles[i + 1], a.ec)
    BY <1>7 DEF FallsBack, tries_left
  <2>2. a.left = Len(s.roles) - a.idx + 1
    BY <1>1, CurrentTry DEF Inv, Counts
  <2>3. tries_left(s, i + 1) = Len(s.roles) - (i + 1) + 1
    BY DEF tries_left
  <2>4. /\ i + 1 \in (a.idx + 1)..Len(s.roles) /\ tries_left(s, i + 1) \in Nat
        /\ tries_left(s, i + 1) >= 1 /\ tries_left(s, i + 1) <= a.left - 1 /\ (i + 1) - 1 = i
    <3> HIDE DEF i, a
    <3>. QED BY <1>3, <1>5, <2>1, <2>2, <2>3, SMTT(20)
  <2>5. MayFollow(a, i + 1, tries_left(s, i + 1))
    BY <1>1, <1>4, <1>5, <2>1, <2>3, <2>4 DEF MayFollow
  <2>. QED BY <1>1, <1>7, <2>5, NextTry
<1>8. CASE /\ ~PassedOver(s, i, a.ec) /\ ~FallsBack(s, i, a.ec)
           /\ tried' = Amended([a EXCEPT !.step = "none"])
  <2> DEFINE r == [a EXCEPT !.step = "none"]
  <2>1. Len(s.roles) <= i
    BY <1>3, <1>5, <1>8 DEF PassedOver, FallsBack, tries_left
  <2>2. NoneOf(s, a.idx + 1, Len(s.roles), a.ec)
    BY <1>3, <1>4, <1>5, <2>1 DEF NoneOf
  <2>3. /\ a \in TryRec /\ a.step = "asks"
    BY <1>1, <1>2
  <2> HIDE DEF a
  <2>4. r \in TryRec
    BY <2>3 DEF TryRec, Steps
  <2>5. /\ r.conn = a.conn /\ r.work = a.work /\ r.idx = a.idx /\ r.left = a.left /\ r.at = a.at
        /\ r.share = a.share /\ r.ec = a.ec /\ r.over = a.over /\ r.step = "none"
        /\ r.depth = a.depth /\ r.guards = a.guards /\ r.closes = a.closes
    BY <2>3 DEF TryRec
  <2>6. tried' = Amended(r)
    BY <1>8
  <2> HIDE DEF r
  <2>7. Decided(s, r)
    BY <1>1, <1>2, <1>3, <2>2, <2>3, <2>5 DEF Decided
  <2>8. Guarded(s, r)
    BY <1>1, <1>2, <1>3, <2>3, <2>5 DEF Guarded
  <2>. QED BY <1>1, <2>3, <2>4, <2>5, <2>6, <2>7, <2>8, GoesOn DEF a
<1>. QED BY <1>1, <1>6, <1>7, <1>8 DEF initiate_next_try, Follows

\* The handler of the current try has returned.
LEMMA Continued ==
    ASSUME Inv, continuation
    PROVE  Inv'
<1> DEFINE n == Len(tried)
           a == tried[n]
<1>1. tried # <<>> /\ answer = NoAnswer /\ Current.depth = 0 /\ UNCHANGED <<strategy, what, limit, now>>
  BY DEF continuation
<1>2. CASE Current.step = "next" /\ Follows(1, adjust_tries_remain(Current.left))
  <2> DEFINE left == adjust_tries_remain(Current.left)
  <2>1. strategy.kind = "retry" /\ can_retry(strategy, left, Current.ec) /\ Current.left \in Int
    BY <1>1, <1>2, CurrentTry, TryFacts DEF Decided
  <2>2. left \in Nat /\ left >= 1 /\ left = Current.left - 1
    BY <2>1 DEF can_retry, adjust_tries_remain
  <2>3. MayFollow(Current, 1, left)
    <3> HIDE DEF left
    <3>. QED BY <2>1, <2>2 DEF MayFollow
  <2>. QED BY <1>1, <1>2, <2>3, NextTry
<1>3. CASE /\ Current.step = "none" /\ answer' = Current.ec /\ tried' = tried
           /\ txn' = IF what = "begin" THEN [txn EXCEPT !.obj = "transaction"] ELSE txn
  <2>1. /\ tried \in Seq(TryRec) /\ now \in Nat /\ txn \in TxnRec /\ txn.statements <= MaxStatements
    BY DEF Inv, Types
  <2>2. /\ n \in DOMAIN tried /\ a \in TryRec /\ Decided(strategy, a) /\ Guarded(strategy, a)
        /\ a.step = "none" /\ a.depth = 0 /\ a.over = now /\ answer' = a.ec
        /\ what = "begin" => n = 1
    BY <1>1, <1>3, CurrentTry
  <2>3. a.ec \in Ends /\ a.ec # NoAnswer
    BY <2>2, TryFacts DEF Decided
  <2>4. SameCourse
    BY <1>1, <1>3, <2>1 DEF SameCourse
  <2>5. Begun' /\ Times' /\ Counts' /\ Reserve' /\ Roles'
    BY <2>4, CourseKept
  <2>6. LeftRefused' /\ Handled'
    BY <1>1, <1>3 DEF Inv, LeftRefused, Handled
  <2>7. Ended'
    BY <1>1, <1>3, <2>2 DEF Ended
  <2>8. CASE what # "begin"
    <3>1. TxnInv'
      BY <1>1, <1>3, <2>8 DEF Inv, TxnInv
    <3>2. Types'
      BY <1>1, <1>3, <2>2, <2>3, <2>8 DEF Inv, Types
    <3>. QED BY <2>5, <2>6, <2>7, <3>1, <3>2 DEF Inv
  <2>9. CASE what = "begin"
    <3>1. /\ txn' \in TxnRec /\ txn'.obj = "transaction"
          /\ txn'.server = txn.server /\ txn'.asked = txn.asked
          /\ txn'.mode = txn.mode /\ txn'.wrote = txn.wrote /\ txn'.failed = txn.failed
          /\ txn'.committed = txn.committed /\ txn'.ended = txn.ended /\ txn'.said = txn.said
          /\ txn'.statements = txn.statements
      BY <1>3, <2>1, <2>9 DEF TxnRec
    <3>2. answer' = NoError => tried[1].work = "done"
      BY <2>2, <2>9 DEF Decided
    <3>3. txn.obj = "none"
      BY <1>1, <2>9 DEF Inv, TxnInv
    <3>4. TxnInv'
      BY <1>1, <1>3, <2>2, <2>3, <2>9, <3>1, <3>2, <3>3 DEF Inv, TxnInv
    <3>5. Types'
      BY <1>1, <1>3, <2>1, <2>2, <2>3, <3>1 DEF Inv, Types
    <3>. QED BY <2>5, <2>6, <2>7, <3>4, <3>5 DEF Inv
  <2>. QED BY <2>8, <2>9
<1>. QED BY <1>1, <1>2, <1>3 DEF continuation, Follows

-----------------------------------------------------------------------------
(* The invariant and what follows from it. *)

\* Nothing has begun.
LEMMA InitInv ==
    ASSUME Init
    PROVE  Inv
<1>1. tried = <<>> /\ DOMAIN tried = {} /\ Len(tried) = 0 /\ tried \in Seq(TryRec)
  BY DEF Init
<1>2. txn \in TxnRec /\ txn.statements = 0
  BY DEF Init, TxnRec, Modes
<1>3. Types
  BY <1>1, <1>2, SessionAssumption DEF Init, Types, Ends, NoLimit
<1>4. Plain.kind = "plain" /\ strategy = Plain /\ answer = NoAnswer /\ limit = NoLimit
  BY DEF Init, Plain
<1>5. Begun /\ Times /\ Counts /\ Reserve /\ Roles /\ LeftRefused /\ Handled /\ Ended
  BY <1>1, <1>4 DEF Init, Begun, Times, Counts, Reserve, Roles, LeftRefused, Handled, Ended
<1>6. TxnInv
  BY DEF Init, TxnInv
<1>. QED BY <1>3, <1>5, <1>6 DEF Inv

\* Every step keeps the invariant.
LEMMA NextInv ==
    ASSUME Inv, [Next]_vars
    PROVE  Inv'
<1>1. ASSUME NEW t \in Limits, NEW s \in Strategies, request(s, t) PROVE Inv'
  BY <1>1, Requested
<1>2. ASSUME NEW t \in Limits, NEW options \in BeginWith, begin(options, t) PROVE Inv'
  BY <1>2, BeginMade
<1>3. ASSUME got_connection PROVE Inv'
  BY <1>3, GotConnection
<1>4. ASSUME NEW ec \in Codes \cup {NoError}, try_ends(ec) PROVE Inv'
  BY <1>4, TryEnded
<1>5. ASSUME get_next_try \/ initiate_next_try \/ continuation PROVE Inv'
  BY <1>5, Retried, NextRole, Continued
<1>6. ASSUME NEW i \in DOMAIN tried, call_returns(i) PROVE Inv'
  BY <1>6, Returned
<1>7. ASSUME NEW i \in DOMAIN tried, execute(i) \/ refuse(i) PROVE Inv'
  BY <1>7, Executed
<1>8. ASSUME Tick PROVE Inv'
  BY <1>8, Ticked
<1>9. ASSUME NEW writes \in BOOLEAN, NEW ok \in BOOLEAN, statement(writes, ok) PROVE Inv'
  BY <1>9, StatementMade
<1>10. ASSUME NEW how \in {"answered", "refused", "late", "lost"}, NEW executed \in BOOLEAN,
              commit(how, executed) \/ rollback(how, executed)
       PROVE  Inv'
  BY <1>10, TransactionEnded DEF commit, rollback
<1>11. ASSUME UNCHANGED vars PROVE Inv'
  BY <1>11 DEF vars, Inv, Types, Begun, Times, Counts, Reserve, OnTime, Roles, Recovers, LeftRefused,
               Handled, Ended, TxnInv
<1>. QED BY <1>1, <1>2, <1>3, <1>4, <1>5, <1>6, <1>7, <1>8, <1>9, <1>10, <1>11 DEF Next

\* The inductive invariant: the course of the tries and of their handlers, the time
\* kept in reserve for them, what was refused, and the transaction.
THEOREM Invariance == Spec => []Inv
<1>1. Init => Inv
  BY InitInv
<1>2. Inv /\ [Next]_vars => Inv'
  BY NextInv
<1>. QED BY <1>1, <1>2, PTL DEF Spec

\* However many tries there are, roles are tried in their order, an error is
\* passed to the next role that recovers it, and the user hears of it only when
\* none is left; retries are never more than asked for.
THEOREM TriedAsAsked == Spec => []TriesAsAsked
<1>1. Inv => TriesAsAsked
  <2> SUFFICES ASSUME Inv PROVE TriesAsAsked
    OBVIOUS
  <2> DEFINE n == Len(tried)
  <2>1. tried \in Seq(TryRec) /\ n \in Nat /\ DOMAIN tried = 1..n
    BY DEF Inv, Types
  <2>2. strategy.kind \in {"retry", "role_based", "plain"}
        /\ (strategy.kind # "plain" => strategy.tries \in Int)
    BY SessionAssumption DEF Inv, Types, Plain
  <2> HIDE DEF n
  <2>3. CASE strategy.kind = "plain"
    BY <2>3 DEF TriesAsAsked, Inv, Counts
  <2>4. CASE strategy.kind = "retry"
    <3>1. n > 1 => n <= strategy.tries
      <4> SUFFICES ASSUME n > 1 PROVE n <= strategy.tries
        OBVIOUS
      <4>1. n \in DOMAIN tried /\ n # 1
        BY <2>1
      <4>2. tried[n].left = strategy.tries - n + 1 /\ tried[n].left >= 1
        BY <2>4, <4>1 DEF Inv, Counts
      <4>. QED BY <2>1, <2>2, <2>4, <4>2
    <3>. QED BY <2>1, <2>2, <2>4, <3>1 DEF TriesAsAsked, n
  <2>5. CASE strategy.kind = "role_based"
    <3>1. ASSUME NEW k \in 1..(n - 1)
          PROVE  /\ tried[k].idx < tried[k + 1].idx
                 /\ Recovers(tried[k + 1].idx, tried[k].ec)
                 /\ \A r \in (tried[k].idx + 1)..(tried[k + 1].idx - 1) : ~Recovers(r, tried[k].ec)
      <4>1. k + 1 \in DOMAIN tried /\ k + 1 # 1 /\ (k + 1) - 1 = k /\ k \in DOMAIN tried
        BY <2>1
      <4>2. tried[k].idx \in Nat /\ tried[k + 1].idx \in Nat
        BY <2>1, <4>1, TryFacts
      <4>3. tried[k + 1].idx > tried[k].idx
        BY <2>5, <4>1 DEF Inv, Counts
      <4>4. /\ Recovers(tried[k + 1].idx, tried[k].ec)
            /\ \A r \in (tried[k].idx + 1)..(tried[k + 1].idx - 1) : ~Recovers(r, tried[k].ec)
        BY <2>5, <4>1 DEF Inv, Roles
      <4>. QED BY <4>2, <4>3, <4>4
    <3>2. answer \in Codes =>
            \A r \in (tried[n].idx + 1)..Len(strategy.roles) : ~Recovers(r, answer)
      <4> SUFFICES ASSUME answer \in Codes
                   PROVE  NoneOf(strategy, tried[n].idx + 1, Len(strategy.roles), answer)
        BY DEF NoneOf, Recovers
      <4>1. tried # <<>>
        BY CodesApart DEF Inv, Types, Begun
      <4>2. Current = tried[n] /\ Current.step = "none" /\ Current.ec = answer
            /\ Decided(strategy, Current)
        BY <4>1, CurrentTry, CodesApart DEF n
      <4>. QED BY <2>5, <4>2 DEF Decided
    <3>. QED BY <2>5, <3>1, <3>2 DEF TriesAsAsked, Current, Last, n
  <2>. QED BY <2>2, <2>3, <2>4, <2>5
<1>. QED BY <1>1, Invariance, PTL

\* No try is given time beyond the deadline, and as long as the tries before it
\* end in time each has at least an equal share of the whole.
THEOREM SharesAreFair == Spec => []FairShare
<1>1. Inv => FairShare
  <2> SUFFICES ASSUME Inv, limit # NoLimit, NEW i \in DOMAIN tried
               PROVE  /\ tried[i].at + tried[i].share <= limit \/ tried[i].share = 0
                      /\ OnTime(i) /\ tried[1].left > 0 => tried[i].share >= limit \div tried[1].left
    BY DEF FairShare
  <2> DEFINE a == tried[i]
             R == limit - a.at
             q == limit \div tried[1].left
  <2>1. limit \in Nat /\ tried \in Seq(TryRec) /\ a \in TryRec /\ tried[1] \in TryRec /\ tried # <<>>
        /\ i \in Nat /\ i >= 1
    BY DEF Inv, Types
  <2>2. a.at \in Nat /\ a.left \in Int /\ tried[1].left \in Int
    BY <2>1, TryFacts
  <2>3. a.share = IF a.left > 0 THEN time_left(limit, a.at) \div a.left ELSE 0
    BY DEF Inv, Times, get_try_time_constraint
  <2>4. CASE a.left > 0
    <3>1. time_left(limit, a.at) \in Nat /\ time_left(limit, a.at) = IF R > 0 THEN R ELSE 0
      BY <2>1, <2>2 DEF time_left
    <3>2. a.share \in Nat /\ a.share <= time_left(limit, a.at)
      BY <2>2, <2>3, <2>4, <3>1, Quotient
    <3>3. a.at + a.share <= limit \/ a.share = 0
      BY <2>1, <2>2, <3>1, <3>2
    <3>4. ASSUME OnTime(i), tried[1].left > 0 PROVE a.share >= q
      <4>1. R >= q * a.left
        BY <2>1, <3>4 DEF Inv, Reserve
      <4>2. q \in Nat /\ a.left \in Nat /\ R \in Int
        BY <2>1, <2>2, <2>4, <3>4, Quotient, SMTT(20)
      <4> HIDE DEF q
      <4>3. q * a.left \in Nat
        BY <4>2
      <4>4. R \in Nat /\ a.share = R \div a.left
        BY <2>3, <2>4, <3>1, <4>1, <4>2, <4>3
      <4>5. 0 \in Nat /\ 0 <= a.left - 1 /\ R \div a.left \in Nat /\ R >= R - R \div a.left
            /\ q * a.left <= R /\ a.left > 0
        BY <2>4, <4>1, <4>2, <4>3, <4>4, Quotient
      <4> HIDE DEF R, a
      <4>6. q <= R \div a.left
        BY <4>2, <4>4, <4>5, SharesLeft
      <4>. QED BY <4>2, <4>4, <4>5, <4>6
    <3>. QED BY <3>3, <3>4
  <2>5. CASE ~(a.left > 0)
    <3>1. a.share = 0
      BY <2>3, <2>5
    <3>2. ASSUME OnTime(i), tried[1].left > 0 PROVE FALSE
      BY <2>1, <2>2, <2>5, <3>2 DEF Inv, Counts
    <3>. QED BY <3>1, <3>2
  <2>. QED BY <2>4, <2>5
<1>. QED BY <1>1, Invariance, PTL

\* A strategy that retries only what the database refused never has two
\* statements that are executed or may be.
THEOREM ExecutedAtMostOnce == Spec => []AtMostOnce
<1>1. Inv => AtMostOnce
  <2> SUFFICES ASSUME Inv, strategy.kind = "retry", Refusals(strategy),
                      NEW i \in DOMAIN tried, NEW j \in DOMAIN tried,
                      tried[i].work \in {"sent", "done"}, tried[j].work \in {"sent", "done"}
               PROVE  i = j
    BY DEF AtMostOnce
  <2>1. i = Len(tried) /\ j = Len(tried)
    BY DEF Inv, LeftRefused
  <2>. QED BY <2>1
<1>. QED BY <1>1, Invariance, PTL

\* However many roles are passed over and wherever the failover ends, the guards
\* that are made and released on the way close the connection of every failed try,
\* once: before a retry begins and before the user hears of the error, and while
\* the next role is tried at the latest when the handler returns.
THEOREM FailuresAreClosed == Spec => []FailedAreClosed
<1>1. Inv => FailedAreClosed
  <2> SUFFICES ASSUME Inv PROVE FailedAreClosed
    OBVIOUS
  <2>1. ASSUME NEW i \in DOMAIN tried
        PROVE  /\ tried[i].closes <= IF strategy.close_connection THEN 1 ELSE 0
               /\ strategy.close_connection /\ i < Len(tried) =>
                    tried[i].conn # "open" \/ (strategy.kind = "role_based" /\ tried[i].depth > 0)
    <3> DEFINE a == tried[i]
    <3>1. /\ a \in TryRec /\ Decided(strategy, a) /\ Guarded(strategy, a) /\ i \in Nat /\ Len(tried) \in Nat
          /\ i # Len(tried) => a.step = "initiated"
      BY DEF Inv, Types, Handled
    <3>2. strategy.kind \in {"plain", "retry", "role_based"} /\ a.depth \in Nat
      BY <3>1, SessionAssumption, TryFacts DEF Inv, Types, Plain
    <3> HIDE DEF a
    <3>3. a.closes <= IF strategy.close_connection THEN 1 ELSE 0
      BY <3>1 DEF Guarded
    <3>4. ASSUME strategy.close_connection, i < Len(tried), a.conn = "open"
          PROVE  strategy.kind = "role_based" /\ a.depth > 0
      <4>1. a.step = "initiated" /\ a.ec \in Codes /\ strategy.kind # "plain"
        BY <3>1, <3>4 DEF Decided
      <4>2. a.guards # {}
        BY <3>1, <3>4, <4>1 DEF Guarded
      <4>3. a.depth # 0 /\ strategy.kind # "retry"
        BY <3>1, <4>1, <4>2 DEF Guarded
      <4>. QED BY <3>2, <4>1, <4>3
    <3>. QED BY <3>3, <3>4 DEF a
  <2>2. ASSUME strategy.close_connection, answer \in Codes PROVE Current.conn # "open"
    <3>1. tried # <<>> /\ answer # NoAnswer
      BY <2>2, CodesApart DEF Inv, Types, Begun
    <3>2. Current.depth = 0 /\ Current.ec = answer /\ Guarded(strategy, Current)
      BY <3>1, CurrentTry
    <3>. QED BY <2>2, <3>2 DEF Guarded
  <2>. QED BY <2>1, <2>2 DEF FailedAreClosed
<1>. QED BY <1>1, Invariance, PTL

\* What the handler of a commit is told is true of the database, and a read only
\* transaction has written nothing.
THEOREM CommitsAreTrue == Spec => []CommitTellsTruth
<1>1. Inv => CommitTellsTruth
  <2> SUFFICES ASSUME Inv PROVE CommitTellsTruth
    OBVIOUS
  <2>1. ASSUME NEW i \in DOMAIN tried
        PROVE  /\ tried[i].idx \in 1..Len(strategy.roles) \cup {1} /\ tried[i].left \in Int
               /\ tried[i].share \in Nat \cup {NoLimit} /\ tried[i].at \in 0..MaxTime
               /\ tried[i].conn \in {"none", "open", "closed"}
               /\ tried[i].work \in {"none", "sent", "done", "refused"}
               /\ tried[i].step \in {"trying", "asks", "next", "none", "initiated"}
               /\ tried[i].depth \in Nat /\ tried[i].guards \subseteq Nat /\ tried[i].closes \in Nat
    <3>1. tried[i] \in TryRec /\ now \in Nat /\ now <= MaxTime /\ limit \in Nat \cup {NoLimit}
          /\ MaxTime \in Nat
      BY SessionAssumption DEF Inv, Types
    <3>2. /\ tried[i].left \in Int /\ tried[i].at \in Nat
          /\ tried[i].conn \in {"none", "open", "closed"}
          /\ tried[i].work \in {"none", "sent", "done", "refused"}
          /\ tried[i].step \in {"trying", "asks", "next", "none", "initiated"}
          /\ tried[i].depth \in Nat /\ tried[i].guards \subseteq Nat /\ tried[i].closes \in Nat
      BY <3>1, TryFacts DEF Conns, Works, Steps
    <3>3. tried[i].at <= now /\ tried[i].share = get_try_time_constraint(limit, tried[i].left, tried[i].at)
          /\ tried[i].idx \in 1..Len(strategy.roles) \cup {1}
      BY DEF Inv, Times, Counts
    <3>4. tried[i].share \in Nat \cup {NoLimit}
      <4>1. CASE limit = NoLimit
        BY <3>3, <4>1 DEF get_try_time_constraint
      <4>2. CASE limit # NoLimit /\ tried[i].left > 0
        <5>1. time_left(limit, tried[i].at) \in Nat /\ tried[i].left \in Nat
          BY <3>1, <3>2, <4>2 DEF time_left
        <5>2. time_left(limit, tried[i].at) \div tried[i].left \in Nat
          BY <4>2, <5>1, Quotient
        <5>. QED BY <3>3, <4>2, <5>2 DEF get_try_time_constraint
      <4>3. CASE limit # NoLimit /\ ~(tried[i].left > 0)
        BY <3>3, <4>3 DEF get_try_time_constraint
      <4>. QED BY <4>1, <4>2, <4>3
    <3>. QED BY <3>1, <3>2, <3>3, <3>4
  <2>2. txn \in TxnRec /\ txn.statements <= MaxStatements /\ MaxStatements \in Nat
        /\ now \in 0..MaxTime
    BY SessionAssumption DEF Inv, Types
  <2>3. txn.obj \in {"none", "transaction", "connection"} /\ txn.server \in {"idle", "intrans", "inerror"}
        /\ txn.statements \in 0..MaxStatements
    BY <2>2, TxnFacts
  <2>4. TypeOK
    BY <2>1, <2>2, <2>3 DEF TypeOK, Inv, Types, Ends
  <2>5. /\ txn.said = "ok" => txn.server = "idle"
        /\ txn.said = "ok" /\ txn.ended = "COMMIT" => txn.committed \/ txn.failed
        /\ txn.committed => ~txn.failed /\ txn.ended = "COMMIT"
        /\ txn.asked = "read_only" => ~txn.wrote
    BY DEF Inv, TxnInv
  <2>. QED BY <2>4, <2>5 DEF CommitTellsTruth
<1>. QED BY <1>1, Invariance, PTL
=============================================================================
