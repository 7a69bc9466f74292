------------------------- MODULE OzoOperationProofs -------------------------
(***************************************************************************)
(* Proofs about OzoOperation: every operation calls its user once, and     *)
(* leaves nothing behind.                                                  *)
(***************************************************************************)
EXTENDS OzoOperation, FiniteSetTheorems, SequenceTheorems, WellFoundedInduction, TLAPS

-----------------------------------------------------------------------------
(* Natural numbers: what is otherwise an induction is an argument about the
   least counterexample. *)

\* Every nonempty set of natural numbers has a least element.
LEMMA LeastNat ==
    ASSUME NEW T \in SUBSET Nat, T # {}
    PROVE  \E m \in T : \A k \in T : m <= k
<1> DEFINE R == {p \in Nat \X Nat : p[1] < p[2]}
<1>1. IsWellFoundedOn(R, Nat)
  BY NatLessThanWellFounded, Zenon DEF OpToRel
<1>2. \A k, m \in Nat : k < m => <<k, m>> \in R
  OBVIOUS
<1> HIDE DEF R
<1>3. PICK m \in T : \A k \in T : ~(<<k, m>> \in R)
  BY <1>1, WFMin
<1>4. \A k \in T : ~(k < m)
  BY <1>2, <1>3
<1>. QED BY <1>4

-----------------------------------------------------------------------------
Errors == {"ok", "failed", "aborted", "timed_out"}
Op == [id : 0..MaxOps, kind : {"none", "connect", "oids", "query", "joining"}, timed : BOOLEAN]
Rendezvous == [first_call : 1..2, ec : Errors]
WaitRec == [dir : {"read", "write"}, who : 0..(MaxOps + 1), st : {"waiting", "ready", "aborted"}]
Pq == [link : {"closed", "starting", "up", "lost"}, out : BOOLEAN,
       inp : {"nothing", "notice", "part", "all"}, got : 0..2, active : BOOLEAN, oid_map : OidMaps]

-----------------------------------------------------------------------------
(* The operation and its deadline. *)

\* An operation runs, and of it and its timer, if it has one, the timer may have
\* come first.
Running(o, t, r) ==
    /\ o.id \in Ops /\ o.kind \in {"connect", "oids", "query"}
    /\ o.timed => \/ r.first_call = 2 /\ t \in {"armed", "fired"}
                  \/ r.first_call = 1 /\ t = "none" /\ r.ec = "timed_out"
    /\ ~o.timed => r.first_call = 2 /\ t = "none"

\* It has come first, and its timer's handler is still to come.
Waiting(o, t, r) ==
    o.id \in Ops /\ o.kind = "joining" /\ o.timed /\ t \in {"fired", "cancelled"} /\ r.first_call = 1

Resting(o, t, r) == o = NoOp /\ t = "none" /\ r.first_call = 2

Phase(o, t, r) == Resting(o, t, r) \/ Running(o, t, r) \/ Waiting(o, t, r)

OpTypes ==
    /\ op \in Op /\ timer \in {"none", "armed", "fired", "cancelled"} /\ rendez \in Rendezvous
    /\ calls \in [Ops -> Nat] /\ outcome \in [Ops -> Errors \cup {"none"}]

\* Operations are started and answered in their order, one at a time.
Order ==
    /\ \A i \in Ops : calls[i] > 0 => \A j \in 1..i : calls[j] > 0
    /\ op # NoOp => /\ \A j \in 1..(op.id - 1) : calls[j] > 0
                    /\ \A j \in Ops : calls[j] > 0 => j <= op.id
                    /\ outcome[op.id] # "ok"
    /\ \A i \in Ops : outcome[i] # "none" => calls[i] > 0

\* Unless a send operation ran on too late, nobody is called twice.
Fresh == ~late => (op # NoOp => calls[op.id] = 0) /\ \A i \in Ops : calls[i] <= 1

OpInv == OpTypes /\ Phase(op, timer, rendez) /\ Order /\ Fresh

\* The numbers of the operations; 0 stands for none.
LEMMA Numbers == MaxOps \in Nat /\ 1 \in Ops /\ (\A i \in Ops : i \in Nat /\ i >= 1) /\ 0 \notin Ops
  BY OperationAssumption DEF Ops

\* The fields of an operation and of its rendezvous.
LEMMA OpFields ==
    /\ NoOp \in Op /\ NoOp.id = 0 /\ NoOp.kind = "none" /\ ~NoOp.timed
    /\ \A o \in Op : /\ o.id \in 0..MaxOps /\ o.timed \in BOOLEAN
                     /\ o.kind \in {"none", "connect", "oids", "query", "joining"}
                     /\ [o EXCEPT !.kind = "joining"] \in Op /\ [o EXCEPT !.kind = "oids"] \in Op
                     /\ [o EXCEPT !.kind = "joining"].id = o.id /\ [o EXCEPT !.kind = "joining"].kind = "joining"
                     /\ [o EXCEPT !.kind = "joining"].timed = o.timed
                     /\ [o EXCEPT !.kind = "oids"].id = o.id /\ [o EXCEPT !.kind = "oids"].kind = "oids"
                     /\ [o EXCEPT !.kind = "oids"].timed = o.timed
    /\ \A i \in Ops, k \in {"connect", "query"}, b \in BOOLEAN : [id |-> i, kind |-> k, timed |-> b] \in Op
    /\ \A n \in 1..2, e \in Errors : [first_call |-> n, ec |-> e] \in Rendezvous
    /\ \A r \in Rendezvous : r.first_call \in 1..2 /\ r.ec \in Errors
  BY Numbers DEF NoOp, Op, Rendezvous, Ops

\* The user's handler of i was called.
LEMMA Called ==
    ASSUME calls \in [Ops -> Nat], outcome \in [Ops -> Errors \cup {"none"}], NEW i \in Ops, NEW ec \in Errors,
           UserCalled(i, ec)
    PROVE  /\ calls' \in [Ops -> Nat] /\ outcome' \in [Ops -> Errors \cup {"none"}]
           /\ calls'[i] = calls[i] + 1 /\ outcome'[i] = IF calls[i] = 0 THEN ec ELSE outcome[i]
           /\ \A j \in Ops : j # i => calls'[j] = calls[j] /\ outcome'[j] = outcome[j]
  BY DEF UserCalled

\* The operation o was the first or only one to end, or the second after its timer.
Answered(o, ec) ==
    op' = NoOp /\ timer' = "none" /\ rendez' \in Rendezvous /\ rendez'.first_call = 2
    /\ \E x \in {ec, "timed_out"} : UserCalled(o.id, x)
LeftToTimer(o, ec) ==
    /\ op' = [o EXCEPT !.kind = "joining"] /\ o.timed /\ timer' \in {"fired", "cancelled"}
    /\ rendez' = [first_call |-> 1, ec |-> ec] /\ UNCHANGED <<calls, outcome>>

\* What the completion handler of a running operation does.
LEMMA FinishRunning ==
    ASSUME NEW o \in Op, NEW t, NEW r \in Rendezvous, NEW ec \in Errors, Running(o, t, r),
           Finish(o.id, ec, o, t, r)
    PROVE  Answered(o, ec) \/ LeftToTimer(o, ec)
<1>1. o.kind # "joining" /\ o.timed \in BOOLEAN
  BY OpFields DEF Running
<1>2. CASE ~o.timed
  <2>1. UserCalled(o.id, ec) /\ op' = NoOp /\ timer' = t /\ rendez' = r
    BY <1>1, <1>2 DEF Finish
  <2>2. t = "none" /\ r.first_call = 2
    BY <1>2 DEF Running
  <2>. QED BY <2>1, <2>2 DEF Answered
<1>3. CASE o.timed /\ r.first_call = 2
  <2>1. /\ timer' = (IF t = "armed" THEN "cancelled" ELSE t)
        /\ rendez' = [first_call |-> 1, ec |-> ec] /\ op' = [o EXCEPT !.kind = "joining"]
        /\ UNCHANGED <<calls, outcome>>
    BY <1>1, <1>3 DEF Finish
  <2>2. t \in {"armed", "fired"}
    BY <1>3 DEF Running
  <2>. QED BY <1>3, <2>1, <2>2 DEF LeftToTimer
<1>4. CASE o.timed /\ r.first_call # 2
  <2>1. /\ UserCalled(o.id, r.ec) /\ op' = NoOp /\ timer' = "none"
        /\ rendez' = [first_call |-> 2, ec |-> "ok"]
    BY <1>1, <1>4 DEF Finish
  <2>2. r.ec = "timed_out"
    BY <1>4 DEF Running
  <2>3. rendez' \in Rendezvous /\ rendez'.first_call = 2
    BY <2>1 DEF Rendezvous, Errors
  <2>. QED BY <2>1, <2>2, <2>3 DEF Answered
<1>. QED BY <1>1, <1>2, <1>3, <1>4

\* The connection takes a query, or is gone.
Quiet == ~pq.active \/ pq.link # "up"

\* How a step treats the operation: it leaves it alone, ends it, ends one that is
\* over, starts one, which may fail at once, or goes on to ask for the oid map.
Ends(ec) == Running(op, timer, rendez) /\ (Answered(op, ec) \/ LeftToTimer(op, ec))
EndsLate ==
    /\ late' /\ UNCHANGED <<op, timer, rendez>>
    /\ \E i \in Ops, ec \in {"failed", "aborted"} : UserCalled(i, ec) /\ (calls[i] > 0 \/ i = op.id)
IsNext(i) == i \in Ops /\ calls[i] = 0 /\ \A j \in 1..(i - 1) : calls[j] > 0
New(i, kind, timed) == [id |-> i, kind |-> kind, timed |-> timed]
Starts(o) ==
    /\ op = NoOp /\ o \in Op /\ o.kind \in {"connect", "query"} /\ IsNext(o.id)
    /\ o.kind = "connect" => o.id = 1
    /\ \/ /\ op' = o /\ timer' = (IF o.timed THEN "armed" ELSE "none")
          /\ UNCHANGED <<rendez, calls, outcome>>
       \/ Answered(o, "failed") \/ LeftToTimer(o, "failed")
GoesOn == op.kind = "connect" /\ op' = [op EXCEPT !.kind = "oids"] /\ UNCHANGED <<timer, rendez, calls, outcome>>
Deadline ==
    \/ timer = "armed" /\ timer' = "fired" /\ UNCHANGED <<op, rendez, calls, outcome>>
    \/ /\ timer \in {"fired", "cancelled"} /\ rendez.first_call = 2
       /\ rendez' = [first_call |-> 1, ec |-> "timed_out"] /\ timer' = "none" /\ UNCHANGED <<op, calls, outcome>>
    \/ /\ timer \in {"fired", "cancelled"} /\ rendez.first_call = 1
       /\ UserCalled(op.id, rendez.ec) /\ op' = NoOp /\ timer' = "none"
       /\ rendez' = [first_call |-> 2, ec |-> "ok"]

Treats ==
    \/ UNCHANGED <<op, timer, rendez, calls, outcome>>
    \/ \E ec \in {"ok", "failed", "aborted"} : Ends(ec) /\ (ec = "ok" => Quiet')
    \/ EndsLate
    \/ \E o \in Op : Starts(o)
    \/ GoesOn \/ Deadline

\* An answered operation: the next one is another.
LEMMA AnsweredInv ==
    ASSUME OpTypes, Order, Fresh, late => late', NEW o \in Op, o.id \in Ops, NEW x \in Errors,
           \A j \in 1..(o.id - 1) : calls[j] > 0, \A j \in Ops : calls[j] > 0 => j <= o.id,
           ~late => calls[o.id] = 0,
           UserCalled(o.id, x), op' = NoOp, timer' = "none", rendez' \in Rendezvous, rendez'.first_call = 2
    PROVE  OpInv'
<1>1. /\ calls' \in [Ops -> Nat] /\ outcome' \in [Ops -> Errors \cup {"none"}]
      /\ calls'[o.id] = calls[o.id] + 1
      /\ \A j \in Ops : j # o.id => calls'[j] = calls[j] /\ outcome'[j] = outcome[j]
  BY Called DEF OpTypes
<1>2. OpTypes'
  BY <1>1, OpFields DEF OpTypes
<1>3. Phase(op', timer', rendez')
  BY DEF Phase, Resting
<1>4. \A j \in Ops : calls[j] \in Nat /\ calls'[j] \in Nat
  BY <1>1 DEF OpTypes
<1>5. ASSUME NEW i \in Ops, calls'[i] > 0, NEW j \in 1..i PROVE calls'[j] > 0
  <2>1. j \in Ops /\ i \in Nat /\ j \in Nat /\ o.id \in Nat
    BY Numbers DEF Ops
  <2>2. CASE i = o.id
    <3>1. j = o.id \/ j \in 1..(o.id - 1)
      BY <2>1, <2>2
    <3>. QED BY <1>1, <1>4, <2>1, <3>1
  <2>3. CASE i # o.id
    <3>1. calls[i] > 0
      BY <1>1, <1>5, <2>3
    <3>2. calls[j] > 0
      BY <3>1 DEF Order
    <3>. QED BY <1>1, <1>4, <2>1, <3>2
  <2>. QED BY <2>2, <2>3
<1>6. ASSUME NEW i \in Ops, outcome'[i] # "none" PROVE calls'[i] > 0
  BY <1>1, <1>4, <1>6 DEF Order
<1>7. Order'
  BY <1>5, <1>6 DEF Order
<1>8. Fresh'
  BY <1>1 DEF Fresh
<1>. QED BY <1>2, <1>3, <1>7, <1>8 DEF OpInv

\* However a step treats the operation, its state stays in order.
LEMMA TreatsInv ==
    ASSUME OpInv, Treats, late => late'
    PROVE  OpInv'
<1>0. OpTypes /\ Order /\ Fresh /\ Phase(op, timer, rendez)
  BY DEF OpInv
<1>1. CASE UNCHANGED <<op, timer, rendez, calls, outcome>>
  BY <1>0, <1>1 DEF OpInv, OpTypes, Order, Fresh
<1>2. ASSUME NEW o \in Op, o.id \in Ops, NEW ec \in Errors, LeftToTimer(o, ec),
             \A j \in 1..(o.id - 1) : calls[j] > 0, \A j \in Ops : calls[j] > 0 => j <= o.id,
             outcome[o.id] # "ok", ~late => calls[o.id] = 0
      PROVE  OpInv'
  <2>1. /\ op' \in Op /\ op'.id = o.id /\ op'.kind = "joining" /\ op'.timed
        /\ timer' \in {"fired", "cancelled"} /\ rendez' \in Rendezvous /\ rendez'.first_call = 1
        /\ UNCHANGED <<calls, outcome>>
    <3>1. /\ op' = [o EXCEPT !.kind = "joining"] /\ o.timed /\ timer' \in {"fired", "cancelled"}
          /\ rendez' = [first_call |-> 1, ec |-> ec] /\ UNCHANGED <<calls, outcome>>
      BY <1>2 DEF LeftToTimer
    <3>2. op' \in Op /\ op'.id = o.id /\ op'.kind = "joining" /\ op'.timed = o.timed
      <4>. DEFINE p == [o EXCEPT !.kind = "joining"]
      <4>1. p \in Op /\ p.id = o.id /\ p.kind = "joining" /\ p.timed = o.timed
        BY OpFields
      <4>2. op' = p
        BY <3>1
      <4>. HIDE DEF p
      <4>. QED BY <4>1, <4>2
    <3>3. rendez' \in Rendezvous /\ rendez'.first_call = 1
      BY <3>1, OpFields
    <3>. QED BY <3>1, <3>2, <3>3
  <2>2. OpTypes'
    BY <1>0, <2>1 DEF OpTypes
  <2>3. Phase(op', timer', rendez')
    BY <1>2, <2>1 DEF Phase, Waiting
  <2>4. Order'
    BY <1>0, <1>2, <2>1 DEF Order
  <2>5. Fresh'
    BY <1>0, <1>2, <2>1 DEF Fresh
  <2>. QED BY <2>2, <2>3, <2>4, <2>5 DEF OpInv
<1>3. ASSUME NEW o \in Op, o.id \in Ops, NEW ec \in Errors, Answered(o, ec),
             \A j \in 1..(o.id - 1) : calls[j] > 0, \A j \in Ops : calls[j] > 0 => j <= o.id,
             ~late => calls[o.id] = 0
      PROVE  OpInv'
  BY <1>0, <1>3, AnsweredInv DEF Answered, Errors
<1>4. ASSUME op # NoOp
      PROVE  /\ op \in Op /\ op.id \in Ops /\ (\A j \in 1..(op.id - 1) : calls[j] > 0)
             /\ (\A j \in Ops : calls[j] > 0 => j <= op.id) /\ outcome[op.id] # "ok" /\ (~late => calls[op.id] = 0)
  BY <1>0, <1>4 DEF OpTypes, Order, Fresh, Phase, Resting, Running, Waiting
<1>5. ASSUME NEW ec \in {"ok", "failed", "aborted"}, Ends(ec) PROVE OpInv'
  <2>1. op # NoOp
    BY <1>5, OpFields DEF Ends, Running
  <2>2. ec \in Errors
    BY DEF Errors
  <2>. QED BY <1>2, <1>3, <1>4, <1>5, <2>1, <2>2 DEF Ends
<1>6. CASE EndsLate
  <2>1. PICK i \in Ops, ec \in {"failed", "aborted"} : UserCalled(i, ec) /\ (calls[i] > 0 \/ i = op.id)
    BY <1>6 DEF EndsLate
  <2>2. /\ calls' \in [Ops -> Nat] /\ outcome' \in [Ops -> Errors \cup {"none"}]
        /\ calls'[i] = calls[i] + 1 /\ outcome'[i] = IF calls[i] = 0 THEN ec ELSE outcome[i]
        /\ \A j \in Ops : j # i => calls'[j] = calls[j] /\ outcome'[j] = outcome[j]
    BY <1>0, <2>1, Called DEF OpTypes, Errors
  <2>3. late' /\ op' = op /\ timer' = timer /\ rendez' = rendez
    BY <1>6 DEF EndsLate
  <2>4. \A j \in Ops : calls[j] \in Nat /\ calls'[j] \in Nat /\ (calls[j] > 0 => calls'[j] > 0)
    BY <1>0, <2>2 DEF OpTypes
  <2>5. OpTypes'
    BY <1>0, <2>2, <2>3 DEF OpTypes
  <2>6. \A j \in Ops : calls'[j] > 0 => calls[j] > 0 \/ j = op.id
    BY <2>1, <2>2
  <2>7. i = op.id => op # NoOp
    BY OpFields, Numbers
  <2>8. ASSUME NEW j \in Ops, calls'[j] > 0, NEW k \in 1..j PROVE calls'[k] > 0
    <3>1. k \in Ops /\ k \in Nat /\ j \in Nat
      BY Numbers DEF Ops
    <3>2. CASE calls[j] > 0
      BY <1>0, <2>4, <3>1, <3>2 DEF Order
    <3>3. CASE j = op.id
      <4>1. k = op.id \/ k \in 1..(op.id - 1)
        BY <3>1, <3>3
      <4>2. op # NoOp
        BY <3>3, OpFields, Numbers
      <4>. QED BY <1>4, <2>4, <2>8, <3>1, <3>3, <4>1, <4>2
    <3>. QED BY <2>6, <2>8, <3>2, <3>3
  <2>9. ASSUME op # NoOp PROVE /\ \A j \in 1..(op.id - 1) : calls'[j] > 0
                               /\ \A j \in Ops : calls'[j] > 0 => j <= op.id
                               /\ outcome'[op.id] # "ok"
    <3>1. \A j \in 1..(op.id - 1) : j \in Ops
      BY <1>4, <2>9, Numbers DEF Ops
    <3>2. \A j \in 1..(op.id - 1) : calls'[j] > 0
      BY <1>4, <2>4, <2>9, <3>1
    <3>3. \A j \in Ops : calls'[j] > 0 => j <= op.id
      <4>1. op.id <= op.id
        BY <1>4, <2>9, Numbers
      <4>. QED BY <1>4, <2>6, <2>9, <4>1
    <3>4. outcome'[op.id] # "ok"
      BY <1>4, <2>2, <2>9
    <3>. QED BY <3>2, <3>3, <3>4
  <2>10. \A j \in Ops : outcome'[j] # "none" => calls'[j] > 0
    <3>1. calls'[i] > 0
      BY <2>2, <2>4
    <3>. QED BY <1>0, <2>2, <2>4, <3>1 DEF Order
  <2>11. Order'
    BY <2>3, <2>8, <2>9, <2>10 DEF Order
  <2>. QED BY <1>0, <2>3, <2>5, <2>11 DEF OpInv, Fresh
<1>7. ASSUME NEW o \in Op, Starts(o) PROVE OpInv'
  <2>1. op = NoOp /\ o.kind \in {"connect", "query"} /\ IsNext(o.id)
    BY <1>7 DEF Starts
  <2>2. o.id \in Ops /\ calls[o.id] = 0 /\ \A j \in 1..(o.id - 1) : calls[j] > 0
    BY <2>1 DEF IsNext
  <2>3. ASSUME NEW j \in Ops, calls[j] > 0 PROVE j <= o.id
    <3>1. j \in Nat /\ o.id \in Nat /\ o.id >= 1 /\ calls[o.id] = 0
      BY <2>2, Numbers
    <3>2. ~(j > o.id)
      <4>1. j > o.id => o.id \in 1..j
        BY <3>1
      <4>. QED BY <1>0, <2>3, <3>1, <4>1 DEF Order
    <3>. QED BY <3>1, <3>2
  <2>4. outcome[o.id] # "ok" /\ (~late => calls[o.id] = 0)
    BY <1>0, <2>2 DEF Order
  <2>5. "failed" \in Errors
    BY DEF Errors
  <2>6. CASE op' = o /\ timer' = (IF o.timed THEN "armed" ELSE "none") /\ UNCHANGED <<rendez, calls, outcome>>
    <3>1. OpTypes'
      BY <1>0, <2>6 DEF OpTypes
    <3>2. rendez.first_call = 2
      BY <1>0, <2>1, OpFields, Numbers DEF Phase, Resting, Running, Waiting
    <3>3. Running(op', timer', rendez')
      BY <2>1, <2>2, <2>6, <3>2, OpFields DEF Running
    <3>4. Order'
      BY <1>0, <2>2, <2>3, <2>4, <2>6 DEF Order
    <3>5. Fresh'
      BY <1>0, <2>4, <2>6 DEF Fresh
    <3>. QED BY <3>1, <3>3, <3>4, <3>5 DEF OpInv, Phase
  <2>. QED BY <1>2, <1>3, <1>7, <2>2, <2>3, <2>4, <2>5, <2>6 DEF Starts
<1>8. CASE GoesOn
  <2>1. op.kind = "connect" /\ op' = [op EXCEPT !.kind = "oids"] /\ UNCHANGED <<timer, rendez, calls, outcome>>
    BY <1>8 DEF GoesOn
  <2>2. op' \in Op /\ op'.id = op.id /\ op'.kind = "oids" /\ op'.timed = op.timed /\ op # NoOp
    BY <1>0, <2>1, OpFields DEF OpTypes
  <2>3. Running(op, timer, rendez)
    BY <1>0, <2>1, OpFields DEF Phase, Resting, Waiting
  <2>4. Running(op', timer', rendez')
    BY <2>1, <2>2, <2>3 DEF Running
  <2>5. OpTypes' /\ Order' /\ Fresh'
    BY <1>0, <2>1, <2>2 DEF OpTypes, Order, Fresh
  <2>. QED BY <2>4, <2>5 DEF OpInv, Phase
<1>9. CASE Deadline
  <2>1. CASE timer = "armed" /\ timer' = "fired" /\ UNCHANGED <<op, rendez, calls, outcome>>
    <3>1. Running(op', timer', rendez')
      BY <1>0, <2>1, OpFields DEF Phase, Resting, Running, Waiting, OpTypes
    <3>2. OpTypes' /\ Order' /\ Fresh'
      BY <1>0, <2>1 DEF OpTypes, Order, Fresh
    <3>. QED BY <3>1, <3>2 DEF OpInv, Phase
  <2>2. CASE /\ timer \in {"fired", "cancelled"} /\ rendez.first_call = 2
             /\ rendez' = [first_call |-> 1, ec |-> "timed_out"] /\ timer' = "none" /\ UNCHANGED <<op, calls, outcome>>
    <3>1. Running(op, timer, rendez) /\ op.timed
      BY <1>0, <2>2, OpFields DEF Phase, Resting, Running, Waiting, OpTypes
    <3>2. rendez' \in Rendezvous /\ rendez'.first_call = 1 /\ rendez'.ec = "timed_out"
      BY <2>2, OpFields DEF Errors
    <3>3. Running(op', timer', rendez')
      BY <2>2, <3>1, <3>2 DEF Running
    <3>4. OpTypes' /\ Order' /\ Fresh'
      BY <1>0, <2>2, <3>2 DEF OpTypes, Order, Fresh
    <3>. QED BY <3>3, <3>4 DEF OpInv, Phase
  <2>3. CASE /\ timer \in {"fired", "cancelled"} /\ rendez.first_call = 1
             /\ UserCalled(op.id, rendez.ec) /\ op' = NoOp /\ timer' = "none"
             /\ rendez' = [first_call |-> 2, ec |-> "ok"]
    <3>1. op # NoOp
      BY <1>0, <2>3, OpFields DEF Phase, Resting, Running, Waiting
    <3>2. rendez' \in Rendezvous /\ rendez'.first_call = 2 /\ rendez.ec \in Errors
      BY <1>0, <2>3, OpFields DEF Errors, OpTypes
    <3>. QED BY <1>0, <1>4, <2>3, <3>1, <3>2, AnsweredInv
  <2>. QED BY <1>9, <2>1, <2>2, <2>3 DEF Deadline
<1>. QED BY <1>1, <1>5, <1>6, <1>7, <1>8, <1>9 DEF Treats

\* What a step leaves of those who were called, and which operation is left.
LEMMA TreatsKeeps ==
    ASSUME OpInv, Treats, OpInv'
    PROVE  /\ \A i \in Ops : calls[i] > 0 => calls'[i] > 0
           /\ op # NoOp => op'.id = op.id \/ (op' = NoOp /\ calls'[op.id] > 0)
<1>0. OpTypes /\ (\A j \in Ops : calls[j] \in Nat) /\ Phase(op, timer, rendez)
  BY DEF OpInv, OpTypes
<1>1. ASSUME NEW i \in Ops, NEW x \in Errors, UserCalled(i, x)
      PROVE  (\A j \in Ops : calls[j] > 0 => calls'[j] > 0) /\ calls'[i] > 0
  <2>1. calls'[i] = calls[i] + 1 /\ \A j \in Ops : j # i => calls'[j] = calls[j]
    BY <1>0, <1>1, Called DEF OpTypes
  <2>. QED BY <1>0, <2>1
<1>2. ASSUME NEW o \in Op, o.id \in Ops, NEW ec \in Errors, Answered(o, ec)
      PROVE  (\A j \in Ops : calls[j] > 0 => calls'[j] > 0) /\ calls'[o.id] > 0 /\ op' = NoOp
  BY <1>1, <1>2 DEF Answered, Errors
<1>3. ASSUME NEW o \in Op, NEW ec, LeftToTimer(o, ec)
      PROVE  (\A j \in Ops : calls[j] > 0 => calls'[j] > 0) /\ op'.id = o.id
  <2>1. op' = [o EXCEPT !.kind = "joining"] /\ calls' = calls
    BY <1>3 DEF LeftToTimer
  <2>. QED BY <2>1, OpFields
<1>4. op # NoOp => op.id \in Ops
  BY <1>0 DEF Phase, Resting, Running, Waiting
<1>5. ASSUME NEW ec \in {"ok", "failed", "aborted"}, Ends(ec)
      PROVE  (\A j \in Ops : calls[j] > 0 => calls'[j] > 0) /\ (op'.id = op.id \/ (op' = NoOp /\ calls'[op.id] > 0))
  <2>1. op \in Op /\ op.id \in Ops /\ ec \in Errors
    BY <1>0, <1>5 DEF OpTypes, Ends, Running, Errors
  <2>. QED BY <1>2, <1>3, <1>5, <2>1 DEF Ends
<1>6. ASSUME NEW o \in Op, Starts(o) PROVE op = NoOp /\ \A j \in Ops : calls[j] > 0 => calls'[j] > 0
  <2>1. op = NoOp /\ o.id \in Ops /\ "failed" \in Errors
    BY <1>6 DEF Starts, IsNext, Errors
  <2>. QED BY <1>2, <1>3, <1>6, <2>1 DEF Starts
<1>7. CASE EndsLate
  <2>1. PICK i \in Ops, ec \in {"failed", "aborted"} : UserCalled(i, ec)
    BY <1>7 DEF EndsLate
  <2>. QED BY <1>1, <1>7, <2>1 DEF EndsLate, Errors
<1>8. CASE GoesOn
  BY <1>0, <1>8, OpFields DEF GoesOn, OpTypes
<1>9. CASE Deadline
  <2>1. CASE UserCalled(op.id, rendez.ec) /\ op' = NoOp /\ op # NoOp
    BY <1>0, <1>1, <1>4, <2>1, OpFields DEF OpTypes
  <2>2. rendez.first_call = 1 /\ timer \in {"fired", "cancelled"} => op # NoOp
    BY <1>0, OpFields DEF Phase, Resting, Running, Waiting
  <2>. QED BY <1>9, <2>1, <2>2 DEF Deadline
<1>. QED BY <1>5, <1>6, <1>7, <1>8, <1>9 DEF Treats

-----------------------------------------------------------------------------
(* The contexts of the requests. *)

Owners ==
    /\ ctx \in 0..MaxOps /\ owner \in [Contexts -> 0..MaxOps]
    /\ \A k \in 1..ctx : owner[k] \in Ops /\ k <= owner[k] /\ (owner[k] = op.id \/ calls[owner[k]] > 0)
    /\ \A j, k \in 1..ctx : j < k => owner[j] < owner[k]

\* The connection is got first, and its oid map is asked for in the first context.
Connecting ==
    /\ op.kind = "connect" => ctx = 0
    /\ op.kind \in {"connect", "oids"} => op.id = 1

\* A step that starts no request leaves the contexts to their operations.
LEMMA OwnersKept ==
    ASSUME OpInv, Treats, OpInv', Owners, UNCHANGED <<ctx, owner>>
    PROVE  Owners'
<1>1. ASSUME NEW k \in 1..ctx PROVE owner[k] = op'.id \/ calls'[owner[k]] > 0
  <2>1. owner[k] \in Ops /\ (owner[k] = op.id \/ calls[owner[k]] > 0)
    BY DEF Owners
  <2>2. owner[k] = op.id => op # NoOp
    BY <2>1, OpFields, Numbers
  <2>. QED BY <2>1, <2>2, TreatsKeeps
<1>. QED BY <1>1 DEF Owners

\* A new context belongs to a later operation than the others.
LEMMA OwnersJoined ==
    ASSUME OpInv, Treats, OpInv', Owners, NEW i \in Ops, ctx + 1 <= i, \A k \in 1..ctx : owner[k] < i,
           op'.id = i \/ calls'[i] > 0, ctx' = ctx + 1, owner' = [owner EXCEPT ![ctx + 1] = i]
    PROVE  Owners'
<1>1. ctx \in Nat /\ MaxOps \in Nat /\ i \in Nat /\ i <= MaxOps /\ ctx + 1 \in Contexts
  BY Numbers DEF Owners, Ops, Contexts
<1>2. owner' \in [Contexts -> 0..MaxOps] /\ owner'[ctx + 1] = i
  BY <1>1 DEF Owners
<1>3. \A k \in 1..ctx' : k # ctx + 1 => k \in 1..ctx /\ k \in Contexts /\ owner'[k] = owner[k]
  BY <1>1 DEF Owners, Contexts
<1>4. ctx' \in 0..MaxOps
  BY <1>1
<1>5. ASSUME NEW k \in 1..ctx' PROVE owner'[k] \in Ops /\ k <= owner'[k] /\ (owner'[k] = op'.id \/ calls'[owner'[k]] > 0)
  <2>1. CASE k = ctx + 1
    BY <1>1, <1>2, <2>1
  <2>2. CASE k # ctx + 1
    <3>1. /\ k \in 1..ctx /\ owner'[k] = owner[k] /\ owner[k] \in Ops /\ k <= owner[k]
          /\ (owner[k] = op.id \/ calls[owner[k]] > 0)
      BY <1>3, <2>2 DEF Owners
    <3>2. owner[k] = op.id => op # NoOp
      BY <3>1, OpFields, Numbers
    <3>. QED BY <3>1, <3>2, TreatsKeeps
  <2>. QED BY <2>1, <2>2
<1>6. ASSUME NEW j \in 1..ctx', NEW k \in 1..ctx', j < k PROVE owner'[j] < owner'[k]
  <2>1. j \in 1..ctx /\ owner'[j] = owner[j]
    BY <1>1, <1>3, <1>6
  <2>. QED BY <1>2, <1>3, <1>6, <2>1 DEF Owners
<1>. QED BY <1>2, <1>4, <1>5, <1>6 DEF Owners

\* The next operation has no context yet, and the others' are of earlier ones.
LEMMA NextIsLater ==
    ASSUME OpInv, Owners, op = NoOp, NEW i, IsNext(i)
    PROVE  i \in Ops /\ ctx + 1 <= i /\ \A k \in 1..ctx : owner[k] < i
<1>1. i \in Ops /\ i \in Nat /\ i >= 1 /\ calls[i] = 0
  BY Numbers DEF IsNext
<1>2. ASSUME NEW k \in 1..ctx PROVE owner[k] < i
  <2>1. owner[k] \in Ops /\ owner[k] \in Nat /\ owner[k] # op.id
    BY Numbers, OpFields DEF Owners
  <2>2. calls[owner[k]] > 0
    BY <2>1 DEF Owners
  <2>3. i \in 1..owner[k] => calls[i] > 0
    BY <2>1, <2>2 DEF OpInv, Order
  <2>4. ~(owner[k] >= i)
    BY <1>1, <2>1, <2>3
  <2>. QED BY <1>1, <2>1, <2>4
<1>3. ctx + 1 <= i
  <2>1. ctx \in Nat
    BY DEF Owners
  <2>2. CASE ctx = 0
    BY <1>1, <2>2
  <2>3. CASE ctx # 0
    <3>1. ctx \in 1..ctx
      BY <2>1, <2>3
    <3>2. ctx <= owner[ctx] /\ owner[ctx] < i /\ owner[ctx] \in Ops
      BY <1>2, <3>1 DEF Owners
    <3>3. owner[ctx] \in Nat
      BY <3>2, Numbers
    <3>. QED BY <1>1, <2>1, <3>2, <3>3
  <2>. QED BY <2>2, <2>3
<1>. QED BY <1>1, <1>2, <1>3

-----------------------------------------------------------------------------
(* The connection when an operation has ended well. *)

Settled ==
    /\ \A i \in Ops : outcome[i] = "ok" /\ op = NoOp /\ (\A j \in Ops : calls[j] > 0 => j <= i) => Quiet
    /\ op.kind = "joining" /\ rendez.ec = "ok" => Quiet
    /\ op.kind = "connect" \/ (op = NoOp /\ calls[1] = 0) => ~pq.active

\* The connection does not take up a query.
Calm == (Quiet => Quiet') /\ (pq'.active => pq.active)

\* What ended well ended quietly, and stays so.
LEMMA SettledInv ==
    ASSUME OpInv, Treats, OpInv', Settled,
           Calm \/ (Running(op', timer', rendez') /\ op'.kind # "connect") \/ (op'.kind = "connect" /\ ~pq'.active)
    PROVE  Settled'
<1>0. OpTypes /\ Phase(op, timer, rendez) /\ Order /\ Order' /\ Phase(op', timer', rendez') /\ OpTypes'
  BY DEF OpInv
<1>1. CASE Running(op', timer', rendez') /\ op'.kind # "connect"
  <2>1. op'.kind \in {"oids", "query"} /\ op' # NoOp
    BY <1>1, OpFields DEF Running
  <2>. QED BY <2>1 DEF Settled
<1>2. CASE op'.kind = "connect" /\ ~pq'.active
  BY <1>2, OpFields DEF Settled
<1>3. CASE Calm
  \* Who was answered last: with what, and what it says of the connection.
  <2>1. ASSUME NEW o \in Op, o.id \in Ops, NEW ec \in Errors, NEW x \in {ec, "timed_out"}, ec = "ok" => Quiet',
               \A j \in Ops : calls[j] > 0 => j <= o.id, outcome[o.id] # "ok",
               UserCalled(o.id, x), op' = NoOp
        PROVE  Settled'
    <3>1. x \in Errors /\ (x = "ok" => Quiet')
      BY <2>1 DEF Errors
    <3>2. /\ calls'[o.id] = calls[o.id] + 1 /\ outcome'[o.id] = IF calls[o.id] = 0 THEN x ELSE outcome[o.id]
          /\ \A j \in Ops : j # o.id => calls'[j] = calls[j] /\ outcome'[j] = outcome[j]
      BY <1>0, <2>1, <3>1, Called DEF OpTypes
    <3>3. calls[o.id] \in Nat /\ calls'[o.id] > 0
      BY <1>0, <2>1, <3>2 DEF OpTypes
    <3>4. ASSUME NEW i \in Ops, outcome'[i] = "ok", \A j \in Ops : calls'[j] > 0 => j <= i PROVE Quiet'
      <4>1. o.id <= i /\ o.id \in Nat /\ i \in Nat
        BY <2>1, <3>3, <3>4, Numbers
      <4>2. CASE i = o.id
        BY <2>1, <3>1, <3>2, <3>4, <4>2
      <4>3. CASE i # o.id
        <5>1. outcome[i] = "ok" /\ calls[i] > 0
          BY <1>0, <3>2, <3>4, <4>3 DEF Order
        <5>. QED BY <2>1, <4>1, <4>3, <5>1
      <4>. QED BY <4>2, <4>3
    <3>5. calls'[1] > 0
      <4>1. 1 \in 1..o.id
        BY <2>1, Numbers
      <4>. QED BY <1>0, <2>1, <3>3, <4>1 DEF Order
    <3>6. op'.kind = "none" /\ calls'[1] # 0
      <4>1. calls'[1] \in Nat
        BY <1>0, Numbers DEF OpTypes
      <4>. QED BY <2>1, <3>5, <4>1, OpFields
    <3>. QED BY <2>1, <3>4, <3>6 DEF Settled
  <2>2. ASSUME NEW o \in Op, o.id \in Ops, NEW ec \in Errors, ec = "ok" => Quiet', LeftToTimer(o, ec)
        PROVE  Settled'
    <3>1. op' = [o EXCEPT !.kind = "joining"] /\ rendez' = [first_call |-> 1, ec |-> ec]
      BY <2>2 DEF LeftToTimer
    <3>2. op'.kind = "joining" /\ op' # NoOp
      BY <3>1, OpFields
    <3>3. rendez'.ec = ec
      BY <3>1
    <3>. QED BY <2>2, <3>2, <3>3 DEF Settled
  <2>3. ASSUME op # NoOp
        PROVE  op \in Op /\ op.id \in Ops /\ (\A j \in Ops : calls[j] > 0 => j <= op.id) /\ outcome[op.id] # "ok"
    BY <1>0, <2>3 DEF Order, Phase, Resting, Running, Waiting, OpTypes
  <2>4. ASSUME NEW ec \in {"ok", "failed", "aborted"}, Ends(ec), ec = "ok" => Quiet' PROVE Settled'
    <3>1. op # NoOp /\ ec \in Errors
      BY <2>4, OpFields DEF Ends, Running, Errors
    <3>2. ASSUME Answered(op, ec) PROVE Settled'
      <4>1. PICK x \in {ec, "timed_out"} : UserCalled(op.id, x)
        BY <3>2 DEF Answered
      <4>2. op' = NoOp
        BY <3>2 DEF Answered
      <4>. QED BY <2>1, <2>3, <2>4, <3>1, <4>1, <4>2
    <3>. QED BY <2>2, <2>3, <2>4, <3>1, <3>2 DEF Ends
  <2>5. CASE UNCHANGED <<op, timer, rendez, calls, outcome>>
    BY <1>3, <2>5 DEF Settled, Calm
  <2>6. CASE EndsLate
    <3>1. PICK i \in Ops, ec \in {"failed", "aborted"} : UserCalled(i, ec) /\ (calls[i] > 0 \/ i = op.id)
      BY <2>6 DEF EndsLate
    <3>2. /\ outcome'[i] = IF calls[i] = 0 THEN ec ELSE outcome[i]
          /\ calls'[i] = calls[i] + 1
          /\ \A j \in Ops : j # i => calls'[j] = calls[j] /\ outcome'[j] = outcome[j]
      BY <1>0, <3>1, Called DEF OpTypes, Errors
    <3>3. op' = op /\ rendez' = rendez
      BY <2>6 DEF EndsLate
    <3>4. \A j \in Ops : calls[j] \in Nat /\ (calls[j] > 0 => calls'[j] > 0) /\ (outcome'[j] = "ok" => outcome[j] = "ok")
      BY <1>0, <3>1, <3>2 DEF OpTypes
    <3>5. calls'[1] = 0 => calls[1] = 0
      <4>1. calls'[1] \in Nat /\ calls[1] \in Nat
        BY <1>0, Numbers DEF OpTypes
      <4>. QED BY <3>4, <4>1, Numbers
    <3>. QED BY <1>3, <3>3, <3>4, <3>5 DEF Settled, Calm
  <2>7. ASSUME NEW o \in Op, Starts(o) PROVE Settled'
    <3>1. op = NoOp /\ o.kind \in {"connect", "query"} /\ IsNext(o.id)
      BY <2>7 DEF Starts
    <3>2. o.id \in Ops /\ o.id \in Nat /\ o.id >= 1 /\ calls[o.id] = 0 /\ outcome[o.id] # "ok"
      BY <1>0, <3>1, Numbers DEF IsNext, Order
    <3>3. ASSUME NEW j \in Ops, calls[j] > 0 PROVE j <= o.id
      <4>1. j \in Nat
        BY Numbers
      <4>2. o.id \in 1..j => calls[o.id] > 0
        BY <1>0, <3>3 DEF Order
      <4>. QED BY <3>2, <4>1, <4>2
    <3>4. CASE op' = o
      <4>1. op' # NoOp /\ op'.kind # "joining"
        BY <3>1, <3>4, OpFields
      <4>2. op'.kind = "connect" => ~pq'.active
        <5>1. o.kind = "connect" => o.id = 1
          BY <2>7 DEF Starts
        <5>. QED BY <1>3, <3>1, <3>2, <3>4, <5>1 DEF Settled, Calm
      <4>. QED BY <4>1, <4>2 DEF Settled
    <3>5. "failed" \in Errors
      BY DEF Errors
    <3>6. ASSUME Answered(o, "failed") PROVE Settled'
      BY <2>1, <3>2, <3>3, <3>5, <3>6 DEF Answered
    <3>. QED BY <2>2, <2>7, <3>2, <3>4, <3>5, <3>6 DEF Starts
  <2>8. CASE GoesOn
    <3>1. op' = [op EXCEPT !.kind = "oids"]
      BY <2>8 DEF GoesOn
    <3>. DEFINE p == [op EXCEPT !.kind = "oids"]
    <3>2. p.kind = "oids"
      BY <1>0, OpFields DEF OpTypes
    <3>3. op' = p
      BY <3>1
    <3>. HIDE DEF p
    <3>4. op'.kind = "oids" /\ op' # NoOp
      BY <3>2, <3>3, OpFields
    <3>. QED BY <3>4 DEF Settled
  <2>9. CASE Deadline
    <3>1. CASE op' = op /\ calls' = calls /\ outcome' = outcome /\ (rendez' = rendez \/ op.kind # "joining")
      BY <1>3, <3>1 DEF Settled, Calm
    <3>2. CASE rendez.first_call = 2 /\ timer \in {"fired", "cancelled"} /\ UNCHANGED <<op, calls, outcome>>
      BY <1>0, <3>1, <3>2, OpFields DEF Phase, Resting, Running, Waiting
    <3>3. CASE /\ timer \in {"fired", "cancelled"} /\ rendez.first_call = 1
               /\ UserCalled(op.id, rendez.ec) /\ op' = NoOp
      <4>1. op # NoOp /\ (op.kind = "joining" \/ rendez.ec = "timed_out")
        BY <1>0, <3>3, OpFields DEF Phase, Resting, Running, Waiting
      <4>2. rendez.ec \in Errors /\ (rendez.ec = "ok" => Quiet')
        BY <1>0, <1>3, <4>1, OpFields DEF OpTypes, Settled, Calm
      <4>. QED BY <2>1, <2>3, <3>3, <4>1, <4>2
    <3>. QED BY <2>9, <3>1, <3>2, <3>3 DEF Deadline
  <2>. QED BY <2>4, <2>5, <2>6, <2>7, <2>8, <2>9 DEF Treats
<1>. QED BY <1>1, <1>2, <1>3

-----------------------------------------------------------------------------
(* The waits for the socket. *)

\* (A context is in its first state until it is used.)
CtxStates ==
    /\ waits \subseteq WaitRec /\ state \in [Contexts -> {"error", "send_finish", "send_in_progress"}]
    /\ \A k \in Contexts : k > ctx => state[k] = "send_in_progress"

\* A wait of the connect operation is there while that runs; one of a context
\* that has failed has been cancelled; and only the operation that runs waits
\* for an answer, in its last context.
WaitSound(w) ==
    /\ w.who \in 0..ctx
    /\ w.who = 0 => op.kind = "connect"
    /\ w.who # 0 /\ state[w.who] = "error" => w.st # "waiting"
    /\ w.who # 0 /\ w.dir = "read" /\ state[w.who] # "error" =>
          owner[w.who] = op.id /\ op.kind \in {"query", "oids"}

\* The connect operation waits once, and a context waits to read once.
Alone(ws) ==
    \A v, w \in ws : v.who = w.who /\ (v.who = 0 \/ (v.dir = "read" /\ w.dir = "read")) => v = w

WaitInv == (\A w \in waits : WaitSound(w)) /\ Alone(waits)

\* A wait and what becomes of it when it is cancelled or ready.
LEMMA WaitFields ==
    /\ \A w \in WaitRec :
          /\ w.dir \in {"read", "write"} /\ w.who \in 0..(MaxOps + 1) /\ w.st \in {"waiting", "ready", "aborted"}
          /\ \A s \in {"ready", "aborted"} :
                /\ [w EXCEPT !.st = s] \in WaitRec /\ [w EXCEPT !.st = s].dir = w.dir
                /\ [w EXCEPT !.st = s].who = w.who /\ [w EXCEPT !.st = s].st = s
    /\ \A d \in {"read", "write"}, k \in 0..(MaxOps + 1) :
          Wait(d, k) \in WaitRec /\ Wait(d, k).dir = d /\ Wait(d, k).who = k /\ Wait(d, k).st = "waiting"
  BY DEF WaitRec, Wait

\* A wait that is left of ws: as it was, or no longer waiting.
Left(v, w) == v \in WaitRec /\ v.dir = w.dir /\ v.who = w.who /\ (v.st = "waiting" => w.st = "waiting")

\* What cancel() leaves: every wait has come from one, nothing waits, and what
\* was alone is so.
LEMMA CancelledIs ==
    ASSUME NEW ws, ws \subseteq WaitRec, Alone(ws)
    PROVE  /\ \A v \in Cancelled(ws) : v.st # "waiting" /\ \E w \in ws : Left(v, w)
           /\ Alone(Cancelled(ws))
<1>. DEFINE c(w) == IF w.st = "waiting" THEN [w EXCEPT !.st = "aborted"] ELSE w
<1>1. ASSUME NEW w \in ws PROVE c(w).st # "waiting" /\ c(w).dir = w.dir /\ c(w).who = w.who /\ c(w) \in WaitRec
  <2>1. w \in WaitRec
    OBVIOUS
  <2>2. CASE w.st = "waiting"
    BY <2>1, <2>2, WaitFields
  <2>3. CASE w.st # "waiting"
    BY <2>1, <2>3
  <2>. QED BY <2>2, <2>3
<1>2. Cancelled(ws) = {c(w) : w \in ws}
  BY DEF Cancelled
<1>. HIDE DEF c
<1>3. ASSUME NEW v \in Cancelled(ws) PROVE \E w \in ws : v = c(w) /\ v.st # "waiting" /\ Left(v, w)
  BY <1>1, <1>2 DEF Left
<1>4. ASSUME NEW v \in Cancelled(ws), NEW u \in Cancelled(ws), v.who = u.who,
             v.who = 0 \/ (v.dir = "read" /\ u.dir = "read")
      PROVE  v = u
  <2>1. PICK w \in ws : v = c(w)
    BY <1>2
  <2>2. PICK x \in ws : u = c(x)
    BY <1>2
  <2>3. w = x
    BY <1>1, <1>4, <2>1, <2>2 DEF Alone
  <2>. QED BY <2>1, <2>2, <2>3
<1>. QED BY <1>3, <1>4 DEF Alone

\* Fewer waits are alone as well.
LEMMA AloneTaken == \A ws, xs : Alone(ws) /\ xs \subseteq ws => Alone(xs)
  BY DEF Alone

\* An operation has one context.
LEMMA OneContext == \A j, k \in 1..ctx : Owners /\ owner[j] = owner[k] => j = k
<1>. SUFFICES ASSUME NEW j \in 1..ctx, NEW k \in 1..ctx, Owners, owner[j] = owner[k] PROVE j = k
  OBVIOUS
<1>1. owner[j] \in Nat /\ owner[k] \in Nat /\ j \in Nat /\ k \in Nat
  BY Numbers DEF Owners
<1>2. ~(j < k) /\ ~(k < j)
  BY <1>1 DEF Owners
<1>. QED BY <1>1, <1>2

\* A wait of a context: the connect operation has none.
LEMMA OfContext ==
    ASSUME Owners, Connecting, WaitInv, NEW w \in waits, w.who # 0
    PROVE  w.who \in 1..ctx /\ w.who \in Contexts /\ \A v \in waits : v.who # 0 /\ v.who \in 1..ctx /\ v.who \in Contexts
<1>1. ctx \in Nat /\ ctx <= MaxOps /\ MaxOps \in Nat
  BY Numbers DEF Owners
<1>2. \A v \in waits : v.who \in 0..ctx /\ (v.who = 0 => op.kind = "connect")
  BY DEF WaitInv, WaitSound
<1>3. ctx # 0
  BY <1>1, <1>2
<1>. QED BY <1>1, <1>2, <1>3 DEF Connecting, Contexts

\* The waits when a request has failed: cancelled, and its context marked.
LEMMA FailedWaits ==
    ASSUME CtxStates, Owners, Connecting, WaitInv, NEW w \in waits, w.who # 0, UNCHANGED <<ctx, owner>>,
           state' = ErrorState(w.who), waits' = Cancelled(Taken(w)), op' = op \/ owner[w.who] = op.id
    PROVE  CtxStates' /\ WaitInv'
<1>1. w.who \in 1..ctx /\ w.who \in Contexts /\ \A v \in waits : v.who # 0 /\ v.who \in 1..ctx /\ v.who \in Contexts
  BY OfContext
<1>2. Taken(w) \subseteq WaitRec /\ Alone(Taken(w))
  BY AloneTaken DEF WaitInv, CtxStates, Taken
<1>3. /\ \A v \in waits' : v.st # "waiting" /\ \E x \in Taken(w) : Left(v, x)
      /\ Alone(waits')
  BY <1>2, CancelledIs
<1>4. /\ state' \in [Contexts -> {"error", "send_finish", "send_in_progress"}] /\ state'[w.who] = "error"
      /\ \A k \in Contexts : k # w.who => state'[k] = state[k]
  BY <1>1 DEF ErrorState, CtxStates
<1>5. CtxStates'
  <2>1. w.who \in Nat /\ ctx \in Nat /\ w.who <= ctx
    BY <1>1 DEF Owners
  <2>2. \A k \in Contexts : k > ctx => k # w.who
    BY <2>1
  <2>. QED BY <1>3, <1>4, <2>2 DEF CtxStates, Left
<1>6. ASSUME NEW v \in waits' PROVE WaitSound(v)'
  <2>1. PICK x \in waits : Left(v, x)
    BY <1>3 DEF Taken
  <2>2. v.st # "waiting" /\ v.dir = x.dir /\ v.who = x.who
    BY <1>3, <2>1 DEF Left
  <2>3. v.who # 0 /\ v.who \in 1..ctx /\ v.who \in Contexts
    BY <1>1, <2>2
  <2>4. ASSUME v.dir = "read", state'[v.who] # "error" PROVE owner[v.who] = op'.id /\ op'.kind \in {"query", "oids"}
    <3>1. v.who # w.who /\ state[v.who] # "error"
      BY <1>4, <2>3, <2>4
    <3>2. owner[v.who] = op.id /\ op.kind \in {"query", "oids"}
      BY <2>2, <2>3, <2>4, <3>1 DEF WaitInv, WaitSound
    <3>3. owner[w.who] # op.id
      BY <1>1, <2>3, <3>1, <3>2, OneContext
    <3>. QED BY <3>2, <3>3
  <2>. QED BY <2>2, <2>3, <2>4 DEF WaitSound
<1>. QED BY <1>3, <1>5, <1>6 DEF WaitInv

\* The waits when it has succeeded: the one for its result was the only one.
LEMMA SucceededWaits ==
    ASSUME CtxStates, Owners, Connecting, WaitInv, NEW w \in waits, w.who # 0, UNCHANGED <<ctx, owner, state>>,
           w.dir = "read", state[w.who] # "error", waits' = Taken(w)
    PROVE  CtxStates' /\ WaitInv'
<1>1. w.who \in 1..ctx /\ \A v \in waits : v.who # 0 /\ v.who \in 1..ctx
  BY OfContext
<1>2. owner[w.who] = op.id
  BY DEF WaitInv, WaitSound
<1>3. ASSUME NEW v \in waits' PROVE WaitSound(v)'
  <2>1. v \in waits /\ v # w
    BY <1>3 DEF Taken
  <2>2. WaitSound(v) /\ v.who # 0 /\ v.who \in 1..ctx
    BY <1>1, <2>1 DEF WaitInv
  <2>3. ~(v.dir = "read" /\ state[v.who] # "error")
    <3>. SUFFICES ASSUME v.dir = "read", state[v.who] # "error" PROVE FALSE
      OBVIOUS
    <3>1. owner[v.who] = op.id
      BY <2>2 DEF WaitSound
    <3>2. v.who = w.who
      BY <1>1, <1>2, <2>2, <3>1, OneContext
    <3>. QED BY <2>1, <3>2 DEF WaitInv, Alone
  <2>. QED BY <2>2, <2>3 DEF WaitSound
<1>4. Alone(waits')
  BY AloneTaken DEF WaitInv, Taken
<1>5. CtxStates'
  BY DEF CtxStates, Taken
<1>. QED BY <1>3, <1>4, <1>5 DEF WaitInv

\* Waits that are left, or become ready, are as sound.
LEMMA FewerWaits ==
    ASSUME CtxStates, WaitInv, UNCHANGED <<ctx, owner, state>>, op'.id = op.id, op'.kind = op.kind,
           \A v \in waits' : \E x \in waits : Left(v, x), Alone(waits')
    PROVE  CtxStates' /\ WaitInv'
<1>1. ASSUME NEW v \in waits' PROVE WaitSound(v)' /\ v \in WaitRec
  <2>1. PICK x \in waits : Left(v, x)
    OBVIOUS
  <2>. QED BY <2>1 DEF WaitInv, WaitSound, Left
<1>. QED BY <1>1 DEF CtxStates, WaitInv

\* Between two operations, and while one waits for its timer, no wait depends
\* on the operation.
LEMMA IdleWaits ==
    ASSUME CtxStates, WaitInv, op.kind \in {"none", "joining"}, UNCHANGED <<ctx, owner, state, waits>>
    PROVE  CtxStates' /\ WaitInv'
<1>1. ASSUME NEW v \in waits' PROVE WaitSound(v)'
  BY DEF WaitInv, WaitSound
<1>. QED BY <1>1 DEF CtxStates, WaitInv

-----------------------------------------------------------------------------
(* The invariant. *)

RequestInv == OpInv /\ Owners /\ Connecting /\ CtxStates /\ WaitInv /\ Settled

\* The connection is got in the first operation, before there is a context.
LEMMA ConnectingKept ==
    ASSUME OpInv, Owners, Connecting, Treats, ctx' = ctx \/ op'.kind # "connect"
    PROVE  Connecting'
<1>0. OpTypes /\ Phase(op, timer, rendez)
  BY DEF OpInv
<1>1. ASSUME NEW o \in Op, NEW ec, Answered(o, ec) \/ LeftToTimer(o, ec) PROVE op'.kind \notin {"connect", "oids"}
  <2>1. op' = NoOp \/ op' = [o EXCEPT !.kind = "joining"]
    BY <1>1 DEF Answered, LeftToTimer
  <2>. QED BY <2>1, OpFields
<1>2. CASE op' = op
  BY <1>2 DEF Connecting
<1>3. ASSUME NEW ec, Ends(ec) PROVE Connecting'
  BY <1>0, <1>1, <1>3 DEF Ends, Connecting, OpTypes
<1>4. ASSUME NEW o \in Op, Starts(o) PROVE Connecting'
  <2>1. CASE op' = o /\ o.kind = "connect"
    <3>1. o.id = 1 /\ IsNext(1) /\ op = NoOp
      BY <1>4, <2>1 DEF Starts
    <3>2. ctx + 1 <= 1 /\ ctx \in Nat
      BY <3>1, NextIsLater DEF Owners
    <3>3. ctx = 0
      BY <3>2
    <3>. QED BY <2>1, <3>1, <3>3 DEF Connecting
  <2>2. CASE op' = o /\ o.kind = "query"
    BY <2>2 DEF Connecting
  <2>. QED BY <1>1, <1>4, <2>1, <2>2 DEF Starts, Connecting
<1>5. CASE GoesOn
  <2>1. op.kind = "connect" /\ op' = [op EXCEPT !.kind = "oids"] /\ op.id = 1
    BY <1>5 DEF GoesOn, Connecting
  <2>2. op'.kind = "oids" /\ op'.id = 1
    BY <1>0, <2>1, OpFields DEF OpTypes
  <2>. QED BY <2>2 DEF Connecting
<1>6. CASE Deadline
  <2>1. op' = op \/ op' = NoOp
    BY <1>6 DEF Deadline
  <2>. QED BY <1>2, <2>1, OpFields DEF Connecting
<1>. QED BY <1>2, <1>3, <1>4, <1>5, <1>6 DEF Treats, EndsLate

\* What a step does to the connection, with what it does to the operation.
Affects ==
    \/ Calm
    \/ Running(op', timer', rendez') /\ op'.kind # "connect"
    \/ op'.kind = "connect" /\ ~pq'.active

\* A step that starts no request.
LEMMA SameContexts ==
    ASSUME RequestInv, Treats, late => late', Affects, UNCHANGED <<ctx, owner>>, CtxStates' /\ WaitInv'
    PROVE  RequestInv'
<1>1. OpInv /\ Owners /\ Connecting /\ Settled
  BY DEF RequestInv
<1>2. OpInv'
  BY <1>1, TreatsInv
<1>3. Owners'
  BY <1>1, <1>2, OwnersKept
<1>4. Connecting'
  BY <1>1, ConnectingKept
<1>5. Settled'
  BY <1>1, <1>2, SettledInv DEF Affects
<1>. QED BY <1>2, <1>3, <1>4, <1>5 DEF RequestInv

\* A step that starts one, in a new context.
LEMMA NewContext ==
    ASSUME RequestInv, Treats, late => late', Affects, NEW i \in Ops, ctx + 1 <= i, \A k \in 1..ctx : owner[k] < i,
           op'.kind # "connect", op'.id = i \/ (OpInv' => calls'[i] > 0),
           ctx' = ctx + 1, owner' = [owner EXCEPT ![ctx + 1] = i], CtxStates' /\ WaitInv'
    PROVE  RequestInv'
<1>1. OpInv /\ Owners /\ Connecting /\ Settled
  BY DEF RequestInv
<1>2. OpInv'
  BY <1>1, TreatsInv
<1>3. Owners'
  BY <1>1, <1>2, OwnersJoined
<1>4. Connecting'
  BY <1>1, ConnectingKept
<1>5. Settled'
  BY <1>1, <1>2, SettledInv DEF Affects
<1>. QED BY <1>2, <1>3, <1>4, <1>5 DEF RequestInv

-----------------------------------------------------------------------------
(* The handlers. *)

\* An operation that is neither over nor waits for its timer runs.
LEMMA IsRunning ==
    ASSUME OpInv, op.kind \in {"connect", "oids", "query"}
    PROVE  Running(op, timer, rendez) /\ op \in Op /\ op.id \in Ops /\ rendez \in Rendezvous /\ op # NoOp
  BY OpFields DEF OpInv, OpTypes, Phase, Resting, Running, Waiting

\* Its completion handler ends it.
LEMMA FinishEnds ==
    ASSUME OpInv, op.kind \in {"connect", "oids", "query"}, NEW ec \in {"ok", "failed", "aborted"},
           Finish(op.id, ec, op, timer, rendez), ec = "ok" => Quiet'
    PROVE  Treats /\ op'.kind \in {"none", "joining"} /\ (op'.id = op.id \/ op' = NoOp)
<1>1. Running(op, timer, rendez) /\ op \in Op /\ rendez \in Rendezvous /\ ec \in Errors
  BY IsRunning DEF Errors
<1>2. Ends(ec)
  BY <1>1, FinishRunning DEF Ends
<1>3. op' = NoOp \/ op' = [op EXCEPT !.kind = "joining"]
  BY <1>2 DEF Ends, Answered, LeftToTimer
<1>4. Treats
  BY <1>2 DEF Treats
<1>5. CASE op' = NoOp
  BY <1>4, <1>5, OpFields
<1>6. CASE op' = [op EXCEPT !.kind = "joining"]
  <2>. DEFINE p == [op EXCEPT !.kind = "joining"]
  <2>1. p.id = op.id /\ p.kind = "joining"
    BY <1>1, OpFields
  <2>2. op' = p
    BY <1>6
  <2>. HIDE DEF p
  <2>. QED BY <1>4, <2>1, <2>2
<1>. QED BY <1>3, <1>5, <1>6

\* A request fails, in its send or its receive operation.
LEMMA FailsStep ==
    ASSUME RequestInv, NEW w \in waits, w.who # 0, NEW ec \in {"failed", "aborted"}, Calm,
           RequestFails(w.who, ec, Taken(w), op, timer), late => late',
           \/ w.dir = "read" /\ state[w.who] # "error"
           \/ late' = (late \/ Over(owner[w.who]))
    PROVE  RequestInv'
<1>0. OpInv /\ Owners /\ Connecting /\ CtxStates /\ WaitInv
  BY DEF RequestInv
<1>1. /\ state' = ErrorState(w.who) /\ waits' = Cancelled(Taken(w)) /\ UNCHANGED <<ctx, owner>>
      /\ Finish(owner[w.who], ec, op, timer, rendez)
  BY DEF RequestFails
<1>2. w.who \in 1..ctx /\ owner[w.who] \in Ops /\ (owner[w.who] = op.id \/ calls[owner[w.who]] > 0)
  BY <1>0, OfContext DEF Owners
<1>3. ctx # 0
  BY <1>2
<1>4. CASE owner[w.who] = op.id /\ op.kind # "joining"
  <2>1. op.kind \in {"connect", "oids", "query"}
    BY <1>0, <1>2, <1>4, Numbers, OpFields DEF OpInv, Phase, Resting, Running, Waiting
  <2>2. Treats
    BY <1>0, <1>1, <1>4, <2>1, FinishEnds
  <2>3. CtxStates' /\ WaitInv'
    BY <1>0, <1>1, <1>4, FailedWaits
  <2>4. Affects
    BY DEF Affects
  <2>. QED BY <1>1, <2>2, <2>3, <2>4, SameContexts
<1>5. CASE ~(owner[w.who] = op.id /\ op.kind # "joining")
  <2>1. UserCalled(owner[w.who], ec) /\ op' = op /\ timer' = timer /\ rendez' = rendez
    BY <1>1, <1>5 DEF Finish
  <2>2. ~(w.dir = "read" /\ state[w.who] # "error")
    <3>. SUFFICES ASSUME w.dir = "read", state[w.who] # "error" PROVE FALSE
      OBVIOUS
    <3>1. owner[w.who] = op.id /\ op.kind \in {"query", "oids"}
      BY <1>0 DEF WaitInv, WaitSound
    <3>. QED BY <1>5, <3>1
  <2>3. late'
    BY <1>5, <2>2 DEF Over
  <2>4. Treats
    BY <1>2, <2>1, <2>3 DEF EndsLate, Treats
  <2>5. CtxStates' /\ WaitInv'
    BY <1>0, <1>1, <2>1, FailedWaits
  <2>6. Affects
    BY DEF Affects
  <2>. QED BY <1>1, <2>4, <2>5, <2>6, SameContexts
<1>. QED BY <1>4, <1>5

\* A request has its result, and the operation ends with it.
LEMMA SucceedsStep ==
    ASSUME RequestInv, NEW w \in waits, w.who # 0, w.dir = "read", state[w.who] # "error", Quiet',
           Calm, RequestSucceeds(w.who, Taken(w), op), late' = late
    PROVE  RequestInv'
<1>0. OpInv /\ Owners /\ Connecting /\ CtxStates /\ WaitInv
  BY DEF RequestInv
<1>1. owner[w.who] = op.id /\ op.kind \in {"query", "oids"}
  BY <1>0 DEF WaitInv, WaitSound
<1>2. PICK ec \in {"ok", "failed"} : Finish(op.id, ec, op, timer, rendez)
  BY <1>1 DEF RequestSucceeds, set_oid_map
<1>3. waits' = Taken(w) /\ UNCHANGED <<ctx, state, owner>>
  BY DEF RequestSucceeds, ctxVars
<1>4. Treats
  BY <1>0, <1>1, <1>2, FinishEnds
<1>5. CtxStates' /\ WaitInv'
  BY <1>0, <1>3, SucceededWaits
<1>. QED BY <1>3, <1>4, <1>5, SameContexts DEF Affects

\* A wait is left alone, or becomes ready.
LEMMA LeftItself == \A v \in WaitRec : Left(v, v)
  BY DEF Left

\* A step that only takes waits away.
LEMMA TakesWaits ==
    ASSUME RequestInv, UNCHANGED <<op, timer, rendez, calls, outcome, ctx, owner, state>>, late => late', Calm,
           waits' \subseteq waits \/ waits' = Cancelled(waits)
    PROVE  RequestInv'
<1>0. CtxStates /\ WaitInv
  BY DEF RequestInv
<1>1. (\A v \in waits' : \E x \in waits : Left(v, x)) /\ Alone(waits')
  <2>1. CASE waits' \subseteq waits
    BY <1>0, <2>1, AloneTaken, LeftItself DEF WaitInv, CtxStates
  <2>2. CASE waits' = Cancelled(waits)
    BY <1>0, <2>2, CancelledIs DEF WaitInv, CtxStates
  <2>. QED BY <2>1, <2>2
<1>2. CtxStates' /\ WaitInv'
  BY <1>0, <1>1, FewerWaits
<1>3. Treats
  BY DEF Treats
<1>. QED BY <1>2, <1>3, SameContexts DEF Affects

\* async_send_query_params_op::operator().
LEMMA RunSendInv ==
    ASSUME RequestInv, pq \in Pq, NEW w \in waits, run_send(w)
    PROVE  RequestInv' /\ pq' \in Pq
<1>0. OpInv /\ Owners /\ Connecting /\ CtxStates /\ WaitInv
  BY DEF RequestInv
<1>. DEFINE k == w.who
<1>1. k # 0 /\ w.dir = "write" /\ w.st # "waiting" /\ late' = (late \/ (state[k] = "send_in_progress" /\ Over(owner[k])))
  BY DEF run_send
<1>2. k \in 1..ctx /\ k \in Contexts /\ \A v \in waits : v.who # 0 /\ v.who \in 1..ctx /\ v.who \in Contexts
  BY <1>0, <1>1, OfContext
<1>3. CASE /\ state[k] # "send_in_progress" /\ waits' = Taken(w)
           /\ UNCHANGED <<pq, opVars, ctxVars>>
  <2>1. UNCHANGED <<pq, op, timer, rendez, calls, outcome, ctx, owner, state>>
    BY <1>3 DEF opVars, ctxVars
  <2>2. late => late'
    BY <1>1
  <2>3. waits' \subseteq waits
    BY <1>3 DEF Taken
  <2>. QED BY <2>1, <2>2, <2>3, TakesWaits DEF Calm, Quiet
<1>4. CASE /\ state[k] = "send_in_progress"
           /\ RequestFails(k, IF w.st = "aborted" THEN "aborted" ELSE "failed", Taken(w), op, timer)
           /\ UNCHANGED <<pq, drain>>
  <2>1. late' = (late \/ Over(owner[k]))
    BY <1>1, <1>4
  <2>. DEFINE ec == IF w.st = "aborted" THEN "aborted" ELSE "failed"
  <2>2. ec \in {"failed", "aborted"} /\ RequestFails(k, ec, Taken(w), op, timer)
    BY <1>4
  <2>. HIDE DEF ec
  <2>3. Calm /\ (late => late')
    BY <1>1, <1>4 DEF Calm, Quiet
  <2>. QED BY <1>1, <1>4, <2>1, <2>2, <2>3, FailsStep
<1>5. CASE /\ state[k] = "send_in_progress" /\ w.st = "ready" /\ pq.link = "up"
           /\ \E left \in {pq.out, FALSE} :
               /\ pq' = [pq EXCEPT !.out = left]
               /\ state' = [state EXCEPT ![k] = IF left THEN @ ELSE "send_finish"]
               /\ waits' = Taken(w) \cup (IF left THEN {Wait("write", k)} ELSE {})
           /\ UNCHANGED <<opVars, ctx, owner>>
  <2>1. PICK left \in {pq.out, FALSE} :
               /\ pq' = [pq EXCEPT !.out = left]
               /\ state' = [state EXCEPT ![k] = IF left THEN @ ELSE "send_finish"]
               /\ waits' = Taken(w) \cup (IF left THEN {Wait("write", k)} ELSE {})
    BY <1>5
  <2>2. UNCHANGED <<op, timer, rendez, calls, outcome, ctx, owner>>
    BY <1>5 DEF opVars
  <2>3. pq' \in Pq /\ pq'.active = pq.active /\ pq'.link = pq.link
    BY <2>1 DEF Pq
  <2>4. late => late'
    BY <1>1
  <2>5. /\ state'[k] # "error" /\ \A j \in Contexts : j # k => state'[j] = state[j]
        /\ state' \in [Contexts -> {"error", "send_finish", "send_in_progress"}]
    BY <1>0, <1>2, <1>5, <2>1 DEF CtxStates
  <2>6. Wait("write", k) \in WaitRec /\ Wait("write", k).dir = "write" /\ Wait("write", k).who = k /\ k \in Nat /\ ctx \in Nat
    BY <1>0, <1>2, WaitFields, Numbers DEF CtxStates, Contexts, Owners
  <2>7. ASSUME NEW v \in waits' PROVE (v \in waits /\ v # w) \/ v = Wait("write", k)
    BY <2>1 DEF Taken
  <2>8. ASSUME NEW v \in waits' PROVE WaitSound(v)' /\ v \in WaitRec
    <3>1. CASE v \in waits
      <4>1. WaitSound(v) /\ v \in WaitRec /\ v.who \in Contexts
        BY <1>0, <1>2, <3>1 DEF WaitInv, CtxStates
      <4>2. state'[v.who] = state[v.who] \/ (v.who = k /\ state[k] # "error" /\ state'[k] # "error")
        BY <1>5, <2>5, <4>1
      <4>. QED BY <2>2, <4>1, <4>2 DEF WaitSound
    <3>2. CASE v = Wait("write", k)
      <4>1. k \in 0..ctx
        BY <1>2, <2>6
      <4>. QED BY <1>1, <2>2, <2>5, <2>6, <3>2, <4>1 DEF WaitSound
    <3>. QED BY <2>7, <3>1, <3>2
  <2>9. Alone(waits')
    BY <1>0, <1>1, <1>2, <2>6, <2>7 DEF Alone, WaitInv
  <2>10. \A j \in Contexts : j > ctx => state'[j] = "send_in_progress"
    <3>1. \A j \in Contexts : j > ctx => j # k
      BY <1>2, <2>6
    <3>. QED BY <1>0, <2>5, <3>1 DEF CtxStates
  <2>11. CtxStates' /\ WaitInv'
    BY <2>2, <2>5, <2>8, <2>9, <2>10 DEF CtxStates, WaitInv
  <2>12. Treats /\ Affects
    BY <2>2, <2>3 DEF Treats, Affects, Calm, Quiet
  <2>. QED BY <2>2, <2>3, <2>4, <2>11, <2>12, SameContexts
<1>6. pq' = pq \/ pq' \in Pq
  BY <1>3, <1>4, <1>5 DEF run_send, Pq
<1>. QED BY <1>3, <1>4, <1>5, <1>6 DEF run_send

\* What PQconsumeInput leaves of the connection.
LEMMA ConsumedIs ==
    ASSUME pq \in Pq
    PROVE  /\ Consumed \in Pq /\ Consumed.got \in 0..2
           /\ \A left \in BOOLEAN, active \in BOOLEAN :
                 /\ [Consumed EXCEPT !.out = left, !.active = active] \in Pq
                 /\ [Consumed EXCEPT !.out = left, !.active = active].active = active
<1>1. pq.got \in 0..2 /\ (CASE pq.inp = "part" -> 1 [] pq.inp = "all" -> 2 [] OTHER -> pq.got) \in 0..2
  BY DEF Pq
<1>. DEFINE g == CASE pq.inp = "part" -> 1 [] pq.inp = "all" -> 2 [] OTHER -> pq.got
<1>2. Consumed = [pq EXCEPT !.inp = "nothing", !.got = g] /\ g \in 0..2
  BY <1>1 DEF Consumed
<1>. HIDE DEF g
<1>3. Consumed \in Pq /\ Consumed.got = g
  BY <1>2 DEF Pq
<1>. QED BY <1>2, <1>3 DEF Pq

\* async_get_result_op::operator().
LEMMA RunReceiveInv ==
    ASSUME RequestInv, pq \in Pq, NEW w \in waits, run_receive(w)
    PROVE  RequestInv' /\ pq' \in Pq
<1>0. OpInv /\ Owners /\ Connecting /\ CtxStates /\ WaitInv
  BY DEF RequestInv
<1>. DEFINE k == w.who
<1>1. k # 0 /\ w.dir = "read" /\ w.st # "waiting" /\ late' = late
  BY DEF run_receive
<1>2. k \in 1..ctx /\ k \in Contexts /\ \A v \in waits : v.who # 0 /\ v.who \in 1..ctx /\ v.who \in Contexts
  BY <1>0, <1>1, OfContext
<1>3. ASSUME state[k] # "error" PROVE owner[k] = op.id /\ op.kind \in {"query", "oids"}
  BY <1>0, <1>1, <1>3 DEF WaitInv, WaitSound
<1>4. CASE /\ state[k] = "error" /\ waits' = Taken(w)
           /\ UNCHANGED <<pq, opVars, ctxVars>>
  <2>1. UNCHANGED <<pq, op, timer, rendez, calls, outcome, ctx, owner, state>>
    BY <1>4 DEF opVars, ctxVars
  <2>2. waits' \subseteq waits
    BY <1>4 DEF Taken
  <2>. QED BY <1>1, <2>1, <2>2, TakesWaits DEF Calm, Quiet
<1>5. ASSUME state[k] # "error", Calm, NEW ec \in {"failed", "aborted"},
             RequestFails(k, ec, Taken(w), op, timer)
      PROVE  RequestInv'
  BY <1>1, <1>5, FailsStep
<1>6. ASSUME state[k] # "error", Calm, Quiet', HandleResult(k, w) PROVE RequestInv'
  <2>1. CASE RequestSucceeds(k, Taken(w), op)
    BY <1>1, <1>6, <2>1, SucceedsStep
  <2>. QED BY <1>5, <1>6, <2>1 DEF HandleResult
<1>7. CASE /\ state[k] # "error" /\ w.st = "aborted"
           /\ RequestFails(k, "aborted", Taken(w), op, timer)
           /\ UNCHANGED <<pq, drain>>
  <2>1. Calm
    BY <1>7 DEF Calm, Quiet
  <2>. QED BY <1>5, <1>7, <2>1
<1>8. CASE /\ state[k] # "error" /\ ConsumeFails
           /\ IF drain THEN HandleResult(k, w) ELSE RequestFails(k, "failed", Taken(w), op, timer)
           /\ UNCHANGED <<pq, drain>>
  <2>1. Calm /\ Quiet'
    BY <1>8 DEF Calm, Quiet, ConsumeFails
  <2>. QED BY <1>5, <1>6, <1>8, <2>1
<1>9. ASSUME state[k] # "error", NEW left \in {pq.out, FALSE},
             pq' = [Consumed EXCEPT !.out = left, !.active = (Consumed.got # 2)],
             IF Arrived(drain, Consumed.got) /\ Ended(Consumed.got) THEN HandleResult(k, w)
             ELSE /\ waits' = Taken(w) \cup {Wait("read", k)}
                  /\ UNCHANGED <<op, timer, rendez, calls, outcome, ctxVars>>
      PROVE  RequestInv' /\ pq' \in Pq
  <2>1. left \in BOOLEAN
    BY DEF Pq
  <2>2. pq' \in Pq /\ pq'.active = (Consumed.got # 2)
    BY <1>9, <2>1, ConsumedIs
  <2>3. CASE Arrived(drain, Consumed.got) /\ Ended(Consumed.got)
    <3>1. ~pq'.active
      BY <2>2, <2>3 DEF Ended
    <3>. QED BY <1>6, <1>9, <2>2, <2>3, <3>1 DEF Calm, Quiet
  <2>4. CASE ~(Arrived(drain, Consumed.got) /\ Ended(Consumed.got))
    <3>1. waits' = Taken(w) \cup {Wait("read", k)} /\ UNCHANGED <<op, timer, rendez, calls, outcome, ctx, owner, state>>
      BY <1>9, <2>4 DEF ctxVars
    <3>2. Wait("read", k) \in WaitRec /\ Wait("read", k).dir = "read" /\ Wait("read", k).who = k
      BY <1>2, WaitFields DEF Contexts
    <3>3. \A v \in waits' : (v \in waits /\ v # w) \/ v = Wait("read", k)
      BY <3>1 DEF Taken
    <3>4. ASSUME NEW v \in waits' PROVE WaitSound(v)' /\ v \in WaitRec
      <4>1. CASE v \in waits
        BY <1>0, <3>1, <4>1 DEF WaitInv, CtxStates, WaitSound
      <4>2. CASE v = Wait("read", k)
        <5>1. k \in 0..ctx
          BY <1>2
        <5>. QED BY <1>1, <1>3, <1>9, <3>1, <3>2, <4>2, <5>1 DEF WaitSound
      <4>. QED BY <3>3, <4>1, <4>2
    <3>5. Alone(waits')
      <4>1. ASSUME NEW v \in waits, v # w, v.who = k, v.dir = "read" PROVE FALSE
        BY <1>0, <1>1, <4>1 DEF WaitInv, Alone
      <4>. QED BY <1>0, <1>1, <1>2, <3>2, <3>3, <4>1 DEF Alone, WaitInv
    <3>6. CtxStates' /\ WaitInv'
      BY <1>0, <3>1, <3>4, <3>5 DEF CtxStates, WaitInv
    <3>7. Running(op', timer', rendez') /\ op'.kind # "connect"
      <4>1. Running(op, timer, rendez) /\ op.kind # "connect"
        BY <1>0, <1>3, <1>9, IsRunning
      <4>. QED BY <3>1, <4>1
    <3>8. Treats /\ Affects
      BY <3>1, <3>7 DEF Treats, Affects
    <3>. QED BY <1>1, <2>2, <3>1, <3>6, <3>8, SameContexts
  <2>. QED BY <2>3, <2>4
<1>10. CASE /\ state[k] # "error" /\ w.st = "ready" /\ ~ConsumeFails
            /\ \E left \in {pq.out, FALSE} :
                LET got == Consumed.got
                    over == Arrived(drain, got) /\ Ended(got)
                IN /\ pq' = [Consumed EXCEPT !.out = left, !.active = (got # 2)]
                   /\ drain' = (drain \/ Arrived(drain, got))
                   /\ IF over THEN HandleResult(k, w)
                      ELSE /\ waits' = Taken(w) \cup {Wait("read", k)}
                           /\ UNCHANGED <<op, timer, rendez, calls, outcome, ctxVars>>
  BY <1>9, <1>10
<1>. QED BY <1>4, <1>7, <1>8, <1>10 DEF run_receive

\* The completion handler of an operation that fails as it starts.
LEMMA FinishStarts ==
    ASSUME OpInv, op = NoOp, NEW i, IsNext(i), NEW kind \in {"connect", "query"}, NEW timed \in BOOLEAN,
           kind = "connect" => i = 1,
           Finish(i, "failed", New(i, kind, timed), IF timed THEN "armed" ELSE "none", rendez)
    PROVE  Starts(New(i, kind, timed)) /\ (op'.id = i \/ calls'[i] > 0) /\ op'.kind \in {"none", "joining"}
<1>. DEFINE o == New(i, kind, timed)
            t == IF timed THEN "armed" ELSE "none"
<1>1. o \in Op /\ o.id = i /\ o.kind = kind /\ o.timed = timed /\ i \in Ops
  BY OpFields DEF New, IsNext
<1>2. rendez \in Rendezvous /\ rendez.first_call = 2
  BY OpFields, Numbers DEF OpInv, OpTypes, Phase, Resting, Running, Waiting
<1>3. Running(o, t, rendez)
  BY <1>1, <1>2 DEF Running
<1>4. Finish(o.id, "failed", o, t, rendez)
  BY <1>1
<1>. HIDE DEF o, t
<1>5. "failed" \in Errors
  BY DEF Errors
<1>6. Answered(o, "failed") \/ LeftToTimer(o, "failed")
  BY <1>1, <1>2, <1>3, <1>4, <1>5, FinishRunning
<1>7. Starts(o)
  BY <1>1, <1>6 DEF Starts
<1>8. CASE Answered(o, "failed")
  <2>1. PICK x \in Errors : UserCalled(i, x)
    BY <1>1, <1>5, <1>8 DEF Answered, Errors
  <2>2. calls'[i] = calls[i] + 1 /\ calls[i] \in Nat
    BY <1>1, <2>1, Called DEF OpInv, OpTypes
  <2>. QED BY <1>7, <1>8, <2>2, OpFields DEF Answered, o
<1>9. CASE LeftToTimer(o, "failed")
  <2>1. op' = [o EXCEPT !.kind = "joining"]
    BY <1>9 DEF LeftToTimer
  <2>2. op'.id = i /\ op'.kind = "joining"
    BY <1>1, <2>1, OpFields
  <2>. QED BY <1>7, <2>2 DEF o
<1>. QED BY <1>6, <1>8, <1>9

\* An operation that starts.
LEMMA NewRuns ==
    ASSUME OpInv, op = NoOp, NEW i \in Ops, NEW kind \in {"connect", "query"}, NEW timed \in BOOLEAN,
           op' = New(i, kind, timed), timer' = (IF timed THEN "armed" ELSE "none"), rendez' = rendez
    PROVE  Running(op', timer', rendez') /\ op'.id = i /\ op'.kind = kind /\ New(i, kind, timed) \in Op
<1>1. New(i, kind, timed) \in Op /\ op'.id = i /\ op'.kind = kind /\ op'.timed = timed
  BY OpFields DEF New
<1>2. rendez.first_call = 2
  BY OpFields, Numbers DEF OpInv, OpTypes, Phase, Resting, Running, Waiting
<1>. QED BY <1>1, <1>2 DEF Running

\* async_connect_op::perform.
LEMMA ConnectInv ==
    ASSUME RequestInv, pq \in Pq, NEW timed \in BOOLEAN, connect(timed)
    PROVE  RequestInv' /\ pq' \in Pq
<1>0. OpInv /\ Owners /\ Connecting /\ CtxStates /\ WaitInv /\ Settled
  BY DEF RequestInv
<1>. DEFINE o == [id |-> 1, kind |-> "connect", timed |-> timed]
            t == IF timed THEN "armed" ELSE "none"
<1>1. op = NoOp /\ calls[1] = 0 /\ UNCHANGED <<ctx, state, owner>> /\ late' = late /\ o = New(1, "connect", timed)
  BY DEF connect, ctxVars, New
<1>2. IsNext(1)
  BY <1>1, Numbers DEF IsNext
<1>3. ctx = 0 /\ ~pq.active /\ op.kind = "none"
  <2>1. ctx + 1 <= 1 /\ ctx \in Nat
    BY <1>0, <1>1, <1>2, NextIsLater DEF Owners
  <2>. QED BY <1>0, <1>1, <2>1, OpFields DEF Settled
<1>4. CASE Finish(1, "failed", o, t, rendez) /\ UNCHANGED <<pq, waits>>
  <2>1. Starts(New(1, "connect", timed)) /\ New(1, "connect", timed) \in Op
    BY <1>0, <1>1, <1>2, <1>4, FinishStarts DEF Starts
  <2>2. Treats /\ Affects
    BY <1>4, <2>1 DEF Treats, Affects, Calm, Quiet
  <2>3. CtxStates' /\ WaitInv'
    BY <1>0, <1>1, <1>3, <1>4, IdleWaits
  <2>. QED BY <1>1, <1>4, <2>2, <2>3, SameContexts
<1>5. CASE /\ op' = o /\ timer' = t
           /\ pq' = [pq EXCEPT !.link = "starting"]
           /\ waits' = {Wait("write", 0)}
           /\ UNCHANGED <<rendez, calls, outcome>>
  <2>1. New(1, "connect", timed) \in Op /\ op'.id = 1 /\ op'.kind = "connect"
    BY <1>0, <1>1, <1>5, NewRuns, Numbers
  <2>2. Starts(New(1, "connect", timed))
    BY <1>1, <1>2, <1>5, <2>1 DEF Starts, New
  <2>3. pq' \in Pq /\ ~pq'.active
    BY <1>3, <1>5 DEF Pq
  <2>4. Treats /\ Affects
    BY <2>1, <2>2, <2>3 DEF Treats, Affects
  <2>5. Wait("write", 0) \in WaitRec /\ Wait("write", 0).dir = "write" /\ Wait("write", 0).who = 0
    BY WaitFields, Numbers
  <2>6. WaitInv'
    BY <1>1, <1>3, <1>5, <2>1, <2>5 DEF WaitInv, WaitSound, Alone
  <2>7. CtxStates'
    BY <1>0, <1>1, <1>5, <2>5 DEF CtxStates
  <2>. QED BY <1>1, <2>3, <2>4, <2>6, <2>7, SameContexts
<1>. QED BY <1>4, <1>5 DEF connect

\* The wait of the connect operation is the only one.
LEMMA OnlyWait ==
    ASSUME OpInv, Owners, Connecting, WaitInv, NEW w \in waits, w.who = 0
    PROVE  /\ op.kind = "connect" /\ ctx = 0 /\ op.id = 1 /\ Taken(w) = {}
<1>1. op.kind = "connect" /\ ctx = 0 /\ op.id = 1
  BY DEF WaitInv, WaitSound, Connecting
<1>2. \A v \in waits : v.who = 0
  <2>1. \A v \in waits : v.who \in 0..ctx
    BY DEF WaitInv, WaitSound
  <2>. QED BY <1>1, <2>1
<1>3. \A v \in waits : v = w
  BY <1>2 DEF WaitInv, Alone
<1>. QED BY <1>1, <1>3 DEF Taken

\* async_connect_op::operator().
LEMMA RunConnectInv ==
    ASSUME RequestInv, pq \in Pq, NEW w \in waits, run_connect(w)
    PROVE  RequestInv' /\ pq' \in Pq
<1>0. OpInv /\ Owners /\ Connecting /\ CtxStates /\ WaitInv /\ Settled
  BY DEF RequestInv
<1>1. w.who = 0 /\ late' = late
  BY DEF run_connect
<1>2. op.kind = "connect" /\ ctx = 0 /\ op.id = 1 /\ Taken(w) = {} /\ ~pq.active
  BY <1>0, <1>1, OnlyWait DEF Settled
<1>3. Running(op, timer, rendez)
  BY <1>0, <1>2, IsRunning
<1>4. ASSUME NEW ec \in {"ok", "failed", "aborted"}, Finish(1, ec, op, timer, rendez), waits' = Taken(w),
             UNCHANGED ctxVars, pq'.active = pq.active
      PROVE  RequestInv'
  <2>1. Quiet' /\ Calm
    BY <1>2, <1>4 DEF Quiet, Calm
  <2>2. Treats
    BY <1>0, <1>2, <1>4, <2>1, FinishEnds
  <2>3. UNCHANGED <<ctx, owner, state>>
    BY <1>4 DEF ctxVars
  <2>4. CtxStates' /\ WaitInv'
    BY <1>0, <1>2, <1>4, <2>3 DEF CtxStates, WaitInv, Alone
  <2>. QED BY <1>1, <2>1, <2>2, <2>3, <2>4, SameContexts DEF Affects
<1>5. CASE /\ waits' = Taken(w)
           /\ Finish(1, IF w.st = "aborted" THEN "aborted" ELSE "failed", op, timer, rendez)
           /\ UNCHANGED <<pq, ctxVars, drain>>
  <2>. DEFINE ec == IF w.st = "aborted" THEN "aborted" ELSE "failed"
  <2>1. ec \in {"ok", "failed", "aborted"} /\ Finish(1, ec, op, timer, rendez)
    BY <1>5
  <2>. HIDE DEF ec
  <2>. QED BY <1>4, <1>5, <2>1
<1>6. CASE /\ \E dir \in {"read", "write"} : waits' = Taken(w) \cup {Wait(dir, 0)}
           /\ UNCHANGED <<pq, opVars, ctxVars>>
  <2>1. PICK dir \in {"read", "write"} : waits' = {Wait(dir, 0)}
    BY <1>2, <1>6
  <2>2. UNCHANGED <<pq, op, timer, rendez, calls, outcome, ctx, owner, state>>
    BY <1>6 DEF opVars, ctxVars
  <2>3. Wait(dir, 0) \in WaitRec /\ Wait(dir, 0).who = 0
    BY WaitFields, Numbers
  <2>4. CtxStates' /\ WaitInv'
    BY <1>0, <1>2, <2>1, <2>2, <2>3 DEF CtxStates, WaitInv, WaitSound, Alone
  <2>5. Treats /\ Affects
    BY <2>2 DEF Treats, Affects, Calm, Quiet
  <2>. QED BY <1>1, <2>2, <2>4, <2>5, SameContexts
<1>7. CASE /\ pq' = [pq EXCEPT !.link = "up"]
           /\ waits' = Taken(w)
           /\ Finish(1, "ok", op, timer, rendez)
           /\ UNCHANGED <<ctxVars, drain>>
  <2>1. pq' \in Pq /\ pq'.active = pq.active
    BY <1>7 DEF Pq
  <2>. QED BY <1>4, <1>7, <2>1
<1>. QED BY <1>5, <1>6, <1>7 DEF run_connect

\* request_oid_map_handler.
LEMMA RunConnectOidsInv ==
    ASSUME RequestInv, pq \in Pq, NEW w \in waits, run_connect_oids(w)
    PROVE  RequestInv' /\ pq' \in Pq
<1>0. OpInv /\ Owners /\ Connecting /\ CtxStates /\ WaitInv /\ Settled
  BY DEF RequestInv
<1>1. w.who = 0 /\ late' = late
  BY DEF run_connect_oids
<1>2. op.kind = "connect" /\ ctx = 0 /\ op.id = 1 /\ Taken(w) = {} /\ ~pq.active
  BY <1>0, <1>1, OnlyWait DEF Settled
<1>3. ctx' = ctx + 1 /\ ctx' = 1 /\ owner' = [owner EXCEPT ![ctx + 1] = 1] /\ owner'[1] = 1 /\ 1 \in Contexts
  BY <1>0, <1>2, Numbers DEF run_connect_oids, Owners, Contexts
<1>4. 1 \in Ops /\ ctx + 1 <= 1 /\ \A k \in 1..ctx : owner[k] < 1
  BY <1>2, Numbers
<1>5. ASSUME NEW s \in {"error", "send_finish"}, state' = [state EXCEPT ![1] = s]
      PROVE  /\ state' \in [Contexts -> {"error", "send_finish", "send_in_progress"}] /\ state'[1] = s
             /\ \A k \in Contexts : k > ctx' => state'[k] = "send_in_progress"
  BY <1>0, <1>2, <1>3, <1>5 DEF CtxStates, Contexts
<1>6. CASE /\ pq' = [pq EXCEPT !.link = "up"] /\ state' = [state EXCEPT ![ctx + 1] = "error"]
           /\ waits' = Cancelled(Taken(w))
           /\ Finish(1, "failed", op, timer, rendez)
  <2>1. pq' \in Pq /\ ~pq'.active
    BY <1>2, <1>6 DEF Pq
  <2>2. Quiet' /\ Affects
    BY <2>1 DEF Quiet, Affects, Calm
  <2>3. Treats /\ op'.kind # "connect" /\ (op'.id = 1 \/ op' = NoOp)
    BY <1>0, <1>2, <1>6, <2>2, FinishEnds
  <2>4. waits' = {}
    BY <1>2, <1>6 DEF Cancelled
  <2>5. CtxStates' /\ WaitInv'
    BY <1>2, <1>5, <1>6, <2>4 DEF CtxStates, WaitInv, Alone
  <2>6. ASSUME OpInv' PROVE op'.id = 1 \/ calls'[1] > 0
    BY <1>0, <1>2, <2>3, <2>6, TreatsKeeps, OpFields
  <2>. QED BY <1>1, <1>3, <1>4, <2>1, <2>2, <2>3, <2>5, <2>6, NewContext
<1>7. CASE /\ pq' = [[pq EXCEPT !.link = "up"] EXCEPT !.active = TRUE]
           /\ state' = [state EXCEPT ![ctx + 1] = "send_finish"]
           /\ waits' = Taken(w) \cup {Wait("read", ctx + 1)}
           /\ op' = [op EXCEPT !.kind = "oids"]
           /\ UNCHANGED <<timer, rendez, calls, outcome>>
  <2>1. pq' \in Pq
    BY <1>7 DEF Pq
  <2>2. Treats
    BY <1>2, <1>7 DEF Treats, GoesOn
  <2>3. Running(op, timer, rendez) /\ op \in Op
    BY <1>0, <1>2, IsRunning
  <2>4. op'.id = 1 /\ op'.kind = "oids" /\ op'.timed = op.timed
    BY <1>2, <1>7, <2>3, OpFields
  <2>5. Affects
    BY <1>7, <2>3, <2>4 DEF Affects, Running
  <2>6. waits' = {Wait("read", 1)}
    BY <1>2, <1>7
  <2>7. Wait("read", 1) \in WaitRec /\ Wait("read", 1).who = 1
    BY <1>3, WaitFields DEF Contexts
  <2>8. CtxStates' /\ WaitInv'
    BY <1>2, <1>3, <1>5, <1>7, <2>4, <2>6, <2>7 DEF CtxStates, WaitInv, WaitSound, Alone
  <2>. QED BY <1>1, <1>3, <1>4, <2>1, <2>2, <2>4, <2>5, <2>8, NewContext
<1>. QED BY <1>6, <1>7 DEF run_connect_oids

\* async_request_op.
LEMMA RequestStepInv ==
    ASSUME RequestInv, pq \in Pq, NEW timed \in BOOLEAN, request(timed)
    PROVE  RequestInv' /\ pq' \in Pq /\ drain' \in BOOLEAN
<1>0. OpInv /\ Owners /\ Connecting /\ CtxStates /\ WaitInv /\ Settled
  BY DEF RequestInv
<1>. DEFINE i == CHOOSE j \in Ops : calls[j] = 0 /\ \A l \in Ops : calls[l] = 0 => j <= l
            o == [id |-> i, kind |-> "query", timed |-> timed]
            t == IF timed THEN "armed" ELSE "none"
            k == ctx + 1
<1>1. op = NoOp /\ (\E j \in Ops : calls[j] = 0) /\ Request(i, o, t, waits) /\ late' = late
  BY DEF request
<1>2. IsNext(i)
  <2>. DEFINE T == {j \in Ops : calls[j] = 0}
  <2>1. T \in SUBSET Nat /\ T # {}
    BY <1>1, Numbers
  <2>2. \E m \in T : \A l \in T : m <= l
    BY <2>1, LeastNat
  <2>3. i \in Ops /\ calls[i] = 0 /\ \A l \in Ops : calls[l] = 0 => i <= l
    BY <2>2
  <2>. HIDE DEF i
  <2>4. ASSUME NEW j \in 1..(i - 1) PROVE calls[j] > 0
    <3>1. j \in Ops /\ ~(i <= j) /\ calls[j] \in Nat
      BY <1>0, <2>3, Numbers DEF Ops, OpInv, OpTypes
    <3>. QED BY <2>3, <3>1
  <2>. QED BY <2>3, <2>4 DEF IsNext
<1>. HIDE DEF i
<1>3. i \in Ops /\ ctx + 1 <= i /\ \A j \in 1..ctx : owner[j] < i
  BY <1>0, <1>1, <1>2, NextIsLater
<1>4. k \in Contexts /\ k \in Nat /\ ctx \in Nat /\ k > ctx /\ k # 0
  BY <1>0, <1>3, Numbers DEF Owners, Contexts, Ops
<1>5. ctx' = ctx + 1 /\ owner' = [owner EXCEPT ![ctx + 1] = i] /\ drain' = FALSE
  BY <1>1 DEF Request
<1>6. owner'[k] = i /\ \A j \in 1..ctx : j # k /\ j \in Contexts /\ owner'[j] = owner[j]
  <2>1. \A j \in 1..ctx : j # k /\ j \in Contexts
    BY <1>0, <1>4, Numbers DEF Owners, Contexts
  <2>. QED BY <1>0, <1>4, <1>5, <2>1 DEF Owners
<1>7. ASSUME NEW x \in waits
      PROVE  x.who # 0 /\ x.who \in 1..ctx /\ x.who # k /\ (state[x.who] = "error" => x.st # "waiting")
             /\ ~(x.dir = "read" /\ state[x.who] # "error") /\ x \in WaitRec
  BY <1>0, <1>1, <1>4, OpFields DEF WaitInv, WaitSound, CtxStates
<1>8. ASSUME NEW s, s \in {"error", "send_finish", "send_in_progress"}, state' = [state EXCEPT ![k] = s]
      PROVE  /\ state' \in [Contexts -> {"error", "send_finish", "send_in_progress"}] /\ state'[k] = s
             /\ \A j \in Contexts : j # k => state'[j] = state[j]
             /\ \A j \in Contexts : j > ctx' => state'[j] = "send_in_progress"
  <2>1. /\ state' \in [Contexts -> {"error", "send_finish", "send_in_progress"}] /\ state'[k] = s
        /\ \A j \in Contexts : j # k => state'[j] = state[j]
    BY <1>0, <1>4, <1>8 DEF CtxStates
  <2>2. \A j \in Contexts : j > ctx' => j > ctx /\ j # k
    BY <1>4, <1>5 DEF Contexts
  <2>. QED BY <1>0, <2>1, <2>2 DEF CtxStates
<1>9. 0..ctx \subseteq 0..ctx' /\ 1..ctx \subseteq 0..ctx' /\ k \in 0..ctx'
  BY <1>4, <1>5
<1>10. ASSUME NEW s, s \in {"error", "send_finish", "send_in_progress"}, state' = [state EXCEPT ![k] = s],
              NEW v \in waits', NEW x \in waits, Left(v, x)
       PROVE  WaitSound(v)' /\ v \in WaitRec
  <2>1. v \in WaitRec /\ v.who = x.who /\ v.dir = x.dir /\ (v.st = "waiting" => x.st = "waiting")
    BY <1>10 DEF Left
  <2>2. v.who # 0 /\ v.who \in 0..ctx' /\ state'[v.who] = state[x.who]
    BY <1>6, <1>7, <1>8, <1>9, <1>10, <2>1
  <2>. QED BY <1>7, <2>1, <2>2 DEF WaitSound
<1>11. CASE /\ state' = [state EXCEPT ![k] = "error"]
            /\ waits' = Cancelled(waits)
            /\ Finish(i, "failed", o, t, rendez)
            /\ UNCHANGED pq
  <2>1. /\ Starts(New(i, "query", timed)) /\ (op'.id = i \/ calls'[i] > 0) /\ op'.kind \in {"none", "joining"}
    BY <1>0, <1>1, <1>2, <1>11, FinishStarts DEF New
  <2>2. New(i, "query", timed) \in Op
    BY <2>1 DEF Starts
  <2>3. Treats /\ Affects
    BY <1>11, <2>1, <2>2 DEF Treats, Affects, Calm, Quiet
  <2>4. (\A v \in waits' : \E x \in waits : Left(v, x)) /\ Alone(waits')
    BY <1>0, <1>11, CancelledIs DEF WaitInv, CtxStates
  <2>5. CtxStates' /\ WaitInv'
    BY <1>8, <1>10, <1>11, <2>4 DEF CtxStates, WaitInv
  <2>. QED BY <1>1, <1>3, <1>5, <1>11, <2>1, <2>3, <2>5, NewContext
<1>12. ASSUME NEW flushed \in BOOLEAN,
              pq' = [pq EXCEPT !.active = TRUE, !.out = ~flushed, !.got = 0, !.inp = "nothing"],
              state' = [state EXCEPT ![k] = IF flushed THEN "send_finish" ELSE @],
              waits' = waits \cup {Wait("read", k)} \cup (IF flushed THEN {} ELSE {Wait("write", k)}),
              op' = o, timer' = t, UNCHANGED <<rendez, calls, outcome>>
       PROVE  RequestInv' /\ pq' \in Pq
  <2>1. pq' \in Pq
    <3>. DEFINE f == ~flushed
    <3>1. f \in BOOLEAN /\ pq' = [pq EXCEPT !.active = TRUE, !.out = f, !.got = 0, !.inp = "nothing"]
      BY <1>12
    <3>. HIDE DEF f
    <3>2. pq' = [link |-> pq.link, out |-> f, inp |-> "nothing", got |-> 0, active |-> TRUE, oid_map |-> pq.oid_map]
      BY <3>1 DEF Pq
    <3>3. pq.link \in {"closed", "starting", "up", "lost"} /\ pq.oid_map \in OidMaps
      BY DEF Pq
    <3>4. [link |-> pq.link, out |-> f, inp |-> "nothing", got |-> 0, active |-> TRUE, oid_map |-> pq.oid_map] \in Pq
      BY <3>1, <3>3 DEF Pq
    <3>. QED BY <3>2, <3>4
  <2>2. Running(op', timer', rendez') /\ op'.id = i /\ op'.kind = "query" /\ New(i, "query", timed) \in Op
    BY <1>0, <1>1, <1>3, <1>12, NewRuns DEF New
  <2>3. Starts(New(i, "query", timed))
    BY <1>1, <1>2, <1>12, <2>2 DEF Starts, New
  <2>4. Treats /\ Affects
    BY <2>2, <2>3 DEF Treats, Affects
  <2>. DEFINE s == IF flushed THEN "send_finish" ELSE "send_in_progress"
  <2>5. s \in {"error", "send_finish", "send_in_progress"} /\ s # "error" /\ state' = [state EXCEPT ![k] = s]
    BY <1>0, <1>4, <1>12 DEF CtxStates
  <2>. HIDE DEF s
  <2>6. \A d \in {"read", "write"} : Wait(d, k) \in WaitRec /\ Wait(d, k).who = k /\ Wait(d, k).dir = d
    BY <1>4, WaitFields DEF Contexts
  <2>7. \A v \in waits' : v \in waits \/ v = Wait("read", k) \/ v = Wait("write", k)
    BY <1>12
  <2>8. state'[k] # "error"
    BY <1>8, <2>5
  <2>9. ASSUME NEW v \in waits' PROVE WaitSound(v)' /\ v \in WaitRec
    <3>1. CASE v \in waits
      BY <1>7, <1>10, <2>5, <3>1, LeftItself
    <3>2. CASE v = Wait("read", k) \/ v = Wait("write", k)
      BY <1>4, <1>6, <1>9, <2>2, <2>6, <2>8, <3>2 DEF WaitSound
    <3>. QED BY <2>7, <3>1, <3>2
  <2>10. Alone(waits')
    <3>1. \A v \in waits' : v.who = k /\ v.dir = "read" => v = Wait("read", k)
      BY <1>7, <2>6, <2>7
    <3>2. \A v \in waits' : v.who # k => v \in waits
      BY <2>6, <2>7
    <3>. QED BY <1>0, <1>4, <3>1, <3>2 DEF Alone, WaitInv
  <2>11. CtxStates' /\ WaitInv'
    BY <1>8, <2>5, <2>9, <2>10 DEF CtxStates, WaitInv
  <2>. QED BY <1>1, <1>3, <1>5, <2>1, <2>2, <2>4, <2>11, NewContext
<1>13. drain' \in BOOLEAN
  BY <1>5
<1>. QED BY <1>1, <1>11, <1>12, <1>13 DEF Request

\* io_deadline_handler::timer_handler.
LEMMA RunTimerInv ==
    ASSUME RequestInv, pq \in Pq, run_timer
    PROVE  RequestInv'
<1>0. OpInv /\ CtxStates /\ WaitInv
  BY DEF RequestInv
<1>1. timer \in {"fired", "cancelled"} /\ UNCHANGED <<pq, ctx, state, owner>> /\ late' = late /\ Calm
  BY DEF run_timer, ctxVars, Calm, Quiet
<1>2. CASE CancelsStream
  <2>1. /\ rendez.first_call = 2 /\ waits' = Cancelled(waits) /\ UNCHANGED <<op, calls, outcome>>
        /\ rendez' = [first_call |-> 1, ec |-> "timed_out"] /\ timer' = "none"
    BY <1>2 DEF CancelsStream
  <2>2. Treats
    BY <1>1, <2>1 DEF Treats, Deadline
  <2>3. (\A v \in waits' : \E x \in waits : Left(v, x)) /\ Alone(waits')
    BY <1>0, <2>1, CancelledIs DEF WaitInv, CtxStates
  <2>4. CtxStates' /\ WaitInv'
    BY <1>0, <1>1, <2>1, <2>3, FewerWaits
  <2>. QED BY <1>1, <2>2, <2>4, SameContexts DEF Affects
<1>3. CASE Joins
  <2>1. /\ rendez.first_call = 1 /\ UserCalled(op.id, rendez.ec) /\ op' = NoOp /\ timer' = "none"
        /\ rendez' = [first_call |-> 2, ec |-> "ok"] /\ UNCHANGED waits
    BY <1>3 DEF Joins
  <2>2. Treats
    BY <1>1, <2>1 DEF Treats, Deadline
  <2>3. op.kind = "joining"
    BY <1>0, <1>1, <2>1 DEF OpInv, Phase, Resting, Running, Waiting
  <2>4. CtxStates' /\ WaitInv'
    BY <1>0, <1>1, <2>1, <2>3, IdleWaits
  <2>. QED BY <1>1, <2>2, <2>4, SameContexts DEF Affects
<1>. QED BY <1>2, <1>3 DEF run_timer

\* A wait becomes ready.
LEMMA ReadyInv ==
    ASSUME RequestInv, NEW w \in waits, w.st = "waiting", Ready(w), UNCHANGED <<pq, opVars, ctxVars, late>>
    PROVE  RequestInv'
<1>0. CtxStates /\ WaitInv
  BY DEF RequestInv
<1>. DEFINE r == [w EXCEPT !.st = "ready"]
<1>1. w \in WaitRec /\ r \in WaitRec /\ r.dir = w.dir /\ r.who = w.who /\ r.st = "ready"
  BY <1>0, WaitFields DEF CtxStates
<1>2. \A v \in waits' : (v \in waits /\ v # w) \/ v = r
  BY DEF Ready, Taken
<1>. HIDE DEF r
<1>3. ASSUME NEW v \in waits' PROVE \E x \in waits : Left(v, x)
  BY <1>0, <1>1, <1>2, LeftItself DEF Left, CtxStates
<1>4. Alone(waits')
  BY <1>0, <1>1, <1>2 DEF Alone, WaitInv
<1>5. UNCHANGED <<pq, op, timer, rendez, calls, outcome, ctx, owner, state, late>>
  BY DEF opVars, ctxVars
<1>6. CtxStates' /\ WaitInv'
  BY <1>0, <1>3, <1>4, <1>5, FewerWaits
<1>7. Treats /\ Affects
  BY <1>5 DEF Treats, Affects, Calm, Quiet
<1>. QED BY <1>5, <1>6, <1>7, SameContexts

-----------------------------------------------------------------------------
(* cancel(). *)

CanRec ==
    [pc : {"none", "blocked", "returned", "done"}, timer : {"none", "armed", "cancelled", "over"},
     state : 0..2, calls : 0..1]

\* cancel() has not been called, or has no time constraint and calls with its
\* result; or, with one, of its result and its timer ...
Uncounted(c) == c.timer = "none" /\ c.state = 2 /\ (c.pc = "done" <=> c.calls = 1)
\* ... neither has come, the timer first, its result first, or both.
Neither(c) == c.pc \in {"blocked", "returned"} /\ c.timer = "armed" /\ c.state = 2 /\ c.calls = 0
TimerOnly(c) == c.pc \in {"blocked", "returned"} /\ c.timer = "over" /\ c.state = 1 /\ c.calls = 1
ResultOnly(c) == c.pc = "done" /\ c.timer = "cancelled" /\ c.state = 1 /\ c.calls = 1
Both(c) == c.pc = "done" /\ c.timer = "over" /\ c.state = 0 /\ c.calls = 1
Fine(c) == Uncounted(c) \/ Neither(c) \/ TimerOnly(c) \/ ResultOnly(c) \/ Both(c)

\* Of its result and its timer, the first to come has called the handler.
CanInv == can \in CanRec /\ Fine(can)

\* cancel(), PQcancel, the result and the timer.
LEMMA CanStep ==
    ASSUME CanInv, (\E timed \in BOOLEAN : cancel(timed)) \/ dispatch_cancel \/ cancel_done \/ cancel_timer
    PROVE  CanInv'
<1>0. can \in CanRec /\ Fine(can)
  BY DEF CanInv
<1>1. ASSUME NEW p, NEW t, NEW n, NEW k, can' = [pc |-> p, timer |-> t, state |-> n, calls |-> k],
             [pc |-> p, timer |-> t, state |-> n, calls |-> k] \in CanRec,
             Fine([pc |-> p, timer |-> t, state |-> n, calls |-> k])
      PROVE  CanInv'
  BY <1>1, Zenon DEF CanInv
<1>2. ASSUME NEW timed \in BOOLEAN, cancel(timed) PROVE CanInv'
  <2>. DEFINE t == IF timed THEN "armed" ELSE "none"
  <2>1. can.pc = "none" /\ can' = [can EXCEPT !.pc = "blocked", !.timer = t]
    BY <1>2 DEF cancel
  <2>2. can.state = 2 /\ can.calls = 0
    BY <1>0, <2>1 DEF Fine, Uncounted, Neither, TimerOnly, ResultOnly, Both, CanRec
  <2>3. t \in {"armed", "none"}
    OBVIOUS
  <2>. HIDE DEF t
  <2>4. can' = [pc |-> "blocked", timer |-> t, state |-> 2, calls |-> 0]
    BY <1>0, <2>1, <2>2 DEF CanRec
  <2>. QED BY <1>1, <2>3, <2>4 DEF Fine, Uncounted, Neither, CanRec
<1>3. CASE dispatch_cancel
  <2>1. can.pc = "blocked" /\ can' = [can EXCEPT !.pc = "returned"]
    BY <1>3 DEF dispatch_cancel
  <2>2. can' = [pc |-> "returned", timer |-> can.timer, state |-> can.state, calls |-> can.calls]
    BY <1>0, <2>1 DEF CanRec
  <2>. QED BY <1>0, <1>1, <2>1, <2>2 DEF Fine, Uncounted, Neither, TimerOnly, ResultOnly, Both, CanRec
<1>4. CASE cancel_done
  <2>1. can.pc = "returned" /\ (Uncounted(can) \/ Neither(can) \/ TimerOnly(can))
    BY <1>0, <1>4 DEF cancel_done, Fine, ResultOnly, Both
  <2>2. CASE Uncounted(can)
    <3>. DEFINE k == can.calls + 1
    <3>1. can' = [can EXCEPT !.pc = "done", !.calls = k]
      BY <1>4, <2>2 DEF cancel_done, TimedCancel, Uncounted
    <3>2. k = 1
      BY <1>0, <2>1, <2>2 DEF CanRec, Uncounted
    <3>. HIDE DEF k
    <3>3. can' = [pc |-> "done", timer |-> "none", state |-> 2, calls |-> k]
      BY <1>0, <2>2, <3>1 DEF CanRec, Uncounted
    <3>. QED BY <1>1, <3>2, <3>3 DEF Fine, Uncounted, CanRec
  <2>3. CASE Neither(can)
    <3>. DEFINE n == can.state - 1
                k == can.calls + 1
                t == IF can.timer = "armed" THEN "cancelled" ELSE can.timer
    <3>1. can' = [can EXCEPT !.pc = "done", !.state = n, !.calls = k, !.timer = t]
      BY <1>4, <2>3 DEF cancel_done, TimedCancel, Neither, FirstCalls
    <3>2. n = 1 /\ k = 1 /\ t = "cancelled"
      BY <2>3 DEF Neither
    <3>. HIDE DEF n, k, t
    <3>3. can' = [pc |-> "done", timer |-> t, state |-> n, calls |-> k]
      BY <1>0, <3>1 DEF CanRec
    <3>. QED BY <1>1, <3>2, <3>3 DEF Fine, ResultOnly, CanRec
  <2>4. CASE TimerOnly(can)
    <3>. DEFINE n == can.state - 1
    <3>1. can' = [can EXCEPT !.pc = "done", !.state = n]
      BY <1>4, <2>4 DEF cancel_done, TimedCancel, TimerOnly, FirstCalls
    <3>2. n = 0
      BY <2>4 DEF TimerOnly
    <3>. HIDE DEF n
    <3>3. can' = [pc |-> "done", timer |-> "over", state |-> n, calls |-> 1]
      BY <1>0, <2>4, <3>1 DEF CanRec, TimerOnly
    <3>. QED BY <1>1, <3>2, <3>3 DEF Fine, Both, CanRec
  <2>. QED BY <2>1, <2>2, <2>3, <2>4
<1>5. CASE cancel_timer
  <2>. DEFINE n == can.state - 1
              k == IF FirstCalls(can.state) THEN can.calls + 1 ELSE can.calls
  <2>1. can.timer \in {"armed", "cancelled"} /\ can' = [can EXCEPT !.timer = "over", !.state = n, !.calls = k]
    BY <1>5 DEF cancel_timer
  <2>2. Neither(can) \/ ResultOnly(can)
    BY <1>0, <2>1 DEF Fine, Uncounted, TimerOnly, Both
  <2>3. k = 1 /\ (Neither(can) => n = 1) /\ (ResultOnly(can) => n = 0)
    BY <2>2 DEF Neither, ResultOnly, FirstCalls
  <2>. HIDE DEF n, k
  <2>4. can' = [pc |-> can.pc, timer |-> "over", state |-> n, calls |-> k]
    BY <1>0, <2>1 DEF CanRec
  <2>. QED BY <1>1, <2>2, <2>3, <2>4 DEF Fine, Neither, ResultOnly, TimerOnly, Both, CanRec
<1>. QED BY <1>2, <1>3, <1>4, <1>5

-----------------------------------------------------------------------------
(* The theorems. *)

OtherTypes == pq \in Pq /\ drain \in BOOLEAN /\ notices \in 0..MaxNotices /\ missed \in BOOLEAN /\ late \in BOOLEAN

Inv == RequestInv /\ CanInv /\ OtherTypes

\* The invariant holds when the program starts.
LEMMA InitInv == Init => Inv
<1>. SUFFICES ASSUME Init PROVE Inv
  OBVIOUS
<1>1. OpTypes
  BY OpFields, Numbers DEF Init, OpTypes, Rendezvous, Errors, Ops
<1>2. OpInv
  BY <1>1, OpFields, Numbers DEF Init, OpInv, Phase, Resting, Order, Fresh
<1>3. Owners /\ Connecting
  BY Numbers, OpFields DEF Init, Owners, Connecting, Contexts
<1>4. CtxStates /\ WaitInv
  BY DEF Init, CtxStates, WaitInv, Alone
<1>5. Settled
  BY OpFields DEF Init, Settled, Quiet
<1>6. CanInv
  BY DEF Init, CanInv, CanRec, Fine, Uncounted
<1>7. pq \in Pq
  <2>1. pq \in [link : {"closed"}, out : {FALSE}, inp : {"nothing"}, got : {0}, active : {FALSE}, oid_map : OidMaps]
    BY DEF Init
  <2>2. pq = [link |-> "closed", out |-> FALSE, inp |-> "nothing", got |-> 0, active |-> FALSE, oid_map |-> pq.oid_map]
        /\ pq.oid_map \in OidMaps
    BY <2>1
  <2>3. [link |-> "closed", out |-> FALSE, inp |-> "nothing", got |-> 0, active |-> FALSE, oid_map |-> pq.oid_map] \in Pq
    BY <2>2 DEF Pq
  <2>. QED BY <2>2, <2>3
<1>8. OtherTypes
  <2>1. notices = 0 /\ MaxNotices \in Nat
    BY OperationAssumption DEF Init
  <2>2. drain = FALSE /\ missed = FALSE /\ late = FALSE
    BY DEF Init
  <2>3. notices \in 0..MaxNotices
    BY <2>1
  <2>. QED BY <1>7, <2>2, <2>3 DEF OtherTypes
<1>. QED BY <1>2, <1>3, <1>4, <1>5, <1>6, <1>8 DEF Inv, RequestInv

\* Every step keeps it.
LEMMA NextInv == Inv /\ [Next]_vars => Inv'
<1>. SUFFICES ASSUME Inv, [Next]_vars PROVE Inv'
  OBVIOUS
<1>0. RequestInv /\ CanInv /\ OtherTypes /\ Timed \subseteq BOOLEAN /\ CtxStates
  BY OperationAssumption DEF Inv, RequestInv
<1>1. ASSUME UNCHANGED can PROVE CanInv'
  BY <1>0, <1>1 DEF CanInv
<1>2. ASSUME UNCHANGED <<pq, opVars, ctxVars, waits, late>> PROVE RequestInv'
  <2>1. UNCHANGED <<pq, op, timer, rendez, calls, outcome, ctx, owner, state, late>> /\ waits' \subseteq waits
    BY <1>2 DEF opVars, ctxVars
  <2>. QED BY <1>0, <2>1, TakesWaits DEF Calm, Quiet
<1>3. ASSUME NEW w \in waits, run_send(w) PROVE Inv'
  <2>1. RequestInv' /\ pq' \in Pq
    BY <1>0, <1>3, RunSendInv DEF OtherTypes
  <2>2. UNCHANGED <<notices, missed, can>> /\ late' \in BOOLEAN /\ drain' = drain
    BY <1>0, <1>3 DEF run_send, opVars, OtherTypes
  <2>. QED BY <1>0, <1>1, <2>1, <2>2 DEF Inv, OtherTypes
<1>4. ASSUME NEW w \in waits, run_receive(w) PROVE Inv'
  <2>1. RequestInv' /\ pq' \in Pq
    BY <1>0, <1>4, RunReceiveInv DEF OtherTypes
  <2>2. UNCHANGED <<notices, missed, can, late>> /\ drain' \in BOOLEAN
    BY <1>0, <1>4 DEF run_receive, opVars, OtherTypes, Arrived
  <2>. QED BY <1>0, <1>1, <2>1, <2>2 DEF Inv, OtherTypes
<1>5. ASSUME NEW w \in waits, run_connect(w) PROVE Inv'
  <2>1. RequestInv' /\ pq' \in Pq
    BY <1>0, <1>5, RunConnectInv DEF OtherTypes
  <2>2. UNCHANGED <<notices, missed, can, late>> /\ drain' = drain
    BY <1>0, <1>5 DEF run_connect, opVars
  <2>. QED BY <1>0, <1>1, <2>1, <2>2 DEF Inv, OtherTypes
<1>6. ASSUME NEW w \in waits, run_connect_oids(w) PROVE Inv'
  <2>1. RequestInv' /\ pq' \in Pq
    BY <1>0, <1>6, RunConnectOidsInv DEF OtherTypes
  <2>2. UNCHANGED <<notices, missed, can, late>> /\ drain' = FALSE
    BY <1>0, <1>6 DEF run_connect_oids
  <2>. QED BY <1>0, <1>1, <2>1, <2>2 DEF Inv, OtherTypes
<1>7. CASE run_timer
  <2>1. RequestInv'
    BY <1>0, <1>7, RunTimerInv DEF OtherTypes
  <2>2. UNCHANGED <<pq, drain, notices, late, can>> /\ missed' \in BOOLEAN
    BY <1>0, <1>7 DEF run_timer, CancelsStream, Joins, OtherTypes
  <2>. QED BY <1>0, <1>1, <2>1, <2>2 DEF Inv, OtherTypes
<1>8. CASE timer_fires
  <2>1. /\ timer = "armed" /\ timer' = "fired" /\ UNCHANGED <<pq, op, waits, ctx, state, owner, rendez, calls, outcome>>
        /\ UNCHANGED <<drain, notices, missed, late, can>>
    BY <1>8 DEF timer_fires, ctxVars
  <2>2. Treats /\ Affects
    BY <2>1 DEF Treats, Deadline, Affects, Calm, Quiet
  <2>3. CtxStates' /\ WaitInv'
    BY <1>0, <2>1, AloneTaken, LeftItself, FewerWaits DEF RequestInv, WaitInv, CtxStates
  <2>4. RequestInv'
    BY <1>0, <2>1, <2>2, <2>3, SameContexts
  <2>. QED BY <1>0, <1>1, <2>1, <2>4 DEF Inv, OtherTypes
<1>9. CASE (\E timed \in Timed : cancel(timed)) \/ dispatch_cancel \/ cancel_done \/ cancel_timer
  <2>1. UNCHANGED <<pq, waits, opVars, ctxVars, notices, missed, late>>
    BY <1>9 DEF cancel, dispatch_cancel, cancel_done, cancel_timer
  <2>2. CanInv'
    BY <1>0, <1>9, CanStep
  <2>. QED BY <1>0, <1>2, <2>1, <2>2 DEF Inv, OtherTypes, opVars
<1>10. ASSUME NEW w \in waits, readable(w) \/ writable(w) PROVE Inv'
  <2>1. w.st = "waiting" /\ Ready(w) /\ UNCHANGED <<pq, opVars, ctxVars, notices, missed, late, can>>
    BY <1>10 DEF readable, writable
  <2>2. RequestInv'
    BY <1>0, <2>1, ReadyInv
  <2>. QED BY <1>0, <1>1, <2>1, <2>2 DEF Inv, OtherTypes, opVars
<1>11. ASSUME pq' \in Pq, Calm, waits' = waits \/ waits' = Cancelled(waits), UNCHANGED <<opVars, ctxVars, missed, late, can>>,
              notices' \in 0..MaxNotices
       PROVE  Inv'
  <2>1. UNCHANGED <<op, timer, rendez, calls, outcome, ctx, owner, state, late>> /\ drain' = drain
    BY <1>11 DEF opVars, ctxVars
  <2>2. RequestInv'
    BY <1>0, <1>11, <2>1, TakesWaits
  <2>. QED BY <1>0, <1>1, <1>11, <2>1, <2>2 DEF Inv, OtherTypes
<1>12. ASSUME NEW piece \in {"part", "all"}, answer(piece) PROVE Inv'
  <2>1. pq' \in Pq /\ Calm
    BY <1>0, <1>12 DEF answer, OtherTypes, Pq, Calm, Quiet
  <2>. QED BY <1>0, <1>11, <1>12, <2>1 DEF answer, OtherTypes
<1>13. CASE notice
  <2>1. pq' \in Pq /\ Calm
    BY <1>0, <1>13 DEF notice, OtherTypes, Pq, Calm, Quiet
  <2>2. notices' \in 0..MaxNotices
    BY <1>0, <1>13, OperationAssumption DEF notice, OtherTypes
  <2>. QED BY <1>11, <1>13, <2>1, <2>2 DEF notice
<1>14. CASE lose
  <2>1. pq' \in Pq /\ Calm
    BY <1>0, <1>14 DEF lose, OtherTypes, Pq, Calm, Quiet
  <2>. QED BY <1>0, <1>11, <1>14, <2>1 DEF lose, OtherTypes
<1>15. CASE close
  <2>1. pq' \in Pq /\ Calm
    BY <1>0, <1>15 DEF close, OtherTypes, Pq, Calm, Quiet
  <2>. QED BY <1>0, <1>11, <1>15, <2>1 DEF close, OtherTypes
<1>16. ASSUME NEW timed \in Timed, get_connection(timed) PROVE Inv'
  <2>1. timed \in BOOLEAN /\ connect(timed)
    BY <1>0, <1>16 DEF get_connection
  <2>2. RequestInv' /\ pq' \in Pq
    BY <1>0, <2>1, ConnectInv DEF OtherTypes
  <2>3. UNCHANGED <<drain, notices, missed, late, can>>
    BY <2>1 DEF connect
  <2>. QED BY <1>0, <1>1, <2>2, <2>3 DEF Inv, OtherTypes
<1>17. ASSUME NEW timed \in Timed, request(timed) PROVE Inv'
  <2>1. timed \in BOOLEAN
    BY <1>0
  <2>2. RequestInv' /\ pq' \in Pq /\ drain' \in BOOLEAN
    BY <1>0, <1>17, <2>1, RequestStepInv DEF OtherTypes
  <2>3. UNCHANGED <<notices, missed, late, can>>
    BY <1>17 DEF request
  <2>. QED BY <1>0, <1>1, <2>2, <2>3 DEF Inv, OtherTypes
<1>18. CASE UNCHANGED vars
  <2>1. UNCHANGED <<pq, opVars, ctxVars, waits, late, drain, notices, missed, can>>
    BY <1>18 DEF vars, opVars, ctxVars
  <2>. QED BY <1>0, <1>1, <1>2, <2>1 DEF Inv, OtherTypes
<1>19. CASE Next
  BY <1>3, <1>4, <1>5, <1>6, <1>7, <1>8, <1>9, <1>10, <1>12, <1>13, <1>14, <1>15, <1>16, <1>17, <1>19
     DEF Next, Runs, Handler, Environment
<1>. QED BY <1>18, <1>19

\* It holds always.
LEMMA AlwaysInv == Spec => []Inv
  BY InitInv, NextInv, PTL DEF Spec

\* Every variable has its type.
LEMMA Types == Inv => TypeOK
<1>. SUFFICES ASSUME Inv PROVE TypeOK
  OBVIOUS
<1>1. OpTypes /\ Owners /\ CtxStates /\ CanInv /\ OtherTypes
  BY DEF Inv, RequestInv, OpInv
<1>2. ctx \in 0..(MaxOps + 1)
  BY <1>1, Numbers DEF Owners
<1>3. can.pc \in {"none", "blocked", "returned", "done"} /\ can.calls \in Nat /\ can.state \in Nat
  BY <1>1 DEF CanInv, CanRec
<1>4. rendez \in [first_call : 1..2, ec : {"ok", "failed", "aborted", "timed_out"}]
  BY <1>1 DEF OpTypes, Rendezvous, Errors
<1>5. outcome \in [Ops -> {"none", "ok", "failed", "aborted", "timed_out"}]
  BY <1>1 DEF OpTypes, Errors
<1>. QED BY <1>1, <1>2, <1>3, <1>4, <1>5 DEF TypeOK, OpTypes, Op, Owners, CtxStates, WaitRec, OtherTypes, Pq

\* Whoever ends an operation -- its send or its receive operation, close(), its
\* deadline -- the user's handler of io_deadline_handler is called once, unless a
\* send operation outlived its request; and that of cancel() is called once, by
\* its result or its timer.
THEOREM CalledOnce == Spec => []HandlerOnce
<1>1. Inv => HandlerOnce
  <2>. SUFFICES ASSUME Inv PROVE HandlerOnce
    OBVIOUS
  <2>1. TypeOK
    BY Types
  <2>2. late \/ \A i \in Ops : calls[i] <= 1
    BY DEF Inv, RequestInv, OpInv, Fresh
  <2>3. can.calls <= 1
    BY DEF Inv, CanInv, CanRec
  <2>. QED BY <2>1, <2>2, <2>3 DEF HandlerOnce
<1>. QED BY <1>1, AlwaysInv, PTL

\* An ended operation leaves no wait that would still end or answer another, and
\* one that ended well has read all the database sent for it: done(), cancel()
\* and the two loops of async_get_result_op see to it.
THEOREM NothingIsLeftBehind == Spec => []NothingLeftBehind
<1>1. Inv => NothingLeftBehind
  <2>. SUFFICES ASSUME Inv PROVE NothingLeftBehind
    OBVIOUS
  <2>1. WaitInv /\ Connecting /\ CtxStates /\ Settled
    BY DEF Inv, RequestInv
  <2>2. ASSUME NEW w \in waits
        PROVE  \/ w.who = 0 /\ op.id = 1
               \/ w.who # 0 /\ owner[w.who] = op.id
               \/ w.who # 0 /\ state[w.who] = "error" /\ w.st # "waiting"
               \/ w.who # 0 /\ state[w.who] # "error" /\ w.dir = "write"
    <3>1. w.dir \in {"read", "write"}
      BY <2>1, WaitFields DEF CtxStates
    <3>2. w.who = 0 => op.id = 1
      BY <2>1 DEF WaitInv, WaitSound, Connecting
    <3>3. w.who # 0 /\ state[w.who] = "error" => w.st # "waiting"
      BY <2>1 DEF WaitInv, WaitSound
    <3>4. w.who # 0 /\ w.dir = "read" /\ state[w.who] # "error" => owner[w.who] = op.id
      BY <2>1 DEF WaitInv, WaitSound
    <3>. QED BY <3>1, <3>2, <3>3, <3>4
  <2>3. \A i \in Ops : outcome[i] = "ok" /\ op = NoOp /\ (\A j \in Ops : calls[j] > 0 => j <= i) =>
           ~pq.active \/ pq.link # "up"
    BY <2>1 DEF Settled, Quiet
  <2>. QED BY <2>2, <2>3 DEF NothingLeftBehind
<1>. QED BY <1>1, AlwaysInv, PTL
=============================================================================
