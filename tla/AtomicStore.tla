----------------------------- MODULE AtomicStore -----------------------------
(***************************************************************************)
(* What a caller of the publisher may rely on.  Setting a key (or purging  *)
(* it, which sets it to NoPayload) is one indivisible write of the whole   *)
(* value.  A call that answers success took effect at some moment between  *)
(* the call and the answer.  A call that answers failure may still take    *)
(* effect, once, at any later time: its message can be on the wire.        *)
(***************************************************************************)
CONSTANTS Caller, Bucket, Key, Payload, NoPayload

VARIABLES
    store,  \* store[b][k]: the payload consumers see
    op,     \* op[c]: the call c has in progress, or the answer of its last
    wire    \* wire[c]: a write of a call that already answered failure

vars == <<store, op, wire>>

Effect == [bucket : Bucket, key : Key, payload : Payload \cup {NoPayload}]

Idle == [status |-> "idle"]
Ok == [status |-> "ok"]
Failed == [status |-> "failed"]
Pending(e) == [status |-> "pending", effect |-> e]

NoWire == [status |-> "none"]
OnWire(e) == [status |-> "sent", effect |-> e]

Set(e) == store' = [store EXCEPT ![e.bucket][e.key] = e.payload]

Init ==
    /\ store = [b \in Bucket |-> [k \in Key |-> NoPayload]]
    /\ op = [c \in Caller |-> Idle]
    /\ wire = [c \in Caller |-> NoWire]

Invoke(c) ==
    /\ op[c].status # "pending"
    /\ \/ \E e \in Effect : op' = [op EXCEPT ![c] = Pending(e)]
       \/ op' = [op EXCEPT ![c] = Failed]
    /\ UNCHANGED <<store, wire>>

Succeed(c) ==
    /\ op[c].status = "pending"
    /\ Set(op[c].effect)
    /\ op' = [op EXCEPT ![c] = Ok]
    /\ UNCHANGED wire

Fail(c) ==
    /\ op[c].status = "pending"
    /\ op' = [op EXCEPT ![c] = Failed]
    /\ \/ UNCHANGED wire
       \/ wire' = [wire EXCEPT ![c] = OnWire(op[c].effect)]
    /\ UNCHANGED store

Arrive(c) ==
    /\ wire[c].status = "sent"
    /\ Set(wire[c].effect)
    /\ wire' = [wire EXCEPT ![c] = NoWire]
    /\ UNCHANGED op

Lose(c) ==
    /\ wire[c].status = "sent"
    /\ wire' = [wire EXCEPT ![c] = NoWire]
    /\ UNCHANGED <<store, op>>

(* The caller has read the answer.                                         *)
Take(c) ==
    /\ op[c].status # "pending"
    /\ op' = [op EXCEPT ![c] = Idle]
    /\ UNCHANGED <<store, wire>>

(* The process died: nobody will hear the answers.                         *)
Forget ==
    /\ op' = [c \in Caller |-> Idle]
    /\ UNCHANGED <<store, wire>>

Next ==
    \/ \E c \in Caller : Invoke(c) \/ Succeed(c) \/ Fail(c) \/ Take(c)
                          \/ Arrive(c) \/ Lose(c)
    \/ Forget

Spec == Init /\ [][Next]_vars
=============================================================================
