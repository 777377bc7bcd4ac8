---------------------------- MODULE MCReconciler ----------------------------
(***************************************************************************)
(* Reconciler for TLC, from the start of a process beside a table and a    *)
(* bucket that earlier ones left filled and in agreement: one row for each *)
(* id, all with the same document.  It saves the requests it takes to get  *)
(* there.                                                                  *)
(***************************************************************************)
EXTENDS Reconciler

(* Which key each row feeds: no two the same.                              *)
Feeds == CHOOSE f \in [RowId -> Key] : IsInjective(f)

Document == CHOOSE d \in Payload : d # EmptyDoc

Filled ==
    [seq   |-> Cardinality(RowId),
     entry |-> [k \in Key |->
                  IF k \in Range(Feeds)
                    THEN [payload  |-> Document,
                          stamp    |-> 0,
                          revision |-> CHOOSE id \in RowId : Feeds[id] = k]
                    ELSE Absent]]

StartFilled ==
    /\ rows = [id \in RowId |-> [key |-> Feeds[id], doc |-> Document, at |-> 1]]
    /\ nextId = Cardinality(RowId) + 1
    /\ reqs = [c \in Request |-> NoReq]
    /\ kv = [b \in Bucket |-> Filled]
    /\ provisioned \in BOOLEAN
    /\ calls = [c \in Caller |-> NoCall]
    /\ late = [c \in Caller |-> NoMessage]
    /\ runs = 0
    /\ lastRun = 0
    /\ sweep = NoSweep
    /\ age = [c \in Caller |-> 0]
    /\ listed = {}

(* With all of its bounds before it.                                       *)
Unspent == clock = 1 /\ started = 0 /\ faults = 0

FilledInit == StartFilled /\ Unspent

FilledSpec == FilledInit /\ [][RecNext]_allVars /\ Fairness

(* With one of them used: a tick, a request or a fault.  What follows has  *)
(* all the bounds allow of the other two.                                  *)
Spent ==
    \/ clock = 2 /\ started = 0 /\ faults = 0
    \/ clock = 1 /\ started = 1 /\ faults = 0
    \/ clock = 1 /\ started = 0 /\ faults = 1

SpentInit == StartFilled /\ Spent

SpentSpec == SpentInit /\ [][RecNext]_allVars /\ Fairness
=============================================================================
