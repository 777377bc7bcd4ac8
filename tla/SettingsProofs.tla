--------------------------- MODULE SettingsProofs ---------------------------
(***************************************************************************)
(* Proofs about ServiceSettings and SettingsHistory, for every number of   *)
(* requests, rows, keys and documents: on either database that what is     *)
(* served was committed, on PostgreSQL that a guarded update has seen the  *)
(* row it replaces and that drift has a cause.                             *)
(***************************************************************************)
EXTENDS SettingsHistory, PublisherProofs

-----------------------------------------------------------------------------
(* The invariant of the requests: what they carry at each stage.  A create *)
(* or an update names a key and a document from its arrival on; an update  *)
(* or a delete that found its row knows the key the row fed.               *)

Asked(r) ==
    /\ r.op \in {"create", "update"} => r.key \in Key /\ r.doc \in Payload
    /\ r.op \in {"update", "delete"} /\ r.pc \notin {"idle", "previous"} => r.prev \in Key

Settled ==
    /\ rows \in [RowId -> Row \cup {NoRow}]
    /\ reqs \in [Request -> Req]
    /\ nextId \in Nat
    /\ started \in Nat
    /\ \A c \in Request : Asked(reqs[c])

RequestInv == Inv /\ Settled

LEMMA RowFacts ==
  ASSUME RequestInv, NEW id, Exists(id)
  PROVE  /\ id \in RowId /\ rows[id] \in Row
         /\ rows[id].key \in Key /\ rows[id].doc \in Payload /\ rows[id].at \in Nat
  BY DEF RequestInv, Settled, Exists, Row

LEMMA ReqFacts ==
  ASSUME RequestInv, NEW c \in Request
  PROVE  /\ reqs[c] \in Req /\ Asked(reqs[c]) /\ c \in Caller
         /\ reqs[c].op \in {"none", "create", "update", "delete"} /\ reqs[c].pc \in PC
         /\ reqs[c].id \in RowId \cup {0} /\ reqs[c].expected \in Nat
  BY RequestAssumption DEF RequestInv, Settled, Req

LEMMA NoReqType == NoReq \in Req /\ Asked(NoReq) /\ NoReq.pc = "idle" /\ NoReq.expected = 0
  BY DEF NoReq, Req, Asked, PC

(* The requests after a step that sets one of them.                        *)
LEMMA ReqSet ==
  ASSUME RequestInv, NEW c \in Request, NEW r \in Req, Asked(r), reqs' = [reqs EXCEPT ![c] = r]
  PROVE  reqs' \in [Request -> Req] /\ \A d \in Request : Asked(reqs'[d])
  <1>1. reqs \in [Request -> Req] /\ \A d \in Request : Asked(reqs[d])
    BY DEF RequestInv, Settled
  <1>2. \A d \in Request : reqs'[d] = r \/ reqs'[d] = reqs[d]
    BY <1>1
  <1>3. QED
    BY <1>1, <1>2

LEMMA FinishKeeps ==
  ASSUME RequestInv, NEW c \in Request, Finish(c)
  PROVE  reqs' \in [Request -> Req] /\ \A d \in Request : Asked(reqs'[d])
  BY NoReqType, ReqSet DEF Finish

LEMMA GotoKeeps ==
  ASSUME RequestInv, NEW c \in Request, NEW pc \in PC,
         reqs[c].pc \notin {"idle", "previous"}, Goto(c, pc)
  PROVE  reqs' \in [Request -> Req] /\ \A d \in Request : Asked(reqs'[d])
  <1> DEFINE r == [reqs[c] EXCEPT !.pc = pc]
  <1>1. reqs' = [reqs EXCEPT ![c] = r]
    BY DEF Goto
  <1>2. r \in Req
    BY ReqFacts DEF Req
  <1>3. Asked(r)
    BY ReqFacts DEF Asked, Req
  <1> HIDE DEF r
  <1>4. QED
    BY <1>1, <1>2, <1>3, ReqSet

-----------------------------------------------------------------------------
(* Each step keeps the invariant of the requests and is, for the           *)
(* publisher, one of its own steps or none.                                *)

RequestStepOK == Settled' /\ [Next]_pubVars

LEMMA QuietKeeps ==
  ASSUME RequestInv, UNCHANGED <<pubVars, rows, nextId>>, started' \in Nat,
         reqs' \in [Request -> Req], \A d \in Request : Asked(reqs'[d])
  PROVE  RequestStepOK
  BY DEF RequestInv, Settled, RequestStepOK

LEMMA AcceptKeeps ==
  ASSUME RequestInv, NEW c \in Request, NEW r \in Req, Asked(r), Accept(c, r)
  PROVE  RequestStepOK
  <1>1. started' \in Nat
    BY DEF Accept, RequestInv, Settled
  <1>2. reqs' \in [Request -> Req] /\ \A d \in Request : Asked(reqs'[d])
    BY ReqSet DEF Accept
  <1>3. QED
    BY <1>1, <1>2, QuietKeeps DEF Accept

LEMMA ArrivalKeeps ==
  ASSUME RequestInv, NEW c \in Request, Arrival(c)
  PROVE  RequestStepOK
  <1>1. CASE \E k \in Key, d \in Payload : CreateMicroserviceConfig(c, k, d)
    <2>1. PICK k \in Key, d \in Payload : CreateMicroserviceConfig(c, k, d)
      BY <1>1
    <2> DEFINE r == [NoReq EXCEPT !.op = "create", !.pc = "check", !.key = k, !.doc = d]
    <2>2. r \in Req /\ Asked(r)
      BY DEF NoReq, Req, Asked, PC
    <2>3. Accept(c, r)
      BY <2>1 DEF CreateMicroserviceConfig
    <2> HIDE DEF r
    <2>4. QED
      BY <2>2, <2>3, AcceptKeeps
  <1>2. CASE \E id \in RowId, k \in Key, d \in Payload, guarded \in Opting :
                UpdateMicroserviceConfig(c, id, k, d, guarded)
    <2>1. PICK id \in RowId, k \in Key, d \in Payload, guarded \in Opting :
                UpdateMicroserviceConfig(c, id, k, d, guarded)
      BY <1>2
    <2> DEFINE e == IF guarded THEN rows[id].at ELSE 0
               r == [NoReq EXCEPT !.op = "update", !.pc = "previous", !.id = id,
                                  !.key = k, !.doc = d, !.expected = e]
    <2>2. e \in Nat
      BY <2>1, RowFacts DEF UpdateMicroserviceConfig
    <2>3. Accept(c, r)
      BY <2>1 DEF UpdateMicroserviceConfig
    <2> HIDE DEF e
    <2>4. r \in Req /\ Asked(r)
      BY <2>2 DEF NoReq, Req, Asked, PC
    <2> HIDE DEF r
    <2>5. QED
      BY <2>3, <2>4, AcceptKeeps
  <1>3. CASE \E id \in RowId : DeleteMicroserviceConfig(c, id)
    <2>1. PICK id \in RowId : DeleteMicroserviceConfig(c, id)
      BY <1>3
    <2> DEFINE r == [NoReq EXCEPT !.op = "delete", !.pc = "previous", !.id = id]
    <2>2. r \in Req /\ Asked(r)
      BY DEF NoReq, Req, Asked, PC
    <2>3. Accept(c, r)
      BY <2>1 DEF DeleteMicroserviceConfig
    <2> HIDE DEF r
    <2>4. QED
      BY <2>2, <2>3, AcceptKeeps
  <1>4. QED
    BY <1>1, <1>2, <1>3 DEF Arrival

LEMMA ReadPreviousKeeps ==
  ASSUME RequestInv, NEW c \in Request, ReadPrevious(c)
  PROVE  RequestStepOK
  <1>1. started' \in Nat /\ UNCHANGED <<pubVars, rows, nextId>>
    BY DEF ReadPrevious, RequestInv, Settled
  <1>2. CASE ~Exists(reqs[c].id)
    BY <1>1, <1>2, FinishKeeps, QuietKeeps DEF ReadPrevious
  <1>3. CASE Exists(reqs[c].id)
    <2> DEFINE n == IF reqs[c].op = "update" THEN "check" ELSE "exec"
               k == rows[reqs[c].id].key
               r == [reqs[c] EXCEPT !.pc = n, !.prev = k]
    <2>1. reqs' = [reqs EXCEPT ![c] = r]
      BY <1>3 DEF ReadPrevious
    <2>2. k \in Key
      BY <1>3, RowFacts
    <2>3. n \in PC
      BY DEF PC
    <2> HIDE DEF k, n
    <2>4. r \in Req
      BY <2>2, <2>3, ReqFacts DEF Req
    <2>5. Asked(r)
      BY <2>2, ReqFacts DEF Asked, Req
    <2> HIDE DEF r
    <2>6. QED
      BY <1>1, <2>1, <2>4, <2>5, ReqSet, QuietKeeps
  <1>4. QED
    BY <1>2, <1>3

LEMMA CheckKeeps ==
  ASSUME RequestInv, NEW c \in Request, checkAppSettingsRefs(c)
  PROVE  RequestStepOK
  <1>1. started' \in Nat /\ UNCHANGED <<pubVars, rows, nextId>> /\ reqs[c].pc = "check"
    BY DEF checkAppSettingsRefs, RequestInv, Settled
  <1>2. CASE Finish(c)
    BY <1>1, <1>2, FinishKeeps, QuietKeeps
  <1>3. CASE Goto(c, "exec")
    BY <1>1, <1>3, GotoKeeps, QuietKeeps DEF PC
  <1>4. QED
    BY <1>2, <1>3 DEF checkAppSettingsRefs

(* A committed statement keeps the rows well formed.                       *)
LEMMA RowSet ==
  ASSUME RequestInv, NEW id \in RowId, NEW w \in Row \cup {NoRow}, rows' = [rows EXCEPT ![id] = w]
  PROVE  rows' \in [RowId -> Row \cup {NoRow}]
  BY DEF RequestInv, Settled

LEMMA CommitKeeps ==
  ASSUME RequestInv, NEW c \in Request, Commit(c)
  PROVE  rows' \in [RowId -> Row \cup {NoRow}] /\ nextId' \in Nat
  <1>1. reqs[c].op \in {"create", "update"} => NewRow(c) \in Row
    BY ReqFacts DEF NewRow, Row, Asked, RequestInv, Inv, TypeOK
  <1>2. nextId \in Nat
    BY DEF RequestInv, Settled
  <1>3. CASE Insert(c)
    <2>1. PICK id \in RowId : FreshId(id) /\ rows' = [rows EXCEPT ![id] = NewRow(c)]
      BY <1>3 DEF Insert
    <2>2. NewRow(c) \in Row
      BY <1>1, <1>3 DEF Insert
    <2>3. nextId' \in Nat
      BY <1>2, <2>1 DEF FreshId
    <2>4. QED
      BY <2>1, <2>2, <2>3, RowSet
  <1>4. CASE Update(c)
    BY <1>1, <1>2, <1>4, RowSet DEF Update, Exists
  <1>5. CASE Delete(c)
    BY <1>2, <1>5, RowSet DEF Delete, Exists
  <1>6. QED
    BY <1>3, <1>4, <1>5 DEF Commit

LEMMA PurgeCall ==
  ASSUME NEW c \in Caller, NEW k \in Key, DeleteKey(c, BucketServiceSettings, k)
  PROVE  Next
  BY SettingsBucketAssumption DEF Next

LEMMA PublishCall ==
  ASSUME NEW c \in Caller, NEW k \in Key, NEW p \in Payload, PublishServiceSettings(c, k, p)
  PROVE  Next
  <1>1. BucketServiceSettings \in Bucket \ {BucketFlags}
    BY SettingsBucketAssumption DEF BucketServiceSettings, BucketFlags
  <1>2. PublishDocument(c, BucketServiceSettings, k, p)
    BY DEF PublishServiceSettings
  <1>3. QED
    BY <1>1, <1>2 DEF Next

LEMMA ExecKeeps ==
  ASSUME RequestInv, NEW c \in Request, Exec(c)
  PROVE  RequestStepOK
  <1>1. rows' \in [RowId -> Row \cup {NoRow}] /\ nextId' \in Nat
    BY CommitKeeps DEF Exec
  <1>2. started' \in Nat /\ reqs[c].pc = "exec"
    BY DEF Exec, Commit, Insert, Update, Delete, RequestInv, Settled
  <1>3. CASE Goto(c, "readback") /\ UNCHANGED pubVars
    BY <1>1, <1>2, <1>3, GotoKeeps DEF PC, RequestStepOK, Settled
  <1>4. CASE /\ reqs[c].op = "delete"
             /\ DeleteKey(c, BucketServiceSettings, reqs[c].prev) /\ Goto(c, "purging")
    <2>1. reqs[c].prev \in Key
      BY <1>2, <1>4, ReqFacts DEF Asked
    <2>2. Next
      BY <1>4, <2>1, ReqFacts, PurgeCall
    <2>3. QED
      BY <1>1, <1>2, <1>4, <2>2, GotoKeeps DEF PC, RequestStepOK, Settled
  <1>5. QED
    BY <1>3, <1>4 DEF Exec

LEMMA ExecRefusedKeeps ==
  ASSUME RequestInv, NEW c \in Request, ExecRefused(c)
  PROVE  RequestStepOK
  <1>1. /\ started' \in Nat /\ UNCHANGED <<pubVars, rows, nextId>> /\ Finish(c)
    BY DEF ExecRefused, RequestInv, Settled
  <1>2. QED
    BY <1>1, FinishKeeps, QuietKeeps

LEMMA ReadBackKeeps ==
  ASSUME RequestInv, NEW c \in Request, ReadBack(c)
  PROVE  RequestStepOK
  <1>1. started' \in Nat /\ UNCHANGED <<rows, nextId>> /\ reqs[c].pc = "readback"
    BY DEF ReadBack, RequestInv, Settled
  <1>2. CASE Finish(c) /\ UNCHANGED pubVars
    BY <1>1, <1>2, FinishKeeps, QuietKeeps
  <1>3. CASE \E id \in RowId :
               /\ Exists(id) /\ PublishServiceSettings(c, rows[id].key, rows[id].doc)
               /\ reqs' = [reqs EXCEPT ![c].pc = "publishing", ![c].key = rows[id].key]
    <2>1. PICK id \in RowId :
               /\ Exists(id) /\ PublishServiceSettings(c, rows[id].key, rows[id].doc)
               /\ reqs' = [reqs EXCEPT ![c].pc = "publishing", ![c].key = rows[id].key]
      BY <1>3
    <2> DEFINE k == rows[id].key
               r == [reqs[c] EXCEPT !.pc = "publishing", !.key = k]
    <2>2. k \in Key /\ rows[id].doc \in Payload
      BY <2>1, RowFacts
    <2>3. reqs' = [reqs EXCEPT ![c] = r]
      BY <2>1
    <2>4. Next
      BY <2>1, <2>2, ReqFacts, PublishCall
    <2> HIDE DEF k
    <2>5. r \in Req
      BY <2>2, ReqFacts DEF Req, PC
    <2>6. Asked(r)
      BY <1>1, <2>2, ReqFacts DEF Asked, Req
    <2> HIDE DEF r
    <2>7. reqs' \in [Request -> Req] /\ \A d \in Request : Asked(reqs'[d])
      BY <2>3, <2>5, <2>6, ReqSet
    <2>8. QED
      BY <1>1, <2>4, <2>7 DEF RequestInv, Settled, RequestStepOK
  <1>4. QED
    BY <1>2, <1>3 DEF ReadBack

LEMMA AfterPublishKeeps ==
  ASSUME RequestInv, NEW c \in Request, AfterPublish(c) \/ AfterPurge(c)
  PROVE  RequestStepOK
  <1>1. /\ started' \in Nat /\ UNCHANGED <<rows, nextId>>
        /\ reqs[c].pc \in {"publishing", "purging"}
    BY DEF AfterPublish, AfterPurge, RequestInv, Settled
  <1>2. CASE Taken(c) /\ Finish(c)
    <2>1. Next
      BY <1>2, ReqFacts DEF Next, Exchange
    <2>2. QED
      BY <1>1, <1>2, <2>1, FinishKeeps DEF RequestInv, Settled, RequestStepOK
  <1>3. CASE Moved(c) /\ DeleteKey(c, BucketServiceSettings, reqs[c].prev) /\ Goto(c, "purging")
    <2>1. reqs[c].prev \in Key
      BY <1>1, <1>3, ReqFacts DEF Asked, Moved
    <2>2. Next
      BY <1>3, <2>1, ReqFacts, PurgeCall
    <2>3. QED
      BY <1>1, <1>3, <2>2, GotoKeeps DEF PC, RequestInv, Settled, RequestStepOK
  <1>4. QED
    BY <1>2, <1>3 DEF AfterPublish, AfterPurge

LEMMA DatabaseFailsKeeps ==
  ASSUME RequestInv, NEW c \in Request, DatabaseFails(c)
  PROVE  RequestStepOK
  <1>1. /\ started' \in Nat /\ UNCHANGED pubVars
        /\ reqs' \in [Request -> Req] /\ \A d \in Request : Asked(reqs'[d])
    BY FinishKeeps DEF DatabaseFails, RequestInv, Settled
  <1>2. rows' \in [RowId -> Row \cup {NoRow}] /\ nextId' \in Nat
    BY CommitKeeps DEF DatabaseFails, RequestInv, Settled
  <1>3. QED
    BY <1>1, <1>2 DEF RequestStepOK, Settled

LEMMA CrashKeeps ==
  ASSUME RequestInv, Crash
  PROVE  RequestStepOK
  <1>1. reqs' \in [Request -> Req] /\ \A d \in Request : Asked(reqs'[d])
    BY NoReqType DEF Crash
  <1>2. QED
    BY <1>1 DEF Crash, Next, RequestInv, Settled, RequestStepOK

LEMMA OthersKeep ==
  ASSUME RequestInv, UNCHANGED ssVars, [Next]_pubVars
  PROVE  RequestStepOK
  BY DEF ssVars, RequestInv, Settled, RequestStepOK

LEMMA RequestNext == RequestInv /\ [SSNext]_vars => RequestStepOK
  <1> SUFFICES ASSUME RequestInv, [SSNext]_vars PROVE RequestStepOK
    OBVIOUS
  <1>1. CASE \E c \in Request : Arrival(c) \/ RequestStep(c) \/ DatabaseFails(c)
    BY <1>1, ArrivalKeeps, ReadPreviousKeeps, CheckKeeps, ExecKeeps, ExecRefusedKeeps,
       ReadBackKeeps, AfterPublishKeeps, DatabaseFailsKeeps DEF RequestStep
  <1>2. CASE \E c \in Request : Distribute(c) /\ UNCHANGED ssVars
    <2>1. PICK c \in Request : Distribute(c) /\ UNCHANGED ssVars
      BY <1>2
    <2>2. c \in Caller
      BY RequestAssumption
    <2>3. Next
      BY <2>1, <2>2 DEF Next, Distribute, Exchange
    <2>4. QED
      BY <2>1, <2>3, OthersKeep
  <1>3. CASE (EnsureBuckets \/ Tick) /\ UNCHANGED ssVars
    BY <1>3, OthersKeep DEF Next
  <1>4. CASE Crash
    BY <1>4, CrashKeeps
  <1>5. CASE UNCHANGED vars
    BY <1>5, OthersKeep DEF vars
  <1>6. QED
    BY <1>1, <1>2, <1>3, <1>4, <1>5 DEF SSNext

LEMMA RequestInit == SSInit => Init /\ Inv /\ Settled
  BY InitInv, NoReqType DEF SSInit, Settled

(* The requests use the publisher only through its operations, each with   *)
(* arguments it takes: to the publisher they are callers like any other.   *)
THEOREM RequestsAreCallers == SSSpec => Spec /\ []RequestInv
  <1>1. SSInit => Init /\ Inv /\ Settled
    BY RequestInit
  <1>2. Inv /\ Settled /\ [SSNext]_vars => Settled' /\ [Next]_pubVars
    BY RequestNext DEF RequestInv, RequestStepOK
  <1>3. Inv /\ [Next]_pubVars => Inv'
    BY NextInv
  <1>4. QED
    BY <1>1, <1>2, <1>3, PTL DEF SSSpec, Spec, RequestInv

(* What a caller of the publisher may rely on, the admin requests of       *)
(* internal/servicesettings rely on: a write-through that answers success  *)
(* was one indivisible write of its key.                                   *)
COROLLARY RequestsWriteAtomically == SSSpec => PublishIsAtomic
  BY RequestsAreCallers, PublishAtomic, PTL

-----------------------------------------------------------------------------
(* Published documents were committed.  The invariant follows a document   *)
(* from the read-back to the bucket: a call under way, a message on the    *)
(* wire and a live entry all carry what the set C of commits holds.        *)

InRecord(C, m) ==
    m.bucket = BucketServiceSettings => [key |-> m.key, doc |-> m.payload] \in C

CallsIn(M, C) == \A c \in Caller : M[c].pc \in {"get", "write"} => InRecord(C, M[c])
WireIn(L, C) == \A c \in Caller : L[c].kind = "put" => InRecord(C, L[c])
StoreIn(K, C) ==
    \A k \in Key : K[BucketServiceSettings].entry[k].revision # 0
                   => [key |-> k, doc |-> K[BucketServiceSettings].entry[k].payload] \in C

OnRecord == CallsIn(calls, committed) /\ WireIn(late, committed) /\ StoreIn(kv, committed)

LEMMA InMore ==
  ASSUME NEW C, NEW D, C \subseteq D
  PROVE  /\ \A m : InRecord(C, m) => InRecord(D, m)
         /\ CallsIn(calls, C) => CallsIn(calls, D)
         /\ WireIn(late, C) => WireIn(late, D)
         /\ StoreIn(kv, C) => StoreIn(kv, D)
  BY DEF InRecord, CallsIn, WireIn, StoreIn

(* A put of a document on record, and a purge.                             *)
LEMMA StorePuts ==
  ASSUME NEW C, StoreIn(kv, C), kv \in [Bucket -> BucketState], NEW m \in Call \cup Message,
         InRecord(C, m), kv' = [kv EXCEPT ![m.bucket] = KvPut(@, m.key, m.payload, m.stamp)]
  PROVE  StoreIn(kv', C)
  <1>1. /\ Advance(kv, kv', m.bucket, m.key)
        /\ kv'[m.bucket].entry[m.key].payload = m.payload
    BY PutAdvances
  <1>2. BucketServiceSettings \in Bucket
    BY SettingsBucketAssumption
  <1> SUFFICES ASSUME NEW k \in Key, kv'[BucketServiceSettings].entry[k].revision # 0
               PROVE  [key |-> k, doc |-> kv'[BucketServiceSettings].entry[k].payload] \in C
    BY DEF StoreIn
  <1>3. CASE m.bucket = BucketServiceSettings /\ m.key = k
    BY <1>1, <1>3 DEF InRecord
  <1>4. CASE ~(m.bucket = BucketServiceSettings /\ m.key = k)
    <2>1. kv'[BucketServiceSettings].entry[k] = kv[BucketServiceSettings].entry[k]
      BY <1>1, <1>2, <1>4 DEF Advance
    <2>2. QED
      BY <2>1 DEF StoreIn
  <1>5. QED
    BY <1>3, <1>4

LEMMA StorePurges ==
  ASSUME NEW C, StoreIn(kv, C), kv \in [Bucket -> BucketState], NEW b \in Bucket, NEW j \in Key,
         kv' = [kv EXCEPT ![b] = KvPurge(@, j)]
  PROVE  StoreIn(kv', C)
  <1>1. Advance(kv, kv', b, j) /\ kv'[b].entry[j] = Absent
    BY PurgeAdvances
  <1>2. BucketServiceSettings \in Bucket
    BY SettingsBucketAssumption
  <1> SUFFICES ASSUME NEW k \in Key, kv'[BucketServiceSettings].entry[k].revision # 0
               PROVE  [key |-> k, doc |-> kv'[BucketServiceSettings].entry[k].payload] \in C
    BY DEF StoreIn
  <1>3. ~(b = BucketServiceSettings /\ j = k)
    BY <1>1 DEF Absent
  <1>4. kv'[BucketServiceSettings].entry[k] = kv[BucketServiceSettings].entry[k]
    BY <1>1, <1>2, <1>3 DEF Advance
  <1>5. QED
    BY <1>4 DEF StoreIn

(* One call moves: it is answered, purges, or carries what is on record.   *)
LEMMA CallsMove ==
  ASSUME NEW C, CallsIn(calls, C), calls \in [Caller -> Call], NEW c \in Caller, NEW n,
         calls' = [calls EXCEPT ![c] = n], n.pc \in {"get", "write"} => InRecord(C, n)
  PROVE  CallsIn(calls', C)
  <1>1. calls'[c] = n /\ \A d \in Caller : d # c => calls'[d] = calls[d]
    OBVIOUS
  <1>2. QED
    BY <1>1 DEF CallsIn

LEMMA CallsReturn ==
  ASSUME NEW C, CallsIn(calls, C), calls \in [Caller -> Call], NEW c \in Caller,
         NEW a \in Answer, Return(c, a)
  PROVE  CallsIn(calls', C)
  <1>1. [NoCall EXCEPT !.pc = a].pc \notin {"get", "write"}
    BY DEF NoCall, Answer
  <1>2. QED
    BY <1>1, CallsMove DEF Return

(* The steps of the publisher that start no publish.                       *)
LEMMA ExchangeOnRecord ==
  ASSUME NEW C, Inv, NEW c \in Caller, Exchange(c),
         CallsIn(calls, C), WireIn(late, C), StoreIn(kv, C)
  PROVE  CallsIn(calls', C) /\ WireIn(late', C) /\ StoreIn(kv', C)
  <1>1. /\ calls \in [Caller -> Call] /\ late \in [Caller -> Message]
        /\ kv \in [Bucket -> BucketState] /\ calls[c] \in Call
        /\ calls[c].bucket \in Bucket /\ calls[c].key \in Key
    BY DEF Inv, TypeOK, Call
  <1>2. calls[c].pc \in {"get", "write"} => InRecord(C, calls[c])
    BY DEF CallsIn
  <1>3. CASE \E a \in Answer : Return(c, a) /\ UNCHANGED <<kv, late>>
    BY <1>1, <1>3, CallsReturn
  <1>4. CASE Current(c)
    <2> DEFINE m == calls[c]
               cur == kv[m.bucket].entry[m.key]
               v == Build(m.bucket, m.payload, cur)
               n == [m EXCEPT !.pc = "write", !.revision = cur.revision, !.stamp = v.write.stamp]
    <2>1. CASE Return(c, "skipped")
      BY <1>3, <1>4, <2>1 DEF Answer, Current
    <2>2. CASE calls' = [calls EXCEPT ![c] = n]
      <3>1. n.bucket = m.bucket /\ n.key = m.key /\ n.payload = m.payload
        BY <1>1 DEF Call
      <3>2. InRecord(C, n)
        BY <1>2, <1>4, <3>1 DEF Current, InRecord
      <3> HIDE DEF n
      <3>3. QED
        BY <1>1, <1>4, <2>2, <3>2, CallsMove DEF Current
    <2>3. Return(c, "skipped") \/ calls' = [calls EXCEPT ![c] = n]
      BY <1>4 DEF Current
    <2>4. QED
      BY <2>1, <2>2, <2>3
  <1>5. CASE Write(c)
    BY <1>1, <1>2, <1>5, CallsReturn, StorePuts DEF Write, Answer
  <1>6. CASE WriteConflict(c)
    <2> DEFINE n == [calls[c] EXCEPT !.pc = "get", !.attempt = calls[c].attempt + 1]
    <2>1. CASE Return(c, "conflict")
      BY <1>3, <1>6, <2>1 DEF Answer, WriteConflict
    <2>2. CASE calls' = [calls EXCEPT ![c] = n]
      <3>1. n.bucket = calls[c].bucket /\ n.key = calls[c].key /\ n.payload = calls[c].payload
        BY <1>1 DEF Call
      <3>2. InRecord(C, n)
        BY <1>2, <1>6, <3>1 DEF WriteConflict, InRecord
      <3> HIDE DEF n
      <3>3. QED
        BY <1>1, <1>6, <2>2, <3>2, CallsMove DEF WriteConflict
    <2>3. Return(c, "conflict") \/ calls' = [calls EXCEPT ![c] = n]
      BY <1>6 DEF WriteConflict
    <2>4. QED
      BY <2>1, <2>2, <2>3
  <1>7. CASE Purge(c)
    BY <1>1, <1>7, CallsReturn, StorePurges DEF Purge, Answer
  <1>8. CASE ExchangeTimesOut(c)
    <2> DEFINE m == calls[c]
               n == [kind |-> IF m.pc = "write" THEN "put" ELSE "purge",
                     bucket |-> m.bucket, key |-> m.key, payload |-> m.payload,
                     revision |-> m.revision, stamp |-> m.stamp]
    <2>1. late' = [late EXCEPT ![c] = n] /\ Return(c, "failed") /\ UNCHANGED kv
      BY <1>8 DEF ExchangeTimesOut
    <2>2. n.kind = "put" => InRecord(C, n)
      BY <1>2 DEF InRecord
    <2> HIDE DEF n
    <2>3. late'[c] = n /\ \A d \in Caller : d # c => late'[d] = late[d]
      BY <1>1, <2>1
    <2>4. WireIn(late', C)
      BY <2>2, <2>3 DEF WireIn
    <2>5. QED
      BY <1>1, <2>1, <2>4, CallsReturn DEF Answer
  <1>9. CASE ExchangeFails(c) \/ Taken(c)
    BY <1>3, <1>9 DEF ExchangeFails, Taken, Answer
  <1>10. QED
    BY <1>4, <1>5, <1>6, <1>7, <1>8, <1>9 DEF Exchange

LEMMA NetworkOnRecord ==
  ASSUME NEW C, Inv, NEW c \in Caller, Network(c),
         CallsIn(calls, C), WireIn(late, C), StoreIn(kv, C)
  PROVE  CallsIn(calls', C) /\ WireIn(late', C) /\ StoreIn(kv', C)
  <1>1. /\ late \in [Caller -> Message] /\ kv \in [Bucket -> BucketState]
        /\ late[c] \in Message /\ late[c].bucket \in Bucket /\ late[c].key \in Key
    BY DEF Inv, TypeOK, Message
  <1>2. late' = [late EXCEPT ![c] = NoMessage] /\ UNCHANGED calls
    BY DEF Network, LatePut, LatePurge, LateLost
  <1>3. late'[c].kind = "none" /\ \A d \in Caller : d # c => late'[d] = late[d]
    BY <1>1, <1>2 DEF NoMessage
  <1>4. CallsIn(calls', C) /\ WireIn(late', C)
    BY <1>2, <1>3 DEF CallsIn, WireIn
  <1>5. CASE UNCHANGED kv
    BY <1>4, <1>5
  <1>6. CASE LatePut(c) /\ ~UNCHANGED kv
    <2>1. kv' = [kv EXCEPT ![late[c].bucket] = KvPut(@, late[c].key, late[c].payload, late[c].stamp)]
      BY <1>6 DEF LatePut
    <2>2. InRecord(C, late[c])
      BY <1>6 DEF LatePut, WireIn
    <2>3. QED
      BY <1>1, <1>4, <2>1, <2>2, StorePuts
  <1>7. CASE LatePurge(c)
    BY <1>1, <1>4, <1>7, StorePurges DEF LatePurge
  <1>8. QED
    BY <1>5, <1>6, <1>7 DEF Network, LateLost

LEMMA BeginOnRecord ==
  ASSUME NEW C, Inv, NEW c \in Caller, NEW b, NEW k \in Key, NEW p, NEW pc,
         Begin(c, b, k, p, pc),
         pc = "purge" \/ (b = BucketServiceSettings => [key |-> k, doc |-> p] \in C),
         CallsIn(calls, C), WireIn(late, C), StoreIn(kv, C)
  PROVE  CallsIn(calls', C) /\ WireIn(late', C) /\ StoreIn(kv', C)
  <1>1. calls \in [Caller -> Call] /\ UNCHANGED <<kv, late>>
    BY DEF Inv, TypeOK, Begin
  <1>2. CASE Return(c, "failed")
    BY <1>1, <1>2, CallsReturn DEF Answer
  <1>3. CASE calls' = [calls EXCEPT ![c] = Started(b, k, p, pc)]
    <2>1. Started(b, k, p, pc).pc \in {"get", "write"} => InRecord(C, Started(b, k, p, pc))
      BY DEF Started, InRecord
    <2>2. QED
      BY <1>1, <1>3, <2>1, CallsMove
  <1>4. QED
    BY <1>2, <1>3 DEF Begin

LEMMA WatchRecords ==
  ASSUME Watch
  PROVE  /\ committed \subseteq committed'
         /\ \A id \in RowId : rows'[id] # NoRow =>
               [key |-> rows'[id].key, doc |-> rows'[id].doc] \in committed'
  BY DEF Watch

LEMMA OnRecordNext ==
  ASSUME RequestInv, OnRecord, SSNext, Watch
  PROVE  OnRecord'
  <1> DEFINE C == committed'
             Goal == CallsIn(calls', C) /\ WireIn(late', C) /\ StoreIn(kv', C)
  <1>1. CallsIn(calls, C) /\ WireIn(late, C) /\ StoreIn(kv, C)
    BY WatchRecords, InMore DEF OnRecord
  <1>2. \A id \in RowId : rows'[id] # NoRow => [key |-> rows'[id].key, doc |-> rows'[id].doc] \in C
    BY WatchRecords
  <1>3. Inv
    BY DEF RequestInv
  <1> SUFFICES Goal
    BY DEF OnRecord
  <1> HIDE DEF C
  <1>4. CASE UNCHANGED <<kv, calls, late>>
    BY <1>1, <1>4
  <1>5. ASSUME NEW c \in Request, RequestStep(c)
        PROVE  Goal
    <2>1. c \in Caller
      BY RequestAssumption
    <2>2. CASE ReadPrevious(c) \/ checkAppSettingsRefs(c) \/ ExecRefused(c)
      BY <1>4, <2>2 DEF ReadPrevious, checkAppSettingsRefs, ExecRefused, pubVars
    <2>3. CASE Exec(c)
      <3>1. CASE UNCHANGED pubVars
        BY <1>4, <3>1 DEF pubVars
      <3>2. CASE reqs[c].op = "delete" /\ DeleteKey(c, BucketServiceSettings, reqs[c].prev)
        <4>1. reqs[c].prev \in Key
          BY <2>3, <3>2, ReqFacts DEF Asked, Exec, Commit, Insert, Update, Delete
        <4>2. QED
          BY <1>1, <1>3, <2>1, <3>2, <4>1, BeginOnRecord DEF DeleteKey
      <3>3. QED
        BY <2>3, <3>1, <3>2 DEF Exec
    <2>4. CASE ReadBack(c)
      <3>1. CASE UNCHANGED pubVars
        BY <1>4, <3>1 DEF pubVars
      <3>2. CASE \E id \in RowId : Exists(id) /\ PublishServiceSettings(c, rows[id].key, rows[id].doc)
        <4>1. PICK id \in RowId : Exists(id) /\ PublishServiceSettings(c, rows[id].key, rows[id].doc)
          BY <3>2
        <4> DEFINE k == rows[id].key
                   d == rows[id].doc
        <4>2. [key |-> k, doc |-> d] \in C /\ k \in Key
          BY <1>2, <2>4, <4>1, RowFacts DEF ReadBack, Exists
        <4>3. PublishDocument(c, BucketServiceSettings, k, d)
          BY <4>1 DEF PublishServiceSettings
        <4> HIDE DEF k, d
        <4>4. CASE Begin(c, BucketServiceSettings, k, d, "get")
          BY <1>1, <1>3, <2>1, <4>2, <4>4, BeginOnRecord
        <4>5. CASE Return(c, "failed") /\ UNCHANGED <<kv, late>>
          <5>1. calls \in [Caller -> Call]
            BY <1>3 DEF Inv, TypeOK
          <5>2. QED
            BY <1>1, <2>1, <4>5, <5>1, CallsReturn DEF Answer
        <4>6. QED
          BY <4>3, <4>4, <4>5 DEF PublishDocument
      <3>3. QED
        BY <2>4, <3>1, <3>2 DEF ReadBack
    <2>5. CASE AfterPublish(c) \/ AfterPurge(c)
      <3>1. CASE Taken(c)
        BY <1>1, <1>3, <2>1, <3>1, ExchangeOnRecord DEF Exchange
      <3>2. CASE reqs[c].pc = "publishing" /\ Moved(c) /\ DeleteKey(c, BucketServiceSettings, reqs[c].prev)
        <4>1. reqs[c].prev \in Key
          BY <3>2, ReqFacts DEF Asked, Moved
        <4>2. QED
          BY <1>1, <1>3, <2>1, <3>2, <4>1, BeginOnRecord DEF DeleteKey
      <3>3. QED
        BY <2>5, <3>1, <3>2 DEF AfterPublish, AfterPurge
    <2>6. QED
      BY <1>5, <2>2, <2>3, <2>4, <2>5 DEF RequestStep
  <1>6. ASSUME NEW c \in Request, Arrival(c) \/ DatabaseFails(c)
        PROVE  Goal
    BY <1>4, <1>6 DEF Arrival, CreateMicroserviceConfig, UpdateMicroserviceConfig,
       DeleteMicroserviceConfig, Accept, DatabaseFails, pubVars
  <1>7. ASSUME NEW c \in Request, Distribute(c)
        PROVE  Goal
    <2>1. c \in Caller /\ (Exchange(c) \/ Network(c))
      BY <1>7, RequestAssumption DEF Distribute, Exchange
    <2>2. QED
      BY <1>1, <1>3, <2>1, ExchangeOnRecord, NetworkOnRecord
  <1>8. CASE EnsureBuckets \/ Tick
    BY <1>4, <1>8 DEF EnsureBuckets, Tick
  <1>9. CASE Crash
    <2>1. calls' = [c \in Caller |-> NoCall] /\ UNCHANGED <<kv, late>>
      BY <1>9 DEF Crash, Restart
    <2>2. CallsIn(calls', C)
      BY <2>1 DEF CallsIn, NoCall
    <2>3. QED
      BY <1>1, <2>1, <2>2
  <1>10. QED
    BY <1>5, <1>6, <1>7, <1>8, <1>9 DEF SSNext

LEMMA OnRecordInit == WatchedInit => OnRecord
  <1> SUFFICES ASSUME WatchedInit PROVE OnRecord
    OBVIOUS
  <1>1. CallsIn(calls, committed) /\ WireIn(late, committed)
    BY DEF WatchedInit, SSInit, Init, CallsIn, WireIn, NoCall, NoMessage
  <1>2. StoreIn(kv, committed)
    BY SettingsBucketAssumption DEF WatchedInit, SSInit, Init, StoreIn, EmptyBucket, Absent
  <1>3. QED
    BY <1>1, <1>2 DEF OnRecord

(* The history only watches.                                               *)
LEMMA WatchedSteps == WatchedSpec => SSSpec
  <1>1. WatchedInit => SSInit
    BY DEF WatchedInit
  <1>2. [SSNext /\ Watch]_watchedVars => [SSNext]_vars
    BY DEF watchedVars
  <1>3. QED
    BY <1>1, <1>2, PTL DEF WatchedSpec, SSSpec

(* Whatever fails, overlaps or is late, the rows and the requests of       *)
(* internal/servicesettings keep their types: a request that reaches its   *)
(* INSERT or UPDATE has a key and a document, one that reaches its purge   *)
(* has read the key to purge.                                              *)
THEOREM RequestsTypeCorrect == WatchedSpec => []SSTypeOK
  <1>1. RequestInv => SSTypeOK
    BY DEF RequestInv, Settled, Inv, SSTypeOK
  <1>2. QED
    BY <1>1, WatchedSteps, RequestsAreCallers, PTL

(* No consumer is served a document under a key for which the database did *)
(* not commit it first: not after a timeout whose message lands later, not *)
(* when the row changed between the commit and the read-back.              *)
THEOREM CommittedFirst == WatchedSpec => []PublishedWasCommitted
  <1>1. WatchedInit => OnRecord
    BY OnRecordInit
  <1>2. RequestInv /\ OnRecord /\ [SSNext /\ Watch]_watchedVars => OnRecord'
    <2>1. OnRecord /\ UNCHANGED watchedVars => OnRecord'
      BY DEF OnRecord, watchedVars, vars, pubVars, histVars
    <2>2. QED
      BY <2>1, OnRecordNext
  <1>3. OnRecord => PublishedWasCommitted
    BY DEF OnRecord, StoreIn, PublishedWasCommitted, Live
  <1>4. QED
    BY <1>1, <1>2, <1>3, WatchedSteps, RequestsAreCallers, PTL DEF WatchedSpec

-----------------------------------------------------------------------------
(* Guarded updates, on PostgreSQL: ids are not given twice and a later     *)
(* version of a row has a later UPDATED_AT, so a row that changed since    *)
(* the caller read it is gone for good or carries a later one.             *)

Version(c) ==
    /\ reqs[c].pc # "idle" /\ reqs[c].op = "update"
    /\ reqs[c].id \in RowId /\ reqs[c].id < nextId
    /\ outdated[c] = FALSE => rows[reqs[c].id].at = reqs[c].expected
    /\ outdated[c] = TRUE => \/ rows[reqs[c].id] = NoRow
                             \/ rows[reqs[c].id].at > reqs[c].expected

Versions ==
    /\ \A id \in RowId : rows[id] # NoRow => rows[id].at <= clock /\ id < nextId
    /\ \A c \in Request : reqs[c].expected # 0 => Version(c)
    /\ outdated \in [Request -> BOOLEAN]

(* What a step does to the rows: at most one changes, by a commit.         *)
LEMMA CommitOnly ==
  ASSUME RequestInv, SSNext
  PROVE  \/ UNCHANGED <<rows, nextId>>
         \/ \E c \in Request : /\ Commit(c) /\ UNCHANGED clock
                               /\ \A d \in Request : d # c => reqs'[d] = reqs[d]
  <1>1. ASSUME NEW c \in Request, Exec(c) \/ (DatabaseFails(c) /\ Commit(c))
        PROVE  /\ Commit(c) /\ UNCHANGED clock
               /\ \A d \in Request : d # c => reqs'[d] = reqs[d]
    <2>1. Commit(c)
      BY <1>1 DEF Exec
    <2>2. UNCHANGED clock
      BY <1>1 DEF Exec, DatabaseFails, pubVars, DeleteKey, Begin
    <2>3. \A d \in Request : d # c => reqs'[d] = reqs[d]
      BY <1>1 DEF Exec, DatabaseFails, Goto, Finish, RequestInv, Settled
    <2>4. QED
      BY <2>1, <2>2, <2>3
  <1>2. ASSUME NEW c \in Request, Arrival(c) \/ RequestStep(c) \/ DatabaseFails(c),
               ~UNCHANGED <<rows, nextId>>
        PROVE  Exec(c) \/ (DatabaseFails(c) /\ Commit(c))
    BY <1>2 DEF Arrival, CreateMicroserviceConfig, UpdateMicroserviceConfig,
       DeleteMicroserviceConfig, Accept, RequestStep, ReadPrevious, checkAppSettingsRefs,
       ExecRefused, ReadBack, AfterPublish, AfterPurge, DatabaseFails
  <1>3. CASE \E c \in Request : Arrival(c) \/ RequestStep(c) \/ DatabaseFails(c)
    BY <1>1, <1>2, <1>3
  <1>4. CASE Crash
    BY <1>4 DEF Crash
  <1>5. QED
    BY <1>3, <1>4 DEF SSNext, ssVars

LEMMA ClockSteps ==
  ASSUME RequestInv, SSNext
  PROVE  clock \in Nat /\ clock' \in Nat /\ clock' >= clock
  <1>1. clock \in Nat
    BY DEF RequestInv, Inv, TypeOK
  <1>2. [Next]_pubVars
    BY RequestNext DEF RequestStepOK
  <1>3. clock' = clock \/ clock' = clock + 1
    BY <1>2 DEF Next, pubVars, PublishFlag, PublishDocument, DeleteKey, Begin, Exchange, Network,
       Current, Write, WriteConflict, Purge, ExchangeFails, ExchangeTimesOut, Taken,
       LatePut, LatePurge, LateLost, EnsureBuckets, Restart, Tick
  <1>4. QED
    BY <1>1, <1>3

(* What a commit does to a row whose id was given before.                  *)
LEMMA CommitRows ==
  ASSUME RequestInv, Versions, ~Sqlite, NEW c \in Request, Commit(c), NEW id \in RowId
  PROVE  /\ nextId' >= nextId /\ nextId' \in Nat /\ nextId \in Nat
         /\ rows'[id] # NoRow => id < nextId'
         /\ \/ rows'[id] = rows[id]
            \/ rows'[id] = NoRow
            \/ rows'[id].at = clock /\ rows[id] # NoRow /\ rows[id].at < clock
            \/ rows'[id].at = clock /\ ~(id < nextId)
  <1>1. nextId \in Nat /\ rows \in [RowId -> Row \cup {NoRow}]
    BY DEF RequestInv, Settled
  <1>2. NewRow(c).at = clock
    BY DEF NewRow
  <1>3. rows[id] # NoRow => id < nextId
    BY DEF Versions
  <1>4. id \in Nat
    BY RowIdAssumption
  <1>5. CASE Insert(c)
    <2>1. PICK j \in RowId : FreshId(j) /\ rows' = [rows EXCEPT ![j] = NewRow(c)]
      BY <1>5 DEF Insert
    <2>2. j = nextId /\ nextId' = nextId + 1
      BY <2>1 DEF FreshId
    <2>3. id = j => rows'[id] = NewRow(c)
      BY <1>1, <2>1
    <2>4. id # j => rows'[id] = rows[id]
      BY <1>1, <2>1
    <2>5. QED
      BY <1>1, <1>2, <1>3, <1>4, <2>2, <2>3, <2>4
  <1>6. CASE Update(c)
    <2> DEFINE j == reqs[c].id
    <2>1. /\ rows' = [rows EXCEPT ![j] = NewRow(c)] /\ UNCHANGED nextId
          /\ j \in RowId /\ rows[j] # NoRow /\ rows[j].at < clock
      BY <1>6 DEF Update, Exists
    <2> HIDE DEF j
    <2>2. id = j => rows'[id] = NewRow(c)
      BY <1>1, <2>1
    <2>3. id # j => rows'[id] = rows[id]
      BY <1>1, <2>1
    <2>4. QED
      BY <1>1, <1>2, <1>3, <1>4, <2>1, <2>2, <2>3
  <1>7. CASE Delete(c)
    <2>1. rows' = [rows EXCEPT ![reqs[c].id] = NoRow] /\ UNCHANGED nextId
      BY <1>7 DEF Delete
    <2>2. rows'[id] = NoRow \/ rows'[id] = rows[id]
      BY <1>1, <2>1
    <2>3. QED
      BY <1>1, <1>3, <1>4, <2>1, <2>2
  <1>8. QED
    BY <1>5, <1>6, <1>7 DEF Commit

(* A request that names a version goes on, or has just arrived with the    *)
(* version it read.                                                        *)
GoesOn(d) ==
    /\ reqs[d].expected = reqs'[d].expected /\ reqs[d].id = reqs'[d].id
    /\ reqs[d].op = reqs'[d].op /\ reqs'[d].pc # "idle"

Arrives(d) ==
    /\ reqs[d].pc = "idle" /\ reqs'[d].pc # "idle" /\ reqs'[d].op = "update"
    /\ Exists(reqs'[d].id) /\ reqs'[d].expected = rows[reqs'[d].id].at
    /\ UNCHANGED <<rows, nextId>>

LEMMA ReqMoves ==
  ASSUME RequestInv, Versions, NEW d \in Request, reqs'[d].expected # 0, NEW c \in Request, NEW r,
         reqs' = [reqs EXCEPT ![c] = r], d = c /\ r.expected # 0 => GoesOn(d) \/ Arrives(d)
  PROVE  GoesOn(d) \/ Arrives(d)
  <1>1. CASE d = c
    BY <1>1 DEF RequestInv, Settled
  <1>2. CASE d # c
    <2>1. reqs'[d] = reqs[d]
      BY <1>2 DEF RequestInv, Settled
    <2>2. reqs[d].pc # "idle"
      BY <2>1 DEF Versions, Version
    <2>3. QED
      BY <2>1, <2>2 DEF GoesOn
  <1>3. QED
    BY <1>1, <1>2

LEMMA GotoGoesOn ==
  ASSUME RequestInv, Versions, NEW d \in Request, reqs'[d].expected # 0, NEW c \in Request,
         NEW pc \in PC \ {"idle"}, Goto(c, pc)
  PROVE  GoesOn(d) \/ Arrives(d)
  <1> DEFINE r == [reqs[c] EXCEPT !.pc = pc]
  <1>1. reqs' = [reqs EXCEPT ![c] = r]
    BY DEF Goto
  <1>2. reqs'[c] = r
    BY <1>1 DEF RequestInv, Settled
  <1>3. r.expected = reqs[c].expected /\ r.id = reqs[c].id /\ r.op = reqs[c].op /\ r.pc # "idle"
    BY ReqFacts DEF Req
  <1>4. d = c => GoesOn(d)
    BY <1>2, <1>3 DEF GoesOn
  <1> HIDE DEF r
  <1>5. QED
    BY <1>1, <1>4, ReqMoves

LEMMA FinishGoesOn ==
  ASSUME RequestInv, Versions, NEW d \in Request, reqs'[d].expected # 0, NEW c \in Request, Finish(c)
  PROVE  GoesOn(d) \/ Arrives(d)
  BY ReqMoves, NoReqType DEF Finish

LEMMA ReqSteps ==
  ASSUME RequestInv, Versions, SSNext, NEW d \in Request, reqs'[d].expected # 0
  PROVE  GoesOn(d) \/ Arrives(d)
  <1> DEFINE Goal == GoesOn(d) \/ Arrives(d)
  <1>1. ASSUME NEW c \in Request, Arrival(c)
        PROVE  Goal
    <2>1. CASE \E k \in Key, x \in Payload : CreateMicroserviceConfig(c, k, x)
      <3>1. PICK k \in Key, x \in Payload : CreateMicroserviceConfig(c, k, x)
        BY <2>1
      <3> DEFINE r == [NoReq EXCEPT !.op = "create", !.pc = "check", !.key = k, !.doc = x]
      <3>2. Accept(c, r) /\ r.expected = 0
        BY <3>1 DEF CreateMicroserviceConfig, NoReq
      <3> HIDE DEF r
      <3>3. QED
        BY <3>2, ReqMoves DEF Accept
    <2>2. CASE \E id \in RowId, k \in Key, x \in Payload, guarded \in Opting :
                  UpdateMicroserviceConfig(c, id, k, x, guarded)
      <3>1. PICK id \in RowId, k \in Key, x \in Payload, guarded \in Opting :
                  UpdateMicroserviceConfig(c, id, k, x, guarded)
        BY <2>2
      <3> DEFINE e == IF guarded THEN rows[id].at ELSE 0
                 r == [NoReq EXCEPT !.op = "update", !.pc = "previous", !.id = id,
                                    !.key = k, !.doc = x, !.expected = e]
      <3>2. Accept(c, r) /\ (guarded => Exists(id))
        BY <3>1 DEF UpdateMicroserviceConfig
      <3>3. r.expected = e /\ r.id = id /\ r.op = "update" /\ r.pc = "previous"
        BY DEF NoReq
      <3>4. reqs'[c] = r
        BY <3>2 DEF Accept, RequestInv, Settled
      <3>5. d = c /\ r.expected # 0 => Arrives(d)
        BY <3>2, <3>3, <3>4 DEF Arrives, Accept, Idle
      <3> HIDE DEF r
      <3>6. QED
        BY <3>2, <3>5, ReqMoves DEF Accept
    <2>3. CASE \E id \in RowId : DeleteMicroserviceConfig(c, id)
      <3>1. PICK id \in RowId : DeleteMicroserviceConfig(c, id)
        BY <2>3
      <3> DEFINE r == [NoReq EXCEPT !.op = "delete", !.pc = "previous", !.id = id]
      <3>2. Accept(c, r) /\ r.expected = 0
        BY <3>1 DEF DeleteMicroserviceConfig, NoReq
      <3> HIDE DEF r
      <3>3. QED
        BY <3>2, ReqMoves DEF Accept
    <2>4. QED
      BY <1>1, <2>1, <2>2, <2>3 DEF Arrival
  <1>2. ASSUME NEW c \in Request, RequestStep(c) \/ DatabaseFails(c)
        PROVE  Goal
    <2>1. CASE Finish(c)
      BY <2>1, FinishGoesOn
    <2>2. CASE Goto(c, "exec") \/ Goto(c, "readback") \/ Goto(c, "purging")
      BY <2>2, GotoGoesOn DEF PC
    <2>3. CASE ReadPrevious(c) /\ Exists(reqs[c].id)
      <3> DEFINE n == IF reqs[c].op = "update" THEN "check" ELSE "exec"
                 r == [reqs[c] EXCEPT !.pc = n, !.prev = rows[reqs[c].id].key]
      <3>1. reqs' = [reqs EXCEPT ![c] = r]
        BY <2>3 DEF ReadPrevious
      <3>2. r.expected = reqs[c].expected /\ r.id = reqs[c].id /\ r.op = reqs[c].op /\ r.pc # "idle"
        BY ReqFacts DEF Req
      <3>3. reqs'[c] = r
        BY <3>1 DEF RequestInv, Settled
      <3>4. d = c => GoesOn(d)
        BY <3>2, <3>3 DEF GoesOn
      <3> HIDE DEF r
      <3>5. QED
        BY <3>1, <3>4, ReqMoves
    <2>4. CASE ReadBack(c) /\ ~Finish(c)
      <3>1. PICK k : reqs' = [reqs EXCEPT ![c].pc = "publishing", ![c].key = k]
        BY <2>4 DEF ReadBack
      <3> DEFINE r == [reqs[c] EXCEPT !.pc = "publishing", !.key = k]
      <3>2. reqs' = [reqs EXCEPT ![c] = r]
        BY <3>1
      <3>3. r.expected = reqs[c].expected /\ r.id = reqs[c].id /\ r.op = reqs[c].op /\ r.pc # "idle"
        BY ReqFacts DEF Req
      <3>4. reqs'[c] = r
        BY <3>2 DEF RequestInv, Settled
      <3>5. d = c => GoesOn(d)
        BY <3>3, <3>4 DEF GoesOn
      <3> HIDE DEF r
      <3>6. QED
        BY <3>2, <3>5, ReqMoves
    <2>5. QED
      BY <1>2, <2>1, <2>2, <2>3, <2>4 DEF RequestStep, ReadPrevious, checkAppSettingsRefs, Exec,
         ExecRefused, AfterPublish, AfterPurge, DatabaseFails
  <1>3. CASE UNCHANGED reqs
    <2>1. reqs[d].pc # "idle"
      BY <1>3 DEF Versions, Version
    <2>2. QED
      BY <1>3, <2>1 DEF GoesOn
  <1>4. CASE Crash
    BY <1>4, NoReqType DEF Crash
  <1>5. QED
    BY <1>1, <1>2, <1>3, <1>4 DEF SSNext, ssVars

LEMMA VersionsNext ==
  ASSUME RequestInv, Versions, ~Sqlite, SSNext, Watch
  PROVE  Versions'
  <1>1. clock \in Nat /\ clock' \in Nat /\ clock' >= clock /\ nextId \in Nat
    BY ClockSteps DEF RequestInv, Settled
  <1>2. ASSUME NEW id \in RowId
        PROVE  /\ nextId' >= nextId /\ nextId' \in Nat
               /\ rows'[id] # NoRow => id < nextId' /\ rows'[id].at <= clock'
               /\ \/ rows'[id] = rows[id]
                  \/ rows'[id] = NoRow
                  \/ rows'[id].at = clock /\ rows[id] # NoRow /\ rows[id].at < clock
                  \/ rows'[id].at = clock /\ ~(id < nextId)
    <2>1. rows[id] # NoRow => rows[id].at <= clock /\ id < nextId
      BY DEF Versions
    <2>2. id \in Nat /\ rows[id].at \in Nat
      BY RowIdAssumption DEF RequestInv, Settled, Row, NoRow
    <2>3. CASE UNCHANGED <<rows, nextId>>
      BY <1>1, <2>1, <2>2, <2>3
    <2>4. CASE \E c \in Request : Commit(c) /\ UNCHANGED clock
      <3>1. PICK c \in Request : Commit(c) /\ UNCHANGED clock
        BY <2>4
      <3>2. /\ nextId' >= nextId /\ nextId' \in Nat
            /\ rows'[id] # NoRow => id < nextId'
            /\ \/ rows'[id] = rows[id]
               \/ rows'[id] = NoRow
               \/ rows'[id].at = clock /\ rows[id] # NoRow /\ rows[id].at < clock
               \/ rows'[id].at = clock /\ ~(id < nextId)
        BY <3>1, CommitRows
      <3>3. rows'[id] # NoRow => rows'[id].at <= clock'
        BY <1>1, <2>1, <3>1, <3>2
      <3>4. QED
        BY <3>2, <3>3
    <2>5. QED
      BY <2>3, <2>4, CommitOnly
  <1>3. ASSUME NEW c \in Request
        PROVE  outdated'[c] = (/\ reqs'[c].expected # 0
                               /\ reqs[c].pc # "idle"
                               /\ outdated[c] \/ rows'[reqs[c].id] # rows[reqs[c].id])
    BY DEF Watch
  <1>4. outdated' \in [Request -> BOOLEAN]
    BY DEF Watch
  <1>5. ASSUME NEW c \in Request, reqs'[c].expected # 0
        PROVE  Version(c)'
    <2>1. reqs[c].expected \in Nat /\ outdated[c] \in BOOLEAN
      BY ReqFacts DEF Versions
    <2>2. CASE GoesOn(c)
      <3> DEFINE id == reqs[c].id
                 e == reqs[c].expected
      <3>1. /\ reqs'[c].id = id /\ reqs'[c].expected = e /\ reqs'[c].op = reqs[c].op
            /\ reqs'[c].pc # "idle" /\ e # 0
        BY <1>5, <2>2 DEF GoesOn
      <3>2. Version(c)
        BY <3>1 DEF Versions
      <3>3. /\ reqs[c].pc # "idle" /\ reqs[c].op = "update" /\ id \in RowId /\ id < nextId
            /\ outdated[c] = FALSE => rows[id].at = e
            /\ outdated[c] = TRUE => rows[id] = NoRow \/ rows[id].at > e
        BY <3>2 DEF Version
      <3>4. outdated'[c] = (outdated[c] \/ rows'[id] # rows[id])
        BY <1>3, <1>5, <3>3
      <3>5. id \in Nat /\ rows[id].at \in Nat
        <4> HIDE DEF id
        <4>1. id \in RowId
          BY <3>3
        <4>2. QED
          BY <4>1, RowIdAssumption DEF RequestInv, Settled, Row, NoRow
      <3>6. /\ nextId' >= nextId /\ nextId' \in Nat
            /\ \/ rows'[id] = rows[id]
               \/ rows'[id] = NoRow
               \/ rows'[id].at = clock /\ rows[id] # NoRow /\ rows[id].at < clock
        BY <1>2, <3>3
      <3> HIDE DEF id, e
      <3>7. id < nextId'
        BY <1>1, <3>3, <3>5, <3>6
      <3>8. outdated'[c] = FALSE => rows'[id].at = e
        BY <2>1, <3>3, <3>4
      <3>9. outdated'[c] = TRUE => rows'[id] = NoRow \/ rows'[id].at > e
        <4>1. CASE rows'[id] = rows[id]
          BY <2>1, <3>3, <3>4, <4>1
        <4>2. CASE rows'[id] = NoRow
          BY <4>2
        <4>3. CASE rows'[id].at = clock /\ rows[id] # NoRow /\ rows[id].at < clock
          <5>1. rows[id].at >= e
            BY <2>1, <3>3, <3>5, <4>3 DEF e
          <5>2. QED
            BY <1>1, <2>1, <3>5, <4>3, <5>1 DEF e
        <4>4. QED
          BY <3>6, <4>1, <4>2, <4>3
      <3>10. QED
        BY <3>1, <3>3, <3>7, <3>8, <3>9 DEF Version
    <2>3. CASE Arrives(c)
      <3>1. outdated'[c] = FALSE
        BY <1>3, <2>3 DEF Arrives
      <3>2. reqs'[c].id < nextId
        BY <2>3 DEF Arrives, Exists, Versions
      <3>3. QED
        BY <2>3, <3>1, <3>2 DEF Arrives, Exists, Version
    <2>4. QED
      BY <1>5, <2>2, <2>3, ReqSteps
  <1>6. QED
    BY <1>2, <1>4, <1>5 DEF Versions

LEMMA VersionsHold ==
  ASSUME ~Sqlite
  PROVE  WatchedSpec => []Versions
  <1>1. WatchedInit => Versions
    BY NoReqType DEF WatchedInit, SSInit, Versions
  <1>2. RequestInv /\ Versions /\ [SSNext /\ Watch]_watchedVars => Versions'
    <2>1. Versions /\ UNCHANGED watchedVars => Versions'
      BY DEF Versions, Version, watchedVars, vars, pubVars, ssVars, histVars
    <2>2. QED
      BY <2>1, VersionsNext
  <1>3. QED
    BY <1>1, <1>2, WatchedSteps, RequestsAreCallers, PTL DEF WatchedSpec

(* On PostgreSQL, an update that names the UPDATED_AT its caller read      *)
(* never replaces a version of the row the caller had not seen: the WHERE  *)
(* of UpdateMicroserviceConfig matches no row: the answer is a conflict.   *)
(* On SQLite, whose UPDATED_AT has whole seconds, two versions of a row    *)
(* can share one and the promise does not hold.                            *)
THEOREM GuardedUpdates ==
  ASSUME ~Sqlite
  PROVE  WatchedSpec => GuardedUpdateSawTheRow
  <1>1. RequestInv /\ Versions /\ [SSNext /\ Watch]_watchedVars =>
          [\A c \in Request : reqs[c].expected # 0 /\ Commits(c) => ~outdated[c]]_watchedVars
    <2> SUFFICES ASSUME RequestInv, Versions, SSNext,
                        NEW c \in Request, reqs[c].expected # 0, Commits(c)
                 PROVE  ~outdated[c]
      OBVIOUS
    <2>1. Version(c) /\ outdated[c] \in BOOLEAN
      BY DEF Versions
    <2>2. rows' # rows /\ reqs'[c] # reqs[c]
      BY DEF Commits
    <2>3. Commit(c)
      BY <2>2, CommitOnly
    <2>4. rows[reqs[c].id] # NoRow /\ rows[reqs[c].id].at = reqs[c].expected
      BY <2>1, <2>3 DEF Commit, Insert, Update, Delete, Version, Guarded, Exists
    <2>5. reqs[c].expected \in Nat
      BY ReqFacts
    <2>6. QED
      BY <2>1, <2>4, <2>5 DEF Version
  <1>2. QED
    BY <1>1, VersionsHold, WatchedSteps, RequestsAreCallers, PTL DEF WatchedSpec, GuardedUpdateSawTheRow

-----------------------------------------------------------------------------
(* Drift, on PostgreSQL.  A key is clean while no failure and no overlap   *)
(* was recorded on it.  A request owes a key from its commit until it has  *)
(* distributed it; a clean key is owed by one request at most.  Only that  *)
(* request's call and that request's message can change what consumers see *)
(* of the key, and only its commit what the database says of it, so when   *)
(* the debt is paid the two agree.                                         *)

SSB == BucketServiceSettings

Clean(k) == k \in Key /\ k \notin faulted /\ k \notin contested

Owes(c, k) == reqs[c].pc \in AfterExec /\ k \in Touched(c)

Shown(k) ==
    \E id \in RowId : /\ rows[id] # NoRow /\ rows[id].key = k
                      /\ kv[SSB].entry[k].payload = rows[id].doc

Unbacked(k) == \A id \in RowId : rows[id] # NoRow => rows[id].key # k

Gone(k) == Unbacked(k) /\ ~Live(kv[SSB], k)

(* How far a request is, and what its call is about.                       *)
Stage(c) ==
    /\ calls[c].pc \in Active => reqs[c].pc \in {"publishing", "purging"}
    /\ reqs[c].pc \in AfterExec => reqs[c].op # "none"
    /\ reqs[c].op = "create" => reqs[c].prev = NoKey /\ reqs[c].pc # "previous"
    /\ reqs[c].op = "delete" => reqs[c].key = NoKey /\ reqs[c].pc \notin {"readback", "publishing"}
    /\ reqs[c].pc = "publishing" =>
          /\ calls[c].pc # "purge"
          /\ calls[c].pc \in {"get", "write"} =>
               calls[c].bucket = SSB /\ calls[c].key = reqs[c].key
    /\ reqs[c].pc = "purging" =>
          /\ reqs[c].op # "create" /\ reqs[c].prev # reqs[c].key
          /\ calls[c].pc \in {"purge", "ok", "failed"}
          /\ calls[c].pc = "purge" =>
               calls[c].bucket = SSB /\ calls[c].key = reqs[c].prev

(* The row an update or a delete names still feeds the key the request     *)
(* believes, or another commit on the row has contested the keys.          *)
Held(c) == IF reqs[c].pc = "readback" THEN reqs[c].key ELSE reqs[c].prev

Seen(c) ==
    reqs[c].op \in {"update", "delete"} /\ reqs[c].pc \in {"check", "exec", "readback"} =>
      /\ reqs[c].id \in RowId /\ reqs[c].id < nextId
      /\ \/ rows[reqs[c].id] # NoRow /\ rows[reqs[c].id].key = Held(c)
         \/ /\ Touched(c) \subseteq contested
            /\ rows[reqs[c].id] # NoRow => rows[reqs[c].id].key \in contested

(* What is done of the debt.                                               *)
Left(c) ==
    reqs[c].pc \in AfterExec /\ reqs[c].prev # reqs[c].key /\ Clean(reqs[c].prev)
    => Unbacked(reqs[c].prev)

Carrying(c) ==
    \E id \in RowId : /\ rows[id] # NoRow /\ rows[id].key = reqs[c].key
                      /\ rows[id].doc = calls[c].payload

Put(c) ==
    reqs[c].pc = "publishing" /\ Clean(reqs[c].key) =>
      /\ calls[c].pc \in {"get", "write"} => Carrying(c)
      /\ calls[c].pc \in {"ok", "skipped"} => Shown(reqs[c].key)

Purged(c) ==
    reqs[c].pc = "purging" =>
      /\ Clean(reqs[c].key) => Shown(reqs[c].key)
      /\ Clean(reqs[c].prev) /\ calls[c].pc = "ok" => ~Live(kv[SSB], reqs[c].prev)

(* A message that outlived its call is about a key that is not clean, or   *)
(* the request has not yet looked at the failure.                          *)
Wire(c) ==
    late[c].kind # "none" /\ Clean(late[c].key) =>
       /\ calls[c].pc = "failed"
       /\ \/ reqs[c].pc = "publishing" /\ late[c].key = reqs[c].key
          \/ reqs[c].pc = "purging" /\ late[c].key = reqs[c].prev

Duty(c) == Stage(c) /\ Left(c) /\ Put(c) /\ Purged(c) /\ Wire(c)

KeysUnique ==
    \A i, j \in RowId :
       rows[i] # NoRow /\ rows[j] # NoRow /\ rows[i].key = rows[j].key => i = j

OneOwner == \A c, d \in Request, k \in Key : Clean(k) /\ Owes(c, k) /\ Owes(d, k) => c = d

Settles == \A k \in Key : Clean(k) /\ (\A c \in Request : ~Owes(c, k)) => Shown(k) \/ Gone(k)

DriftInv ==
    /\ KeysUnique
    /\ OneOwner
    /\ Settles
    /\ \A c \in Request : Duty(c) /\ Seen(c)

(* Nothing that concerns k changed.                                        *)
RowsSame(k) ==
    \A id \in RowId : \/ rows'[id] = rows[id]
                      \/ /\ rows[id] # NoRow => rows[id].key # k
                         /\ rows'[id] # NoRow => rows'[id].key # k

EntrySame(k) == kv'[SSB].entry[k] = kv[SSB].entry[k]

LEMMA SameShown ==
  ASSUME NEW k, RowsSame(k)
  PROVE  /\ Unbacked(k) => Unbacked(k)'
         /\ EntrySame(k) /\ Shown(k) => Shown(k)'
         /\ EntrySame(k) /\ Gone(k) => Gone(k)'
  BY DEF RowsSame, EntrySame, Shown, Unbacked, Gone, Live

LEMMA WatchMarks ==
  ASSUME Watch
  PROVE  /\ \A k : Clean(k)' => Clean(k)
         /\ contested \subseteq contested'
         /\ \A c \in Request : StopsShort(c) => Touched(c) \subseteq faulted'
         /\ \A c, d \in Request : Commits(c) /\ Collides(c, d)
               => Touched(c) \cup Touched(d) \subseteq contested'
  <1>1. contested \subseteq contested' /\ faulted \subseteq faulted'
    BY DEF Watch
  <1>2. \A k : Clean(k)' => Clean(k)
    BY <1>1 DEF Clean
  <1>3. \A c \in Request : StopsShort(c) => Touched(c) \subseteq faulted'
    BY DEF Watch
  <1>4. ASSUME NEW c \in Request, NEW d \in Request, Commits(c), Collides(c, d)
        PROVE  Touched(c) \cup Touched(d) \subseteq contested'
    <2>1. <<c, d>> \in {q \in Request \X Request : Commits(q[1]) /\ Collides(q[1], q[2])}
      BY <1>4
    <2>2. QED
      BY <2>1 DEF Watch
  <1>5. QED
    BY <1>1, <1>2, <1>3, <1>4

(* A request the step is not about.                                        *)
LEMMA OtherDuty ==
  ASSUME NEW d \in Request, Duty(d), \A k : Clean(k)' => Clean(k),
         reqs'[d] = reqs[d], calls'[d] = calls[d], late'[d] = late[d],
         \A k : Clean(k)' /\ Owes(d, k) => RowsSame(k) /\ EntrySame(k)
  PROVE  Duty(d)'
  <1> DEFINE r == reqs[d]
  <1>1. Stage(d)'
    BY DEF Duty, Stage
  <1>2. ASSUME NEW k, k \in {r.key, r.prev}, r.pc \in AfterExec, Clean(k)'
        PROVE  Clean(k) /\ RowsSame(k) /\ EntrySame(k)
    <2>1. Owes(d, k)
      BY <1>2, KnownKeyAssumption DEF Owes, Touched, Clean
    <2>2. QED
      BY <1>2, <2>1
  <1>3. Left(d)'
    BY <1>2, SameShown DEF Duty, Left
  <1>4. Put(d)'
    <2> SUFFICES ASSUME r.pc = "publishing", Clean(r.key)'
                 PROVE  /\ calls[d].pc \in {"get", "write"} => Carrying(d)'
                        /\ calls[d].pc \in {"ok", "skipped"} => Shown(r.key)'
      BY DEF Put
    <2>1. Clean(r.key) /\ RowsSame(r.key) /\ EntrySame(r.key)
      BY <1>2 DEF AfterExec
    <2>2. calls[d].pc \in {"ok", "skipped"} => Shown(r.key)'
      BY <2>1, SameShown DEF Duty, Put
    <2>3. Carrying(d) => Carrying(d)'
      BY <2>1 DEF Carrying, RowsSame
    <2>4. QED
      BY <2>1, <2>2, <2>3 DEF Duty, Put
  <1>5. Purged(d)'
    <2> SUFFICES ASSUME r.pc = "purging"
                 PROVE  /\ Clean(r.key)' => Shown(r.key)'
                        /\ Clean(r.prev)' /\ calls[d].pc = "ok" => ~Live(kv'[SSB], r.prev)
      BY DEF Purged
    <2>1. Clean(r.key)' => Shown(r.key)'
      BY <1>2, SameShown DEF Duty, Purged, AfterExec
    <2>2. Clean(r.prev)' /\ calls[d].pc = "ok" => ~Live(kv'[SSB], r.prev)
      BY <1>2 DEF Duty, Purged, AfterExec, EntrySame, Live
    <2>3. QED
      BY <2>1, <2>2
  <1>6. Wire(d)'
    BY DEF Duty, Wire
  <1>7. QED
    BY <1>1, <1>3, <1>4, <1>5, <1>6 DEF Duty

LEMMA SeenStays ==
  ASSUME NEW d \in Request, Seen(d), reqs'[d] = reqs[d], contested \subseteq contested',
         nextId \in Nat, nextId' \in Nat, nextId' >= nextId, rows'[reqs[d].id] = rows[reqs[d].id]
  PROVE  Seen(d)'
  <1>1. reqs[d].id \in RowId => reqs[d].id \in Nat
    BY RowIdAssumption
  <1>2. Held(d)' = Held(d) /\ Touched(d)' = Touched(d)
    BY DEF Held, Touched
  <1>3. QED
    BY <1>1, <1>2 DEF Seen

(* A step about one request keeps the invariant if it keeps what concerns  *)
(* the keys the others owe, takes a clean key over from nobody and leaves  *)
(* a clean key only when the debt is paid.                                 *)
OthersAside(c) ==
    \A d \in Request : d # c => /\ reqs'[d] = reqs[d]
                                /\ calls'[d] = calls[d]
                                /\ late'[d] = late[d]

LEMMA ActorStep ==
  ASSUME DriftInv, Watch, NEW c \in Request, OthersAside(c),
         \A d \in Request : \A k : d # c /\ Clean(k)' /\ Owes(d, k) => RowsSame(k) /\ EntrySame(k),
         \A k : Clean(k)' /\ Owes(c, k)' => \A d \in Request : d # c => ~Owes(d, k),
         \A k : Clean(k)' /\ ~Owes(c, k)' =>
            \/ ~Owes(c, k) /\ RowsSame(k) /\ EntrySame(k)
            \/ (Shown(k) \/ Gone(k))',
         Duty(c)', \A d \in Request : Seen(d)', KeysUnique'
  PROVE  DriftInv'
  <1>1. \A k : Clean(k)' => Clean(k)
    BY WatchMarks
  <1>2. \A d \in Request : Duty(d)'
    <2>1. ASSUME NEW d \in Request, d # c
          PROVE  Duty(d)'
      <3>1. Duty(d)
        BY DEF DriftInv
      <3>2. reqs'[d] = reqs[d] /\ calls'[d] = calls[d] /\ late'[d] = late[d]
        BY <2>1 DEF OthersAside
      <3>3. \A k : Clean(k)' /\ Owes(d, k) => RowsSame(k) /\ EntrySame(k)
        BY <2>1
      <3>4. QED
        BY <1>1, <3>1, <3>2, <3>3, OtherDuty
    <2>2. QED
      BY <2>1
  <1>3. \A d \in Request : \A k : d # c => (Owes(d, k)' <=> Owes(d, k))
    BY DEF OthersAside, Owes, Touched
  <1>4. OneOwner'
    <2> SUFFICES ASSUME NEW d \in Request, NEW e \in Request, NEW k \in Key,
                        Clean(k)', Owes(d, k)', Owes(e, k)'
                 PROVE  d = e
      BY DEF OneOwner
    <2>1. CASE d # c /\ e # c
      BY <1>1, <1>3, <2>1 DEF DriftInv, OneOwner
    <2>2. CASE d = c \/ e = c
      BY <1>3, <2>2
    <2>3. QED
      BY <2>1, <2>2
  <1>5. Settles'
    <2> SUFFICES ASSUME NEW k \in Key, Clean(k)', \A d \in Request : ~Owes(d, k)'
                 PROVE  (Shown(k) \/ Gone(k))'
      BY DEF Settles
    <2>1. CASE ~Owes(c, k) /\ RowsSame(k) /\ EntrySame(k)
      <3>1. \A d \in Request : ~Owes(d, k)
        BY <1>3, <2>1
      <3>2. Shown(k) \/ Gone(k)
        BY <1>1, <3>1 DEF DriftInv, Settles
      <3>3. QED
        BY <2>1, <3>2, SameShown
    <2>2. CASE (Shown(k) \/ Gone(k))'
      BY <2>2
    <2>3. QED
      BY <2>1, <2>2
  <1>6. QED
    BY <1>2, <1>4, <1>5 DEF DriftInv

(* A step that commits nothing and leaves the buckets alone.               *)
LEMMA QuietStep ==
  ASSUME RequestInv, DriftInv, Watch, NEW c \in Request, OthersAside(c),
         UNCHANGED <<rows, nextId, kv>>,
         \A k : Clean(k)' /\ Owes(c, k)' => Owes(c, k),
         \A k : Clean(k)' /\ Owes(c, k) /\ ~Owes(c, k)' => Shown(k) \/ Gone(k),
         Duty(c)', Seen(c)'
  PROVE  DriftInv'
  <1>1. \A k : RowsSame(k) /\ EntrySame(k)
    BY DEF RowsSame, EntrySame
  <1>2. \A k : Clean(k)' => Clean(k)
    BY WatchMarks
  <1>3. \A k : Clean(k)' /\ Owes(c, k)' => \A d \in Request : d # c => ~Owes(d, k)
    BY <1>2 DEF DriftInv, OneOwner, Clean
  <1>4. \A k : Shown(k) \/ Gone(k) => (Shown(k) \/ Gone(k))'
    BY <1>1, SameShown
  <1>5. \A k : Clean(k)' /\ ~Owes(c, k)' =>
            \/ ~Owes(c, k) /\ RowsSame(k) /\ EntrySame(k)
            \/ (Shown(k) \/ Gone(k))'
    BY <1>1, <1>4
  <1>6. ASSUME NEW d \in Request
        PROVE  Seen(d)'
    <2>1. CASE d # c
      <3>1. Seen(d) /\ contested \subseteq contested'
        BY WatchMarks DEF DriftInv
      <3>2. nextId \in Nat /\ nextId' \in Nat /\ nextId' >= nextId
        BY DEF RequestInv, Settled
      <3>3. reqs'[d] = reqs[d]
        BY <2>1 DEF OthersAside
      <3>4. QED
        BY <3>1, <3>2, <3>3, SeenStays
    <2>2. QED
      BY <2>1
  <1>7. KeysUnique'
    BY DEF DriftInv, KeysUnique
  <1>8. QED
    BY <1>1, <1>3, <1>5, <1>6, <1>7, ActorStep

LEMMA SeenSame ==
  ASSUME RequestInv, DriftInv, Watch, NEW c \in Request, UNCHANGED <<rows, nextId>>, reqs'[c] = reqs[c]
  PROVE  Seen(c)'
  <1>1. Seen(c) /\ contested \subseteq contested'
    BY WatchMarks DEF DriftInv
  <1>2. nextId \in Nat /\ nextId' \in Nat /\ nextId' >= nextId
    BY DEF RequestInv, Settled
  <1>3. QED
    BY <1>1, <1>2, SeenStays

(* The request is over.                                                    *)
LEMMA FreeDuty ==
  ASSUME RequestInv, NEW c \in Request, reqs'[c] = NoReq, calls'[c].pc \notin Active,
         (late[c].kind # "none" => ~Clean(late[c].key))'
  PROVE  Duty(c)' /\ Seen(c)' /\ \A k : ~Owes(c, k)'
  <1>1. reqs'[c].pc = "idle" /\ reqs'[c].op = "none"
    BY DEF NoReq
  <1>2. Stage(c)' /\ Left(c)' /\ Put(c)' /\ Purged(c)' /\ Seen(c)' /\ \A k : ~Owes(c, k)'
    BY <1>1 DEF Stage, Left, Put, Purged, Seen, Owes, AfterExec
  <1>3. Wire(c)'
    BY DEF Wire
  <1>4. QED
    BY <1>2, <1>3 DEF Duty

-----------------------------------------------------------------------------
(* Drift: the steps of the publisher and of the network.                   *)

LEMMA OnlyThisKey ==
  ASSUME NEW b \in Bucket, NEW j \in Key, Advance(kv, kv', b, j)
  PROVE  \A k \in Key : k # j => EntrySame(k)
  <1>1. SSB \in Bucket
    BY SettingsBucketAssumption DEF SSB
  <1>2. QED
    BY <1>1 DEF Advance, EntrySame

LEMMA KvStep ==
  ASSUME RequestInv, DriftInv, Watch, NEW c \in Request, UNCHANGED ssVars, OthersAside(c),
         NEW j, \A k \in Key : k # j => EntrySame(k), Clean(j) => Owes(c, j), Duty(c)'
  PROVE  DriftInv'
  <1>1. UNCHANGED <<rows, reqs, nextId>>
    BY DEF ssVars
  <1>2. \A k : RowsSame(k)
    BY <1>1 DEF RowsSame
  <1>3. \A d \in Request : \A k : Owes(d, k)' <=> Owes(d, k)
    BY <1>1 DEF Owes, Touched
  <1>4. \A k : Clean(k)' => Clean(k) /\ k \in Key
    BY WatchMarks DEF Clean
  <1>5. \A d \in Request : \A k : d # c /\ Clean(k) /\ Owes(c, k) => ~Owes(d, k)
    BY DEF DriftInv, OneOwner, Clean
  <1>6. \A d \in Request : \A k : d # c /\ Clean(k)' /\ Owes(d, k) => RowsSame(k) /\ EntrySame(k)
    BY <1>2, <1>4, <1>5
  <1>7. \A k : Clean(k)' /\ Owes(c, k)' => \A d \in Request : d # c => ~Owes(d, k)
    BY <1>3, <1>4, <1>5
  <1>8. \A k : Clean(k)' /\ ~Owes(c, k)' => ~Owes(c, k) /\ RowsSame(k) /\ EntrySame(k)
    BY <1>2, <1>3, <1>4
  <1>9. \A d \in Request : Seen(d)'
    BY <1>1, SeenSame
  <1>10. KeysUnique'
    BY <1>1 DEF DriftInv, KeysUnique
  <1>11. QED
    BY <1>6, <1>7, <1>8, <1>9, <1>10, ActorStep

(* The request whose call moved.                                           *)
LEMMA CallDuty ==
  ASSUME NEW c \in Request, Duty(c), \A k : Clean(k)' => Clean(k), UNCHANGED ssVars,
         calls[c].pc \in Active, Wire(c)',
         reqs[c].pc = "publishing" =>
            /\ calls'[c].pc # "purge"
            /\ calls'[c].pc \in {"get", "write"} =>
                 /\ calls[c].pc \in {"get", "write"} /\ calls'[c].bucket = calls[c].bucket
                 /\ calls'[c].key = calls[c].key /\ calls'[c].payload = calls[c].payload
            /\ calls'[c].pc \in {"ok", "skipped"} => (Clean(reqs[c].key) => Shown(reqs[c].key))',
         reqs[c].pc = "purging" =>
            /\ calls'[c].pc \in {"ok", "failed"}
            /\ (Clean(reqs[c].key) => Shown(reqs[c].key))'
            /\ calls'[c].pc = "ok" => (Clean(reqs[c].prev) => ~Live(kv[SSB], reqs[c].prev))'
  PROVE  Duty(c)'
  <1>1. UNCHANGED <<rows, reqs>>
    BY DEF ssVars
  <1>2. reqs[c].pc \in {"publishing", "purging"}
    BY DEF Duty, Stage
  <1>3. Stage(c)'
    BY <1>1, <1>2 DEF Duty, Stage
  <1>4. Left(c)'
    BY <1>1 DEF Duty, Left, Unbacked
  <1>5. Put(c)'
    <2>1. reqs[c].pc = "publishing" /\ calls'[c].pc \in {"get", "write"} /\ Carrying(c) => Carrying(c)'
      BY <1>1 DEF Carrying
    <2>2. QED
      BY <1>1, <2>1 DEF Duty, Put
  <1>6. Purged(c)'
    BY <1>1 DEF Purged
  <1>7. QED
    BY <1>3, <1>4, <1>5, <1>6 DEF Duty

(* While a call is active no message of its caller concerns a clean key.   *)
LEMMA ActiveWire ==
  ASSUME NEW c \in Request, Duty(c), \A k : Clean(k)' => Clean(k),
         calls[c].pc \in Active, UNCHANGED late
  PROVE  Wire(c)'
  BY DEF Duty, Wire, Active

LEMMA PublisherFacts ==
  ASSUME RequestInv, NEW c \in Request
  PROVE  /\ c \in Caller /\ calls \in [Caller -> Call] /\ late \in [Caller -> Message]
         /\ kv \in [Bucket -> BucketState] /\ calls[c] \in Call /\ late[c] \in Message
         /\ calls[c].bucket \in Bucket /\ calls[c].key \in Key
         /\ late[c].bucket \in Bucket /\ late[c].key \in Key
  BY RequestAssumption DEF RequestInv, Inv, TypeOK, Call, Message

LEMMA CallAside ==
  ASSUME RequestInv, NEW c \in Request, NEW n, UNCHANGED <<reqs, late>>,
         calls' = [calls EXCEPT ![c] = n]
  PROVE  OthersAside(c) /\ calls'[c] = n
  BY PublisherFacts, RequestAssumption DEF OthersAside

LEMMA ReturnAside ==
  ASSUME RequestInv, NEW c \in Request, NEW a \in Answer, UNCHANGED reqs, Return(c, a)
  PROVE  /\ calls'[c].pc = a
         /\ UNCHANGED late => OthersAside(c)
         /\ \A d \in Request : d # c => calls'[d] = calls[d]
  <1>1. /\ calls'[c].pc = a
        /\ \A d \in Caller : d # c => calls'[d] = calls[d]
    BY PublisherFacts, ReturnType
  <1>2. QED
    BY <1>1, RequestAssumption DEF OthersAside

(* A publishing request with a get or a write under way.                   *)
LEMMA CarryingCall ==
  ASSUME RequestInv, NEW c \in Request, Duty(c), calls[c].pc \in {"get", "write"}
  PROVE  /\ reqs[c].pc = "publishing" /\ calls[c].bucket = SSB /\ calls[c].key = reqs[c].key
         /\ calls[c].pc \in Active /\ reqs[c].key \in Key
         /\ Clean(reqs[c].key) => Carrying(c) /\ Owes(c, reqs[c].key)
  <1>1. calls[c].pc \in Active
    BY DEF Active
  <1>2. reqs[c].pc = "publishing" /\ calls[c].bucket = SSB /\ calls[c].key = reqs[c].key
    BY <1>1 DEF Duty, Stage
  <1>3. reqs[c].key \in Key
    BY <1>2, PublisherFacts
  <1>4. Owes(c, reqs[c].key)
    BY <1>2, <1>3, KnownKeyAssumption DEF Owes, AfterExec, Touched
  <1>5. QED
    BY <1>1, <1>2, <1>3, <1>4 DEF Duty, Put

(* A call that fails or goes on leaves everything else as it was.          *)
LEMMA FailingCall ==
  ASSUME RequestInv, DriftInv, Watch, NEW c \in Request, UNCHANGED ssVars, UNCHANGED <<kv, late>>,
         calls[c].pc \in Active, NEW a \in {"failed", "conflict"}, Return(c, a),
         calls[c].pc = "purge" => a = "failed"
  PROVE  DriftInv'
  <1>1. Duty(c) /\ \A k : Clean(k)' => Clean(k)
    BY WatchMarks DEF DriftInv
  <1>2. UNCHANGED reqs /\ UNCHANGED rows
    BY DEF ssVars
  <1>3. OthersAside(c) /\ calls'[c].pc = a
    BY <1>2, ReturnAside DEF Answer
  <1>4. Wire(c)'
    BY <1>1, ActiveWire
  <1>5. \A k : EntrySame(k) /\ RowsSame(k)
    BY <1>2 DEF EntrySame, RowsSame
  <1>6. reqs[c].pc = "purging" =>
            /\ calls[c].pc = "purge"
            /\ (Clean(reqs[c].key) => Shown(reqs[c].key))'
    <2>1. reqs[c].pc = "purging" => calls[c].pc = "purge" /\ (Clean(reqs[c].key) => Shown(reqs[c].key))
      BY <1>1 DEF Duty, Stage, Purged, Active
    <2>2. Shown(reqs[c].key) => Shown(reqs[c].key)'
      BY <1>2 DEF Shown
    <2>3. QED
      BY <1>1, <1>2, <2>1, <2>2
  <1>7. Duty(c)'
    BY <1>1, <1>3, <1>4, <1>6, CallDuty
  <1>8. ~Clean(NoKey)
    BY KnownKeyAssumption DEF Clean
  <1>9. QED
    BY <1>3, <1>5, <1>7, <1>8, KvStep

(* A get or a write that goes on to the next stage of the same call.       *)
LEMMA GoingOnCall ==
  ASSUME RequestInv, DriftInv, Watch, NEW c \in Request, UNCHANGED ssVars, UNCHANGED <<kv, late>>,
         calls[c].pc \in {"get", "write"}, NEW n, calls' = [calls EXCEPT ![c] = n],
         n.pc \in {"get", "write"} /\ n.bucket = calls[c].bucket
           /\ n.key = calls[c].key /\ n.payload = calls[c].payload
  PROVE  DriftInv'
  <1>1. Duty(c) /\ \A k : Clean(k)' => Clean(k)
    BY WatchMarks DEF DriftInv
  <1>2. OthersAside(c) /\ calls'[c] = n
    BY CallAside DEF ssVars
  <1>3. reqs[c].pc = "publishing" /\ calls[c].pc \in Active
    BY <1>1, CarryingCall
  <1>4. Wire(c)'
    BY <1>1, <1>3, ActiveWire
  <1>5. Duty(c)'
    BY <1>1, <1>2, <1>3, <1>4, CallDuty
  <1>6. \A k : EntrySame(k)
    BY DEF EntrySame
  <1>7. ~Clean(NoKey)
    BY KnownKeyAssumption DEF Clean
  <1>8. QED
    BY <1>2, <1>5, <1>6, <1>7, KvStep

LEMMA CurrentDrift ==
  ASSUME RequestInv, DriftInv, Watch, NEW c \in Request, UNCHANGED ssVars, Current(c)
  PROVE  DriftInv'
  <1> DEFINE m == calls[c]
             cur == kv[m.bucket].entry[m.key]
             v == Build(m.bucket, m.payload, cur)
             n == [m EXCEPT !.pc = "write", !.revision = cur.revision, !.stamp = v.write.stamp]
             skip == /\ cur.revision # 0
                     /\ [payload |-> cur.payload, stamp |-> cur.stamp] = v.compare
  <1>1. m \in Call /\ m.pc = "get" /\ UNCHANGED <<kv, late>> /\ Duty(c) /\ \A k : Clean(k)' => Clean(k)
    BY PublisherFacts, WatchMarks DEF Current, DriftInv
  <1>2. /\ reqs[c].pc = "publishing" /\ m.bucket = SSB /\ m.key = reqs[c].key /\ m.pc \in Active
        /\ Clean(reqs[c].key) => Carrying(c)
    BY <1>1, CarryingCall
  <1>3. CASE skip
    <2>1. Return(c, "skipped")
      BY <1>3 DEF Current
    <2>2. OthersAside(c) /\ calls'[c].pc = "skipped"
      BY <1>1, <2>1, ReturnAside DEF Answer, ssVars
    <2>3. v.compare.payload = m.payload
      BY DEF Build, BuildFlag, raw
    <2>4. cur.payload = m.payload
      BY <1>3, <2>3
    <2>5. Clean(reqs[c].key) => Shown(reqs[c].key)
      BY <1>2, <2>4 DEF Carrying, Shown
    <2>6. (Clean(reqs[c].key) => Shown(reqs[c].key))'
      <3>1. Shown(reqs[c].key) => Shown(reqs[c].key)'
        BY <1>1 DEF Shown, ssVars
      <3>2. UNCHANGED reqs
        BY DEF ssVars
      <3>3. QED
        BY <1>1, <2>5, <3>1, <3>2
    <2>7. Wire(c)'
      BY <1>1, <1>2, ActiveWire
    <2>8. Duty(c)'
      BY <1>1, <1>2, <2>2, <2>6, <2>7, CallDuty
    <2>9. \A k : EntrySame(k)
      BY <1>1 DEF EntrySame
    <2>10. ~Clean(NoKey)
      BY KnownKeyAssumption DEF Clean
    <2>11. QED
      BY <2>2, <2>8, <2>9, <2>10, KvStep
  <1>4. CASE ~skip
    <2>1. calls' = [calls EXCEPT ![c] = n]
      BY <1>4 DEF Current
    <2>2. n.pc \in {"get", "write"} /\ n.bucket = m.bucket /\ n.key = m.key /\ n.payload = m.payload
      BY <1>1 DEF Call
    <2>3. m.pc \in {"get", "write"} /\ UNCHANGED <<kv, late>>
      BY <1>1
    <2> HIDE DEF n
    <2>4. QED
      BY <2>1, <2>2, <2>3, GoingOnCall
  <1>5. QED
    BY <1>3, <1>4

LEMMA WriteDrift ==
  ASSUME RequestInv, DriftInv, Watch, NEW c \in Request, UNCHANGED ssVars, Write(c)
  PROVE  DriftInv'
  <1> DEFINE m == calls[c]
             k == reqs[c].key
  <1>1. m.pc = "write" /\ UNCHANGED late /\ Return(c, "ok") /\ Duty(c) /\ \A j : Clean(j)' => Clean(j)
    BY WatchMarks DEF Write, DriftInv
  <1>2. /\ reqs[c].pc = "publishing" /\ m.bucket = SSB /\ m.key = k /\ m.pc \in Active
        /\ k \in Key /\ (Clean(k) => Carrying(c) /\ Owes(c, k))
    BY <1>1, CarryingCall
  <1>3. UNCHANGED <<reqs, rows>>
    BY DEF ssVars
  <1>4. OthersAside(c) /\ calls'[c].pc = "ok"
    BY <1>1, <1>3, ReturnAside DEF Answer
  <1>5. Advance(kv, kv', m.bucket, m.key) /\ kv'[m.bucket].entry[m.key].payload = m.payload
    BY PublisherFacts, PutAdvances DEF Write
  <1>6. \A j \in Key : j # k => EntrySame(j)
    BY <1>2, <1>5, PublisherFacts, OnlyThisKey
  <1>7. (Clean(reqs[c].key) => Shown(reqs[c].key))'
    <2>1. Clean(k)' => Carrying(c)
      BY <1>1, <1>2, <1>3
    <2>2. Carrying(c) => Shown(k)'
      BY <1>2, <1>3, <1>5 DEF Carrying, Shown
    <2>3. QED
      BY <1>3, <2>1, <2>2
  <1>8. Wire(c)'
    BY <1>1, <1>2, ActiveWire
  <1>9. Duty(c)'
    BY <1>1, <1>2, <1>4, <1>7, <1>8, CallDuty
  <1> HIDE DEF k
  <1>10. QED
    BY <1>2, <1>4, <1>6, <1>9, KvStep

LEMMA WriteConflictDrift ==
  ASSUME RequestInv, DriftInv, Watch, NEW c \in Request, UNCHANGED ssVars, WriteConflict(c)
  PROVE  DriftInv'
  <1> DEFINE m == calls[c]
             n == [m EXCEPT !.pc = "get", !.attempt = m.attempt + 1]
  <1>1. m \in Call /\ m.pc = "write" /\ m.pc \in Active /\ UNCHANGED <<kv, late>>
    BY PublisherFacts DEF WriteConflict, Active
  <1>2. CASE Return(c, "conflict")
    BY <1>1, <1>2, FailingCall
  <1>3. CASE calls' = [calls EXCEPT ![c] = n]
    <2>1. n.pc \in {"get", "write"} /\ n.bucket = m.bucket /\ n.key = m.key /\ n.payload = m.payload
      BY <1>1 DEF Call
    <2>2. m.pc \in {"get", "write"} /\ UNCHANGED <<kv, late>>
      BY <1>1
    <2> HIDE DEF n
    <2>3. QED
      BY <1>3, <2>1, <2>2, GoingOnCall
  <1>4. QED
    BY <1>2, <1>3 DEF WriteConflict

(* A request that purges.                                                  *)
LEMMA PurgingCall ==
  ASSUME RequestInv, NEW c \in Request, Duty(c), calls[c].pc = "purge"
  PROVE  /\ reqs[c].pc = "purging" /\ calls[c].bucket = SSB /\ calls[c].key = reqs[c].prev
         /\ calls[c].pc \in Active /\ reqs[c].prev \in Key /\ reqs[c].prev # reqs[c].key
         /\ Clean(reqs[c].key) => Shown(reqs[c].key)
         /\ Owes(c, reqs[c].prev)
  <1>1. calls[c].pc \in Active
    BY DEF Active
  <1>2. /\ reqs[c].pc = "purging" /\ calls[c].bucket = SSB /\ calls[c].key = reqs[c].prev
        /\ reqs[c].prev # reqs[c].key
    BY <1>1 DEF Duty, Stage
  <1>3. reqs[c].prev \in Key
    BY <1>2, PublisherFacts
  <1>4. Owes(c, reqs[c].prev)
    BY <1>2, <1>3, KnownKeyAssumption DEF Owes, AfterExec, Touched
  <1>5. QED
    BY <1>1, <1>2, <1>3, <1>4 DEF Duty, Purged

LEMMA PurgeDrift ==
  ASSUME RequestInv, DriftInv, Watch, NEW c \in Request, UNCHANGED ssVars, Purge(c)
  PROVE  DriftInv'
  <1> DEFINE k == reqs[c].prev
  <1>1. calls[c].pc = "purge" /\ UNCHANGED late /\ Return(c, "ok") /\ Duty(c) /\ \A j : Clean(j)' => Clean(j)
    BY WatchMarks DEF Purge, DriftInv
  <1>2. /\ reqs[c].pc = "purging" /\ calls[c].bucket = SSB /\ calls[c].key = k
        /\ calls[c].pc \in Active /\ k \in Key /\ k # reqs[c].key
        /\ Clean(reqs[c].key) => Shown(reqs[c].key)
        /\ Owes(c, k)
    BY <1>1, PurgingCall
  <1>3. UNCHANGED <<reqs, rows>>
    BY DEF ssVars
  <1>4. OthersAside(c) /\ calls'[c].pc = "ok"
    BY <1>1, <1>3, ReturnAside DEF Answer
  <1>5. Advance(kv, kv', calls[c].bucket, calls[c].key) /\ kv'[calls[c].bucket].entry[calls[c].key] = Absent
    BY PublisherFacts, PurgeAdvances DEF Purge
  <1>6. \A j \in Key : j # k => EntrySame(j)
    BY <1>2, <1>5, PublisherFacts, OnlyThisKey
  <1>7. ~Live(kv'[SSB], k)
    BY <1>2, <1>5 DEF Live, Absent
  <1>8. (Clean(reqs[c].key) => Shown(reqs[c].key))'
    <2> SUFFICES ASSUME Clean(reqs[c].key)' PROVE Shown(reqs[c].key)'
      BY <1>3
    <2>1. Clean(reqs[c].key)
      BY <1>1, <1>3
    <2>2. EntrySame(reqs[c].key) /\ Shown(reqs[c].key)
      BY <1>2, <1>6, <2>1 DEF Clean
    <2>3. QED
      BY <1>3, <2>2 DEF Shown, EntrySame
  <1>9. Wire(c)'
    BY <1>1, <1>2, ActiveWire
  <1>10. (Clean(reqs[c].prev) => ~Live(kv[SSB], reqs[c].prev))'
    BY <1>3, <1>7
  <1>11. Duty(c)'
    BY <1>1, <1>2, <1>4, <1>8, <1>9, <1>10, CallDuty
  <1> HIDE DEF k
  <1>12. QED
    BY <1>2, <1>4, <1>6, <1>11, KvStep

LEMMA ExchangeFailsDrift ==
  ASSUME RequestInv, DriftInv, Watch, NEW c \in Request, UNCHANGED ssVars, ExchangeFails(c)
  PROVE  DriftInv'
  BY FailingCall DEF ExchangeFails

LEMMA TimesOutDrift ==
  ASSUME RequestInv, DriftInv, Watch, NEW c \in Request, UNCHANGED ssVars, ExchangeTimesOut(c)
  PROVE  DriftInv'
  <1> DEFINE m == calls[c]
             n == [kind |-> IF m.pc = "write" THEN "put" ELSE "purge",
                   bucket |-> m.bucket, key |-> m.key, payload |-> m.payload,
                   revision |-> m.revision, stamp |-> m.stamp]
  <1>1. /\ m.pc \in {"write", "purge"} /\ UNCHANGED kv /\ Return(c, "failed") /\ Duty(c)
        /\ late' = [late EXCEPT ![c] = n] /\ \A j : Clean(j)' => Clean(j)
    BY WatchMarks DEF ExchangeTimesOut, DriftInv
  <1>2. UNCHANGED <<reqs, rows>>
    BY DEF ssVars
  <1>3. calls'[c].pc = "failed" /\ \A d \in Request : d # c => calls'[d] = calls[d]
    BY <1>1, <1>2, ReturnAside DEF Answer
  <1>4. late'[c] = n /\ \A d \in Request : d # c => late'[d] = late[d]
    BY <1>1, PublisherFacts, RequestAssumption
  <1>5. n.key = m.key
    OBVIOUS
  <1> HIDE DEF n
  <1>6. OthersAside(c)
    BY <1>2, <1>3, <1>4 DEF OthersAside
  <1>7. /\ m.pc \in Active
        /\ \/ reqs[c].pc = "publishing" /\ m.key = reqs[c].key
           \/ reqs[c].pc = "purging" /\ m.key = reqs[c].prev
    BY <1>1, CarryingCall, PurgingCall
  <1>8. Wire(c)'
    BY <1>2, <1>3, <1>4, <1>5, <1>7 DEF Wire
  <1>9. reqs[c].pc = "purging" => (Clean(reqs[c].key) => Shown(reqs[c].key))'
    <2>1. reqs[c].pc = "purging" => (Clean(reqs[c].key) => Shown(reqs[c].key))
      BY <1>1 DEF Duty, Purged
    <2>2. Shown(reqs[c].key) => Shown(reqs[c].key)'
      BY <1>1, <1>2 DEF Shown
    <2>3. QED
      BY <1>1, <1>2, <2>1, <2>2
  <1>10. Duty(c)'
    BY <1>1, <1>3, <1>7, <1>8, <1>9, CallDuty
  <1>11. \A k : EntrySame(k)
    BY <1>1 DEF EntrySame
  <1>12. ~Clean(NoKey)
    BY KnownKeyAssumption DEF Clean
  <1>13. QED
    BY <1>6, <1>10, <1>11, <1>12, KvStep

(* A message that lands or is lost.                                        *)
LEMMA NetworkDrift ==
  ASSUME RequestInv, DriftInv, Watch, NEW c \in Request, UNCHANGED ssVars, Network(c)
  PROVE  DriftInv'
  <1> DEFINE j == late[c].key
  <1>1. /\ UNCHANGED calls /\ late' = [late EXCEPT ![c] = NoMessage] /\ late[c].kind # "none"
        /\ Duty(c) /\ \A k : Clean(k)' => Clean(k)
    BY WatchMarks DEF Network, LatePut, LatePurge, LateLost, DriftInv
  <1>2. UNCHANGED <<reqs, rows>>
    BY DEF ssVars
  <1>3. late'[c].kind = "none" /\ \A d \in Request : d # c => late'[d] = late[d]
    BY <1>1, PublisherFacts, RequestAssumption DEF NoMessage
  <1>4. OthersAside(c)
    BY <1>1, <1>2, <1>3 DEF OthersAside
  <1>5. \A k \in Key : k # j => EntrySame(k)
    <2>1. CASE UNCHANGED kv
      BY <2>1 DEF EntrySame
    <2>2. CASE kv' = [kv EXCEPT ![late[c].bucket] = KvPut(@, late[c].key, late[c].payload, late[c].stamp)]
      BY <2>2, PublisherFacts, PutAdvances, OnlyThisKey
    <2>3. CASE kv' = [kv EXCEPT ![late[c].bucket] = KvPurge(@, late[c].key)]
      BY <2>3, PublisherFacts, PurgeAdvances, OnlyThisKey
    <2>4. QED
      BY <2>1, <2>2, <2>3 DEF Network, LatePut, LatePurge, LateLost
  <1>6. Clean(j) => /\ calls[c].pc = "failed" /\ Owes(c, j)
                    /\ \/ reqs[c].pc = "publishing" /\ j = reqs[c].key
                       \/ reqs[c].pc = "purging" /\ j = reqs[c].prev
    BY <1>1, KnownKeyAssumption DEF Duty, Wire, Owes, AfterExec, Touched, Clean
  <1>7. Stage(c)' /\ Left(c)' /\ Wire(c)'
    BY <1>1, <1>2, <1>3 DEF Duty, Stage, Left, Wire, Unbacked
  <1>8. \A k : Clean(k)' /\ EntrySame(k) /\ Shown(k) => Shown(k)'
    BY <1>2 DEF Shown, EntrySame
  <1>9. \A k : Clean(k)' => (k = j \/ EntrySame(k))
    BY <1>5 DEF Clean
  <1>10. Put(c)'
    <2> SUFFICES ASSUME reqs[c].pc = "publishing", Clean(reqs[c].key)'
                 PROVE  /\ calls[c].pc \in {"get", "write"} => Carrying(c)'
                        /\ calls[c].pc \in {"ok", "skipped"} => Shown(reqs[c].key)'
      BY <1>1, <1>2 DEF Put
    <2>1. Clean(reqs[c].key)
      BY <1>1, <1>2
    <2>2. Carrying(c) => Carrying(c)'
      BY <1>1, <1>2 DEF Carrying
    <2>3. calls[c].pc \in {"ok", "skipped"} => reqs[c].key # j
      BY <1>6, <2>1
    <2>4. QED
      BY <1>1, <1>2, <1>8, <1>9, <2>1, <2>2, <2>3 DEF Duty, Put
  <1>11. Purged(c)'
    <2> SUFFICES ASSUME reqs[c].pc = "purging"
                 PROVE  /\ Clean(reqs[c].key)' => Shown(reqs[c].key)'
                        /\ Clean(reqs[c].prev)' /\ calls[c].pc = "ok" => ~Live(kv'[SSB], reqs[c].prev)
      BY <1>1, <1>2 DEF Purged
    <2>1. reqs[c].prev # reqs[c].key
      BY <1>1 DEF Duty, Stage
    <2>2. Clean(reqs[c].key)' => Shown(reqs[c].key)'
      BY <1>1, <1>2, <1>6, <1>8, <1>9, <2>1 DEF Duty, Purged
    <2>3. Clean(reqs[c].prev)' /\ calls[c].pc = "ok" => EntrySame(reqs[c].prev)
      BY <1>1, <1>2, <1>6, <1>9
    <2>4. Clean(reqs[c].prev)' /\ calls[c].pc = "ok" => ~Live(kv'[SSB], reqs[c].prev)
      BY <1>1, <1>2, <2>3 DEF Duty, Purged, EntrySame, Live
    <2>5. QED
      BY <2>2, <2>4
  <1>12. Duty(c)'
    BY <1>7, <1>10, <1>11 DEF Duty
  <1> HIDE DEF j
  <1>13. QED
    BY <1>4, <1>5, <1>6, <1>12, KvStep

-----------------------------------------------------------------------------
(* Drift: the steps of the requests that commit nothing.                   *)

LEMMA ReqAside ==
  ASSUME RequestInv, NEW c \in Request, NEW r, reqs' = [reqs EXCEPT ![c] = r]
  PROVE  reqs'[c] = r /\ \A d \in Request : d # c => reqs'[d] = reqs[d]
  BY DEF RequestInv, Settled

LEMMA TouchedKeys ==
  ASSUME NEW c \in Request, NEW k \in Key
  PROVE  k \in Touched(c) <=> k = reqs[c].key \/ k = reqs[c].prev
  BY KnownKeyAssumption DEF Touched

(* A request that ends has paid for every key it leaves clean, and so has  *)
(* a message that it leaves behind.                                        *)
LEMMA PaidOff ==
  ASSUME RequestInv, DriftInv, Watch, NEW c \in Request, reqs'[c].pc = "idle"
  PROVE  \A k : Clean(k)' /\ Owes(c, k) => Shown(k) \/ Gone(k)
  <1> SUFFICES ASSUME NEW k, Clean(k)', Owes(c, k)
               PROVE  Shown(k) \/ Gone(k)
    OBVIOUS
  <1>1. Duty(c) /\ Clean(k) /\ k \in Key /\ k \in Touched(c) /\ reqs[c].pc \in AfterExec
    BY WatchMarks DEF DriftInv, Clean, Owes
  <1>2. ~StopsShort(c)
    BY <1>1, WatchMarks DEF Clean
  <1>3. reqs'[c].pc # reqs[c].pc
    BY <1>1 DEF AfterExec
  <1>4. reqs[c].pc # "readback"
    BY <1>2, <1>3 DEF StopsShort
  <1>5. reqs[c].pc \in {"publishing", "purging"} /\ ~Dropped(c)
    BY <1>1, <1>2, <1>3, <1>4 DEF StopsShort, AfterExec
  <1>6. k = reqs[c].key \/ k = reqs[c].prev
    BY <1>1, TouchedKeys
  <1>7. CASE reqs[c].pc = "publishing"
    <2>1. ~Moved(c)
      BY <1>2, <1>3, <1>7 DEF StopsShort
    <2>2. reqs[c].op \in {"create", "update"}
      BY <1>1, <1>7, ReqFacts DEF Duty, Stage
    <2>3. k = reqs[c].key
      BY <1>1, <1>6, <2>1, <2>2, KnownKeyAssumption DEF Moved, Duty, Stage
    <2>4. QED
      BY <1>1, <1>5, <1>7, <2>3 DEF Duty, Put, Dropped
  <1>8. CASE reqs[c].pc = "purging"
    <2>1. reqs[c].prev # reqs[c].key /\ calls[c].pc = "ok"
      BY <1>1, <1>5, <1>8 DEF Duty, Stage, Dropped
    <2>2. k = reqs[c].key => Shown(k)
      BY <1>1, <1>8 DEF Duty, Purged
    <2>3. k = reqs[c].prev => Unbacked(k) /\ ~Live(kv[SSB], k)
      BY <1>1, <1>8, <2>1 DEF Duty, Purged, Left
    <2>4. QED
      BY <1>6, <2>2, <2>3 DEF Gone
  <1>9. QED
    BY <1>5, <1>7, <1>8

LEMMA LateOver ==
  ASSUME RequestInv, DriftInv, Watch, NEW c \in Request, UNCHANGED late, reqs'[c].pc # reqs[c].pc
  PROVE  (late[c].kind # "none" => ~Clean(late[c].key))'
  <1> SUFFICES ASSUME late[c].kind # "none", Clean(late[c].key)'
               PROVE  FALSE
    OBVIOUS
  <1>1. Duty(c) /\ Clean(late[c].key)
    BY WatchMarks DEF DriftInv
  <1>2. /\ calls[c].pc = "failed"
        /\ \/ reqs[c].pc = "publishing" /\ late[c].key = reqs[c].key
           \/ reqs[c].pc = "purging" /\ late[c].key = reqs[c].prev
    BY <1>1 DEF Duty, Wire
  <1>3. StopsShort(c)
    BY <1>2 DEF StopsShort, Dropped
  <1>4. late[c].key \in Touched(c)
    BY <1>1, <1>2, TouchedKeys DEF Clean
  <1>5. QED
    BY <1>3, <1>4, WatchMarks DEF Clean

LEMMA EndDrift ==
  ASSUME RequestInv, DriftInv, Watch, NEW c \in Request, Finish(c), reqs[c].pc # "idle",
         UNCHANGED <<rows, nextId, kv, late>>,
         calls'[c].pc \notin Active, \A d \in Request : d # c => calls'[d] = calls[d]
  PROVE  DriftInv'
  <1>1. reqs'[c] = NoReq /\ OthersAside(c)
    BY ReqAside DEF Finish, OthersAside
  <1>2. reqs'[c].pc = "idle"
    BY <1>1 DEF NoReq
  <1>3. (late[c].kind # "none" => ~Clean(late[c].key))'
    BY <1>2, LateOver
  <1>4. Duty(c)' /\ Seen(c)' /\ \A k : ~Owes(c, k)'
    BY <1>1, <1>3, FreeDuty
  <1>5. \A k : Clean(k)' /\ Owes(c, k) => Shown(k) \/ Gone(k)
    BY <1>2, PaidOff
  <1>6. QED
    BY <1>1, <1>4, <1>5, QuietStep

(* It ends away from the publisher.                                        *)
LEMMA AbandonDrift ==
  ASSUME RequestInv, DriftInv, Watch, NEW c \in Request, Finish(c),
         reqs[c].pc \in {"previous", "check", "exec", "readback"}, UNCHANGED <<pubVars, rows, nextId>>
  PROVE  DriftInv'
  <1>1. calls'[c].pc \notin Active /\ UNCHANGED <<kv, calls, late>>
    BY DEF DriftInv, Duty, Stage, pubVars
  <1>2. QED
    BY <1>1, EndDrift

LEMMA TakenDrift ==
  ASSUME RequestInv, DriftInv, Watch, NEW c \in Request, Finish(c), Taken(c),
         reqs[c].pc \in {"publishing", "purging"}, UNCHANGED <<rows, nextId>>
  PROVE  DriftInv'
  <1>1. Return(c, "idle") /\ UNCHANGED <<kv, late>>
    BY DEF Taken
  <1>2. calls'[c].pc = "idle" /\ \A d \in Request : d # c => calls'[d] = calls[d]
    BY <1>1, PublisherFacts, ReturnType, RequestAssumption DEF Answer
  <1>3. QED
    BY <1>1, <1>2, EndDrift DEF Active

(* A request before its statement, that goes on.                           *)
LEMMA EarlyDrift ==
  ASSUME RequestInv, DriftInv, Watch, NEW c \in Request, NEW r, reqs' = [reqs EXCEPT ![c] = r],
         UNCHANGED <<pubVars, rows, nextId>>, reqs[c].pc \in {"idle", "previous", "check"},
         r.pc \in {"previous", "check", "exec"},
         r.op = "create" => r.prev = NoKey /\ r.pc # "previous",
         r.op = "delete" => r.key = NoKey, Seen(c)'
  PROVE  DriftInv'
  <1>1. UNCHANGED <<kv, calls, late>>
    BY DEF pubVars
  <1>2. reqs'[c] = r /\ OthersAside(c)
    BY <1>1, ReqAside DEF OthersAside
  <1>3. Duty(c) /\ \A k : Clean(k)' => Clean(k)
    BY WatchMarks DEF DriftInv
  <1>4. Stage(c)' /\ Left(c)' /\ Put(c)' /\ Purged(c)'
    BY <1>1, <1>2, <1>3 DEF Stage, Left, Put, Purged, Duty, AfterExec
  <1>5. Wire(c)'
    BY <1>1, <1>3 DEF Wire, Duty
  <1>6. \A k : ~Owes(c, k)' /\ ~Owes(c, k)
    BY <1>2 DEF Owes, AfterExec
  <1>7. QED
    BY <1>1, <1>2, <1>4, <1>5, <1>6, QuietStep DEF Duty

LEMMA ArrivalDrift ==
  ASSUME RequestInv, DriftInv, Watch, NEW c \in Request, Arrival(c)
  PROVE  DriftInv'
  <1>1. ASSUME NEW r, Accept(c, r), r.pc \in {"previous", "check"},
               r.op = "create" => r.prev = NoKey /\ r.pc # "previous",
               r.op = "delete" => r.key = NoKey,
               r.op \in {"update", "delete"} => r.pc = "previous"
        PROVE  DriftInv'
    <2>1. reqs' = [reqs EXCEPT ![c] = r] /\ UNCHANGED <<pubVars, rows, nextId>> /\ reqs[c].pc = "idle"
      BY <1>1 DEF Accept, Idle
    <2>2. reqs'[c] = r
      BY <2>1, ReqAside
    <2>3. Seen(c)'
      BY <1>1, <2>2 DEF Seen
    <2>4. QED
      BY <1>1, <2>1, <2>3, EarlyDrift
  <1>2. CASE \E k \in Key, d \in Payload : CreateMicroserviceConfig(c, k, d)
    <2>1. PICK k \in Key, d \in Payload : CreateMicroserviceConfig(c, k, d)
      BY <1>2
    <2> DEFINE r == [NoReq EXCEPT !.op = "create", !.pc = "check", !.key = k, !.doc = d]
    <2>2. r.op = "create" /\ r.pc = "check" /\ r.prev = NoKey
      BY DEF NoReq
    <2>3. Accept(c, r)
      BY <2>1 DEF CreateMicroserviceConfig
    <2> HIDE DEF r
    <2>4. QED
      BY <1>1, <2>2, <2>3
  <1>3. CASE \E id \in RowId, k \in Key, d \in Payload, guarded \in Opting :
                UpdateMicroserviceConfig(c, id, k, d, guarded)
    <2>1. PICK id \in RowId, k \in Key, d \in Payload, guarded \in Opting :
                UpdateMicroserviceConfig(c, id, k, d, guarded)
      BY <1>3
    <2> DEFINE r == [NoReq EXCEPT !.op = "update", !.pc = "previous", !.id = id,
                                  !.key = k, !.doc = d,
                                  !.expected = IF guarded THEN rows[id].at ELSE 0]
    <2>2. r.op = "update" /\ r.pc = "previous"
      BY DEF NoReq
    <2>3. Accept(c, r)
      BY <2>1 DEF UpdateMicroserviceConfig
    <2> HIDE DEF r
    <2>4. QED
      BY <1>1, <2>2, <2>3
  <1>4. CASE \E id \in RowId : DeleteMicroserviceConfig(c, id)
    <2>1. PICK id \in RowId : DeleteMicroserviceConfig(c, id)
      BY <1>4
    <2> DEFINE r == [NoReq EXCEPT !.op = "delete", !.pc = "previous", !.id = id]
    <2>2. r.op = "delete" /\ r.pc = "previous" /\ r.key = NoKey
      BY DEF NoReq
    <2>3. Accept(c, r)
      BY <2>1 DEF DeleteMicroserviceConfig
    <2> HIDE DEF r
    <2>4. QED
      BY <1>1, <2>2, <2>3
  <1>5. QED
    BY <1>2, <1>3, <1>4 DEF Arrival

LEMMA ReadPreviousDrift ==
  ASSUME RequestInv, Versions, DriftInv, Watch, NEW c \in Request, ReadPrevious(c)
  PROVE  DriftInv'
  <1>1. UNCHANGED <<pubVars, rows, nextId>> /\ reqs[c].pc = "previous" /\ Stage(c)
    BY DEF ReadPrevious, DriftInv, Duty
  <1>2. CASE ~Exists(reqs[c].id)
    BY <1>1, <1>2, AbandonDrift DEF ReadPrevious
  <1>3. CASE Exists(reqs[c].id)
    <2> DEFINE n == IF reqs[c].op = "update" THEN "check" ELSE "exec"
               k == rows[reqs[c].id].key
               r == [reqs[c] EXCEPT !.pc = n, !.prev = k]
    <2>1. reqs' = [reqs EXCEPT ![c] = r]
      BY <1>3 DEF ReadPrevious
    <2>2. n \in {"check", "exec"}
      OBVIOUS
    <2> HIDE DEF k, n
    <2>3. r.pc = n /\ r.prev = k /\ r.op = reqs[c].op /\ r.key = reqs[c].key /\ r.id = reqs[c].id
      BY ReqFacts DEF Req
    <2>4. r.op # "create" /\ (r.op = "delete" => r.key = NoKey)
      BY <1>1, <2>3 DEF Stage
    <2> HIDE DEF r
    <2>5. reqs'[c] = r
      BY <2>1, ReqAside
    <2>6. Seen(c)'
      <3>1. Held(c)' = k
        BY <2>2, <2>3, <2>5 DEF Held
      <3>2. rows[r.id] # NoRow /\ rows[r.id].key = k /\ r.id \in RowId /\ r.id < nextId
        BY <1>3, <2>3 DEF Exists, Versions, k
      <3>3. QED
        BY <1>1, <2>5, <3>1, <3>2 DEF Seen
    <2>7. QED
      BY <1>1, <2>1, <2>2, <2>3, <2>4, <2>6, EarlyDrift
  <1>4. QED
    BY <1>2, <1>3

LEMMA CheckDrift ==
  ASSUME RequestInv, DriftInv, Watch, NEW c \in Request, checkAppSettingsRefs(c)
  PROVE  DriftInv'
  <1>1. UNCHANGED <<pubVars, rows, nextId>> /\ reqs[c].pc = "check" /\ Stage(c) /\ Seen(c)
    BY DEF checkAppSettingsRefs, DriftInv, Duty
  <1>2. CASE Finish(c)
    BY <1>1, <1>2, AbandonDrift
  <1>3. CASE Goto(c, "exec")
    <2> DEFINE r == [reqs[c] EXCEPT !.pc = "exec"]
    <2>1. reqs' = [reqs EXCEPT ![c] = r]
      BY <1>3 DEF Goto
    <2>2. /\ r.pc = "exec" /\ r.prev = reqs[c].prev /\ r.op = reqs[c].op
          /\ r.key = reqs[c].key /\ r.id = reqs[c].id
      BY ReqFacts DEF Req
    <2>3. (r.op = "create" => r.prev = NoKey) /\ (r.op = "delete" => r.key = NoKey)
      BY <1>1, <2>2 DEF Stage
    <2> HIDE DEF r
    <2>4. reqs'[c] = r
      BY <2>1, ReqAside
    <2>5. Held(c)' = Held(c) /\ Touched(c)' = Touched(c) /\ contested \subseteq contested'
      BY <1>1, <2>2, <2>4, WatchMarks DEF Held, Touched
    <2>6. Seen(c)'
      BY <1>1, <2>2, <2>4, <2>5 DEF Seen
    <2>7. QED
      BY <1>1, <2>1, <2>2, <2>3, <2>6, EarlyDrift
  <1>4. QED
    BY <1>2, <1>3 DEF checkAppSettingsRefs

LEMMA ExecRefusedDrift ==
  ASSUME RequestInv, DriftInv, Watch, NEW c \in Request, ExecRefused(c)
  PROVE  DriftInv'
  BY AbandonDrift DEF ExecRefused

(* A publish or a purge that begins.                                       *)
LEMMA BeginAside ==
  ASSUME RequestInv, NEW c \in Request, NEW k \in Key, NEW p, NEW pc \in {"get", "purge"},
         Begin(c, SSB, k, p, pc)
  PROVE  /\ UNCHANGED <<kv, late>> /\ \A d \in Request : d # c => calls'[d] = calls[d]
         /\ \/ calls'[c].pc = "failed"
            \/ /\ calls'[c].pc = pc /\ calls'[c].bucket = SSB /\ calls'[c].key = k
               /\ calls'[c].payload = p
  <1>1. UNCHANGED <<kv, late>>
    BY DEF Begin
  <1>2. CASE provisioned
    <2> DEFINE n == Started(SSB, k, p, pc)
    <2>1. calls' = [calls EXCEPT ![c] = n]
      BY <1>2 DEF Begin
    <2>2. n.pc = pc /\ n.bucket = SSB /\ n.key = k /\ n.payload = p
      BY DEF Started
    <2> HIDE DEF n
    <2>3. calls'[c] = n /\ \A d \in Request : d # c => calls'[d] = calls[d]
      BY <2>1, PublisherFacts, RequestAssumption
    <2>4. QED
      BY <1>1, <2>2, <2>3
  <1>3. CASE ~provisioned
    <2>1. Return(c, "failed")
      BY <1>3 DEF Begin
    <2>2. calls'[c].pc = "failed" /\ \A d \in Request : d # c => calls'[d] = calls[d]
      BY <2>1, PublisherFacts, ReturnType, RequestAssumption DEF Answer
    <2>3. QED
      BY <1>1, <2>2
  <1>4. QED
    BY <1>2, <1>3

LEMMA PublishAside ==
  ASSUME RequestInv, NEW c \in Request, NEW k \in Key, NEW p, PublishServiceSettings(c, k, p)
  PROVE  /\ UNCHANGED <<kv, late>> /\ \A d \in Request : d # c => calls'[d] = calls[d]
         /\ \/ calls'[c].pc = "failed"
            \/ /\ calls'[c].pc = "get" /\ calls'[c].bucket = SSB /\ calls'[c].key = k
               /\ calls'[c].payload = p
  <1>1. CASE Begin(c, SSB, k, p, "get")
    BY <1>1, BeginAside
  <1>2. CASE Return(c, "failed") /\ UNCHANGED <<kv, late>>
    <2>1. calls'[c].pc = "failed" /\ \A d \in Request : d # c => calls'[d] = calls[d]
      BY <1>2, PublisherFacts, ReturnType, RequestAssumption DEF Answer
    <2>2. QED
      BY <1>2, <2>1
  <1>3. QED
    BY <1>1, <1>2 DEF PublishServiceSettings, PublishDocument, SSB

(* What the read-back finds under a clean key is the row the request wrote.*)
LEMMA ReadBackDrift ==
  ASSUME RequestInv, DriftInv, Watch, NEW c \in Request, ReadBack(c)
  PROVE  DriftInv'
  <1>1. UNCHANGED <<rows, nextId>> /\ reqs[c].pc = "readback" /\ Duty(c) /\ Seen(c)
    BY DEF ReadBack, DriftInv
  <1>2. \A k : Clean(k)' => Clean(k)
    BY WatchMarks
  <1>3. CASE Finish(c) /\ UNCHANGED pubVars
    BY <1>1, <1>3, AbandonDrift
  <1>4. CASE \E id \in RowId :
               /\ Exists(id)
               /\ IF reqs[c].op = "update" THEN id = reqs[c].id ELSE rows[id].key = reqs[c].key
               /\ PublishServiceSettings(c, rows[id].key, rows[id].doc)
               /\ reqs' = [reqs EXCEPT ![c].pc = "publishing", ![c].key = rows[id].key]
    <2>1. PICK id \in RowId :
               /\ Exists(id)
               /\ IF reqs[c].op = "update" THEN id = reqs[c].id ELSE rows[id].key = reqs[c].key
               /\ PublishServiceSettings(c, rows[id].key, rows[id].doc)
               /\ reqs' = [reqs EXCEPT ![c].pc = "publishing", ![c].key = rows[id].key]
      BY <1>4
    <2> DEFINE j == rows[id].key
               p == rows[id].doc
               r == [reqs[c] EXCEPT !.pc = "publishing", !.key = j]
    <2>2. j \in Key /\ rows[id] # NoRow
      BY <2>1, RowFacts DEF Exists
    <2>3. reqs' = [reqs EXCEPT ![c] = r]
      BY <2>1
    <2>4. /\ UNCHANGED <<kv, late>> /\ \A d \in Request : d # c => calls'[d] = calls[d]
          /\ \/ calls'[c].pc = "failed"
             \/ /\ calls'[c].pc = "get" /\ calls'[c].bucket = SSB /\ calls'[c].key = j
                /\ calls'[c].payload = p
      BY <2>1, <2>2, PublishAside
    <2>5. reqs[c].op \in {"create", "update"}
      BY <1>1, ReqFacts DEF Duty, Stage, AfterExec
    <2>6. j = reqs[c].key \/ (Touched(c) \subseteq contested /\ j \in contested)
      BY <1>1, <2>1, <2>2, <2>5 DEF Seen, Held
    <2> HIDE DEF j, p
    <2>7. r.pc = "publishing" /\ r.key = j /\ r.prev = reqs[c].prev /\ r.op = reqs[c].op
      BY ReqFacts DEF Req
    <2> HIDE DEF r
    <2>8. reqs'[c] = r /\ OthersAside(c)
      BY <2>3, <2>4, ReqAside DEF OthersAside
    <2>9. \A k : Clean(k) => (Owes(c, k) <=> k = reqs[c].key \/ k = reqs[c].prev)
      BY <1>1, KnownKeyAssumption DEF Owes, AfterExec, Touched, Clean
    <2>10. \A k : Clean(k)' => (Owes(c, k)' <=> k = j \/ k = reqs[c].prev)
      BY <2>7, <2>8, KnownKeyAssumption DEF Owes, AfterExec, Touched, Clean
    <2>11. \A k : Clean(k) /\ (k = reqs[c].key \/ k = reqs[c].prev \/ k = j) => j = reqs[c].key
      BY <2>6, KnownKeyAssumption DEF Touched, Clean
    <2>12. \A k : Clean(k)' => (Owes(c, k)' <=> Owes(c, k))
      BY <1>2, <2>9, <2>10, <2>11
    <2>13. Stage(c)'
      BY <1>1, <2>4, <2>5, <2>7, <2>8 DEF Stage, Duty, AfterExec
    <2>14. Left(c)'
      <3> SUFFICES ASSUME reqs[c].prev # j, Clean(reqs[c].prev)'
                   PROVE  Unbacked(reqs[c].prev)'
        BY <2>7, <2>8 DEF Left
      <3>1. j = reqs[c].key /\ Clean(reqs[c].prev)
        BY <1>2, <2>7, <2>8, <2>11
      <3>2. QED
        BY <1>1, <2>7, <2>8, <3>1 DEF Duty, Left, AfterExec, Unbacked
    <2>15. Put(c)'
      <3>1. calls'[c].pc = "get" => Carrying(c)'
        BY <1>1, <2>2, <2>4, <2>7, <2>8 DEF Carrying, j, p
      <3>2. QED
        BY <2>4, <3>1 DEF Put
    <2>16. Purged(c)' /\ Seen(c)'
      BY <2>7, <2>8 DEF Purged, Seen
    <2>17. Wire(c)'
      BY <1>1, <1>2, <2>4 DEF Wire, Duty
    <2>18. QED
      BY <1>1, <2>4, <2>8, <2>12, <2>13, <2>14, <2>15, <2>16, <2>17, QuietStep DEF Duty
  <1>5. QED
    BY <1>3, <1>4 DEF ReadBack

LEMMA AfterPublishDrift ==
  ASSUME RequestInv, DriftInv, Watch, NEW c \in Request, AfterPublish(c)
  PROVE  DriftInv'
  <1>1. UNCHANGED <<rows, nextId>> /\ reqs[c].pc = "publishing" /\ Duty(c)
    BY DEF AfterPublish, DriftInv
  <1>2. \A k : Clean(k)' => Clean(k)
    BY WatchMarks
  <1>3. CASE Taken(c) /\ Finish(c)
    BY <1>1, <1>3, TakenDrift
  <1>4. CASE Moved(c) /\ DeleteKey(c, BucketServiceSettings, reqs[c].prev) /\ Goto(c, "purging")
    <2> DEFINE r == [reqs[c] EXCEPT !.pc = "purging"]
    <2>1. reqs' = [reqs EXCEPT ![c] = r]
      BY <1>4 DEF Goto
    <2>2. r.pc = "purging" /\ r.key = reqs[c].key /\ r.prev = reqs[c].prev /\ r.op = reqs[c].op
      BY ReqFacts DEF Req
    <2> HIDE DEF r
    <2>3. reqs[c].op = "update" /\ reqs[c].prev # reqs[c].key /\ reqs[c].prev \in Key /\ reqs[c].key \in Key
      BY <1>1, <1>4, ReqFacts DEF Moved, Asked
    <2>4. /\ UNCHANGED <<kv, late>> /\ \A d \in Request : d # c => calls'[d] = calls[d]
          /\ \/ calls'[c].pc = "failed"
             \/ calls'[c].pc = "purge" /\ calls'[c].bucket = SSB /\ calls'[c].key = reqs[c].prev
      BY <1>4, <2>3, BeginAside DEF DeleteKey, SSB
    <2>5. reqs'[c] = r /\ OthersAside(c)
      BY <2>1, <2>4, ReqAside DEF OthersAside
    <2>6. reqs'[c].pc # reqs[c].pc
      BY <1>1, <2>2, <2>5
    <2>7. Clean(reqs[c].key)' => Shown(reqs[c].key)
      <3>1. Dropped(c) => StopsShort(c)
        BY <1>1, <2>6 DEF StopsShort
      <3>2. StopsShort(c) => reqs[c].key \in faulted'
        BY <2>3, WatchMarks, TouchedKeys
      <3>3. Clean(reqs[c].key)' => ~Dropped(c) /\ Clean(reqs[c].key)
        BY <1>2, <2>2, <2>5, <3>1, <3>2 DEF Clean
      <3>4. QED
        BY <1>1, <3>3 DEF Duty, Put, Dropped
    <2>8. \A k : Owes(c, k)' <=> Owes(c, k)
      BY <1>1, <2>2, <2>5 DEF Owes, Touched, AfterExec
    <2>9. Stage(c)'
      BY <2>2, <2>3, <2>4, <2>5 DEF Stage, AfterExec
    <2>10. Left(c)'
      BY <1>1, <1>2, <2>2, <2>5 DEF Left, Duty, AfterExec, Unbacked
    <2>11. Put(c)' /\ Seen(c)'
      BY <2>2, <2>5 DEF Put, Seen
    <2>12. Purged(c)'
      BY <1>1, <2>2, <2>4, <2>5, <2>7 DEF Purged, Shown
    <2>13. Wire(c)'
      BY <2>4, <2>6, LateOver DEF Wire
    <2>14. QED
      BY <1>1, <2>4, <2>5, <2>8, <2>9, <2>10, <2>11, <2>12, <2>13, QuietStep DEF Duty
  <1>5. QED
    BY <1>3, <1>4 DEF AfterPublish

LEMMA AfterPurgeDrift ==
  ASSUME RequestInv, DriftInv, Watch, NEW c \in Request, AfterPurge(c)
  PROVE  DriftInv'
  BY TakenDrift DEF AfterPurge

-----------------------------------------------------------------------------
(* Drift: the commits.                                                     *)

(* What a commit does: one row, and its key is the request's.              *)
Changes(c, i) ==
    /\ \A j \in RowId : j # i => rows'[j] = rows[j]
    /\ rows'[i] # rows[i] /\ reqs[c].pc = "exec" /\ nextId' >= nextId
    /\ \/ /\ reqs[c].op = "create" /\ rows[i] = NoRow /\ ~(i < nextId)
       \/ /\ reqs[c].op \in {"update", "delete"} /\ reqs[c].id = i
          /\ rows[i] # NoRow
    /\ \/ /\ reqs[c].op \in {"create", "update"} /\ rows'[i] # NoRow
          /\ rows'[i].key = reqs[c].key /\ reqs[c].key \in Key
          /\ \A j \in RowId : j # i => rows[j].key # reqs[c].key
       \/ reqs[c].op = "delete" /\ rows'[i] = NoRow

LEMMA CommitChanges ==
  ASSUME RequestInv, Versions, ~Sqlite, NEW c \in Request, Commit(c)
  PROVE  \E i \in RowId : Changes(c, i)
  <1>1. nextId \in Nat /\ rows \in [RowId -> Row \cup {NoRow}] /\ clock \in Nat
    BY DEF RequestInv, Settled, Inv, TypeOK
  <1>2. NewRow(c).at = clock /\ NewRow(c).key = reqs[c].key
    BY DEF NewRow
  <1>3. reqs[c].op \in {"create", "update"} => reqs[c].key \in Key
    BY ReqFacts DEF Asked
  <1>4. NoRow.key = NoKey
    BY DEF NoRow
  <1>5. CASE Insert(c)
    <2>1. PICK i \in RowId : FreshId(i) /\ rows' = [rows EXCEPT ![i] = NewRow(c)]
      BY <1>5 DEF Insert
    <2>2. i = nextId /\ nextId' = nextId + 1
      BY <2>1 DEF FreshId
    <2>3. rows[i] = NoRow /\ ~(i < nextId)
      BY <1>1, <2>2 DEF Versions
    <2>4. rows'[i] = NewRow(c) /\ \A j \in RowId : j # i => rows'[j] = rows[j]
      BY <1>1, <2>1
    <2>5. reqs[c].pc = "exec" /\ reqs[c].op = "create" /\ \A j \in RowId : rows[j].key # reqs[c].key
      BY <1>5, RowIdAssumption DEF Insert, KeyTaken
    <2>6. rows'[i] # NoRow
      BY <1>2, <1>3, <1>4, <2>4, <2>5, KnownKeyAssumption
    <2>7. nextId' >= nextId
      BY <1>1, <2>2
    <2>8. QED
      BY <1>2, <1>3, <2>3, <2>4, <2>5, <2>6, <2>7 DEF Changes
  <1>6. CASE Update(c)
    <2> DEFINE i == reqs[c].id
    <2>1. /\ rows' = [rows EXCEPT ![i] = NewRow(c)] /\ UNCHANGED nextId
          /\ i \in RowId /\ rows[i] # NoRow /\ rows[i].at < clock
          /\ reqs[c].pc = "exec" /\ reqs[c].op = "update"
          /\ \A j \in RowId : j # i => rows[j].key # reqs[c].key
      BY <1>6 DEF Update, Exists, KeyTaken
    <2>2. i = reqs[c].id
      OBVIOUS
    <2> HIDE DEF i
    <2>3. rows'[i] = NewRow(c) /\ \A j \in RowId : j # i => rows'[j] = rows[j]
      BY <1>1, <2>1
    <2>4. rows'[i] # NoRow
      BY <1>2, <1>3, <1>4, <2>1, <2>3, KnownKeyAssumption
    <2>5. rows[i].at # clock /\ nextId' >= nextId
      BY <1>1, <2>1
    <2>6. QED
      BY <1>2, <1>3, <2>1, <2>2, <2>3, <2>4, <2>5 DEF Changes
  <1>7. CASE Delete(c)
    <2> DEFINE i == reqs[c].id
    <2>1. /\ rows' = [rows EXCEPT ![i] = NoRow] /\ UNCHANGED nextId
          /\ i \in RowId /\ rows[i] # NoRow
          /\ reqs[c].pc = "exec" /\ reqs[c].op = "delete"
      BY <1>7 DEF Delete, Exists
    <2>2. i = reqs[c].id
      OBVIOUS
    <2> HIDE DEF i
    <2>3. rows'[i] = NoRow /\ \A j \in RowId : j # i => rows'[j] = rows[j]
      BY <1>1, <2>1
    <2>4. nextId' >= nextId
      BY <1>1, <2>1
    <2>5. QED
      BY <2>1, <2>2, <2>3, <2>4 DEF Changes
  <1>8. QED
    BY <1>5, <1>6, <1>7 DEF Commit

(* It changes what the database says of the keys the request is about, and *)
(* of no other clean key.                                                  *)
LEMMA CommitTouches ==
  ASSUME RequestInv, DriftInv, NEW c \in Request, NEW i \in RowId, Changes(c, i),
         NEW k, Clean(k), k \notin Touched(c)
  PROVE  RowsSame(k)
  <1>1. k \in Key /\ k # reqs[c].key /\ k # reqs[c].prev
    BY TouchedKeys DEF Clean
  <1>2. rows'[i] # NoRow => rows'[i].key # k
    BY <1>1 DEF Changes
  <1>3. rows[i] # NoRow => rows[i].key # k
    <2> SUFFICES ASSUME rows[i] # NoRow PROVE rows[i].key # k
      OBVIOUS
    <2>1. reqs[c].op \in {"update", "delete"} /\ reqs[c].id = i /\ reqs[c].pc = "exec"
      BY DEF Changes
    <2>2. rows[i].key = reqs[c].prev \/ rows[i].key \in contested
      BY <2>1 DEF DriftInv, Seen, Held
    <2>3. QED
      BY <1>1, <2>2 DEF Clean
  <1>4. QED
    BY <1>2, <1>3 DEF RowsSame, Changes

LEMMA CommitSeen ==
  ASSUME RequestInv, DriftInv, Watch, NEW c \in Request, NEW i \in RowId, Changes(c, i), Commits(c),
         nextId' \in Nat, NEW d \in Request, d # c, reqs'[d] = reqs[d]
  PROVE  Seen(d)'
  <1>1. Seen(d) /\ contested \subseteq contested' /\ nextId \in Nat /\ nextId' >= nextId
    BY WatchMarks DEF DriftInv, RequestInv, Settled, Changes
  <1>2. CASE rows'[reqs[d].id] = rows[reqs[d].id]
    BY <1>1, <1>2, SeenStays
  <1>3. CASE rows'[reqs[d].id] # rows[reqs[d].id]
    <2> SUFFICES ASSUME reqs[d].op \in {"update", "delete"}, reqs[d].pc \in {"check", "exec", "readback"}
                 PROVE  Seen(d)'
      BY DEF Seen
    <2>1. reqs[d].id \in RowId /\ reqs[d].id < nextId
      BY <1>1 DEF Seen
    <2>2. reqs[d].id = i
      BY <1>3, <2>1 DEF Changes
    <2>3. reqs[c].id = i /\ i # 0 /\ i \in Nat
      BY <2>1, <2>2, RowIdAssumption DEF Changes
    <2>4. Collides(c, d)
      BY <2>2, <2>3 DEF Collides
    <2>5. Touched(c) \cup Touched(d) \subseteq contested'
      BY <2>4, WatchMarks
    <2>6. rows'[i] # NoRow => rows'[i].key \in Touched(c)
      BY TouchedKeys DEF Changes
    <2>7. Touched(d)' = Touched(d)
      BY DEF Touched
    <2>8. i < nextId'
      BY <1>1, <2>1, <2>2, <2>3
    <2>9. QED
      BY <2>2, <2>5, <2>6, <2>7, <2>8 DEF Seen
  <1>4. QED
    BY <1>2, <1>3

LEMMA CommitUnique ==
  ASSUME DriftInv, NEW c \in Request, NEW i \in RowId, Changes(c, i)
  PROVE  KeysUnique'
  <1> SUFFICES ASSUME NEW j \in RowId, NEW l \in RowId, rows'[j] # NoRow, rows'[l] # NoRow,
                      rows'[j].key = rows'[l].key
               PROVE  j = l
    BY DEF KeysUnique
  <1>1. CASE j # i /\ l # i
    BY <1>1 DEF Changes, DriftInv, KeysUnique
  <1>2. CASE j = i \/ l = i
    BY <1>2 DEF Changes
  <1>3. QED
    BY <1>1, <1>2

(* A commit keeps the invariant if it keeps the request's own part.        *)
LEMMA CommitDrift ==
  ASSUME RequestInv, DriftInv, Watch, NEW c \in Request, NEW i \in RowId, Changes(c, i), nextId' \in Nat,
         OthersAside(c), UNCHANGED kv, reqs'[c].pc # "exec", Duty(c)', Seen(c)',
         \A k : Owes(c, k)' => k \in Touched(c),
         \A k : Clean(k)' /\ ~Owes(c, k)' => k \notin Touched(c)
  PROVE  DriftInv'
  <1>1. Commits(c)
    BY DEF Commits, Changes
  <1>2. \A k : Clean(k)' => Clean(k)
    BY WatchMarks
  <1>3. \A k : EntrySame(k)
    BY DEF EntrySame
  <1>4. \A k : Clean(k)' /\ k \notin Touched(c) => RowsSame(k)
    BY <1>2, CommitTouches
  <1>5. ASSUME NEW d \in Request, NEW k, d # c, Clean(k)', Owes(d, k)
        PROVE  k \notin Touched(c)
    <2> SUFFICES ASSUME k \in Touched(c) PROVE FALSE
      OBVIOUS
    <2>1. Collides(c, d)
      BY <1>5 DEF Collides, Owes
    <2>2. QED
      BY <1>1, <1>5, <2>1, WatchMarks DEF Clean
  <1>6. \A k : ~Owes(c, k)
    BY DEF Owes, AfterExec, Changes
  <1>7. \A d \in Request : Seen(d)'
    BY <1>1, CommitSeen DEF OthersAside
  <1>8. KeysUnique'
    BY CommitUnique
  <1>9. \A d \in Request : \A k : d # c /\ Clean(k)' /\ Owes(d, k) => RowsSame(k) /\ EntrySame(k)
    BY <1>3, <1>4, <1>5
  <1>10. \A k : Clean(k)' /\ Owes(c, k)' => \A d \in Request : d # c => ~Owes(d, k)
    BY <1>5
  <1>11. \A k : Clean(k)' /\ ~Owes(c, k)' => ~Owes(c, k) /\ RowsSame(k) /\ EntrySame(k)
    BY <1>3, <1>4, <1>6
  <1>12. QED
    BY <1>7, <1>8, <1>9, <1>10, <1>11, ActorStep

(* The key the row fed before is fed by no row after the commit.           *)
LEMMA CommitLeaves ==
  ASSUME DriftInv, NEW c \in Request, NEW i \in RowId, Changes(c, i),
         Clean(reqs[c].prev), reqs[c].prev # reqs[c].key
  PROVE  \A j \in RowId : rows'[j] # NoRow => rows'[j].key # reqs[c].prev
  <1>1. Stage(c) /\ Seen(c) /\ KeysUnique
    BY DEF DriftInv, Duty
  <1>2. reqs[c].op \in {"update", "delete"}
    BY <1>1, KnownKeyAssumption DEF Stage, Clean, Changes
  <1>3. reqs[c].prev \in Touched(c)
    BY TouchedKeys DEF Clean
  <1>4. rows[i] # NoRow /\ rows[i].key = reqs[c].prev
    BY <1>1, <1>2, <1>3 DEF Seen, Held, Changes, Clean
  <1>5. \A j \in RowId : j # i /\ rows[j] # NoRow => rows[j].key # reqs[c].prev
    BY <1>1, <1>4 DEF KeysUnique
  <1>6. QED
    BY <1>5 DEF Changes

LEMMA ExecDrift ==
  ASSUME RequestInv, Versions, ~Sqlite, DriftInv, Watch, NEW c \in Request, Exec(c)
  PROVE  DriftInv'
  <1>1. Commit(c)
    BY DEF Exec
  <1>2. PICK i \in RowId : Changes(c, i)
    BY <1>1, CommitChanges
  <1>3. nextId' \in Nat
    BY <1>1, CommitKeeps
  <1>4. reqs[c].pc = "exec" /\ Duty(c) /\ \A k : Clean(k)' => Clean(k)
    BY <1>2, WatchMarks DEF Changes, DriftInv
  <1>5. ASSUME NEW n \in {"readback", "purging"}, Goto(c, n),
               UNCHANGED <<kv, late>>, \A d \in Request : d # c => calls'[d] = calls[d],
               Stage(c)', Seen(c)', Purged(c)'
        PROVE  DriftInv'
    <2> DEFINE r == [reqs[c] EXCEPT !.pc = n]
    <2>1. reqs' = [reqs EXCEPT ![c] = r]
      BY <1>5 DEF Goto
    <2>2. r.pc = n /\ r.key = reqs[c].key /\ r.prev = reqs[c].prev
      BY ReqFacts DEF Req
    <2> HIDE DEF r
    <2>3. reqs'[c] = r /\ OthersAside(c)
      BY <1>5, <2>1, ReqAside DEF OthersAside
    <2>4. \A k : Owes(c, k)' <=> k \in Touched(c)
      BY <2>2, <2>3 DEF Owes, Touched, AfterExec
    <2>5. Left(c)'
      <3> SUFFICES ASSUME reqs[c].prev # reqs[c].key, Clean(reqs[c].prev)'
                   PROVE  Unbacked(reqs[c].prev)'
        BY <2>2, <2>3 DEF Left
      <3>1. Clean(reqs[c].prev)
        BY <1>4, <2>2, <2>3
      <3>2. \A j \in RowId : rows'[j] # NoRow => rows'[j].key # reqs[c].prev
        BY <1>2, <3>1, CommitLeaves
      <3>3. QED
        BY <2>2, <2>3, <3>2 DEF Unbacked
    <2>6. Put(c)'
      BY <2>2, <2>3 DEF Put
    <2>7. Wire(c)'
      BY <1>4, <1>5 DEF Wire, Duty
    <2>8. reqs'[c].pc # "exec"
      BY <2>2, <2>3
    <2>9. Duty(c)'
      BY <1>5, <2>5, <2>6, <2>7 DEF Duty
    <2>10. QED
      BY <1>2, <1>3, <1>5, <2>3, <2>4, <2>8, <2>9, CommitDrift
  <1>6. CASE reqs[c].op # "delete" /\ Goto(c, "readback") /\ UNCHANGED pubVars
    <2>1. UNCHANGED <<kv, calls, late>>
      BY <1>6 DEF pubVars
    <2>2. /\ reqs'[c].pc = "readback" /\ reqs'[c].key = reqs[c].key /\ reqs'[c].prev = reqs[c].prev
          /\ reqs'[c].op = reqs[c].op /\ reqs'[c].id = reqs[c].id
      BY <1>6, ReqFacts DEF Goto, Req, RequestInv, Settled
    <2>3. reqs[c].op \in {"create", "update"}
      BY <1>2, <1>6 DEF Changes
    <2>4. Stage(c)'
      BY <1>4, <2>1, <2>2, <2>3 DEF Stage, Duty
    <2>5. Purged(c)'
      BY <2>2 DEF Purged
    <2>6. Seen(c)'
      <3> SUFFICES ASSUME reqs[c].op = "update" PROVE Seen(c)'
        BY <2>2, <2>3 DEF Seen
      <3>1. reqs[c].id = i /\ rows'[i] # NoRow /\ rows'[i].key = reqs[c].key /\ nextId' >= nextId
        BY <1>2 DEF Changes
      <3>2. i < nextId /\ nextId \in Nat /\ i \in Nat
        BY <1>4, <3>1, RowIdAssumption DEF DriftInv, Seen, RequestInv, Settled
      <3>3. i < nextId'
        BY <1>3, <3>1, <3>2
      <3>4. Held(c)' = reqs[c].key
        BY <2>2 DEF Held
      <3>5. QED
        BY <2>2, <3>1, <3>3, <3>4 DEF Seen
    <2>7. QED
      BY <1>5, <1>6, <2>1, <2>4, <2>5, <2>6
  <1>7. CASE /\ reqs[c].op = "delete" /\ Goto(c, "purging")
             /\ DeleteKey(c, BucketServiceSettings, reqs[c].prev)
    <2>1. reqs[c].prev \in Key
      BY <1>4, <1>7, ReqFacts DEF Asked
    <2>2. /\ UNCHANGED <<kv, late>> /\ \A d \in Request : d # c => calls'[d] = calls[d]
          /\ \/ calls'[c].pc = "failed"
             \/ calls'[c].pc = "purge" /\ calls'[c].bucket = SSB /\ calls'[c].key = reqs[c].prev
      BY <1>7, <2>1, BeginAside DEF DeleteKey, SSB
    <2>3. /\ reqs'[c].pc = "purging" /\ reqs'[c].key = reqs[c].key /\ reqs'[c].prev = reqs[c].prev
          /\ reqs'[c].op = reqs[c].op
      BY <1>7, ReqFacts DEF Goto, Req, RequestInv, Settled
    <2>4. reqs[c].key = NoKey
      BY <1>4, <1>7 DEF Duty, Stage
    <2>5. Stage(c)'
      BY <1>7, <2>1, <2>2, <2>3, <2>4, KnownKeyAssumption DEF Stage
    <2>6. Purged(c)'
      BY <2>2, <2>3, <2>4, KnownKeyAssumption DEF Purged, Clean
    <2>7. Seen(c)'
      BY <2>3 DEF Seen
    <2>8. QED
      BY <1>5, <1>7, <2>2, <2>5, <2>6, <2>7
  <1>8. QED
    BY <1>6, <1>7 DEF Exec

(* The write was committed and its answer lost.                            *)
LEMMA DatabaseFailsDrift ==
  ASSUME RequestInv, Versions, ~Sqlite, DriftInv, Watch, NEW c \in Request, DatabaseFails(c)
  PROVE  DriftInv'
  <1>1. CASE UNCHANGED <<rows, nextId>> /\ reqs[c].pc \in {"previous", "check", "exec", "readback"}
    BY <1>1, AbandonDrift DEF DatabaseFails
  <1>2. CASE Commit(c)
    <2>1. PICK i \in RowId : Changes(c, i)
      BY <1>2, CommitChanges
    <2>2. nextId' \in Nat
      BY <1>2, CommitKeeps
    <2>3. reqs[c].pc = "exec" /\ Duty(c) /\ rows' # rows
      BY <2>1 DEF Changes, DriftInv
    <2>4. UNCHANGED <<kv, calls, late>>
      BY DEF DatabaseFails, pubVars
    <2>5. reqs'[c] = NoReq /\ OthersAside(c)
      BY <2>4, ReqAside DEF DatabaseFails, Finish, OthersAside
    <2>6. reqs'[c].pc = "idle"
      BY <2>5 DEF NoReq
    <2>7. calls'[c].pc \notin Active
      BY <2>3, <2>4 DEF Duty, Stage
    <2>8. (late[c].kind # "none" => ~Clean(late[c].key))'
      BY <2>3, <2>4, <2>6, LateOver
    <2>9. Duty(c)' /\ Seen(c)' /\ \A k : ~Owes(c, k)'
      BY <2>5, <2>7, <2>8, FreeDuty
    <2>10. StopsShort(c)
      BY <2>3, <2>6 DEF StopsShort, Commits
    <2>11. \A k : Clean(k)' => k \notin Touched(c)
      BY <2>10, WatchMarks DEF Clean
    <2>12. QED
      BY <2>1, <2>2, <2>4, <2>5, <2>6, <2>9, <2>11, CommitDrift
  <1>3. QED
    BY <1>1, <1>2 DEF DatabaseFails

-----------------------------------------------------------------------------
(* Drift: a crash, and the steps that are about no request.                *)

LEMMA CrashDrift ==
  ASSUME RequestInv, DriftInv, Watch, Crash
  PROVE  DriftInv'
  <1>1. UNCHANGED <<kv, late, rows, nextId>>
    BY DEF Crash, Restart
  <1>2. ASSUME NEW c \in Request
        PROVE  reqs'[c] = NoReq /\ reqs'[c].pc = "idle" /\ calls'[c].pc = "idle"
    BY RequestAssumption DEF Crash, Restart, NoReq, NoCall
  <1>3. ASSUME NEW c \in Request
        PROVE  Duty(c)' /\ Seen(c)' /\ \A k : ~Owes(c, k)'
    <2>1. CASE reqs[c].pc # "idle"
      <3>1. (late[c].kind # "none" => ~Clean(late[c].key))'
        BY <1>1, <1>2, <2>1, LateOver
      <3>2. QED
        BY <1>2, <3>1, FreeDuty DEF Active
    <2>2. CASE reqs[c].pc = "idle"
      <3>1. (late[c].kind # "none" => ~Clean(late[c].key))'
        BY <1>1, <2>2, WatchMarks DEF DriftInv, Duty, Wire
      <3>2. QED
        BY <1>2, <3>1, FreeDuty DEF Active
    <2>3. QED
      BY <2>1, <2>2
  <1>4. OneOwner'
    BY <1>3 DEF OneOwner
  <1>5. KeysUnique'
    BY <1>1 DEF DriftInv, KeysUnique
  <1>6. Settles'
    <2> SUFFICES ASSUME NEW k \in Key, Clean(k)'
                 PROVE  (Shown(k) \/ Gone(k))'
      BY DEF Settles
    <2>1. \A c \in Request : Owes(c, k) => Shown(k) \/ Gone(k)
      BY <1>2, PaidOff
    <2>2. Clean(k)
      BY WatchMarks
    <2>3. Shown(k) \/ Gone(k)
      BY <2>1, <2>2 DEF DriftInv, Settles
    <2>4. QED
      BY <1>1, <2>3 DEF Shown, Gone, Unbacked
  <1>7. QED
    BY <1>3, <1>4, <1>5, <1>6 DEF DriftInv

LEMMA AsideDrift ==
  ASSUME RequestInv, DriftInv, UNCHANGED <<rows, reqs, nextId, kv, calls, late>>,
         \A k : Clean(k)' => Clean(k), contested \subseteq contested'
  PROVE  DriftInv'
  <1>1. \A k : RowsSame(k) /\ EntrySame(k)
    BY DEF RowsSame, EntrySame
  <1>2. \A d \in Request : Duty(d)'
    BY <1>1, OtherDuty DEF DriftInv
  <1>3. nextId \in Nat /\ nextId' \in Nat /\ nextId' >= nextId
    BY DEF RequestInv, Settled
  <1>4. \A d \in Request : Seen(d)'
    BY <1>3, SeenStays DEF DriftInv
  <1>5. \A d \in Request : \A k : Owes(d, k)' <=> Owes(d, k)
    BY DEF Owes, Touched
  <1>6. KeysUnique' /\ OneOwner'
    BY <1>5 DEF DriftInv, KeysUnique, OneOwner
  <1>7. \A k : Shown(k) \/ Gone(k) => (Shown(k) \/ Gone(k))'
    BY <1>1, SameShown
  <1>8. Settles'
    BY <1>5, <1>7 DEF DriftInv, Settles
  <1>9. QED
    BY <1>2, <1>4, <1>6, <1>8 DEF DriftInv

LEMMA DriftNext ==
  ASSUME RequestInv, Versions, ~Sqlite, DriftInv, [SSNext /\ Watch]_watchedVars
  PROVE  DriftInv'
  <1>1. CASE UNCHANGED watchedVars
    <2>1. UNCHANGED <<rows, reqs, nextId, kv, calls, late, faulted, contested>>
      BY <1>1 DEF watchedVars, vars, pubVars, ssVars, histVars
    <2>2. \A k : Clean(k)' => Clean(k)
      BY <2>1 DEF Clean
    <2>3. QED
      BY <2>1, <2>2, AsideDrift
  <1>2. ASSUME Watch, NEW c \in Request, Arrival(c) \/ RequestStep(c) \/ DatabaseFails(c)
        PROVE  DriftInv'
    BY <1>2, ArrivalDrift, ReadPreviousDrift, CheckDrift, ExecDrift, ExecRefusedDrift, ReadBackDrift,
       AfterPublishDrift, AfterPurgeDrift, DatabaseFailsDrift DEF RequestStep
  <1>3. ASSUME Watch, NEW c \in Request, Distribute(c), UNCHANGED ssVars
        PROVE  DriftInv'
    BY <1>3, CurrentDrift, WriteDrift, WriteConflictDrift, PurgeDrift, ExchangeFailsDrift,
       TimesOutDrift, NetworkDrift DEF Distribute
  <1>4. ASSUME Watch, EnsureBuckets \/ Tick, UNCHANGED ssVars
        PROVE  DriftInv'
    <2>1. UNCHANGED <<rows, reqs, nextId, kv, calls, late>>
      BY <1>4 DEF EnsureBuckets, Tick, ssVars
    <2>2. (\A k : Clean(k)' => Clean(k)) /\ contested \subseteq contested'
      BY <1>4, WatchMarks
    <2>3. QED
      BY <2>1, <2>2, AsideDrift
  <1>5. QED
    BY <1>1, <1>2, <1>3, <1>4, CrashDrift DEF SSNext

LEMMA DriftInit == WatchedInit => DriftInv
  <1> SUFFICES ASSUME WatchedInit PROVE DriftInv
    OBVIOUS
  <1>1. /\ kv = [b \in Bucket |-> EmptyBucket] /\ calls = [c \in Caller |-> NoCall]
        /\ late = [c \in Caller |-> NoMessage] /\ rows = [id \in RowId |-> NoRow]
        /\ reqs = [c \in Request |-> NoReq]
    BY DEF WatchedInit, SSInit, Init
  <1>2. ASSUME NEW c \in Request
        PROVE  reqs[c].pc = "idle" /\ reqs[c].op = "none" /\ calls[c].pc = "idle" /\ late[c].kind = "none"
    BY <1>1, RequestAssumption DEF NoReq, NoCall, NoMessage
  <1>3. \A c \in Request : Duty(c) /\ Seen(c)
    BY <1>2 DEF Duty, Stage, Left, Put, Purged, Wire, Seen, AfterExec, Active
  <1>4. KeysUnique /\ OneOwner
    BY <1>1, <1>2 DEF KeysUnique, OneOwner, Owes, AfterExec
  <1>5. \A k \in Key : Gone(k)
    BY <1>1, SettingsBucketAssumption DEF Gone, Unbacked, Live, SSB, EmptyBucket, Absent
  <1>6. QED
    BY <1>3, <1>4, <1>5 DEF DriftInv, Settles

LEMMA DriftCauses == RequestInv /\ DriftInv => DriftHasACause
  <1> SUFFICES ASSUME RequestInv, DriftInv, NEW k \in Key \ (faulted \cup contested),
                      \A c \in Request : reqs[c].pc \in AfterExec => k \notin Touched(c)
               PROVE  Mirrored(k)
    BY DEF DriftHasACause
  <1>1. Shown(k) \/ Gone(k)
    BY DEF DriftInv, Settles, Clean, Owes
  <1>2. CASE Shown(k)
    BY <1>2 DEF Shown, Mirrored, Backing, Exists, SSB
  <1>3. CASE Gone(k)
    BY <1>3 DEF Gone, Unbacked, Mirrored, Backing, Exists, SSB
  <1>4. QED
    BY <1>1, <1>2, <1>3

(* On PostgreSQL, whatever number of requests run, are interrupted or are  *)
(* cut short by a crash: between requests KV serves what the database      *)
(* holds, except under keys where a step after the commit failed or where  *)
(* two requests overlapped.  The write-through of CreateMicroserviceConfig *)
(* and UpdateMicroserviceConfig, and the purges of purgeMoved and of       *)
(* DeleteMicroserviceConfig, leave no drift of their own.                  *)
THEOREM DriftCaused ==
  ASSUME ~Sqlite
  PROVE  WatchedSpec => []DriftHasACause
  <1>1. WatchedInit => DriftInv
    BY DriftInit
  <1>2. RequestInv /\ Versions /\ DriftInv /\ [SSNext /\ Watch]_watchedVars => DriftInv'
    BY DriftNext
  <1>3. RequestInv /\ DriftInv => DriftHasACause
    BY DriftCauses
  <1>4. QED
    BY <1>1, <1>2, <1>3, VersionsHold, WatchedSteps, RequestsAreCallers, PTL DEF WatchedSpec
=============================================================================
