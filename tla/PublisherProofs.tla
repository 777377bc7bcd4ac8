--------------------------- MODULE PublisherProofs ---------------------------
(***************************************************************************)
(* Proofs about Publisher, for every set of callers, keys and payloads and *)
(* every choice of the buckets and the bounds.                             *)
(***************************************************************************)
EXTENDS Publisher, TLAPS

USE DEF publishAttempts, BucketFlags, BucketServiceSettings, BucketLocalization

-----------------------------------------------------------------------------
(* Facts about the buckets.                                                *)

LEMMA EmptyBucketType == EmptyBucket \in BucketState
  BY PayloadAssumption DEF EmptyBucket, BucketState, Entry, Absent

LEMMA AnyType == AnyBucket \in Bucket /\ AnyKey \in Key
  BY KeyAssumption, BucketAssumption DEF AnyBucket, AnyKey

LEMMA KvPutType ==
  ASSUME NEW s \in BucketState, NEW k \in Key,
         NEW p \in Payload \cup {NoPayload}, NEW t \in Nat
  PROVE  /\ KvPut(s, k, p, t) \in BucketState
         /\ KvPut(s, k, p, t).seq = s.seq + 1
         /\ KvPut(s, k, p, t).entry[k] =
               [payload |-> p, stamp |-> t, revision |-> s.seq + 1]
         /\ \A j \in Key : j # k => KvPut(s, k, p, t).entry[j] = s.entry[j]
  BY DEF KvPut, BucketState, Entry

LEMMA KvPurgeType ==
  ASSUME NEW s \in BucketState, NEW k \in Key
  PROVE  /\ KvPurge(s, k) \in BucketState
         /\ KvPurge(s, k).seq = s.seq + 1
         /\ KvPurge(s, k).entry[k] = Absent
         /\ \A j \in Key : j # k => KvPurge(s, k).entry[j] = s.entry[j]
  BY DEF KvPurge, BucketState, Entry, Absent

LEMMA NoCallType ==
  /\ NoCall \in Call
  /\ NoMessage \in Message
  /\ \A a \in Answer : [NoCall EXCEPT !.pc = a] \in Call
  BY AnyType DEF NoCall, Call, NoMessage, Message, Answer, Active

LEMMA ReturnType ==
  ASSUME calls \in [Caller -> Call], NEW c \in Caller, NEW a \in Answer, Return(c, a)
  PROVE  /\ calls' \in [Caller -> Call]
         /\ calls'[c].pc = a
         /\ \A d \in Caller : d # c => calls'[d] = calls[d]
  <1>1. [NoCall EXCEPT !.pc = a] \in Call
    BY NoCallType
  <1>2. [NoCall EXCEPT !.pc = a].pc = a
    BY DEF NoCall
  <1>3. QED
    BY <1>1, <1>2 DEF Return

-----------------------------------------------------------------------------
(* The inductive invariant.  It speaks of the writes that are prepared but *)
(* not applied: those of the calls about to write and those of the late    *)
(* messages.  Both are conditioned on a revision, and as long as the key   *)
(* is still at that revision the prepared write is no older than, and says *)
(* something else than, the value it would replace.                        *)

Fresh(K, t, m) ==
    /\ m.revision <= K[m.bucket].seq
    /\ m.stamp <= t
    /\ m.bucket # BucketFlags => m.stamp = 0
    /\ m.revision # 0 /\ K[m.bucket].entry[m.key].revision = m.revision
       => /\ m.stamp >= K[m.bucket].entry[m.key].stamp
          /\ m.payload # K[m.bucket].entry[m.key].payload

Bounded(K, t) ==
    \A b \in Bucket, k \in Key :
        /\ K[b].entry[k].revision <= K[b].seq
        /\ K[b].entry[k].stamp <= t
        /\ b # BucketFlags => K[b].entry[k].stamp = 0

(* Every attempt that ended in a conflict stands for a write of the bucket *)
(* since the call began, and so does the attempt under way once the key    *)
(* has left the revision it read.                                          *)
Contended(K, m) ==
    /\ m.pc \in {"get", "write"} => K[m.bucket].seq >= m.since + m.attempt - 1
    /\ m.pc = "write" /\ K[m.bucket].entry[m.key].revision # m.revision
       => K[m.bucket].seq >= m.since + m.attempt

Inv ==
    /\ TypeOK
    /\ Bounded(kv, clock)
    /\ \A c \in Caller : calls[c].pc = "write" => Fresh(kv, clock, calls[c])
    /\ \A c \in Caller : late[c].kind = "put" => Fresh(kv, clock, late[c])
    /\ \A c \in Caller : Contended(kv, calls[c])

(* One write of a bucket: the key takes the next revision, or none.        *)
Advance(K, L, b, k) ==
    /\ L[b].seq = K[b].seq + 1
    /\ L[b].entry[k].revision \in {0, K[b].seq + 1}
    /\ \A j \in Key : j # k => L[b].entry[j] = K[b].entry[j]
    /\ \A d \in Bucket : d # b => L[d] = K[d]

LEMMA PutAdvances ==
  ASSUME kv \in [Bucket -> BucketState], NEW m \in Call \cup Message,
         kv' = [kv EXCEPT ![m.bucket] = KvPut(@, m.key, m.payload, m.stamp)]
  PROVE  /\ kv' \in [Bucket -> BucketState]
         /\ Advance(kv, kv', m.bucket, m.key)
         /\ kv'[m.bucket].entry[m.key].payload = m.payload
         /\ kv'[m.bucket].entry[m.key].stamp = m.stamp
  <1> DEFINE w == KvPut(kv[m.bucket], m.key, m.payload, m.stamp)
  <1>1. /\ m.bucket \in Bucket /\ m.key \in Key /\ m.stamp \in Nat
        /\ m.payload \in Payload \cup {NoPayload}
    BY DEF Call, Message
  <1>2. kv[m.bucket] \in BucketState
    BY <1>1
  <1>3. /\ w \in BucketState
        /\ w.seq = kv[m.bucket].seq + 1
        /\ w.entry[m.key] = [payload |-> m.payload, stamp |-> m.stamp,
                             revision |-> kv[m.bucket].seq + 1]
        /\ \A j \in Key : j # m.key => w.entry[j] = kv[m.bucket].entry[j]
    BY <1>1, <1>2, KvPutType
  <1>4. /\ kv' \in [Bucket -> BucketState]
        /\ kv'[m.bucket] = w
        /\ \A d \in Bucket : d # m.bucket => kv'[d] = kv[d]
    BY <1>1, <1>3
  <1>5. /\ kv'[m.bucket].entry[m.key].revision = kv[m.bucket].seq + 1
        /\ kv'[m.bucket].entry[m.key].payload = m.payload
        /\ kv'[m.bucket].entry[m.key].stamp = m.stamp
    BY <1>3, <1>4
  <1> HIDE DEF w
  <1>6. Advance(kv, kv', m.bucket, m.key)
    BY <1>3, <1>4, <1>5 DEF Advance
  <1>7. QED
    BY <1>4, <1>5, <1>6

LEMMA PurgeAdvances ==
  ASSUME kv \in [Bucket -> BucketState], NEW b \in Bucket, NEW k \in Key,
         kv' = [kv EXCEPT ![b] = KvPurge(@, k)]
  PROVE  /\ kv' \in [Bucket -> BucketState]
         /\ Advance(kv, kv', b, k)
         /\ kv'[b].entry[k] = Absent
  <1>1. kv[b] \in BucketState
    OBVIOUS
  <1>2. kv'[b] = KvPurge(kv[b], k) /\ \A d \in Bucket : d # b => kv'[d] = kv[d]
    OBVIOUS
  <1>3. kv' \in [Bucket -> BucketState]
    BY <1>1, KvPurgeType
  <1>4. Advance(kv, kv', b, k)
    BY <1>1, <1>2, KvPurgeType DEF Advance, Absent
  <1>5. QED
    BY <1>1, <1>2, <1>3, <1>4, KvPurgeType

(* A prepared write stays fresh when a bucket is written or time passes.   *)
LEMMA FreshStays ==
  ASSUME NEW K \in [Bucket -> BucketState], NEW L \in [Bucket -> BucketState],
         NEW b \in Bucket, NEW k \in Key, Advance(K, L, b, k),
         NEW t \in Nat, NEW m \in Call \cup Message, Fresh(K, t, m)
  PROVE  Fresh(L, t, m)
  <1>1. /\ m.bucket \in Bucket /\ m.key \in Key
        /\ m.revision \in Nat /\ m.stamp \in Nat
    BY DEF Call, Message
  <1>2. /\ K[m.bucket].seq \in Nat
        /\ L[m.bucket].entry[m.key] \in Entry
        /\ K[m.bucket].entry[m.key] \in Entry
    BY <1>1 DEF BucketState
  <1>3. CASE m.bucket = b /\ m.key = k
    BY <1>1, <1>2, <1>3 DEF Fresh, Advance, Entry
  <1>4. CASE m.bucket = b /\ m.key # k
    BY <1>1, <1>2, <1>4 DEF Fresh, Advance
  <1>5. CASE m.bucket # b
    BY <1>1, <1>2, <1>5 DEF Fresh, Advance
  <1>6. QED
    BY <1>3, <1>4, <1>5

LEMMA ContendedStays ==
  ASSUME NEW K \in [Bucket -> BucketState], NEW L \in [Bucket -> BucketState],
         NEW b \in Bucket, NEW k \in Key, Advance(K, L, b, k),
         NEW m \in Call, Contended(K, m)
  PROVE  Contended(L, m)
  <1>1. /\ m.bucket \in Bucket /\ m.key \in Key
        /\ m.since \in Nat /\ m.attempt \in Nat
    BY DEF Call
  <1>2. K[m.bucket].seq \in Nat
    BY <1>1 DEF BucketState
  <1>3. CASE m.bucket = b
    BY <1>1, <1>2, <1>3 DEF Contended, Advance
  <1>4. CASE m.bucket # b
    BY <1>1, <1>2, <1>4 DEF Contended, Advance
  <1>5. QED
    BY <1>3, <1>4

LEMMA BoundedStays ==
  ASSUME NEW K \in [Bucket -> BucketState], NEW L \in [Bucket -> BucketState],
         NEW b \in Bucket, NEW k \in Key, Advance(K, L, b, k),
         NEW t \in Nat, Bounded(K, t),
         L[b].entry[k].stamp <= t,
         b # BucketFlags => L[b].entry[k].stamp = 0
  PROVE  Bounded(L, t)
  <1> SUFFICES ASSUME NEW d \in Bucket, NEW j \in Key
               PROVE  /\ L[d].entry[j].revision <= L[d].seq
                      /\ L[d].entry[j].stamp <= t
                      /\ d # BucketFlags => L[d].entry[j].stamp = 0
    BY DEF Bounded
  <1>1. /\ K[d].seq \in Nat /\ K[d].entry[j].revision \in Nat
    BY DEF BucketState, Entry
  <1>2. CASE d # b
    BY <1>2 DEF Advance, Bounded
  <1>3. CASE d = b /\ j # k
    BY <1>1, <1>3 DEF Advance, Bounded
  <1>4. CASE d = b /\ j = k
    BY <1>1, <1>4 DEF Advance
  <1>5. QED
    BY <1>2, <1>3, <1>4

-----------------------------------------------------------------------------
(* Each step of a call, of the network and of the process keeps the        *)
(* invariant.  A step changes one call, one late message or one key, and   *)
(* the others are as before.                                               *)

(* What the invariant says of the callers other than c, and of the late    *)
(* messages other than c's, survives a step that writes at most one key.   *)
LEMMA OthersStay ==
  ASSUME Inv, NEW b \in Bucket, NEW k \in Key, NEW m \in Call \cup Message,
         kv' \in [Bucket -> BucketState], Advance(kv, kv', b, k), UNCHANGED clock
  PROVE  /\ Fresh(kv, clock, m) => Fresh(kv', clock', m)
         /\ m \in Call /\ Contended(kv, m) => Contended(kv', m)
  <1>1. kv \in [Bucket -> BucketState] /\ clock \in Nat
    BY DEF Inv, TypeOK
  <1>2. Fresh(kv, clock, m) => Fresh(kv', clock, m)
    BY <1>1, FreshStays
  <1>3. m \in Call /\ Contended(kv, m) => Contended(kv', m)
    BY <1>1, ContendedStays
  <1>4. QED
    BY <1>2, <1>3

(* Answering a call.                                                       *)
LEMMA ReturnKeeps ==
  ASSUME Inv, NEW c \in Caller, NEW a \in Answer, Return(c, a),
         UNCHANGED <<kv, provisioned, clock, late>>
  PROVE  Inv'
  <1>1. /\ calls' \in [Caller -> Call]
        /\ calls'[c].pc = a
        /\ \A d \in Caller : d # c => calls'[d] = calls[d]
    BY ReturnType DEF Inv, TypeOK
  <1>2. a \notin {"get", "write"}
    BY DEF Answer
  <1>3. TypeOK'
    BY <1>1 DEF Inv, TypeOK
  <1>4. \A d \in Caller : calls'[d].pc = "write" => Fresh(kv, clock, calls'[d])
    BY <1>1, <1>2 DEF Inv
  <1>5. \A d \in Caller : Contended(kv, calls'[d])
    BY <1>1, <1>2 DEF Inv, Contended
  <1>6. QED
    BY <1>3, <1>4, <1>5 DEF Inv

LEMMA BeginKeeps ==
  ASSUME Inv, NEW c \in Caller, NEW b, NEW k \in Key,
         NEW p \in Payload \cup {NoPayload}, NEW pc \in {"get", "purge"},
         Begin(c, b, k, p, pc)
  PROVE  Inv'
  <1>1. CASE ~provisioned
    BY <1>1, ReturnKeeps DEF Begin, Answer
  <1>2. CASE provisioned
    <2> DEFINE m == Started(b, k, p, pc)
    <2>1. /\ b \in Bucket
          /\ calls' = [calls EXCEPT ![c] = m]
          /\ UNCHANGED <<kv, provisioned, clock, late>>
      BY <1>2 DEF Begin
    <2>2. kv[b].seq \in Nat
      BY <2>1 DEF Inv, TypeOK, BucketState
    <2>4. m \in Call
      BY <2>1, <2>2 DEF Call, Active, Started
    <2>5. /\ calls'[c] = m
          /\ \A d \in Caller : d # c => calls'[d] = calls[d]
          /\ calls' \in [Caller -> Call]
      BY <2>1, <2>4 DEF Inv, TypeOK
    <2>6. m.pc # "write" /\ Contended(kv, m)
      BY <2>2 DEF Contended, Started
    <2>7. \A d \in Caller : calls'[d].pc = "write" => Fresh(kv, clock, calls'[d])
      BY <2>5, <2>6 DEF Inv
    <2>8. \A d \in Caller : Contended(kv, calls'[d])
      BY <2>5, <2>6 DEF Inv
    <2>9. QED
      BY <2>1, <2>5, <2>7, <2>8 DEF Inv, TypeOK
  <1>3. QED
    BY <1>1, <1>2

(* A step that writes one key, answers calls and delivers messages.        *)
LEMMA WriteKeepsInv ==
  ASSUME Inv, NEW b \in Bucket, NEW k \in Key,
         kv' \in [Bucket -> BucketState], Advance(kv, kv', b, k),
         kv'[b].entry[k].stamp <= clock,
         b # BucketFlags => kv'[b].entry[k].stamp = 0,
         UNCHANGED <<provisioned, clock>>,
         calls' \in [Caller -> Call], late' \in [Caller -> Message],
         \A d \in Caller : calls'[d] = calls[d] \/ calls'[d].pc \in Answer,
         \A d \in Caller : late'[d] = late[d] \/ late'[d].kind = "none"
  PROVE  Inv'
  <1>1. TypeOK'
    BY DEF Inv, TypeOK
  <1>2. Bounded(kv', clock)
    BY BoundedStays DEF Inv, TypeOK
  <1>3. ASSUME NEW d \in Caller, calls'[d].pc = "write"
        PROVE  Fresh(kv', clock, calls'[d])
    <2>1. calls'[d] = calls[d] /\ calls[d].pc = "write" /\ calls[d] \in Call
      BY <1>3 DEF Answer, Inv, TypeOK
    <2>2. QED
      BY <2>1, OthersStay DEF Inv
  <1>4. ASSUME NEW d \in Caller, late'[d].kind = "put"
        PROVE  Fresh(kv', clock, late'[d])
    <2>1. late'[d] = late[d] /\ late[d].kind = "put" /\ late[d] \in Message
      BY <1>4 DEF Inv, TypeOK
    <2>2. QED
      BY <2>1, OthersStay DEF Inv
  <1>5. ASSUME NEW d \in Caller
        PROVE  Contended(kv', calls'[d])
    <2>1. CASE calls'[d] = calls[d]
      <3>1. calls[d] \in Call /\ Contended(kv, calls[d])
        BY DEF Inv, TypeOK
      <3>2. QED
        BY <2>1, <3>1, OthersStay
    <2>2. CASE calls'[d].pc \in Answer
      BY <2>2 DEF Contended, Answer
    <2>3. QED
      BY <2>1, <2>2
  <1>6. QED
    BY <1>1, <1>2, <1>3, <1>4, <1>5 DEF Inv

LEMMA CurrentKeeps ==
  ASSUME Inv, NEW c \in Caller, Current(c)
  PROVE  Inv'
  <1> DEFINE m == calls[c]
             cur == kv[m.bucket].entry[m.key]
             v == Build(m.bucket, m.payload, cur)
             skip == /\ cur.revision # 0
                     /\ [payload |-> cur.payload, stamp |-> cur.stamp] = v.compare
  <1>1. /\ m \in Call /\ m.bucket \in Bucket /\ m.key \in Key /\ m.pc = "get"
        /\ m.since \in Nat /\ m.attempt \in Nat
    BY DEF Inv, TypeOK, Call, Current
  <1>2. cur \in Entry /\ kv[m.bucket].seq \in Nat
    BY <1>1 DEF Inv, TypeOK, BucketState
  <1>3. CASE skip
    BY <1>3, ReturnKeeps DEF Current, Answer
  <1>4. CASE ~skip
    <2> DEFINE n == [m EXCEPT !.pc = "write", !.revision = cur.revision,
                              !.stamp = v.write.stamp]
    <2>1. /\ calls' = [calls EXCEPT ![c] = n]
          /\ UNCHANGED <<kv, provisioned, clock, late>>
      BY <1>4 DEF Current
    <2>2. /\ v.write.stamp = IF m.bucket = BucketFlags THEN clock ELSE 0
          /\ v.compare = [payload |-> m.payload,
                          stamp |-> IF m.bucket = BucketFlags THEN cur.stamp ELSE 0]
      BY DEF Build, BuildFlag, raw
    <2>3. v.write.stamp \in Nat /\ v.write.stamp <= clock
      BY <2>2 DEF Inv, TypeOK
    <2>4. /\ n \in Call
          /\ n.pc = "write" /\ n.bucket = m.bucket /\ n.key = m.key
          /\ n.payload = m.payload /\ n.revision = cur.revision
          /\ n.stamp = v.write.stamp /\ n.since = m.since /\ n.attempt = m.attempt
      BY <1>1, <1>2, <2>3 DEF Call, Active, Entry
    <2>5. /\ cur.revision <= kv[m.bucket].seq /\ cur.stamp <= clock
          /\ m.bucket # BucketFlags => cur.stamp = 0
      BY <1>1 DEF Inv, Bounded
    <2>6. cur.revision # 0 => m.payload # cur.payload
      BY <1>4, <2>2, <2>5
    <2>7. cur.stamp <= v.write.stamp
      BY <1>2, <2>2, <2>5 DEF Entry
    <2>8. Fresh(kv, clock, n)
      BY <1>2, <2>2, <2>3, <2>4, <2>5, <2>6, <2>7 DEF Fresh, Entry
    <2>9. Contended(kv, n)
      <3>1. Contended(kv, m)
        BY DEF Inv
      <3>2. QED
        BY <1>1, <2>4, <3>1 DEF Contended
    <2>10. /\ calls'[c] = n
           /\ \A d \in Caller : d # c => calls'[d] = calls[d]
           /\ calls' \in [Caller -> Call]
      BY <2>1, <2>4 DEF Inv, TypeOK
    <2>11. \A d \in Caller : calls'[d].pc = "write" => Fresh(kv, clock, calls'[d])
      BY <2>8, <2>10 DEF Inv
    <2>12. \A d \in Caller : Contended(kv, calls'[d])
      BY <2>9, <2>10 DEF Inv
    <2>13. QED
      BY <2>1, <2>10, <2>11, <2>12 DEF Inv, TypeOK
  <1>5. QED
    BY <1>3, <1>4

LEMMA WriteKeeps ==
  ASSUME Inv, NEW c \in Caller, Write(c)
  PROVE  Inv'
  <1> DEFINE m == calls[c]
  <1>1. /\ m \in Call /\ m.bucket \in Bucket /\ m.key \in Key
        /\ m.payload \in Payload \cup {NoPayload} /\ m.stamp \in Nat
    BY DEF Inv, TypeOK, Call
  <1>2. m.stamp <= clock /\ (m.bucket # BucketFlags => m.stamp = 0)
    BY DEF Write, Inv, Fresh
  <1>3. /\ kv' = [kv EXCEPT ![m.bucket] = KvPut(@, m.key, m.payload, m.stamp)]
        /\ kv \in [Bucket -> BucketState]
        /\ UNCHANGED <<provisioned, clock, late>>
    BY DEF Write, Inv, TypeOK
  <1>4. /\ kv' \in [Bucket -> BucketState]
        /\ Advance(kv, kv', m.bucket, m.key)
        /\ kv'[m.bucket].entry[m.key].stamp = m.stamp
    BY <1>1, <1>3, PutAdvances
  <1>5. /\ calls' \in [Caller -> Call]
        /\ \A d \in Caller : calls'[d] = calls[d] \/ calls'[d].pc \in Answer
    BY ReturnType DEF Write, Answer, Inv, TypeOK
  <1>6. late' \in [Caller -> Message] /\ \A d \in Caller : late'[d] = late[d]
    BY <1>3 DEF Inv, TypeOK
  <1> HIDE DEF m
  <1>7. QED
    BY <1>1, <1>2, <1>3, <1>4, <1>5, <1>6, WriteKeepsInv

LEMMA WriteConflictKeeps ==
  ASSUME Inv, NEW c \in Caller, WriteConflict(c)
  PROVE  Inv'
  <1> DEFINE m == calls[c]
  <1>1. /\ m \in Call /\ m.bucket \in Bucket /\ m.key \in Key /\ m.pc = "write"
        /\ m.since \in Nat /\ m.attempt \in 1..publishAttempts
        /\ kv[m.bucket].entry[m.key].revision # m.revision
        /\ UNCHANGED <<kv, provisioned, clock, late>>
    BY DEF Inv, TypeOK, Call, WriteConflict, Matches
  <1>2. CASE m.attempt >= publishAttempts
    BY <1>1, <1>2, ReturnKeeps DEF WriteConflict, Answer
  <1>3. CASE m.attempt < publishAttempts
    <2> DEFINE n == [m EXCEPT !.pc = "get", !.attempt = m.attempt + 1]
    <2>1. calls' = [calls EXCEPT ![c] = n]
      BY <1>3 DEF WriteConflict
    <2>2. /\ n \in Call /\ n.pc = "get" /\ n.bucket = m.bucket
          /\ n.since = m.since /\ n.attempt = m.attempt + 1
      <3>1. m.attempt + 1 \in 1..publishAttempts
        BY <1>1, <1>3
      <3> HIDE DEF m
      <3>2. QED
        BY <1>1, <3>1 DEF Call, Active
    <2>3. Contended(kv, m) /\ kv[m.bucket].seq \in Nat
      BY <1>1 DEF Inv, TypeOK, BucketState
    <2>4. Contended(kv, n)
      BY <1>1, <2>2, <2>3 DEF Contended
    <2>5. /\ calls'[c] = n
          /\ \A d \in Caller : d # c => calls'[d] = calls[d]
          /\ calls' \in [Caller -> Call]
      BY <2>1, <2>2 DEF Inv, TypeOK
    <2>6. \A d \in Caller : calls'[d].pc = "write" => Fresh(kv, clock, calls'[d])
      BY <2>2, <2>5 DEF Inv
    <2>7. \A d \in Caller : Contended(kv, calls'[d])
      BY <2>4, <2>5 DEF Inv
    <2>8. QED
      BY <1>1, <2>5, <2>6, <2>7 DEF Inv, TypeOK
  <1>4. QED
    BY <1>1, <1>2, <1>3

LEMMA PurgeKeeps ==
  ASSUME Inv, NEW c \in Caller, Purge(c)
  PROVE  Inv'
  <1> DEFINE m == calls[c]
  <1>1. m \in Call /\ m.bucket \in Bucket /\ m.key \in Key
    BY DEF Inv, TypeOK, Call
  <1>2. /\ kv' = [kv EXCEPT ![m.bucket] = KvPurge(@, m.key)]
        /\ kv \in [Bucket -> BucketState] /\ clock \in Nat
        /\ UNCHANGED <<provisioned, clock, late>>
    BY DEF Purge, Inv, TypeOK
  <1>3. /\ kv' \in [Bucket -> BucketState]
        /\ Advance(kv, kv', m.bucket, m.key)
        /\ kv'[m.bucket].entry[m.key] = Absent
    BY <1>1, <1>2, PurgeAdvances
  <1>4. /\ calls' \in [Caller -> Call]
        /\ \A d \in Caller : calls'[d] = calls[d] \/ calls'[d].pc \in Answer
    BY ReturnType DEF Purge, Answer, Inv, TypeOK
  <1>5. /\ kv'[m.bucket].entry[m.key].stamp <= clock
        /\ m.bucket # BucketFlags => kv'[m.bucket].entry[m.key].stamp = 0
    BY <1>2, <1>3 DEF Absent
  <1>6. late' \in [Caller -> Message] /\ \A d \in Caller : late'[d] = late[d]
    BY <1>2 DEF Inv, TypeOK
  <1> HIDE DEF m
  <1>7. QED
    BY <1>1, <1>2, <1>3, <1>4, <1>5, <1>6, WriteKeepsInv

LEMMA ExchangeFailsKeeps ==
  ASSUME Inv, NEW c \in Caller, ExchangeFails(c)
  PROVE  Inv'
  BY ReturnKeeps DEF ExchangeFails, Answer

LEMMA TakenKeeps ==
  ASSUME Inv, NEW c \in Caller, Taken(c)
  PROVE  Inv'
  BY ReturnKeeps DEF Taken, Answer

LEMMA ExchangeTimesOutKeeps ==
  ASSUME Inv, NEW c \in Caller, ExchangeTimesOut(c)
  PROVE  Inv'
  <1> DEFINE m == calls[c]
             n == [kind |-> IF m.pc = "write" THEN "put" ELSE "purge",
                   bucket |-> m.bucket, key |-> m.key, payload |-> m.payload,
                   revision |-> m.revision, stamp |-> m.stamp]
  <1>1. /\ late' = [late EXCEPT ![c] = n]
        /\ UNCHANGED <<kv, provisioned, clock>>
        /\ m.pc \in {"write", "purge"}
    BY DEF ExchangeTimesOut
  <1>2. /\ m \in Call /\ m.bucket \in Bucket /\ m.key \in Key
        /\ m.payload \in Payload \cup {NoPayload}
        /\ m.revision \in Nat /\ m.stamp \in Nat
    BY DEF Inv, TypeOK, Call
  <1>3. n \in Message
    BY <1>2 DEF Message
  <1>4. n.kind = "put" => Fresh(kv, clock, n)
    <2>1. CASE m.pc = "write"
      <3>1. Fresh(kv, clock, m)
        BY <2>1 DEF Inv
      <3>2. QED
        BY <3>1 DEF Fresh
    <2>2. CASE m.pc # "write"
      BY <2>2
    <2>3. QED
      BY <2>1, <2>2
  <1>5. /\ late' \in [Caller -> Message]
        /\ late'[c] = n /\ \A d \in Caller : d # c => late'[d] = late[d]
    BY <1>1, <1>3 DEF Inv, TypeOK
  <1>6. /\ calls' \in [Caller -> Call]
        /\ calls'[c].pc = "failed"
        /\ \A d \in Caller : d # c => calls'[d] = calls[d]
    BY ReturnType DEF ExchangeTimesOut, Answer, Inv, TypeOK
  <1>7. \A d \in Caller : calls'[d].pc = "write" => Fresh(kv, clock, calls'[d])
    BY <1>6 DEF Inv
  <1>8. \A d \in Caller : Contended(kv, calls'[d])
    BY <1>6 DEF Inv, Contended
  <1>9. \A d \in Caller : late'[d].kind = "put" => Fresh(kv, clock, late'[d])
    BY <1>4, <1>5 DEF Inv
  <1>10. TypeOK'
    BY <1>1, <1>5, <1>6 DEF Inv, TypeOK
  <1>11. QED
    BY <1>1, <1>7, <1>8, <1>9, <1>10 DEF Inv

(* Taking a message off the wire.                                          *)
LEMMA LateCleared ==
  ASSUME Inv, NEW c \in Caller, late' = [late EXCEPT ![c] = NoMessage]
  PROVE  /\ late' \in [Caller -> Message]
         /\ \A d \in Caller : late'[d] = late[d] \/ late'[d].kind = "none"
  <1>1. NoMessage.kind = "none"
    BY DEF NoMessage
  <1>2. QED
    BY <1>1, NoCallType DEF Inv, TypeOK

LEMMA LateLostKeeps ==
  ASSUME Inv, NEW c \in Caller, late' = [late EXCEPT ![c] = NoMessage],
         UNCHANGED <<kv, provisioned, clock, calls>>
  PROVE  Inv'
  <1>1. /\ late' \in [Caller -> Message]
        /\ \A d \in Caller : late'[d] = late[d] \/ late'[d].kind = "none"
    BY LateCleared
  <1>2. QED
    BY <1>1 DEF Inv, TypeOK

LEMMA LatePutKeeps ==
  ASSUME Inv, NEW c \in Caller, LatePut(c)
  PROVE  Inv'
  <1> DEFINE m == late[c]
  <1>1. CASE ~Matches(kv[m.bucket], m.key, m.revision)
    BY <1>1, LateLostKeeps DEF LatePut
  <1>2. CASE Matches(kv[m.bucket], m.key, m.revision)
    <2>1. /\ m \in Message /\ m.bucket \in Bucket /\ m.key \in Key
          /\ m.payload \in Payload \cup {NoPayload} /\ m.stamp \in Nat
      BY DEF Inv, TypeOK, Message
    <2>2. m.stamp <= clock /\ (m.bucket # BucketFlags => m.stamp = 0)
      BY DEF LatePut, Inv, Fresh
    <2>3. /\ kv' = [kv EXCEPT ![m.bucket] = KvPut(@, m.key, m.payload, m.stamp)]
          /\ kv \in [Bucket -> BucketState] /\ calls' \in [Caller -> Call]
          /\ late' = [late EXCEPT ![c] = NoMessage]
          /\ UNCHANGED <<provisioned, clock, calls>>
      BY <1>2 DEF LatePut, Inv, TypeOK
    <2>4. /\ kv' \in [Bucket -> BucketState]
          /\ Advance(kv, kv', m.bucket, m.key)
          /\ kv'[m.bucket].entry[m.key].stamp = m.stamp
      BY <2>1, <2>3, PutAdvances
    <2>5. /\ late' \in [Caller -> Message]
          /\ \A d \in Caller : late'[d] = late[d] \/ late'[d].kind = "none"
      BY <2>3, LateCleared
    <2> HIDE DEF m
    <2>6. QED
      BY <2>1, <2>2, <2>3, <2>4, <2>5, WriteKeepsInv
  <1>3. QED
    BY <1>1, <1>2

LEMMA LatePurgeKeeps ==
  ASSUME Inv, NEW c \in Caller, LatePurge(c)
  PROVE  Inv'
  <1> DEFINE m == late[c]
  <1>1. m \in Message /\ m.bucket \in Bucket /\ m.key \in Key
    BY DEF Inv, TypeOK, Message
  <1>2. /\ kv' = [kv EXCEPT ![m.bucket] = KvPurge(@, m.key)]
        /\ kv \in [Bucket -> BucketState] /\ clock \in Nat
        /\ calls' \in [Caller -> Call]
        /\ late' = [late EXCEPT ![c] = NoMessage]
        /\ UNCHANGED <<provisioned, clock, calls>>
    BY DEF LatePurge, Inv, TypeOK
  <1>3. /\ kv' \in [Bucket -> BucketState]
        /\ Advance(kv, kv', m.bucket, m.key)
        /\ kv'[m.bucket].entry[m.key] = Absent
    BY <1>1, <1>2, PurgeAdvances
  <1>4. /\ late' \in [Caller -> Message]
        /\ \A d \in Caller : late'[d] = late[d] \/ late'[d].kind = "none"
    BY <1>2, LateCleared
  <1>5. /\ kv'[m.bucket].entry[m.key].stamp <= clock
        /\ m.bucket # BucketFlags => kv'[m.bucket].entry[m.key].stamp = 0
    BY <1>2, <1>3 DEF Absent
  <1> HIDE DEF m
  <1>6. QED
    BY <1>1, <1>2, <1>3, <1>4, <1>5, WriteKeepsInv

LEMMA RestartKeeps ==
  ASSUME Inv, Restart
  PROVE  Inv'
  <1>1. /\ calls' \in [Caller -> Call]
        /\ \A d \in Caller : calls'[d] = NoCall
        /\ NoCall.pc = "idle"
    BY NoCallType DEF Restart, NoCall
  <1>2. TypeOK'
    BY <1>1 DEF Restart, Inv, TypeOK
  <1>3. \A d \in Caller : Contended(kv, calls'[d]) /\ calls'[d].pc # "write"
    BY <1>1 DEF Contended
  <1>4. QED
    BY <1>2, <1>3 DEF Restart, Inv

LEMMA TickKeeps ==
  ASSUME Inv, Tick
  PROVE  Inv'
  <1>1. clock \in Nat /\ clock' \in Nat /\ clock <= clock'
    BY DEF Tick, Inv, TypeOK
  <1>2. ASSUME NEW m \in Call \cup Message, Fresh(kv, clock, m)
        PROVE  Fresh(kv, clock', m)
    <2>1. m.stamp \in Nat
      BY DEF Call, Message
    <2>2. QED
      BY <1>1, <1>2, <2>1 DEF Fresh
  <1>3. Bounded(kv, clock')
    <2> SUFFICES ASSUME NEW b \in Bucket, NEW k \in Key
                 PROVE  kv[b].entry[k].stamp <= clock'
      BY DEF Inv, Bounded
    <2>1. kv[b].entry[k].stamp \in Nat
      BY DEF Inv, TypeOK, BucketState, Entry
    <2>2. QED
      BY <1>1, <2>1 DEF Inv, Bounded
  <1>4. TypeOK'
    BY <1>1 DEF Tick, Inv, TypeOK
  <1>5. ASSUME NEW d \in Caller
        PROVE  /\ calls[d].pc = "write" => Fresh(kv, clock', calls[d])
               /\ late[d].kind = "put" => Fresh(kv, clock', late[d])
    BY <1>2 DEF Inv, TypeOK
  <1>6. QED
    BY <1>3, <1>4, <1>5 DEF Tick, Inv

-----------------------------------------------------------------------------
LEMMA InitInv == Init => Inv
  <1> SUFFICES ASSUME Init PROVE Inv
    OBVIOUS
  <1>1. TypeOK
    BY EmptyBucketType, NoCallType DEF Init, TypeOK
  <1>2. Bounded(kv, clock)
    <2>1. ASSUME NEW b \in Bucket, NEW k \in Key
          PROVE  kv[b].seq = 0 /\ kv[b].entry[k] = Absent
      BY DEF Init, EmptyBucket
    <2>2. Absent.stamp = 0 /\ Absent.revision = 0 /\ clock = 1
      BY DEF Init, Absent
    <2>3. QED
      BY <2>1, <2>2 DEF Bounded
  <1>3. \A c \in Caller : calls[c].pc = "idle" /\ late[c].kind = "none"
    BY DEF Init, NoCall, NoMessage
  <1>4. QED
    BY <1>1, <1>2, <1>3 DEF Inv, Contended

(* A publish of any domain is a Begin, or a refusal of an empty document.  *)
LEMMA PublishKeeps ==
  ASSUME Inv, NEW c \in Caller, NEW k \in Key, NEW p \in Payload,
         \/ PublishFlag(c, k, p)
         \/ \E b \in Bucket \ {BucketFlags} : PublishDocument(c, b, k, p)
  PROVE  Inv'
  <1>1. ASSUME NEW b, Begin(c, b, k, p, "get") PROVE Inv'
    BY <1>1, BeginKeeps
  <1>2. CASE PublishFlag(c, k, p)
    BY <1>1, <1>2 DEF PublishFlag
  <1>3. ASSUME NEW b, PublishDocument(c, b, k, p) PROVE Inv'
    BY <1>1, <1>3, ReturnKeeps DEF PublishDocument, Answer
  <1>4. QED
    BY <1>2, <1>3

LEMMA NextInv == Inv /\ [Next]_pubVars => Inv'
  <1> SUFFICES ASSUME Inv, [Next]_pubVars PROVE Inv'
    OBVIOUS
  <1>1. CASE UNCHANGED pubVars
    BY <1>1 DEF pubVars, Inv, TypeOK
  <1>2. ASSUME NEW c \in Caller, NEW k \in Key, NEW p \in Payload,
               \/ PublishFlag(c, k, p)
               \/ \E b \in Bucket \ {BucketFlags} : PublishDocument(c, b, k, p)
        PROVE  Inv'
    BY <1>2, PublishKeeps
  <1>3. ASSUME NEW c \in Caller, NEW b \in Bucket, NEW k \in Key, DeleteKey(c, b, k)
        PROVE  Inv'
    BY <1>3, BeginKeeps DEF DeleteKey
  <1>4. ASSUME NEW c \in Caller, Exchange(c)
        PROVE  Inv'
    BY <1>4, CurrentKeeps, WriteKeeps, WriteConflictKeeps, PurgeKeeps,
       ExchangeFailsKeeps, ExchangeTimesOutKeeps, TakenKeeps DEF Exchange
  <1>5. ASSUME NEW c \in Caller, Network(c)
        PROVE  Inv'
    BY <1>5, LatePutKeeps, LatePurgeKeeps, LateLostKeeps DEF Network, LateLost
  <1>6. CASE EnsureBuckets
    BY <1>6 DEF EnsureBuckets, Inv, TypeOK
  <1>7. CASE Restart
    BY <1>7, RestartKeeps
  <1>8. CASE Tick
    BY <1>8, TickKeeps
  <1>9. QED
    BY <1>1, <1>2, <1>3, <1>4, <1>5, <1>6, <1>7, <1>8 DEF Next

(* Every reachable state of the publisher satisfies the inductive          *)
(* invariant.                                                              *)
THEOREM Invariance == Spec => []Inv
  BY InitInv, NextInv, PTL DEF Spec

(* The buckets, the calls in progress and the messages on the wire keep    *)
(* their types; a call never counts more attempts than publish makes.      *)
THEOREM TypeCorrect == Spec => []TypeOK
  <1>1. Inv => TypeOK
    BY DEF Inv
  <1>2. QED
    BY <1>1, Invariance, PTL

-----------------------------------------------------------------------------
(* The action properties.  A step changes the buckets in one of two ways:  *)
(* a prepared write whose revision still matches lands, or a key is purged.*)

PutLands(m) ==
    /\ Fresh(kv, clock, m)
    /\ Matches(kv[m.bucket], m.key, m.revision)
    /\ kv' = [kv EXCEPT ![m.bucket] = KvPut(@, m.key, m.payload, m.stamp)]

LEMMA BucketSteps ==
  ASSUME Inv, [Next]_pubVars
  PROVE  \/ kv' = kv
         \/ \E m \in Call \cup Message : PutLands(m)
         \/ \E b \in Bucket, k \in Key : kv' = [kv EXCEPT ![b] = KvPurge(@, k)]
  <1> DEFINE Goal == \/ kv' = kv
                     \/ \E m \in Call \cup Message : PutLands(m)
                     \/ \E b \in Bucket, k \in Key : kv' = [kv EXCEPT ![b] = KvPurge(@, k)]
  <1>1. CASE UNCHANGED pubVars
    BY <1>1 DEF pubVars
  <1>2. ASSUME NEW c \in Caller, NEW k \in Key, NEW p \in Payload,
               \/ PublishFlag(c, k, p)
               \/ \E b \in Bucket \ {BucketFlags} : PublishDocument(c, b, k, p)
        PROVE  kv' = kv
    BY <1>2 DEF PublishFlag, PublishDocument, Begin
  <1>3. ASSUME NEW c \in Caller, NEW b \in Bucket, NEW k \in Key, DeleteKey(c, b, k)
        PROVE  kv' = kv
    BY <1>3 DEF DeleteKey, Begin
  <1>4. ASSUME NEW c \in Caller, Exchange(c)
        PROVE  Goal
    <2>1. /\ calls[c] \in Call
          /\ calls[c].bucket \in Bucket /\ calls[c].key \in Key
          /\ calls[c].pc = "write" => Fresh(kv, clock, calls[c])
      BY DEF Inv, TypeOK, Call
    <2>2. CASE Write(c)
      BY <2>1, <2>2 DEF Write, PutLands
    <2>3. CASE Purge(c)
      BY <2>1, <2>3 DEF Purge
    <2>4. CASE \/ Current(c) \/ WriteConflict(c) \/ Taken(c)
               \/ ExchangeFails(c) \/ ExchangeTimesOut(c)
      BY <2>4 DEF Current, WriteConflict, Taken, ExchangeFails, ExchangeTimesOut
    <2>5. QED
      BY <1>4, <2>2, <2>3, <2>4 DEF Exchange
  <1>5. ASSUME NEW c \in Caller, Network(c)
        PROVE  Goal
    <2>1. /\ late[c] \in Message
          /\ late[c].bucket \in Bucket /\ late[c].key \in Key
          /\ late[c].kind = "put" => Fresh(kv, clock, late[c])
      BY DEF Inv, TypeOK, Message
    <2>2. CASE LatePut(c)
      BY <2>1, <2>2 DEF LatePut, PutLands
    <2>3. CASE LatePurge(c)
      BY <2>1, <2>3 DEF LatePurge
    <2>4. CASE LateLost(c)
      BY <2>4 DEF LateLost
    <2>5. QED
      BY <1>5, <2>2, <2>3, <2>4 DEF Network
  <1>6. CASE EnsureBuckets \/ Restart \/ Tick
    BY <1>6 DEF EnsureBuckets, Restart, Tick
  <1>7. QED
    BY <1>1, <1>2, <1>3, <1>4, <1>5, <1>6 DEF Next

(* What one step does to one published key.                                *)
LEMMA KeySteps ==
  ASSUME Inv, [Next]_pubVars, NEW b \in Bucket, NEW k \in Key,
         Live(kv[b], k), Live(kv'[b], k)
  PROVE  /\ kv'[b].entry[k].stamp >= kv[b].entry[k].stamp
         /\ kv'[b].entry[k].revision # kv[b].entry[k].revision
            => kv'[b].entry[k].payload # kv[b].entry[k].payload
  <1>1. kv \in [Bucket -> BucketState]
    BY DEF Inv, TypeOK
  <1>2. kv[b].entry[k].stamp \in Nat
    BY <1>1 DEF BucketState, Entry
  <1>3. CASE kv'[b].entry[k] = kv[b].entry[k]
    BY <1>2, <1>3
  <1>4. ASSUME NEW m \in Call \cup Message, PutLands(m),
               kv'[b].entry[k] # kv[b].entry[k]
        PROVE  /\ kv'[b].entry[k].stamp >= kv[b].entry[k].stamp
               /\ kv'[b].entry[k].payload # kv[b].entry[k].payload
    <2>1. /\ Advance(kv, kv', m.bucket, m.key)
          /\ kv'[m.bucket].entry[m.key].payload = m.payload
          /\ kv'[m.bucket].entry[m.key].stamp = m.stamp
      BY <1>1, <1>4, PutAdvances DEF PutLands
    <2>2. b = m.bucket /\ k = m.key
      BY <1>4, <2>1 DEF Advance
    <2>3. /\ m.revision # 0 /\ kv[b].entry[k].revision = m.revision
      BY <1>4, <2>2 DEF PutLands, Matches, Live
    <2>4. QED
      BY <1>4, <2>1, <2>2, <2>3 DEF PutLands, Fresh
  <1>5. ASSUME NEW d \in Bucket, NEW j \in Key, kv' = [kv EXCEPT ![d] = KvPurge(@, j)]
        PROVE  kv'[b].entry[k] = kv[b].entry[k]
    <2>1. Advance(kv, kv', d, j) /\ kv'[d].entry[j] = Absent
      BY <1>1, <1>5, PurgeAdvances
    <2>2. ~ (b = d /\ k = j)
      BY <2>1 DEF Live, Absent
    <2>3. QED
      BY <2>1, <2>2 DEF Advance
  <1>6. QED
    BY <1>3, <1>4, <1>5, BucketSteps

(* Consumers order flags by updatedAt; the publisher never replaces a      *)
(* published flag by one with an older updatedAt.                          *)
THEOREM StampsMonotonic == Spec => FlagStampsNeverGoBack
  <1>1. Inv /\ [Next]_pubVars =>
          [\A b \in Bucket, k \in Key :
             /\ Live(kv[b], k)
             /\ Live(kv'[b], k)
             => kv'[b].entry[k].stamp >= kv[b].entry[k].stamp]_pubVars
    BY KeySteps
  <1>2. QED
    BY <1>1, Invariance, PTL DEF Spec, FlagStampsNeverGoBack

(* The publisher never replaces a published value by one that says the     *)
(* same, so no watcher is woken for nothing.                               *)
THEOREM RevisionsChange == Spec => EveryRevisionIsAChange
  <1>1. Inv /\ [Next]_pubVars =>
          [\A b \in Bucket, k \in Key :
             /\ Live(kv[b], k)
             /\ Live(kv'[b], k)
             /\ kv'[b].entry[k].revision # kv[b].entry[k].revision
             => kv'[b].entry[k].payload # kv[b].entry[k].payload]_pubVars
    BY KeySteps
  <1>2. QED
    BY <1>1, Invariance, PTL DEF Spec, EveryRevisionIsAChange

(* A call that answers "conflict" was at its last attempt, and the key had *)
(* left the revision that attempt read.                                    *)
LEMMA ConflictSteps ==
  ASSUME Inv, [Next]_pubVars, NEW c \in Caller,
         calls'[c].pc = "conflict", calls[c].pc # "conflict"
  PROVE  kv[calls[c].bucket].seq >= calls[c].since + publishAttempts
  <1>1. calls \in [Caller -> Call]
    BY DEF Inv, TypeOK
  <1>2. ASSUME NEW d \in Caller, NEW a \in Answer, Return(d, a), a # "conflict"
        PROVE  FALSE
    <2>1. calls'[d].pc = a /\ \A e \in Caller : e # d => calls'[e] = calls[e]
      BY <1>1, <1>2, ReturnType
    <2>2. QED
      BY <1>2, <2>1
  <1>3. ASSUME NEW d \in Caller, NEW b, NEW k, NEW p, NEW pc \in {"get", "purge"},
               Begin(d, b, k, p, pc)
        PROVE  FALSE
    <2>1. CASE ~provisioned
      BY <1>2, <1>3, <2>1 DEF Begin, Answer
    <2>2. CASE provisioned
      <3>1. calls' = [calls EXCEPT ![d] = Started(b, k, p, pc)]
        BY <1>3, <2>2 DEF Begin
      <3>2. Started(b, k, p, pc).pc # "conflict"
        BY DEF Started
      <3>3. QED
        BY <1>1, <3>1, <3>2
    <2>3. QED
      BY <2>1, <2>2
  <1>4. ASSUME NEW d \in Caller, NEW k \in Key, NEW p \in Payload,
               \/ PublishFlag(d, k, p)
               \/ \E b \in Bucket \ {BucketFlags} : PublishDocument(d, b, k, p)
        PROVE  FALSE
    BY <1>2, <1>3, <1>4
       DEF PublishFlag, PublishDocument, Answer
  <1>5. ASSUME NEW d \in Caller, NEW b \in Bucket, NEW k \in Key, DeleteKey(d, b, k)
        PROVE  FALSE
    BY <1>3, <1>5 DEF DeleteKey
  <1>6. ASSUME NEW d \in Caller, Current(d)
        PROVE  FALSE
    <2>1. CASE Return(d, "skipped")
      BY <1>2, <2>1 DEF Answer
    <2>2. CASE ~ Return(d, "skipped")
      <3> DEFINE r == kv[calls[d].bucket].entry[calls[d].key].revision
                 s == Build(calls[d].bucket, calls[d].payload,
                            kv[calls[d].bucket].entry[calls[d].key]).write.stamp
      <3>1. calls' = [calls EXCEPT ![d].pc = "write",
                                   ![d].revision = r, ![d].stamp = s]
        BY <1>6, <2>2 DEF Current
      <3> HIDE DEF r, s
      <3>2. calls[d] \in Call
        BY <1>1
      <3>3. calls'[d].pc = "write" /\ \A e \in Caller : e # d => calls'[e] = calls[e]
        BY <1>1, <3>1, <3>2 DEF Call
      <3>4. QED
        BY <3>3
    <2>3. QED
      BY <2>1, <2>2
  <1>7. ASSUME NEW d \in Caller, WriteConflict(d)
        PROVE  kv[calls[c].bucket].seq >= calls[c].since + publishAttempts
    <2>1. /\ calls[d] \in Call /\ calls[d].attempt \in 1..publishAttempts
          /\ calls[d].bucket \in Bucket /\ calls[d].since \in Nat
          /\ Contended(kv, calls[d])
      BY DEF Inv, TypeOK, Call
    <2>2. CASE calls[d].attempt < publishAttempts
      <3>1. calls' = [calls EXCEPT ![d].pc = "get", ![d].attempt = calls[d].attempt + 1]
        BY <1>7, <2>2 DEF WriteConflict
      <3>2. calls'[d].pc = "get" /\ \A e \in Caller : e # d => calls'[e] = calls[e]
        BY <1>1, <2>1, <3>1 DEF Call
      <3>3. QED
        BY <3>2
    <2>3. CASE ~ (calls[d].attempt < publishAttempts)
      <3>1. calls[d].attempt = publishAttempts
        BY <2>1, <2>3
      <3>2. Return(d, "conflict")
        BY <1>7, <2>3 DEF WriteConflict
      <3>3. c = d
        BY <1>1, <3>2, ReturnType DEF Answer
      <3>4. kv[calls[d].bucket].seq >= calls[d].since + calls[d].attempt
        BY <1>7, <2>1 DEF WriteConflict, Matches, Contended
      <3>5. QED
        BY <3>1, <3>3, <3>4
    <2>4. QED
      BY <2>2, <2>3
  <1>8. ASSUME NEW d \in Caller,
               \/ Write(d) \/ Purge(d) \/ Taken(d)
               \/ ExchangeFails(d) \/ ExchangeTimesOut(d)
        PROVE  FALSE
    BY <1>2, <1>8 DEF Write, Purge, Taken, ExchangeFails, ExchangeTimesOut, Answer
  <1>9. ASSUME Restart
        PROVE  FALSE
    BY <1>9 DEF Restart, NoCall
  <1>10. ASSUME NEW d \in Caller, Network(d)
         PROVE  FALSE
    BY <1>10 DEF Network, LatePut, LatePurge, LateLost
  <1>11. CASE EnsureBuckets \/ Tick \/ UNCHANGED pubVars
    BY <1>11 DEF EnsureBuckets, Tick, pubVars
  <1>12. QED
    BY <1>4, <1>5, <1>6, <1>7, <1>8, <1>9, <1>10, <1>11 DEF Next, Exchange

(* A publish reports a conflict only after its bucket took a write for     *)
(* every one of its attempts: nobody is told "conflict" on a quiet bucket. *)
THEOREM ConflictsAreReal == Spec => ConflictMeansContention
  <1>1. Inv /\ [Next]_pubVars =>
          [\A c \in Caller :
             calls'[c].pc = "conflict" /\ calls[c].pc # "conflict"
             => kv[calls[c].bucket].seq >= calls[c].since + publishAttempts]_pubVars
    BY ConflictSteps
  <1>2. QED
    BY <1>1, Invariance, PTL DEF Spec, ConflictMeansContention

-----------------------------------------------------------------------------
(* The refinement.  The parts of the mapping of Store, by name.            *)

absStore == [b \in Bucket |-> [k \in Key |-> kv[b].entry[k].payload]]
absOp == [c \in Caller |-> AbsOp(calls[c])]
absWire == [c \in Caller |-> AbsWire(late[c])]

(* A purge, under way or late, carries no payload.                         *)
Carried ==
    /\ \A c \in Caller : calls[c].pc = "purge" => calls[c].payload = NoPayload
    /\ \A c \in Caller : late[c].kind = "purge" => late[c].payload = NoPayload

LEMMA OpStatus ==
  ASSUME NEW m \in Call
  PROVE  /\ m.pc = "idle" => AbsOp(m) = [status |-> "idle"]
         /\ m.pc \in {"ok", "skipped"} => AbsOp(m) = [status |-> "ok"]
         /\ m.pc \in {"conflict", "failed"} => AbsOp(m) = [status |-> "failed"]
         /\ m.pc \in Active => AbsOp(m) = [status |-> "pending", effect |-> Effect(m)]
         /\ m.pc \in Active => AbsOp(m).status = "pending" /\ AbsOp(m).effect = Effect(m)
         /\ m.pc \in Answer => AbsOp(m).status # "pending"
  BY DEF AbsOp, Active, Answer, Call

LEMMA WireStatus ==
  ASSUME NEW m \in Message
  PROVE  /\ m.kind = "none" => AbsWire(m) = [status |-> "none"]
         /\ m.kind # "none" => /\ AbsWire(m) = [status |-> "sent", effect |-> Effect(m)]
                               /\ AbsWire(m).status = "sent" /\ AbsWire(m).effect = Effect(m)
  BY DEF AbsWire

(* What Return, a move of one call and a message put on or taken off the   *)
(* wire look like to the caller.                                           *)
LEMMA OpMoves ==
  ASSUME calls \in [Caller -> Call], NEW c \in Caller, NEW m, calls' = [calls EXCEPT ![c] = m]
  PROVE  absOp' = [absOp EXCEPT ![c] = AbsOp(m)]
  BY DEF absOp

LEMMA WireMoves ==
  ASSUME late \in [Caller -> Message], NEW c \in Caller, NEW m, late' = [late EXCEPT ![c] = m]
  PROVE  absWire' = [absWire EXCEPT ![c] = AbsWire(m)]
  BY DEF absWire

LEMMA OpReturns ==
  ASSUME calls \in [Caller -> Call], NEW c \in Caller, NEW a \in Answer, Return(c, a)
  PROVE  /\ a = "idle" => absOp' = [absOp EXCEPT ![c] = [status |-> "idle"]]
         /\ a \in {"ok", "skipped"} => absOp' = [absOp EXCEPT ![c] = [status |-> "ok"]]
         /\ a \in {"conflict", "failed"} => absOp' = [absOp EXCEPT ![c] = [status |-> "failed"]]
  <1> DEFINE m == [NoCall EXCEPT !.pc = a]
  <1>1. m \in Call /\ m.pc = a
    BY NoCallType DEF NoCall
  <1>2. calls' = [calls EXCEPT ![c] = m]
    BY DEF Return
  <1> HIDE DEF m
  <1>3. absOp' = [absOp EXCEPT ![c] = AbsOp(m)]
    BY <1>2, OpMoves
  <1>4. QED
    BY <1>1, <1>3, OpStatus

(* A put and a purge set one key of the abstract store.                    *)
SetIn(st, b, k, p) == [st EXCEPT ![b][k] = p]

LEMMA WriteSets ==
  ASSUME NEW b \in Bucket, NEW k \in Key, NEW p, Advance(kv, kv', b, k),
         kv'[b].entry[k].payload = p
  PROVE  absStore' = SetIn(absStore, b, k, p)
  <1> DEFINE f(d) == [j \in Key |-> kv[d].entry[j].payload]
             g(d) == [j \in Key |-> kv'[d].entry[j].payload]
  <1>1. absStore = [d \in Bucket |-> f(d)] /\ absStore' = [d \in Bucket |-> g(d)]
    BY DEF absStore
  <1>2. \A d \in Bucket \ {b} : g(d) = f(d)
    BY DEF Advance
  <1>3. g(b) = [f(b) EXCEPT ![k] = p]
    <2>1. \A j \in Key \ {k} : kv'[b].entry[j].payload = kv[b].entry[j].payload
      BY DEF Advance
    <2>2. QED
      BY <2>1
  <1>4. absStore[b] = f(b)
    BY <1>1, Zenon
  <1> HIDE DEF f, g
  <1>5. QED
    BY <1>1, <1>2, <1>3, <1>4 DEF SetIn

LEMMA PutSets ==
  ASSUME kv \in [Bucket -> BucketState], NEW m \in Call \cup Message,
         kv' = [kv EXCEPT ![m.bucket] = KvPut(@, m.key, m.payload, m.stamp)]
  PROVE  absStore' = SetIn(absStore, m.bucket, m.key, m.payload)
  <1>1. m.bucket \in Bucket /\ m.key \in Key
    BY DEF Call, Message
  <1>2. /\ Advance(kv, kv', m.bucket, m.key)
        /\ kv'[m.bucket].entry[m.key].payload = m.payload
    BY PutAdvances
  <1>3. QED
    BY <1>1, <1>2, WriteSets

LEMMA PurgeSets ==
  ASSUME kv \in [Bucket -> BucketState], NEW b \in Bucket, NEW k \in Key,
         kv' = [kv EXCEPT ![b] = KvPurge(@, k)]
  PROVE  absStore' = SetIn(absStore, b, k, NoPayload)
  <1>1. Advance(kv, kv', b, k) /\ kv'[b].entry[k] = Absent
    BY PurgeAdvances
  <1>2. kv'[b].entry[k].payload = NoPayload
    BY <1>1 DEF Absent
  <1>3. QED
    BY <1>1, <1>2, WriteSets

(* The abstract actions, over the parts of the mapping.                    *)
LEMMA AbsInvoke ==
  ASSUME NEW c \in Caller, absOp[c].status # "pending", UNCHANGED <<absStore, absWire>>,
         \/ \E e \in Store!Effect : absOp' = [absOp EXCEPT ![c] = [status |-> "pending", effect |-> e]]
         \/ absOp' = [absOp EXCEPT ![c] = [status |-> "failed"]]
  PROVE  Store!Next
  BY DEF absStore, absOp, absWire, Store!Next, Store!Invoke, Store!Pending, Store!Failed

LEMMA AbsSucceed ==
  ASSUME NEW c \in Caller, absOp[c].status = "pending", UNCHANGED absWire,
         NEW e, absOp[c].effect = e, absStore' = SetIn(absStore, e.bucket, e.key, e.payload),
         absOp' = [absOp EXCEPT ![c] = [status |-> "ok"]]
  PROVE  Store!Next
  BY DEF absStore, absOp, absWire, Store!Next, Store!Succeed, SetIn, Store!Set, Store!Ok

LEMMA AbsFail ==
  ASSUME NEW c \in Caller, absOp[c].status = "pending", UNCHANGED absStore,
         absOp' = [absOp EXCEPT ![c] = [status |-> "failed"]],
         \/ UNCHANGED absWire
         \/ absWire' = [absWire EXCEPT ![c] = [status |-> "sent", effect |-> absOp[c].effect]]
  PROVE  Store!Next
  BY DEF absStore, absOp, absWire, Store!Next, Store!Fail, Store!Failed, Store!OnWire

LEMMA AbsArrive ==
  ASSUME NEW c \in Caller, absWire[c].status = "sent", UNCHANGED absOp,
         NEW e, absWire[c].effect = e, absStore' = SetIn(absStore, e.bucket, e.key, e.payload),
         absWire' = [absWire EXCEPT ![c] = [status |-> "none"]]
  PROVE  Store!Next
  BY DEF absStore, absOp, absWire, Store!Next, Store!Arrive, SetIn, Store!Set, Store!NoWire

LEMMA AbsLose ==
  ASSUME NEW c \in Caller, absWire[c].status = "sent", UNCHANGED <<absStore, absOp>>,
         absWire' = [absWire EXCEPT ![c] = [status |-> "none"]]
  PROVE  Store!Next
  BY DEF absStore, absOp, absWire, Store!Next, Store!Lose, Store!NoWire

LEMMA AbsTake ==
  ASSUME NEW c \in Caller, absOp[c].status # "pending", UNCHANGED <<absStore, absWire>>,
         absOp' = [absOp EXCEPT ![c] = [status |-> "idle"]]
  PROVE  Store!Next
  BY DEF absStore, absOp, absWire, Store!Next, Store!Take, Store!Idle

LEMMA AbsForget ==
  ASSUME UNCHANGED <<absStore, absWire>>, absOp' = [c \in Caller |-> [status |-> "idle"]]
  PROVE  Store!Next
  BY DEF absStore, absOp, absWire, Store!Next, Store!Forget, Store!Idle

LEMMA AbsStutter ==
  ASSUME UNCHANGED <<absStore, absOp, absWire>>
  PROVE  UNCHANGED Store!vars
  BY DEF absStore, absOp, absWire, Store!vars

LEMMA AbsKept ==
  /\ UNCHANGED kv => UNCHANGED absStore
  /\ UNCHANGED calls => UNCHANGED absOp
  /\ UNCHANGED late => UNCHANGED absWire
  BY DEF absStore, absOp, absWire

-----------------------------------------------------------------------------
(* The invariant the mapping needs, and each step mapped to a step of the  *)
(* abstract store or to none.                                              *)

RefInv == Inv /\ Carried

Mapped == Carried' /\ (Store!Next \/ UNCHANGED Store!vars)

LEMMA CallFacts ==
  ASSUME RefInv, NEW c \in Caller
  PROVE  /\ calls \in [Caller -> Call] /\ calls[c] \in Call
         /\ late \in [Caller -> Message] /\ late[c] \in Message
         /\ kv \in [Bucket -> BucketState]
         /\ absOp[c] = AbsOp(calls[c]) /\ absWire[c] = AbsWire(late[c])
  BY DEF RefInv, Inv, TypeOK, absOp, absWire

(* A pending call of the code is a pending call of the abstract store.     *)
LEMMA PendingCall ==
  ASSUME RefInv, NEW c \in Caller
  PROVE  /\ calls[c].pc \in Active =>
              absOp[c].status = "pending" /\ absOp[c].effect = Effect(calls[c])
         /\ calls[c].pc \in Answer => absOp[c].status # "pending"
         /\ late[c].kind # "none" =>
              absWire[c].status = "sent" /\ absWire[c].effect = Effect(late[c])
  <1>1. calls[c] \in Call /\ late[c] \in Message
    BY CallFacts
  <1>2. absOp[c] = AbsOp(calls[c]) /\ absWire[c] = AbsWire(late[c])
    BY CallFacts
  <1>3. QED
    BY <1>1, <1>2, OpStatus, WireStatus

LEMMA EffectParts ==
  ASSUME NEW m
  PROVE  /\ Effect(m).bucket = m.bucket
         /\ Effect(m).key = m.key
         /\ Effect(m).payload = m.payload
  BY DEF Effect

LEMMA CarriedByCalls ==
  ASSUME RefInv, NEW c \in Caller, UNCHANGED late,
         \A d \in Caller : d # c => calls'[d] = calls[d],
         calls'[c].pc = "purge" => calls'[c].payload = NoPayload
  PROVE  Carried'
  BY DEF RefInv, Carried

LEMMA CarriedByReturn ==
  ASSUME RefInv, NEW c \in Caller, NEW a \in Answer, Return(c, a), UNCHANGED late
  PROVE  Carried'
  <1>1. /\ calls'[c].pc = a
        /\ \A d \in Caller : d # c => calls'[d] = calls[d]
    BY ReturnType, CallFacts
  <1>2. a # "purge"
    BY DEF Answer
  <1>3. QED
    BY <1>1, <1>2, CarriedByCalls

(* A call that ends in a failure, or whose answer is taken.                *)
LEMMA FailsMapped ==
  ASSUME RefInv, NEW c \in Caller, calls[c].pc \in Active, NEW a \in {"conflict", "failed"},
         Return(c, a), UNCHANGED <<kv, late>>
  PROVE  Mapped
  <1>1. a \in Answer /\ calls \in [Caller -> Call]
    BY CallFacts DEF Answer
  <1>2. absOp' = [absOp EXCEPT ![c] = [status |-> "failed"]]
    BY <1>1, OpReturns
  <1>3. Carried'
    BY <1>1, CarriedByReturn
  <1>4. Store!Next
    BY <1>2, PendingCall, AbsKept, AbsFail
  <1>5. QED
    BY <1>3, <1>4 DEF Mapped

LEMMA TakenMapped ==
  ASSUME RefInv, NEW c \in Caller, Taken(c)
  PROVE  Mapped
  <1>1. /\ "idle" \in Answer /\ calls \in [Caller -> Call] /\ calls[c].pc \in Answer
        /\ Return(c, "idle") /\ UNCHANGED <<kv, late>>
    BY CallFacts DEF Answer, Taken
  <1>2. absOp' = [absOp EXCEPT ![c] = [status |-> "idle"]]
    BY <1>1, OpReturns
  <1>3. Carried'
    BY <1>1, CarriedByReturn
  <1>4. Store!Next
    BY <1>1, <1>2, PendingCall, AbsKept, AbsTake
  <1>5. QED
    BY <1>3, <1>4 DEF Mapped

(* A call refused before it reaches the network, and a call begun.         *)
LEMMA RefusedMapped ==
  ASSUME RefInv, NEW c \in Caller, Returned(c), Return(c, "failed"), UNCHANGED <<kv, late>>
  PROVE  Mapped
  <1>1. "failed" \in Answer /\ calls \in [Caller -> Call] /\ calls[c].pc \in Answer
    BY CallFacts DEF Answer, Returned
  <1>2. absOp' = [absOp EXCEPT ![c] = [status |-> "failed"]]
    BY <1>1, OpReturns
  <1>3. Carried'
    BY <1>1, CarriedByReturn
  <1>4. Store!Next
    BY <1>1, <1>2, PendingCall, AbsKept, AbsInvoke
  <1>5. QED
    BY <1>3, <1>4 DEF Mapped

LEMMA BeginMapped ==
  ASSUME RefInv, NEW c \in Caller, NEW b, NEW k \in Key,
         NEW p \in Payload \cup {NoPayload}, NEW pc \in {"get", "purge"},
         pc = "purge" => p = NoPayload, Begin(c, b, k, p, pc)
  PROVE  Mapped
  <1>1. b \in Bucket /\ Returned(c) /\ UNCHANGED <<kv, provisioned, clock, late>>
    BY DEF Begin
  <1>2. CASE ~provisioned
    BY <1>1, <1>2, RefusedMapped DEF Begin
  <1>3. CASE provisioned
    <2> DEFINE m == Started(b, k, p, pc)
    <2>1. calls' = [calls EXCEPT ![c] = m]
      BY <1>3 DEF Begin
    <2>2. kv[b].seq \in Nat
      BY <1>1 DEF RefInv, Inv, TypeOK, BucketState
    <2>3. m \in Call /\ m.pc = pc /\ m.bucket = b /\ m.key = k /\ m.payload = p
      BY <1>1, <2>2 DEF Call, Active, Started
    <2> HIDE DEF m
    <2>4. calls'[c] = m /\ \A d \in Caller : d # c => calls'[d] = calls[d]
      BY <2>1, CallFacts
    <2>5. Carried'
      BY <1>1, <2>3, <2>4, CarriedByCalls
    <2>6. absOp' = [absOp EXCEPT ![c] = AbsOp(m)]
      BY <2>1, CallFacts, OpMoves
    <2>7. AbsOp(m) = [status |-> "pending", effect |-> Effect(m)]
      BY <2>3, OpStatus DEF Active
    <2>8. Effect(m) \in Store!Effect
      BY <1>1, <2>3 DEF Effect, Store!Effect
    <2>9. \E e \in Store!Effect : absOp' = [absOp EXCEPT ![c] = [status |-> "pending", effect |-> e]]
      BY <2>6, <2>7, <2>8
    <2>10. absOp[c].status # "pending"
      BY <1>1, PendingCall DEF Returned
    <2>11. Store!Next
      BY <1>1, <2>9, <2>10, AbsKept, AbsInvoke
    <2>12. QED
      BY <2>5, <2>11 DEF Mapped
  <1>4. QED
    BY <1>2, <1>3

(* A call that moves on without an answer is pending as before, with the   *)
(* same effect.                                                            *)
LEMMA MovesMapped ==
  ASSUME RefInv, NEW c \in Caller, calls[c].pc \in Active, NEW n \in Call,
         n.pc \in {"get", "write"}, n.bucket = calls[c].bucket, n.key = calls[c].key,
         n.payload = calls[c].payload, calls' = [calls EXCEPT ![c] = n], UNCHANGED <<kv, late>>
  PROVE  Mapped
  <1>1. calls'[c] = n /\ \A d \in Caller : d # c => calls'[d] = calls[d]
    BY CallFacts
  <1>2. Carried'
    BY <1>1, CarriedByCalls
  <1>3. Effect(n) = Effect(calls[c])
    BY DEF Effect
  <1>4. AbsOp(n) = AbsOp(calls[c])
    BY <1>3, CallFacts, OpStatus DEF Active
  <1>5. absOp' = [absOp EXCEPT ![c] = absOp[c]]
    BY <1>4, CallFacts, OpMoves
  <1>6. absOp' = absOp
    BY <1>5 DEF absOp
  <1>7. QED
    BY <1>2, <1>6, AbsKept, AbsStutter DEF Mapped

(* A success sets the key to what the call carries.                        *)
LEMMA SucceedsMapped ==
  ASSUME RefInv, NEW c \in Caller, calls[c].pc \in Active, NEW a \in {"ok", "skipped"},
         Return(c, a), UNCHANGED late,
         absStore' = SetIn(absStore, calls[c].bucket, calls[c].key, calls[c].payload)
  PROVE  Mapped
  <1>1. a \in Answer /\ calls \in [Caller -> Call]
    BY CallFacts DEF Answer
  <1>2. absOp' = [absOp EXCEPT ![c] = [status |-> "ok"]]
    BY <1>1, OpReturns
  <1>3. Carried'
    BY <1>1, CarriedByReturn
  <1> DEFINE e == Effect(calls[c])
  <1>4. absStore' = SetIn(absStore, e.bucket, e.key, e.payload)
    BY EffectParts
  <1>5. absOp[c].status = "pending" /\ absOp[c].effect = e
    BY PendingCall
  <1> HIDE DEF e
  <1>6. Store!Next
    BY <1>2, <1>4, <1>5, AbsKept, AbsSucceed
  <1>7. QED
    BY <1>3, <1>6 DEF Mapped

LEMMA CurrentMapped ==
  ASSUME RefInv, NEW c \in Caller, Current(c)
  PROVE  Mapped
  <1> DEFINE m == calls[c]
             cur == kv[m.bucket].entry[m.key]
             v == Build(m.bucket, m.payload, cur)
             skip == /\ cur.revision # 0
                     /\ [payload |-> cur.payload, stamp |-> cur.stamp] = v.compare
  <1>1. /\ m \in Call /\ m.bucket \in Bucket /\ m.key \in Key /\ m.pc = "get"
        /\ m.payload \in Payload \cup {NoPayload}
        /\ UNCHANGED <<kv, provisioned, clock, late>>
    BY CallFacts DEF Call, Current
  <1>2. cur \in Entry
    BY <1>1, CallFacts DEF BucketState
  <1>3. CASE skip
    <2>1. Return(c, "skipped")
      BY <1>3 DEF Current
    <2>2. v.compare.payload = m.payload
      BY DEF Build, BuildFlag, raw
    <2>3. cur.payload = m.payload
      BY <1>3, <2>2
    <2>4. SetIn(absStore, m.bucket, m.key, m.payload) = absStore
      BY <1>1, <2>3 DEF SetIn, absStore
    <2>5. QED
      BY <1>1, <2>1, <2>4, AbsKept, SucceedsMapped DEF Active
  <1>4. CASE ~skip
    <2> DEFINE n == [m EXCEPT !.pc = "write", !.revision = cur.revision,
                              !.stamp = v.write.stamp]
    <2>1. calls' = [calls EXCEPT ![c] = n]
      BY <1>4 DEF Current
    <2>2. v.write.stamp = IF m.bucket = BucketFlags THEN clock ELSE 0
      BY DEF Build, BuildFlag, raw
    <2>3. v.write.stamp \in Nat
      BY <2>2 DEF RefInv, Inv, TypeOK
    <2>4. /\ n \in Call /\ n.pc = "write" /\ n.bucket = m.bucket /\ n.key = m.key
          /\ n.payload = m.payload
      BY <1>1, <1>2, <2>3 DEF Call, Active, Entry
    <2> HIDE DEF n
    <2>5. QED
      BY <1>1, <2>1, <2>4, MovesMapped DEF Active
  <1>5. QED
    BY <1>3, <1>4

LEMMA WriteMapped ==
  ASSUME RefInv, NEW c \in Caller, Write(c)
  PROVE  Mapped
  <1>1. /\ calls[c].pc \in Active /\ Return(c, "ok") /\ UNCHANGED late
        /\ kv' = [kv EXCEPT ![calls[c].bucket] = KvPut(@, calls[c].key, calls[c].payload, calls[c].stamp)]
    BY DEF Write, Active
  <1>2. absStore' = SetIn(absStore, calls[c].bucket, calls[c].key, calls[c].payload)
    BY <1>1, CallFacts, PutSets
  <1>3. QED
    BY <1>1, <1>2, SucceedsMapped

LEMMA WriteConflictMapped ==
  ASSUME RefInv, NEW c \in Caller, WriteConflict(c)
  PROVE  Mapped
  <1> DEFINE m == calls[c]
             n == [m EXCEPT !.pc = "get", !.attempt = m.attempt + 1]
  <1>1. /\ m \in Call /\ m.pc = "write" /\ m.attempt \in 1..publishAttempts
        /\ UNCHANGED <<kv, late>>
    BY CallFacts DEF Call, WriteConflict
  <1>2. CASE m.attempt < publishAttempts
    <2>1. calls' = [calls EXCEPT ![c] = n]
      BY <1>2 DEF WriteConflict
    <2>2. /\ n \in Call /\ n.pc = "get" /\ n.bucket = m.bucket /\ n.key = m.key
          /\ n.payload = m.payload
      <3>1. m.attempt + 1 \in 1..publishAttempts
        BY <1>1, <1>2
      <3> HIDE DEF m
      <3>2. QED
        BY <1>1, <3>1 DEF Call, Active
    <2> HIDE DEF n
    <2>3. QED
      BY <1>1, <2>1, <2>2, MovesMapped DEF Active
  <1>3. CASE ~(m.attempt < publishAttempts)
    <2>1. Return(c, "conflict")
      BY <1>3 DEF WriteConflict
    <2>2. QED
      BY <1>1, <2>1, FailsMapped DEF Active
  <1>4. QED
    BY <1>2, <1>3

LEMMA PurgeMapped ==
  ASSUME RefInv, NEW c \in Caller, Purge(c)
  PROVE  Mapped
  <1>1. /\ calls[c].pc \in Active /\ Return(c, "ok") /\ UNCHANGED late
        /\ kv' = [kv EXCEPT ![calls[c].bucket] = KvPurge(@, calls[c].key)]
    BY DEF Purge, Active
  <1>2. calls[c].payload = NoPayload
    BY DEF Purge, RefInv, Carried
  <1>3. calls[c].bucket \in Bucket /\ calls[c].key \in Key
    BY CallFacts DEF Call
  <1>4. absStore' = SetIn(absStore, calls[c].bucket, calls[c].key, NoPayload)
    BY <1>1, <1>3, CallFacts, PurgeSets
  <1>5. QED
    BY <1>1, <1>2, <1>4, SucceedsMapped

LEMMA ExchangeTimesOutMapped ==
  ASSUME RefInv, NEW c \in Caller, ExchangeTimesOut(c)
  PROVE  Mapped
  <1> DEFINE m == calls[c]
             n == [kind |-> IF m.pc = "write" THEN "put" ELSE "purge",
                   bucket |-> m.bucket, key |-> m.key, payload |-> m.payload,
                   revision |-> m.revision, stamp |-> m.stamp]
  <1>1. /\ m \in Call /\ m.pc \in {"write", "purge"} /\ m.pc \in Active /\ UNCHANGED kv
        /\ late' = [late EXCEPT ![c] = n] /\ Return(c, "failed")
    BY CallFacts DEF ExchangeTimesOut, Active
  <1>2. /\ n \in Message /\ n.kind # "none" /\ n.bucket = m.bucket /\ n.key = m.key
        /\ n.payload = m.payload /\ (n.kind = "purge" => m.pc = "purge")
    BY <1>1 DEF Call, Message
  <1>3. Effect(n) = Effect(m)
    BY <1>2 DEF Effect
  <1> HIDE DEF n
  <1>4. AbsWire(n) = [status |-> "sent", effect |-> Effect(m)]
    BY <1>2, <1>3, WireStatus
  <1>5. absWire' = [absWire EXCEPT ![c] = AbsWire(n)]
    BY <1>1, CallFacts, WireMoves
  <1>6. absOp[c].status = "pending" /\ absOp[c].effect = Effect(m)
    BY <1>1, PendingCall
  <1>7. absOp' = [absOp EXCEPT ![c] = [status |-> "failed"]]
    BY <1>1, CallFacts, OpReturns DEF Answer
  <1>8. Store!Next
    BY <1>1, <1>4, <1>5, <1>6, <1>7, AbsKept, AbsFail
  <1>9. Carried'
    <2>1. calls'[c].pc = "failed" /\ \A d \in Caller : d # c => calls'[d] = calls[d]
      BY <1>1, CallFacts, ReturnType DEF Answer
    <2>2. late'[c] = n /\ \A d \in Caller : d # c => late'[d] = late[d]
      BY <1>1, CallFacts
    <2>3. n.kind = "purge" => n.payload = NoPayload
      BY <1>2 DEF RefInv, Carried
    <2>4. QED
      BY <2>1, <2>2, <2>3 DEF RefInv, Carried
  <1>10. QED
    BY <1>8, <1>9 DEF Mapped

(* A message that leaves the wire.                                         *)
LEMMA WireClears ==
  ASSUME RefInv, NEW c \in Caller, late' = [late EXCEPT ![c] = NoMessage], UNCHANGED calls
  PROVE  /\ Carried'
         /\ absWire' = [absWire EXCEPT ![c] = [status |-> "none"]]
  <1>1. late'[c].kind = "none" /\ \A d \in Caller : d # c => late'[d] = late[d]
    BY CallFacts DEF NoMessage
  <1>2. Carried'
    BY <1>1 DEF RefInv, Carried
  <1>3. NoMessage \in Message /\ NoMessage.kind = "none"
    BY NoCallType DEF NoMessage
  <1>4. AbsWire(NoMessage) = [status |-> "none"]
    BY <1>3, WireStatus
  <1>5. QED
    BY <1>2, <1>4, CallFacts, WireMoves

LEMMA ArrivesMapped ==
  ASSUME RefInv, NEW c \in Caller, late[c].kind # "none", UNCHANGED calls,
         late' = [late EXCEPT ![c] = NoMessage],
         absStore' = SetIn(absStore, late[c].bucket, late[c].key, late[c].payload)
  PROVE  Mapped
  <1> DEFINE e == Effect(late[c])
  <1>1. absStore' = SetIn(absStore, e.bucket, e.key, e.payload)
    BY EffectParts
  <1>2. absWire[c].status = "sent" /\ absWire[c].effect = e
    BY PendingCall
  <1> HIDE DEF e
  <1>3. Store!Next
    BY <1>1, <1>2, WireClears, AbsKept, AbsArrive
  <1>4. QED
    BY <1>3, WireClears DEF Mapped

LEMMA LostMapped ==
  ASSUME RefInv, NEW c \in Caller, late[c].kind # "none", UNCHANGED <<kv, calls>>,
         late' = [late EXCEPT ![c] = NoMessage]
  PROVE  Mapped
  <1>1. absWire[c].status = "sent"
    BY PendingCall
  <1>2. Store!Next
    BY <1>1, WireClears, AbsKept, AbsLose
  <1>3. QED
    BY <1>2, WireClears DEF Mapped

LEMMA NetworkMapped ==
  ASSUME RefInv, NEW c \in Caller, Network(c)
  PROVE  Mapped
  <1>1. CASE LatePut(c) /\ Matches(kv[late[c].bucket], late[c].key, late[c].revision)
    <2>1. /\ late[c].kind # "none" /\ late' = [late EXCEPT ![c] = NoMessage] /\ UNCHANGED calls
          /\ kv' = [kv EXCEPT ![late[c].bucket] = KvPut(@, late[c].key, late[c].payload, late[c].stamp)]
      BY <1>1 DEF LatePut
    <2>2. absStore' = SetIn(absStore, late[c].bucket, late[c].key, late[c].payload)
      BY <2>1, CallFacts, PutSets
    <2>3. QED
      BY <2>1, <2>2, ArrivesMapped
  <1>2. CASE LatePut(c) /\ ~Matches(kv[late[c].bucket], late[c].key, late[c].revision)
    BY <1>2, LostMapped DEF LatePut
  <1>3. CASE LatePurge(c)
    <2>1. /\ late[c].kind # "none" /\ late' = [late EXCEPT ![c] = NoMessage] /\ UNCHANGED calls
          /\ kv' = [kv EXCEPT ![late[c].bucket] = KvPurge(@, late[c].key)]
      BY <1>3 DEF LatePurge
    <2>2. late[c].payload = NoPayload
      BY <1>3 DEF LatePurge, RefInv, Carried
    <2>3. late[c].bucket \in Bucket /\ late[c].key \in Key
      BY CallFacts DEF Message
    <2>4. absStore' = SetIn(absStore, late[c].bucket, late[c].key, NoPayload)
      BY <2>1, <2>3, CallFacts, PurgeSets
    <2>5. QED
      BY <2>1, <2>2, <2>4, ArrivesMapped
  <1>4. CASE LateLost(c)
    BY <1>4, LostMapped DEF LateLost
  <1>5. QED
    BY <1>1, <1>2, <1>3, <1>4 DEF Network

LEMMA RestartMapped ==
  ASSUME RefInv, Restart
  PROVE  Mapped
  <1>1. calls' = [c \in Caller |-> NoCall] /\ UNCHANGED <<kv, late>>
    BY DEF Restart
  <1>2. NoCall \in Call /\ NoCall.pc = "idle"
    BY NoCallType DEF NoCall
  <1>3. AbsOp(NoCall) = [status |-> "idle"]
    BY <1>2, OpStatus
  <1>4. absOp' = [c \in Caller |-> [status |-> "idle"]]
    BY <1>1, <1>3 DEF absOp
  <1>5. Carried'
    BY <1>1, <1>2 DEF RefInv, Carried
  <1>6. QED
    BY <1>1, <1>4, <1>5, AbsKept, AbsForget DEF Mapped

(* Neither the handles, nor the clock, nor a step outside the publisher is *)
(* seen by the abstract store.                                             *)
LEMMA QuietMapped ==
  ASSUME RefInv, UNCHANGED <<kv, calls, late>>
  PROVE  Mapped
  <1>1. Carried'
    BY DEF RefInv, Carried
  <1>2. QED
    BY <1>1, AbsKept, AbsStutter DEF Mapped

LEMMA PublishMapped ==
  ASSUME RefInv, NEW c \in Caller, NEW k \in Key, NEW p \in Payload,
         \/ PublishFlag(c, k, p)
         \/ \E b \in Bucket \ {BucketFlags} : PublishDocument(c, b, k, p)
  PROVE  Mapped
  <1>1. CASE PublishFlag(c, k, p)
    BY <1>1, BeginMapped DEF PublishFlag
  <1>2. CASE \E b \in Bucket \ {BucketFlags} : PublishDocument(c, b, k, p)
    <2>1. PICK b \in Bucket : PublishDocument(c, b, k, p)
      BY <1>2
    <2>2. CASE Begin(c, b, k, p, "get")
      BY <2>2, BeginMapped
    <2>3. CASE Returned(c) /\ Return(c, "failed") /\ UNCHANGED <<kv, provisioned, clock, late>>
      BY <2>3, RefusedMapped
    <2>4. QED
      BY <2>1, <2>2, <2>3 DEF PublishDocument
  <1>3. QED
    BY <1>1, <1>2

LEMMA NextMapped == RefInv /\ [Next]_pubVars => Mapped
  <1> SUFFICES ASSUME RefInv, [Next]_pubVars PROVE Mapped
    OBVIOUS
  <1>1. CASE \E c \in Caller, k \in Key, p \in Payload :
               \/ PublishFlag(c, k, p)
               \/ \E b \in Bucket \ {BucketFlags} : PublishDocument(c, b, k, p)
    BY <1>1, PublishMapped
  <1>2. CASE \E c \in Caller, b \in Bucket, k \in Key : DeleteKey(c, b, k)
    BY <1>2, BeginMapped DEF DeleteKey
  <1>3. CASE \E c \in Caller : Exchange(c) \/ Network(c)
    <2>1. PICK c \in Caller : Exchange(c) \/ Network(c)
      BY <1>3
    <2>2. CASE ExchangeFails(c)
      BY <2>2, FailsMapped DEF ExchangeFails
    <2>3. QED
      BY <2>1, <2>2, CurrentMapped, WriteMapped, WriteConflictMapped, PurgeMapped,
         ExchangeTimesOutMapped, TakenMapped, NetworkMapped DEF Exchange
  <1>4. CASE Restart
    BY <1>4, RestartMapped
  <1>5. CASE EnsureBuckets \/ Tick \/ UNCHANGED pubVars
    BY <1>5, QuietMapped DEF EnsureBuckets, Tick, pubVars
  <1>6. QED
    BY <1>1, <1>2, <1>3, <1>4, <1>5 DEF Next

LEMMA InitMapped == Init => Carried /\ Store!Init
  <1> SUFFICES ASSUME Init PROVE Carried /\ Store!Init
    OBVIOUS
  <1>1. NoCall \in Call /\ NoCall.pc = "idle" /\ NoMessage \in Message /\ NoMessage.kind = "none"
    BY NoCallType DEF NoCall, NoMessage
  <1>2. AbsOp(NoCall) = [status |-> "idle"] /\ AbsWire(NoMessage) = [status |-> "none"]
    BY <1>1, OpStatus, WireStatus
  <1>3. Carried
    BY <1>1 DEF Init, Carried
  <1>4. \A b \in Bucket, k \in Key : kv[b].entry[k].payload = NoPayload
    BY DEF Init, EmptyBucket, Absent
  <1>5. Store!Init
    BY <1>2, <1>4 DEF Init, Store!Init, Store!Idle, Store!NoWire
  <1>6. QED
    BY <1>3, <1>5

(* publish and DeleteKey of publisher.go, with the read before the write,  *)
(* the skip, the retries, the messages that land after their call gave up  *)
(* and the restarts, implement the atomic store: a call that answers       *)
(* success took effect at one moment between call and answer, and one that *)
(* answers failure at most once, whenever its message arrives.             *)
THEOREM PublishAtomic == Spec => PublishIsAtomic
  <1>1. Init => Carried /\ Store!Init
    BY InitMapped
  <1>2. Inv /\ Carried /\ [Next]_pubVars => Carried' /\ [Store!Next]_(Store!vars)
    BY NextMapped DEF Mapped, RefInv
  <1>3. QED
    BY <1>1, <1>2, Invariance, PTL DEF Spec, PublishIsAtomic, Store!Spec
=============================================================================
