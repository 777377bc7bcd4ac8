------------------------------ MODULE Publisher ------------------------------
(***************************************************************************)
(* internal/messaging/publisher.go: the revision-checked write of one key  *)
(* (publish), the purge of one key (DeleteKey) and the provisioning of the *)
(* bucket handles (Buckets in kv.go).                                      *)
(*                                                                         *)
(* A caller is a goroutine inside the process: an admin request or the     *)
(* reconciler.  Each exchange with NATS is one step, so the calls of other *)
(* callers fall between a call's read of a key and its conditioned write.  *)
(* Any exchange can fail; a write that times out answers an error while    *)
(* its message may reach the server later, or never.                       *)
(***************************************************************************)
EXTENDS KvBucket

CONSTANTS
    Caller,        \* goroutines that publish
    Bucket,        \* the buckets of the instance, of the three there are
    EmptyDoc,      \* the payload of zero length
    MaxClock,      \* bound on the wall clock
    MaxRevision    \* bound: no call starts on a bucket that took this many writes

ASSUME EmptyDocAssumption == EmptyDoc \in Payload
ASSUME BucketAssumption ==
    /\ Bucket # {}
    /\ Bucket \subseteq {"FLAGS", "SERVICESETTINGS", "LOCALIZATION"}
ASSUME BoundAssumption == MaxClock \in Nat /\ MaxRevision \in Nat

VARIABLES
    kv,            \* kv[b]: the bucket on the server
    provisioned,   \* whether the process holds handles for the three buckets
    clock,         \* time.Now(), in the resolution of updatedAt
    calls,         \* calls[c]: the publish or purge c has in progress
    late           \* late[c]: a message of a call of c that answered an error

pubVars == <<kv, provisioned, clock, calls, late>>

BucketFlags == "FLAGS"
BucketServiceSettings == "SERVICESETTINGS"
BucketLocalization == "LOCALIZATION"

publishAttempts == 3

-----------------------------------------------------------------------------
(* The state of a call.  "get" is about to read the key, "write" holds the *)
(* revision it read and the value it built, "purge" is about to purge.     *)
(* since records the bucket's sequence when the call began; no step of the *)
(* code reads it.                                                          *)

Active == {"get", "write", "purge"}
Answer == {"idle", "ok", "skipped", "conflict", "failed"}

AnyBucket == CHOOSE b \in Bucket : TRUE
AnyKey == CHOOSE k \in Key : TRUE

NoCall == [pc |-> "idle", bucket |-> AnyBucket, key |-> AnyKey,
           payload |-> NoPayload, attempt |-> 1,
           revision |-> 0, stamp |-> 0, since |-> 0]

Call == [pc : Active \cup Answer, bucket : Bucket, key : Key,
         payload : Payload \cup {NoPayload}, attempt : 1..publishAttempts,
         revision : Nat, stamp : Nat, since : Nat]

NoMessage == [kind |-> "none", bucket |-> AnyBucket, key |-> AnyKey,
              payload |-> NoPayload, revision |-> 0, stamp |-> 0]

Message == [kind : {"none", "put", "purge"}, bucket : Bucket, key : Key,
            payload : Payload \cup {NoPayload}, revision : Nat, stamp : Nat]

Returned(c) == calls[c].pc \in Answer

Return(c, answer) ==
    calls' = [calls EXCEPT ![c] = [NoCall EXCEPT !.pc = answer]]

Init ==
    /\ kv = [b \in Bucket |-> EmptyBucket]
    /\ provisioned \in BOOLEAN
    /\ clock = 1
    /\ calls = [c \in Caller |-> NoCall]
    /\ late = [c \in Caller |-> NoMessage]

-----------------------------------------------------------------------------
(* byName fails while the handles are nil; the call then answers an error  *)
(* before it reaches the network.                                          *)
Started(b, k, p, pc) ==
    [pc |-> pc, bucket |-> b, key |-> k, payload |-> p, attempt |-> 1,
     revision |-> 0, stamp |-> 0, since |-> kv[b].seq]

Begin(c, b, k, p, pc) ==
    /\ b \in Bucket
    /\ Returned(c)
    /\ kv[b].seq < MaxRevision
    /\ IF provisioned
         THEN calls' = [calls EXCEPT ![c] = Started(b, k, p, pc)]
         ELSE Return(c, "failed")
    /\ UNCHANGED <<kv, provisioned, clock, late>>

PublishFlag(c, k, p) == Begin(c, BucketFlags, k, p, "get")

(* The two document publishers refuse an empty document first.             *)
PublishDocument(c, b, k, p) ==
    \/ /\ p # EmptyDoc
       /\ Begin(c, b, k, p, "get")
    \/ /\ p = EmptyDoc
       /\ b \in Bucket
       /\ Returned(c)
       /\ Return(c, "failed")
       /\ UNCHANGED <<kv, provisioned, clock, late>>

PublishServiceSettings(c, k, p) == PublishDocument(c, BucketServiceSettings, k, p)

DeleteKey(c, b, k) == Begin(c, b, k, NoPayload, "purge")

-----------------------------------------------------------------------------
(* build: the value to write and the value to compare with the stored one. *)
(* A flag is written with a fresh updatedAt and compared with the stored   *)
(* one, so that time alone is not a change.                                *)

(* Fault: the fresh updatedAt also goes into the value compared.           *)
BuildFlagFreshCompare(p, cur) ==
    [write   |-> [payload |-> p, stamp |-> clock],
     compare |-> [payload |-> p, stamp |-> clock]]

BuildFlag(p, cur) == [write   |-> [payload |-> p, stamp |-> clock],
                      compare |-> [payload |-> p, stamp |-> cur.stamp]]

raw(p) == [write   |-> [payload |-> p, stamp |-> 0],
           compare |-> [payload |-> p, stamp |-> 0]]

Build(b, p, cur) == IF b = BucketFlags THEN BuildFlag(p, cur) ELSE raw(p)

(* Fault: the updatedAt of the first attempt is kept by the retries.       *)
CurrentStampedOnce(c) ==
    LET m == calls[c]
        cur == kv[m.bucket].entry[m.key]
        v == Build(m.bucket, m.payload, cur)
    IN  /\ m.pc = "get"
        /\ IF /\ cur.revision # 0
              /\ [payload |-> cur.payload, stamp |-> cur.stamp] = v.compare
             THEN Return(c, "skipped")
             ELSE calls' = [calls EXCEPT ![c].pc = "write",
                                         ![c].revision = cur.revision,
                                         ![c].stamp = IF m.attempt = 1
                                                        THEN v.write.stamp ELSE @]
        /\ UNCHANGED <<kv, provisioned, clock, late>>

(* One round of publish up to the write: read, build, skip if unchanged.   *)
Current(c) ==
    LET m == calls[c]
        cur == kv[m.bucket].entry[m.key]
        v == Build(m.bucket, m.payload, cur)
    IN  /\ m.pc = "get"
        /\ IF /\ cur.revision # 0
              /\ [payload |-> cur.payload, stamp |-> cur.stamp] = v.compare
             THEN Return(c, "skipped")
             ELSE calls' = [calls EXCEPT ![c].pc = "write",
                                         ![c].revision = cur.revision,
                                         ![c].stamp = v.write.stamp]
        /\ UNCHANGED <<kv, provisioned, clock, late>>

(* Create or Update accepted: the key is still at the revision read.       *)
Write(c) ==
    LET m == calls[c]
    IN  /\ m.pc = "write"
        /\ Matches(kv[m.bucket], m.key, m.revision)
        /\ kv' = [kv EXCEPT ![m.bucket] = KvPut(@, m.key, m.payload, m.stamp)]
        /\ Return(c, "ok")
        /\ UNCHANGED <<provisioned, clock, late>>

(* Faults: an off-by-one in the attempts; a retry of the write without the *)
(* read.                                                                   *)
WriteConflictOneMore(c) ==
    LET m == calls[c]
    IN  /\ m.pc = "write"
        /\ ~Matches(kv[m.bucket], m.key, m.revision)
        /\ IF m.attempt <= publishAttempts
             THEN calls' = [calls EXCEPT ![c].pc = "get",
                                         ![c].attempt = m.attempt + 1]
             ELSE Return(c, "conflict")
        /\ UNCHANGED <<kv, provisioned, clock, late>>

WriteConflictNoReread(c) ==
    LET m == calls[c]
    IN  /\ m.pc = "write"
        /\ ~Matches(kv[m.bucket], m.key, m.revision)
        /\ IF m.attempt < publishAttempts
             THEN calls' = [calls EXCEPT ![c].attempt = m.attempt + 1]
             ELSE Return(c, "conflict")
        /\ UNCHANGED <<kv, provisioned, clock, late>>

(* ErrKeyExists: start over from the read, at most publishAttempts times.  *)
WriteConflict(c) ==
    LET m == calls[c]
    IN  /\ m.pc = "write"
        /\ ~Matches(kv[m.bucket], m.key, m.revision)
        /\ IF m.attempt < publishAttempts
             THEN calls' = [calls EXCEPT ![c].pc = "get",
                                         ![c].attempt = m.attempt + 1]
             ELSE Return(c, "conflict")
        /\ UNCHANGED <<kv, provisioned, clock, late>>

Purge(c) ==
    LET m == calls[c]
    IN  /\ m.pc = "purge"
        /\ kv' = [kv EXCEPT ![m.bucket] = KvPurge(@, m.key)]
        /\ Return(c, "ok")
        /\ UNCHANGED <<provisioned, clock, late>>

(* Any other error of the exchange ends the call at once.                  *)
ExchangeFails(c) ==
    /\ calls[c].pc \in Active
    /\ Return(c, "failed")
    /\ UNCHANGED <<kv, provisioned, clock, late>>

(* Fault: a write whose answer did not come is reported as done.           *)
TimeoutIsSuccess(c) ==
    LET m == calls[c]
    IN  /\ m.pc \in {"write", "purge"}
        /\ late[c] = NoMessage
        /\ late' = [late EXCEPT ![c] =
                      [kind |-> IF m.pc = "write" THEN "put" ELSE "purge",
                       bucket |-> m.bucket, key |-> m.key,
                       payload |-> m.payload,
                       revision |-> m.revision, stamp |-> m.stamp]]
        /\ Return(c, "ok")
        /\ UNCHANGED <<kv, provisioned, clock>>

(* The answer was lost or late: an error here, a message on its way there. *)
(* One such message per caller is kept.                                    *)
ExchangeTimesOut(c) ==
    LET m == calls[c]
    IN  /\ m.pc \in {"write", "purge"}
        /\ late[c] = NoMessage
        /\ late' = [late EXCEPT ![c] =
                      [kind |-> IF m.pc = "write" THEN "put" ELSE "purge",
                       bucket |-> m.bucket, key |-> m.key,
                       payload |-> m.payload,
                       revision |-> m.revision, stamp |-> m.stamp]]
        /\ Return(c, "failed")
        /\ UNCHANGED <<kv, provisioned, clock>>

(* The caller has read the answer.                                         *)
Taken(c) ==
    /\ calls[c].pc \in Answer \ {"idle"}
    /\ Return(c, "idle")
    /\ UNCHANGED <<kv, provisioned, clock, late>>

-----------------------------------------------------------------------------
(* The network.                                                            *)

LatePut(c) ==
    LET m == late[c]
    IN  /\ m.kind = "put"
        /\ late' = [late EXCEPT ![c] = NoMessage]
        /\ kv' = IF Matches(kv[m.bucket], m.key, m.revision)
                   THEN [kv EXCEPT ![m.bucket] = KvPut(@, m.key, m.payload, m.stamp)]
                   ELSE kv
        /\ UNCHANGED <<provisioned, clock, calls>>

LatePurge(c) ==
    LET m == late[c]
    IN  /\ m.kind = "purge"
        /\ late' = [late EXCEPT ![c] = NoMessage]
        /\ kv' = [kv EXCEPT ![m.bucket] = KvPurge(@, m.key)]
        /\ UNCHANGED <<provisioned, clock, calls>>

LateLost(c) ==
    /\ late[c].kind # "none"
    /\ late' = [late EXCEPT ![c] = NoMessage]
    /\ UNCHANGED <<kv, provisioned, clock, calls>>

-----------------------------------------------------------------------------
(* Ensure succeeded: all three handles are swapped in together.  A failed  *)
(* Ensure leaves the handles as they were, and changes nothing here.       *)
EnsureBuckets ==
    /\ ~provisioned
    /\ provisioned' = TRUE
    /\ UNCHANGED <<kv, clock, calls, late>>

(* A process that starts while NATS is unreachable holds no handles.       *)
Restart ==
    /\ calls' = [c \in Caller |-> NoCall]
    /\ provisioned' = FALSE
    /\ UNCHANGED <<kv, clock, late>>

Tick ==
    /\ clock < MaxClock
    /\ clock' = clock + 1
    /\ UNCHANGED <<kv, provisioned, calls, late>>

Exchange(c) ==
    \/ Current(c)
    \/ Write(c)
    \/ WriteConflict(c)
    \/ Purge(c)
    \/ ExchangeFails(c)
    \/ ExchangeTimesOut(c)
    \/ Taken(c)

Network(c) ==
    \/ LatePut(c)
    \/ LatePurge(c)
    \/ LateLost(c)

Next ==
    \/ \E c \in Caller, k \in Key, p \in Payload :
          \/ PublishFlag(c, k, p)
          \/ \E b \in Bucket \ {BucketFlags} : PublishDocument(c, b, k, p)
    \/ \E c \in Caller, b \in Bucket, k \in Key : DeleteKey(c, b, k)
    \/ \E c \in Caller : Exchange(c) \/ Network(c)
    \/ EnsureBuckets
    \/ Restart
    \/ Tick

Spec == Init /\ [][Next]_pubVars

-----------------------------------------------------------------------------
(* Properties *)

(* Type correctness of the buckets, the calls and the messages in flight.  *)
TypeOK ==
    /\ kv \in [Bucket -> BucketState]
    /\ provisioned \in BOOLEAN
    /\ clock \in Nat
    /\ calls \in [Caller -> Call]
    /\ late \in [Caller -> Message]

(* While a flag stays published its updatedAt never goes back, whatever    *)
(* order the writes of several callers land in: consumers are told to      *)
(* ignore an update whose updatedAt is older than the one they hold, so a  *)
(* newer revision with an older stamp would never be applied.  It needs    *)
(* the stamp to be taken after the read and the write to be conditioned on *)
(* that read.                                                              *)
FlagStampsNeverGoBack ==
    [][\A b \in Bucket, k \in Key :
         /\ Live(kv[b], k)
         /\ Live(kv'[b], k)
         => kv'[b].entry[k].stamp >= kv[b].entry[k].stamp]_pubVars

(* Replacing a published value always changes what it says: no interleaving*)
(* of publishes, retries and late messages pushes an identical value to    *)
(* every watcher.                                                          *)
EveryRevisionIsAChange ==
    [][\A b \in Bucket, k \in Key :
         /\ Live(kv[b], k)
         /\ Live(kv'[b], k)
         /\ kv'[b].entry[k].revision # kv[b].entry[k].revision
         => kv'[b].entry[k].payload # kv[b].entry[k].payload]_pubVars

(* A publish gives up on a conflict only on a key that is really contended:*)
(* the bucket took at least one write for each of its attempts since the   *)
(* call began.                                                             *)
ConflictMeansContention ==
    [][\A c \in Caller :
         calls'[c].pc = "conflict" /\ calls[c].pc # "conflict"
         => kv[calls[c].bucket].seq >= calls[c].since + publishAttempts]_pubVars

(* The calls implement single indivisible writes.                          *)
Effect(m) == [bucket |-> m.bucket, key |-> m.key, payload |-> m.payload]

AbsOp(m) ==
    CASE m.pc = "idle"                 -> [status |-> "idle"]
      [] m.pc \in {"ok", "skipped"}    -> [status |-> "ok"]
      [] m.pc \in {"conflict", "failed"} -> [status |-> "failed"]
      [] OTHER                         -> [status |-> "pending", effect |-> Effect(m)]

AbsWire(m) ==
    IF m.kind = "none" THEN [status |-> "none"]
                       ELSE [status |-> "sent", effect |-> Effect(m)]

Store == INSTANCE AtomicStore WITH
    store <- [b \in Bucket |-> [k \in Key |-> kv[b].entry[k].payload]],
    op <- [c \in Caller |-> AbsOp(calls[c])],
    wire <- [c \in Caller |-> AbsWire(late[c])]

(* publish, with its reads, its skips and its retries, is to its callers an*)
(* atomic write of the key: a success took effect between call and answer. *)
PublishIsAtomic == Store!Spec
=============================================================================
