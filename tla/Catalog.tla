------------------------------- MODULE Catalog -------------------------------
(***************************************************************************)
(* Requests on environments, microservices, flags, flag values and bundles *)
(* at once, over one database and one process: the composition of          *)
(* ReferenceTables, FlagsConfig, Localization and Publisher.  Statements   *)
(* and exchanges may fail, MaxFaults times in all.                         *)
(***************************************************************************)
EXTENDS FlagsConfig, Localization, SequencesExt

(* What the rows that are there at the start need: the identities number   *)
(* them from 1 on.                                                         *)
ASSUME SeedAssumption ==
    /\ 1 \in FlagId /\ Payload # {EmptyDoc} /\ IsFiniteSet(Key)
    /\ IsFiniteSet(RowId) /\ RowId = 1..Cardinality(RowId)

(* The third bucket has no table here.                                     *)
ASSUME CatalogBucketAssumption == BucketServiceSettings \notin Bucket

VARIABLES
    faulted,     \* <<bucket, key>> of a step that failed after a commit
    contested    \* <<bucket, key>> on which two requests overlapped

catalogVars == <<pubVars, catVars, faulted, contested>>

-----------------------------------------------------------------------------
(* What a running system holds: rows whose references exist, and buckets   *)
(* that say the same as the rows.  Ids are left for the rows to come.      *)

Seed(keys, first, flag) ==
    [id \in RowId |-> IF id \in first..(first + Len(keys) - 1)
                        THEN [key |-> keys[id - first + 1], flag |-> flag,
                              doc |-> CHOOSE p \in Payload : p # EmptyDoc]
                        ELSE NoRow]

SeedDatabase(vs, bs, refs) ==
    [refs |-> refs, gone |-> {}, flags |-> {1}, flagSeq |-> 2,
     rowSeq |-> Len(vs) + Len(bs) + 1,
     values |-> Seed(vs, 1, 1), bundles |-> Seed(bs, Len(vs) + 1, 0)]

(* The keys were put one after the other.                                  *)
SeedBucket(keys, doc, stamp) ==
    [seq |-> Len(keys),
     entry |-> [k \in Key |-> IF k \in Range(keys)
                                THEN [payload |-> doc, stamp |-> stamp,
                                      revision |-> CHOOSE i \in DOMAIN keys : keys[i] = k]
                                ELSE Absent]]

CatalogInit ==
    /\ \E vs, bs \in SUBSET Key :
         /\ Cardinality(vs) + Cardinality(bs) + MaxRequests <= Cardinality(RowId)
         /\ db \in {SeedDatabase(SetToSeq(vs), SetToSeq(bs), refs) :
                      refs \in {Ref, vs \cup bs \cup {Service}}}
         /\ kv = [b \in Bucket |->
               IF b = BucketFlags
                 THEN SeedBucket(SetToSeq(vs), CHOOSE p \in Payload : p # EmptyDoc, 1)
                 ELSE SeedBucket(SetToSeq(bs), CHOOSE p \in Payload : p # EmptyDoc, 0)]
    /\ provisioned = TRUE
    /\ clock = 1
    /\ calls = [c \in Caller |-> NoCall]
    /\ late = [c \in Caller |-> NoMessage]
    /\ reqs = [c \in Request |-> NoReq]
    /\ started = 0
    /\ faults = 0
    /\ faulted = {}
    /\ contested = {}

-----------------------------------------------------------------------------
Arrival(c) ==
    \/ \E ref \in Ref : CreateReference(c, ref) \/ DeleteReference(c, ref)
    \/ FlagArrival(c)
    \/ BundleArrival(c)

Commit(c) == ReferenceCommit(c) \/ FlagCommit(c) \/ BundleCommit(c)

(* A statement that fails ends the request.  When it is the write, the     *)
(* error may come after the commit.                                        *)
DatabaseFails(c) ==
    /\ reqs[c].pc \in {"previous", "check", "exec", "readback"}
    /\ faults < MaxFaults
    /\ faults' = faults + 1
    /\ Finish(c)
    /\ Commit(c) \/ UNCHANGED db
    /\ UNCHANGED <<pubVars, started>>

(* The exchanges of a publish or a purge, as in Publisher.                 *)
Distribute(c) ==
    \/ /\ Current(c) \/ Write(c) \/ WriteConflict(c) \/ Purge(c)
       /\ UNCHANGED catVars
    \/ /\ ExchangeFails(c) \/ ExchangeTimesOut(c)
       /\ faults < MaxFaults
       /\ faults' = faults + 1
       /\ UNCHANGED <<db, reqs, started>>

RequestStep(c) ==
    \/ ReferenceStep(c) \/ FlagStep(c) \/ BundleStep(c)
    \/ PurgeDone(c) \/ PurgesDone(c) \/ PublishDone(c)
    \/ DatabaseFails(c) \/ Distribute(c)

CatalogStep ==
    \/ \E c \in Request : Arrival(c) \/ RequestStep(c)
    \/ \E c \in Request : Network(c) /\ UNCHANGED catVars

-----------------------------------------------------------------------------
(* The history variables observe the steps and constrain none.             *)

Table(d, b) == IF b = BucketFlags THEN d.values ELSE d.bundles

ChangedRows(b) == {id \in RowId : Table(db, b)[id] # Table(db', b)[id]}

ChangedKeys(b) ==
    (UNION {{Table(db, b)[id].key, Table(db', b)[id].key} : id \in ChangedRows(b)})
    \ {NoKey}

Serves(c) == IF reqs[c].op \in {"updateBundle", "deleteBundle", "createBundle"}
               THEN BucketLocalization ELSE BucketFlags

(* The rows whose content a request has noted and will act on.             *)
Noted(c) ==
    CASE reqs[c].op = "deleteFlag" /\ reqs[c].pc = "exec"     -> RowId
      [] reqs[c].op \in {"deleteValue", "deleteBundle"} /\ reqs[c].pc = "exec"
                                                              -> {reqs[c].id}
      [] reqs[c].op = "updateBundle" /\ reqs[c].pc \in {"check", "exec", "readback"}
                                                              -> {reqs[c].id}
      [] OTHER                                                -> {}

(* The keys a request is about to publish or to purge.                     *)
Pending(c) ==
    CASE reqs[c].pc = "publishing" -> {reqs[c].key} \cup reqs[c].purge
      [] reqs[c].pc = "purging"    -> {calls[c].key} \cup reqs[c].purge
      [] reqs[c].pc \in {"exec", "readback"} -> {reqs[c].prev} \cup reqs[c].purge
      [] OTHER                     -> {}

(* Somebody else changes a row d noted, or a key d has yet to distribute.  *)
Overlap(d, b) ==
    (ChangedKeys(b) \cap Pending(d))
    \cup (IF ChangedRows(b) \cap Noted(d) = {}
            THEN {} ELSE ChangedKeys(b) \cup ({reqs[d].prev} \ {NoKey}))

Failed(c) == /\ calls[c].pc \in Active
             /\ calls'[c].pc \in {"failed", "conflict"}

(* The keys of a request whose statement fails at or after its commit.     *)
Abandoned(c) ==
    CASE reqs[c].pc = "exec"     -> ChangedKeys(Serves(c))
      [] reqs[c].pc = "readback" ->
            {reqs[c].key, reqs[c].prev}
            \cup {db.values[id].key : id \in UpdatedValue(c)}
      [] OTHER                   -> {}

Watch ==
    /\ faulted' = faulted
         \cup {<<calls[c].bucket, calls[c].key>> : c \in {d \in Request : Failed(d)}}
         \cup UNION {{<<Serves(c), k>> : k \in Abandoned(c)} :
                       c \in {d \in Request : /\ reqs[d].pc # "idle"
                                              /\ reqs'[d] = NoReq
                                              /\ faults' # faults}}
    /\ contested' = contested \cup
         UNION {{<<Serves(d), k>> : k \in Overlap(d, Serves(d))} :
                  d \in {e \in Request : reqs'[e] = reqs[e]}}

CatalogNext == CatalogStep /\ Watch

CatalogSpec == CatalogInit /\ [][CatalogNext]_catalogVars

(* Requests are interchangeable: no definition tells one from another.     *)
CatalogSymmetry == Permutations(Request)

-----------------------------------------------------------------------------
(* Properties *)

(* Type correctness of the tables and the requests.                        *)
CatalogTypeOK ==
    /\ TypeOK
    /\ db \in Database
    /\ reqs \in [Request -> Req]
    /\ started \in 0..MaxRequests
    /\ faults \in 0..MaxFaults

(* Whatever creates, moves and deletes overlap, every flag value names a   *)
(* live flag and environment, every bundle a live environment and          *)
(* microservice, and no two rows feed one key: the checks the repositories *)
(* make first are not locks, and deleting a parent never orphans a child.  *)
ReferencesHold ==
    /\ \A id \in Rows(db.values) :
         /\ ValueRefs(db, db.values[id])
         /\ \A other \in Rows(db.values) \ {id} : db.values[other].key # db.values[id].key
    /\ \A id \in Rows(db.bundles) :
         /\ BundleRefs(db, db.bundles[id])
         /\ \A other \in Rows(db.bundles) \ {id} : db.bundles[other].key # db.bundles[id].key

(* The bucket says about a key what the table says.                        *)
Mirrored(b, k) ==
    LET backing == {id \in Rows(Table(db, b)) : Table(db, b)[id].key = k}
    IN  IF backing = {}
          THEN ~Live(kv[b], k)
          ELSE \A id \in backing : kv[b].entry[k].payload = Table(db, b)[id].doc

(* With no request past its commit, both buckets say what the tables say,  *)
(* except on a key where a step failed or two requests overlapped: the     *)
(* fan-out of a flag's deletion, the move of a bundle and the plain writes *)
(* leave no drift of their own for the reconciler to find.                 *)
CatalogDriftHasACause ==
    (\A c \in Request : reqs[c].pc \notin {"readback", "publishing", "purging"})
    => \A b \in Bucket, k \in Key :
          <<b, k>> \notin faulted \cup contested => Mirrored(b, k)
=============================================================================
