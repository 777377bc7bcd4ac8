--------------------------- MODULE ServiceSettings ---------------------------
(***************************************************************************)
(* internal/servicesettings: the rows of CONFIG_MICROSERVICE_APPSETTINGS   *)
(* and the admin requests that create, update and delete them, each        *)
(* written through to the SERVICESETTINGS bucket by the publisher.         *)
(*                                                                         *)
(* A key stands for one (environment, microservice) pair, so it is both    *)
(* the natural key of a row and the KV key the row feeds.  Every statement *)
(* sent to the database is one step, and any other request may run between *)
(* two of them: there is no transaction around a request.                  *)
(***************************************************************************)
EXTENDS Publisher, FiniteSets

CONSTANTS
    Request,       \* the callers that are admin requests
    RowId,         \* ids a row can have
    KnownKey,      \* keys whose environment and microservice both exist
    NoKey,         \* the key of no row
    Sqlite,        \* the database is SQLite, not PostgreSQL
    Opting,        \* whether callers send expectedUpdatedAt: TRUE, FALSE or both
    MaxRequests    \* bound on the requests started

ASSUME RequestAssumption == Request \subseteq Caller
ASSUME SettingsBucketAssumption == BucketServiceSettings \in Bucket
ASSUME RowIdAssumption == RowId \subseteq Nat \ {0}
ASSUME KnownKeyAssumption == KnownKey \subseteq Key /\ NoKey \notin Key
ASSUME DatabaseAssumption == Sqlite \in BOOLEAN
ASSUME OptingAssumption == Opting \subseteq BOOLEAN
ASSUME RequestBoundAssumption == MaxRequests \in Nat

VARIABLES
    rows,          \* rows[id]: the row, or NoRow
    reqs,          \* reqs[c]: the request c is serving
    nextId,        \* PostgreSQL's identity sequence
    started        \* number of requests started

ssVars == <<rows, reqs, nextId, started>>
vars == <<pubVars, ssVars>>

NoRow == [key |-> NoKey, doc |-> NoPayload, at |-> 0]

Row == [key : Key, doc : Payload, at : Nat]

Exists(id) == id \in RowId /\ rows[id] # NoRow

(* The unique constraint on (MICROSERVICE_ID, ENVIRONMENT_ID).             *)
KeyTaken(k, id) == \E j \in RowId \ {id} : rows[j].key = k

-----------------------------------------------------------------------------
(* A request.  expected is the UPDATED_AT the caller opted to check, 0 if  *)
(* it did not; prev is the key the row fed before.                         *)

NoReq == [op |-> "none", pc |-> "idle", id |-> 0, key |-> NoKey,
          doc |-> NoPayload, expected |-> 0, prev |-> NoKey]

PC == {"idle", "previous", "check", "exec", "readback", "publishing", "purging"}

AfterExec == {"readback", "publishing", "purging"}

Req == [op : {"none", "create", "update", "delete"}, pc : PC,
        id : RowId \cup {0}, key : Key \cup {NoKey},
        doc : Payload \cup {NoPayload}, expected : Nat, prev : Key \cup {NoKey}]

Idle(c) == reqs[c].pc = "idle"

Goto(c, pc) == reqs' = [reqs EXCEPT ![c].pc = pc]

Finish(c) == reqs' = [reqs EXCEPT ![c] = NoReq]

SSInit ==
    /\ Init
    /\ rows = [id \in RowId |-> NoRow]
    /\ reqs = [c \in Request |-> NoReq]
    /\ nextId = 1
    /\ started = 0

-----------------------------------------------------------------------------
(* Arrival.  checkSettings refuses a document that is empty, too large or  *)
(* not a JSON object before anything is read or written.                   *)

checkSettings(d) == d # EmptyDoc

Accept(c, r) ==
    /\ Idle(c)
    /\ started < MaxRequests
    /\ started' = started + 1
    /\ reqs' = [reqs EXCEPT ![c] = r]
    /\ UNCHANGED <<pubVars, rows, nextId>>

CreateMicroserviceConfig(c, k, d) ==
    /\ checkSettings(d)
    /\ Accept(c, [NoReq EXCEPT !.op = "create", !.pc = "check", !.key = k,
                               !.doc = d])

(* A caller that opts in sends the UPDATED_AT of the row as it last read   *)
(* it.                                                                     *)
UpdateMicroserviceConfig(c, id, k, d, guarded) ==
    /\ checkSettings(d)
    /\ guarded => Exists(id)
    /\ Accept(c, [NoReq EXCEPT !.op = "update", !.pc = "previous", !.id = id,
                               !.key = k, !.doc = d,
                               !.expected = IF guarded THEN rows[id].at ELSE 0])

DeleteMicroserviceConfig(c, id) ==
    Accept(c, [NoReq EXCEPT !.op = "delete", !.pc = "previous", !.id = id])

-----------------------------------------------------------------------------
(* The statements.                                                         *)

(* GetMicroserviceConfigByID before the write: the key the row feeds now.  *)
ReadPrevious(c) ==
    LET r == reqs[c]
    IN  /\ r.pc = "previous"
        /\ IF Exists(r.id)
             THEN reqs' = [reqs EXCEPT
                             ![c].pc = IF r.op = "update" THEN "check" ELSE "exec",
                             ![c].prev = rows[r.id].key]
             ELSE Finish(c)
        /\ UNCHANGED <<pubVars, rows, nextId, started>>

(* Fault: KV first, database second.                                       *)
PublishFirst(c) ==
    LET r == reqs[c]
    IN  /\ r.pc = "check"
        /\ IF r.key \in KnownKey /\ ~KeyTaken(r.key, r.id)
             THEN /\ PublishServiceSettings(c, r.key, r.doc)
                  /\ Goto(c, "publishing")
             ELSE Finish(c) /\ UNCHANGED pubVars
        /\ UNCHANGED <<rows, nextId, started>>

(* checkAppSettingsRefs: a fast path that picks the status code; it holds  *)
(* no lock.                                                                *)
checkAppSettingsRefs(c) ==
    LET r == reqs[c]
    IN  /\ r.pc = "check"
        /\ IF r.key \in KnownKey /\ ~KeyTaken(r.key, r.id)
             THEN Goto(c, "exec")
             ELSE Finish(c)
        /\ UNCHANGED <<pubVars, rows, nextId, started>>

NewRow(c) == [key |-> reqs[c].key, doc |-> reqs[c].doc, at |-> clock]

(* PostgreSQL never gives an id twice; SQLite gives the one after the      *)
(* highest in use, so a deleted row's id can come back.                    *)
FreshId(id) ==
    \/ /\ Sqlite
       /\ id = 1 \/ Exists(id - 1)
       /\ \A j \in RowId : j >= id => ~Exists(j)
       /\ UNCHANGED nextId
    \/ /\ ~Sqlite
       /\ id = nextId
       /\ nextId' = nextId + 1

(* INSERT: the unique constraint decides between two creates that both     *)
(* passed the check.                                                       *)
Insert(c) ==
    /\ reqs[c].pc = "exec"
    /\ reqs[c].op = "create"
    /\ ~KeyTaken(reqs[c].key, 0)
    /\ \E id \in RowId :
          /\ FreshId(id)
          /\ rows' = [rows EXCEPT ![id] = NewRow(c)]

(* Fault: the version the caller sent is not part of the condition.        *)
GuardIgnored(c) == TRUE

(* The row the UPDATE matches: its id and, if the caller opted in, its     *)
(* UPDATED_AT.  PostgreSQL keeps microseconds, so a later version of a row *)
(* has a later UPDATED_AT; SQLite keeps seconds, and two may share one.    *)
Guarded(c) == reqs[c].expected # 0 => rows[reqs[c].id].at = reqs[c].expected

Update(c) ==
    /\ reqs[c].pc = "exec"
    /\ reqs[c].op = "update"
    /\ Exists(reqs[c].id)
    /\ Guarded(c)
    /\ ~KeyTaken(reqs[c].key, reqs[c].id)
    /\ Sqlite \/ rows[reqs[c].id].at < clock
    /\ rows' = [rows EXCEPT ![reqs[c].id] = NewRow(c)]
    /\ UNCHANGED nextId

Delete(c) ==
    /\ reqs[c].pc = "exec"
    /\ reqs[c].op = "delete"
    /\ Exists(reqs[c].id)
    /\ rows' = [rows EXCEPT ![reqs[c].id] = NoRow]
    /\ UNCHANGED nextId

Commit(c) == Insert(c) \/ Update(c) \/ Delete(c)

(* The statement was executed and its answer arrived.  A delete goes on to *)
(* the purge of the key it had read; the others read the row back.         *)
Exec(c) ==
    /\ Commit(c)
    /\ \/ /\ reqs[c].op # "delete"
          /\ Goto(c, "readback")
          /\ UNCHANGED pubVars
       \/ /\ reqs[c].op = "delete"
          /\ DeleteKey(c, BucketServiceSettings, reqs[c].prev)
          /\ Goto(c, "purging")
    /\ UNCHANGED started

(* It matched no row, or the unique constraint refused it: an error        *)
(* answer, nothing written.                                                *)
ExecRefused(c) ==
    LET r == reqs[c]
    IN  /\ r.pc = "exec"
        /\ \/ r.op = "create" /\ KeyTaken(r.key, 0)
           \/ r.op = "delete" /\ ~Exists(r.id)
           \/ r.op = "update" /\ ~Exists(r.id)
           \/ r.op = "update" /\ Exists(r.id) /\ (~Guarded(c) \/ KeyTaken(r.key, r.id))
        /\ Finish(c)
        /\ UNCHANGED <<pubVars, rows, nextId, started>>

(* The read-back: by id after an update, by the natural key after a        *)
(* create.  What it finds is published, and it may be another request's    *)
(* work; if it finds nothing the request fails and nothing is published.   *)
ReadBack(c) ==
    LET r == reqs[c]
        found == {id \in RowId : /\ Exists(id)
                                 /\ IF r.op = "update" THEN id = r.id
                                                       ELSE rows[id].key = r.key}
    IN  /\ r.pc = "readback"
        /\ \/ \E id \in found :
                 /\ PublishServiceSettings(c, rows[id].key, rows[id].doc)
                 /\ reqs' = [reqs EXCEPT ![c].pc = "publishing",
                                         ![c].key = rows[id].key]
           \/ /\ found = {}
              /\ Finish(c)
              /\ UNCHANGED pubVars
        /\ UNCHANGED <<rows, nextId, started>>

(* A failed publish is logged, and the request goes on.                    *)
Dropped(c) == calls[c].pc \notin {"ok", "skipped"}

(* Faults: the key a moved row leaves is not purged; a create is taken for *)
(* a move from nowhere.                                                    *)
MovedIgnored(c) == FALSE
MovedByCreate(c) == reqs[c].prev # reqs[c].key

(* purgeMoved: an update that moved the row purges the key it left.        *)
Moved(c) == reqs[c].op = "update" /\ reqs[c].prev # reqs[c].key

AfterPublish(c) ==
    /\ reqs[c].pc = "publishing"
    /\ Returned(c)
    /\ \/ /\ Moved(c)
          /\ DeleteKey(c, BucketServiceSettings, reqs[c].prev)
          /\ Goto(c, "purging")
       \/ /\ ~Moved(c)
          /\ Taken(c)
          /\ Finish(c)
    /\ UNCHANGED <<rows, nextId, started>>

AfterPurge(c) ==
    /\ reqs[c].pc = "purging"
    /\ Returned(c)
    /\ Taken(c)
    /\ Finish(c)
    /\ UNCHANGED <<rows, nextId, started>>

(* A database call that failed, or whose request was cancelled: the        *)
(* request answers an error and stops there.  A write may have been        *)
(* committed all the same.                                                 *)
DatabaseFails(c) ==
    /\ \/ /\ reqs[c].pc \in {"previous", "check", "exec", "readback"}
          /\ UNCHANGED <<rows, nextId>>
       \/ Commit(c)
    /\ Finish(c)
    /\ UNCHANGED <<pubVars, started>>

(* The process dies: every request in progress is gone.                    *)
Crash ==
    /\ Restart
    /\ reqs' = [c \in Request |-> NoReq]
    /\ UNCHANGED <<rows, nextId, started>>

RequestStep(c) ==
    \/ ReadPrevious(c)
    \/ checkAppSettingsRefs(c)
    \/ Exec(c)
    \/ ExecRefused(c)
    \/ ReadBack(c)
    \/ AfterPublish(c)
    \/ AfterPurge(c)

Arrival(c) ==
    \/ \E k \in Key, d \in Payload : CreateMicroserviceConfig(c, k, d)
    \/ \E id \in RowId, k \in Key, d \in Payload, guarded \in Opting :
          UpdateMicroserviceConfig(c, id, k, d, guarded)
    \/ \E id \in RowId : DeleteMicroserviceConfig(c, id)

(* The publisher's own steps for the call c is waiting on.                 *)
Distribute(c) ==
    \/ Current(c)
    \/ Write(c)
    \/ WriteConflict(c)
    \/ Purge(c)
    \/ ExchangeFails(c)
    \/ ExchangeTimesOut(c)
    \/ Network(c)

SSNext ==
    \/ \E c \in Request : Arrival(c) \/ RequestStep(c) \/ DatabaseFails(c)
    \/ \E c \in Request : Distribute(c) /\ UNCHANGED ssVars
    \/ (EnsureBuckets \/ Tick) /\ UNCHANGED ssVars
    \/ Crash

SSSpec == SSInit /\ [][SSNext]_vars

-----------------------------------------------------------------------------
(* Properties *)

(* Type correctness of the rows and the requests.                          *)
SSTypeOK ==
    /\ TypeOK
    /\ rows \in [RowId -> Row \cup {NoRow}]
    /\ reqs \in [Request -> Req]
    /\ nextId \in Nat
    /\ started \in Nat

(* What the database says about a key, and what consumers are served.      *)
Backing(k) == {id \in RowId : Exists(id) /\ rows[id].key = k}

Mirrored(k) ==
    IF Backing(k) = {}
      THEN ~Live(kv[BucketServiceSettings], k)
      ELSE \E id \in Backing(k) :
              kv[BucketServiceSettings].entry[k].payload = rows[id].doc
=============================================================================
