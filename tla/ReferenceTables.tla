--------------------------- MODULE ReferenceTables ---------------------------
(***************************************************************************)
(* The database behind flags and translations, and the requests on the two *)
(* tables every other row refers to: CONFIG_ENVIRONMENTS and               *)
(* CONFIG_MICROSERVICES (internal/servicesettings).                        *)
(*                                                                         *)
(* A key stands for an environment: there is one flag name and one pair of *)
(* microservice and locale, so an environment names at most one entry of   *)
(* each bucket.  Each statement is one step; only DeleteFlag uses a        *)
(* transaction.  The database is PostgreSQL: it enforces its constraints   *)
(* and never gives an id twice.                                            *)
(***************************************************************************)
EXTENDS Publisher, FiniteSets

CONSTANTS
    Request,       \* the callers that are admin requests
    Service,       \* the microservice
    FlagId,        \* ids a flag can have
    RowId,         \* ids a flag value or a bundle can have
    NoKey,         \* the key of no row
    MaxRequests,   \* bound on the requests started
    MaxFaults      \* bound on the steps that fail

ASSUME CatalogRequestAssumption == Request \subseteq Caller
ASSUME CatalogIdAssumption == FlagId \subseteq Nat \ {0} /\ RowId \subseteq Nat \ {0}
ASSUME CatalogKeyAssumption == NoKey \notin Key /\ Service \notin Key
ASSUME CatalogBoundAssumption == MaxRequests \in Nat /\ MaxFaults \in Nat

VARIABLES
    db,            \* the tables
    reqs,          \* reqs[c]: the request c is serving
    started,       \* number of requests started
    faults         \* number of failed steps

catVars == <<db, reqs, started, faults>>

Ref == Key \cup {Service}

NoRow == [key |-> NoKey, flag |-> 0, doc |-> NoPayload]

(* flag is the FLAG_ID of a flag value, 0 in a bundle.                     *)
Row == [key : Key, flag : FlagId \cup {0}, doc : Payload]

(* gone: references deleted before; flagSeq and rowSeq: the identities.    *)
Database == [refs : SUBSET Ref, gone : SUBSET Ref, flags : SUBSET FlagId,
             flagSeq : Nat, rowSeq : Nat,
             values  : [RowId -> Row \cup {NoRow}],
             bundles : [RowId -> Row \cup {NoRow}]]

Rows(table) == {id \in RowId : table[id] # NoRow}

Keys(table) == {table[id].key : id \in Rows(table)}

(* The foreign keys of a flag value and of a bundle.                       *)
ValueRefs(d, row) == row.key \in d.refs /\ row.flag \in d.flags
BundleRefs(d, row) == {row.key, Service} \subseteq d.refs

-----------------------------------------------------------------------------
(* A request: what it asks for, and what it remembers between statements:  *)
(* prev is the key a bundle fed before, purge the keys left to purge.      *)

NoReq == [op |-> "none", pc |-> "idle", id |-> 0, key |-> NoKey,
          doc |-> NoPayload, prev |-> NoKey, purge |-> {}]

PC == {"idle", "previous", "check", "exec", "readback", "publishing", "purging"}

Op == {"none", "createRef", "deleteRef", "createFlag", "deleteFlag",
       "createValue", "updateValue", "deleteValue",
       "createBundle", "updateBundle", "deleteBundle"}

Req == [op : Op, pc : PC, id : RowId \cup FlagId \cup {0}, key : Ref \cup {NoKey},
        doc : Payload \cup {NoPayload}, prev : Key \cup {NoKey}, purge : SUBSET Key]

At(c, op, pc) == reqs[c].op = op /\ reqs[c].pc = pc

Goto(c, pc) == reqs' = [reqs EXCEPT ![c].pc = pc]

Finish(c) == reqs' = [reqs EXCEPT ![c] = NoReq]

Accept(c, r) ==
    /\ reqs[c] = NoReq
    /\ started < MaxRequests
    /\ started' = started + 1
    /\ reqs' = [reqs EXCEPT ![c] = r]
    /\ UNCHANGED <<pubVars, db, faults>>

(* A statement that reads: go on if ok, answer an error otherwise.         *)
Check(c, ok, pc) ==
    /\ IF ok THEN Goto(c, pc) ELSE Finish(c)
    /\ UNCHANGED <<pubVars, db, started, faults>>

-----------------------------------------------------------------------------
(* Creating and deleting a reference row.  A name that was deleted is not  *)
(* created again in these bounds.                                          *)

CreateReference(c, ref) ==
    /\ ref \notin db.gone
    /\ Accept(c, [NoReq EXCEPT !.op = "createRef", !.pc = "check", !.key = ref])

DeleteReference(c, ref) ==
    Accept(c, [NoReq EXCEPT !.op = "deleteRef", !.pc = "check", !.key = ref])

(* The rows that refer to ref: flag values and bundles to an environment,  *)
(* bundles to the microservice.                                            *)
InUse(ref) == \/ ref \in Keys(db.values) \cup Keys(db.bundles)
              \/ ref = Service /\ Rows(db.bundles) # {}

NameFree(c) == reqs[c].key \notin db.refs

CheckReference(c) ==
    \/ At(c, "createRef", "check") /\ Check(c, NameFree(c), "exec")
    \/ At(c, "deleteRef", "check") /\ Check(c, ~InUse(reqs[c].key), "exec")

(* The INSERT: the unique constraint decides between two creates.          *)
InsertReference(c) ==
    /\ At(c, "createRef", "exec")
    /\ NameFree(c)
    /\ reqs[c].key \notin db.gone
    /\ db' = [db EXCEPT !.refs = @ \cup {reqs[c].key}]

(* Fault: the rows that refer to the reference are not looked at again.    *)
UnreferencedAnyway(c) == TRUE

(* The foreign keys refuse the DELETE of a reference that came into use    *)
(* after the check.                                                        *)
Unreferenced(c) == ~InUse(reqs[c].key)

RemoveReference(c) ==
    /\ At(c, "deleteRef", "exec")
    /\ reqs[c].key \in db.refs
    /\ Unreferenced(c)
    /\ db' = [db EXCEPT !.refs = @ \ {reqs[c].key}, !.gone = @ \cup {reqs[c].key}]

ReferenceCommit(c) == InsertReference(c) \/ RemoveReference(c)

(* Reference rows have no KV entry: the request ends here.                 *)
ExecReference(c) ==
    /\ ReferenceCommit(c)
    /\ Finish(c)
    /\ UNCHANGED <<pubVars, started, faults>>

(* The constraints refused it, or it matched no row.                       *)
ReferenceRefused(c) ==
    /\ \/ At(c, "createRef", "exec") /\ (~NameFree(c) \/ reqs[c].key \in db.gone)
       \/ At(c, "deleteRef", "exec") /\ (reqs[c].key \notin db.refs \/ ~Unreferenced(c))
    /\ Finish(c)
    /\ UNCHANGED <<pubVars, db, started, faults>>

ReferenceStep(c) == CheckReference(c) \/ ExecReference(c) \/ ReferenceRefused(c)

-----------------------------------------------------------------------------
(* What the write-through of flags and of bundles has in common.           *)

(* The purges of a request, one key after the other; a failed one is       *)
(* logged and the next is tried.                                           *)
PurgeNext(c, bucket) ==
    /\ reqs[c].pc = "purging"
    /\ calls[c].pc = "idle"
    /\ \E k \in reqs[c].purge :
          /\ DeleteKey(c, bucket, k)
          /\ reqs' = [reqs EXCEPT ![c].purge = @ \ {k}]
    /\ UNCHANGED <<db, started, faults>>

PurgeDone(c) ==
    /\ reqs[c].pc = "purging"
    /\ Taken(c)
    /\ UNCHANGED catVars

PurgesDone(c) ==
    /\ reqs[c].pc = "purging"
    /\ calls[c].pc = "idle"
    /\ reqs[c].purge = {}
    /\ Finish(c)
    /\ UNCHANGED <<pubVars, db, started, faults>>

(* The publish returned; an update of a bundle that moved goes on to purge.*)
PublishDone(c) ==
    /\ reqs[c].pc = "publishing"
    /\ Returned(c)
    /\ Taken(c)
    /\ IF reqs[c].purge = {} THEN Finish(c) ELSE Goto(c, "purging")
    /\ UNCHANGED <<db, started, faults>>
=============================================================================
