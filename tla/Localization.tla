---------------------------- MODULE Localization ----------------------------
(***************************************************************************)
(* internal/localization: translation bundles, one per environment,        *)
(* microservice and locale.  An update may move a bundle to another key;   *)
(* the key it leaves is purged after the new one is published.             *)
(***************************************************************************)
EXTENDS ReferenceTables

checkBundle(doc) == doc # EmptyDoc

CreateLocalization(c, k, doc) ==
    /\ checkBundle(doc)
    /\ Accept(c, [NoReq EXCEPT !.op = "createBundle", !.pc = "check",
                               !.key = k, !.doc = doc])

UpdateLocalization(c, id, k, doc) ==
    /\ checkBundle(doc)
    /\ Accept(c, [NoReq EXCEPT !.op = "updateBundle", !.pc = "previous",
                               !.id = id, !.key = k, !.doc = doc])

DeleteLocalization(c, id) ==
    Accept(c, [NoReq EXCEPT !.op = "deleteBundle", !.pc = "previous", !.id = id])

-----------------------------------------------------------------------------
(* The key of the row before the write: an update compares it with the new *)
(* one, a delete purges it.                                                *)
PreviousBundle(c) ==
    /\ reqs[c].op \in {"updateBundle", "deleteBundle"}
    /\ reqs[c].pc = "previous"
    /\ IF reqs[c].id \in Rows(db.bundles)
         THEN reqs' = [reqs EXCEPT
                ![c].pc = IF reqs[c].op = "updateBundle" THEN "check" ELSE "exec",
                ![c].prev = db.bundles[reqs[c].id].key]
         ELSE Finish(c)
    /\ UNCHANGED <<pubVars, db, started, faults>>

(* Another row with the key the request wants; id is 0 in a create.        *)
KeyTaken(c) == \E id \in Rows(db.bundles) \ {reqs[c].id} :
                  db.bundles[id].key = reqs[c].key

NewBundle(c) == [key |-> reqs[c].key, flag |-> 0, doc |-> reqs[c].doc]

(* checkRefs picks the status code and holds no lock.                      *)
checkRefs(c) ==
    /\ reqs[c].op \in {"createBundle", "updateBundle"}
    /\ reqs[c].pc = "check"
    /\ Check(c, BundleRefs(db, NewBundle(c)) /\ ~KeyTaken(c), "exec")

(* The constraints that decide at the statement.                           *)
BundleAccepted(c) == BundleRefs(db, NewBundle(c)) /\ ~KeyTaken(c)

InsertBundle(c) ==
    /\ At(c, "createBundle", "exec")
    /\ BundleAccepted(c)
    /\ db.rowSeq \in RowId
    /\ db' = [db EXCEPT !.bundles[db.rowSeq] = NewBundle(c), !.rowSeq = @ + 1]

SetBundle(c) ==
    /\ At(c, "updateBundle", "exec")
    /\ reqs[c].id \in Rows(db.bundles)
    /\ BundleAccepted(c)
    /\ db' = [db EXCEPT !.bundles[reqs[c].id] = NewBundle(c)]

RemoveBundle(c) ==
    /\ At(c, "deleteBundle", "exec")
    /\ reqs[c].id \in Rows(db.bundles)
    /\ db' = [db EXCEPT !.bundles[reqs[c].id] = NoRow]

BundleCommit(c) == InsertBundle(c) \/ SetBundle(c) \/ RemoveBundle(c)

BundlesCommitted(c) ==
    /\ BundleCommit(c)
    /\ IF reqs[c].op = "deleteBundle"
         THEN reqs' = [reqs EXCEPT ![c].pc = "purging", ![c].purge = {reqs[c].prev}]
         ELSE Goto(c, "readback")
    /\ UNCHANGED <<pubVars, started, faults>>

(* No row matched, a constraint refused, or the UPDATED_AT the caller named*)
(* is not the row's: which one a caller names is left open.                *)
BundleRefused(c) ==
    /\ reqs[c].pc = "exec"
    /\ \/ reqs[c].op = "createBundle" /\ ~BundleAccepted(c)
       \/ reqs[c].op = "updateBundle"
       \/ reqs[c].op = "deleteBundle" /\ reqs[c].id \notin Rows(db.bundles)
    /\ Finish(c)
    /\ UNCHANGED <<pubVars, db, started, faults>>

-----------------------------------------------------------------------------
(* A create reads back by the key, an update by the id.                    *)
WrittenBundle(c) ==
    IF reqs[c].op = "createBundle"
      THEN {id \in Rows(db.bundles) : db.bundles[id].key = reqs[c].key}
      ELSE {reqs[c].id} \cap Rows(db.bundles)

(* Fault: a create, which has no previous row, is taken for a move.        *)
MovedFromNowhere(c, key) == {reqs[c].prev} \ {key}

(* purgeMoved: the key left behind, if the row read back has another one.  *)
Moved(c, key) == {reqs[c].prev} \ {key, NoKey}

(* publish, then purgeMoved; a row gone by the read-back fails the request.*)
PublishBundle(c) ==
    /\ reqs[c].op \in {"createBundle", "updateBundle"}
    /\ reqs[c].pc = "readback"
    /\ \/ \E id \in WrittenBundle(c) :
             LET row == db.bundles[id]
             IN  /\ PublishDocument(c, BucketLocalization, row.key, row.doc)
                 /\ reqs' = [reqs EXCEPT ![c].pc = "publishing", ![c].key = row.key,
                                         ![c].purge = Moved(c, row.key)]
       \/ WrittenBundle(c) = {} /\ Finish(c) /\ UNCHANGED pubVars
    /\ UNCHANGED <<db, started, faults>>

PurgeBundle(c) ==
    /\ reqs[c].op \in {"updateBundle", "deleteBundle"}
    /\ PurgeNext(c, BucketLocalization)

BundleStep(c) ==
    \/ PreviousBundle(c) \/ checkRefs(c)
    \/ BundlesCommitted(c) \/ BundleRefused(c)
    \/ PublishBundle(c) \/ PurgeBundle(c)

BundleArrival(c) ==
    \/ \E k \in Key, doc \in Payload : CreateLocalization(c, k, doc)
    \/ \E id \in RowId, k \in Key, doc \in Payload : UpdateLocalization(c, id, k, doc)
    \/ \E id \in RowId : DeleteLocalization(c, id)
=============================================================================
