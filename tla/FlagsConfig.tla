----------------------------- MODULE FlagsConfig -----------------------------
(***************************************************************************)
(* internal/flagsconfig: flags and their values per environment.  Creating *)
(* and updating a value writes it through to the FLAGS bucket; deleting a  *)
(* flag deletes its values in one transaction and purges their keys.       *)
(***************************************************************************)
EXTENDS ReferenceTables

checkValue(v) == v # EmptyDoc

CreateFlag(c) ==
    Accept(c, [NoReq EXCEPT !.op = "createFlag", !.pc = "check"])

DeleteFlag(c, f) ==
    Accept(c, [NoReq EXCEPT !.op = "deleteFlag", !.pc = "previous", !.id = f])

CreateFlagValue(c, k, f, v) ==
    /\ checkValue(v)
    /\ Accept(c, [NoReq EXCEPT !.op = "createValue", !.pc = "check",
                               !.key = k, !.id = f, !.doc = v])

UpdateFlagValue(c, id, v) ==
    /\ checkValue(v)
    /\ Accept(c, [NoReq EXCEPT !.op = "updateValue", !.pc = "exec",
                               !.id = id, !.doc = v])

DeleteFlagValue(c, id) ==
    Accept(c, [NoReq EXCEPT !.op = "deleteValue", !.pc = "previous", !.id = id])

-----------------------------------------------------------------------------
(* The flag itself.  There is one flag name, so a live flag takes it.      *)

FlagKeyFree == db.flags = {}

CheckFlag(c) ==
    At(c, "createFlag", "check") /\ Check(c, FlagKeyFree, "exec")

(* A flag on its own feeds no key: nothing is published.                   *)
InsertFlag(c) ==
    /\ At(c, "createFlag", "exec")
    /\ FlagKeyFree
    /\ db.flagSeq \in FlagId
    /\ db' = [db EXCEPT !.flags = {db.flagSeq}, !.flagSeq = @ + 1]

(* The rows of a flag's values.                                            *)
ValuesOf(f) == {id \in Rows(db.values) : db.values[id].flag = f}

(* DeleteFlag's transaction, first half: the flag and the environments of  *)
(* its values, which are the keys to purge later.                          *)
ScanDeletedValues(c) ==
    /\ At(c, "deleteFlag", "previous")
    /\ IF reqs[c].id \in db.flags
         THEN reqs' = [reqs EXCEPT ![c].pc = "exec",
                         ![c].purge = {db.values[id].key : id \in ValuesOf(reqs[c].id)}]
         ELSE Finish(c)
    /\ UNCHANGED <<pubVars, db, started, faults>>

(* Second half: both DELETEs and the commit.  A value inserted since the   *)
(* scan is deleted too; one inserted between the two DELETEs makes the     *)
(* second fail on its foreign key and rolls both back (DatabaseFails).  If *)
(* the flag is gone by now they match nothing, and the keys are purged all *)
(* the same.                                                               *)
DropFlag(c) ==
    /\ At(c, "deleteFlag", "exec")
    /\ db' = [db EXCEPT !.flags = @ \ {reqs[c].id},
                        !.values = [id \in RowId |->
                           IF id \in ValuesOf(reqs[c].id) THEN NoRow ELSE @[id]]]

-----------------------------------------------------------------------------
(* A value of a flag.                                                      *)

ValueFree(k, f) == \A id \in ValuesOf(f) : db.values[id].key # k

NewValue(c) == [key |-> reqs[c].key, flag |-> reqs[c].id, doc |-> reqs[c].doc]

(* checkFlagValueRefs picks the status code and holds no lock.             *)
checkFlagValueRefs(c) ==
    /\ At(c, "createValue", "check")
    /\ Check(c, /\ ValueRefs(db, NewValue(c))
                /\ ValueFree(reqs[c].key, reqs[c].id), "exec")

(* The constraints that decide at the INSERT.                              *)
ValueAccepted(c) == ValueRefs(db, NewValue(c)) /\ ValueFree(reqs[c].key, reqs[c].id)

InsertValue(c) ==
    /\ At(c, "createValue", "exec")
    /\ ValueAccepted(c)
    /\ db.rowSeq \in RowId
    /\ db' = [db EXCEPT !.values[db.rowSeq] = NewValue(c), !.rowSeq = @ + 1]

(* VALUE and ENABLED only: an update never moves a value.                  *)
SetValue(c) ==
    /\ At(c, "updateValue", "exec")
    /\ reqs[c].id \in Rows(db.values)
    /\ db' = [db EXCEPT !.values[reqs[c].id].doc = reqs[c].doc]

ReadDeletedValue(c) ==
    /\ At(c, "deleteValue", "previous")
    /\ IF reqs[c].id \in Rows(db.values)
         THEN reqs' = [reqs EXCEPT ![c].pc = "exec",
                                   ![c].purge = {db.values[reqs[c].id].key}]
         ELSE Finish(c)
    /\ UNCHANGED <<pubVars, db, started, faults>>

RemoveValue(c) ==
    /\ At(c, "deleteValue", "exec")
    /\ reqs[c].id \in Rows(db.values)
    /\ db' = [db EXCEPT !.values[reqs[c].id] = NoRow]

FlagCommit(c) ==
    InsertFlag(c) \/ DropFlag(c) \/ InsertValue(c) \/ SetValue(c) \/ RemoveValue(c)

(* Fault: only one of the removed keys is purged.                          *)
FlagsCommittedPurgeOne(c) ==
    /\ FlagCommit(c)
    /\ IF reqs[c].op \in {"deleteFlag", "deleteValue"}
         THEN reqs' = [reqs EXCEPT ![c].pc = "purging",
                         ![c].purge = {k \in @ : k = CHOOSE j \in @ : TRUE}]
         ELSE IF reqs[c].op = "createFlag" THEN Finish(c) ELSE Goto(c, "readback")
    /\ UNCHANGED <<pubVars, started, faults>>

(* Deletes go on to purge the keys they noted, the writes of a value read  *)
(* it back.                                                                *)
FlagsCommitted(c) ==
    /\ FlagCommit(c)
    /\ CASE reqs[c].op = "createFlag"                     -> Finish(c)
         [] reqs[c].op \in {"deleteFlag", "deleteValue"}   -> Goto(c, "purging")
         [] reqs[c].op \in {"createValue", "updateValue"}  -> Goto(c, "readback")
    /\ UNCHANGED <<pubVars, started, faults>>

(* No row matched, a constraint refused, or the UPDATED_AT the caller named*)
(* is not the row's: which one a caller names is left open.                *)
FlagRefused(c) ==
    /\ \/ At(c, "createFlag", "exec") /\ ~FlagKeyFree
       \/ At(c, "createValue", "exec") /\ ~ValueAccepted(c)
       \/ At(c, "updateValue", "exec")
       \/ At(c, "deleteValue", "exec") /\ reqs[c].id \notin Rows(db.values)
    /\ Finish(c)
    /\ UNCHANGED <<pubVars, db, started, faults>>

(* getFlagValueByEnvAndFlag after a create.                                *)
CreatedValue(c) ==
    {id \in ValuesOf(reqs[c].id) : db.values[id].key = reqs[c].key}

(* getFlagValueWithKey after an update.                                    *)
UpdatedValue(c) == {reqs[c].id} \cap Rows(db.values)

(* The row is read back and published; if it is gone the request fails.    *)
PublishValue(c) ==
    /\ reqs[c].op \in {"createValue", "updateValue"}
    /\ reqs[c].pc = "readback"
    /\ LET found == IF reqs[c].op = "createValue" THEN CreatedValue(c) ELSE UpdatedValue(c)
       IN  \/ \E id \in found :
                 /\ PublishFlag(c, db.values[id].key, db.values[id].doc)
                 /\ reqs' = [reqs EXCEPT ![c].pc = "publishing",
                                         ![c].key = db.values[id].key]
           \/ found = {} /\ Finish(c) /\ UNCHANGED pubVars
    /\ UNCHANGED <<db, started, faults>>

PurgeFlag(c) ==
    /\ reqs[c].op \in {"deleteFlag", "deleteValue"}
    /\ PurgeNext(c, BucketFlags)

FlagStep(c) ==
    \/ CheckFlag(c) \/ ScanDeletedValues(c) \/ ReadDeletedValue(c)
    \/ checkFlagValueRefs(c) \/ FlagsCommitted(c) \/ FlagRefused(c)
    \/ PublishValue(c) \/ PurgeFlag(c)

FlagArrival(c) ==
    \/ CreateFlag(c)
    \/ \E f \in FlagId : DeleteFlag(c, f)
    \/ \E k \in Key, f \in FlagId, v \in Payload : CreateFlagValue(c, k, f, v)
    \/ \E id \in RowId, v \in Payload : UpdateFlagValue(c, id, v)
    \/ \E id \in RowId : DeleteFlagValue(c, id)
=============================================================================
