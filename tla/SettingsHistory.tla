--------------------------- MODULE SettingsHistory ---------------------------
(***************************************************************************)
(* The requests of ServiceSettings, watched: history variables that record *)
(* what was committed, which keys were hit by a failure or by two requests *)
(* at once, and whose reading of a row is out of date.  They observe the   *)
(* steps of ServiceSettings and constrain none.                            *)
(***************************************************************************)
EXTENDS ServiceSettings, TLC

VARIABLES
    committed,   \* every key and document that was ever committed
    faulted,     \* keys of a request that stopped short after its commit
    contested,   \* keys on which two requests overlapped
    outdated     \* outdated[c]: the row c named changed since c arrived

histVars == <<committed, faulted, contested, outdated>>
watchedVars == <<vars, histVars>>

WatchedInit ==
    /\ SSInit
    /\ committed = {}
    /\ faulted = {}
    /\ contested = {}
    /\ outdated = [c \in Request |-> FALSE]

Touched(c) == {reqs[c].key, reqs[c].prev} \ {NoKey}

Commits(c) == reqs[c].pc = "exec" /\ reqs'[c].pc # "exec" /\ rows' # rows

(* A commit of c falls into the middle of d: d has yet to publish or purge *)
(* one of the keys c is about, or has read the row c changes.              *)
Collides(c, d) ==
    /\ d # c
    /\ \/ /\ reqs[d].pc \in AfterExec
          /\ Touched(c) \cap Touched(d) # {}
       \/ /\ reqs[d].pc \notin {"idle", "previous"}
          /\ reqs[d].id = reqs[c].id
          /\ reqs[c].id # 0

(* The request ends, or goes on to its purge, with its key not distributed.*)
StopsShort(c) ==
    /\ reqs'[c].pc # reqs[c].pc
    /\ \/ Commits(c) /\ reqs'[c].pc = "idle"
       \/ reqs[c].pc = "readback" /\ reqs'[c].pc = "idle"
       \/ reqs[c].pc \in {"publishing", "purging"} /\ Dropped(c)
       \/ reqs[c].pc = "publishing" /\ reqs'[c].pc = "idle" /\ Moved(c)

Watch ==
    /\ committed' = committed \cup
         {[key |-> rows'[id].key, doc |-> rows'[id].doc] :
            id \in {j \in RowId : rows'[j] # NoRow}}
    /\ faulted' = faulted \cup
         UNION {Touched(c) : c \in {d \in Request : StopsShort(d)}}
    /\ contested' = contested \cup
         UNION {Touched(p[1]) \cup Touched(p[2]) :
                  p \in {q \in Request \X Request :
                            Commits(q[1]) /\ Collides(q[1], q[2])}}
    /\ outdated' = [c \in Request |->
         /\ reqs'[c].expected # 0
         /\ reqs[c].pc # "idle"
         /\ outdated[c] \/ rows'[reqs[c].id] # rows[reqs[c].id]]

WatchedSpec == WatchedInit /\ [][SSNext /\ Watch]_watchedVars

(* Requests are interchangeable: no definition tells one from another.     *)
RequestSymmetry == Permutations(Request)

-----------------------------------------------------------------------------
(* Properties *)

(* Consumers are never served a document under a key for which it was not  *)
(* committed first, whatever fails or overlaps: the database is written    *)
(* before KV, and only what was read back from it is published.            *)
PublishedWasCommitted ==
    \A k \in Key :
       Live(kv[BucketServiceSettings], k)
       => [key |-> k, doc |-> kv[BucketServiceSettings].entry[k].payload] \in committed

(* Between requests KV says what the database says, except on keys where   *)
(* two requests overlapped or where a step after the commit failed: the    *)
(* write-through, with the purge of the key a moved row leaves and of the  *)
(* key a deleted row fed, leaves no drift of its own.  On PostgreSQL: where*)
(* a deleted row's id comes back, a late delete can remove the row that has*)
(* it now and purge the key of the one it had read.                        *)
DriftHasACause ==
    \A k \in Key \ (faulted \cup contested) :
       (\A c \in Request : reqs[c].pc \in AfterExec => k \notin Touched(c))
       => Mirrored(k)

(* An update that names the UPDATED_AT it read never overwrites a version  *)
(* of the row its caller had not seen (README: the write answers 409), as  *)
(* long as no two versions of a row share an UPDATED_AT (PostgreSQL).      *)
GuardedUpdateSawTheRow ==
    [][\A c \in Request :
         reqs[c].expected # 0 /\ Commits(c) => ~outdated[c]]_watchedVars

(* The comment on publish: two admins updating the same key never leave KV *)
(* holding the older of the two writes with both requests answered 200.    *)
(* No step failed on the key, nothing is in progress, the key is live and  *)
(* a row feeds it: then KV holds what the row holds.                       *)
NewerUpdateWins ==
    (\A c \in Request : Idle(c))
    => \A k \in Key \ faulted :
          Live(kv[BucketServiceSettings], k) /\ Backing(k) # {} => Mirrored(k)
=============================================================================
