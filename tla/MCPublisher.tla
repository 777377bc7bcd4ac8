----------------------------- MODULE MCPublisher -----------------------------
(***************************************************************************)
(* Publisher for TLC, over the calls of one bucket at a time: a bucket for *)
(* flags, or one for documents.  A call reads and writes one key of one    *)
(* bucket, so what calls on two of them do side by side adds no states of  *)
(* interest, only their product.  The other bucket starts with all the     *)
(* writes MaxRevision lets it take behind it, the last one a purge, and no *)
(* call starts on it.  A bucket for flags has one such write behind it, a  *)
(* bucket for documents none; the clock stands still for documents, which  *)
(* carry no stamp.                                                         *)
(***************************************************************************)
EXTENDS Publisher, TLC

WritesBehind(b, chosen) ==
    IF b # chosen THEN MaxRevision
    ELSE IF b = BucketFlags THEN 1 ELSE 0

StartOn(chosen) ==
    /\ kv = [b \in Bucket |-> [EmptyBucket EXCEPT !.seq = WritesBehind(b, chosen)]]
    /\ provisioned \in BOOLEAN
    /\ clock = IF chosen = BucketFlags THEN 1 ELSE MaxClock
    /\ calls = [c \in Caller |-> NoCall]
    /\ late = [c \in Caller |-> NoMessage]

OneBucketSpec == (\E b \in Bucket : StartOn(b)) /\ [][Next]_pubVars

(* No definition tells one caller, or one valid payload, from another.     *)
Symmetry == Permutations(Caller) \cup Permutations(Payload \ {EmptyDoc})
=============================================================================
