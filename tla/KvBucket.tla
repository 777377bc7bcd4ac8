------------------------------ MODULE KvBucket ------------------------------
(***************************************************************************)
(* A JetStream key-value bucket as the messaging package uses it: Get,     *)
(* Create, Update with an expected revision, Purge and a listing of the    *)
(* live keys.  The server is not part of this repository; the operators    *)
(* say what internal/messaging relies on.                                  *)
(*                                                                         *)
(* A bucket numbers its writes from one sequence, and a key's revision is  *)
(* the number of the write that put its value there.  A purge leaves a     *)
(* marker that no call of the package can see (Get answers "not found",    *)
(* Create succeeds over it, the listings ignore it), so a purged key and a *)
(* key never written are the same state: revision 0.                       *)
(***************************************************************************)
EXTENDS Integers

CONSTANTS
    Key,         \* the keys of a bucket
    Payload,     \* what a value says: a flag state, a settings tree, a bundle
    NoPayload    \* the value of a key that is not there

ASSUME PayloadAssumption == NoPayload \notin Payload
ASSUME KeyAssumption == Key # {}

(* A value: its payload and the updatedAt it carries (flags only; 0 for    *)
(* the documents, which carry none).                                       *)
Entry == [payload : Payload \cup {NoPayload}, stamp : Nat, revision : Nat]

BucketState == [seq : Nat, entry : [Key -> Entry]]

Absent == [payload |-> NoPayload, stamp |-> 0, revision |-> 0]

EmptyBucket == [seq |-> 0, entry |-> [k \in Key |-> Absent]]

Live(bucket, k) == bucket.entry[k].revision # 0

LiveKeys(bucket) == {k \in Key : Live(bucket, k)}

(* Create is conditioned on revision 0, Update on the revision read.       *)
Matches(bucket, k, revision) == bucket.entry[k].revision = revision

KvPut(bucket, k, payload, stamp) ==
    [seq   |-> bucket.seq + 1,
     entry |-> [bucket.entry EXCEPT
                  ![k] = [payload  |-> payload,
                          stamp    |-> stamp,
                          revision |-> bucket.seq + 1]]]

KvPurge(bucket, k) ==
    [seq   |-> bucket.seq + 1,
     entry |-> [bucket.entry EXCEPT ![k] = Absent]]
=============================================================================
