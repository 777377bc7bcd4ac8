---------------------------- MODULE ClientProofs ----------------------------
(***************************************************************************)
(* Proofs about ConfigClient: the consumer library, for every set of       *)
(* items, every kind of fallback and any number of commits and faults; and *)
(* about TestConsole: the hub, what the console says of itself, and the    *)
(* policy of its proxy, for any number of browsers and any size of their   *)
(* buffers.                                                                *)
(***************************************************************************)
EXTENDS TestConsole, FiniteSetTheorems, SequenceTheorems, WellFoundedInduction, TLAPS

Entry == [item : Item \cup {"end"}, value : 0..MaxCommits]

Live(b) == sub[b] \in {"draining", "running"}

WarmingUp == client.pc \in {"idle", "connect", "open", "drain"}

Hydrating == client.pc \in {"hydrate", "fetch", "store"}

-----------------------------------------------------------------------------
(* The inductive invariant, in parts.                                      *)

(* Every write of a bucket has a revision of its own.                      *)
Revisions ==
    /\ \A i \in Item : kv[i].revision = 0 => kv[i].value = 0
    /\ \A i, j \in Item : i # j /\ kv[i].revision # 0 => kv[i].revision # kv[j].revision

(* A watcher is sent only what it subscribed to and what was written.      *)
Subscribed ==
    \A b \in Buckets : \A n \in DOMAIN queue[b] :
       LET e == queue[b][n]
       IN  e.item # "end" => e.item \in Watched(b) /\ kv[e.item].revision # 0

(* NothingIsLost, from the moment a watcher is opened and without CHOOSE:  *)
(* the last entry of i on its way, or the cache when there is none, is     *)
(* what KV holds.                                                          *)
Shows(i) ==
    /\ \A n \in Pending(i) :
          (\A m \in Pending(i) : m <= n) => queue[BucketOf(i)][n].value = kv[i].value
    /\ Pending(i) = {} => cache[i].from = "http" \/ cache[i].value = kv[i].value

OnItsWay == \A i \in Item : Live(BucketOf(i)) /\ inScope(i) => Shows(i)

(* Nobody has written what a watcher not yet opened will deliver.          *)
Untouched ==
    WarmingUp => \A i \in Item : sub[BucketOf(i)] = "none" => cache[i] = NoEntry

(* Which watchers there are when New is where.                             *)
Stages ==
    /\ client.pc \in {"idle", "connect"} =>
         client.conn = "none" /\ client.at = 1 /\ \A m \in 1..3 : sub[Watches[m]] = "none"
    /\ client.pc = "open" => \A m \in 1..3 :
         sub[Watches[m]] = IF m < client.at THEN "running" ELSE "none"
    /\ client.pc = "drain" => \A m \in 1..3 :
         sub[Watches[m]] = IF m < client.at THEN "running"
                           ELSE IF m = client.at THEN "draining" ELSE "none"
    /\ client.pc = "warm" => client.watch = TRUE
    /\ client.watch = TRUE => \A m \in 1..3 : sub[Watches[m]] = "running"
    /\ \A m \in 1..3 : sub[Watches[m]] = "draining" => client.pc = "drain"

(* What New has recorded by then.                                          *)
Recorded ==
    /\ client.watch = TRUE => client.pc \in {"warm", "hydrate", "fetch", "store", "ready"}
    /\ WarmingUp \/ client.pc = "warm" => hyd.refused = FALSE
    /\ Hydrating => /\ hyd.errs <= hyd.attempted
                    /\ hyd.cold = TRUE <=> client.watch = FALSE
                    /\ client.watch = FALSE => /\ client.lastErr # "none" /\ client.conn # "open"
                                               /\ \A m \in 1..3 : ~Live(Watches[m])

DataInv == Revisions /\ Subscribed /\ OnItsWay /\ CacheStaysInScope

ControlInv == Stages /\ Recorded /\ HydrationIsHonest /\ NothingLeftOpen

ClientInv == CCTypeOK /\ DataInv /\ Untouched /\ ControlInv

-----------------------------------------------------------------------------
(* Arithmetic and sequences.                                               *)

LEMMA LeastNatural ==
  ASSUME NEW T \in SUBSET Nat, T # {}
  PROVE  \E x \in T : \A y \in T : x <= y
  <1>1. PICK x \in T : \A y \in T : <<y, x>> \notin OpToRel(<, Nat)
    BY NatLessThanWellFounded, WFMin, Zenon
  <1>2. ASSUME NEW y \in T PROVE x <= y
    <2> DEFINE p == <<y, x>>
    <2>1. p \in Nat \X Nat /\ p[1] = y /\ p[2] = x
      OBVIOUS
    <2>2. p \notin OpToRel(<, Nat)
      BY <1>1, Zenon
    <2> HIDE DEF p
    <2>3. ~(p[1] < p[2])
      BY <2>1, <2>2, Zenon DEF OpToRel
    <2>4. QED
      BY <2>1, <2>3
  <1>3. QED
    BY <1>2

(* A set of positions has a last one.                                      *)
LEMMA LastPosition ==
  ASSUME NEW k \in Nat, NEW S \in SUBSET (1..k), S # {}
  PROVE  \E x \in S : \A y \in S : y <= x
  <1> DEFINE T == {n \in Nat : k - n \in S}
  <1>1. PICK s : s \in S
    OBVIOUS
  <1>2. k - s \in T
    BY <1>1
  <1>3. PICK x \in T : \A y \in T : x <= y
    <2> HIDE DEF T
    <2>1. T \in SUBSET Nat
      BY DEF T
    <2>2. QED
      BY <1>2, <2>1, LeastNatural
  <1>4. ASSUME NEW y \in S PROVE y <= k - x
    <2>1. k - y \in T /\ x \in Nat /\ y \in 1..k
      OBVIOUS
    <2>2. x <= k - y
      BY <1>3, <2>1
    <2>3. QED
      BY <2>1, <2>2
  <1>5. QED
    BY <1>3, <1>4

LEMMA BucketsAre ==
  /\ Buckets = {"FLAGS", "SERVICESETTINGS", "LOCALIZATION"}
  /\ Watches[1] = "FLAGS" /\ Watches[2] = "SERVICESETTINGS" /\ Watches[3] = "LOCALIZATION"
  BY DEF Buckets, Watches

LEMMA BucketOfItem ==
  /\ \A i \in Item : BucketOf(i) \in Buckets
  /\ \A b \in Buckets : \A i \in Watched(b) : i \in Item /\ BucketOf(i) = b /\ inScope(i)
  /\ \A i \in Item : inScope(i) => i \in Watched(BucketOf(i))
  BY BucketsAre, ItemAssumption DEF BucketOf, Watched

(* A bucket has two items at most.                                         *)
LEMMA FewItems ==
  ASSUME NEW b \in Buckets
  PROVE  \E x, y \in {"flag", "settings", "foreign", "bundle"} : x # y /\ Watched(b) \subseteq {x, y}
  <1>1. CASE b = "FLAGS"
    BY <1>1, ItemAssumption DEF Watched, BucketOf
  <1>2. CASE b = "SERVICESETTINGS"
    BY <1>2, ItemAssumption DEF Watched, BucketOf
  <1>3. CASE b = "LOCALIZATION"
    BY <1>3, ItemAssumption DEF Watched, BucketOf
  <1>4. QED
    BY <1>1, <1>2, <1>3, BucketsAre

(* The highest revision there is.                                          *)
LEMMA TopRevision ==
  ASSUME NEW f \in [Item -> Nat]
  PROVE  \E i \in Item : \A j \in Item : f[j] <= f[i]
  <1> DEFINE Up(S) == S \cap Item # {} => \E i \in S \cap Item : \A j \in S \cap Item : f[j] <= f[i]
  <1>1. ASSUME NEW S, NEW x, Up(S) PROVE Up(S \cup {x})
    <2>1. CASE x \notin Item
      <3>1. (S \cup {x}) \cap Item = S \cap Item
        BY <2>1
      <3>2. QED
        BY <1>1, <3>1
    <2>2. CASE x \in Item /\ S \cap Item = {}
      <3>1. (S \cup {x}) \cap Item = {x}
        BY <2>2
      <3>2. QED
        BY <2>2, <3>1
    <2>3. CASE x \in Item /\ S \cap Item # {}
      <3>1. PICK i \in S \cap Item : \A j \in S \cap Item : f[j] <= f[i]
        BY <1>1, <2>3
      <3>2. f[i] \in Nat /\ f[x] \in Nat /\ \A j \in S \cap Item : f[j] \in Nat
        BY <2>3, <3>1
      <3>3. CASE f[x] <= f[i]
        BY <2>3, <3>1, <3>2, <3>3
      <3>4. CASE ~(f[x] <= f[i])
        BY <2>3, <3>1, <3>2, <3>4
      <3>5. QED
        BY <3>3, <3>4
    <2>4. QED
      BY <2>1, <2>2, <2>3
  <1>2. Up({})
    OBVIOUS
  <1> HIDE DEF Up
  <1>3. Up({} \cup {"flag"} \cup {"settings"} \cup {"foreign"} \cup {"bundle"})
    BY <1>1, <1>2, Zenon
  <1>4. ({} \cup {"flag"} \cup {"settings"} \cup {"foreign"} \cup {"bundle"}) \cap Item = Item
    BY ItemAssumption
  <1>5. QED
    BY <1>3, <1>4, ItemAssumption DEF Up

LEMMA RevisionIsNew ==
  ASSUME CCTypeOK
  PROVE  NextRevision \in Nat /\ \A i \in Item : kv[i].revision < NextRevision
  <1> DEFINE f == [i \in Item |-> kv[i].revision]
             used == {kv[i].revision : i \in Item}
  <1>1. f \in [Item -> Nat]
    BY DEF CCTypeOK
  <1>2. PICK i \in Item : \A j \in Item : f[j] <= f[i]
    BY <1>1, TopRevision
  <1>3. f[i] \in used /\ \A m \in used : m <= f[i]
    BY <1>2
  <1>4. /\ (CHOOSE n \in used : \A m \in used : m <= n) \in used
        /\ \A m \in used : m <= (CHOOSE n \in used : \A m2 \in used : m2 <= n)
    BY <1>3
  <1>5. used \subseteq Nat /\ \A j \in Item : kv[j].revision \in used
    <2>1. kv \in [Item -> [value : 0..MaxCommits, revision : Nat]]
      BY DEF CCTypeOK
    <2>2. QED
      BY <2>1
  <1> DEFINE top == CHOOSE n \in used : \A m \in used : m <= n
  <1>6. top \in Nat /\ \A j \in Item : kv[j].revision \in Nat /\ kv[j].revision <= top
    BY <1>4, <1>5
  <1>7. NextRevision = top + 1
    BY DEF NextRevision
  <1> HIDE DEF top
  <1>8. QED
    BY <1>6, <1>7

-----------------------------------------------------------------------------
(* The replay of a bucket.                                                 *)

Written(b) == {i \in Watched(b) : kv[i].revision # 0}

InOrder(b, s) == \A m, n \in DOMAIN s : m < n => kv[s[m]].revision < kv[s[n]].revision

LEMMA SizeOfFew ==
  ASSUME NEW x, NEW y, x # y, NEW S, S \subseteq {x, y}
  PROVE  \/ S = {} /\ Cardinality(S) = 0
         \/ \E z : S = {z} /\ Cardinality(S) = 1
         \/ S = {x, y} /\ Cardinality(S) = 2
  <1>1. CASE S = {}
    BY <1>1, FS_EmptySet
  <1>2. CASE S = {x} \/ S = {y}
    BY <1>2, FS_Singleton
  <1>3. CASE S = {x, y}
    <2>1. IsFiniteSet({x}) /\ Cardinality({x}) = 1
      BY FS_Singleton
    <2>2. Cardinality({x} \cup {y}) = 2
      BY <2>1, FS_AddElement
    <2>3. {x} \cup {y} = {x, y}
      OBVIOUS
    <2>4. QED
      BY <1>3, <2>2, <2>3
  <1>4. QED
    BY <1>1, <1>2, <1>3

(* The written keys of a bucket can be put in the order of their           *)
(* revisions, and any such order has them all.                             *)
LEMMA OrderExists ==
  ASSUME CCTypeOK, Revisions, NEW b \in Buckets
  PROVE  LET k == Cardinality(Written(b))
         IN  /\ k \in Nat
             /\ \E s \in [1..k -> Written(b)] : InOrder(b, s)
             /\ \A s \in [1..k -> Written(b)] :
                   InOrder(b, s) => \A i \in Written(b) : \E n \in 1..k : s[n] = i
  <1> DEFINE S == Written(b)
             k == Cardinality(S)
  <1>1. \A i \in S : i \in Item /\ kv[i].revision \in Nat \ {0}
    BY BucketOfItem DEF Written, CCTypeOK
  <1>2. PICK x, y : x # y /\ Watched(b) \subseteq {x, y}
    BY FewItems
  <1>3. S \subseteq {x, y}
    BY <1>2 DEF Written
  <1> HIDE DEF S
  <1>4. CASE S = {} /\ Cardinality(S) = 0
    <2>1. k = 0 /\ 1..k = {}
      BY <1>4
    <2>2. [n \in 1..k |-> 0] \in [1..k -> S] /\ InOrder(b, [n \in 1..k |-> 0])
      BY <2>1 DEF InOrder
    <2>3. QED
      BY <1>4, <2>1, <2>2 DEF S
  <1>5. ASSUME NEW z, S = {z}, Cardinality(S) = 1
        PROVE  /\ k \in Nat
               /\ \E s \in [1..k -> S] : InOrder(b, s)
               /\ \A s \in [1..k -> S] : InOrder(b, s) => \A i \in S : \E n \in 1..k : s[n] = i
    <2>1. k = 1 /\ 1..k = {1}
      BY <1>5
    <2>2. [n \in 1..k |-> z] \in [1..k -> S] /\ InOrder(b, [n \in 1..k |-> z])
      BY <1>5, <2>1 DEF InOrder
    <2>3. ASSUME NEW s \in [1..k -> S], NEW i \in S PROVE \E n \in 1..k : s[n] = i
      <3>1. s[1] = z /\ i = z /\ 1 \in 1..k
        BY <1>5, <2>1
      <3>2. QED
        BY <3>1
    <2>4. QED
      BY <2>1, <2>2, <2>3
  <1>6. ASSUME S = {x, y}, Cardinality(S) = 2
        PROVE  /\ k \in Nat
               /\ \E s \in [1..k -> S] : InOrder(b, s)
               /\ \A s \in [1..k -> S] : InOrder(b, s) => \A i \in S : \E n \in 1..k : s[n] = i
    <2>1. k = 2 /\ 1..k = {1, 2}
      BY <1>6
    <2>2. kv[x].revision # kv[y].revision /\ kv[x].revision \in Nat /\ kv[y].revision \in Nat
      BY <1>1, <1>2, <1>6 DEF Revisions
    <2>3. PICK lo, hi \in {x, y} : kv[lo].revision < kv[hi].revision
      BY <2>2
    <2> DEFINE t == [n \in 1..k |-> IF n = 1 THEN lo ELSE hi]
    <2>4. t \in [1..k -> S] /\ InOrder(b, t)
      BY <1>6, <2>1, <2>3 DEF InOrder
    <2>5. ASSUME NEW s \in [1..k -> S], InOrder(b, s), NEW i \in S
          PROVE  \E n \in 1..k : s[n] = i
      <3>1. s[1] \in {x, y} /\ s[2] \in {x, y} /\ kv[s[1]].revision < kv[s[2]].revision
        BY <1>6, <2>1, <2>5 DEF InOrder
      <3>2. s[1] # s[2]
        BY <1>1, <1>6, <3>1
      <3>3. QED
        BY <1>6, <2>1, <2>5, <3>1, <3>2
    <2>6. QED
      BY <2>1, <2>4, <2>5
  <1>7. QED
    BY <1>2, <1>3, <1>4, <1>5, <1>6, SizeOfFew DEF S

(* Replay: every written key of the bucket once, with its value, and the   *)
(* marker.                                                                 *)
LEMMA ReplayShape ==
  ASSUME CCTypeOK, Revisions, NEW b \in Buckets
  PROVE  /\ Replay(b) \in Seq(Entry)
         /\ \A n \in DOMAIN Replay(b) :
               LET e == Replay(b)[n]
               IN  e.item # "end" => e.item \in Watched(b) /\ kv[e.item].revision # 0
                                     /\ e.value = kv[e.item].value
         /\ \A i \in Watched(b) : kv[i].revision # 0 => \E n \in DOMAIN Replay(b) : Replay(b)[n].item = i
  <1> DEFINE S == Written(b)
             k == Cardinality(S)
             order == CHOOSE s \in [1..k -> S] : InOrder(b, s)
             q == [n \in 1..k |-> Update(order[n])]
  <1>1. order \in [1..k -> S] /\ InOrder(b, order) /\ k \in Nat
    BY OrderExists
  <1>2. \A i \in S : \E n \in 1..k : order[n] = i
    BY <1>1, OrderExists
  <1>3. Replay(b) = Append(q, End)
    <2>1. DOMAIN order = 1..k
      BY <1>1
    <2>2. QED
      BY <2>1 DEF Replay, Written, InOrder
  <1> HIDE DEF order, k
  <1>4. \A i \in S : i \in Item /\ i \in Watched(b) /\ i # "end" /\ kv[i].revision # 0
    BY BucketOfItem, ItemAssumption DEF Written
  <1>5. \A i \in S : Update(i) \in Entry /\ Update(i).item = i /\ Update(i).value = kv[i].value
    BY <1>4 DEF Update, Entry, CCTypeOK
  <1> HIDE DEF S
  <1>6. \A n \in 1..k : order[n] \in S /\ q[n] = Update(order[n])
    BY <1>1
  <1>7. q \in Seq(Entry) /\ Len(q) = k
    <2>1. q \in [1..k -> Entry]
      BY <1>5, <1>6
    <2> HIDE DEF q
    <2>2. QED
      BY <1>1, <2>1
  <1>8. End \in Entry /\ End.item = "end"
    BY ClientBoundAssumption DEF End, Entry
  <1> HIDE DEF q, End
  <1>9. /\ Append(q, End) \in Seq(Entry) /\ Len(Append(q, End)) = k + 1
        /\ DOMAIN Append(q, End) = 1..(k + 1)
        /\ \A n \in 1..k : Append(q, End)[n] = q[n]
        /\ Append(q, End)[k + 1] = End
    BY <1>1, <1>7, <1>8, AppendProperties
  <1>10. ASSUME NEW n \in 1..(k + 1)
         PROVE  n \in 1..k \/ n = k + 1
    BY <1>1
  <1>11. ASSUME NEW n \in DOMAIN Replay(b), Replay(b)[n].item # "end"
         PROVE  /\ Replay(b)[n].item \in Watched(b) /\ kv[Replay(b)[n].item].revision # 0
                /\ Replay(b)[n].value = kv[Replay(b)[n].item].value
    <2>1. n \in 1..k
      BY <1>3, <1>8, <1>9, <1>10, <1>11
    <2>2. Replay(b)[n] = Update(order[n]) /\ order[n] \in S
      BY <1>3, <1>6, <1>9, <2>1
    <2>3. QED
      BY <1>4, <1>5, <2>2
  <1>12. ASSUME NEW i \in Watched(b), kv[i].revision # 0
         PROVE  \E n \in DOMAIN Replay(b) : Replay(b)[n].item = i
    <2>1. i \in S
      BY <1>12 DEF S, Written
    <2>2. PICK n \in 1..k : order[n] = i
      BY <1>2, <2>1
    <2>3. n \in DOMAIN Replay(b) /\ Replay(b)[n] = Update(i)
      BY <1>1, <1>3, <1>6, <1>9, <2>2
    <2>4. QED
      BY <1>5, <2>1, <2>3
  <1>13. QED
    BY <1>3, <1>9, <1>11, <1>12

-----------------------------------------------------------------------------
(* What a step does to what is on its way.                                 *)

LEMMA DataKept ==
  ASSUME DataInv, UNCHANGED <<kv, queue, cache>>, \A b \in Buckets : Live(b)' => Live(b)
  PROVE  DataInv'
  <1>1. Revisions' /\ Subscribed' /\ CacheStaysInScope'
    BY DEF DataInv, Revisions, Subscribed, CacheStaysInScope, cached
  <1>2. OnItsWay'
    BY BucketOfItem DEF DataInv, OnItsWay, Shows, Pending
  <1>3. QED
    BY <1>1, <1>2 DEF DataInv

(* closeConn cuts the watchers off.                                        *)
LEMMA StoppedKeeps ==
  ASSUME CCTypeOK, DataInv, UNCHANGED <<kv, cache>>, sub' = Stopped, queue' = StoppedQueue
  PROVE  /\ DataInv'
         /\ sub' \in [Buckets -> {"none", "stopping"}]
         /\ queue' \in [Buckets -> Seq(Entry)]
         /\ \A b \in Buckets : ~Live(b)'
  <1>1. queue \in [Buckets -> Seq(Entry)]
    BY DEF CCTypeOK, Entry
  <1>2. \A b \in Buckets : sub'[b] \in {"none", "stopping"}
    BY DEF Stopped
  <1>3. \A b \in Buckets : queue'[b] = queue[b] \/ queue'[b] = <<>>
    BY DEF StoppedQueue
  <1>4. queue' \in [Buckets -> Seq(Entry)]
    BY <1>1 DEF StoppedQueue
  <1>5. Subscribed'
    BY <1>3 DEF DataInv, Subscribed
  <1>6. OnItsWay'
    BY <1>2, BucketOfItem DEF OnItsWay, Live
  <1>7. Revisions' /\ CacheStaysInScope'
    BY DEF DataInv, Revisions, CacheStaysInScope, cached
  <1>8. QED
    BY <1>2, <1>4, <1>5, <1>6, <1>7 DEF Live, Stopped, DataInv

LEMMA EntryTyped ==
  /\ NoEntry \in [value : 0..MaxCommits, from : {"none", "kv", "http"}]
  /\ NoEntry.value = 0 /\ NoEntry.from = "none"
  /\ "end" \notin Item
  BY ItemAssumption, ClientBoundAssumption DEF NoEntry

(* An entry taken off a queue is put into the cache: if it was the last of *)
(* its key, it is what KV holds.                                           *)
LEMMA ConsumeKeeps ==
  ASSUME CCTypeOK, DataInv, NEW b \in Buckets, queue[b] # <<>>,
         cache' = Applied(Head(queue[b])), queue' = [queue EXCEPT ![b] = Tail(@)],
         kv' = kv, \A c \in Buckets : Live(c)' => Live(c)
  PROVE  /\ DataInv'
         /\ queue' \in [Buckets -> Seq(Entry)]
         /\ cache' \in [Item -> [value : 0..MaxCommits, from : {"none", "kv", "http"}]]
         /\ \A i \in Item : BucketOf(i) # b => cache'[i] = cache[i]
  <1> DEFINE q == queue[b]
             e == Head(q)
             Held == [value : 0..MaxCommits, from : {"none", "kv", "http"}]
  <1>1. /\ queue \in [Buckets -> Seq(Entry)] /\ q \in Seq(Entry) /\ q # <<>>
        /\ cache \in [Item -> Held]
    BY DEF CCTypeOK, Entry
  <1>2. /\ e \in Entry /\ Tail(q) \in Seq(Entry)
        /\ Len(q) \in Nat \ {0} /\ DOMAIN q = 1..Len(q) /\ e = q[1]
        /\ DOMAIN Tail(q) = 1..(Len(q) - 1)
        /\ \A n \in 1..(Len(q) - 1) : Tail(q)[n] = q[n + 1]
    BY <1>1
  <1>3. /\ queue' \in [Buckets -> Seq(Entry)] /\ queue'[b] = Tail(q)
        /\ \A c \in Buckets \ {b} : queue'[c] = queue[c]
    BY <1>1, <1>2
  <1>4. e.item # "end" => e.item \in Watched(b) /\ e.item \in Item /\ BucketOf(e.item) = b /\ inScope(e.item)
    BY <1>2, BucketOfItem DEF DataInv, Subscribed
  <1>5. e.value \in 0..MaxCommits
    BY <1>2 DEF Entry
  <1> HIDE DEF e
  <1>6. /\ cache' \in [Item -> Held]
        /\ \A i \in Item : i # e.item => cache'[i] = cache[i]
        /\ e.item # "end" => cache'[e.item].value = e.value
        /\ e.item = "end" => cache' = cache
    <2>1. CASE e.item = "end"
      BY <1>1, <2>1, EntryTyped DEF Applied, e
    <2>2. CASE e.item # "end"
      <3> DEFINE new == IF e.value = 0 THEN NoEntry ELSE [value |-> e.value, from |-> "kv"]
      <3>1. new \in Held /\ new.value = e.value
        BY <1>5, EntryTyped
      <3>2. cache' = [cache EXCEPT ![e.item] = new]
        BY <2>2 DEF Applied, e
      <3> HIDE DEF new
      <3>3. QED
        BY <1>1, <1>4, <2>2, <3>1, <3>2
    <2>3. QED
      BY <2>1, <2>2
  <1>7. \A i \in Item : BucketOf(i) # b => cache'[i] = cache[i]
    BY <1>4, <1>6
  <1>8. Revisions' /\ CacheStaysInScope'
    <2>1. Revisions'
      BY DEF DataInv, Revisions
    <2>2. CacheStaysInScope'
      BY <1>4, <1>6 DEF DataInv, CacheStaysInScope, cached
    <2>3. QED
      BY <2>1, <2>2
  <1>9. Subscribed'
    <2> SUFFICES ASSUME NEW c \in Buckets, NEW n \in DOMAIN queue'[c], queue'[c][n].item # "end"
                 PROVE  queue'[c][n].item \in Watched(c) /\ kv[queue'[c][n].item].revision # 0
      BY DEF Subscribed
    <2>1. CASE c = b
      <3>1. n + 1 \in DOMAIN q /\ queue'[c][n] = q[n + 1]
        BY <1>2, <1>3, <2>1
      <3>2. QED
        BY <2>1, <3>1 DEF DataInv, Subscribed
    <2>2. CASE c # b
      BY <1>3, <2>2 DEF DataInv, Subscribed
    <2>3. QED
      BY <2>1, <2>2
  <1>10. OnItsWay'
    <2> SUFFICES ASSUME NEW i \in Item, Live(BucketOf(i))', inScope(i)
                 PROVE  Shows(i)'
      BY DEF OnItsWay
    <2>1. Shows(i) /\ BucketOf(i) \in Buckets
      BY BucketOfItem DEF DataInv, OnItsWay
    <2>2. CASE BucketOf(i) # b
      <3>1. queue'[BucketOf(i)] = queue[BucketOf(i)] /\ cache'[i] = cache[i]
        BY <1>3, <1>7, <2>1, <2>2
      <3>2. QED
        BY <2>1, <3>1 DEF Shows, Pending
    <2>3. CASE BucketOf(i) = b
      <3> DEFINE P == Pending(i)
                 R == {n \in 1..(Len(q) - 1) : q[n + 1].item = i}
      <3>1. P = {n \in 1..Len(q) : q[n].item = i}
        BY <1>2, <2>3 DEF Pending
      <3>2. Pending(i)' = R
        <4>1. Pending(i)' = {n \in DOMAIN queue'[b] : queue'[b][n].item = i}
          BY <2>3 DEF Pending
        <4>2. QED
          BY <1>2, <1>3, <4>1
      <3>3. \A n \in R : n \in Nat /\ n + 1 \in P /\ queue'[b][n] = q[n + 1]
        BY <1>2, <1>3, <3>1
      <3>4. \A m \in P : m \in Nat /\ (m = 1 \/ m - 1 \in R)
        BY <1>2, <3>1
      <3> HIDE DEF P, R
      <3>5. ASSUME NEW n \in R, \A m \in R : m <= n
            PROVE  queue'[b][n].value = kv[i].value
        <4>1. \A m \in P : m <= n + 1
          BY <3>3, <3>4, <3>5
        <4>2. q[n + 1].value = kv[i].value
          BY <2>1, <2>3, <3>3, <4>1 DEF Shows, P
        <4>3. QED
          BY <3>3, <4>2
      <3>6. ASSUME R = {}
            PROVE  cache'[i].from = "http" \/ cache'[i].value = kv[i].value
        <4>1. CASE e.item = i
          <5>1. 1 \in P /\ \A m \in P : m <= 1
            BY <1>2, <3>1, <3>4, <3>6, <4>1
          <5>2. q[1].value = kv[i].value
            BY <2>1, <2>3, <5>1 DEF Shows, P
          <5>3. QED
            BY <1>2, <1>6, <4>1, <5>2, EntryTyped
        <4>2. CASE e.item # i
          <5>1. P = {}
            BY <1>2, <3>1, <3>4, <3>6, <4>2
          <5>2. QED
            BY <1>6, <2>1, <4>2, <5>1 DEF Shows, P
        <4>3. QED
          BY <4>1, <4>2
      <3>7. QED
        BY <2>3, <3>2, <3>5, <3>6 DEF Shows
    <2>4. QED
      BY <2>2, <2>3
  <1>11. QED
    BY <1>3, <1>6, <1>7, <1>8, <1>9, <1>10 DEF DataInv

(* A replay brings every written key, and of the others nothing was there. *)
LEMMA ReplayKeeps ==
  ASSUME CCTypeOK, DataInv, NEW b \in Buckets,
         queue' = [queue EXCEPT ![b] = Replay(b)], UNCHANGED <<kv, cache>>,
         Live(b) \/ \A i \in Watched(b) : cache[i] = NoEntry,
         \A c \in Buckets \ {b} : Live(c)' => Live(c)
  PROVE  DataInv' /\ queue' \in [Buckets -> Seq(Entry)]
  <1>1. queue \in [Buckets -> Seq(Entry)]
    BY DEF CCTypeOK, Entry
  <1>2. /\ Replay(b) \in Seq(Entry)
        /\ \A n \in DOMAIN Replay(b) :
              Replay(b)[n].item # "end" => /\ Replay(b)[n].item \in Watched(b)
                                           /\ kv[Replay(b)[n].item].revision # 0
                                           /\ Replay(b)[n].value = kv[Replay(b)[n].item].value
        /\ \A i \in Watched(b) : kv[i].revision # 0 => \E n \in DOMAIN Replay(b) : Replay(b)[n].item = i
    BY ReplayShape DEF DataInv
  <1> DEFINE r == Replay(b)
  <1> HIDE DEF r
  <1>3. /\ queue' \in [Buckets -> Seq(Entry)] /\ queue'[b] = r
        /\ \A c \in Buckets \ {b} : queue'[c] = queue[c]
    BY <1>1, <1>2 DEF r
  <1>4. Subscribed'
    <2> SUFFICES ASSUME NEW c \in Buckets, NEW n \in DOMAIN queue'[c], queue'[c][n].item # "end"
                 PROVE  queue'[c][n].item \in Watched(c) /\ kv[queue'[c][n].item].revision # 0
      BY DEF Subscribed
    <2>1. CASE c = b
      BY <1>2, <1>3, <2>1 DEF r
    <2>2. CASE c # b
      BY <1>3, <2>2 DEF DataInv, Subscribed
    <2>3. QED
      BY <2>1, <2>2
  <1>5. OnItsWay'
    <2> SUFFICES ASSUME NEW i \in Item, Live(BucketOf(i))', inScope(i)
                 PROVE  Shows(i)'
      BY DEF OnItsWay
    <2>1. BucketOf(i) \in Buckets /\ i \in Watched(BucketOf(i)) /\ i # "end"
      BY BucketOfItem, EntryTyped
    <2>2. CASE BucketOf(i) # b
      <3>1. Shows(i) /\ queue'[BucketOf(i)] = queue[BucketOf(i)]
        BY <1>3, <2>1, <2>2 DEF DataInv, OnItsWay
      <3>2. QED
        BY <3>1 DEF Shows, Pending
    <2>3. CASE BucketOf(i) = b
      <3>1. Pending(i)' = {n \in DOMAIN r : r[n].item = i}
        BY <1>3, <2>3 DEF Pending
      <3>2. \A n \in Pending(i)' : queue'[b][n].value = kv[i].value
        BY <1>2, <1>3, <2>1, <3>1 DEF r
      <3>3. ASSUME Pending(i)' = {}
            PROVE  cache[i].from = "http" \/ cache[i].value = kv[i].value
        <4>1. kv[i].revision = 0
          BY <1>2, <2>1, <2>3, <3>1, <3>3 DEF r
        <4>2. kv[i].value = 0
          BY <4>1 DEF DataInv, Revisions
        <4>3. CASE Live(b)
          <5>1. Shows(i)
            BY <2>3, <4>3 DEF DataInv, OnItsWay
          <5>2. Pending(i) = {}
            BY <2>1, <2>3, <4>1 DEF DataInv, Subscribed, Pending
          <5>3. QED
            BY <5>1, <5>2 DEF Shows
        <4>4. CASE cache[i] = NoEntry
          BY <4>2, <4>4, EntryTyped
        <4>5. QED
          BY <2>1, <2>3, <4>3, <4>4
      <3>4. QED
        BY <2>3, <3>2, <3>3 DEF Shows
    <2>4. QED
      BY <2>2, <2>3
  <1>6. Revisions' /\ CacheStaysInScope'
    BY DEF DataInv, Revisions, CacheStaysInScope, cached
  <1>7. QED
    BY <1>3, <1>4, <1>5, <1>6 DEF DataInv

(* A publish reaches every watcher that is subscribed to the key, after    *)
(* everything it was sent before.                                          *)
LEMMA PublishKeeps ==
  ASSUME CCTypeOK, DataInv, NEW i \in Item, PublishRow(i)
  PROVE  /\ DataInv'
         /\ queue' \in [Buckets -> Seq(Entry)]
         /\ kv' \in [Item -> [value : 0..MaxCommits, revision : Nat]]
  <1> DEFINE b == BucketOf(i)
             q == queue[b]
             e == [item |-> i, value |-> db[i]]
             sent == Live(b) /\ inScope(i)
  <1>1. /\ queue \in [Buckets -> Seq(Entry)] /\ b \in Buckets /\ q \in Seq(Entry)
        /\ kv \in [Item -> [value : 0..MaxCommits, revision : Nat]]
        /\ db[i] \in 0..MaxCommits
    BY BucketOfItem DEF CCTypeOK, Entry
  <1>2. e \in Entry /\ e.item = i /\ e.value = db[i]
    BY <1>1 DEF Entry
  <1>3. NextRevision \in Nat /\ \A j \in Item : kv[j].revision < NextRevision
    BY RevisionIsNew
  <1>4. /\ kv' \in [Item -> [value : 0..MaxCommits, revision : Nat]]
        /\ kv'[i].value = db[i] /\ kv'[i].revision = NextRevision
        /\ \A j \in Item \ {i} : kv'[j] = kv[j]
    BY <1>1, <1>3 DEF PublishRow
  <1>5. \A j \in Item : kv[j].revision \in Nat
    BY <1>1
  <1>6. NextRevision # 0 /\ \A j \in Item : kv[j].revision # NextRevision
    BY <1>3, <1>5
  <1>7. \A j \in Item : kv[j].revision # 0 => kv'[j].revision # 0
    BY <1>4, <1>6
  <1> HIDE DEF e, b
  <1>8. sent => queue' = [queue EXCEPT ![b] = Append(q, e)]
    BY <1>1 DEF PublishRow, Live, e, b
  <1>9. ~sent => queue' = queue
    BY <1>1 DEF PublishRow, Live, b
  <1>10. /\ Append(q, e) \in Seq(Entry)
         /\ DOMAIN Append(q, e) = 1..(Len(q) + 1) /\ DOMAIN q = 1..Len(q) /\ Len(q) \in Nat
         /\ \A n \in 1..Len(q) : Append(q, e)[n] = q[n]
         /\ Append(q, e)[Len(q) + 1] = e
    BY <1>1, <1>2, AppendProperties
  <1>11. /\ queue' \in [Buckets -> Seq(Entry)]
         /\ \A c \in Buckets \ {b} : queue'[c] = queue[c]
         /\ sent => queue'[b] = Append(q, e)
    BY <1>1, <1>8, <1>9, <1>10
  <1>12. Revisions'
    BY <1>4, <1>5, <1>6 DEF DataInv, Revisions
  <1>13. CacheStaysInScope'
    BY DEF DataInv, CacheStaysInScope, cached, PublishRow
  <1>14. Subscribed'
    <2> SUFFICES ASSUME NEW c \in Buckets, NEW n \in DOMAIN queue'[c], queue'[c][n].item # "end"
                 PROVE  queue'[c][n].item \in Watched(c) /\ kv'[queue'[c][n].item].revision # 0
      BY DEF Subscribed
    <2>1. CASE n \in DOMAIN queue[c] /\ queue'[c][n] = queue[c][n]
      <3>1. queue[c][n].item \in Watched(c) /\ kv[queue[c][n].item].revision # 0
        BY <2>1 DEF DataInv, Subscribed
      <3>2. QED
        BY <1>7, <2>1, <3>1, BucketOfItem
    <2>2. CASE sent /\ c = b /\ queue'[c][n] = e
      <3>1. i \in Watched(b)
        BY <2>2, BucketOfItem DEF b
      <3>2. QED
        BY <1>2, <1>4, <1>6, <2>2, <3>1
    <2>3. CASE ~sent \/ c # b
      BY <1>9, <1>11, <2>1, <2>3
    <2>4. CASE sent /\ c = b
      <3>1. n \in 1..(Len(q) + 1)
        BY <1>10, <1>11, <2>4
      <3>2. n \in 1..Len(q) \/ n = Len(q) + 1
        BY <1>10, <3>1
      <3>3. QED
        BY <1>10, <1>11, <2>1, <2>2, <2>4, <3>2
    <2>5. QED
      BY <2>3, <2>4
  <1>15. OnItsWay'
    <2> SUFFICES ASSUME NEW j \in Item, Live(BucketOf(j))', inScope(j)
                 PROVE  Shows(j)'
      BY DEF OnItsWay
    <2>1. Shows(j) /\ BucketOf(j) \in Buckets /\ Live(BucketOf(j)) /\ cache'[j] = cache[j]
      BY BucketOfItem DEF DataInv, OnItsWay, PublishRow, Live
    <2>2. CASE j # i /\ queue'[BucketOf(j)] = queue[BucketOf(j)]
      BY <1>4, <2>1, <2>2 DEF Shows, Pending
    <2>3. CASE BucketOf(j) = b /\ sent
      <3>1. queue'[BucketOf(j)] = Append(q, e)
        BY <1>11, <2>3
      <3>2. Pending(j) = {n \in 1..Len(q) : q[n].item = j}
        BY <1>10, <2>3 DEF Pending
      <3>3. Pending(j)' = {n \in 1..(Len(q) + 1) : Append(q, e)[n].item = j}
        BY <1>10, <3>1 DEF Pending
      <3>4. CASE j # i
        <4>1. Append(q, e)[Len(q) + 1].item # j
          BY <1>2, <1>10, <3>4
        <4>2. Pending(j)' = Pending(j)
          BY <1>10, <3>2, <3>3, <4>1
        <4>3. \A n \in Pending(j) : Append(q, e)[n] = q[n]
          BY <1>10, <3>2
        <4>4. QED
          BY <1>4, <2>1, <2>3, <3>1, <3>4, <4>2, <4>3 DEF Shows
      <3>5. CASE j = i
        <4>1. Len(q) + 1 \in Pending(j)' /\ \A n \in Pending(j)' : n \in 1..(Len(q) + 1)
          BY <1>2, <1>10, <3>3, <3>5
        <4>2. ASSUME NEW n \in Pending(j)', \A m \in Pending(j)' : m <= n
              PROVE  n = Len(q) + 1
          BY <1>10, <4>1, <4>2
        <4>3. Append(q, e)[Len(q) + 1].value = kv'[j].value
          BY <1>2, <1>4, <1>10, <3>5
        <4>4. QED
          BY <3>1, <4>1, <4>2, <4>3 DEF Shows
      <3>6. QED
        BY <3>4, <3>5
    <2>4. QED
      BY <1>9, <1>11, <2>1, <2>2, <2>3 DEF b
  <1>16. QED
    BY <1>4, <1>11, <1>12, <1>13, <1>14, <1>15 DEF DataInv

-----------------------------------------------------------------------------
(* The control plane and the watchers leave New where it is.               *)

LEMMA ControlKept ==
  ASSUME ControlInv, UNCHANGED <<sub, client, hyd>>
  PROVE  ControlInv'
  <1>1. Stages' /\ Recorded'
    BY DEF ControlInv, Stages, Recorded, WarmingUp, Hydrating, Live
  <1>2. HydrationIsHonest' /\ NothingLeftOpen'
    BY DEF ControlInv, HydrationIsHonest, NothingLeftOpen
  <1>3. QED
    BY <1>1, <1>2 DEF ControlInv

LEMMA UntouchedKept ==
  ASSUME Untouched, UNCHANGED <<sub, client>>,
         \A i \in Item : sub[BucketOf(i)] = "none" => cache'[i] = cache[i]
  PROVE  Untouched'
  BY DEF Untouched, WarmingUp

LEMMA CommitRowKeeps ==
  ASSUME ClientInv, NEW i \in Item, CommitRow(i)
  PROVE  ClientInv'
  <1> USE DEF ClientInv
  <1>0. /\ db \in [Item -> 0..MaxCommits] /\ commits \in 0..MaxCommits
        /\ rowOf \in [ById -> Item \cup {"gone"}]
    BY DEF CCTypeOK
  <1>1. db' \in [Item -> 0..MaxCommits] /\ commits' \in 0..MaxCommits
    <2>1. /\ commits + 1 \in 0..MaxCommits /\ commits' = commits + 1
          /\ 0 \in 0..MaxCommits
      BY <1>0, ClientBoundAssumption DEF CommitRow
    <2>2. QED
      BY <1>0, <2>1 DEF CommitRow
  <1>2. rowOf' \in [ById -> Item \cup {"gone"}]
    BY <1>0 DEF CommitRow
  <1>3. UNCHANGED <<kv, sub, queue, cache, client, hyd, fallback, faults>>
    BY DEF CommitRow, clientVars
  <1>4. CCTypeOK'
    BY <1>1, <1>2, <1>3 DEF CCTypeOK
  <1>5. DataInv'
    BY <1>3, DataKept DEF Live
  <1>6. QED
    BY <1>3, <1>4, <1>5, ControlKept, UntouchedKept

LEMMA MoveRowKeeps ==
  ASSUME ClientInv, MoveRow
  PROVE  ClientInv'
  <1> USE DEF ClientInv
  <1>0. /\ db \in [Item -> 0..MaxCommits] /\ commits \in 0..MaxCommits
        /\ rowOf \in [ById -> Item \cup {"gone"}]
    BY DEF CCTypeOK
  <1>1. db' \in [Item -> 0..MaxCommits] /\ commits' \in 0..MaxCommits
    <2>1. /\ commits + 1 \in 0..MaxCommits /\ commits' = commits + 1
          /\ 0 \in 0..MaxCommits
      BY <1>0, ClientBoundAssumption DEF MoveRow
    <2>2. QED
      BY <1>0, <2>1 DEF MoveRow
  <1>2. rowOf' \in [ById -> Item \cup {"gone"}]
    BY <1>0 DEF MoveRow
  <1>3. UNCHANGED <<kv, sub, queue, cache, client, hyd, fallback, faults>>
    BY DEF MoveRow, clientVars
  <1>4. CCTypeOK'
    BY <1>1, <1>2, <1>3 DEF CCTypeOK
  <1>5. DataInv'
    BY <1>3, DataKept DEF Live
  <1>6. QED
    BY <1>3, <1>4, <1>5, ControlKept, UntouchedKept

LEMMA PublishRowKeeps ==
  ASSUME ClientInv, NEW i \in Item, PublishRow(i)
  PROVE  ClientInv'
  <1> USE DEF ClientInv
  <1>1. /\ DataInv' /\ queue' \in [Buckets -> Seq(Entry)]
        /\ kv' \in [Item -> [value : 0..MaxCommits, revision : Nat]]
    BY PublishKeeps
  <1>2. UNCHANGED <<db, rowOf, commits, sub, cache, client, hyd, fallback, faults>>
    BY DEF PublishRow
  <1>3. CCTypeOK'
    BY <1>1, <1>2 DEF CCTypeOK, Entry
  <1>4. QED
    BY <1>1, <1>2, <1>3, ControlKept, UntouchedKept

LEMMA ReconnectKeeps ==
  ASSUME ClientInv, NEW b \in Buckets, Reconnect(b)
  PROVE  ClientInv'
  <1> USE DEF ClientInv
  <1>1. /\ UNCHANGED <<db, rowOf, commits, kv, sub, cache, client, hyd, fallback>>
        /\ queue' = [queue EXCEPT ![b] = Replay(b)] /\ Live(b)
    BY DEF Reconnect, worldVars, Live
  <1>2. faults' \in 0..MaxFaults
    BY ClientBoundAssumption DEF Reconnect, CCTypeOK
  <1>3. DataInv' /\ queue' \in [Buckets -> Seq(Entry)]
    BY <1>1, ReplayKeeps DEF Live
  <1>4. CCTypeOK'
    BY <1>1, <1>2, <1>3 DEF CCTypeOK, Entry
  <1>5. QED
    BY <1>1, <1>3, <1>4, ControlKept, UntouchedKept

LEMMA DeliverKeeps ==
  ASSUME ClientInv, NEW b \in Buckets, Deliver(b)
  PROVE  ClientInv'
  <1> USE DEF ClientInv
  <1>1. /\ UNCHANGED <<db, rowOf, commits, kv, sub, client, hyd, fallback, faults>>
        /\ queue[b] # <<>> /\ sub[b] # "none" /\ cache' = Applied(Head(queue[b]))
        /\ queue' = [queue EXCEPT ![b] = Tail(@)]
    BY DEF Deliver, worldVars
  <1>2. /\ DataInv' /\ queue' \in [Buckets -> Seq(Entry)]
        /\ cache' \in [Item -> [value : 0..MaxCommits, from : {"none", "kv", "http"}]]
        /\ \A i \in Item : BucketOf(i) # b => cache'[i] = cache[i]
    BY <1>1, ConsumeKeeps DEF Live
  <1>3. CCTypeOK'
    BY <1>1, <1>2 DEF CCTypeOK, Entry
  <1>4. QED
    BY <1>1, <1>2, <1>3, ControlKept, UntouchedKept

LEMMA WatchEndsKeeps ==
  ASSUME ClientInv, NEW b \in Buckets, WatchEnds(b)
  PROVE  ClientInv'
  <1> USE DEF ClientInv
  <1>1. UNCHANGED <<db, rowOf, commits, kv, cache, client, hyd, fallback, faults>>
    BY DEF WatchEnds, worldVars
  <1>2. /\ sub[b] = "stopping" /\ sub' = [sub EXCEPT ![b] = "none"]
        /\ sub \in [Buckets -> {"none", "draining", "running", "stopping"}]
        /\ sub' \in [Buckets -> {"none", "draining", "running", "stopping"}]
    BY DEF WatchEnds, CCTypeOK
  <1>3. sub'[b] = "none" /\ \A c \in Buckets \ {b} : sub'[c] = sub[c]
    BY <1>2
  <1>4. /\ queue \in [Buckets -> Seq(Entry)]
        /\ queue' \in [Buckets -> Seq(Entry)]
        /\ \A c \in Buckets : queue'[c] = queue[c] \/ (c = b /\ queue'[c] = <<>>)
    <2>1. queue \in [Buckets -> Seq(Entry)]
      BY DEF CCTypeOK, Entry
    <2>2. QED
      BY <2>1 DEF WatchEnds
  <1>5. CCTypeOK'
    BY <1>1, <1>2, <1>4 DEF CCTypeOK, Entry
  <1>6. DataInv'
    <2>1. Revisions' /\ CacheStaysInScope'
      BY <1>1 DEF DataInv, Revisions, CacheStaysInScope, cached
    <2>2. Subscribed'
      BY <1>1, <1>4 DEF DataInv, Subscribed
    <2>3. ASSUME NEW i \in Item, Live(BucketOf(i))', inScope(i)
          PROVE  Shows(i)'
      <3>1. BucketOf(i) \in Buckets /\ BucketOf(i) # b
        BY <1>3, <2>3, BucketOfItem DEF Live
      <3>2. queue'[BucketOf(i)] = queue[BucketOf(i)] /\ sub'[BucketOf(i)] = sub[BucketOf(i)]
        BY <1>3, <1>4, <3>1
      <3>3. Shows(i)
        BY <2>3, <3>2 DEF DataInv, OnItsWay, Live
      <3>4. QED
        BY <1>1, <3>2, <3>3 DEF Shows, Pending
    <2>4. QED
      BY <2>1, <2>2, <2>3 DEF DataInv, OnItsWay
  <1>7. PICK w \in 1..3 : b = Watches[w]
    BY DEF Buckets
  <1>8. ~WarmingUp /\ client.watch # TRUE
    BY <1>2, <1>7 DEF ControlInv, Stages, WarmingUp
  <1>9. Untouched'
    BY <1>1, <1>8 DEF Untouched, WarmingUp
  <1>10. \A m \in 1..3 :
            /\ Watches[m] \in Buckets
            /\ sub'[Watches[m]] = sub[Watches[m]] \/ sub'[Watches[m]] = "none"
    BY <1>3 DEF Buckets
  <1>11. Stages' /\ Recorded'
    BY <1>1, <1>8, <1>10 DEF ControlInv, Stages, Recorded, WarmingUp, Hydrating, Live
  <1>12. client.watch = FALSE
    BY <1>8 DEF CCTypeOK
  <1>13. HydrationIsHonest'
    BY <1>1, <1>12 DEF ControlInv, HydrationIsHonest
  <1>14. NothingLeftOpen'
    BY <1>1, <1>3 DEF ControlInv, NothingLeftOpen
  <1>15. QED
    BY <1>5, <1>6, <1>9, <1>11, <1>13, <1>14 DEF ControlInv

-----------------------------------------------------------------------------
(* The caller of New.                                                      *)

ClientRecord == [pc : PCs, at : 1..3, conn : {"none", "open", "closed"},
                 watch : BOOLEAN, httpUsed : BOOLEAN, lastErr : {"none", "kv", "http"}]

Answer == [status : {"none", "ok", "notfound", "refused", "error"},
           item : Item, value : 0..MaxCommits]

Hydration == [cold : BOOLEAN, todo : SUBSET Item, item : Item, answer : Answer,
              attempted : Nat, errs : Nat, refused : BOOLEAN]

LEMMA TypeParts ==
  CCTypeOK <=> /\ db \in [Item -> 0..MaxCommits]
               /\ rowOf \in [ById -> Item \cup {"gone"}]
               /\ commits \in 0..MaxCommits
               /\ kv \in [Item -> [value : 0..MaxCommits, revision : Nat]]
               /\ sub \in [Buckets -> {"none", "draining", "running", "stopping"}]
               /\ queue \in [Buckets -> Seq(Entry)]
               /\ cache \in [Item -> [value : 0..MaxCommits, from : {"none", "kv", "http"}]]
               /\ client \in ClientRecord
               /\ hyd \in Hydration
               /\ fallback \in Fallbacks
               /\ faults \in 0..MaxFaults
  BY DEF CCTypeOK, Entry, ClientRecord, Answer, Hydration

LEMMA TypePartsPrime ==
  CCTypeOK' <=> /\ db' \in [Item -> 0..MaxCommits]
                /\ rowOf' \in [ById -> Item \cup {"gone"}]
                /\ commits' \in 0..MaxCommits
                /\ kv' \in [Item -> [value : 0..MaxCommits, revision : Nat]]
                /\ sub' \in [Buckets -> {"none", "draining", "running", "stopping"}]
                /\ queue' \in [Buckets -> Seq(Entry)]
                /\ cache' \in [Item -> [value : 0..MaxCommits, from : {"none", "kv", "http"}]]
                /\ client' \in ClientRecord
                /\ hyd' \in Hydration
                /\ fallback' \in Fallbacks
                /\ faults' \in 0..MaxFaults
  BY DEF CCTypeOK, Entry, ClientRecord, Answer, Hydration

LEMMA NothingYet ==
  /\ NewClient \in ClientRecord
  /\ NewClient.pc = "idle" /\ NewClient.at = 1 /\ NewClient.conn = "none"
  /\ NewClient.watch = FALSE /\ NewClient.httpUsed = FALSE
  /\ NoAnswer \in Answer /\ NoHydration \in Hydration
  /\ NoHydration.refused = FALSE /\ NoHydration.attempted = 0 /\ NoHydration.errs = 0
  <1>1. AnyItem \in Item
    BY ItemAssumption DEF AnyItem
  <1>2. 0 \in 0..MaxCommits
    BY ClientBoundAssumption
  <1>3. QED
    BY <1>1, <1>2 DEF NewClient, ClientRecord, PCs, NoAnswer, Answer, NoHydration, Hydration

(* New checks the fallback and starts empty.                               *)
LEMMA NewKeeps ==
  ASSUME ClientInv, New
  PROVE  ClientInv'
  <1> USE DEF ClientInv
  <1>1. UNCHANGED <<db, rowOf, commits, kv, sub, queue, fallback, faults>>
    BY DEF New, worldVars
  <1>2. /\ client.pc = "idle" /\ \A i \in Item : cache'[i] = NoEntry
        /\ cache' \in [Item -> [value : 0..MaxCommits, from : {"none", "kv", "http"}]]
    BY EntryTyped DEF New
  <1>3. /\ client' \in ClientRecord /\ client'.pc \in {"connect", "failed"}
        /\ client'.conn = "none" /\ client'.watch = FALSE /\ client'.at = 1
    <2>1. PICK p \in {"connect", "failed"} : client' = [NewClient EXCEPT !.pc = p]
      BY DEF New
    <2>2. QED
      <3>1. p \in PCs
        BY DEF PCs
      <3>2. QED
        BY <2>1, <3>1, NothingYet DEF ClientRecord
  <1>4. hyd' = NoHydration /\ hyd' \in Hydration /\ hyd'.refused = FALSE
    BY NothingYet DEF New
  <1>5. \A m \in 1..3 : sub[Watches[m]] = "none"
    BY <1>2 DEF ControlInv, Stages
  <1>6. \A b \in Buckets : sub[b] = "none"
    BY <1>5 DEF Buckets
  <1>7. CCTypeOK'
    BY <1>1, <1>2, <1>3, <1>4, TypeParts, TypePartsPrime
  <1>8. DataInv'
    <2>1. Revisions' /\ Subscribed'
      BY <1>1 DEF DataInv, Revisions, Subscribed
    <2>2. OnItsWay'
      BY <1>1, <1>6, BucketOfItem DEF OnItsWay, Live
    <2>3. CacheStaysInScope'
      BY <1>2, EntryTyped DEF CacheStaysInScope, cached
    <2>4. QED
      BY <2>1, <2>2, <2>3 DEF DataInv
  <1>9. Untouched'
    BY <1>2 DEF Untouched
  <1>10. Stages' /\ Recorded'
    BY <1>1, <1>3, <1>4, <1>5 DEF Stages, Recorded, WarmingUp, Hydrating
  <1>11. HydrationIsHonest' /\ NothingLeftOpen'
    BY <1>1, <1>3, <1>6 DEF HydrationIsHonest, NothingLeftOpen
  <1>12. QED
    BY <1>7, <1>8, <1>9, <1>10, <1>11 DEF ControlInv

LEMMA ConnectKeeps ==
  ASSUME ClientInv, Connect
  PROVE  ClientInv'
  <1> USE DEF ClientInv
  <1>1. UNCHANGED <<db, rowOf, commits, kv, sub, queue, cache, hyd, fallback, faults>>
    BY DEF Connect, worldVars
  <1>2. client.pc = "connect" /\ client \in ClientRecord
    BY TypeParts DEF Connect
  <1>3. /\ client' \in ClientRecord /\ client'.pc = "open" /\ client'.at = client.at
        /\ client'.watch = client.watch
    BY <1>2 DEF Connect, ClientRecord, PCs
  <1>4. \A m \in 1..3 : sub[Watches[m]] = "none"
    BY <1>2 DEF ControlInv, Stages
  <1>5. client.at = 1 /\ client.watch = FALSE
    <2>1. client.at = 1 /\ (client.watch = TRUE => sub[Watches[1]] = "running")
      BY <1>2 DEF ControlInv, Stages
    <2>2. sub[Watches[1]] # "running" /\ client.watch \in BOOLEAN
      BY <1>2, <1>4 DEF ClientRecord
    <2>3. QED
      BY <2>1, <2>2
  <1>6. CCTypeOK'
    BY <1>1, <1>3, TypeParts, TypePartsPrime
  <1>7. DataInv'
    BY <1>1, DataKept DEF Live
  <1>8. Untouched'
    BY <1>1, <1>2 DEF Untouched, WarmingUp
  <1>9. Stages'
    BY <1>1, <1>3, <1>4, <1>5 DEF Stages
  <1>10. Recorded'
    BY <1>1, <1>2, <1>3, <1>5 DEF ControlInv, Recorded, WarmingUp, Hydrating
  <1>11. HydrationIsHonest' /\ NothingLeftOpen'
    BY <1>3 DEF HydrationIsHonest, NothingLeftOpen
  <1>12. QED
    BY <1>6, <1>7, <1>8, <1>9, <1>10, <1>11 DEF ControlInv

LEMMA WatchesDiffer ==
  /\ \A m \in 1..3 : Watches[m] \in Buckets
  /\ \A m, n \in 1..3 : Watches[m] = Watches[n] => m = n
  /\ \A b \in Buckets : \E m \in 1..3 : b = Watches[m]
  <1>1. \A m \in 1..3 : m = 1 \/ m = 2 \/ m = 3
    OBVIOUS
  <1>2. QED
    BY <1>1, BucketsAre

LEMMA OpenWatchKeeps ==
  ASSUME ClientInv, OpenWatch
  PROVE  ClientInv'
  <1> USE DEF ClientInv
  <1> DEFINE b == Watches[client.at]
  <1>1. /\ UNCHANGED <<db, rowOf, commits, kv, cache, hyd, fallback, faults>>
        /\ client.pc = "open" /\ client' = [client EXCEPT !.pc = "drain"]
        /\ sub' = [sub EXCEPT ![b] = "draining"]
        /\ queue' = [queue EXCEPT ![b] = Replay(b)]
    BY DEF OpenWatch, worldVars
  <1>2. /\ client \in ClientRecord /\ client.at \in 1..3
        /\ sub \in [Buckets -> {"none", "draining", "running", "stopping"}]
    BY TypeParts DEF ClientRecord
  <1>3. b \in Buckets
    BY <1>2, WatchesDiffer
  <1>4. /\ client' \in ClientRecord /\ client'.pc = "drain" /\ client'.at = client.at
        /\ client'.watch = client.watch
    BY <1>1, <1>2 DEF ClientRecord, PCs
  <1> HIDE DEF b
  <1>5. /\ sub'[b] = "draining" /\ \A c \in Buckets \ {b} : sub'[c] = sub[c]
        /\ sub' \in [Buckets -> {"none", "draining", "running", "stopping"}]
    BY <1>1, <1>2, <1>3
  <1>6. \A m \in 1..3 : sub[Watches[m]] = IF m < client.at THEN "running" ELSE "none"
    BY <1>1 DEF ControlInv, Stages
  <1>7. sub[b] = "none" /\ client.watch = FALSE
    <2>1. sub[b] = "none"
      BY <1>2, <1>6 DEF b
    <2>2. client.watch = TRUE => sub[b] = "running"
      BY <1>2 DEF ControlInv, Stages, b
    <2>3. QED
      BY <1>2, <2>1, <2>2 DEF ClientRecord
  <1>8. DataInv' /\ queue' \in [Buckets -> Seq(Entry)]
    <2>1. \A i \in Watched(b) : cache[i] = NoEntry
      BY <1>1, <1>3, <1>7, BucketOfItem DEF Untouched, WarmingUp
    <2>2. \A c \in Buckets \ {b} : Live(c)' => Live(c)
      BY <1>5 DEF Live
    <2>3. QED
      BY <1>1, <1>3, <2>1, <2>2, ReplayKeeps
  <1>9. CCTypeOK'
    BY <1>1, <1>4, <1>5, <1>8, TypeParts, TypePartsPrime
  <1>10. Untouched'
    BY <1>1, <1>5, BucketOfItem DEF Untouched, WarmingUp
  <1>11. \A m \in 1..3 : sub'[Watches[m]] = IF m < client.at THEN "running"
                          ELSE IF m = client.at THEN "draining" ELSE "none"
    BY <1>2, <1>5, <1>6, WatchesDiffer DEF b
  <1>12. Stages'
    BY <1>4, <1>7, <1>11 DEF Stages
  <1>13. Recorded'
    BY <1>1, <1>4, <1>7 DEF ControlInv, Recorded, WarmingUp, Hydrating
  <1>14. HydrationIsHonest' /\ NothingLeftOpen'
    BY <1>4 DEF HydrationIsHonest, NothingLeftOpen
  <1>15. QED
    BY <1>8, <1>9, <1>10, <1>12, <1>13, <1>14 DEF ControlInv

(* The watcher the caller is draining.                                     *)
LEMMA Draining ==
  ASSUME ClientInv, client.pc = "drain"
  PROVE  /\ client.at \in 1..3 /\ Watches[client.at] \in Buckets
         /\ sub[Watches[client.at]] = "draining" /\ client.watch = FALSE
  <1> USE DEF ClientInv
  <1>1. client \in ClientRecord /\ client.at \in 1..3 /\ client.watch \in BOOLEAN
    BY TypeParts DEF ClientRecord
  <1>2. \A m \in 1..3 : sub[Watches[m]] = IF m < client.at THEN "running"
                          ELSE IF m = client.at THEN "draining" ELSE "none"
    BY DEF ControlInv, Stages
  <1>3. sub[Watches[client.at]] = "draining"
    BY <1>1, <1>2
  <1>4. client.watch = TRUE => sub[Watches[client.at]] = "running"
    BY <1>1 DEF ControlInv, Stages
  <1>5. QED
    BY <1>1, <1>3, <1>4, WatchesDiffer

LEMMA DrainKeeps ==
  ASSUME ClientInv, Drain
  PROVE  ClientInv'
  <1> USE DEF ClientInv
  <1> DEFINE b == Watches[client.at]
  <1>1. /\ UNCHANGED <<db, rowOf, commits, kv, sub, client, hyd, fallback, faults>>
        /\ client.pc = "drain" /\ queue[b] # <<>> /\ cache' = Applied(Head(queue[b]))
        /\ queue' = [queue EXCEPT ![b] = Tail(@)]
    BY DEF Drain, worldVars
  <1>2. b \in Buckets /\ sub[b] = "draining"
    BY <1>1, Draining
  <1> HIDE DEF b
  <1>3. /\ DataInv' /\ queue' \in [Buckets -> Seq(Entry)]
        /\ cache' \in [Item -> [value : 0..MaxCommits, from : {"none", "kv", "http"}]]
        /\ \A i \in Item : BucketOf(i) # b => cache'[i] = cache[i]
    BY <1>1, <1>2, ConsumeKeeps DEF Live
  <1>4. CCTypeOK'
    BY <1>1, <1>3, TypeParts, TypePartsPrime
  <1>5. QED
    BY <1>1, <1>2, <1>3, <1>4, ControlKept, UntouchedKept

LEMMA DrainDoneKeeps ==
  ASSUME ClientInv, DrainDone
  PROVE  ClientInv'
  <1> USE DEF ClientInv
  <1> DEFINE b == Watches[client.at]
  <1>1. /\ UNCHANGED <<db, rowOf, commits, kv, cache, hyd, fallback, faults>>
        /\ client.pc = "drain" /\ queue[b] # <<>> /\ Head(queue[b]) = End
        /\ sub' = [sub EXCEPT ![b] = "running"]
        /\ queue' = [queue EXCEPT ![b] = Tail(@)]
        /\ client' = IF client.at < 3 THEN [client EXCEPT !.pc = "open", !.at = @ + 1]
                      ELSE [client EXCEPT !.pc = "warm", !.watch = TRUE]
    BY DEF DrainDone, worldVars
  <1>2. /\ client \in ClientRecord
        /\ sub \in [Buckets -> {"none", "draining", "running", "stopping"}]
    BY TypeParts
  <1>3. b \in Buckets /\ sub[b] = "draining" /\ client.at \in 1..3 /\ client.watch = FALSE
    BY <1>1, Draining
  <1> HIDE DEF b
  <1>4. /\ sub'[b] = "running" /\ \A c \in Buckets \ {b} : sub'[c] = sub[c]
        /\ sub' \in [Buckets -> {"none", "draining", "running", "stopping"}]
    BY <1>1, <1>2, <1>3
  <1>5. DataInv' /\ queue' \in [Buckets -> Seq(Entry)]
    <2>1. cache' = Applied(Head(queue[b]))
      BY <1>1 DEF Applied, End
    <2>2. \A c \in Buckets : Live(c)' => Live(c)
      BY <1>3, <1>4 DEF Live
    <2>3. QED
      BY <1>1, <1>3, <2>1, <2>2, ConsumeKeeps
  <1>6. \A m \in 1..3 : sub[Watches[m]] = IF m < client.at THEN "running"
                         ELSE IF m = client.at THEN "draining" ELSE "none"
    BY <1>1 DEF ControlInv, Stages
  <1>7. \A m \in 1..3 : sub'[Watches[m]] = IF m <= client.at THEN "running" ELSE "none"
    BY <1>3, <1>4, <1>6, WatchesDiffer DEF b
  <1>8. Untouched'
    BY <1>1, <1>4, BucketOfItem DEF Untouched, WarmingUp
  <1>9. hyd'.refused = FALSE
    BY <1>1 DEF ControlInv, Recorded, WarmingUp
  <1>10. CASE client.at < 3
    <2>1. /\ client' \in ClientRecord /\ client'.pc = "open" /\ client'.at = client.at + 1
          /\ client'.watch = FALSE
      <3>1. client' = [client EXCEPT !.pc = "open", !.at = client.at + 1]
        BY <1>1, <1>2, <1>10 DEF ClientRecord
      <3>2. client.at + 1 \in 1..3 /\ "open" \in PCs
        BY <1>3, <1>10 DEF PCs
      <3>3. QED
        BY <1>2, <1>3, <3>1, <3>2 DEF ClientRecord
    <2>2. CCTypeOK'
      BY <1>1, <1>4, <1>5, <2>1, TypeParts, TypePartsPrime
    <2>3. \A m \in 1..3 : sub'[Watches[m]] = IF m < client'.at THEN "running" ELSE "none"
      BY <1>3, <1>7, <2>1
    <2>4. Stages'
      BY <2>1, <2>3 DEF Stages
    <2>5. Recorded' /\ HydrationIsHonest' /\ NothingLeftOpen'
      BY <1>9, <2>1 DEF Recorded, WarmingUp, Hydrating, HydrationIsHonest, NothingLeftOpen
    <2>6. QED
      BY <1>5, <1>8, <2>2, <2>4, <2>5 DEF ControlInv
  <1>11. CASE client.at = 3
    <2>1. /\ client' \in ClientRecord /\ client'.pc = "warm" /\ client'.watch = TRUE
      <3>1. client' = [client EXCEPT !.pc = "warm", !.watch = TRUE]
        BY <1>1, <1>11
      <3>2. "warm" \in PCs
        BY DEF PCs
      <3>3. QED
        BY <1>2, <3>1, <3>2 DEF ClientRecord
    <2>2. CCTypeOK'
      BY <1>1, <1>4, <1>5, <2>1, TypeParts, TypePartsPrime
    <2>3. \A m \in 1..3 : sub'[Watches[m]] = "running"
      BY <1>7, <1>11
    <2>4. Stages'
      BY <2>1, <2>3 DEF Stages
    <2>5. Recorded' /\ HydrationIsHonest' /\ NothingLeftOpen'
      BY <1>9, <2>1 DEF Recorded, WarmingUp, Hydrating, HydrationIsHonest, NothingLeftOpen
    <2>6. QED
      BY <1>5, <1>8, <2>2, <2>4, <2>5 DEF ControlInv
  <1>12. QED
    BY <1>3, <1>10, <1>11

(* The client after closeConn.                                             *)
ClosedAs(c, p, x) == [closeConn(c) EXCEPT !.pc = p, !.lastErr = x]

LEMMA CloseConn ==
  ASSUME NEW c \in ClientRecord, NEW p \in PCs, NEW x \in {"none", "kv", "http"}
  PROVE  /\ ClosedAs(c, p, x) \in ClientRecord
         /\ ClosedAs(c, p, x).pc = p /\ ClosedAs(c, p, x).lastErr = x
         /\ ClosedAs(c, p, x).watch = FALSE /\ ClosedAs(c, p, x).conn # "open"
  <1> DEFINE k == IF c.conn = "open" THEN "closed" ELSE c.conn
  <1>1. closeConn(c) = [c EXCEPT !.watch = FALSE, !.conn = k]
    BY DEF closeConn, ClientRecord
  <1>2. k \in {"none", "closed"}
    BY DEF ClientRecord
  <1> HIDE DEF k
  <1>3. QED
    BY <1>1, <1>2 DEF ClientRecord, ClosedAs

LEMMA HydrationStarts ==
  ASSUME NEW cold \in BOOLEAN
  PROVE  LET h == StartHydration(cold)
         IN  /\ h \in Hydration /\ h.cold = cold /\ h.attempted = 0 /\ h.errs = 0
             /\ h.refused = FALSE
  <1>1. Targets \in SUBSET Item
    BY DEF Targets, ById
  <1>2. QED
    BY <1>1, NothingYet DEF StartHydration, Hydration

(* New gives up on KV: whatever it opened is closed.                       *)
LEMMA WarmUpFailsKeeps ==
  ASSUME ClientInv, WarmUpFails
  PROVE  ClientInv'
  <1> USE DEF ClientInv
  <1>1. /\ UNCHANGED <<db, rowOf, commits, kv, cache, fallback>>
        /\ sub' = Stopped /\ queue' = StoppedQueue
        /\ client.pc \in {"connect", "open", "drain"}
    BY DEF WarmUpFails, AbandonWarmUp, worldVars
  <1>2. faults' \in 0..MaxFaults
    BY ClientBoundAssumption, TypeParts DEF WarmUpFails
  <1>3. client \in ClientRecord /\ hyd \in Hydration
    BY TypeParts
  <1>4. /\ DataInv' /\ queue' \in [Buckets -> Seq(Entry)]
        /\ sub' \in [Buckets -> {"none", "stopping"}]
        /\ \A b \in Buckets : ~Live(b)'
    BY <1>1, StoppedKeeps
  <1>5. sub' \in [Buckets -> {"none", "draining", "running", "stopping"}]
    BY <1>4
  <1>6. \A m \in 1..3 : /\ Watches[m] \in Buckets /\ ~Live(Watches[m])'
                         /\ sub'[Watches[m]] \in {"none", "stopping"}
    BY <1>4, WatchesDiffer
  <1>7. CASE fallback = "none"
    <2>1. client' = ClosedAs(client, "failed", "kv") /\ hyd' = hyd
      BY <1>7 DEF WarmUpFails, AbandonWarmUp, ClosedAs
    <2>2. "failed" \in PCs
      BY DEF PCs
    <2>3. /\ client' \in ClientRecord /\ client'.pc = "failed"
          /\ client'.watch = FALSE /\ client'.conn # "open"
      BY <1>3, <2>1, <2>2, CloseConn
    <2>4. CCTypeOK'
      BY <1>1, <1>2, <1>3, <1>4, <1>5, <2>1, <2>3, TypeParts, TypePartsPrime
    <2>5. Untouched' /\ Stages' /\ Recorded'
      BY <1>6, <2>3 DEF Untouched, Stages, Recorded, WarmingUp, Hydrating
    <2>6. HydrationIsHonest' /\ NothingLeftOpen'
      BY <1>4, <2>3 DEF HydrationIsHonest, NothingLeftOpen, Live
    <2>7. QED
      BY <1>4, <2>4, <2>5, <2>6 DEF ControlInv
  <1>8. CASE fallback # "none"
    <2>1. /\ client' = ClosedAs(client, "hydrate", "kv")
          /\ hyd' = StartHydration(TRUE)
      BY <1>8 DEF WarmUpFails, AbandonWarmUp, ClosedAs
    <2>2. "hydrate" \in PCs
      BY DEF PCs
    <2>3. /\ client' \in ClientRecord /\ client'.pc = "hydrate" /\ client'.lastErr = "kv"
          /\ client'.watch = FALSE /\ client'.conn # "open"
      BY <1>3, <2>1, <2>2, CloseConn
    <2>4. /\ hyd' \in Hydration /\ hyd'.cold = TRUE /\ hyd'.attempted = 0 /\ hyd'.errs = 0
      BY <2>1, HydrationStarts
    <2>5. CCTypeOK'
      BY <1>1, <1>2, <1>4, <1>5, <2>3, <2>4, TypeParts, TypePartsPrime
    <2>6. Untouched' /\ Stages'
      BY <1>6, <2>3 DEF Untouched, Stages, WarmingUp
    <2>7. Recorded'
      BY <1>6, <2>3, <2>4 DEF Recorded, WarmingUp, Hydrating
    <2>8. HydrationIsHonest' /\ NothingLeftOpen'
      BY <2>3 DEF HydrationIsHonest, NothingLeftOpen
    <2>9. QED
      BY <1>4, <2>5, <2>6, <2>7, <2>8 DEF ControlInv
  <1>9. QED
    BY <1>7, <1>8

LEMMA CloseKeeps ==
  ASSUME ClientInv, Close
  PROVE  ClientInv'
  <1> USE DEF ClientInv
  <1>1. /\ UNCHANGED <<db, rowOf, commits, kv, cache, hyd, fallback, faults>>
        /\ sub' = Stopped /\ queue' = StoppedQueue
        /\ client' = [closeConn(client) EXCEPT !.pc = "closed"]
    BY DEF Close, worldVars
  <1>2. client \in ClientRecord
    BY TypeParts
  <1>3. /\ DataInv' /\ queue' \in [Buckets -> Seq(Entry)]
        /\ sub' \in [Buckets -> {"none", "stopping"}]
        /\ \A b \in Buckets : ~Live(b)'
    BY <1>1, StoppedKeeps
  <1>4. sub' \in [Buckets -> {"none", "draining", "running", "stopping"}]
    BY <1>3
  <1>5. \A m \in 1..3 : sub'[Watches[m]] \in {"none", "stopping"}
    BY <1>3, WatchesDiffer
  <1>6. /\ client' \in ClientRecord /\ client'.pc = "closed"
        /\ client'.watch = FALSE /\ client'.conn # "open"
    <2>1. "closed" \in PCs /\ client.lastErr \in {"none", "kv", "http"}
      BY <1>2 DEF PCs, ClientRecord
    <2>2. client' = ClosedAs(client, "closed", client.lastErr)
      BY <1>1, <1>2 DEF closeConn, ClientRecord, ClosedAs
    <2>3. QED
      BY <1>2, <2>1, <2>2, CloseConn
  <1>7. CCTypeOK'
    BY <1>1, <1>3, <1>4, <1>6, TypeParts, TypePartsPrime
  <1>8. Untouched' /\ Stages' /\ Recorded'
    BY <1>5, <1>6 DEF Untouched, Stages, Recorded, WarmingUp, Hydrating
  <1>9. HydrationIsHonest' /\ NothingLeftOpen'
    BY <1>3, <1>6 DEF HydrationIsHonest, NothingLeftOpen, Live
  <1>10. QED
    BY <1>3, <1>7, <1>8, <1>9 DEF ControlInv

LEMMA WarmKeeps ==
  ASSUME ClientInv, Warm
  PROVE  ClientInv'
  <1> USE DEF ClientInv
  <1>1. /\ UNCHANGED <<db, rowOf, commits, kv, sub, queue, cache, fallback, faults>>
        /\ client.pc = "warm"
    BY DEF Warm, worldVars
  <1>2. client \in ClientRecord /\ hyd \in Hydration
    BY TypeParts
  <1>3. /\ client.watch = TRUE /\ hyd.refused = FALSE
        /\ \A m \in 1..3 : sub[Watches[m]] = "running"
    BY <1>1 DEF ControlInv, Stages, Recorded
  <1>4. \A b \in Buckets : sub[b] = "running"
    BY <1>3, WatchesDiffer
  <1>5. PICK p \in {"hydrate", "ready"} :
           /\ client' = [client EXCEPT !.pc = p]
           /\ \/ p = "hydrate" /\ hyd' = StartHydration(FALSE)
              \/ p = "ready" /\ hyd' = hyd
    BY DEF Warm
  <1>6. client' \in ClientRecord /\ client'.pc = p /\ client'.watch = TRUE
    BY <1>2, <1>3, <1>5 DEF ClientRecord, PCs
  <1>7. /\ hyd' \in Hydration /\ hyd'.refused = FALSE
        /\ p = "hydrate" => hyd'.cold = FALSE /\ hyd'.attempted = 0 /\ hyd'.errs = 0
    BY <1>2, <1>3, <1>5, HydrationStarts
  <1>8. CCTypeOK'
    BY <1>1, <1>6, <1>7, TypeParts, TypePartsPrime
  <1>9. DataInv'
    BY <1>1, DataKept DEF Live
  <1>10. Untouched' /\ Stages'
    BY <1>1, <1>3, <1>5, <1>6 DEF Untouched, Stages, WarmingUp
  <1>11. Recorded'
    BY <1>5, <1>6, <1>7 DEF Recorded, WarmingUp, Hydrating
  <1>12. HydrationIsHonest' /\ NothingLeftOpen'
    BY <1>1, <1>4, <1>5, <1>6, <1>7 DEF HydrationIsHonest, NothingLeftOpen
  <1>13. QED
    BY <1>8, <1>9, <1>10, <1>11, <1>12 DEF ControlInv

-----------------------------------------------------------------------------
(* The hydration over HTTP.                                                *)

(* A step inside hydrate: the counters stay in order, the rest of the      *)
(* client is left alone.                                                   *)
LEMMA HydratingKeeps ==
  ASSUME ClientInv, Hydrating, UNCHANGED sub,
         NEW p \in {"hydrate", "fetch", "store"}, client' = [client EXCEPT !.pc = p],
         hyd'.cold = hyd.cold, hyd'.errs <= hyd'.attempted
  PROVE  client' \in ClientRecord /\ Untouched' /\ ControlInv'
  <1> USE DEF ClientInv
  <1>1. client \in ClientRecord
    BY TypeParts
  <1>2. /\ client' \in ClientRecord /\ client'.pc = p /\ client'.watch = client.watch
        /\ client'.lastErr = client.lastErr /\ client'.conn = client.conn
    BY <1>1 DEF ClientRecord, PCs
  <1>3. Untouched'
    BY <1>2 DEF Untouched, WarmingUp
  <1>4. \A m \in 1..3 : sub[Watches[m]] # "draining"
    BY DEF ControlInv, Stages, Hydrating
  <1>5. Stages'
    BY <1>2, <1>4 DEF ControlInv, Stages
  <1>6. Recorded'
    BY <1>2 DEF ControlInv, Recorded, WarmingUp, Hydrating, Live
  <1>7. HydrationIsHonest' /\ NothingLeftOpen'
    BY <1>2 DEF HydrationIsHonest, NothingLeftOpen
  <1>8. QED
    BY <1>2, <1>3, <1>5, <1>6, <1>7 DEF ControlInv

LEMMA CheckTargetKeeps ==
  ASSUME ClientInv, NEW i \in Item, CheckTarget(i)
  PROVE  ClientInv'
  <1> USE DEF ClientInv
  <1>1. /\ UNCHANGED <<db, rowOf, commits, kv, sub, queue, cache, fallback, faults>>
        /\ client.pc = "hydrate" /\ hyd' = [hyd EXCEPT !.todo = @ \ {i}, !.item = i]
    BY DEF CheckTarget, worldVars
  <1>2. client \in ClientRecord /\ hyd \in Hydration
    BY TypeParts
  <1>3. PICK p \in {"hydrate", "fetch"} : client' = [client EXCEPT !.pc = p]
    <2>1. client = [client EXCEPT !.pc = "hydrate"]
      BY <1>1, <1>2 DEF ClientRecord
    <2>2. QED
      BY <2>1 DEF CheckTarget
  <1>4. /\ hyd' \in Hydration /\ hyd'.cold = hyd.cold /\ hyd'.errs = hyd.errs
        /\ hyd'.attempted = hyd.attempted
    <2>1. hyd.todo \ {i} \in SUBSET Item
      BY <1>2 DEF Hydration
    <2>2. QED
      BY <1>1, <1>2, <2>1 DEF Hydration
  <1>5. hyd.errs <= hyd.attempted /\ Hydrating
    BY <1>1 DEF ControlInv, Recorded, Hydrating
  <1>6. client' \in ClientRecord /\ Untouched' /\ ControlInv'
    BY <1>1, <1>3, <1>4, <1>5, HydratingKeeps
  <1>7. CCTypeOK'
    BY <1>1, <1>4, <1>6, TypeParts, TypePartsPrime
  <1>8. QED
    BY <1>1, <1>6, <1>7, DataKept DEF Live

(* Whatever comes back, New looks at it in Store.                          *)
LEMMA FetchedKeeps ==
  ASSUME ClientInv, client.pc = "fetch", NEW a \in Answer,
         client' = [client EXCEPT !.pc = "store"], hyd' = [hyd EXCEPT !.answer = a],
         UNCHANGED <<db, rowOf, commits, kv, sub, queue, cache, fallback>>,
         faults' \in 0..MaxFaults
  PROVE  ClientInv'
  <1> USE DEF ClientInv
  <1>1. client \in ClientRecord /\ hyd \in Hydration
    BY TypeParts
  <1>2. /\ hyd' \in Hydration /\ hyd'.cold = hyd.cold /\ hyd'.errs = hyd.errs
        /\ hyd'.attempted = hyd.attempted
    BY <1>1 DEF Hydration
  <1>3. hyd.errs <= hyd.attempted /\ Hydrating
    BY DEF ControlInv, Recorded, Hydrating
  <1>4. client' \in ClientRecord /\ Untouched' /\ ControlInv'
    BY <1>2, <1>3, HydratingKeeps
  <1>5. CCTypeOK'
    BY <1>2, <1>4, TypeParts, TypePartsPrime
  <1>6. QED
    BY <1>4, <1>5, DataKept DEF Live

LEMMA AnsweredKeeps ==
  ASSUME ClientInv, Answered
  PROVE  ClientInv'
  <1> DEFINE row == RowFor(hyd.item)
             a == IF Found(row) THEN [status |-> "ok", item |-> row, value |-> db[row]]
                  ELSE [NoAnswer EXCEPT !.status = "notfound"]
  <1>1. /\ db \in [Item -> 0..MaxCommits] /\ rowOf \in [ById -> Item \cup {"gone"}]
        /\ hyd \in Hydration /\ faults \in 0..MaxFaults
    BY TypeParts DEF ClientInv
  <1>2. row \in Item \cup {"gone"}
    BY <1>1 DEF RowFor, Hydration
  <1>3. Found(row) => row \in Item /\ db[row] \in 0..MaxCommits
    BY <1>1, <1>2 DEF Found
  <1>4. [NoAnswer EXCEPT !.status = "notfound"] \in Answer
    BY NothingYet DEF Answer
  <1> HIDE DEF row
  <1>5. a \in Answer
    BY <1>3, <1>4 DEF Answer
  <1>6. /\ client.pc = "fetch" /\ client' = [client EXCEPT !.pc = "store"]
        /\ hyd' = [hyd EXCEPT !.answer = a]
        /\ UNCHANGED <<db, rowOf, commits, kv, sub, queue, cache, fallback, faults>>
    BY DEF Answered, worldVars, row
  <1> HIDE DEF a
  <1>7. QED
    BY <1>1, <1>5, <1>6, FetchedKeeps

LEMMA TurnedAwayKeeps ==
  ASSUME ClientInv, Refused \/ NotAnswered
  PROVE  ClientInv'
  <1>1. faults' \in 0..MaxFaults
    BY TypeParts, ClientBoundAssumption DEF ClientInv, Refused, NotAnswered
  <1>2. PICK st \in {"refused", "error"} :
           hyd' = [hyd EXCEPT !.answer = [NoAnswer EXCEPT !.status = st]]
    BY DEF Refused, NotAnswered
  <1> DEFINE a == [NoAnswer EXCEPT !.status = st]
  <1>3. a \in Answer /\ hyd' = [hyd EXCEPT !.answer = a]
    BY <1>2, NothingYet DEF Answer
  <1>4. /\ client.pc = "fetch" /\ client' = [client EXCEPT !.pc = "store"]
        /\ UNCHANGED <<db, rowOf, commits, kv, sub, queue, cache, fallback>>
    BY DEF Refused, NotAnswered, worldVars
  <1> HIDE DEF a
  <1>5. QED
    BY <1>1, <1>3, <1>4, FetchedKeeps

(* Only a row in scope is stored, and its entry is marked as coming from   *)
(* HTTP.                                                                   *)
LEMMA StoreKeeps ==
  ASSUME ClientInv, Store
  PROVE  ClientInv'
  <1> USE DEF ClientInv
  <1> DEFINE a == hyd.answer
             Held == [value : 0..MaxCommits, from : {"none", "kv", "http"}]
  <1>1. /\ UNCHANGED <<db, rowOf, commits, kv, sub, queue, fallback, faults>>
        /\ client.pc = "store" /\ client' = [client EXCEPT !.pc = "hydrate"]
    BY DEF Store, worldVars
  <1>2. /\ client \in ClientRecord /\ hyd \in Hydration /\ cache \in [Item -> Held]
    BY TypeParts
  <1>3. a \in Answer /\ hyd.errs \in Nat /\ hyd.attempted \in Nat /\ hyd.refused \in BOOLEAN
    BY <1>2 DEF Hydration
  <1>4. a.item \in Item /\ a.value \in 0..MaxCommits
    BY <1>3 DEF Answer
  <1>5. /\ cache' \in [Item -> Held]
        /\ \A i \in Item :
              \/ cache'[i] = cache[i]
              \/ cache'[i].from = "http" /\ inScope(i)
    <2>1. CASE Usable(a)
      <3>1. cache' = [cache EXCEPT ![a.item] = [value |-> a.value, from |-> "http"]]
        BY <2>1 DEF Store
      <3>2. QED
        BY <1>2, <1>4, <2>1, <3>1 DEF Usable
    <2>2. CASE ~Usable(a)
      BY <1>2, <2>2 DEF Store
    <2>3. QED
      BY <2>1, <2>2
  <1>6. hyd.errs <= hyd.attempted /\ Hydrating
    BY <1>1 DEF ControlInv, Recorded, Hydrating
  <1>7. /\ hyd' \in Hydration /\ hyd'.cold = hyd.cold /\ hyd'.errs <= hyd'.attempted
    <2> DEFINE n == IF Usable(a) THEN hyd.errs ELSE hyd.errs + 1
               r == hyd.refused \/ a.status = "refused"
    <2>1. hyd' = [hyd EXCEPT !.attempted = hyd.attempted + 1, !.errs = n,
                             !.refused = r, !.answer = NoAnswer]
      BY <1>2 DEF Store, Hydration
    <2>2. n \in Nat /\ n <= hyd.attempted + 1 /\ hyd.attempted + 1 \in Nat
      BY <1>3, <1>6
    <2>3. r \in BOOLEAN
      OBVIOUS
    <2> HIDE DEF n, r
    <2>4. QED
      BY <1>2, <2>1, <2>2, <2>3, NothingYet DEF Hydration
  <1>8. client' \in ClientRecord /\ Untouched' /\ ControlInv'
    BY <1>1, <1>6, <1>7, HydratingKeeps
  <1>9. CCTypeOK'
    BY <1>1, <1>5, <1>7, <1>8, TypeParts, TypePartsPrime
  <1>10. CacheStaysInScope'
    BY <1>5 DEF DataInv, CacheStaysInScope, cached
  <1>11. Revisions' /\ Subscribed'
    BY <1>1 DEF DataInv, Revisions, Subscribed
  <1>12. OnItsWay'
    BY <1>1, <1>5 DEF DataInv, OnItsWay, Shows, Pending, Live
  <1>13. QED
    BY <1>8, <1>9, <1>10, <1>11, <1>12 DEF DataInv

(* The end of the pass: a cold start that got nothing, or was refused, is  *)
(* a failed New.                                                           *)
LEMMA HydrateDoneKeeps ==
  ASSUME ClientInv, HydrateDone
  PROVE  ClientInv'
  <1> USE DEF ClientInv
  <1> DEFINE failed == HydrationFailed
             u == client.httpUsed \/ hyd.errs < hyd.attempted
             x == IF failed \/ hyd.errs > 0 THEN "http" ELSE client.lastErr
             p == IF hyd.cold /\ failed THEN "failed" ELSE "ready"
  <1>1. /\ UNCHANGED <<db, rowOf, commits, kv, sub, queue, cache, fallback, faults>>
        /\ client.pc = "hydrate" /\ hyd' = [NoHydration EXCEPT !.refused = hyd.refused]
    BY DEF HydrateDone, worldVars
  <1>2. client \in ClientRecord /\ hyd \in Hydration
    BY TypeParts
  <1>3. /\ hyd.errs \in Nat /\ hyd.attempted \in Nat /\ hyd.refused \in BOOLEAN
        /\ hyd.cold \in BOOLEAN /\ client.httpUsed \in BOOLEAN /\ client.watch \in BOOLEAN
        /\ client.lastErr \in {"none", "kv", "http"}
    BY <1>2 DEF Hydration, ClientRecord
  <1>4. /\ hyd.errs <= hyd.attempted
        /\ hyd.cold = TRUE <=> client.watch = FALSE
        /\ client.watch = FALSE => /\ client.lastErr # "none" /\ client.conn # "open"
                                   /\ \A m \in 1..3 : ~Live(Watches[m])
    BY <1>1 DEF ControlInv, Recorded, Hydrating
  <1>5. hyd' \in Hydration /\ hyd'.refused = hyd.refused
    BY <1>1, <1>3, NothingYet DEF Hydration
  <1>6. client' = [client EXCEPT !.httpUsed = u, !.lastErr = x, !.pc = p]
    BY <1>2 DEF HydrateDone, ClientRecord
  <1>7. u \in BOOLEAN /\ x \in {"none", "kv", "http"} /\ p \in {"failed", "ready"} /\ p \in PCs
    BY <1>3 DEF PCs
  <1>8. failed = FALSE => hyd.attempted # 0 /\ hyd.refused = FALSE /\ hyd.errs < hyd.attempted
    BY <1>3, <1>4 DEF HydrationFailed
  <1>9. hyd.refused = TRUE => x = "http"
    BY DEF HydrationFailed
  <1>10. p = "failed" => hyd.cold = TRUE
    BY <1>3
  <1>11. p = "ready" /\ hyd.cold = TRUE => failed = FALSE
    BY <1>3 DEF HydrationFailed
  <1>12. hyd.errs < hyd.attempted => u = TRUE
    OBVIOUS
  <1>13. client.lastErr # "none" => x # "none"
    OBVIOUS
  <1> HIDE DEF u, x, p, failed
  <1>14. /\ client' \in ClientRecord /\ client'.pc = p /\ client'.lastErr = x
         /\ client'.httpUsed = u /\ client'.watch = client.watch /\ client'.conn = client.conn
    BY <1>2, <1>6, <1>7 DEF ClientRecord
  <1>15. CCTypeOK'
    BY <1>1, <1>5, <1>14, TypeParts, TypePartsPrime
  <1>16. DataInv'
    BY <1>1, DataKept DEF Live
  <1>17. Untouched'
    BY <1>7, <1>14 DEF Untouched, WarmingUp
  <1>18. /\ \A m \in 1..3 : sub[Watches[m]] # "draining"
         /\ client.watch = TRUE => \A m \in 1..3 : sub[Watches[m]] = "running"
    BY <1>1 DEF ControlInv, Stages
  <1>19. Stages'
    BY <1>1, <1>7, <1>14, <1>18 DEF Stages
  <1>20. p = "failed" => client.watch = FALSE
    BY <1>4, <1>10
  <1>21. Recorded'
    BY <1>3, <1>7, <1>14, <1>20 DEF Recorded, WarmingUp, Hydrating
  <1>22. HydrationIsHonest'
    <2> SUFFICES ASSUME p = "ready"
                 PROVE  /\ client.watch = FALSE => u = TRUE /\ x # "none" /\ hyd.refused = FALSE
                        /\ hyd.refused = TRUE => x = "http"
                        /\ client.watch = TRUE => \A b \in Buckets : sub[b] = "running"
      BY <1>1, <1>3, <1>5, <1>7, <1>14 DEF HydrationIsHonest
    <2>1. ASSUME client.watch = FALSE PROVE u = TRUE /\ x # "none" /\ hyd.refused = FALSE
      <3>1. failed = FALSE
        BY <1>4, <1>11, <2>1
      <3>2. QED
        BY <1>4, <1>8, <1>12, <1>13, <2>1, <3>1
    <2>2. QED
      BY <1>9, <1>18, <2>1, WatchesDiffer
  <1>23. NothingLeftOpen'
    <2>1. ASSUME p = "failed" PROVE client.conn # "open" /\ \A b \in Buckets : ~Live(b)
      BY <1>4, <1>20, <2>1, WatchesDiffer
    <2>2. QED
      BY <1>1, <1>7, <1>14, <2>1 DEF NothingLeftOpen, Live
  <1>24. QED
    BY <1>15, <1>16, <1>17, <1>19, <1>21, <1>22, <1>23 DEF ControlInv

-----------------------------------------------------------------------------
(* The specification.                                                      *)

LEMMA ClientStarts ==
  ASSUME CCInit
  PROVE  ClientInv
  <1>1. PICK stored \in SUBSET (Item \ {"foreign"}), published \in SUBSET (Item \ {"foreign"}) :
           /\ published \subseteq stored
           /\ db = [i \in Item |-> IF i \in stored THEN 1 ELSE 0]
           /\ kv = [i \in Item |-> IF i \in published THEN [value |-> 1, revision |-> Age(i)]
                                   ELSE [value |-> 0, revision |-> 0]]
           /\ rowOf = [t \in ById |-> IF t \in stored THEN t ELSE "gone"]
    BY DEF CCInit
  <1>2. /\ \A b \in Buckets : sub[b] = "none" /\ queue[b] = <<>>
        /\ \A i \in Item : cache[i] = NoEntry
        /\ client = NewClient /\ hyd = NoHydration
    BY DEF CCInit
  <1>3. 0 \in 0..MaxCommits /\ 1 \in 0..MaxCommits /\ 0 \in 0..MaxFaults
    BY ClientBoundAssumption
  <1>4. \A i \in Item : Age(i) \in 1..4
    BY ItemAssumption DEF Age
  <1>5. \A i, j \in Item : i # j => Age(i) # Age(j)
    BY ItemAssumption DEF Age
  <1>6. db \in [Item -> 0..MaxCommits] /\ rowOf \in [ById -> Item \cup {"gone"}]
    BY <1>1, <1>3 DEF ById
  <1>7. /\ \A i \in Item : kv[i] \in [value : 0..MaxCommits, revision : Nat]
        /\ \A i \in Item : i \in published => kv[i].revision = Age(i)
        /\ \A i \in Item : i \notin published => kv[i].revision = 0 /\ kv[i].value = 0
    BY <1>1, <1>3, <1>4
  <1>8. kv \in [Item -> [value : 0..MaxCommits, revision : Nat]]
    BY <1>1, <1>7
  <1>9. CCTypeOK
    <2>1. /\ sub \in [Buckets -> {"none", "draining", "running", "stopping"}]
          /\ queue \in [Buckets -> Seq(Entry)]
          /\ cache \in [Item -> [value : 0..MaxCommits, from : {"none", "kv", "http"}]]
          /\ commits \in 0..MaxCommits /\ faults \in 0..MaxFaults /\ fallback \in Fallbacks
      BY <1>3, EntryTyped DEF CCInit
    <2>2. client \in ClientRecord /\ hyd \in Hydration
      BY <1>2, NothingYet
    <2>3. QED
      BY <1>6, <1>8, <2>1, <2>2, TypeParts
  <1>10. Revisions
    BY <1>4, <1>5, <1>7 DEF Revisions
  <1>11. Subscribed /\ OnItsWay
    BY <1>2, BucketOfItem DEF Subscribed, OnItsWay, Live
  <1>12. CacheStaysInScope
    BY <1>2, EntryTyped DEF CacheStaysInScope, cached
  <1>13. Untouched
    BY <1>2 DEF Untouched
  <1>14. \A m \in 1..3 : sub[Watches[m]] = "none"
    BY <1>2, WatchesDiffer
  <1>15. ControlInv
    <2>1. Stages /\ Recorded
      BY <1>2, <1>14, NothingYet DEF Stages, Recorded, WarmingUp, Hydrating
    <2>2. HydrationIsHonest /\ NothingLeftOpen
      BY <1>2, NothingYet DEF HydrationIsHonest, NothingLeftOpen
    <2>3. QED
      BY <2>1, <2>2 DEF ControlInv
  <1>16. QED
    BY <1>9, <1>10, <1>11, <1>12, <1>13, <1>15 DEF ClientInv, DataInv

LEMMA ClientStep ==
  ASSUME ClientInv, [CCNext]_ccVars
  PROVE  ClientInv'
  <1>1. CASE World
    BY <1>1, CommitRowKeeps, PublishRowKeeps, MoveRowKeeps, ReconnectKeeps DEF World
  <1>2. CASE Caller
    BY <1>2, ConnectKeeps, OpenWatchKeeps, DrainKeeps, DrainDoneKeeps, WarmKeeps,
       CheckTargetKeeps, AnsweredKeeps, TurnedAwayKeeps, StoreKeeps, HydrateDoneKeeps DEF Caller
  <1>3. CASE Background
    BY <1>3, DeliverKeeps, WatchEndsKeeps DEF Background
  <1>4. CASE New \/ Close \/ WarmUpFails \/ NotAnswered
    BY <1>4, NewKeeps, CloseKeeps, WarmUpFailsKeeps, TurnedAwayKeeps
  <1>5. CASE UNCHANGED ccVars
    <2>1. UNCHANGED <<db, rowOf, commits, kv, sub, queue, cache, client, hyd, fallback, faults>>
      BY <1>5 DEF ccVars, worldVars, clientVars
    <2>2. CCTypeOK'
      BY <2>1, TypeParts, TypePartsPrime DEF ClientInv
    <2>3. QED
      BY <2>1, <2>2, DataKept, ControlKept, UntouchedKept DEF ClientInv, Live
  <1>6. QED
    BY <1>1, <1>2, <1>3, <1>4, <1>5 DEF CCNext, Library

(* The inductive invariant holds of every behaviour of a client.           *)
THEOREM ClientInvariance == CCSpec => []ClientInv
  <1>1. CCInit => ClientInv
    BY ClientStarts
  <1>2. ClientInv /\ [CCNext]_ccVars => ClientInv'
    BY ClientStep
  <1>3. QED
    BY <1>1, <1>2, PTL DEF CCSpec

(* Every part of a client, its watchers and its hydration keeps its type,  *)
(* whatever NATS and the admin API do.                                     *)
THEOREM ClientTypeCorrect == CCSpec => []CCTypeOK
  BY ClientInvariance, PTL DEF ClientInv

(* The watchers of connectAndWatch lose nothing: for an item not served    *)
(* from HTTP, the last update on its way, or the cache when there is none, *)
(* is what KV holds.  It covers the initial values, the hand-over to the   *)
(* background goroutine, deletes and reconnects.                           *)
THEOREM WatchLosesNothing == CCSpec => []NothingIsLost
  <1>1. ASSUME ClientInv PROVE NothingIsLost
    <2> SUFFICES ASSUME NEW i \in Item, sub[BucketOf(i)] = "running", inScope(i)
                 PROVE  IF Pending(i) # {}
                          THEN queue[BucketOf(i)][Latest(Pending(i))].value = kv[i].value
                          ELSE cache[i].from = "http" \/ cache[i].value = kv[i].value
      BY DEF NothingIsLost
    <2>1. Shows(i)
      BY <1>1 DEF ClientInv, DataInv, OnItsWay, Live
    <2> DEFINE q == queue[BucketOf(i)]
    <2>2. q \in Seq(Entry)
      BY <1>1, TypeParts, BucketOfItem DEF ClientInv
    <2> HIDE DEF q
    <2>3. Len(q) \in Nat /\ DOMAIN q = 1..Len(q)
      BY <2>2
    <2>4. Pending(i) \in SUBSET (1..Len(q))
      BY <2>3 DEF Pending, q
    <2>5. CASE Pending(i) # {}
      <3>1. PICK n \in Pending(i) : \A m \in Pending(i) : m <= n
        BY <2>3, <2>4, <2>5, LastPosition
      <3>2. Latest(Pending(i)) \in Pending(i) /\ \A m \in Pending(i) : m <= Latest(Pending(i))
        BY <3>1 DEF Latest
      <3>3. QED
        BY <2>1, <2>5, <3>2 DEF Shows
    <2>6. QED
      BY <2>1, <2>5 DEF Shows
  <1>2. QED
    BY <1>1, ClientInvariance, PTL

(* Neither a watcher nor the hydration ever puts the settings of another   *)
(* microservice into the cache of a scoped client.                         *)
THEOREM CacheInScope == CCSpec => []CacheStaysInScope
  BY ClientInvariance, PTL DEF ClientInv, DataInv

(* A client that New handed out without watchers was hydrated and says why *)
(* it has none; a refused credential never passes for a success.           *)
THEOREM HydrationHonest == CCSpec => []HydrationIsHonest
  BY ClientInvariance, PTL DEF ClientInv, ControlInv

(* A failed New and a Close leave no connection and no watcher open.       *)
THEOREM NothingStaysOpen == CCSpec => []NothingLeftOpen
  BY ClientInvariance, PTL DEF ClientInv, ControlInv

-----------------------------------------------------------------------------
(* TestConsole: its inductive invariant, in parts.                         *)

(* A browser is in the map while its handler streams, and its channel is   *)
(* open until the handler closes it: unsubscribe has two steps.            *)
HubInv ==
    /\ hub \subseteq Browser
    /\ sse \in [Browser -> {"idle", "streaming", "leaving"}]
    /\ open \in [Browser -> BOOLEAN]
    /\ \A b \in Browser : b \in hub => sse[b] = "streaming"
    /\ \A b \in Browser : sse[b] \in {"streaming", "leaving"} => open[b] = TRUE

(* New hands a client out only with its watchers running: the console has  *)
(* no fallback to hydrate from, so nothing else leads to "ready".          *)
WatchInv ==
    /\ client \in ClientRecord
    /\ client.pc \in {"warm", "ready"} => client.watch = TRUE

ConsumerRecord == [pc : {"connecting", "waiting", "done"}, held : BOOLEAN,
                   lastErr : {"none", "error", "gave up"}]

(* A client held is one that connected; the loop ended without one only    *)
(* past its window or on a signal.                                         *)
ConsumerInv ==
    /\ cons \in ConsumerRecord
    /\ signalled \in BOOLEAN
    /\ Alive /\ cons.held = TRUE => client.pc = "ready" /\ cons.pc = "done"
    /\ Alive /\ cons.held = FALSE /\ cons.pc = "done" =>
          cons.lastErr = "gave up" \/ signalled = TRUE

ConsoleInv == HubInv /\ WatchInv /\ ConsumerInv

-----------------------------------------------------------------------------
LEMMA HubKept ==
  ASSUME HubInv, UNCHANGED <<sse, hub, open>>
  PROVE  HubInv'
  BY DEF HubInv

LEMMA ClientKept ==
  ASSUME WatchInv, UNCHANGED client
  PROVE  WatchInv'
  BY DEF WatchInv

LEMMA ConsumerKept ==
  ASSUME ConsumerInv, UNCHANGED <<cons, signalled, run>>, UNCHANGED client \/ client.pc # "ready"
  PROVE  ConsumerInv'
  BY DEF ConsumerInv, Alive

-----------------------------------------------------------------------------
(* The handlers.                                                           *)

LEMMA SubscribeKeeps ==
  ASSUME ConsoleInv, NEW b \in Browser, Subscribe(b)
  PROVE  ConsoleInv'
  <1>1. UNCHANGED <<client, cons, signalled, run>>
    BY DEF Subscribe, ccVars, clientVars
  <1>2. HubInv'
    BY DEF ConsoleInv, HubInv, Subscribe, subscribe
  <1>3. QED
    BY <1>1, <1>2, ClientKept, ConsumerKept DEF ConsoleInv

LEMMA SendEventKeeps ==
  ASSUME ConsoleInv, NEW b \in Browser, SendEvent(b)
  PROVE  ConsoleInv'
  <1>1. UNCHANGED <<client, cons, signalled, run, sse, hub, open>>
    BY DEF SendEvent, ccVars, clientVars
  <1>2. QED
    BY <1>1, HubKept, ClientKept, ConsumerKept DEF ConsoleInv

LEMMA UnsubscribeKeeps ==
  ASSUME ConsoleInv, NEW b \in Browser, Unsubscribe(b)
  PROVE  ConsoleInv'
  <1>1. UNCHANGED <<client, cons, signalled, run>>
    BY DEF Unsubscribe, ccVars, clientVars
  <1>2. HubInv'
    BY DEF ConsoleInv, HubInv, Unsubscribe
  <1>3. QED
    BY <1>1, <1>2, ClientKept, ConsumerKept DEF ConsoleInv

LEMMA CloseChannelKeeps ==
  ASSUME ConsoleInv, NEW b \in Browser, CloseChannel(b)
  PROVE  ConsoleInv'
  <1>1. UNCHANGED <<client, cons, signalled, run>>
    BY DEF CloseChannel, ccVars, clientVars
  <1>2. HubInv'
    BY DEF ConsoleInv, HubInv, CloseChannel
  <1>3. QED
    BY <1>1, <1>2, ClientKept, ConsumerKept DEF ConsoleInv

-----------------------------------------------------------------------------
(* The library.                                                            *)

(* A step of the library that moves New along keeps the record, and only   *)
(* Warm, which has the watchers running, ends in "ready".                  *)
LEMMA DrainDoneMoves ==
  ASSUME WatchInv, DrainDone
  PROVE  WatchInv' /\ client.pc # "ready"
  <1>1. /\ client \in ClientRecord /\ client.at \in 1..3 /\ client.pc = "drain"
        /\ client' = IF client.at < 3 THEN [client EXCEPT !.pc = "open", !.at = @ + 1]
                      ELSE [client EXCEPT !.pc = "warm", !.watch = TRUE]
    BY DEF WatchInv, DrainDone, ClientRecord
  <1>2. CASE client.at < 3
    <2>1. client' = [client EXCEPT !.pc = "open", !.at = client.at + 1]
      BY <1>1, <1>2 DEF ClientRecord
    <2>2. client.at + 1 \in 1..3 /\ "open" \in PCs
      BY <1>1, <1>2 DEF PCs
    <2>3. client' \in ClientRecord /\ client'.pc = "open"
      BY <1>1, <2>1, <2>2 DEF ClientRecord
    <2>4. QED
      BY <1>1, <2>3 DEF WatchInv
  <1>3. CASE ~(client.at < 3)
    <2>1. client' = [client EXCEPT !.pc = "warm", !.watch = TRUE] /\ "warm" \in PCs
      BY <1>1, <1>3 DEF PCs
    <2>2. client' \in ClientRecord /\ client'.watch = TRUE
      BY <1>1, <2>1 DEF ClientRecord
    <2>3. QED
      BY <1>1, <2>2 DEF WatchInv
  <1>4. QED
    BY <1>2, <1>3

LEMMA AbandonMoves ==
  ASSUME WatchInv, AbandonWarmUp
  PROVE  WatchInv' /\ client.pc # "ready"
  <1>1. client \in ClientRecord /\ client.pc \in {"connect", "open", "drain"}
    BY DEF WatchInv, AbandonWarmUp
  <1>2. PICK p \in {"failed", "hydrate"} : client' = ClosedAs(client, p, "kv")
    BY DEF AbandonWarmUp, ClosedAs
  <1>3. p \in PCs
    BY DEF PCs
  <1>4. client' \in ClientRecord /\ client'.pc = p
    BY <1>1, <1>2, <1>3, CloseConn
  <1>5. QED
    BY <1>1, <1>4 DEF WatchInv

LEMMA SilentMoves ==
  ASSUME WatchInv, Silent
  PROVE  WatchInv' /\ (UNCHANGED client \/ client.pc # "ready")
  <1>1. CASE Connect
    BY <1>1 DEF WatchInv, Connect, ClientRecord, PCs
  <1>2. CASE OpenWatch
    BY <1>2 DEF WatchInv, OpenWatch, ClientRecord, PCs
  <1>3. CASE DrainDone
    BY <1>3, DrainDoneMoves
  <1>4. CASE Warm
    <2>1. client \in ClientRecord /\ client.pc = "warm" /\ client.watch = TRUE
      BY <1>4 DEF WatchInv, Warm
    <2>2. PICK p \in {"hydrate", "ready"} : client' = [client EXCEPT !.pc = p]
      BY <1>4 DEF Warm
    <2>3. QED
      BY <2>1, <2>2 DEF WatchInv, ClientRecord, PCs
  <1>5. CASE WarmUpFails
    BY <1>5, AbandonMoves DEF WarmUpFails
  <1>6. CASE \E b \in Buckets : Deliver(b) \/ WatchEnds(b)
    <2>1. UNCHANGED client
      BY <1>6 DEF Deliver, WatchEnds
    <2>2. QED
      BY <2>1, ClientKept
  <1>7. QED
    BY <1>1, <1>2, <1>3, <1>4, <1>5, <1>6 DEF Silent

LEMMA NotifiesMoves ==
  ASSUME Notifies
  PROVE  UNCHANGED client
  BY DEF Notifies, Drain, Deliver

LEMMA LibraryStepKeeps ==
  ASSUME ConsoleInv, LibraryStep
  PROVE  ConsoleInv'
  <1>1. UNCHANGED <<cons, signalled, run, sse, hub, open>>
    BY DEF LibraryStep
  <1>2. WatchInv' /\ (UNCHANGED client \/ client.pc # "ready")
    BY SilentMoves, NotifiesMoves, ClientKept DEF LibraryStep, ConsoleInv
  <1>3. QED
    BY <1>1, <1>2, HubKept, ConsumerKept DEF ConsoleInv

-----------------------------------------------------------------------------
(* The connect loop.                                                       *)

LEMMA AttemptKeeps ==
  ASSUME ConsoleInv, Attempt
  PROVE  ConsoleInv'
  <1>1. UNCHANGED <<cons, signalled, run, sse, hub, open>> /\ client.pc # "ready"
    BY DEF Attempt, consoleVars, New
  <1>2. PICK p \in {"connect", "failed"} : client' = [NewClient EXCEPT !.pc = p]
    BY DEF Attempt, New
  <1>3. p \in PCs
    BY DEF PCs
  <1>4. client' \in ClientRecord /\ client'.pc = p
    BY <1>2, <1>3, NothingYet DEF ClientRecord
  <1>5. WatchInv'
    BY <1>4 DEF WatchInv
  <1>6. QED
    BY <1>1, <1>5, HubKept, ConsumerKept DEF ConsoleInv

LEMMA ConnectedKeeps ==
  ASSUME ConsoleInv, Connected
  PROVE  ConsoleInv'
  <1>1. UNCHANGED <<client, signalled, run, sse, hub, open>>
    BY DEF Connected, ccVars, clientVars
  <1>2. ConsumerInv'
    BY <1>1 DEF ConsoleInv, ConsumerInv, ConsumerRecord, Connected, Alive
  <1>3. QED
    BY <1>1, <1>2, HubKept, ClientKept DEF ConsoleInv

LEMMA AttemptFailedKeeps ==
  ASSUME ConsoleInv, AttemptFailed
  PROVE  ConsoleInv'
  <1>1. /\ UNCHANGED <<signalled, run, sse, hub, open>> /\ client' = NewClient
        /\ cons' = AfterFailure /\ client.pc = "failed" /\ Alive
    BY DEF AttemptFailed
  <1>2. cons \in ConsumerRecord /\ signalled \in BOOLEAN
    BY DEF ConsoleInv, ConsumerInv
  <1>3. cons.held = FALSE
    <2>1. cons.held # TRUE
      BY <1>1 DEF ConsoleInv, ConsumerInv
    <2>2. QED
      BY <1>2, <2>1 DEF ConsumerRecord
  <1>4. /\ cons' \in ConsumerRecord /\ cons'.held = FALSE
        /\ cons'.pc = "done" => cons'.lastErr = "gave up" \/ signalled = TRUE
    <2>1. CASE signalled = TRUE
      <3>1. cons' = [cons EXCEPT !.pc = "done"]
        BY <1>1, <2>1 DEF AfterFailure
      <3>2. QED
        BY <1>2, <1>3, <2>1, <3>1 DEF ConsumerRecord
    <2>2. CASE signalled = FALSE
      <3>1. \/ cons' = [cons EXCEPT !.pc = "done", !.lastErr = "gave up"]
            \/ cons' = [cons EXCEPT !.pc = "waiting", !.lastErr = "error"]
        BY <1>1, <2>2 DEF AfterFailure
      <3>2. QED
        BY <1>2, <1>3, <3>1 DEF ConsumerRecord
    <2>3. QED
      BY <1>2, <2>1, <2>2
  <1>5. ConsumerInv'
    BY <1>1, <1>2, <1>4 DEF ConsumerInv
  <1>6. WatchInv'
    BY <1>1, NothingYet DEF WatchInv
  <1>7. QED
    BY <1>1, <1>5, <1>6, HubKept DEF ConsoleInv

LEMMA WaitedKeeps ==
  ASSUME ConsoleInv, Waited
  PROVE  ConsoleInv'
  <1>1. /\ UNCHANGED <<client, signalled, run, sse, hub, open>> /\ Alive
        /\ cons.pc = "waiting"
        /\ cons' = [cons EXCEPT !.pc = IF signalled THEN "done" ELSE "connecting"]
    BY DEF Waited, ccVars, clientVars
  <1>2. cons \in ConsumerRecord /\ signalled \in BOOLEAN
    BY DEF ConsoleInv, ConsumerInv
  <1>3. cons.held = FALSE
    <2>1. cons.held # TRUE
      BY <1>1 DEF ConsoleInv, ConsumerInv
    <2>2. QED
      BY <1>2, <2>1 DEF ConsumerRecord
  <1>4. /\ cons' \in ConsumerRecord /\ cons'.held = FALSE
        /\ cons'.pc = "done" => signalled = TRUE
    <2>1. CASE signalled = TRUE
      BY <1>1, <1>2, <1>3, <2>1 DEF ConsumerRecord
    <2>2. CASE signalled = FALSE
      BY <1>1, <1>2, <1>3, <2>2 DEF ConsumerRecord
    <2>3. QED
      BY <1>2, <2>1, <2>2
  <1>5. ConsumerInv'
    BY <1>1, <1>2, <1>4 DEF ConsumerInv
  <1>6. QED
    BY <1>1, <1>5, HubKept, ClientKept DEF ConsoleInv

LEMMA AttemptCancelledKeeps ==
  ASSUME ConsoleInv, AttemptCancelled
  PROVE  ConsoleInv'
  <1>1. UNCHANGED <<cons, signalled, run, sse, hub, open>>
    BY DEF AttemptCancelled, consoleVars
  <1>2. WatchInv' /\ client.pc # "ready"
    BY AbandonMoves DEF AttemptCancelled, ConsoleInv
  <1>3. QED
    BY <1>1, <1>2, HubKept, ConsumerKept DEF ConsoleInv

-----------------------------------------------------------------------------
(* run.                                                                    *)

LEMMA SignalKeeps ==
  ASSUME ConsoleInv, Signal
  PROVE  ConsoleInv'
  <1>1. UNCHANGED <<client, cons, run, sse, hub, open>> /\ signalled' = TRUE
    BY DEF Signal, ccVars, clientVars
  <1>2. ConsumerInv'
    BY <1>1 DEF ConsoleInv, ConsumerInv, Alive
  <1>3. QED
    BY <1>1, <1>2, HubKept, ClientKept DEF ConsoleInv

(* A process that has exited answers nothing.                              *)
LEMMA RunKeeps ==
  ASSUME ConsoleInv, ServeFails \/ BeginShutdown \/ ShutdownDone \/ ShutdownTimesOut
  PROVE  ConsoleInv'
  <1>1. UNCHANGED <<client, cons, signalled, sse, hub, open>> /\ Alive
    BY DEF ServeFails, BeginShutdown, ShutdownDone, ShutdownTimesOut, ccVars, clientVars, Alive
  <1>2. ConsumerInv'
    BY <1>1 DEF ConsoleInv, ConsumerInv
  <1>3. QED
    BY <1>1, <1>2, HubKept, ClientKept DEF ConsoleInv

LEMMA CloseConsumerKeeps ==
  ASSUME ConsoleInv, CloseConsumer
  PROVE  ConsoleInv'
  <1>1. UNCHANGED <<signalled, sse, hub, open>> /\ run' = "exit"
    BY DEF CloseConsumer
  <1>2. cons \in ConsumerRecord /\ client \in ClientRecord /\ signalled \in BOOLEAN
    BY DEF ConsoleInv, ConsumerInv, WatchInv
  <1>3. cons' \in ConsumerRecord
    BY <1>2 DEF CloseConsumer, ConsumerRecord
  <1>4. ConsumerInv'
    BY <1>1, <1>2, <1>3 DEF ConsumerInv, Alive
  <1>5. CASE UNCHANGED client
    BY <1>1, <1>4, <1>5, HubKept, ClientKept DEF ConsoleInv
  <1>6. CASE client' = [closeConn(client) EXCEPT !.pc = "closed"]
    <2>1. client' = ClosedAs(client, "closed", client.lastErr)
      BY <1>2, <1>6 DEF closeConn, ClientRecord, ClosedAs
    <2>2. "closed" \in PCs /\ client.lastErr \in {"none", "kv", "http"}
      BY <1>2 DEF PCs, ClientRecord
    <2>3. client' \in ClientRecord /\ client'.pc = "closed"
      BY <1>2, <2>1, <2>2, CloseConn
    <2>4. QED
      BY <1>1, <1>4, <2>3, HubKept DEF ConsoleInv, WatchInv
  <1>7. QED
    BY <1>5, <1>6 DEF CloseConsumer

-----------------------------------------------------------------------------
LEMMA ConsoleStarts ==
  ASSUME ConsoleInit
  PROVE  ConsoleInv
  <1>1. HubInv
    BY DEF ConsoleInit, HubInv
  <1>2. client = NewClient
    BY DEF ConsoleInit, CCInit
  <1>3. WatchInv
    BY <1>2, NothingYet DEF WatchInv
  <1>4. ConsumerInv
    BY DEF ConsoleInit, ConsumerInv, ConsumerRecord, NoConsumer
  <1>5. QED
    BY <1>1, <1>3, <1>4 DEF ConsoleInv

LEMMA ConsoleStep ==
  ASSUME ConsoleInv, [ConsoleNext]_allVars
  PROVE  ConsoleInv'
  <1>1. CASE World /\ UNCHANGED consoleVars
    <2>1. UNCHANGED client
      BY <1>1 DEF World, CommitRow, PublishRow, MoveRow, Reconnect, clientVars
    <2>2. UNCHANGED <<cons, signalled, run, sse, hub, open>>
      BY <1>1 DEF consoleVars
    <2>3. QED
      BY <2>1, <2>2, HubKept, ClientKept, ConsumerKept DEF ConsoleInv
  <1>2. CASE LibraryStep \/ Attempt \/ Connected \/ AttemptFailed \/ Waited \/ AttemptCancelled
    BY <1>2, LibraryStepKeeps, AttemptKeeps, ConnectedKeeps, AttemptFailedKeeps, WaitedKeeps,
       AttemptCancelledKeeps
  <1>3. CASE \E b \in Browser : Subscribe(b) \/ Handler(b)
    BY <1>3, SubscribeKeeps, SendEventKeeps, UnsubscribeKeeps, CloseChannelKeeps DEF Handler
  <1>4. CASE Signal \/ ServeFails \/ BeginShutdown \/ ShutdownDone \/ ShutdownTimesOut \/ CloseConsumer
    BY <1>4, SignalKeeps, RunKeeps, CloseConsumerKeeps
  <1>5. CASE WindowExpires \/ UNCHANGED allVars
    <2>1. UNCHANGED <<client, cons, signalled, run, sse, hub, open>>
      BY <1>5 DEF WindowExpires, allVars, ccVars, clientVars, consoleVars
    <2>2. QED
      BY <2>1, HubKept, ClientKept, ConsumerKept DEF ConsoleInv
  <1>6. QED
    BY <1>1, <1>2, <1>3, <1>4, <1>5 DEF ConsoleNext

(* The inductive invariant holds of every behaviour of the console.        *)
THEOREM ConsoleInvariance == ConsoleSpec => []ConsoleInv
  <1>1. ConsoleInit => ConsoleInv
    BY ConsoleStarts
  <1>2. ConsoleInv /\ [ConsoleNext]_allVars => ConsoleInv'
    BY ConsoleStep
  <1>3. QED
    BY <1>1, <1>2, PTL DEF ConsoleSpec

(* broadcast never sends on a channel that unsubscribe closed, however     *)
(* many browsers come and go while the watchers push.                      *)
THEOREM ChannelsAreOpen == ConsoleSpec => []NoSendOnClosedChannel
  <1>1. ConsoleInv => NoSendOnClosedChannel
    BY DEF ConsoleInv, HubInv, NoSendOnClosedChannel
  <1>2. QED
    BY <1>1, ConsoleInvariance, PTL

(* What /api/state serves is a live cache, or the console says it has      *)
(* none and why.                                                           *)
THEOREM StateHonest == ConsoleSpec => []StateIsHonest
  <1>1. ASSUME ConsoleInv PROVE StateIsHonest
    <2>1. cons \in ConsumerRecord /\ signalled \in BOOLEAN
      BY <1>1 DEF ConsoleInv, ConsumerInv
    <2>2. cons.held \in BOOLEAN
      BY <2>1 DEF ConsumerRecord
    <2>3. Alive /\ cons.held = TRUE => client.watch = TRUE
      BY <1>1 DEF ConsoleInv, ConsumerInv, WatchInv
    <2>4. Alive /\ cons.held = FALSE /\ cons.pc = "done" =>
             cons.lastErr = "gave up" \/ signalled = TRUE
      BY <1>1 DEF ConsoleInv, ConsumerInv
    <2>5. QED
      BY <2>2, <2>3, <2>4 DEF StateIsHonest
  <1>2. QED
    BY <1>1, ConsoleInvariance, PTL

(* forward passes a write on only for a page of this machine, of the       *)
(* console or of ALLOWED_HOSTS and ALLOWED_ORIGINS, whatever Host says.    *)
THEOREM WritesFromOwnPages == ConsoleSpec => []WritesComeFromOwnPages
  <1>1. WritesComeFromOwnPages
    <2> SUFFICES ASSUME NEW page \in Name, NEW host \in Name, NEW json \in BOOLEAN,
                        forward([host |-> host, origin |-> page, proxied |-> TRUE,
                                 json |-> json, tooLarge |-> FALSE]) = 200
                 PROVE  page \in {"loopback"} \cup hostPolicy
      BY DEF WritesComeFromOwnPages
    <2> DEFINE r == [host |-> host, origin |-> page, proxied |-> TRUE, json |-> json,
                     tooLarge |-> FALSE]
    <2>1. permits(r.host) /\ sameOrigin(r)
      BY DEF forward
    <2>2. r.host = host /\ r.origin = page /\ page \notin {"none", "malformed", "wildcard"}
      BY DEF Name
    <2> HIDE DEF r
    <2>3. QED
      BY <2>1, <2>2 DEF permits, sameOrigin, isLoopbackHost, hostPolicy
  <1>2. QED
    BY <1>1, PTL
=============================================================================
