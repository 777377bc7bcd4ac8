---------------------------- MODULE ConfigClient ----------------------------
(***************************************************************************)
(* pkg/configclient: the library a service links to read its configuration *)
(* (configclient.go) and the optional hydration of its cache over the      *)
(* admin API (httpfallback.go).                                            *)
(*                                                                         *)
(* One client of one environment is modelled.  It caches four items: a     *)
(* flag, its own settings, the settings of another microservice, and one   *)
(* locale bundle of its own.  NATS and the control plane are the           *)
(* environment of the model: an admin request commits a row, the row is    *)
(* published later, and each watcher receives the writes of its bucket in  *)
(* order.  The background goroutine of a watcher, the caller inside New    *)
(* and the admin API's answers interleave freely.                          *)
(*                                                                         *)
(* A value is the number of the commit that wrote it; 0 is "not there".    *)
(***************************************************************************)
EXTENDS Integers, Sequences, FiniteSets

CONSTANTS
    Item,          \* the items of the instance, of the four there are
    Scoped,        \* Options.MicroserviceID is set
    Fallbacks,     \* the kinds of HTTPFallback considered
    MaxCommits,    \* bound on the admin requests
    MaxFaults      \* bound on failed connections, watches and fetches

ASSUME ItemAssumption ==
    Item \subseteq {"flag", "settings", "foreign", "bundle"} /\ Item # {}
ASSUME ScopedAssumption == Scoped \in BOOLEAN
(* None, one that validate rejects, one the API accepts, and one whose     *)
(* token it turns away on some routes.                                     *)
ASSUME FallbackAssumption ==
    Fallbacks \subseteq {"none", "unusable", "usable", "limited"}
(* The rows there are at the start count as one commit.                    *)
ASSUME ClientBoundAssumption == MaxCommits \in Nat \ {0} /\ MaxFaults \in Nat

VARIABLES
    db,            \* db[i]: the committed row behind item i
    rowOf,         \* rowOf[i]: the item the row configured for i belongs to now
    commits,       \* number of commits so far
    kv,            \* kv[i]: the last write of item i in its bucket
    sub,           \* sub[b]: the state of the watcher of bucket b
    queue,         \* queue[b]: what the watcher has not applied yet
    cache,         \* cache[i]: the value held, and where it came from
    client,        \* the client object
    hyd,           \* the hydration in progress
    fallback,      \* Options.HTTPFallback
    faults         \* number of faults so far

worldVars == <<db, rowOf, commits, kv>>
clientVars == <<sub, queue, cache, client, hyd>>
ccVars == <<worldVars, clientVars, fallback, faults>>

-----------------------------------------------------------------------------
(* The items and the order New opens their buckets in.                     *)

ById == Item \cap {"flag", "settings"}      \* looked up over HTTP by row id
Watches == <<"FLAGS", "SERVICESETTINGS", "LOCALIZATION">>
Buckets == {Watches[n] : n \in 1..3}

BucketOf(i) == CASE i = "flag" -> "FLAGS"
                 [] i \in {"settings", "foreign"} -> "SERVICESETTINGS"
                 [] i = "bundle" -> "LOCALIZATION"

inScope(i) == ~Scoped \/ i # "foreign"

(* What a watcher of bucket b is subscribed to.                            *)
Watched(b) == {i \in Item : BucketOf(i) = b /\ inScope(i)}

-----------------------------------------------------------------------------
(* What a watcher delivers: a put, a delete (value 0) or the nil entry that*)
(* ends the replay of the current values.                                  *)

End == [item |-> "end", value |-> 0]
Update(i) == [item |-> i, value |-> kv[i].value]

(* The last write of every watched key, markers of deletes included.       *)
Replay(b) ==
    LET seen == {i \in Watched(b) : kv[i].revision # 0}
        order == CHOOSE s \in [1..Cardinality(seen) -> seen] :
                    \A m, n \in DOMAIN s :
                       m < n => kv[s[m]].revision < kv[s[n]].revision
    IN  Append([n \in DOMAIN order |-> Update(order[n])], End)

-----------------------------------------------------------------------------
(* The control plane and NATS, as far as the client can tell.              *)

NextRevision == LET used == {kv[i].revision : i \in Item}
                IN  (CHOOSE n \in used : \A m \in used : m <= n) + 1

(* An admin request writes or deletes the row of an item.  A row created   *)
(* again has another id than the one the fallback was configured with.     *)
CommitRow(i) ==
    /\ commits < MaxCommits
    /\ commits' = commits + 1
    /\ \/ /\ db' = [db EXCEPT ![i] = commits + 1]
          /\ UNCHANGED rowOf
       \/ /\ db[i] # 0
          /\ db' = [db EXCEPT ![i] = 0]
          /\ rowOf' = [t \in ById |-> IF rowOf[t] = i THEN "gone" ELSE rowOf[t]]
    /\ UNCHANGED <<kv, clientVars, fallback, faults>>

(* It moves the row ConfigValueID to the other microservice or back.       *)
MoveRow ==
    /\ commits < MaxCommits
    /\ \E from, to \in Item \cap {"settings", "foreign"} :
          /\ rowOf["settings"] = from
          /\ db[to] = 0
          /\ db' = [db EXCEPT ![from] = 0, ![to] = commits + 1]
          /\ rowOf' = [rowOf EXCEPT !["settings"] = to]
    /\ commits' = commits + 1
    /\ UNCHANGED <<kv, clientVars, fallback, faults>>

(* The row, or its absence, reaches the bucket, and every open watcher     *)
(* subscribed to the key is sent the write.                                *)
PublishRow(i) ==
    LET b == BucketOf(i)
    IN  /\ kv[i].value # db[i]
        /\ kv' = [kv EXCEPT ![i] = [value |-> db[i], revision |-> NextRevision]]
        /\ queue' = IF sub[b] \in {"draining", "running"} /\ inScope(i)
                      THEN [queue EXCEPT ![b] =
                              Append(@, [item |-> i, value |-> db[i]])]
                      ELSE queue
        /\ UNCHANGED <<db, rowOf, commits, sub, cache, client, hyd,
                       fallback, faults>>

(* The connection drops and comes back: what was in flight is lost, and    *)
(* the watcher replays the current values.                                 *)
Reconnect(b) ==
    /\ faults < MaxFaults
    /\ faults' = faults + 1
    /\ sub[b] = "running"
    /\ queue' = [queue EXCEPT ![b] = Replay(b)]
    /\ UNCHANGED <<worldVars, sub, cache, client, hyd, fallback>>

-----------------------------------------------------------------------------
(* The client.                                                             *)

NoEntry == [value |-> 0, from |-> "none"]

PCs == {"idle", "connect", "open", "drain", "warm", "hydrate", "fetch", "store",
        "ready", "failed", "closed"}

NewClient == [pc |-> "idle", at |-> 1, conn |-> "none", watch |-> FALSE,
              httpUsed |-> FALSE, lastErr |-> "none"]

AnyItem == CHOOSE i \in Item : TRUE

NoAnswer == [status |-> "none", item |-> AnyItem, value |-> 0]

NoHydration == [cold |-> FALSE, todo |-> {}, item |-> AnyItem, answer |-> NoAnswer,
                attempted |-> 0, errs |-> 0, refused |-> FALSE]

(* Flags, settings and bundles can be looked up over HTTP; bundles only by *)
(* a client that is scoped to a microservice.                              *)
Targets == ById \cup (IF Scoped THEN Item \cap {"bundle"} ELSE {})

cached(i) == cache[i].from # "none"

(* Fault: a delete is not applied.                                         *)
PutsOnly(e) ==
    IF e.item = "end" \/ e.value = 0
      THEN cache
      ELSE [cache EXCEPT ![e.item] = [value |-> e.value, from |-> "kv"]]

(* applyFlag, applyServiceSettings and applyLoc: a put replaces the value, *)
(* a delete removes it.  The end marker changes nothing.                   *)
Applied(e) ==
    IF e.item = "end"
      THEN cache
      ELSE [cache EXCEPT ![e.item] =
              IF e.value = 0 THEN NoEntry ELSE [value |-> e.value, from |-> "kv"]]

Age(i) == CASE i = "flag" -> 1 [] i = "settings" -> 2 [] i = "foreign" -> 3
            [] i = "bundle" -> 4

(* The service starts beside a control plane that may not have published   *)
(* all its rows.                                                           *)
CCInit ==
    /\ \E stored, published \in SUBSET (Item \ {"foreign"}) :
          /\ published \subseteq stored
          /\ db = [i \in Item |-> IF i \in stored THEN 1 ELSE 0]
          /\ kv = [i \in Item |-> IF i \in published
                                    THEN [value |-> 1, revision |-> Age(i)]
                                    ELSE [value |-> 0, revision |-> 0]]
          /\ rowOf = [t \in ById |-> IF t \in stored THEN t ELSE "gone"]
    /\ commits = 1
    /\ sub = [b \in Buckets |-> "none"]
    /\ queue = [b \in Buckets |-> <<>>]
    /\ cache = [i \in Item |-> NoEntry]
    /\ client = NewClient
    /\ hyd = NoHydration
    /\ fallback \in Fallbacks
    /\ faults = 0

(* No base URL, or no token that can be sent.                              *)
validate == fallback # "unusable"

(* New rejects a fallback that cannot work before it dials anything.       *)
New ==
    /\ client.pc = "idle"
    /\ client' = [NewClient EXCEPT !.pc = IF validate THEN "connect" ELSE "failed"]
    /\ cache' = [i \in Item |-> NoEntry]
    /\ hyd' = NoHydration
    /\ UNCHANGED <<worldVars, sub, queue, fallback, faults>>

(* The connection retries in the background, so dialling an absent server  *)
(* succeeds and the first request on it fails.                             *)
Connect ==
    /\ client.pc = "connect"
    /\ client' = [client EXCEPT !.pc = "open", !.conn = "open"]
    /\ UNCHANGED <<worldVars, sub, queue, cache, hyd, fallback, faults>>

(* startWatch: open the bucket and subscribe.                              *)
OpenWatch ==
    LET b == Watches[client.at]
    IN  /\ client.pc = "open"
        /\ sub' = [sub EXCEPT ![b] = "draining"]
        /\ queue' = [queue EXCEPT ![b] = Replay(b)]
        /\ client' = [client EXCEPT !.pc = "drain"]
        /\ UNCHANGED <<worldVars, cache, hyd, fallback, faults>>

(* The initial values, applied by the caller of New itself ...             *)
Drain ==
    LET b == Watches[client.at]
    IN  /\ client.pc = "drain"
        /\ queue[b] # <<>>
        /\ Head(queue[b]) # End
        /\ cache' = Applied(Head(queue[b]))
        /\ queue' = [queue EXCEPT ![b] = Tail(@)]
        /\ UNCHANGED <<worldVars, sub, client, hyd, fallback, faults>>

(* Fault: one watcher too many is opened.                                  *)
DrainDoneOneMore ==
    LET b == Watches[client.at]
    IN  /\ client.pc = "drain"
        /\ queue[b] # <<>>
        /\ Head(queue[b]) = End
        /\ sub' = [sub EXCEPT ![b] = "running"]
        /\ queue' = [queue EXCEPT ![b] = Tail(@)]
        /\ client' = IF client.at <= 3
                       THEN [client EXCEPT !.pc = "open", !.at = @ + 1]
                       ELSE [client EXCEPT !.pc = "warm", !.watch = TRUE]
        /\ UNCHANGED <<worldVars, cache, hyd, fallback, faults>>

(* ... until the marker, which starts the background goroutine.  Watching  *)
(* is reported once all three are running.                                 *)
DrainDone ==
    LET b == Watches[client.at]
    IN  /\ client.pc = "drain"
        /\ queue[b] # <<>>
        /\ Head(queue[b]) = End
        /\ sub' = [sub EXCEPT ![b] = "running"]
        /\ queue' = [queue EXCEPT ![b] = Tail(@)]
        /\ client' = IF client.at < 3
                       THEN [client EXCEPT !.pc = "open", !.at = @ + 1]
                       ELSE [client EXCEPT !.pc = "warm", !.watch = TRUE]
        /\ UNCHANGED <<worldVars, cache, hyd, fallback, faults>>

(* Fault: a client that was hydrated takes no more pushes.                 *)
DeliverUnlessHydrated(b) ==
    /\ sub[b] \in {"running", "stopping"}
    /\ ~client.httpUsed
    /\ queue[b] # <<>>
    /\ cache' = Applied(Head(queue[b]))
    /\ queue' = [queue EXCEPT ![b] = Tail(@)]
    /\ UNCHANGED <<worldVars, sub, client, hyd, fallback, faults>>

(* The background goroutine of a watcher: whatever is in the channel is    *)
(* applied, also after the watcher was stopped.                            *)
Deliver(b) ==
    /\ sub[b] \in {"running", "stopping"}
    /\ queue[b] # <<>>
    /\ cache' = Applied(Head(queue[b]))
    /\ queue' = [queue EXCEPT ![b] = Tail(@)]
    /\ UNCHANGED <<worldVars, sub, client, hyd, fallback, faults>>

(* The channel of a stopped watcher closes.                                *)
WatchEnds(b) ==
    /\ sub[b] = "stopping"
    /\ sub' = [sub EXCEPT ![b] = "none"]
    /\ queue' = [queue EXCEPT ![b] = <<>>]
    /\ UNCHANGED <<worldVars, cache, client, hyd, fallback, faults>>

(* closeConn: the watchers are cancelled and the connection is drained; a  *)
(* watcher nobody reads yet is simply dropped.                             *)
Stopped == [b \in Buckets |-> IF sub[b] = "running" THEN "stopping" ELSE "none"]
StoppedQueue == [b \in Buckets |-> IF sub[b] = "running" THEN queue[b] ELSE <<>>]

closeConn(c) == [c EXCEPT !.watch = FALSE,
                          !.conn = IF @ = "open" THEN "closed" ELSE @]

StartHydration(cold) == [NoHydration EXCEPT !.cold = cold, !.todo = Targets]

(* Fault: the connection is kept when New gives up.                        *)
AbandonWarmUpOpen ==
    /\ client.pc \in {"connect", "open", "drain"}
    /\ IF fallback = "none"
         THEN /\ client' = [client EXCEPT !.pc = "failed", !.lastErr = "kv"]
              /\ UNCHANGED <<sub, queue, hyd>>
         ELSE /\ client' = [closeConn(client) EXCEPT !.pc = "hydrate", !.lastErr = "kv"]
              /\ sub' = Stopped
              /\ queue' = StoppedQueue
              /\ hyd' = StartHydration(TRUE)
    /\ UNCHANGED <<worldVars, cache, fallback>>

(* connectAndWatch answered an error: without a fallback New closes what   *)
(* it opened and fails, with one it closes it too and hydrates.            *)
AbandonWarmUp ==
    /\ client.pc \in {"connect", "open", "drain"}
    /\ sub' = Stopped
    /\ queue' = StoppedQueue
    /\ IF fallback = "none"
         THEN /\ client' = [closeConn(client) EXCEPT !.pc = "failed", !.lastErr = "kv"]
              /\ UNCHANGED hyd
         ELSE /\ client' = [closeConn(client) EXCEPT !.pc = "hydrate", !.lastErr = "kv"]
              /\ hyd' = StartHydration(TRUE)
    /\ UNCHANGED <<worldVars, cache, fallback>>

(* Connecting or opening a watcher failed, or the caller's context expired *)
(* while the initial values were coming.                                   *)
WarmUpFails ==
    /\ faults < MaxFaults
    /\ faults' = faults + 1
    /\ AbandonWarmUp

(* A fleet-wide client looks for its bundles under microservice 0, where   *)
(* there are none.                                                         *)
missingOwnKeys ==
    \/ \E i \in Targets : (i = "settings" => Scoped) /\ ~cached(i)
    \/ ~Scoped /\ "bundle" \in Item

(* All three watchers run; a target that KV did not have is worth a pass   *)
(* over HTTP.                                                              *)
Warm ==
    /\ client.pc = "warm"
    /\ IF fallback # "none" /\ missingOwnKeys
         THEN /\ client' = [client EXCEPT !.pc = "hydrate"]
              /\ hyd' = StartHydration(FALSE)
         ELSE /\ client' = [client EXCEPT !.pc = "ready"]
              /\ UNCHANGED hyd
    /\ UNCHANGED <<worldVars, sub, queue, cache, fallback, faults>>

Close ==
    /\ client.pc = "ready"
    /\ client' = [closeConn(client) EXCEPT !.pc = "closed"]
    /\ sub' = Stopped
    /\ queue' = StoppedQueue
    /\ UNCHANGED <<worldVars, cache, hyd, fallback, faults>>

-----------------------------------------------------------------------------
(* hydrate, one target at a time: flags, then the settings, then bundles.  *)

NextTarget(i) ==
    /\ i \in hyd.todo
    /\ \A j \in hyd.todo : \E m, n \in 1..3 :
          Watches[m] = BucketOf(i) /\ Watches[n] = BucketOf(j) /\ m <= n

(* A target already cached is skipped; the settings of a fleet-wide client *)
(* are fetched in any case.                                                *)
CheckTarget(i) ==
    /\ client.pc = "hydrate"
    /\ NextTarget(i)
    /\ hyd' = [hyd EXCEPT !.todo = @ \ {i}, !.item = i]
    /\ client' = IF cached(i) /\ (i = "settings" => Scoped)
                   THEN client
                   ELSE [client EXCEPT !.pc = "fetch"]
    /\ UNCHANGED <<worldVars, sub, queue, cache, fallback, faults>>

(* The row GET finds: the settings by row id, wherever that row is now, a  *)
(* flag by row id, a bundle by its natural key.                            *)
RowFor(i) == IF i \in ById THEN rowOf[i] ELSE i

Found(row) == row # "gone" /\ db[row] # 0

(* get: the answer of the admin API, read from the database.               *)
Answered ==
    LET row == RowFor(hyd.item)
    IN  /\ client.pc = "fetch"
        /\ client' = [client EXCEPT !.pc = "store"]
        /\ hyd' = [hyd EXCEPT !.answer =
                     IF Found(row)
                       THEN [status |-> "ok", item |-> row, value |-> db[row]]
                       ELSE [NoAnswer EXCEPT !.status = "notfound"]]
        /\ UNCHANGED <<worldVars, sub, queue, cache, fallback, faults>>

(* 401 or 403.                                                             *)
Refused ==
    /\ client.pc = "fetch"
    /\ fallback = "limited"
    /\ client' = [client EXCEPT !.pc = "store"]
    /\ hyd' = [hyd EXCEPT !.answer = [NoAnswer EXCEPT !.status = "refused"]]
    /\ UNCHANGED <<worldVars, sub, queue, cache, fallback, faults>>

(* No answer in time, or one that cannot be used.                          *)
NotAnswered ==
    /\ client.pc = "fetch"
    /\ faults < MaxFaults
    /\ faults' = faults + 1
    /\ client' = [client EXCEPT !.pc = "store"]
    /\ hyd' = [hyd EXCEPT !.answer = [NoAnswer EXCEPT !.status = "error"]]
    /\ UNCHANGED <<worldVars, sub, queue, cache, fallback>>

(* Fault: the row is taken for the one asked for, wherever it is now.      *)
UsableAnywhere(a) == a.status = "ok"

(* fetchFlag, fetchConfig, fetchLocalization: a row of another environment *)
(* or of a microservice out of scope is an error.                          *)
Usable(a) == a.status = "ok" /\ inScope(a.item)

(* The answer goes into the cache, over whatever is there by now.          *)
Store ==
    LET a == hyd.answer
    IN  /\ client.pc = "store"
        /\ cache' = IF Usable(a)
                      THEN [cache EXCEPT ![a.item] = [value |-> a.value, from |-> "http"]]
                      ELSE cache
        /\ hyd' = [hyd EXCEPT !.attempted = @ + 1,
                              !.errs = IF Usable(a) THEN @ ELSE @ + 1,
                              !.refused = @ \/ a.status = "refused",
                              !.answer = NoAnswer]
        /\ client' = [client EXCEPT !.pc = "hydrate"]
        /\ UNCHANGED <<worldVars, sub, queue, fallback, faults>>

(* Fault: a refused credential counts as one failed fetch among others.    *)
HydrationFailedOnAll == hyd.attempted = 0 \/ hyd.errs = hyd.attempted

HydrationFailed == hyd.attempted = 0 \/ hyd.refused \/ hyd.errs = hyd.attempted

(* A cold start fails with its hydration; a warm one records the error.  A *)
(* hydration that worked in part is recorded as well.  That a credential   *)
(* was refused is kept for the properties only.                            *)
HydrateDone ==
    /\ client.pc = "hydrate"
    /\ hyd.todo = {}
    /\ client' = [client EXCEPT
                    !.httpUsed = @ \/ hyd.errs < hyd.attempted,
                    !.lastErr = IF HydrationFailed \/ hyd.errs > 0 THEN "http" ELSE @,
                    !.pc = IF hyd.cold /\ HydrationFailed THEN "failed" ELSE "ready"]
    /\ hyd' = [NoHydration EXCEPT !.refused = hyd.refused]
    /\ UNCHANGED <<worldVars, sub, queue, cache, fallback, faults>>

-----------------------------------------------------------------------------
World ==
    \/ \E i \in Item : CommitRow(i) \/ PublishRow(i)
    \/ MoveRow
    \/ \E b \in Buckets : Reconnect(b)

(* The goroutine inside New.                                               *)
Caller ==
    \/ Connect
    \/ OpenWatch
    \/ Drain
    \/ DrainDone
    \/ Warm
    \/ \E i \in Item : CheckTarget(i)
    \/ Answered
    \/ Refused
    \/ Store
    \/ HydrateDone

Background == \E b \in Buckets : Deliver(b) \/ WatchEnds(b)

Library == Caller \/ Background \/ WarmUpFails \/ NotAnswered

(* A service calls New once and keeps the client.                          *)
CCNext == World \/ New \/ Library \/ Close

CCSpec == CCInit /\ [][CCNext]_ccVars

(* The goroutines of the library run, and the admin API answers or the     *)
(* request times out.                                                      *)
CCFairSpec ==
    /\ CCSpec
    /\ WF_ccVars(Caller)
    /\ \A b \in Buckets : WF_ccVars(Deliver(b))

-----------------------------------------------------------------------------
(* Properties *)

(* Type correctness of the client, its watchers and its cache.             *)
CCTypeOK ==
    /\ db \in [Item -> 0..MaxCommits]
    /\ rowOf \in [ById -> Item \cup {"gone"}]
    /\ commits \in 0..MaxCommits
    /\ kv \in [Item -> [value : 0..MaxCommits, revision : Nat]]
    /\ sub \in [Buckets -> {"none", "draining", "running", "stopping"}]
    /\ queue \in [Buckets -> Seq([item : Item \cup {"end"}, value : 0..MaxCommits])]
    /\ cache \in [Item -> [value : 0..MaxCommits, from : {"none", "kv", "http"}]]
    /\ client \in [pc : PCs, at : 1..3, conn : {"none", "open", "closed"},
                   watch : BOOLEAN, httpUsed : BOOLEAN,
                   lastErr : {"none", "kv", "http"}]
    /\ hyd \in [cold : BOOLEAN, todo : SUBSET Item, item : Item,
                answer : [status : {"none", "ok", "notfound", "refused", "error"},
                          item : Item, value : 0..MaxCommits],
                attempted : Nat, errs : Nat, refused : BOOLEAN]
    /\ fallback \in Fallbacks
    /\ faults \in 0..MaxFaults

Pending(i) == {n \in DOMAIN queue[BucketOf(i)] : queue[BucketOf(i)][n].item = i}

Latest(S) == CHOOSE n \in S : \A m \in S : m <= n

(* While a watcher runs, nothing is ever lost between KV and the cache: an *)
(* item not hydrated over HTTP shows what KV holds once what is on its way *)
(* has been applied.  It takes the initial values, the hand-over from New  *)
(* to the background goroutine, deletes and reconnects to be right.        *)
NothingIsLost ==
    \A i \in Item :
       /\ sub[BucketOf(i)] = "running"
       /\ inScope(i)
       => IF Pending(i) # {}
            THEN queue[BucketOf(i)][Latest(Pending(i))].value = kv[i].value
            ELSE cache[i].from = "http" \/ cache[i].value = kv[i].value

(* The cache holds no value for a microservice the client is not scoped    *)
(* to: nothing would ever update it, and Snapshot would show it.           *)
CacheStaysInScope == \A i \in Item : cached(i) => inScope(i)

(* A client that New handed out without watchers says so and holds         *)
(* something: it was hydrated, the reason is recorded, and no fetch was    *)
(* refused on its credential.  With watchers, a refused credential is      *)
(* recorded too.                                                           *)
HydrationIsHonest ==
    client.pc = "ready" =>
       /\ ~client.watch => client.httpUsed /\ client.lastErr # "none" /\ ~hyd.refused
       /\ hyd.refused => client.lastErr = "http"
       /\ client.watch => \A b \in Buckets : sub[b] = "running"

(* A New that failed, or a Close, leaves no connection and no running      *)
(* watcher behind, whatever had been opened before it.                     *)
NothingLeftOpen ==
    client.pc \in {"failed", "closed"} =>
       /\ client.conn # "open"
       /\ \A b \in Buckets : sub[b] \notin {"draining", "running"}

(* Once changes stop, a client that keeps watching ends up with what KV    *)
(* holds for every item that is not served from HTTP, and New always       *)
(* returns.                                                                *)
WatcherConverges ==
    /\ (client.pc = "connect") ~> (client.pc \in {"ready", "failed", "closed"})
    /\ \A i \in Item :
          inScope(i) =>
             (<>[](client.watch) =>
                <>[](cache[i].from = "http" \/ cache[i].value = kv[i].value))

(* The comment on hydrate: "Entries already in the cache (from KV) win and *)
(* are not overwritten."                                                   *)
KvEntriesWin ==
    [][\A i \in Item : cache[i].from = "kv" => cache'[i].from # "http"]_ccVars
=============================================================================
