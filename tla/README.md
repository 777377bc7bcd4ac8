# Central-Config-Stream: a verification project in TLA+

Central-Config-Stream keeps feature flags, service settings and translation
bundles in a relational database, and distributes them to microservices through
three NATS JetStream KV buckets. An admin request commits to the database first
and writes the same value to KV second; a reconciler sweeps the database into KV
every few minutes to repair whatever the second step missed; consumers watch the
buckets and serve from a local cache, which the admin API can fill when KV cannot.
There is no transaction across the two stores, so most of the interesting
questions are about what can happen between two steps, and about what brings the
copies back in line. The others are about the gate in front of the admin API:
credentials, scopes, budgets, the audit record, start and shutdown.

This directory holds TLA+ modules that model those protocols statement by
statement, TLC configurations that check them on small instances, and TLAPS
proofs, for every instance, about each of them: the publisher, the requests on
settings, the reconciler, the catalogue, the consumer library and its console,
the rate limiter, the gate, what reads return and the life of the process.
`PROJECT.json` lists components, runs, mutants (deliberate faults that each
property must detect), the lines each definition models, findings, hazards and
theorems.

    tlc -workers 2 -config Publisher.cfg MCPublisher         # any run
    tlapm PublisherProofs.tla      # the proofs; likewise SettingsProofs,
                                   # ReconcilerProofs, CatalogProofs, ClientProofs,
                                   # LimiterProofs, AppProofs, ReadsProofs

## Inventory

| component (source) | state | operations | hard behaviour | what makes it correct |
|---|---|---|---|---|
| KV buckets (`internal/messaging/kv.go`, NATS) | latest value and revision of each key | create, update at a revision, purge, list | requests that time out and land later; a store that comes back empty | - (environment) |
| Publisher (`internal/messaging/publisher.go`) | bucket handles | publish a flag / settings / bundle, delete a key, list, provision | read-build-write with retries beside other writers; unprovisioned start | a publish is one atomic write; unchanged values cut no revision; flag stamps never go back |
| Service settings (`internal/servicesettings`) | rows, unique per (environment, microservice); the reference tables | create, update (may move the row), delete; create and delete environments and microservices | several statements per request without a transaction; optimistic concurrency by timestamp | nothing uncommitted is served; without faults and overlaps there is no drift; a guarded update saw the row; no orphans |
| Feature flags (`internal/flagsconfig`) | flags and their values per environment | create/update/delete value, delete flag (fans out over environments) | purge fan-out racing creates | no orphans; no drift of their own |
| Localization (`internal/localization`) | bundles per (environment, microservice, locale) | create, update (may move), delete | key read before the move, purged after it | as above |
| Reconciler (`internal/messaging/reconciler.go`, sources in `internal/app/app.go`) | cycles run, start of the last clean cycle | cycle: provision, snapshot, sweep window or everything, prune | rows committed during the sweep; partial failure; keys written between snapshot, listing and purge; refusal to prune | the window never loses drift; a prune never removes a row it read; drift ends |
| Consumer library (`pkg/configclient`) | cached flags, settings, bundles; connection, watchers | New (connect, warm up, hydrate over HTTP), apply, Close | a push racing the fallback's answer; failing half-way through the warm-up | nothing is lost between KV and the cache; the client says where its values came from |
| Request guard (`internal/app/middleware.go`) | credentials, budgets | authenticate, charge, resolve the target, check the scope, narrow reads | row moved between lookup and write; callers behind one proxy | no read or write outside a token's scope; nobody locked out by strangers |
| Rate limiter (`internal/app/ratelimit.go`) | token buckets | allow, sweep | bounded table, overflow bucket | no bucket lets more through for having been forgotten; bounded memory |
| Audit (`internal/audit`, `audit_middleware.go`) | audit rows | record a write; list | record after the answer, client gone, panic; pages of a growing trail | one record per routed write; a reader misses none of its own |
| Inventory (`internal/app/inventory.go`) | - | page through every table | tables changing between pages | shows a token its scope, and all of it |
| Application (`internal/app/app.go`, `config.go`, `cmd/central-config`) | phase, pool, reconciler | start, serve, shut down | failure half-way through the start; one deadline for several waits | authentication never silently off; shutdown ends and cuts off nobody before it must |
| Test console (`cmd/testconsole`) | subscribers, one consumer | subscribe, broadcast, connect with retries, proxy, shut down | browsers that leave or stop reading; streams that never end | no send after close; no browser stalls the watch; a signal ends it |
| Admin web UI (`webui`), observability, opening the database | - | - | - | not protocol state |

How they interact: an HTTP request passes `limitWrites`, `auditWrites` and
`guard`, and its handler calls a domain service, which calls its repository
(several SQL statements) and then the publisher (several NATS exchanges), all in
the goroutine of the request. The reconciler is one more goroutine using the same
repositories and the same publisher. They share only the database, the buckets,
the publisher's handles and the limiter; nothing but the limiter's mutex locks
across them. A consumer sees the buckets through watchers and, when it must, the
database through the admin API.

## Modules

| module | models | extends |
|---|---|---|
| `KvBucket` | a KV bucket as the code uses it: revisions, conditioned put, purge | |
| `AtomicStore` | abstract: what a caller of the publisher may rely on | |
| `Publisher` | `publisher.go`, handles of `kv.go`, late messages, restart | `KvBucket` |
| `MCPublisher` | a start in which one bucket is used at a time, for TLC | `Publisher` |
| `PublisherProofs` | TLAPS proofs about `Publisher` | `Publisher` |
| `ServiceSettings` | the requests on the appsettings rows, beside the publisher | `Publisher` |
| `SettingsHistory` | history variables over `ServiceSettings` and the properties that need them | `ServiceSettings` |
| `Reconciler` | the reconcile cycle beside those requests | `ServiceSettings` |
| `MCReconciler` | a start of the process beside a filled table and bucket, for TLC | `Reconciler` |
| `ReferenceTables` | the tables of flags, values and bundles; requests on environments and microservices | `Publisher` |
| `FlagsConfig`, `Localization` | the requests on flags and values, on bundles | `ReferenceTables` |
| `Catalog` | the composition of the three, with failures and history | `FlagsConfig`, `Localization` |
| `ConfigClient` | the consumer library between KV and the admin API | |
| `TestConsole` | the console around one consumer | `ConfigClient` |
| `RateLimiter` | the token buckets, beside ideal ones | |
| `LimiterProofs` | TLAPS proofs about `RateLimiter` | `RateLimiter` |
| `Gateway` | a write from the listener to its audit record | `RateLimiter` |
| `Reads` | what a read returns, and a walk of the pages of a collection | |
| `App` | the process around the gateway and the reconciler's goroutine | `Gateway` |
| `SettingsProofs` | TLAPS proofs about `ServiceSettings` and `SettingsHistory` | `SettingsHistory`, `PublisherProofs` |
| `ReconcilerProofs` | TLAPS proofs about `Reconciler` | `Reconciler`, `SettingsProofs` |
| `CatalogProofs` | TLAPS proofs about `Catalog` | `Catalog`, `PublisherProofs` |
| `ClientProofs` | TLAPS proofs about `ConfigClient` and `TestConsole` | `TestConsole` |
| `AppProofs` | TLAPS proofs about `Gateway` and `App` | `App`, `LimiterProofs` |
| `ReadsProofs` | TLAPS proofs about `Reads` | `Reads` |

### Publisher

`calls[c]` is the publish or purge goroutine `c` is in: `get` before the read,
`write` holding the revision it read and the value it built, `purge`, or the
answer. One exchange with NATS is one step: `Current` is a round of `publish` up
to the write (read, build, skip when equal), `Write` and `WriteConflict` the two
outcomes of `Create`/`Update`, `Purge` the purge, `ExchangeFails` any other
error. `ExchangeTimesOut` answers an error and leaves the message in `late[c]`,
from where the network delivers it (`LatePut`, which the server still checks
against its revision; `LatePurge`, which it does not) or drops it. A flag is
compared under its stored `updatedAt` and written under a fresh one
(`BuildFlag`); the documents are written verbatim (`raw`). `provisioned` is
whether `Buckets` holds its handles; they are swapped in together, so one
Boolean stands for the three. `Restart` is a process that starts while NATS is
unreachable.

`AtomicStore` is the promise: a success took effect once between call and
answer; a failure may take effect once, later. `PublishIsAtomic` is the
refinement (`Store == INSTANCE AtomicStore WITH ...`): the read, the skip, the
three attempts and the late messages all map to it.

### ServiceSettings, SettingsHistory

A key stands for an (environment, microservice) pair: it is the unique key of a
row and the KV key the row feeds. A request walks through its statements, one
step each: the read of the row before the write (`ReadPrevious`), the check of
references and of the natural key (`checkAppSettingsRefs`), the statement itself
(`Exec`, or `ExecRefused` when it matches no row or breaks the unique
constraint), the read-back (`ReadBack`: by id after an update, by natural key
after a create), the publish, and the purge of the key a moved or deleted row
fed (`AfterPublish`, `AfterPurge`). A database call may fail with its write done
or not done (`DatabaseFails`), and the process may die (`Crash`). `Sqlite`
selects the two ways the databases differ here: SQLite gives the highest id plus
one, so a deleted id comes back, and keeps `UPDATED_AT` in seconds, so two
versions of a row may share it.

`SettingsHistory` adds what a property needs to know about the past: what was
ever committed, on which keys a step after the commit failed, on which keys two
requests overlapped, and whether the row a guarded update named has changed
since. It observes and constrains nothing.

### Reconciler

`sweep` is the cycle in progress: provision (`StartCycle`), revisions of the
bucket (`Snapshot`), the rows of the window or all of them (`ListRows`), one
publish per row (`SweepRow`, `SweepRowDone`), the second listing (`Prune`), one
purge per stale key, `EndCycle`. The cycle shares the publisher with the
requests as the caller `Rec`. `OtherSourceFails` stands for the two sources that
are not modelled: all they can do to this one is to make the cycle unclean.
`pruneMaxFraction` is the rational `PruneNum/PruneDen`. `MCReconciler` starts the
process beside tables and buckets that are filled and agree, as they are after a
restart, so that two requests are enough to leave several keys without a row.

`age` bounds the environment, not the code: a request lasts at most `MaxStall`
ticks, and a message that outlives its call arrives within `MaxStall` of the
start of the request, or of the reading of the rows, that it comes from. The
sweep itself may take any time. `listed` is a history variable.

### ReferenceTables, FlagsConfig, Localization, Catalog

Here a key stands for an environment, with one flag name, one microservice and
one locale, so that an environment names one entry of each bucket. `db` holds the
two reference tables, the flags, the values and the bundles. Requests again take
one step per statement; the unlocked checks (`CheckReference`,
`checkFlagValueRefs`, `checkRefs`) only choose the status code, and what decides
is what the statement finds, with the constraints of PostgreSQL. `DeleteFlag`
scans the values it is about to lose, deletes them and the flag in one
transaction, and purges their keys one after the other; every exchange of those
purges is a step of `Publisher`. `Catalog` composes the three, lets a statement
fail before or after its effect and an exchange fail or time out, and keeps two
history variables, the keys on which a step failed and those on which requests
overlapped. The `expectedUpdatedAt` of flags and bundles is a refusal that may or
may not happen: the versions themselves are in `ServiceSettings`.

### ConfigClient, TestConsole

One client of one environment and up to four items: a flag, its own settings,
another microservice's settings, a bundle. `client.pc` follows `New`: connect,
open and drain the three watches in their order, hand each one over to its
goroutine, and then return, or hydrate what is missing, or abandon the warm-up,
close what was opened and hydrate everything. `hyd` is the hydration: the check
that a target is not cached, the request, and the store of its answer are three
steps. `queue[b]` is what a watcher has been sent and has not applied. The world
commits rows, publishes them later, moves a row so that the id configured for an
item names another one, and reconnects a watcher, which then replays.

`TestConsole` puts the console around it: the connect loop and its window, the
hub (a channel is the number of events in it), one stream per browser, `forward`
with its host and origin policy as an operator, and the shutdown. `broadcast`
runs in the step of the watcher that calls it.

### RateLimiter, Gateway, Reads, App

`allowCost` holds a mutex, so a call is one step: sweep if it is time and the
caller has no bucket, choose the caller's bucket or the overflow one, refill,
charge or refuse. `ideal[k]` is a bucket that is never dropped, charged whenever
`k`'s is; the code has no such thing, the property is about the two. A key is one
of the limiter's, an address, an address without credential, a token or the
overflow key; what a caller draws under two of them adds up (see below).

`Gateway` follows a write: the edge (`Arrive`, `TurnAway`, `Unrouted`), `Guard`
(401, 429 or on), `Resolve` (the target of its class of route and the scope
check), the handler (effect, refusal or panic) and the record. Class, row and
environment are all that is kept of a request.

`Reads` has what such a server answers. `readClass` is the class each route is
registered with, and each class is narrowed by a mechanism of its own: the
answers of the domains by `scopeWriter` on the way out, under the field their
class names (`scopeField`, `rowEnvironment`, `scopeFilter`), after the database
has cut the page; the trail in SQL, under `environmentFilter`, in the statement
that cuts the page (`auditList`); the inventory in its handler, whose pager counts
the rows in scope (`inventory`). A row's own environment is `Lives`, which none of
the three reads. One caller walks one collection, page by page, to the end the
documentation gives: a short page of the trail, an empty page elsewhere. Others
create, move and delete rows between its pages, at any place of the order.
`steady` is what has been in its sight since the walk began, and `disturbed`
says that a row of a page behind it left, which moves the rest forward.

`App` adds the start (`ParseTokens`, `openDB`,
`setupMessaging`), the signal, the failing listener and the shutdown in its
order: wait for the reconciler, `Shutdown` under what is left of ten seconds,
drain NATS, close the pool.

## Runs

All passing runs reach their whole state space. Every property of a passing run
has a mutant: a plausible fault of the code under which TLC finds it violated.

| run | question | bounds | result |
|---|---|---|---|
| `publisher` | stamps, changes; each call is one atomic write; giving up means contention | 2 callers, one bucket at a time (flags or documents), 2 valid payloads and the empty one, enough writes for three conflicts | holds |
| `settings` | commit before publish; drift has a cause; optimistic concurrency on PostgreSQL | 2 keys, 2 requests at once, 3 in all, crashes | holds |
| `settings_stale_publish` | the newer of two successful updates wins in KV | | **violated** |
| `reconciler_window` | the window covers drift; rows converge | 1 key, a filled start, 2 documents, overlap 1, full sweep every 3rd cycle; all but one of 3 ticks, 2 requests and 1 fault | holds |
| `reconciler_prune` | prune spares rows it read; rows and orphans converge | 3 keys, a filled start, 2 requests, full sweep every 2nd cycle, 1 fault, no tick beyond the first | holds |
| `catalog` | no orphans; fan-out and moves leave no drift | 2 environments, 2 flags, 4 rows, 2 requests, 1 fault | holds |
| `consumer` | nothing lost, in scope, honest, nothing left open, convergence | 3 items, 2 commits, 1 fault | holds |
| `consumer_fallback` | entries from KV win over HTTP | 3 items, no fault | **violated** |
| `console` | hub, connect loop, shutdown | 1 browser with a buffer of 1, 2 commits, 1 fault | holds |
| `limiter` | sweep, overflow, Retry-After | 5 callers, 2 buckets, burst 3, 5 ticks | holds |
| `app` | credentials, scopes of writes, audit, budgets, shutdown | 2 requests in flight, 2 environments, 2 credentials, budgets of 2 | holds |
| `reads` | scopes of reads; walks that miss nothing | 5 routes, 4 rows, 3 environments with 2 in scope, pages of 2, 2 writes of others | holds |

Why the bounds are enough: two callers give every interleaving of one call with
another's read and write, and rival writes and late messages exhaust the three
attempts; two keys are needed for moves and for a prune that is not refused; two documents
tell a newer value from an older one; three ticks with an overlap of one are the
least at which a row can lie outside the window. Three keys that start filled are
the least at which two requests leave more orphans than a prune may purge and a
row beside them, so that a prune is refused for good with the table not empty.
From a filled start two requests are a delete and another create of one key. In
`reconciler_window` a late purge of the delete lands on the new row, a sweep puts
back the older of two documents, and by three ticks the row has left the
incremental window. That run starts with a tick, a request or a fault behind it,
so that each behaviour has all of the two others. In `reconciler_prune`, where
other rows are left, the purge of a prune lands on the new row too. In `reads` four rows make two full pages, or a full
one, a short one and an empty one, with rows in and out of scope on each; two
writes insert before and remove behind the walk in either order. In `catalog` the tables start
with rows in them, so that two requests reach a delete of a flag with two values
beside a create, and a move beside a delete of the environment it goes to. In
`consumer` two commits make an older and a newer value of one item, or the values
of two; a third adds none of a new kind. One browser with one place in its buffer
is the least that can be full. The limiter has more callers than buckets, an
idle time that just meets its assumption, and a cost above one token. In `app`
the limiter's clock stands still (budgets only go down) because the limiter has a
run of its own; two slots are what a race between a lookup and a move takes. One
fault per behaviour is a bound on the combinations explored, and the state graph
contains it at every point. `settings` and `catalog` use symmetry on the
requests, `publisher` on the callers and on the valid payloads: no definition
tells one from another, and the properties checked there are invariants or action
properties. `MaxRevision` stops no call in the settings, reconciler and catalog
runs; in `publisher` it bounds the writes a bucket takes (calls in
progress and late messages may still go past it).

Deadlock is not checked where the system may come to rest: bounded requests that
have all been served (`catalog`), a client that is closed (`consumer`), a process
that has exited (`console`, `app`).

### What the violated runs show

* **`settings_stale_publish`.** `publish` is documented to keep two admins from
  leaving the older write in KV. A commits and reads back; B commits and
  publishes; A publishes. The revision check orders writes to KV, and the
  documents carry nothing that would tell A that its document is the older one.
  The reconciler repairs it: the row is in its next window
  (`WindowCoversDrift`).
* **`consumer_fallback`.** `hydrate` is documented not to overwrite entries that
  came from KV. It tests for them before the request and stores the answer after
  it without testing again. A push that is applied in between is replaced by the
  answer, and unlike a value missed by a sweep nothing brings it back before the
  next write of its key: a republish of an unchanged value cuts no revision. This
  is why `NothingIsLost` and `WatcherConverges` except entries that came over
  HTTP.

### Other limits met while modelling

They are behaviour of the code, not of the model, and no run is spent on them.

* On SQLite, two versions of a row written within a second share an
  `UPDATED_AT`, so a guarded update can overwrite the one its caller had not
  seen (`Sqlite = TRUE` in `Settings.cfg` shows it). SQLite is opened without
  `PRAGMA foreign_keys`, so there the check that a parent is unused is all there
  is, and `ReferencesHold` is a statement about PostgreSQL.
* SQLite also gives a deleted id again. With three requests, two deletes that
  have read the row of one id and a create between their statements, the second
  delete removes the new row and purges the key of the old one: the key of the
  new row stays in KV without a row. No step failed, and the two that disagree
  about that key need not overlap on it, so `DriftHasACause` is a statement about
  PostgreSQL (with `Sqlite = TRUE` TLC reaches it in seventeen
  states, when that property is checked alone).
* The purge of a stale key is not conditioned on the revision that was compared;
  a row re-created and published between the second listing and the purge loses
  its key until a later sweep (`KvConverges`).
* A sweep that published nothing refuses to prune, so the key of the last row of
  a table, if its purge was missed, stays as long as the table is empty;
  `KvConverges` says so.
* A sweep refuses to prune more than `max(minPruneKeys, 20 %)` of the live keys,
  and it decides alike in every cycle: with more orphans than that, none is purged
  until rows are added or the bound is raised, whether or not the table is empty.
  `KvConverges` excepts this too.
* A caller past the bound of the limiter's table draws on the overflow bucket, and
  after a sweep on one of its own, which is full: it can have two bursts within
  one. `SweepGivesNothingAway` is a statement about each bucket, not about
  callers.
* A scoped token is told to page a listing until a page comes back empty
  (`docs/SECURITY.md`, which names what follows too). The database cuts the page
  and the scope is applied to what it cut, so a page of other environments' rows is
  `[]` as well, with rows of the token's own behind it. A listing that asks for one
  environment with `?environmentId` has its `WHERE` before the page and is whole
  (`FilteredWalkMissesNothing`, which TLC refutes for the rest), as are the trail
  and the inventory, which are narrowed before they are paged.
* Pages are offsets, so a delete of a row on a page behind the walk moves the rest
  forward and a reader of the inventory or of a listing misses one. The walk
  properties except it (`disturbed`); records of the trail are never deleted.
* A row moved to another environment between the guard's lookup and the write is
  written under a scope check made for the old one; `WritesStayInScope` excuses
  exactly that race. A write across two environments is recorded with none, and
  so no reader with a scope sees it.
* A panic in a handler unwinds past the audit insert.
* An update of a bundle whose row is deleted before its read-back fails without
  purging the key it left, and a `DeleteFlag` that finds its flag gone still
  purges the keys it had scanned.
* The ten seconds of the shutdown run while the reconciler is waited for: a long
  sweep leaves less, or nothing, for the requests in flight.

### What the reconciler relies on

`WindowCoversDrift` says that between two cycles a row consumers see wrongly is
inside the next incremental window. It holds under `MaxStall <= Overlap`, which
is what the one minute of overlap buys: no request, and no message that timed
out, takes effect more than a minute after it began. One case deserves a
mention. If the sweep itself takes longer than the overlap between reading a row
and publishing it, if that put times out, and if it lands after a later clean
cycle, it can put back a value whose row no incremental window holds, and a purge
of the prune that is as late can remove one; the assumption on messages of the
sweep, its puts and its purges alike (counted from the reading of the rows),
excludes it. `WindowCovers` proves the rest for any overlap and any time a cycle
takes. No run reaches
that case.

### Fairness

* `reconciler_window`, `reconciler_prune`: weak on the reconciler's goroutine, whose
  cycles `Start` runs from a ticker until shutdown, each exchange and query of a
  cycle having a deadline. Nothing is assumed of requests (a handler may hang where
  it is), of messages that timed out (each may land at any time or never), of the
  clock, or of arrivals, faults and crashes: these are bounded (`MaxRequests`,
  `MaxFaults`), so that "eventually" means after they stop.
* `consumer`: weak on the goroutine inside `New`, whose every wait is under its
  context, and on each watcher's goroutine. Nothing is assumed of the control
  plane: what is committed may never be published.
* `console`: weak on the library, the connect loop, its window and the shutdown,
  all goroutines and timers of the process. Nothing is assumed of browsers.
* `app`: weak on the end of the reconciler's goroutine, whose calls carry a
  cancelled context, and on the steps of `Run`. Nothing is assumed of requests:
  a handler may hang, and the deadline ends the wait for it.

## Proofs

A theorem here holds for every value of the constants that satisfies the named
assumptions of the modules: any number of callers, requests, rows, keys,
documents, commits, faults and ticks. Every module follows one pattern. The
property that matters is seldom inductive, because it is about a step whose parts
were prepared earlier, beside other actors; the invariant says what each actor
holds at each stage and why it is still good when it is used. Each action has a
lemma that it keeps the invariant, with the invariant's conjuncts below it, and
`PTL` joins them at the end.

| module | theorem | establishes |
|---|---|---|
| `PublisherProofs` | `TypeCorrect`, `StampsMonotonic`, `RevisionsChange`, `ConflictsAreReal` | `TypeOK`, `FlagStampsNeverGoBack`, `EveryRevisionIsAChange`, `ConflictMeansContention` |
| | `PublishAtomic` | `PublishIsAtomic`: the publisher implements `AtomicStore` |
| `SettingsProofs` | `RequestsAreCallers`, `RequestsWriteAtomically` | the requests only take steps of the publisher; so they too implement `AtomicStore` |
| | `RequestsTypeCorrect`, `CommittedFirst` | `SSTypeOK`, `PublishedWasCommitted` |
| | `GuardedUpdates`, `DriftCaused` (PostgreSQL) | `GuardedUpdateSawTheRow`, `DriftHasACause` |
| `ReconcilerProofs` | `SweepsAreCallers`, `SweepsWriteAtomically` | the same with the reconciler for one more caller |
| | `SweepTypeCorrect`, `PruneSpares`, `WindowCovers` | `RecTypeOK`, `PruneSparesListedRows`, `WindowCoversDrift` |
| `CatalogProofs` | `CatalogInvariance`, `CatalogTypeCorrect`, `NoOrphans` | the steps are steps of the publisher; `CatalogTypeOK`, `ReferencesHold` |
| | `CatalogStampsMonotonic` | `FlagStampsNeverGoBack` with these requests for callers |
| | `CatalogDriftCaused` | `CatalogDriftHasACause` |
| `ClientProofs` | `ClientTypeCorrect`, `WatchLosesNothing`, `CacheInScope`, `HydrationHonest`, `NothingStaysOpen` | `CCTypeOK`, `NothingIsLost`, `CacheStaysInScope`, `HydrationIsHonest`, `NothingLeftOpen` |
| | `ChannelsAreOpen`, `StateHonest`, `WritesFromOwnPages` | `NoSendOnClosedChannel`; `StateIsHonest`, `WritesComeFromOwnPages`, which no run checks |
| `LimiterProofs` | `LimiterTypeCorrect`, `NothingGivenAway`, `TableBounded`, `RetryAfterCorrect` | `LimiterTypeOK`, `SweepGivesNothingAway`, `TableIsBounded`, `RetryAfterIsExact` |
| `AppProofs` | `AppTypeCorrect`, `AuthNeverSilentlyOff`, `NarrowWritesStayInScope` | `AppTypeOK`, `AuthIsNeverSilentlyOff`, `WritesStayInScope` |
| | `WritesOnRecord`, `OperatorsNotLockedOut`, `NobodyCutOff` | `EveryWriteIsOnRecord`, `AnonymousNeverLocksOut`, `NobodyIsCutOff` |
| `ReadsProofs` | `ReadsTypeCorrect`, `NarrowReadsStayInScope` | `ReadsTypeOK`, `ReadsStayInScope` |
| | `TrailIsWhole`, `InventoryIsWhole`, `FilteredListingIsWhole`, together `WalksAreWhole` | the conjuncts of `WalksMissNothing` |

### Publisher

`Invariance` is `Spec => []Inv`. `Inv` adds to `TypeOK`:

* `Bounded`: no revision is above its bucket's sequence, no stamp above the
  clock, so a new write gets a revision nothing refers to yet;
* `Fresh`: if a prepared write (of a call in `write`, or a late put) still
  matches the revision of its key, its payload differs from the one stored and
  its stamp is not older. It is established by the read, and kept because any
  write in between gives the key a new revision;
* `Contended`: a call at attempt `n` saw the bucket take at least `n - 1` writes
  since it began, and one more if the revision it holds is out of date.

For the refinement, an attempt that ends in a conflict, a read and a message
dropped by the network are stutters; a skip is the atomic write of the value that
is already there; a late message is an effect left pending when its call failed.
The one further fact is
`Carried`: a purge, in a call or late, carries no payload, so that it maps to the
abstract removal.

### Requests on settings, reconciler

`RequestInv` is the publisher's invariant and `Settled`, what a request carries
at each stage. With it every step of `SSNext` is a step of `Next` or leaves the
publisher's variables alone (`RequestsAreCallers`), so what is proved of the
publisher holds here without a second proof.

* `CommittedFirst` rests on `OnRecord`: every document in a call that is about to
  write, in a late put and in the bucket is in `committed`. A request puts it
  there before it can call `publish`.
* `GuardedUpdates` rests on `Versions`: a row that a request has named a version
  of, and that is still at that version, has not changed since; a later commit
  gives it a later `UPDATED_AT`. That is true of PostgreSQL only, and so is the
  theorem.
* `DriftCaused` rests on `DriftInv`. Call a key clean when no step failed on it
  and no two requests overlapped on it. At most one request past its commit owes
  a clean key anything (`OneOwner`); a clean key nobody owes shows its row, or has
  neither row nor entry (`Settles`); and a request that owes one is at a stage
  whose remaining steps bring it about (`Duty`: no row is left under the key it
  moved or deleted a row from, the document it is publishing is that of the row,
  the purge comes after the publish, and no late message is about a clean key).
  Before its commit, the row it names still feeds the key it has read, or another
  commit has made both its keys contested (`Seen`): this is where an id given
  twice would break the argument, hence PostgreSQL again.
* `PruneSpares` rests on `Covers` and `Spared`. As long as a sweep has rows to
  publish, every row it listed that has not changed is published, still waiting,
  or the sweep has failed; a sweep that has come to the prune has published them
  all, and what it finds stale it has not published. `InIdOrder` lists a row as
  often as it is there, for any finite set of ids.
* `WindowCovers` rests on `WindowInv`, an invariant about time. Call a row *young*
  for a caller when it was committed no earlier than what the caller is doing
  began, and *recent* when it was committed since the sweep read the table. Two
  things can make consumers see something else than the row: a write or purge
  under its key that does not agree with it, on its way in a call or late on the
  wire, and its commit itself. `Carries` says that such a write is of a caller
  for whom the row is young (of the sweep: recent); it is established by the read
  of the row that the call publishes, and a commit after that read makes the row
  young. `Leaves` says the same of a key a request means to purge before it calls
  the publisher: the row under it is the request's own, which it is about to
  delete or has moved away, or a young one, because two rows never share a key
  (`RowsApart`, the unique constraint). `Reads` says that what the sweep holds of
  a row is the row, or the row is recent; that a full sweep has published a row,
  still holds it, or the row is recent; and that a key it purges has only a
  recent row. Since nothing that is timed is older than `MaxStall` (`Patient`,
  which the clock enforces and every other step keeps), a young row is within
  `MaxStall`, and a recent one within the sweep, of whatever undoes its publish,
  and with `MaxStall <= Overlap` that is inside the window. `Covered` is the
  property with its second half: a row consumers see wrongly lies in the window
  of the last clean cycle, and, if the cycle in progress is still clean, either
  in the window this cycle will leave behind or among the rows it has yet to
  publish (`ToCome`). The end of a cycle turns the second half into the first,
  for there nothing is left to publish. The first half holds at every moment, so
  the theorem needs neither the end of a cycle nor that no full sweep is due.

### Catalogue

`NoOrphans` rests on `Tables`: each table is in its type, its rows have what
their foreign keys ask for, and no two feed one key. A value is compared only with
the values of its own flag by its unique constraint, so `Tables` also says that
one flag of the name is live (`OneFlag`), and that is what makes the keys of the
values unique. `Asked` says that what a request carries fits the statement it is
about to run, whatever became of the rows since it was read.

`CatalogDriftCaused` rests on `DriftInv`. As for the settings, a key is clean when
no step failed on it and no two requests overlapped on it, and a clean key shows
its row, or has neither row nor entry, or a request is about to see to it
(`Settles`). What differs is that the owner need not be one: the delete of a
flag fans out, and a request whose key was contested on one side may still hold a
clean key on the other. So the invariant does not count owners; it
says that all of them want the same thing. A document on its way to a clean key is
that of the row there (`Put`), and a clean key that anyone is to purge has no row
(`Purged`), so that no publish and no purge of a clean key can undo another. What
a request has noted before its commit is still so, or the commit that made it
stale has contested the keys: the keys of all values of the flag (`SeenFlag`, both
inclusions, for a value created after the scan would keep its entry), the key of
the value (`SeenValue`), and the key the bundle feeds (`SeenBundle`, which for an
update holds on until the read-back, the last moment at which it can find the row
gone or moved). A message that timed out is about a key on which a step failed
(`Wire`). `Unnumbered` is what keeps an id of the sequence from naming two rows.

### Consumer library, console

`ClientInv` has, beside types: no two items share a revision (`Revisions`); a
watcher is sent only what it subscribed to and what was written (`Subscribed`);
for every watcher that is open, the last entry of an item on its way, or the cache
when none is, is what KV holds, unless the cache has it from HTTP (`OnItsWay`); no
entry is in the cache yet for an item whose watch the warm-up has still to open
(`Untouched`); and at each stage of `New`, which watchers there are and what it
has recorded (`Stages`, `Recorded`). `OnItsWay` is `NothingIsLost` from the moment
a watch is opened, while it drains, and not only once the client is handed out: an
entry lost in the warm-up would be missing ever after. `Untouched` is what starts
it off, since a replay leaves out what was never written.

`ConsoleInv` has `HubInv` (a browser in the hub streams, and its channel is open
until its handler, which first leaves the hub, closes it), `WatchInv` (a client
that is handed out has its watchers running, because the console gives it no
fallback to hydrate from) and `ConsumerInv` (a client held is one that connected;
the loop ends without one only past its window or on a signal).

### Limiter, gate, process

`NothingGivenAway` only says that no ideal bucket is overdrawn, which no step
preserves by itself; `Mirrors` says why: an ideal bucket holds exactly what its
bucket has available now, and is full when there is no bucket. A sweep keeps it
because what it drops has been idle for `idleBucketTTL` ticks and is full by then
(`AvailableIdle`), which is what `IdleAssumption` (`idleBucketTTL * Refill >=
Capacity`: ten minutes against the one a bucket takes to fill) is for. `HasRoom`
is the bound without the overflow bucket, for the same reason an invariant and not
a consequence of the bound.

`AppInv` has five parts. `Typed` is the types. `Accounted` is
`EveryWriteIsOnRecord` with the numbers of requests: each one belongs to one
request in flight or one record. `Cleared` keeps what the guard established about
a write of a token with a scope until its handler runs, unless a move has
overtaken it. `Lifecycle` says in which phases there are requests and a
reconciler, and that a process past its start without credentials was given none.
`Budget` says that the table of the limiter mirrors the ideal one, holds only the
keys a server behind one proxy charges, and that exactly the admitted writes are
spent of the address's budget. What `allowCost` and `refuseCost` preserve is
taken from `LimiterProofs`.

### Reads

`ReadIsInScope` goes through the three mechanisms one by one: what `scopeFilter`
keeps under the field of the class, what the `IN` of the trail selects, what the
inventory's check lets pass, all lives in the scope. `ReadPagesSight` says that on
the walks promised to be whole a page is cut from exactly the rows in sight. Then
`StillToCome` is inductive: a row owed and not yet shown has at least `offset`
rows of the sight before it. A row that appears or leaves beyond the walk never
takes a row behind it (`PlaceGrows`, `PlaceHolds`), and a page that is not full is
the last one (`PageIsFull`: the places of rows have no gaps, for a row at the least
place past the gap would have too few rows before it).

### Assumptions

They are those named in the modules, each one justified by the code: sets that
are not empty, bounds that are naturals, `NoPayload` and `NoKey` outside their
sets. The ones that say more are `SettingsBucketAssumption` (the service settings
bucket is among the buckets), `RecAssumption` (the reconciler is not a request),
`RowIdBoundAssumption` (a table is finite), `SeedAssumption` (the tables
`Catalog` starts from can be filled, and ids are the first numbers of a
sequence), `CatalogBucketAssumption` (the settings' bucket has no table there, so
it is not among the buckets of `Catalog`), `ScopeAssumption` (a scope names at least
one environment; the parser refuses an empty one), `ProxyAssumption` (the limiter
has room for the callers behind one proxy: four, where the code has 8192) and
`IdleAssumption`. `GuardedUpdates` and `DriftCaused` assume `~Sqlite`. TLC
evaluates all the others in every run.

### Only model-checked

Every liveness property (`RowsConverge`, `KvConverges`, `WatcherConverges`,
`BrowsersDoNotStallTheWatch`, `SignalEndsTheProcess`, `ShutdownEnds`), because
liveness under fairness needs ENABLED, which is beyond the prover; and the two
violated runs, which are counterexamples. Every invariant and every action
property of a passing run has a theorem. The runs check on small instances what is
proved here as well.

## What is not modelled

Reads of KV are taken to be linearizable, and listing a bucket to be one step
(the code collects a watcher's initial values). One replica of the service runs,
with one clock; the skew the overlap also absorbs is not a separate quantity. A
SQL statement is atomic and visible at once. The loss of the KV store with its
revisions, bucket history and replication are left out. Sizes and JSON shape of
documents are reduced to the empty document being refused, which is the one case
both the service and the publisher test. Appsettings rows are not a third kind of
child in `Catalog`: they follow the pattern of the bundles. The reconciler's
sources for flags and bundles differ from the one modelled in their queries only.
Tokens are counted in whole units, where the code has a float. A limiter that is
switched off, a `DELETE` that carries an environment id in its body (which adds
that environment to the check), the redaction and truncation of audit fields, the
listings' other filters, reads of routes that belong to no environment, and the
console's embedded NATS server are left out. In `Reads` the credential is good, the
budget of the inventory is not exhausted and no query fails; the three collections
of the inventory, which are paged alike, are one.
After a failed attempt to connect the console's next attempt starts afresh; late
notifications of the old one, which only repeat what the hub has seen, are
dropped.

The admin web UI keeps no state the service relies on. Observability, JSON
helpers and build information format values. Opening the database tries once and
fails, which is a step of `App`.

## Plan

1. *(done)* `KvBucket`, `Publisher`, `AtomicStore` with runs and proofs;
   `ServiceSettings`, `SettingsHistory`; `Reconciler`.
2. *(done)* `ReferenceTables`, `FlagsConfig`, `Localization`, `Catalog`;
   `ConfigClient`, `TestConsole`; `RateLimiter` with proofs, `Gateway`, `App`.
3. *(done)* Proofs: `PublishIsAtomic`; the steps of the settings requests, of the
   reconciler and of the catalogue are steps of the publisher; the invariants and
   action properties of every component, as listed under "Proofs".
4. *(done)* `CatalogDriftCaused`, along the argument of `DriftCaused` with three
   tables and with fan-out; `WindowCovers`, on the ages of prepared writes and
   late messages.
5. *(done)* What reads return, with walks of pages and their proofs; the
   convergence of rows past the window and of more orphans than a prune may purge.
6. *(left)* The loss of the KV store, which needs revisions that start again; a run
   in which stalls outlast the overlap and only full sweeps repair what they leave;
   liveness, should the prover come to support it.
