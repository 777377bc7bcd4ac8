----------------------------- MODULE Reconciler -----------------------------
(***************************************************************************)
(* internal/messaging/reconciler.go, sweeping the service settings source  *)
(* of internal/app/app.go beside the admin requests of ServiceSettings.    *)
(*                                                                         *)
(* A cycle reads the rows changed since the start of the last clean cycle  *)
(* (or, every FullSweepEvery cycles, all of them) and publishes each.  A   *)
(* complete full sweep then purges the keys it found no row for, provided  *)
(* they did not change since before it read the database.  The other       *)
(* sources of a cycle appear only through their failing or not.            *)
(***************************************************************************)
EXTENDS ServiceSettings, Sequences, Functions

CONSTANTS
    Rec,             \* the reconciler's goroutine
    FullSweepEvery,  \* fullSweepEvery
    Overlap,         \* reconcileOverlap, in ticks of the clock
    MinPruneKeys,    \* minPruneKeys
    PruneNum,        \* pruneMaxFraction is PruneNum / PruneDen
    PruneDen,
    MaxStall,        \* ticks a request or a message on the wire can last
    MaxFaults        \* bound on failed exchanges, failed queries and crashes

ASSUME RecAssumption == Rec \in Caller \ Request
ASSUME RowIdBoundAssumption == IsFiniteSet(RowId)
ASSUME SweepAssumption == FullSweepEvery \in Nat \ {0} /\ Overlap \in Nat
ASSUME PruneAssumption ==
    /\ MinPruneKeys \in Nat
    /\ PruneNum \in Nat
    /\ PruneDen \in Nat \ {0}
ASSUME StallAssumption == MaxStall \in Nat
ASSUME FaultAssumption == MaxFaults \in Nat

VARIABLES
    runs,      \* cycles completed, modulo FullSweepEvery
    lastRun,   \* start of the last clean cycle, 0 if there was none
    sweep,     \* the cycle in progress
    age,       \* ticks each caller's request, or its late message, has lasted
    faults,    \* faults so far
    listed     \* history: rows the sweep read that have not changed since

recVars == <<runs, lastRun, sweep, age, faults, listed>>
allVars == <<vars, recVars>>

(* snap: revisions at the start, of no use unless snapped; todo: the rows  *)
(* still to publish; published: ResyncResult.Keys.                         *)
NoSweep == [pc |-> "idle", full |-> FALSE, began |-> 0, snapped |-> FALSE,
            snap |-> [k \in Key |-> 0], todo |-> <<>>, published |-> {},
            failed |-> FALSE, stale |-> {}]

SB == kv[BucketServiceSettings]

Step(pc) == sweep' = [sweep EXCEPT !.pc = pc]

Fault == faults < MaxFaults /\ faults' = faults + 1

RecInit ==
    /\ SSInit
    /\ runs = 0
    /\ lastRun = 0
    /\ sweep = NoSweep
    /\ age = [c \in Caller |-> 0]
    /\ faults = 0
    /\ listed = {}

-----------------------------------------------------------------------------
(* Fault: only the first cycle sweeps everything.                          *)
FullDueOnce == lastRun = 0

(* The first cycle and every FullSweepEvery-th one sweep everything.       *)
FullDue == lastRun = 0 \/ runs = 0

(* Fault: the buckets are left to the start of the process.                *)
StartCycleAsIs ==
    /\ sweep.pc = "idle"
    /\ sweep' = [NoSweep EXCEPT !.pc = IF FullDue THEN "snapshot" ELSE "list",
                                !.full = FullDue,
                                !.began = clock]
    /\ UNCHANGED <<pubVars, ssVars, runs, lastRun, faults>>

(* Each cycle provisions the buckets first, and goes on if that fails.     *)
StartCycle ==
    /\ sweep.pc = "idle"
    /\ sweep' = [NoSweep EXCEPT !.pc = IF FullDue THEN "snapshot" ELSE "list",
                                !.full = FullDue,
                                !.began = clock]
    /\ \/ provisioned' = TRUE /\ UNCHANGED faults
       \/ provisioned' = provisioned /\ Fault
    /\ UNCHANGED <<kv, clock, calls, late, ssVars, runs, lastRun>>

(* snapshot: without it the cycle does not prune.                          *)
Snapshot ==
    /\ sweep.pc = "snapshot"
    /\ \/ /\ provisioned
          /\ sweep' = [sweep EXCEPT !.pc = "list", !.snapped = TRUE,
                                    !.snap = [k \in Key |-> IF Live(SB, k)
                                          THEN SB.entry[k].revision ELSE 0]]
          /\ UNCHANGED faults
       \/ ~provisioned /\ Step("list") /\ UNCHANGED faults
       \/ Step("list") /\ Fault
    /\ UNCHANGED <<pubVars, ssVars, runs, lastRun>>

(* ListAllForReconcile: the rows of the window ...                         *)
Window == {id \in RowId : /\ Exists(id)
                          /\ sweep.full \/ rows[id].at >= lastRun - Overlap}

(* ... in the order of their ids.                                          *)
InIdOrder(ids) ==
    {s \in [1..Cardinality(ids) -> ids] :
        Range(s) = ids /\ \A i, j \in DOMAIN s : i < j => s[i] < s[j]}

(* Fault: keys are pruned after a sweep that failed to publish some of its *)
(* rows.                                                                   *)
PrunablePartial(s) == s.full /\ s.snapped

(* Only a complete full sweep may conclude that a key has no row.          *)
Prunable(s) == s.full /\ ~s.failed /\ s.snapped

AfterRows(s) ==
    [s EXCEPT !.pc = IF s.todo # <<>> THEN "row"
                     ELSE IF Prunable(s) THEN "prune" ELSE "end"]

ListRows ==
    /\ sweep.pc = "list"
    /\ \/ /\ \E ids \in InIdOrder(Window) :
                sweep' = AfterRows([sweep EXCEPT
                            !.todo = [i \in DOMAIN ids |-> rows[ids[i]]]])
          /\ UNCHANGED faults
       \/ /\ sweep' = [sweep EXCEPT !.pc = "end", !.failed = TRUE]
          /\ Fault
    /\ UNCHANGED <<pubVars, ssVars, runs, lastRun>>

(* Resync publishes the rows one by one ...                                *)
SweepRow ==
    /\ sweep.pc = "row"
    /\ PublishServiceSettings(Rec, Head(sweep.todo).key, Head(sweep.todo).doc)
    /\ Step("publishing")
    /\ UNCHANGED <<ssVars, runs, lastRun, faults>>

(* ... and a row that fails makes the sweep partial but does not stop it.  *)
SweepRowDone ==
    /\ sweep.pc = "publishing"
    /\ Taken(Rec)
    /\ sweep' = AfterRows([sweep EXCEPT
         !.todo = Tail(@),
         !.published = IF Dropped(Rec) THEN @ ELSE @ \cup {Head(sweep.todo).key},
         !.failed = @ \/ Dropped(Rec)])
    /\ UNCHANGED <<ssVars, runs, lastRun, faults>>

-----------------------------------------------------------------------------
(* prune: the second listing decides, the purges follow one by one.        *)

Stale == {k \in LiveKeys(SB) \ sweep.published : Matches(SB, k, sweep.snap[k])}

PruneLimit == LET share == (Cardinality(LiveKeys(SB)) * PruneNum) \div PruneDen
              IN  IF share > MinPruneKeys THEN share ELSE MinPruneKeys

Refused == sweep.published = {} \/ Cardinality(Stale) > PruneLimit

Purging(stale) ==
    sweep' = [sweep EXCEPT !.pc = IF stale = {} THEN "end" ELSE "purge",
                           !.stale = stale]

Prune ==
    /\ sweep.pc = "prune"
    /\ \/ Purging(IF Refused THEN {} ELSE Stale) /\ UNCHANGED faults
       \/ Step("end") /\ Fault
    /\ UNCHANGED <<pubVars, ssVars, runs, lastRun>>

PurgeStale ==
    /\ sweep.pc = "purge"
    /\ \E k \in sweep.stale :
          /\ DeleteKey(Rec, BucketServiceSettings, k)
          /\ sweep' = [sweep EXCEPT !.pc = "purging", !.stale = @ \ {k}]
    /\ UNCHANGED <<ssVars, runs, lastRun, faults>>

(* A purge that fails is logged and does not fail the cycle.               *)
PurgeStaleDone ==
    /\ sweep.pc = "purging"
    /\ Taken(Rec)
    /\ Purging(sweep.stale)
    /\ UNCHANGED <<ssVars, runs, lastRun, faults>>

(* Faults: the window is anchored at the end of the cycle; the count of    *)
(* cycles is never reduced.                                                *)
EndCycleAtItsEnd ==
    /\ sweep.pc = "end"
    /\ runs' = (runs + 1) % FullSweepEvery
    /\ lastRun' = IF sweep.failed THEN lastRun ELSE clock
    /\ sweep' = NoSweep
    /\ UNCHANGED <<pubVars, ssVars, faults>>

EndCycleCounted ==
    /\ sweep.pc = "end"
    /\ runs' = runs + 1
    /\ lastRun' = IF sweep.failed THEN lastRun ELSE sweep.began
    /\ sweep' = NoSweep
    /\ UNCHANGED <<pubVars, ssVars, faults>>

(* Only a clean cycle advances the window, to where the cycle began.       *)
EndCycle ==
    /\ sweep.pc = "end"
    /\ runs' = (runs + 1) % FullSweepEvery
    /\ lastRun' = IF sweep.failed THEN lastRun ELSE sweep.began
    /\ sweep' = NoSweep
    /\ UNCHANGED <<pubVars, ssVars, faults>>

(* Another source of the cycle fails: the cycle is not a clean one.        *)
OtherSourceFails ==
    /\ sweep.pc = "end"
    /\ ~sweep.failed
    /\ Fault
    /\ sweep' = [sweep EXCEPT !.failed = TRUE]
    /\ UNCHANGED <<pubVars, ssVars, runs, lastRun>>

Cycle ==
    \/ StartCycle
    \/ Snapshot
    \/ ListRows
    \/ SweepRow
    \/ SweepRowDone
    \/ Prune
    \/ PurgeStale
    \/ PurgeStaleDone
    \/ EndCycle
    \/ OtherSourceFails

-----------------------------------------------------------------------------
(* The exchanges of every caller, those that go well and those that fail.  *)
(* A request lasts at most MaxStall.  The sweep may take any time, but a   *)
(* message that outlives its call arrives within MaxStall of the start of  *)
(* the request, or of the reading of the rows, that it comes from.         *)

Pending(c) == late[c] # NoMessage \/ (c \in Request /\ ~Idle(c))

Ageing(c) ==
    \/ Pending(c)
    \/ c = Rec /\ sweep.pc \in {"row", "publishing", "prune", "purge", "purging"}

Exchanged(c) ==
    /\ Current(c) \/ Write(c) \/ WriteConflict(c) \/ Purge(c)
    /\ UNCHANGED <<ssVars, runs, lastRun, sweep, faults>>

ExchangeLost(c) ==
    /\ ExchangeFails(c) \/ (age[c] <= MaxStall /\ ExchangeTimesOut(c))
    /\ Fault
    /\ UNCHANGED <<ssVars, runs, lastRun, sweep>>

Deliver(c) ==
    /\ Network(c)
    /\ UNCHANGED <<ssVars, runs, lastRun, sweep, faults>>

RequestMoves(c) ==
    /\ Arrival(c) \/ RequestStep(c)
    /\ UNCHANGED <<runs, lastRun, sweep, faults>>

RequestLost(c) ==
    /\ DatabaseFails(c)
    /\ Fault
    /\ UNCHANGED <<runs, lastRun, sweep>>

(* A process that starts again has no lastRun: its first sweep is full.    *)
RecCrash ==
    /\ Crash
    /\ Fault
    /\ runs' = 0
    /\ lastRun' = 0
    /\ sweep' = NoSweep

RecTick ==
    /\ Tick
    /\ \A c \in Caller : Pending(c) => age[c] < MaxStall
    /\ age' = [c \in Caller |->
                  IF Ageing(c) /\ age[c] <= MaxStall THEN age[c] + 1 ELSE age[c]]
    /\ UNCHANGED <<ssVars, runs, lastRun, sweep, faults, listed>>

Untimed ==
    \/ Cycle
    \/ \E c \in Caller : Exchanged(c) \/ ExchangeLost(c) \/ Deliver(c)
    \/ \E c \in Request : RequestMoves(c) \/ RequestLost(c)
    \/ RecCrash

(* Who no longer waits is young again; listed keeps the rows as read.      *)
Noted ==
    /\ age' = [c \in Caller |-> IF Ageing(c)' THEN age[c] ELSE 0]
    /\ listed' = IF ListRows THEN Window
                 ELSE {id \in listed : rows'[id] = rows[id] /\ sweep'.pc \notin {"end", "idle"}}

RecNext == (Untimed /\ Noted) \/ RecTick

RecSpec == RecInit /\ [][RecNext]_allVars

(* The goroutine of the reconciler goes on: the ticker starts cycle after  *)
(* cycle, and every exchange and query of a sweep comes to an end, if only *)
(* by its timeout.  Nothing is assumed of the requests, a late message,    *)
(* time, or new requests: a handler may hang where it is.                  *)
Fairness == WF_allVars((Cycle \/ Exchanged(Rec)) /\ Noted)

FairSpec == RecSpec /\ Fairness

-----------------------------------------------------------------------------
(* Properties *)

(* Type correctness of the cycle's state.                                  *)
RecTypeOK ==
    /\ SSTypeOK
    /\ runs \in 0..(FullSweepEvery - 1)
    /\ lastRun \in 0..clock
    /\ sweep.pc \in {"idle", "snapshot", "list", "row", "publishing",
                     "prune", "purge", "purging", "end"}
    /\ sweep.began \in 0..clock
    /\ sweep.published \subseteq Key /\ sweep.stale \subseteq Key
    /\ age \in [Caller -> 0..(MaxStall + 1)]
    /\ listed \subseteq RowId

(* Between two cycles, a row consumers do not see as the database has it   *)
(* lies in the window of the next incremental sweep (or that sweep is a    *)
(* full one), whatever overlapped, failed or was late: the window is       *)
(* anchored at the start of the last clean cycle, so that a row committed  *)
(* while the cycle ran is read again, and it reaches back by the overlap,  *)
(* which nothing outlasts.                                                 *)
WindowCoversDrift ==
    MaxStall <= Overlap /\ sweep.pc = "idle" /\ ~FullDue
    => \A id \in RowId :
          Exists(id) /\ ~Mirrored(rows[id].key) => rows[id].at >= lastRun - Overlap

(* A prune never purges a key whose row the sweep had read: not when a     *)
(* publish of the sweep failed, not when it read a window only.            *)
Purges(k) ==
    /\ sweep.pc = "purging"
    /\ calls[Rec].pc = "purge" /\ calls'[Rec].pc = "ok"
    /\ calls[Rec].key = k

PruneSparesListedRows ==
    [][\A k \in Key : Purges(k) =>
          Backing(k) \cap listed = {}]_allVars

(* The keys consumers see that have no row.                                *)
Orphans == {k \in LiveKeys(SB) : Backing(k) = {}}

RowsMirrored == \A id \in RowId : Exists(id) => Mirrored(rows[id].key)

(* The sweeps refuse to prune for good when no row is left to publish, or  *)
(* when the keys without a row are more than a prune may take: nothing     *)
(* changes from one full sweep to the next, and they stay until a request  *)
(* or an operator acts.                                                    *)
OrphansPruned ==
    \/ Orphans = {}
    \/ \A id \in RowId : ~Exists(id)
    \/ Cardinality(Orphans) > PruneLimit

(* Once requests and faults stop, consumers see every row as the database  *)
(* has it, for good: after a start without NATS, a crash between commit    *)
(* and publish, a publish that gave up, a sweep that put an older document *)
(* back over a newer one, and a purge (of a request, timed out; of a prune,*)
(* decided before) that landed on a row created again in between.          *)
RowsConverge == <>[]RowsMirrored

(* And they see no key without a row either, unless the sweeps refuse to   *)
(* prune (reconciler.go:316-328).                                          *)
KvConverges == <>[](RowsMirrored /\ OrphansPruned)
=============================================================================
