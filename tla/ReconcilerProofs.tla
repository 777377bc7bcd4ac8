-------------------------- MODULE ReconcilerProofs --------------------------
(***************************************************************************)
(* Proofs about Reconciler, for every number of requests, rows, keys and   *)
(* documents, every interval of full sweeps, overlap and limit of a prune, *)
(* and every number of faults.                                             *)
(***************************************************************************)
EXTENDS Reconciler, SettingsProofs, SequenceTheorems, FiniteSetTheorems

-----------------------------------------------------------------------------
(* The invariant of the cycle.  While rows are left to publish, each row   *)
(* that was read and has not changed since was published, is among those   *)
(* left, or the sweep has failed and will not prune.  A sweep that prunes  *)
(* has published every such row, so that no stale key belongs to one.      *)

SweepPC == {"idle", "snapshot", "list", "row", "publishing",
            "prune", "purge", "purging", "end"}

Sweep == [pc : SweepPC, full : BOOLEAN, began : Nat, snapped : BOOLEAN,
          snap : [Key -> Nat], todo : Seq(Row), published : SUBSET Key,
          failed : BOOLEAN, stale : SUBSET Key]

Waiting(s, k) == \E i \in 1..Len(s.todo) : s.todo[i].key = k

Covers(s, R, L) ==
    /\ s.pc \in {"row", "publishing"} =>
         /\ s.todo # <<>>
         /\ s.failed = FALSE => \A id \in L : R[id].key \in s.published \/ Waiting(s, R[id].key)
    /\ s.pc \in {"prune", "purge", "purging"} => \A id \in L : R[id].key \in s.published
    /\ s.pc \in {"purge", "purging"} => s.stale \cap s.published = {}

Spared(s, m) == s.pc = "purging" /\ m.pc = "purge" => m.key \notin s.published

Timing ==
    /\ runs \in 0..(FullSweepEvery - 1)
    /\ lastRun \in 0..clock /\ sweep.began \in 0..clock
    /\ age \in [Caller -> 0..(MaxStall + 1)]
    /\ faults \in Nat

CycleInv ==
    /\ Timing
    /\ sweep \in Sweep
    /\ listed \subseteq RowId
    /\ Covers(sweep, rows, listed)
    /\ Spared(sweep, calls[Rec])

RecInv == RequestInv /\ CycleInv

LEMMA SweepFacts ==
  ASSUME NEW s \in Sweep
  PROVE  /\ s.pc \in SweepPC /\ s.full \in BOOLEAN /\ s.began \in Nat /\ s.snapped \in BOOLEAN
         /\ s.snap \in [Key -> Nat] /\ s.todo \in Seq(Row) /\ s.published \subseteq Key
         /\ s.failed \in BOOLEAN /\ s.stale \subseteq Key
  BY DEF Sweep

LEMMA NoSweepFacts ==
  /\ NoSweep \in Sweep /\ NoSweep.pc = "idle" /\ NoSweep.began = 0
  BY DEF NoSweep, Sweep, SweepPC

LEMMA RecCaller == Rec \in Caller /\ Rec \notin Request
  BY RecAssumption

(* Moving to a stage of the cycle.                                         *)
LEMMA StepFacts ==
  ASSUME NEW s \in Sweep, NEW pc \in SweepPC
  PROVE  LET t == [s EXCEPT !.pc = pc]
         IN  /\ t \in Sweep /\ t.pc = pc /\ t.full = s.full /\ t.began = s.began
             /\ t.todo = s.todo /\ t.published = s.published
             /\ t.failed = s.failed /\ t.stale = s.stale
  BY DEF Sweep

LEMMA AfterRowsFacts ==
  ASSUME NEW s \in Sweep
  PROVE  LET t == AfterRows(s)
         IN  /\ t \in Sweep /\ t.began = s.began /\ t.full = s.full /\ t.todo = s.todo
             /\ t.published = s.published /\ t.failed = s.failed
             /\ t.pc \in {"row", "prune", "end"}
             /\ t.pc = "row" <=> s.todo # <<>>
             /\ t.pc = "prune" => s.todo = <<>> /\ s.full /\ s.failed = FALSE
  <1> DEFINE pc == IF s.todo # <<>> THEN "row" ELSE IF Prunable(s) THEN "prune" ELSE "end"
  <1>1. AfterRows(s) = [s EXCEPT !.pc = pc]
    BY DEF AfterRows
  <1>2. /\ pc \in {"row", "prune", "end"} /\ (pc = "row" <=> s.todo # <<>>)
        /\ pc = "prune" => s.todo = <<>> /\ s.full /\ s.failed = FALSE
    BY SweepFacts DEF Prunable
  <1> HIDE DEF pc
  <1>3. pc \in SweepPC
    BY <1>2 DEF SweepPC
  <1>4. QED
    BY <1>1, <1>2, <1>3, StepFacts

-----------------------------------------------------------------------------
(* What a step keeps.                                                      *)

LEMMA ClockNext ==
  ASSUME RequestInv, [Next]_pubVars
  PROVE  clock \in Nat /\ clock' \in Nat /\ clock' >= clock
  <1>1. clock \in Nat
    BY DEF RequestInv, Inv, TypeOK
  <1>2. clock' = clock \/ clock' = clock + 1
    BY DEF Next, pubVars, PublishFlag, PublishDocument, DeleteKey, Begin, Exchange, Network,
       Current, Write, WriteConflict, Purge, ExchangeFails, ExchangeTimesOut, Taken,
       LatePut, LatePurge, LateLost, EnsureBuckets, Restart, Tick
  <1>3. QED
    BY <1>1, <1>2

LEMMA TimingKept ==
  ASSUME RecInv, [Next]_pubVars, Noted, Fault \/ UNCHANGED faults,
         runs' \in 0..(FullSweepEvery - 1), lastRun' \in 0..clock, sweep'.began \in 0..clock
  PROVE  Timing'
  <1>1. clock \in Nat /\ clock' \in Nat /\ clock' >= clock
    BY ClockNext DEF RecInv
  <1>2. lastRun' \in 0..clock' /\ sweep'.began \in 0..clock'
    BY <1>1
  <1>3. faults' \in Nat
    BY DEF RecInv, CycleInv, Timing, Fault
  <1>4. age' \in [Caller -> 0..(MaxStall + 1)]
    BY StallAssumption DEF Noted, RecInv, CycleInv, Timing
  <1>5. QED
    BY <1>2, <1>3, <1>4 DEF Timing

LEMMA CoversKept ==
  ASSUME NEW s, NEW R, NEW L, Covers(s, R, L), NEW Q, NEW M, M \subseteq L,
         \A id \in M : Q[id] = R[id]
  PROVE  Covers(s, Q, M)
  BY DEF Covers

LEMMA ListRowsMoves ==
  ASSUME sweep \in Sweep, ListRows
  PROVE  sweep.pc = "list" /\ sweep'.pc \in {"row", "prune", "end"}
  BY DEF ListRows, AfterRows, Sweep

LEMMA ListedKept ==
  ASSUME RecInv, Noted, ~ListRows
  PROVE  /\ listed' \subseteq listed /\ \A id \in listed' : rows'[id] = rows[id]
         /\ listed' \subseteq RowId
  BY DEF Noted, RecInv, CycleInv

LEMMA CycleFacts ==
  ASSUME RecInv
  PROVE  /\ sweep \in Sweep /\ listed \subseteq RowId /\ Covers(sweep, rows, listed)
         /\ Spared(sweep, calls[Rec]) /\ lastRun \in 0..clock /\ sweep.began \in 0..clock
         /\ runs \in 0..(FullSweepEvery - 1) /\ clock \in Nat
         /\ calls \in [Caller -> Call] /\ RequestInv /\ started \in Nat
  BY DEF RecInv, CycleInv, Timing, RequestInv, Inv, TypeOK, Settled

(* A step of somebody else.                                                *)
LEMMA SweepAside ==
  ASSUME RecInv, Noted, RequestStepOK, UNCHANGED <<runs, lastRun, sweep>>,
         Fault \/ UNCHANGED faults,
         calls'[Rec].pc = "purge" => calls[Rec].pc = "purge" /\ calls'[Rec].key = calls[Rec].key
  PROVE  CycleInv'
  <1>1. ~ListRows
    BY CycleFacts, ListRowsMoves
  <1>2. /\ listed' \subseteq listed /\ \A id \in listed' : rows'[id] = rows[id]
        /\ listed' \subseteq RowId
    BY <1>1, ListedKept
  <1>3. Covers(sweep, rows', listed')
    BY <1>2, CycleFacts, CoversKept
  <1>4. Spared(sweep, calls'[Rec])
    BY CycleFacts DEF Spared
  <1>5. Timing'
    BY CycleFacts, TimingKept DEF RequestStepOK
  <1>6. QED
    BY <1>2, <1>3, <1>4, <1>5, CycleFacts DEF CycleInv

LEMMA ExchangePurge ==
  ASSUME calls \in [Caller -> Call], NEW c \in Caller, NEW d \in Caller,
         \/ Current(c) \/ Write(c) \/ WriteConflict(c) \/ Purge(c)
         \/ ExchangeFails(c) \/ ExchangeTimesOut(c) \/ Network(c)
  PROVE  calls'[d].pc = "purge" => calls'[d] = calls[d]
  <1>1. ASSUME NEW a \in Answer, Return(c, a)
        PROVE  calls'[d].pc = "purge" => calls'[d] = calls[d]
    BY <1>1, ReturnType DEF Answer
  <1>2. CASE Current(c)
    <2> DEFINE m == calls[c]
               cur == kv[m.bucket].entry[m.key]
               n == [m EXCEPT !.pc = "write", !.revision = cur.revision,
                              !.stamp = Build(m.bucket, m.payload, cur).write.stamp]
    <2>1. m \in Call
      OBVIOUS
    <2>2. n.pc = "write"
      BY <2>1 DEF Call
    <2>3. Return(c, "skipped") \/ calls' = [calls EXCEPT ![c] = n]
      BY <1>2 DEF Current
    <2> HIDE DEF n
    <2>4. CASE calls' = [calls EXCEPT ![c] = n]
      BY <2>2, <2>4
    <2>5. QED
      BY <1>1, <2>3, <2>4 DEF Answer
  <1>3. CASE WriteConflict(c)
    <2>1. CASE calls'[c].pc = "get" /\ \A e \in Caller : e # c => calls'[e] = calls[e]
      BY <2>1
    <2>2. CASE Return(c, "conflict")
      BY <1>1, <2>2 DEF Answer
    <2>3. QED
      BY <1>3, <2>1, <2>2 DEF WriteConflict, Call
  <1>4. CASE Write(c) \/ Purge(c) \/ ExchangeFails(c) \/ ExchangeTimesOut(c)
    BY <1>1, <1>4 DEF Write, Purge, ExchangeFails, ExchangeTimesOut, Answer
  <1>5. CASE Network(c)
    BY <1>5 DEF Network, LatePut, LatePurge, LateLost
  <1>6. QED
    BY <1>2, <1>3, <1>4, <1>5

LEMMA ExchangesKeep ==
  ASSUME RecInv, NEW c \in Caller, Exchanged(c) \/ ExchangeLost(c) \/ Deliver(c), Noted
  PROVE  RequestStepOK /\ CycleInv'
  <1>1. /\ \/ Current(c) \/ Write(c) \/ WriteConflict(c) \/ Purge(c)
           \/ ExchangeFails(c) \/ ExchangeTimesOut(c) \/ Network(c)
        /\ UNCHANGED <<ssVars, runs, lastRun, sweep>> /\ (Fault \/ UNCHANGED faults)
    BY DEF Exchanged, ExchangeLost, Deliver
  <1>2. Next
    BY <1>1 DEF Next, Exchange
  <1>3. RequestStepOK
    BY <1>1, <1>2, CycleFacts, OthersKeep
  <1>4. calls'[Rec].pc = "purge" => calls'[Rec] = calls[Rec]
    BY <1>1, CycleFacts, RecCaller, ExchangePurge
  <1>5. QED
    BY <1>1, <1>3, <1>4, SweepAside

(* A request calls the publisher in its own name.                          *)
LEMMA RequestCalls ==
  ASSUME RecInv, NEW c \in Request, Arrival(c) \/ RequestStep(c) \/ DatabaseFails(c)
  PROVE  calls'[Rec] = calls[Rec]
  <1>1. c \in Caller /\ c # Rec /\ calls \in [Caller -> Call]
    BY RecCaller, RequestAssumption, CycleFacts
  <1>2. CASE UNCHANGED pubVars
    BY <1>2 DEF pubVars
  <1>3. ASSUME NEW r, calls' = [calls EXCEPT ![c] = r]
        PROVE  calls'[Rec] = calls[Rec]
    BY <1>1, <1>3, RecCaller
  <1>4. ASSUME NEW a, Return(c, a)
        PROVE  calls'[Rec] = calls[Rec]
    BY <1>3, <1>4 DEF Return
  <1>5. ASSUME NEW b, NEW k, NEW p, NEW pc, Begin(c, b, k, p, pc)
        PROVE  calls'[Rec] = calls[Rec]
    BY <1>3, <1>4, <1>5 DEF Begin
  <1>6. ASSUME NEW k, DeleteKey(c, BucketServiceSettings, k)
        PROVE  calls'[Rec] = calls[Rec]
    BY <1>5, <1>6 DEF DeleteKey
  <1>7. ASSUME NEW k, NEW p, PublishServiceSettings(c, k, p)
        PROVE  calls'[Rec] = calls[Rec]
    BY <1>4, <1>5, <1>7 DEF PublishServiceSettings, PublishDocument
  <1>8. CASE Exec(c)
    BY <1>2, <1>6, <1>8 DEF Exec
  <1>9. CASE ReadBack(c)
    BY <1>2, <1>7, <1>9 DEF ReadBack
  <1>10. CASE AfterPublish(c) \/ AfterPurge(c)
    BY <1>4, <1>6, <1>10 DEF AfterPublish, AfterPurge, Taken
  <1>11. QED
    BY <1>2, <1>8, <1>9, <1>10 DEF Arrival, CreateMicroserviceConfig, UpdateMicroserviceConfig,
       DeleteMicroserviceConfig, Accept, RequestStep, ReadPrevious, checkAppSettingsRefs,
       ExecRefused, DatabaseFails

LEMMA RequestsKeep ==
  ASSUME RecInv, NEW c \in Request, RequestMoves(c) \/ RequestLost(c), Noted
  PROVE  RequestStepOK /\ CycleInv'
  <1>1. /\ Arrival(c) \/ RequestStep(c) \/ DatabaseFails(c)
        /\ UNCHANGED <<runs, lastRun, sweep>> /\ (Fault \/ UNCHANGED faults)
    BY DEF RequestMoves, RequestLost
  <1>2. RequestStepOK
    BY <1>1, CycleFacts, ArrivalKeeps, ReadPreviousKeeps, CheckKeeps, ExecKeeps, ExecRefusedKeeps,
       ReadBackKeeps, AfterPublishKeeps, DatabaseFailsKeeps DEF RequestStep
  <1>3. calls'[Rec] = calls[Rec]
    BY <1>1, RequestCalls
  <1>4. QED
    BY <1>1, <1>2, <1>3, SweepAside

-----------------------------------------------------------------------------
(* The steps of the cycle.                                                 *)

(* A step of the cycle other than the reading of the rows.                 *)
LEMMA CycleMoves ==
  ASSUME RecInv, Noted, sweep.pc # "list", UNCHANGED <<ssVars>>, [Next]_pubVars,
         Fault \/ UNCHANGED faults, runs' \in 0..(FullSweepEvery - 1),
         lastRun' \in 0..clock, sweep' \in Sweep, sweep'.began \in 0..clock,
         Covers(sweep', rows, listed), Spared(sweep', calls'[Rec])
  PROVE  RequestStepOK /\ CycleInv'
  <1>1. ~ListRows
    BY DEF ListRows
  <1>2. RequestStepOK
    BY CycleFacts, OthersKeep
  <1>3. /\ listed' \subseteq listed /\ \A id \in listed' : rows'[id] = rows[id]
        /\ listed' \subseteq RowId
    BY <1>1, ListedKept
  <1>4. Covers(sweep', rows', listed')
    BY <1>3, CoversKept
  <1>5. Timing'
    BY TimingKept
  <1>6. QED
    BY <1>2, <1>3, <1>4, <1>5 DEF CycleInv

(* Stages of the cycle that owe nothing to the rows listed.                *)
LEMMA Unburdened ==
  ASSUME NEW s, NEW R, NEW L, NEW m, s.pc \in {"idle", "snapshot", "list", "end"}
  PROVE  Covers(s, R, L) /\ Spared(s, m)
  BY DEF Covers, Spared

LEMMA StartCycleKeeps ==
  ASSUME RecInv, StartCycle, Noted
  PROVE  RequestStepOK /\ CycleInv'
  <1> DEFINE pc == IF FullDue THEN "snapshot" ELSE "list"
             t == [NoSweep EXCEPT !.pc = pc, !.full = FullDue, !.began = clock]
  <1>1. sweep.pc = "idle" /\ sweep' = t /\ UNCHANGED <<ssVars, runs, lastRun>>
    BY DEF StartCycle
  <1>2. clock \in Nat /\ provisioned \in BOOLEAN
    BY DEF RecInv, RequestInv, Inv, TypeOK
  <1>3. FullDue \in BOOLEAN
    BY DEF FullDue
  <1>4. t \in Sweep /\ t.pc \in {"snapshot", "list"} /\ t.began = clock
    BY <1>2, <1>3, NoSweepFacts DEF Sweep, SweepPC, NoSweep
  <1>5. [Next]_pubVars
    BY <1>2 DEF StartCycle, Next, EnsureBuckets, pubVars
  <1>6. Fault \/ UNCHANGED faults
    BY DEF StartCycle
  <1> HIDE DEF t
  <1>7. Covers(sweep', rows, listed) /\ Spared(sweep', calls'[Rec])
    BY <1>1, <1>4, Unburdened
  <1>8. QED
    BY <1>1, <1>2, <1>4, <1>5, <1>6, <1>7, CycleFacts, CycleMoves

LEMMA SnapshotKeeps ==
  ASSUME RecInv, Snapshot, Noted
  PROVE  RequestStepOK /\ CycleInv'
  <1> DEFINE read == [k \in Key |-> IF Live(SB, k) THEN SB.entry[k].revision ELSE 0]
             t == [sweep EXCEPT !.pc = "list", !.snapped = TRUE, !.snap = read]
  <1>1. /\ sweep.pc = "snapshot" /\ (sweep' = t \/ Step("list"))
        /\ UNCHANGED <<pubVars, ssVars, runs, lastRun>> /\ (Fault \/ UNCHANGED faults)
    BY DEF Snapshot
  <1>2. SB \in BucketState
    BY SettingsBucketAssumption DEF SB, RecInv, RequestInv, Inv, TypeOK
  <1>3. read \in [Key -> Nat]
    BY <1>2 DEF BucketState, Entry, Live
  <1> HIDE DEF read
  <1>4. sweep' \in Sweep /\ sweep'.pc = "list" /\ sweep'.began = sweep.began
    BY <1>1, <1>3, CycleFacts DEF Step, Sweep, SweepPC
  <1>5. QED
    BY <1>1, <1>4, CycleFacts, CycleMoves, Unburdened

(* The rows of the window, in order: each of them, and nothing else.       *)
LEMMA RowsRead ==
  ASSUME RecInv, NEW ids \in InIdOrder(Window)
  PROVE  LET T == [i \in DOMAIN ids |-> rows[ids[i]]]
         IN  /\ T \in Seq(Row)
             /\ \A id \in Window : \E i \in 1..Len(T) : T[i] = rows[id]
             /\ \A i \in 1..Len(T) : \E id \in Window : T[i] = rows[id]
             /\ T = <<>> => Window = {}
  <1> DEFINE n == Cardinality(Window)
             T == [i \in DOMAIN ids |-> rows[ids[i]]]
  <1>1. IsFiniteSet(Window)
    BY RowIdBoundAssumption, FS_Subset DEF Window
  <1>2. n \in Nat
    BY <1>1, FS_CardinalityType
  <1>3. /\ ids \in [1..n -> Window]
        /\ \A id \in Window : \E i \in DOMAIN ids : ids[i] = id
    BY DEF InIdOrder, Range
  <1>4. \A id \in Window : rows[id] \in Row
    BY DEF Window, Exists, RecInv, RequestInv, Settled
  <1> HIDE DEF n
  <1>5. T \in [1..n -> Row] /\ DOMAIN ids = 1..n
    BY <1>3, <1>4
  <1>6. T \in Seq(Row) /\ Len(T) = n
    BY <1>2, <1>5
  <1>7. /\ \A id \in Window : \E i \in 1..n : T[i] = rows[id]
        /\ \A i \in 1..n : \E id \in Window : T[i] = rows[id]
    BY <1>3, <1>5
  <1> HIDE DEF T
  <1>8. T = <<>> => n = 0
    BY <1>6
  <1>9. T = <<>> => Window = {}
    BY <1>2, <1>7, <1>8
  <1>10. QED
    BY <1>6, <1>7, <1>9 DEF T

LEMMA ListRowsKeeps ==
  ASSUME RecInv, ListRows, Noted
  PROVE  RequestStepOK /\ CycleInv'
  <1>1. /\ UNCHANGED <<pubVars, ssVars, runs, lastRun>> /\ (Fault \/ UNCHANGED faults)
        /\ listed' = Window
    BY DEF ListRows, Noted
  <1>2. RequestStepOK
    BY <1>1, CycleFacts, OthersKeep
  <1>3. /\ sweep' \in Sweep /\ sweep'.began = sweep.began
        /\ Covers(sweep', rows, Window) /\ sweep'.pc \in {"row", "prune", "end"}
    <2>1. CASE sweep' = [sweep EXCEPT !.pc = "end", !.failed = TRUE]
      <3>1. sweep' \in Sweep /\ sweep'.pc = "end" /\ sweep'.began = sweep.began
        BY <2>1, CycleFacts DEF Sweep, SweepPC
      <3>2. QED
        BY <3>1, Unburdened
    <2>2. CASE \E ids \in InIdOrder(Window) :
                  sweep' = AfterRows([sweep EXCEPT !.todo = [i \in DOMAIN ids |-> rows[ids[i]]]])
      <3>1. PICK ids \in InIdOrder(Window) :
                  sweep' = AfterRows([sweep EXCEPT !.todo = [i \in DOMAIN ids |-> rows[ids[i]]]])
        BY <2>2
      <3> DEFINE T == [i \in DOMAIN ids |-> rows[ids[i]]]
                 s == [sweep EXCEPT !.todo = T]
      <3>2. /\ T \in Seq(Row)
            /\ \A id \in Window : \E i \in 1..Len(T) : T[i] = rows[id]
            /\ T = <<>> => Window = {}
        BY RowsRead
      <3>3. sweep' = AfterRows(s)
        BY <3>1
      <3> HIDE DEF T
      <3>4. s \in Sweep /\ s.todo = T /\ s.began = sweep.began
        BY <3>2, CycleFacts DEF Sweep
      <3> HIDE DEF s
      <3>5. /\ sweep' \in Sweep /\ sweep'.began = s.began /\ sweep'.todo = T
            /\ sweep'.pc \in {"row", "prune", "end"}
            /\ sweep'.pc = "row" => T # <<>>
            /\ sweep'.pc = "prune" => T = <<>>
        BY <3>3, <3>4, AfterRowsFacts
      <3>6. Covers(sweep', rows, Window)
        BY <3>2, <3>5 DEF Covers, Waiting
      <3>7. QED
        BY <3>4, <3>5, <3>6
    <2>3. QED
      BY <2>1, <2>2 DEF ListRows
  <1>4. Covers(sweep', rows', listed')
    BY <1>1, <1>3 DEF ssVars
  <1>5. Spared(sweep', calls'[Rec])
    BY <1>3 DEF Spared
  <1>6. Timing'
    BY <1>1, <1>3, CycleFacts, TimingKept
  <1>7. listed' \subseteq RowId
    BY <1>1 DEF Window
  <1>8. QED
    BY <1>2, <1>3, <1>4, <1>5, <1>6, <1>7 DEF CycleInv

LEMMA SweepRowKeeps ==
  ASSUME RecInv, SweepRow, Noted
  PROVE  RequestStepOK /\ CycleInv'
  <1>1. /\ sweep.pc = "row" /\ Step("publishing")
        /\ PublishServiceSettings(Rec, Head(sweep.todo).key, Head(sweep.todo).doc)
        /\ UNCHANGED <<ssVars, runs, lastRun, faults>>
    BY DEF SweepRow
  <1>2. Covers(sweep, rows, listed) /\ sweep.todo \in Seq(Row) /\ sweep.todo # <<>>
    BY <1>1, CycleFacts, SweepFacts DEF Covers
  <1>3. Head(sweep.todo).key \in Key /\ Head(sweep.todo).doc \in Payload
    <2>1. Head(sweep.todo) \in Row
      BY <1>2
    <2>2. QED
      BY <2>1 DEF Row
  <1>4. Next
    BY <1>1, <1>3, RecCaller, PublishCall
  <1>5. /\ sweep' \in Sweep /\ sweep'.pc = "publishing" /\ sweep'.began = sweep.began
        /\ sweep'.todo = sweep.todo /\ sweep'.published = sweep.published
        /\ sweep'.failed = sweep.failed
    BY <1>1, CycleFacts, StepFacts DEF Step, SweepPC
  <1>6. Covers(sweep', rows, listed)
    BY <1>1, <1>2, <1>5 DEF Covers, Waiting
  <1>7. Spared(sweep', calls'[Rec])
    BY <1>5 DEF Spared
  <1>8. QED
    BY <1>1, <1>4, <1>5, <1>6, <1>7, CycleFacts, CycleMoves

(* What is left to publish after the first row.                            *)
LEMMA WaitingTail ==
  ASSUME NEW q \in Seq(Row), q # <<>>, NEW i \in 1..Len(q), NEW k, q[i].key = k, Head(q).key # k
  PROVE  Tail(q) \in Seq(Row) /\ \E j \in 1..Len(Tail(q)) : Tail(q)[j].key = k
  <1>1. i # 1
    OBVIOUS
  <1>2. /\ i - 1 \in 1..Len(Tail(q)) /\ Tail(q)[i - 1] = q[i]
    BY <1>1
  <1>3. QED
    BY <1>2

LEMMA SweepRowDoneKeeps ==
  ASSUME RecInv, SweepRowDone, Noted
  PROVE  RequestStepOK /\ CycleInv'
  <1> DEFINE row == Head(sweep.todo)
             P == IF Dropped(Rec) THEN sweep.published ELSE sweep.published \cup {row.key}
             F == sweep.failed \/ Dropped(Rec)
             s == [sweep EXCEPT !.todo = Tail(@), !.published = P, !.failed = F]
  <1>1. /\ sweep.pc = "publishing" /\ Taken(Rec) /\ sweep' = AfterRows(s)
        /\ UNCHANGED <<ssVars, runs, lastRun, faults>>
    BY DEF SweepRowDone
  <1>2. /\ Covers(sweep, rows, listed) /\ sweep.todo \in Seq(Row) /\ sweep.todo # <<>>
        /\ sweep.published \subseteq Key /\ sweep.failed \in BOOLEAN
    BY <1>1, CycleFacts, SweepFacts DEF Covers
  <1>3. row \in Row /\ Tail(sweep.todo) \in Seq(Row)
    BY <1>2
  <1>4. /\ P \subseteq Key /\ F \in BOOLEAN /\ sweep.published \subseteq P
        /\ F = FALSE => sweep.failed = FALSE /\ row.key \in P
    <2>1. row.key \in Key
      BY <1>3 DEF Row
    <2> HIDE DEF row
    <2>2. P \subseteq Key /\ sweep.published \subseteq P /\ (~Dropped(Rec) => row.key \in P)
      BY <1>2, <2>1
    <2>3. F \in BOOLEAN /\ (F = FALSE => sweep.failed = FALSE /\ ~Dropped(Rec))
      BY <1>2
    <2>4. QED
      BY <2>2, <2>3
  <1> HIDE DEF P, F
  <1>5. /\ s \in Sweep /\ s.todo = Tail(sweep.todo) /\ s.published = P /\ s.failed = F
        /\ s.began = sweep.began
    BY <1>3, <1>4, CycleFacts DEF Sweep
  <1>6. ASSUME F = FALSE, NEW id \in listed
        PROVE  rows[id].key \in P \/ \E j \in 1..Len(s.todo) : s.todo[j].key = rows[id].key
    <2>1. rows[id].key \in sweep.published \/ Waiting(sweep, rows[id].key)
      BY <1>1, <1>2, <1>4, <1>6 DEF Covers
    <2>2. CASE Waiting(sweep, rows[id].key) /\ row.key # rows[id].key
      BY <1>2, <1>5, <2>2, WaitingTail DEF Waiting
    <2>3. QED
      BY <1>4, <1>6, <2>1, <2>2
  <1> HIDE DEF s
  <1>7. /\ sweep' \in Sweep /\ sweep'.began = sweep.began /\ sweep'.todo = s.todo
        /\ sweep'.published = P /\ sweep'.failed = F
        /\ sweep'.pc \in {"row", "prune", "end"}
        /\ sweep'.pc = "row" => s.todo # <<>>
        /\ sweep'.pc = "prune" => s.todo = <<>> /\ F = FALSE
    BY <1>1, <1>5, AfterRowsFacts
  <1>8. s.todo = <<>> => 1..Len(s.todo) = {}
    OBVIOUS
  <1>9. Covers(sweep', rows, listed)
    BY <1>6, <1>7, <1>8 DEF Covers, Waiting
  <1>10. Spared(sweep', calls'[Rec])
    BY <1>7 DEF Spared
  <1>11. Next
    BY <1>1, RecCaller DEF Next, Exchange
  <1>12. QED
    BY <1>1, <1>7, <1>9, <1>10, <1>11, CycleFacts, CycleMoves

(* Only keys without a row among those listed are marked as stale.         *)
LEMMA PurgingMoves ==
  ASSUME RecInv, NEW D \in SUBSET Key, D \cap sweep.published = {}, Purging(D),
         sweep.pc \in {"prune", "purge", "purging"}
  PROVE  /\ sweep' \in Sweep /\ sweep'.began = sweep.began /\ sweep'.pc \in {"purge", "end"}
         /\ Covers(sweep', rows, listed) /\ Spared(sweep', calls'[Rec])
  <1> DEFINE pc == IF D = {} THEN "end" ELSE "purge"
  <1>1. pc \in {"purge", "end"} /\ sweep' = [sweep EXCEPT !.pc = pc, !.stale = D]
    BY DEF Purging
  <1> HIDE DEF pc
  <1>2. /\ sweep' \in Sweep /\ sweep'.began = sweep.began /\ sweep'.pc = pc
        /\ sweep'.stale = D /\ sweep'.published = sweep.published
    BY <1>1, CycleFacts DEF Sweep, SweepPC
  <1>3. \A id \in listed : rows[id].key \in sweep.published
    BY CycleFacts DEF Covers
  <1>4. QED
    BY <1>1, <1>2, <1>3 DEF Covers, Spared

LEMMA PruneKeeps ==
  ASSUME RecInv, Prune, Noted
  PROVE  RequestStepOK /\ CycleInv'
  <1>1. /\ sweep.pc = "prune" /\ UNCHANGED <<pubVars, ssVars, runs, lastRun>>
        /\ Fault \/ UNCHANGED faults
    BY DEF Prune
  <1>2. CASE Purging(IF Refused THEN {} ELSE Stale)
    <2> DEFINE D == IF Refused THEN {} ELSE Stale
    <2>1. D \in SUBSET Key /\ D \cap sweep.published = {}
      BY DEF Stale, LiveKeys
    <2>2. Purging(D)
      BY <1>2
    <2> HIDE DEF D
    <2>3. QED
      BY <1>1, <2>1, <2>2, PurgingMoves, CycleFacts, CycleMoves
  <1>3. CASE Step("end")
    <2>1. sweep' \in Sweep /\ sweep'.began = sweep.began /\ sweep'.pc = "end"
      BY <1>3, CycleFacts, StepFacts DEF Step, SweepPC
    <2>2. QED
      BY <1>1, <2>1, Unburdened, CycleFacts, CycleMoves
  <1>4. QED
    BY <1>2, <1>3 DEF Prune

LEMMA PurgeStaleKeeps ==
  ASSUME RecInv, PurgeStale, Noted
  PROVE  RequestStepOK /\ CycleInv'
  <1>1. PICK k \in sweep.stale :
          /\ DeleteKey(Rec, BucketServiceSettings, k)
          /\ sweep' = [sweep EXCEPT !.pc = "purging", !.stale = @ \ {k}]
    BY DEF PurgeStale
  <1>2. sweep.pc = "purge" /\ UNCHANGED <<ssVars, runs, lastRun, faults>>
    BY DEF PurgeStale
  <1>3. /\ sweep.stale \subseteq Key /\ sweep.stale \cap sweep.published = {}
        /\ \A id \in listed : rows[id].key \in sweep.published
    BY <1>2, CycleFacts, SweepFacts DEF Covers
  <1>4. /\ sweep' \in Sweep /\ sweep'.began = sweep.began /\ sweep'.pc = "purging"
        /\ sweep'.stale = sweep.stale \ {k} /\ sweep'.published = sweep.published
    BY <1>1, <1>3, CycleFacts DEF Sweep, SweepPC
  <1>5. Covers(sweep', rows, listed)
    BY <1>3, <1>4 DEF Covers
  <1>6. Next
    BY <1>1, <1>3, RecCaller, PurgeCall
  <1>7. calls'[Rec].pc = "purge" => calls'[Rec].key = k
    <2>1. CASE calls' = [calls EXCEPT ![Rec] = Started(BucketServiceSettings, k, NoPayload, "purge")]
      BY <2>1, CycleFacts, RecCaller DEF Started
    <2>2. CASE Return(Rec, "failed")
      BY <2>2, CycleFacts, RecCaller, ReturnType DEF Answer
    <2>3. QED
      BY <1>1, <2>1, <2>2 DEF DeleteKey, Begin
  <1>8. Spared(sweep', calls'[Rec])
    BY <1>1, <1>3, <1>4, <1>7 DEF Spared
  <1>9. QED
    BY <1>2, <1>4, <1>5, <1>6, <1>8, CycleFacts, CycleMoves

LEMMA PurgeStaleDoneKeeps ==
  ASSUME RecInv, PurgeStaleDone, Noted
  PROVE  RequestStepOK /\ CycleInv'
  <1>1. /\ sweep.pc = "purging" /\ Taken(Rec) /\ Purging(sweep.stale)
        /\ UNCHANGED <<ssVars, runs, lastRun, faults>>
    BY DEF PurgeStaleDone
  <1>2. sweep.stale \in SUBSET Key /\ sweep.stale \cap sweep.published = {}
    BY <1>1, CycleFacts, SweepFacts DEF Covers
  <1>3. Next
    BY <1>1, RecCaller DEF Next, Exchange
  <1>4. QED
    BY <1>1, <1>2, <1>3, PurgingMoves, CycleFacts, CycleMoves

LEMMA EndCycleKeeps ==
  ASSUME RecInv, EndCycle \/ OtherSourceFails, Noted
  PROVE  RequestStepOK /\ CycleInv'
  <1>1. sweep.pc = "end" /\ UNCHANGED <<pubVars, ssVars>> /\ (Fault \/ UNCHANGED faults)
    BY DEF EndCycle, OtherSourceFails
  <1>2. CASE EndCycle
    <2>1. runs' \in 0..(FullSweepEvery - 1)
      BY <1>2, CycleFacts, SweepAssumption DEF EndCycle
    <2>2. /\ lastRun' \in 0..clock /\ sweep' \in Sweep /\ sweep'.pc = "idle"
          /\ sweep'.began \in 0..clock
      BY <1>2, CycleFacts, NoSweepFacts DEF EndCycle
    <2>3. QED
      BY <1>1, <2>1, <2>2, Unburdened, CycleMoves
  <1>3. CASE OtherSourceFails
    <2>1. /\ sweep' \in Sweep /\ sweep'.pc = "end" /\ sweep'.began = sweep.began
          /\ UNCHANGED <<runs, lastRun>>
      BY <1>3, CycleFacts DEF OtherSourceFails, Sweep
    <2>2. QED
      BY <1>1, <2>1, Unburdened, CycleFacts, CycleMoves
  <1>4. QED
    BY <1>2, <1>3

-----------------------------------------------------------------------------
(* A crash, the clock, and the whole.                                      *)

LEMMA RecCrashKeeps ==
  ASSUME RecInv, RecCrash, Noted
  PROVE  RequestStepOK /\ CycleInv'
  <1>1. RequestStepOK
    BY CycleFacts, CrashKeeps DEF RecCrash
  <1>2. sweep' \in Sweep /\ sweep'.pc = "idle" /\ sweep'.began = 0
    BY NoSweepFacts DEF RecCrash
  <1>3. ~ListRows
    BY <1>2, CycleFacts, ListRowsMoves
  <1>4. listed' \subseteq RowId
    BY <1>3, ListedKept
  <1>5. Timing'
    <2>1. runs' \in 0..(FullSweepEvery - 1) /\ lastRun' \in 0..clock /\ sweep'.began \in 0..clock
      BY <1>2, CycleFacts, SweepAssumption DEF RecCrash
    <2>2. QED
      BY <1>1, <2>1, TimingKept DEF RequestStepOK, RecCrash
  <1>6. Covers(sweep', rows', listed') /\ Spared(sweep', calls'[Rec])
    BY <1>2, Unburdened
  <1>7. QED
    BY <1>1, <1>2, <1>4, <1>5, <1>6 DEF CycleInv

LEMMA RecTickKeeps ==
  ASSUME RecInv, RecTick
  PROVE  RequestStepOK /\ CycleInv'
  <1>1. Next /\ UNCHANGED <<ssVars, runs, lastRun, sweep, faults, listed, calls>>
    BY DEF RecTick, Tick, Next
  <1>2. RequestStepOK
    BY <1>1, CycleFacts, OthersKeep
  <1>3. clock \in Nat /\ clock' = clock + 1
    BY CycleFacts DEF RecTick, Tick
  <1>4. age' \in [Caller -> 0..(MaxStall + 1)]
    <2>1. age \in [Caller -> 0..(MaxStall + 1)]
      BY DEF RecInv, CycleInv, Timing
    <2>2. \A c \in Caller : age[c] <= MaxStall => age[c] + 1 \in 0..(MaxStall + 1)
      BY <2>1, StallAssumption
    <2>3. QED
      BY <2>1, <2>2 DEF RecTick
  <1>5. Timing'
    BY <1>1, <1>3, <1>4 DEF RecInv, CycleInv, Timing
  <1>6. QED
    BY <1>1, <1>2, <1>5, CycleFacts DEF CycleInv, ssVars

LEMMA CycleKeeps ==
  ASSUME RecInv, Cycle, Noted
  PROVE  RequestStepOK /\ CycleInv'
  BY StartCycleKeeps, SnapshotKeeps, ListRowsKeeps, SweepRowKeeps, SweepRowDoneKeeps,
     PruneKeeps, PurgeStaleKeeps, PurgeStaleDoneKeeps, EndCycleKeeps DEF Cycle

LEMMA RecNextKeeps == RecInv /\ [RecNext]_allVars => RequestStepOK /\ CycleInv'
  <1> SUFFICES ASSUME RecInv, [RecNext]_allVars PROVE RequestStepOK /\ CycleInv'
    OBVIOUS
  <1>1. CASE Untimed /\ Noted
    BY <1>1, CycleKeeps, ExchangesKeep, RequestsKeep, RecCrashKeeps DEF Untimed
  <1>2. CASE RecTick
    BY <1>2, RecTickKeeps
  <1>3. CASE UNCHANGED allVars
    <2>1. UNCHANGED <<pubVars, ssVars, rows, calls, clock>> /\ UNCHANGED recVars
      BY <1>3 DEF allVars, vars, ssVars, pubVars
    <2>2. RequestStepOK
      BY <2>1, CycleFacts, OthersKeep
    <2>3. CycleInv'
      BY <2>1 DEF recVars, RecInv, CycleInv, Timing
    <2>4. QED
      BY <2>2, <2>3
  <1>4. QED
    BY <1>1, <1>2, <1>3 DEF RecNext

LEMMA RecInitInv == RecInit => Init /\ RecInv
  <1> SUFFICES ASSUME RecInit PROVE Init /\ RecInv
    OBVIOUS
  <1>1. Init /\ Inv /\ Settled
    BY RequestInit DEF RecInit
  <1>2. clock = 1 /\ runs = 0 /\ lastRun = 0 /\ sweep = NoSweep /\ faults = 0 /\ listed = {}
        /\ age = [c \in Caller |-> 0]
    BY <1>1 DEF RecInit, Init
  <1>3. Timing
    BY <1>2, NoSweepFacts, SweepAssumption, StallAssumption DEF Timing
  <1>4. Covers(sweep, rows, listed) /\ Spared(sweep, calls[Rec])
    BY <1>2, NoSweepFacts, Unburdened
  <1>5. QED
    BY <1>1, <1>2, <1>3, <1>4, NoSweepFacts DEF RecInv, CycleInv, RequestInv

(* The reconciler and the requests together use the publisher only through *)
(* its operations: a sweep is, to the publisher, one more caller, and what *)
(* the cycle keeps holds in every state.                                   *)
THEOREM SweepsAreCallers == RecSpec => Spec /\ []RecInv
  <1>1. RecInit => Init /\ RecInv
    BY RecInitInv
  <1>2. RecInv /\ [RecNext]_allVars => [Next]_pubVars
    BY RecNextKeeps DEF RequestStepOK
  <1>3. RecInv /\ [RecNext]_allVars => RecInv'
    <2> SUFFICES ASSUME RecInv, [RecNext]_allVars PROVE RecInv'
      OBVIOUS
    <2>1. RequestStepOK /\ CycleInv'
      BY RecNextKeeps
    <2>2. Inv'
      BY <2>1, NextInv DEF RecInv, RequestInv, RequestStepOK
    <2>3. QED
      BY <2>1, <2>2 DEF RecInv, RequestInv, RequestStepOK
  <1>4. QED
    BY <1>1, <1>2, <1>3, PTL DEF RecSpec, Spec

(* With a sweep in progress too, every publish and every purge takes       *)
(* effect at once or not at all.                                           *)
COROLLARY SweepsWriteAtomically == RecSpec => PublishIsAtomic
  BY SweepsAreCallers, PublishAtomic, PTL

(* Type correctness of the cycle's state.                                  *)
THEOREM SweepTypeCorrect == RecSpec => []RecTypeOK
  <1>1. RecInv => RecTypeOK
    <2> SUFFICES ASSUME RecInv PROVE RecTypeOK
      OBVIOUS
    <2>1. SSTypeOK
      BY DEF RecInv, RequestInv, Inv, Settled, SSTypeOK
    <2>2. QED
      BY <2>1, CycleFacts, SweepFacts DEF RecTypeOK, RecInv, CycleInv, Timing, SweepPC
  <1>2. QED
    BY <1>1, SweepsAreCallers, PTL

(* A prune never purges a key whose row the sweep had read and nobody has  *)
(* changed since, whatever fails, overlaps or crashes around it.           *)
THEOREM PruneSpares == RecSpec => PruneSparesListedRows
  <1>1. RecInv /\ [RecNext]_allVars =>
            [\A k \in Key : Purges(k) => Backing(k) \cap listed = {}]_allVars
    <2> SUFFICES ASSUME RecInv, NEW k \in Key, Purges(k) PROVE Backing(k) \cap listed = {}
      OBVIOUS
    <2>1. k \notin sweep.published
      BY CycleFacts DEF Purges, Spared
    <2>2. \A id \in listed : rows[id].key \in sweep.published
      BY CycleFacts DEF Purges, Covers
    <2>3. QED
      BY <2>1, <2>2 DEF Backing
  <1>2. QED
    BY <1>1, SweepsAreCallers, PTL DEF RecSpec, PruneSparesListedRows

-----------------------------------------------------------------------------
(* The window.  A row whose published entry differs from it lies in the    *)
(* window because what made them differ, a stale write, a late purge or a  *)
(* commit, is no older than the row, and nothing under way lasts longer    *)
(* than the overlap.                                                       *)

(* The row was committed no earlier than what c is doing began.            *)
Young(id, c) == rows[id].at + age[c] >= clock

(* The row was committed since the sweep read the table.                   *)
Recent(id) == rows[id].at >= sweep.began /\ (age[Rec] <= MaxStall => Young(id, Rec))

Under(id, k) == Exists(id) /\ rows[id].key = k

(* Consumers do not see the row as the database has it.                    *)
Off(id) == SB.entry[rows[id].key].payload # rows[id].doc

Distributing == {"row", "publishing", "prune", "purge", "purging"}

(* What is under way does not outlast MaxStall.                            *)
Patient(c) == (Pending(c) => age[c] <= MaxStall) /\ (~Ageing(c) => age[c] = 0)

(* Only the requests and the sweep call the publisher.                     *)
Errand(c) ==
    /\ calls[c].pc \in Active /\ c # Rec => c \in Request /\ reqs[c].pc \in {"publishing", "purging"}
    /\ c \in Request => /\ reqs[c].op = "create" => reqs[c].prev = NoKey /\ reqs[c].pc # "previous"
                        /\ reqs[c].pc = "readback" => reqs[c].op \in {"create", "update"}

Sweeper ==
    /\ calls[Rec].pc \in {"get", "write"} =>
          /\ sweep.pc = "publishing" /\ calls[Rec].bucket = BucketServiceSettings
          /\ calls[Rec].key = Head(sweep.todo).key /\ calls[Rec].payload = Head(sweep.todo).doc
    /\ calls[Rec].pc = "purge" => sweep.pc = "purging"
    /\ sweep.pc \in {"row", "publishing"} <=> sweep.todo # <<>>
    /\ sweep.pc = "prune" => sweep.full /\ sweep.failed = FALSE

RowsApart == \A i, j \in RowId : Exists(i) /\ Exists(j) /\ rows[i].key = rows[j].key => i = j

Anchored == sweep.pc # "idle" => lastRun <= sweep.began

Base ==
    /\ RowsApart
    /\ \A c \in Caller : Patient(c) /\ Errand(c)
    /\ Anchored
    /\ Sweeper

(* A write on its way that does not agree with the row under its key is    *)
(* older than the row, by no more than the age of its caller.              *)
Carries(c) ==
    \A id \in RowId :
      /\ calls[c].pc \in Active /\ Under(id, calls[c].key) /\ rows[id].doc # calls[c].payload
           => IF c = Rec THEN Recent(id) ELSE Young(id, c)
      /\ late[c].kind # "none" /\ Under(id, late[c].key) /\ rows[id].doc # late[c].payload
           => Young(id, c)

(* A row under the key a request means to leave is the request's own, or   *)
(* was committed after the request had read the key.                       *)
Leaves(c) ==
    \A id \in RowId : Under(id, reqs[c].prev) =>
      /\ reqs[c].pc \in {"check", "exec", "readback"} => id = reqs[c].id \/ Young(id, c)
      /\ reqs[c].pc = "publishing" /\ reqs[c].prev # reqs[c].key => Young(id, c)
      /\ reqs[c].pc = "purging" => Young(id, c)

Queued(id) == \E i \in 1..Len(sweep.todo) : sweep.todo[i] = rows[id]

(* What the sweep read of a row that has not changed since.                *)
Reads ==
    \A id \in RowId : Exists(id) =>
      /\ \A i \in 1..Len(sweep.todo) :
            sweep.todo[i].key = rows[id].key => sweep.todo[i] = rows[id] \/ Recent(id)
      /\ sweep.full /\ sweep.failed = FALSE /\ sweep.pc \in {"row", "publishing", "prune"}
           => rows[id].key \in sweep.published \/ Queued(id) \/ Recent(id)
      /\ sweep.pc \in {"purge", "purging"} /\ rows[id].key \in sweep.stale => Recent(id)

(* The sweep has yet to publish the row.                                   *)
ToCome(id) ==
    \E i \in 1..Len(sweep.todo) :
       /\ sweep.todo[i] = rows[id]
       /\ i = 1 /\ sweep.pc = "publishing" => calls[Rec].pc \notin {"ok", "skipped"}

Since(id, t) == rows[id].at >= t - Overlap

Covered ==
    \A id \in RowId : Exists(id) /\ Off(id) =>
      /\ Since(id, lastRun)
      /\ sweep.failed = FALSE /\ sweep.pc \in Distributing \cup {"end"}
           => Since(id, sweep.began) \/ ToCome(id)

WindowInv ==
    /\ Base
    /\ \A c \in Request : Leaves(c)
    /\ \A c \in Caller : Carries(c)
    /\ Reads
    /\ MaxStall <= Overlap => Covered

Standing == RecInv /\ Carried

LEMMA StandingFacts ==
  ASSUME Standing
  PROVE  /\ clock \in Nat /\ lastRun \in 0..clock /\ sweep \in Sweep /\ sweep.began \in 0..clock
         /\ calls \in [Caller -> Call] /\ late \in [Caller -> Message]
         /\ kv \in [Bucket -> BucketState] /\ SB \in BucketState
         /\ rows \in [RowId -> Row \cup {NoRow}] /\ reqs \in [Request -> Req]
         /\ age \in [Caller -> 0..(MaxStall + 1)]
  <1>1. kv \in [Bucket -> BucketState] /\ late \in [Caller -> Message]
    BY DEF Standing, RecInv, RequestInv, Inv, TypeOK
  <1>2. SB \in BucketState
    BY <1>1, SettingsBucketAssumption DEF SB
  <1>3. QED
    BY <1>1, <1>2, CycleFacts DEF Standing, RecInv, CycleInv, Timing, RequestInv, Settled

LEMMA StandingNext == Standing /\ [RecNext]_allVars => Standing'
  <1> SUFFICES ASSUME Standing, [RecNext]_allVars PROVE Standing'
    OBVIOUS
  <1>1. RequestStepOK /\ CycleInv'
    BY RecNextKeeps DEF Standing
  <1>2. Inv'
    BY <1>1, NextInv DEF Standing, RecInv, RequestInv, RequestStepOK
  <1>3. Carried'
    BY <1>1, NextMapped DEF Standing, RecInv, RequestInv, RequestStepOK, RefInv, Mapped
  <1>4. QED
    BY <1>1, <1>2, <1>3 DEF Standing, RecInv, RequestInv, RequestStepOK

(* A row of the table.                                                     *)
LEMMA RowOf ==
  ASSUME Standing, NEW id, Exists(id)
  PROVE  /\ id \in RowId /\ rows[id] \in Row /\ rows[id].key \in Key /\ rows[id].doc \in Payload
         /\ rows[id].at \in Nat /\ rows[id].key # NoKey /\ rows[id].doc # NoPayload
  BY RowFacts, KnownKeyAssumption, PayloadAssumption DEF Standing, RecInv

(* What is under way is timed.                                             *)
LEMMA UnderWay ==
  ASSUME Base, NEW c \in Caller
  PROVE  /\ calls[c].pc \in Active => Ageing(c)
         /\ late[c].kind # "none" => Pending(c) /\ Ageing(c)
         /\ c \in Request /\ reqs[c].pc # "idle" => Pending(c) /\ Ageing(c)
         /\ calls[c].pc \in Active /\ c # Rec => Pending(c)
         /\ Pending(c) => age[c] <= MaxStall
         /\ sweep.pc \in Distributing => Ageing(Rec)
  <1>1. c \in Request /\ reqs[c].pc # "idle" => Pending(c)
    BY DEF Pending, Idle
  <1>2. late[c].kind # "none" => Pending(c)
    BY DEF Pending, NoMessage
  <1>3. Pending(c) => Ageing(c) /\ age[c] <= MaxStall
    BY DEF Ageing, Base, Patient
  <1>4. sweep.pc \in Distributing => Ageing(Rec)
    BY DEF Ageing, Distributing
  <1>5. calls[c].pc \in Active /\ c # Rec => c \in Request /\ reqs[c].pc # "idle"
    BY DEF Base, Errand
  <1>6. calls[Rec].pc \in Active => sweep.pc \in Distributing
    BY DEF Base, Sweeper, Active, Distributing
  <1>7. QED
    BY <1>1, <1>2, <1>3, <1>4, <1>5, <1>6

LEMMA UnderWayNext ==
  ASSUME Base', NEW c \in Caller
  PROVE  /\ calls'[c].pc \in Active => Ageing(c)'
         /\ late'[c].kind # "none" => Pending(c)'
         /\ c \in Request /\ reqs'[c].pc # "idle" => Pending(c)'
         /\ calls'[c].pc \in Active /\ c # Rec => Pending(c)'
         /\ sweep'.pc \in Distributing => Ageing(Rec)'
  <1>1. c \in Request /\ reqs'[c].pc # "idle" => Pending(c)'
    BY DEF Pending, Idle
  <1>2. late'[c].kind # "none" => Pending(c)'
    BY DEF Pending, NoMessage
  <1>3. Pending(c)' => Ageing(c)'
    BY DEF Ageing
  <1>4. sweep'.pc \in Distributing => Ageing(Rec)'
    BY DEF Ageing, Distributing
  <1>5. calls'[c].pc \in Active /\ c # Rec => c \in Request /\ reqs'[c].pc # "idle"
    BY DEF Base, Errand
  <1>6. calls'[Rec].pc \in Active => sweep'.pc \in Distributing
    BY DEF Base, Sweeper, Active, Distributing
  <1>7. QED
    BY <1>1, <1>2, <1>3, <1>4, <1>5, <1>6

(* What is no older than a row that is young, or recent, is covered.       *)
LEMMA YoungReaches ==
  ASSUME Standing, NEW c \in Caller, NEW id, Exists(id), Young(id, c), age[c] <= MaxStall,
         MaxStall <= Overlap
  PROVE  Since(id, lastRun) /\ Since(id, sweep.began)
  <1>1. age[c] \in Nat /\ rows[id].at \in Nat /\ MaxStall \in Nat /\ Overlap \in Nat
    BY StandingFacts, RowOf, StallAssumption, SweepAssumption
  <1>2. rows[id].at + age[c] >= clock
    BY DEF Young
  <1>3. clock \in Nat /\ lastRun \in 0..clock /\ sweep.began \in 0..clock
    BY StandingFacts
  <1>4. QED
    BY <1>1, <1>2, <1>3 DEF Since

LEMMA RecentReaches ==
  ASSUME Standing, Anchored, NEW id, Exists(id), Recent(id), sweep.pc # "idle"
  PROVE  Since(id, lastRun) /\ Since(id, sweep.began)
  <1>1. rows[id].at \in Nat /\ Overlap \in Nat /\ rows[id].at >= sweep.began
    BY RowOf, SweepAssumption DEF Recent
  <1>2. clock \in Nat /\ lastRun \in 0..clock /\ sweep.began \in 0..clock /\ lastRun <= sweep.began
    BY StandingFacts DEF Anchored
  <1>3. QED
    BY <1>1, <1>2 DEF Since

-----------------------------------------------------------------------------
(* What a step leaves of the rows' youth.                                  *)

Passes ==
    \A id \in RowId : rows'[id] = rows[id] =>
      /\ \A c \in Caller : Pending(c)' /\ Young(id, c) => Young(id, c)'
      /\ Ageing(Rec)' /\ sweep'.began = sweep.began /\ Recent(id) => Recent(id)'

Renews ==
    \A id \in RowId : rows'[id] # rows[id] /\ Exists(id)' =>
      /\ \A c \in Caller : Young(id, c)'
      /\ Recent(id)'
      /\ Since(id, lastRun)' /\ Since(id, sweep.began)'

LEMMA UntimedPasses ==
  ASSUME Noted, UNCHANGED clock
  PROVE  Passes
  <1>1. ASSUME NEW id \in RowId, rows'[id] = rows[id], NEW c \in Caller, Pending(c)', Young(id, c)
        PROVE  Young(id, c)'
    <2>1. age'[c] = age[c]
      BY <1>1 DEF Noted, Ageing
    <2>2. QED
      BY <1>1, <2>1 DEF Young
  <1>2. ASSUME NEW id \in RowId, rows'[id] = rows[id], Ageing(Rec)', sweep'.began = sweep.began,
               Recent(id)
        PROVE  Recent(id)'
    <2>1. age'[Rec] = age[Rec]
      BY <1>2, RecCaller DEF Noted
    <2>2. QED
      BY <1>2, <2>1 DEF Young, Recent
  <1>3. QED
    BY <1>1, <1>2 DEF Passes

LEMMA SameRenews ==
  ASSUME \A id \in RowId : rows'[id] = rows[id]
  PROVE  Renews
  BY DEF Renews

LEMMA CommitRenews ==
  ASSUME Standing', UNCHANGED clock,
         \A id \in RowId : rows'[id] # rows[id] /\ Exists(id)' => rows'[id].at = clock
  PROVE  Renews
  <1> SUFFICES ASSUME NEW id \in RowId, rows'[id] # rows[id], Exists(id)'
               PROVE  /\ \A c \in Caller : Young(id, c)'
                      /\ Recent(id)'
                      /\ Since(id, lastRun)' /\ Since(id, sweep.began)'
    BY DEF Renews
  <1>1. /\ clock' \in Nat /\ lastRun' \in 0..clock' /\ sweep'.began \in 0..clock'
        /\ age' \in [Caller -> 0..(MaxStall + 1)]
    BY DEF Standing, RecInv, CycleInv, Timing, RequestInv, Inv, TypeOK
  <1>2. rows'[id].at = clock'
    OBVIOUS
  <1>3. \A c \in Caller : Young(id, c)'
    <2> TAKE c \in Caller
    <2>1. age'[c] \in Nat
      BY <1>1, StallAssumption
    <2>2. QED
      BY <1>1, <1>2, <2>1 DEF Young
  <1>4. Recent(id)'
    BY <1>1, <1>2, <1>3, RecCaller DEF Recent
  <1>5. Since(id, lastRun)' /\ Since(id, sweep.began)'
    <2>1. Overlap \in Nat /\ rows'[id].at = clock'
      BY <1>2, SweepAssumption
    <2>2. ASSUME NEW t \in 0..clock' PROVE rows'[id].at >= t - Overlap
      BY <1>1, <2>1
    <2>3. QED
      BY <1>1, <2>2 DEF Since
  <1>6. QED
    BY <1>3, <1>4, <1>5

(* The clock ticks: what is under way grows old with it.                   *)
LEMMA TickPasses ==
  ASSUME Standing, RecTick
  PROVE  Passes
  <1>1. /\ UNCHANGED <<rows, sweep>> /\ clock \in Nat /\ clock' = clock + 1
        /\ age \in [Caller -> 0..(MaxStall + 1)] /\ MaxStall \in Nat
    BY StandingFacts, StallAssumption DEF RecTick, Tick, ssVars
  <1>2. \A c \in Caller : (Ageing(c)' <=> Ageing(c)) /\ (Pending(c)' <=> Pending(c))
    BY DEF RecTick, Tick, ssVars, Ageing, Pending, Idle
  <1>3. ASSUME NEW c \in Caller
        PROVE  /\ age[c] \in Nat /\ age'[c] \in Nat
               /\ Ageing(c) /\ age[c] <= MaxStall => age'[c] = age[c] + 1
               /\ age[c] <= MaxStall \/ age'[c] = age[c]
    BY <1>1 DEF RecTick
  <1>4. \A c \in Caller : Pending(c) => age[c] < MaxStall
    BY DEF RecTick
  <1>5. \A c \in Caller : Pending(c) => Ageing(c) /\ age[c] <= MaxStall
    BY <1>1, <1>3, <1>4 DEF Ageing
  <1>6. Ageing(Rec) => age[Rec] <= MaxStall \/ ~(age'[Rec] <= MaxStall)
    BY <1>1, <1>3, RecCaller
  <1>7. ASSUME NEW id \in RowId, NEW c \in Caller, Ageing(c), age[c] <= MaxStall, Young(id, c),
               rows[id].at \in Nat
        PROVE  Young(id, c)'
    <2>1. rows'[id].at = rows[id].at /\ age'[c] = age[c] + 1 /\ age[c] \in Nat
      BY <1>1, <1>3, <1>7
    <2>2. rows[id].at + age[c] >= clock
      BY <1>7 DEF Young
    <2>3. rows'[id].at + age'[c] >= clock'
      BY <1>1, <1>7, <2>1, <2>2
    <2>4. QED
      BY <2>3 DEF Young
  <1>8. \A id \in RowId : rows[id].at \in Nat
    BY StandingFacts DEF Row, NoRow
  <1>9. QED
    BY <1>1, <1>2, <1>3, <1>4, <1>5, <1>6, <1>7, <1>8, RecCaller DEF Passes, Recent

-----------------------------------------------------------------------------
(* What a step of somebody else leaves as it was.                          *)

LEMMA CarriesAside ==
  ASSUME Passes, Renews, Base', NEW c \in Caller, Carries(c),
         late'[c].kind # "none" => late'[c] = late[c],
         calls'[c].pc \in Active => /\ calls[c].pc \in Active
                                    /\ calls'[c].key = calls[c].key
                                    /\ calls'[c].payload = calls[c].payload,
         c = Rec /\ calls'[c].pc \in Active => sweep'.began = sweep.began
  PROVE  Carries(c)'
  <1>1. ASSUME NEW id \in RowId, calls'[c].pc \in Active, Under(id, calls[c].key)',
               rows'[id].doc # calls'[c].payload
        PROVE  (IF c = Rec THEN Recent(id) ELSE Young(id, c))'
    <2>1. Exists(id)' /\ rows'[id].key = calls'[c].key
      BY <1>1 DEF Under
    <2>2. CASE rows'[id] # rows[id]
      BY <2>1, <2>2 DEF Renews
    <2>3. CASE rows'[id] = rows[id]
      <3>1. Exists(id) /\ rows[id].key = calls[c].key /\ rows[id].doc # calls[c].payload
        BY <1>1, <2>1, <2>3 DEF Exists
      <3>2. IF c = Rec THEN Recent(id) ELSE Young(id, c)
        BY <1>1, <3>1 DEF Carries, Under
      <3>3. (c # Rec => Pending(c)') /\ (c = Rec => Ageing(Rec)')
        BY <1>1, UnderWayNext
      <3>4. QED
        BY <1>1, <2>3, <3>2, <3>3 DEF Passes
    <2>4. QED
      BY <2>2, <2>3
  <1>2. ASSUME NEW id \in RowId, late'[c].kind # "none", Under(id, late[c].key)',
               rows'[id].doc # late'[c].payload
        PROVE  Young(id, c)'
    <2>1. Exists(id)' /\ rows'[id].key = late'[c].key
      BY <1>2 DEF Under
    <2>2. CASE rows'[id] # rows[id]
      BY <2>1, <2>2 DEF Renews
    <2>3. CASE rows'[id] = rows[id]
      <3>1. Exists(id) /\ rows[id].key = late[c].key /\ rows[id].doc # late[c].payload
        BY <1>2, <2>1, <2>3 DEF Exists
      <3>2. Young(id, c)
        BY <1>2, <3>1 DEF Carries, Under
      <3>3. Pending(c)'
        BY <1>2, UnderWayNext
      <3>4. QED
        BY <2>3, <3>2, <3>3 DEF Passes
    <2>4. QED
      BY <2>2, <2>3
  <1>3. QED
    BY <1>1, <1>2 DEF Carries

LEMMA LeavesAside ==
  ASSUME Passes, Renews, Base', NEW c \in Request, Leaves(c),
         \/ reqs'[c] = reqs[c]
         \/ reqs'[c].pc \in {"idle", "previous"}
         \/ /\ reqs'[c].prev = reqs[c].prev /\ reqs'[c].id = reqs[c].id
            /\ {reqs[c].pc, reqs'[c].pc} \subseteq {"check", "exec", "readback"}
  PROVE  Leaves(c)'
  <1> SUFFICES ASSUME NEW id \in RowId, Under(id, reqs[c].prev)'
               PROVE  /\ reqs'[c].pc \in {"check", "exec", "readback"} => id = reqs'[c].id \/ Young(id, c)'
                      /\ reqs'[c].pc = "publishing" /\ reqs'[c].prev # reqs'[c].key => Young(id, c)'
                      /\ reqs'[c].pc = "purging" => Young(id, c)'
    BY DEF Leaves
  <1>1. c \in Caller /\ (reqs'[c].pc # "idle" => Pending(c)')
    BY RequestAssumption, UnderWayNext
  <1>2. Exists(id)' /\ rows'[id].key = reqs'[c].prev
    BY DEF Under
  <1>3. CASE rows'[id] # rows[id]
    BY <1>1, <1>2, <1>3 DEF Renews
  <1>4. CASE rows'[id] = rows[id]
    <2>1. Exists(id) /\ rows[id].key = reqs'[c].prev
      BY <1>2, <1>4 DEF Exists
    <2>2. Pending(c)' /\ Young(id, c) => Young(id, c)'
      BY <1>1, <1>4 DEF Passes
    <2>3. CASE reqs'[c] = reqs[c]
      BY <1>1, <2>1, <2>2, <2>3 DEF Leaves, Under
    <2>4. CASE reqs'[c].pc \in {"idle", "previous"}
      BY <2>4
    <2>5. CASE /\ reqs'[c].prev = reqs[c].prev /\ reqs'[c].id = reqs[c].id
               /\ {reqs[c].pc, reqs'[c].pc} \subseteq {"check", "exec", "readback"}
      <3>1. id = reqs[c].id \/ Young(id, c)
        BY <2>1, <2>5 DEF Leaves, Under
      <3>2. QED
        BY <1>1, <2>2, <2>5, <3>1
    <2>6. QED
      BY <2>3, <2>4, <2>5
  <1>5. QED
    BY <1>3, <1>4

LEMMA ReadsAside ==
  ASSUME Passes, Renews, Base', Reads, UNCHANGED sweep
  PROVE  Reads'
  <1> SUFFICES ASSUME NEW id \in RowId, Exists(id)'
               PROVE  /\ \A i \in 1..Len(sweep.todo) :
                            sweep.todo[i].key = rows'[id].key => sweep.todo[i] = rows'[id] \/ Recent(id)'
                      /\ sweep.full /\ sweep.failed = FALSE /\ sweep.pc \in {"row", "publishing", "prune"}
                           => rows'[id].key \in sweep.published \/ Queued(id)' \/ Recent(id)'
                      /\ sweep.pc \in {"purge", "purging"} /\ rows'[id].key \in sweep.stale => Recent(id)'
    BY DEF Reads
  <1>1. CASE rows'[id] # rows[id]
    BY <1>1 DEF Renews
  <1>2. CASE rows'[id] = rows[id]
    <2>1. Exists(id) /\ (Queued(id) => Queued(id)')
      BY <1>2 DEF Exists, Queued
    <2>2. sweep.pc \in Distributing /\ Recent(id) => Recent(id)'
      BY <1>2, UnderWayNext, RecCaller DEF Passes
    <2>3. \A i \in 1..Len(sweep.todo) : sweep.pc \in {"row", "publishing"}
      BY DEF Base, Sweeper
    <2>4. QED
      BY <1>2, <2>1, <2>2, <2>3 DEF Reads, Distributing
  <1>3. QED
    BY <1>1, <1>2

(* One key at most is set, to p.                                           *)
Lands(k, p) ==
    \A x \in Key : \/ SB'.entry[x].payload = SB.entry[x].payload
                   \/ x = k /\ SB'.entry[x].payload = p

LEMMA CoveredAside ==
  ASSUME Standing, Renews, Covered, UNCHANGED <<sweep, lastRun>>, NEW k, NEW p, Lands(k, p),
         \A id \in RowId : Under(id, k) /\ rows[id].doc # p => Since(id, lastRun) /\ Since(id, sweep.began),
         \A id \in RowId : /\ rows'[id] = rows[id] /\ Exists(id) /\ ToCome(id)
                           /\ SB'.entry[rows[id].key].payload # rows[id].doc
                           => ToCome(id)'
  PROVE  Covered'
  <1> SUFFICES ASSUME NEW id \in RowId, Exists(id)', Off(id)'
               PROVE  /\ Since(id, lastRun)'
                      /\ sweep'.failed = FALSE /\ sweep'.pc \in Distributing \cup {"end"}
                           => Since(id, sweep.began)' \/ ToCome(id)'
    BY DEF Covered
  <1>1. CASE rows'[id] # rows[id]
    BY <1>1 DEF Renews
  <1>2. CASE rows'[id] = rows[id]
    <2>1. Exists(id) /\ rows[id].key \in Key /\ SB'.entry[rows[id].key].payload # rows[id].doc
      BY <1>2, RowOf DEF Exists, Off, SB
    <2>2. /\ Since(id, lastRun) => Since(id, lastRun)'
          /\ Since(id, sweep.began) => Since(id, sweep.began)'
      BY <1>2 DEF Since
    <2>3. CASE Off(id)
      BY <1>2, <2>1, <2>2, <2>3 DEF Covered
    <2>4. CASE ~Off(id)
      <3>1. rows[id].key = k /\ rows[id].doc # p
        BY <2>1, <2>4 DEF Lands, Off
      <3>2. QED
        BY <2>1, <2>2, <3>1 DEF Under
    <2>5. QED
      BY <2>3, <2>4
  <1>3. QED
    BY <1>1, <1>2

(* A call that starts carries k and p; what its caller left on the wire    *)
(* stays there.                                                            *)
LEMMA CarriesBegun ==
  ASSUME Passes, Renews, Base', NEW c \in Caller, Carries(c), late'[c] = late[c],
         NEW k, NEW p, calls'[c].pc \in Active => calls'[c].key = k /\ calls'[c].payload = p,
         c = Rec => sweep'.began = sweep.began,
         \A id \in RowId : rows'[id] = rows[id] /\ Under(id, k) /\ rows[id].doc # p
           => IF c = Rec THEN Recent(id) ELSE Young(id, c)
  PROVE  Carries(c)'
  <1>1. ASSUME NEW id \in RowId, calls'[c].pc \in Active, Under(id, calls[c].key)',
               rows'[id].doc # calls'[c].payload
        PROVE  (IF c = Rec THEN Recent(id) ELSE Young(id, c))'
    <2>1. Exists(id)' /\ rows'[id].key = k /\ rows'[id].doc # p
      BY <1>1 DEF Under
    <2>2. CASE rows'[id] # rows[id]
      BY <2>1, <2>2 DEF Renews
    <2>3. CASE rows'[id] = rows[id]
      <3>1. IF c = Rec THEN Recent(id) ELSE Young(id, c)
        BY <2>1, <2>3 DEF Exists, Under
      <3>2. (c # Rec => Pending(c)') /\ (c = Rec => Ageing(Rec)')
        BY <1>1, UnderWayNext
      <3>3. QED
        BY <2>3, <3>1, <3>2 DEF Passes
    <2>4. QED
      BY <2>2, <2>3
  <1>2. ASSUME NEW id \in RowId, late'[c].kind # "none", Under(id, late[c].key)',
               rows'[id].doc # late'[c].payload
        PROVE  Young(id, c)'
    <2>1. Exists(id)' /\ rows'[id].key = late[c].key /\ rows'[id].doc # late[c].payload
      BY <1>2 DEF Under
    <2>2. CASE rows'[id] # rows[id]
      BY <2>1, <2>2 DEF Renews
    <2>3. CASE rows'[id] = rows[id]
      <3>1. Young(id, c) /\ Pending(c)'
        BY <1>2, <2>1, <2>3, UnderWayNext DEF Exists, Carries, Under
      <3>2. QED
        BY <2>3, <3>1 DEF Passes
    <2>4. QED
      BY <2>2, <2>3
  <1>3. QED
    BY <1>1, <1>2 DEF Carries

-----------------------------------------------------------------------------
(* Base is kept.                                                           *)

(* A call that is still active does what it did.                           *)
CallKept(d) ==
    calls'[d].pc \in Active =>
      /\ calls[d].pc \in Active
      /\ calls'[d].bucket = calls[d].bucket /\ calls'[d].key = calls[d].key
      /\ calls'[d].payload = calls[d].payload
      /\ calls'[d].pc = "purge" <=> calls[d].pc = "purge"

LEMMA PatientNext ==
  ASSUME Standing, Base, Noted, NEW c \in Caller,
         c = Rec => late'[c] = late[c] \/ late'[c] = NoMessage \/ age[c] <= MaxStall
  PROVE  Patient(c)'
  <1>1. age'[c] = IF Ageing(c)' THEN age[c] ELSE 0
    BY DEF Noted
  <1>2. Pending(c)' => Ageing(c)'
    BY DEF Ageing
  <1>3. Pending(c)' => age[c] <= MaxStall
    <2>1. CASE Pending(c)
      BY <2>1, UnderWay
    <2>2. CASE ~Pending(c) /\ c # Rec
      <3>1. ~Ageing(c)
        BY <2>2 DEF Ageing
      <3>2. age[c] = 0
        BY <3>1 DEF Base, Patient
      <3>3. QED
        BY <3>2, StallAssumption
    <2>3. CASE ~Pending(c) /\ c = Rec
      BY <2>3, RecCaller DEF Pending
    <2>4. QED
      BY <2>1, <2>2, <2>3
  <1>4. QED
    BY <1>1, <1>2, <1>3 DEF Patient

LEMMA ErrandAside ==
  ASSUME NEW c \in Caller, Errand(c), CallKept(c), c \in Request => reqs'[c] = reqs[c]
  PROVE  Errand(c)'
  BY DEF Errand, CallKept

LEMMA SweeperAside ==
  ASSUME Sweeper, CallKept(Rec), UNCHANGED sweep
  PROVE  Sweeper'
  BY DEF Sweeper, CallKept, Active

LEMMA SameApart ==
  ASSUME RowsApart, UNCHANGED rows
  PROVE  RowsApart'
  BY DEF RowsApart, Exists

LEMMA ExchangeFrame ==
  ASSUME Standing, NEW c \in Caller, Exchanged(c) \/ ExchangeLost(c) \/ Deliver(c)
  PROVE  /\ UNCHANGED <<rows, reqs, clock, lastRun, sweep>>
         /\ \A d \in Caller : CallKept(d)
         /\ \A d \in Caller : d # c => calls'[d] = calls[d] /\ late'[d] = late[d]
         /\ \/ late'[c] = late[c] \/ late'[c] = NoMessage
            \/ ExchangeTimesOut(c) /\ age[c] <= MaxStall
  <1>1. /\ calls \in [Caller -> Call] /\ late \in [Caller -> Message]
        /\ \A d \in Caller : calls[d] \in Call
    BY StandingFacts
  <1>2. ASSUME NEW a \in Answer, Return(c, a)
        PROVE  \A d \in Caller : CallKept(d) /\ (d # c => calls'[d] = calls[d])
    BY <1>1, <1>2, ReturnType DEF CallKept, Answer, Active
  <1>3. ASSUME UNCHANGED calls
        PROVE  \A d \in Caller : CallKept(d) /\ (d # c => calls'[d] = calls[d])
    BY <1>3 DEF CallKept
  <1>4. /\ UNCHANGED <<rows, reqs, clock, lastRun, sweep>>
        /\ \/ Current(c) \/ Write(c) \/ WriteConflict(c) \/ Purge(c)
           \/ ExchangeFails(c) \/ (ExchangeTimesOut(c) /\ age[c] <= MaxStall) \/ Network(c)
    BY DEF Exchanged, ExchangeLost, Deliver, ssVars, Current, Write, WriteConflict, Purge,
       ExchangeFails, ExchangeTimesOut, Network, LatePut, LatePurge, LateLost
  <1>5. CASE Current(c)
    <2> DEFINE m == calls[c]
               cur == kv[m.bucket].entry[m.key]
               n == [m EXCEPT !.pc = "write", !.revision = cur.revision,
                              !.stamp = Build(m.bucket, m.payload, cur).write.stamp]
    <2>1. /\ n.pc = "write" /\ n.bucket = m.bucket /\ n.key = m.key /\ n.payload = m.payload
      BY <1>1 DEF Call
    <2>2. UNCHANGED late /\ m.pc = "get" /\ (Return(c, "skipped") \/ calls' = [calls EXCEPT ![c] = n])
      BY <1>5 DEF Current
    <2> HIDE DEF n
    <2>3. CASE calls' = [calls EXCEPT ![c] = n]
      BY <1>1, <1>4, <2>1, <2>2, <2>3 DEF CallKept, Active
    <2>4. QED
      BY <1>2, <1>4, <2>2, <2>3 DEF Answer
  <1>6. CASE WriteConflict(c)
    <2> DEFINE m == calls[c]
               n == [m EXCEPT !.pc = "get", !.attempt = m.attempt + 1]
    <2>1. /\ n.pc = "get" /\ n.bucket = m.bucket /\ n.key = m.key /\ n.payload = m.payload
      BY <1>1 DEF Call
    <2>2. UNCHANGED late /\ m.pc = "write" /\ (Return(c, "conflict") \/ calls' = [calls EXCEPT ![c] = n])
      BY <1>6 DEF WriteConflict
    <2> HIDE DEF n
    <2>3. CASE calls' = [calls EXCEPT ![c] = n]
      BY <1>1, <1>4, <2>1, <2>2, <2>3 DEF CallKept, Active
    <2>4. QED
      BY <1>2, <1>4, <2>2, <2>3 DEF Answer
  <1>7. CASE Write(c) \/ Purge(c) \/ ExchangeFails(c)
    BY <1>2, <1>4, <1>7 DEF Write, Purge, ExchangeFails, Answer
  <1>8. CASE ExchangeTimesOut(c) /\ age[c] <= MaxStall
    <2>1. Return(c, "failed") /\ \A d \in Caller : d # c => late'[d] = late[d]
      BY <1>1, <1>8 DEF ExchangeTimesOut
    <2>2. QED
      BY <1>2, <1>4, <1>8, <2>1 DEF Answer
  <1>9. CASE Network(c)
    <2>1. UNCHANGED calls /\ late' = [late EXCEPT ![c] = NoMessage]
      BY <1>9 DEF Network, LatePut, LatePurge, LateLost
    <2>2. QED
      BY <1>1, <1>3, <1>4, <2>1
  <1>10. QED
    BY <1>4, <1>5, <1>6, <1>7, <1>8, <1>9

LEMMA ExchangeBase ==
  ASSUME Standing, Base, Noted, NEW c \in Caller, Exchanged(c) \/ ExchangeLost(c) \/ Deliver(c)
  PROVE  Base'
  <1>1. /\ UNCHANGED <<rows, reqs, clock, lastRun, sweep>>
        /\ \A d \in Caller : CallKept(d)
        /\ \A d \in Caller : d # c => calls'[d] = calls[d] /\ late'[d] = late[d]
        /\ \/ late'[c] = late[c] \/ late'[c] = NoMessage
           \/ ExchangeTimesOut(c) /\ age[c] <= MaxStall
    BY ExchangeFrame
  <1>2. \A d \in Caller : Patient(d)'
    BY <1>1, PatientNext
  <1>3. \A d \in Caller : Errand(d)'
    BY <1>1, ErrandAside DEF Base
  <1>4. Sweeper' /\ RowsApart' /\ Anchored'
    BY <1>1, SweeperAside, SameApart, RecCaller DEF Base, Anchored
  <1>5. QED
    BY <1>2, <1>3, <1>4 DEF Base

(* A step of the cycle.                                                    *)
LEMMA CycleBase ==
  ASSUME Standing, Base, Noted, UNCHANGED <<rows, reqs, late>>,
         \A d \in Caller : d # Rec => calls'[d] = calls[d],
         Sweeper', Anchored'
  PROVE  Base'
  <1>1. \A d \in Caller : Patient(d)'
    BY PatientNext
  <1>2. \A d \in Caller : Errand(d)'
    <2> TAKE d \in Caller
    <2>1. CASE d = Rec
      BY <2>1, RecCaller DEF Errand
    <2>2. CASE d # Rec
      BY <2>2, ErrandAside DEF Base, CallKept
    <2>3. QED
      BY <2>1, <2>2
  <1>3. QED
    BY <1>1, <1>2, SameApart DEF Base

(* A step of a request.                                                    *)
LEMMA RequestBase ==
  ASSUME Standing, Base, Noted, NEW c \in Request, UNCHANGED <<late, sweep, lastRun>>,
         \A d \in Caller : d # c => calls'[d] = calls[d],
         \A d \in Request : d # c => reqs'[d] = reqs[d],
         Errand(c)', RowsApart'
  PROVE  Base'
  <1>1. \A d \in Caller : Patient(d)'
    BY PatientNext
  <1>2. \A d \in Caller : Errand(d)'
    <2> TAKE d \in Caller
    <2>1. CASE d # c
      BY <2>1, ErrandAside DEF Base, CallKept
    <2>2. QED
      BY <2>1
  <1>3. Sweeper' /\ Anchored'
    BY SweeperAside, RecCaller DEF Base, Anchored, CallKept
  <1>4. QED
    BY <1>1, <1>2, <1>3 DEF Base

-----------------------------------------------------------------------------
(* The exchanges with NATS.                                                *)

LEMMA LandsPut ==
  ASSUME Standing, NEW m \in Call \cup Message,
         kv' = [kv EXCEPT ![m.bucket] = KvPut(@, m.key, m.payload, m.stamp)]
  PROVE  Lands(m.key, m.payload)
  <1>1. /\ Advance(kv, kv', m.bucket, m.key)
        /\ kv'[m.bucket].entry[m.key].payload = m.payload
    BY StandingFacts, PutAdvances
  <1>2. QED
    BY <1>1, SettingsBucketAssumption DEF Advance, Lands, SB

LEMMA LandsPurge ==
  ASSUME Standing, NEW b \in Bucket, NEW k \in Key, kv' = [kv EXCEPT ![b] = KvPurge(@, k)]
  PROVE  Lands(k, NoPayload)
  <1>1. Advance(kv, kv', b, k) /\ kv'[b].entry[k] = Absent
    BY StandingFacts, PurgeAdvances
  <1>2. Absent.payload = NoPayload
    BY DEF Absent
  <1>3. QED
    BY <1>1, <1>2, SettingsBucketAssumption DEF Advance, Lands, SB

LEMMA ExchangeLands ==
  ASSUME Standing, NEW c \in Caller, Exchanged(c) \/ ExchangeLost(c) \/ Deliver(c)
  PROVE  \/ UNCHANGED kv
         \/ calls[c].pc \in Active /\ Lands(calls[c].key, calls[c].payload)
         \/ late[c].kind # "none" /\ Lands(late[c].key, late[c].payload)
  <1>1. /\ calls[c] \in Call \cup Message /\ late[c] \in Call \cup Message
        /\ calls[c].bucket \in Bucket /\ calls[c].key \in Key
        /\ late[c].bucket \in Bucket /\ late[c].key \in Key
    BY StandingFacts DEF Call, Message
  <1>2. /\ calls[c].pc = "purge" => calls[c].payload = NoPayload
        /\ late[c].kind = "purge" => late[c].payload = NoPayload
    BY DEF Standing, Carried
  <1>3. UNCHANGED kv \/ Write(c) \/ Purge(c) \/ LatePut(c) \/ LatePurge(c)
    BY DEF Exchanged, ExchangeLost, Deliver, Current, WriteConflict, ExchangeFails,
       ExchangeTimesOut, Network, LateLost
  <1>4. CASE Write(c)
    <2>1. /\ calls[c].pc = "write"
          /\ kv' = [kv EXCEPT ![calls[c].bucket] =
                      KvPut(@, calls[c].key, calls[c].payload, calls[c].stamp)]
      BY <1>4 DEF Write
    <2>2. QED
      BY <1>1, <2>1, LandsPut DEF Active
  <1>5. CASE Purge(c)
    <2>1. calls[c].pc = "purge" /\ kv' = [kv EXCEPT ![calls[c].bucket] = KvPurge(@, calls[c].key)]
      BY <1>5 DEF Purge
    <2>2. QED
      BY <1>1, <1>2, <2>1, LandsPurge DEF Active
  <1>6. CASE LatePut(c)
    <2>1. /\ late[c].kind = "put"
          /\ \/ UNCHANGED kv
             \/ kv' = [kv EXCEPT ![late[c].bucket] =
                         KvPut(@, late[c].key, late[c].payload, late[c].stamp)]
      BY <1>6 DEF LatePut
    <2>2. QED
      BY <1>1, <2>1, LandsPut
  <1>7. CASE LatePurge(c)
    <2>1. late[c].kind = "purge" /\ kv' = [kv EXCEPT ![late[c].bucket] = KvPurge(@, late[c].key)]
      BY <1>7 DEF LatePurge
    <2>2. QED
      BY <1>1, <1>2, <2>1, LandsPurge
  <1>8. QED
    BY <1>3, <1>4, <1>5, <1>6, <1>7

(* When the sweep's publish succeeds, consumers see what it published.     *)
LEMMA SweepPublishes ==
  ASSUME Standing, Base, Exchanged(Rec) \/ ExchangeLost(Rec) \/ Deliver(Rec),
         sweep.pc = "publishing", calls'[Rec].pc \in {"ok", "skipped"},
         calls[Rec].pc \notin {"ok", "skipped"}
  PROVE  SB'.entry[Head(sweep.todo).key].payload = Head(sweep.todo).doc
  <1> DEFINE m == calls[Rec]
             cur == kv[m.bucket].entry[m.key]
  <1>1. m \in Call /\ Rec \in Caller /\ calls \in [Caller -> Call] /\ m.key \in Key
    BY StandingFacts, RecCaller DEF Call
  <1>2. m.pc # "purge"
    BY DEF Base, Sweeper
  <1>3. ASSUME NEW a \in Answer, Return(Rec, a) PROVE calls'[Rec].pc = a
    BY <1>1, <1>3, ReturnType
  <1>4. /\ Current(Rec) \/ Write(Rec)
        /\ m.pc \in {"get", "write"}
    <2>1. ~ExchangeFails(Rec) /\ ~ExchangeTimesOut(Rec)
      BY <1>3 DEF ExchangeFails, ExchangeTimesOut, Answer
    <2>2. ~WriteConflict(Rec)
      BY <1>1, <1>3 DEF WriteConflict, Answer, Call
    <2>3. ~Network(Rec)
      BY DEF Network, LatePut, LatePurge, LateLost
    <2>4. ~Purge(Rec)
      BY <1>2 DEF Purge
    <2>5. Current(Rec) \/ Write(Rec)
      BY <2>1, <2>2, <2>3, <2>4 DEF Exchanged, ExchangeLost, Deliver
    <2>6. QED
      BY <2>5 DEF Current, Write
  <1>5. /\ m.bucket = BucketServiceSettings
        /\ m.key = Head(sweep.todo).key /\ m.payload = Head(sweep.todo).doc
    BY <1>4 DEF Base, Sweeper
  <1>6. CASE Current(Rec)
    <2>1. UNCHANGED kv
      BY <1>6 DEF Current
    <2> DEFINE same == [payload |-> cur.payload, stamp |-> cur.stamp]
                         = Build(m.bucket, m.payload, cur).compare
               n == [m EXCEPT !.pc = "write", !.revision = cur.revision,
                              !.stamp = Build(m.bucket, m.payload, cur).write.stamp]
    <2>2. n.pc = "write"
      BY <1>1 DEF Call
    <2>3. same \/ calls' = [calls EXCEPT ![Rec] = n]
      BY <1>6 DEF Current
    <2> HIDE DEF n
    <2>4. Build(m.bucket, m.payload, cur).compare.payload = m.payload
      BY DEF Build, BuildFlag, raw
    <2>5. same
      BY <1>1, <2>2, <2>3
    <2>6. cur.payload = m.payload
      BY <2>4, <2>5
    <2>7. QED
      BY <1>5, <2>1, <2>6 DEF SB
  <1>7. CASE Write(Rec)
    <2>1. kv' = [kv EXCEPT ![m.bucket] = KvPut(@, m.key, m.payload, m.stamp)]
      BY <1>7 DEF Write
    <2>2. kv'[m.bucket].entry[m.key].payload = m.payload
      BY <1>1, <2>1, StandingFacts, PutAdvances
    <2>3. QED
      BY <1>5, <2>2 DEF SB
  <1>8. QED
    BY <1>4, <1>6, <1>7

LEMMA TimedOutCarries ==
  ASSUME Standing, Passes, Base', UNCHANGED rows, NEW c \in Caller, Carries(c),
         ExchangeTimesOut(c), age[c] <= MaxStall
  PROVE  Carries(c)'
  <1> DEFINE m == calls[c]
  <1>1. /\ calls \in [Caller -> Call] /\ late \in [Caller -> Message] /\ m.pc \in Active
    BY StandingFacts DEF ExchangeTimesOut, Active
  <1>2. calls'[c].pc \notin Active
    BY <1>1, ReturnType DEF ExchangeTimesOut, Answer, Active
  <1>3. late'[c].key = m.key /\ late'[c].payload = m.payload
    BY <1>1 DEF ExchangeTimesOut
  <1>4. ASSUME NEW id \in RowId, late'[c].kind # "none", Exists(id)', rows'[id].key = m.key,
               rows'[id].doc # m.payload
        PROVE  Young(id, c)'
    <2>1. Exists(id) /\ rows[id].key = m.key /\ rows[id].doc # m.payload
      BY <1>4 DEF Exists
    <2>2. IF c = Rec THEN Recent(id) ELSE Young(id, c)
      BY <1>1, <2>1 DEF Carries, Under
    <2>3. Young(id, c)
      BY <2>2 DEF Recent
    <2>4. Pending(c)'
      BY <1>4, UnderWayNext
    <2>5. QED
      BY <2>3, <2>4 DEF Passes
  <1>5. QED
    BY <1>2, <1>3, <1>4 DEF Carries, Under

(* What lands in the bucket is old enough to be covered.                   *)
LEMMA LandsCovered ==
  ASSUME Standing, Base, NEW c \in Caller, Carries(c), MaxStall <= Overlap
  PROVE  /\ calls[c].pc \in Active =>
              \A id \in RowId : Under(id, calls[c].key) /\ rows[id].doc # calls[c].payload
                => Since(id, lastRun) /\ Since(id, sweep.began)
         /\ late[c].kind # "none" =>
              \A id \in RowId : Under(id, late[c].key) /\ rows[id].doc # late[c].payload
                => Since(id, lastRun) /\ Since(id, sweep.began)
  <1>1. ASSUME NEW id \in RowId, Exists(id), Young(id, c), Pending(c)
        PROVE  Since(id, lastRun) /\ Since(id, sweep.began)
    <2>1. age[c] <= MaxStall
      BY <1>1, UnderWay
    <2>2. QED
      BY <1>1, <2>1, YoungReaches
  <1>2. ASSUME NEW id \in RowId, Exists(id), Recent(id), calls[Rec].pc \in Active
        PROVE  Since(id, lastRun) /\ Since(id, sweep.began)
    <2>1. Anchored /\ sweep.pc # "idle"
      BY <1>2 DEF Base, Sweeper, Active
    <2>2. QED
      BY <1>2, <2>1, RecentReaches
  <1>3. QED
    BY <1>1, <1>2, UnderWay DEF Carries, Under

LEMMA ExchangeToCome ==
  ASSUME Standing, Base, NEW c \in Caller, Exchanged(c) \/ ExchangeLost(c) \/ Deliver(c),
         NEW id \in RowId, rows'[id] = rows[id], ToCome(id),
         SB'.entry[rows[id].key].payload # rows[id].doc
  PROVE  ToCome(id)'
  <1>1. UNCHANGED sweep /\ (c # Rec => calls'[Rec] = calls[Rec]) /\ sweep.todo \in Seq(Row)
    BY ExchangeFrame, RecCaller, StandingFacts, SweepFacts
  <1>2. PICK i \in 1..Len(sweep.todo) :
          /\ sweep.todo[i] = rows[id]
          /\ i = 1 /\ sweep.pc = "publishing" => calls[Rec].pc \notin {"ok", "skipped"}
    BY DEF ToCome
  <1>3. ASSUME i = 1, sweep.pc = "publishing" PROVE calls'[Rec].pc \notin {"ok", "skipped"}
    <2>1. Head(sweep.todo) = rows[id]
      BY <1>1, <1>2, <1>3
    <2>2. CASE c = Rec
      BY <1>2, <1>3, <2>1, <2>2, SweepPublishes
    <2>3. CASE c # Rec
      BY <1>1, <1>2, <1>3, <2>3
    <2>4. QED
      BY <2>2, <2>3
  <1>4. QED
    BY <1>1, <1>2, <1>3 DEF ToCome

LEMMA ExchangeWindow ==
  ASSUME Standing, WindowInv, Noted, NEW c \in Caller, Exchanged(c) \/ ExchangeLost(c) \/ Deliver(c)
  PROVE  WindowInv'
  <1>1. /\ UNCHANGED <<rows, reqs, clock, lastRun, sweep>>
        /\ \A d \in Caller : CallKept(d)
        /\ \A d \in Caller : d # c => calls'[d] = calls[d] /\ late'[d] = late[d]
        /\ \/ late'[c] = late[c] \/ late'[c] = NoMessage
           \/ ExchangeTimesOut(c) /\ age[c] <= MaxStall
    BY ExchangeFrame
  <1>2. Base' /\ Passes /\ Renews
    BY <1>1, ExchangeBase, UntimedPasses, SameRenews DEF WindowInv
  <1>3. \A d \in Request : Leaves(d)'
    BY <1>1, <1>2, LeavesAside DEF WindowInv
  <1>4. \A d \in Caller : Carries(d)'
    <2> TAKE d \in Caller
    <2>1. CASE d = c /\ ExchangeTimesOut(c) /\ age[c] <= MaxStall
      BY <1>1, <1>2, <2>1, TimedOutCarries DEF WindowInv
    <2>2. CASE late'[d] = late[d] \/ late'[d] = NoMessage
      <3>1. late'[d].kind # "none" => late'[d] = late[d]
        BY <2>2 DEF NoMessage
      <3>2. QED
        BY <1>1, <1>2, <3>1, CarriesAside DEF WindowInv, CallKept
    <2>3. QED
      BY <1>1, <2>1, <2>2
  <1>5. Reads'
    BY <1>1, <1>2, ReadsAside DEF WindowInv
  <1>6. ASSUME MaxStall <= Overlap PROVE Covered'
    <2>1. \A id \in RowId : /\ rows'[id] = rows[id] /\ Exists(id) /\ ToCome(id)
                            /\ SB'.entry[rows[id].key].payload # rows[id].doc
                            => ToCome(id)'
      BY ExchangeToCome DEF WindowInv
    <2>2. Covered /\ Carries(c)
      BY <1>6 DEF WindowInv
    <2>3. CASE UNCHANGED kv
      <3>1. Lands(NoKey, NoPayload) /\ \A id \in RowId : ~Under(id, NoKey)
        BY <2>3, RowOf DEF Lands, SB, Under
      <3>2. QED
        BY <1>1, <1>2, <2>1, <2>2, <3>1, CoveredAside
    <2>4. CASE calls[c].pc \in Active /\ Lands(calls[c].key, calls[c].payload)
      BY <1>1, <1>2, <1>6, <2>1, <2>2, <2>4, LandsCovered, CoveredAside DEF WindowInv
    <2>5. CASE late[c].kind # "none" /\ Lands(late[c].key, late[c].payload)
      BY <1>1, <1>2, <1>6, <2>1, <2>2, <2>5, LandsCovered, CoveredAside DEF WindowInv
    <2>6. QED
      BY <2>3, <2>4, <2>5, ExchangeLands
  <1>7. QED
    BY <1>2, <1>3, <1>4, <1>5, <1>6 DEF WindowInv

-----------------------------------------------------------------------------
(* The steps of the cycle.                                                 *)

LEMMA CycleWindow ==
  ASSUME Standing, WindowInv, Noted, UNCHANGED <<rows, reqs, late, clock>>,
         \A d \in Caller : d # Rec => calls'[d] = calls[d],
         Sweeper', Anchored',
         Base' /\ calls'[Rec].pc \in Active => Carries(Rec)',
         Base' => Reads',
         MaxStall <= Overlap => Covered'
  PROVE  WindowInv'
  <1>1. Base' /\ Passes /\ Renews
    BY CycleBase, UntimedPasses, SameRenews DEF WindowInv
  <1>2. \A d \in Request : Leaves(d)'
    BY <1>1, LeavesAside DEF WindowInv
  <1>3. \A d \in Caller : Carries(d)'
    <2> TAKE d \in Caller
    <2>1. CASE d = Rec /\ calls'[Rec].pc \in Active
      BY <1>1, <2>1
    <2>2. CASE d # Rec \/ calls'[Rec].pc \notin Active
      BY <1>1, <2>2, CarriesAside DEF WindowInv
    <2>3. QED
      BY <2>1, <2>2
  <1>4. QED
    BY <1>1, <1>2, <1>3 DEF WindowInv

(* A sweep that has nothing left to publish, and nothing it may purge      *)
(* wrongly.                                                                *)
LEMMA ReadsNothing ==
  ASSUME Noted, UNCHANGED <<rows, clock>>, Base', sweep'.todo = <<>>,
         sweep'.pc \notin {"row", "publishing", "prune"},
         sweep'.pc \in {"purge", "purging"} =>
            /\ sweep'.began = sweep.began
            /\ \A id \in RowId : Exists(id) /\ rows[id].key \in sweep'.stale => Recent(id)
  PROVE  Reads'
  <1> SUFFICES ASSUME NEW id \in RowId, Exists(id)', sweep'.pc \in {"purge", "purging"},
                      rows'[id].key \in sweep'.stale
               PROVE  Recent(id)'
    BY DEF Reads
  <1>1. Exists(id)
    BY DEF Exists
  <1>2. Recent(id) /\ sweep'.began = sweep.began
    BY <1>1
  <1>3. Ageing(Rec)'
    BY UnderWayNext, RecCaller DEF Distributing
  <1>4. QED
    BY <1>2, <1>3, UntimedPasses DEF Passes

LEMMA CoveredKept ==
  ASSUME Covered, UNCHANGED <<rows, kv, lastRun>>,
         sweep'.failed = FALSE /\ sweep'.pc \in Distributing \cup {"end"} =>
            /\ sweep'.began = sweep.began
            /\ sweep.failed = FALSE /\ sweep.pc \in Distributing \cup {"end"}
            /\ \A id \in RowId : ToCome(id) => ToCome(id)'
  PROVE  Covered'
  <1> SUFFICES ASSUME NEW id \in RowId, Exists(id)', Off(id)'
               PROVE  /\ Since(id, lastRun)'
                      /\ sweep'.failed = FALSE /\ sweep'.pc \in Distributing \cup {"end"}
                           => Since(id, sweep.began)' \/ ToCome(id)'
    BY DEF Covered
  <1>1. Exists(id) /\ Off(id)
    BY DEF Exists, Off, SB
  <1>2. Since(id, lastRun) => Since(id, lastRun)'
    BY DEF Since
  <1>3. sweep'.began = sweep.began /\ Since(id, sweep.began) => Since(id, sweep.began)'
    BY DEF Since
  <1>4. QED
    BY <1>1, <1>2, <1>3 DEF Covered

(* Away from its two stages of publishing and purging the sweep calls      *)
(* nobody.                                                                 *)
LEMMA SweeperIdle ==
  ASSUME Standing, Base, sweep.pc \notin {"publishing", "purging"}
  PROVE  calls[Rec].pc \notin Active /\ (sweep.pc # "row" => sweep.todo = <<>>)
  BY DEF Base, Sweeper, Active

(* A step to a stage in which nothing is read, published or purged.        *)
LEMMA Apart ==
  ASSUME Standing, WindowInv, Noted, UNCHANGED <<rows, reqs, late, clock, calls>>,
         sweep.pc \notin {"publishing", "purging"},
         sweep'.pc \in {"idle", "snapshot", "list", "end"}, sweep'.todo = <<>>,
         sweep'.pc # "idle" => lastRun' <= sweep'.began,
         MaxStall <= Overlap => Covered'
  PROVE  WindowInv'
  <1>1. calls'[Rec].pc \notin Active
    BY SweeperIdle DEF WindowInv
  <1>2. Sweeper' /\ Anchored'
    BY <1>1 DEF Sweeper, Active, Anchored
  <1>3. Base' => Reads'
    BY ReadsNothing
  <1>4. QED
    BY <1>1, <1>2, <1>3, CycleWindow

LEMMA StartCycleWindow ==
  ASSUME Standing, WindowInv, Noted, StartCycle
  PROVE  WindowInv'
  <1> DEFINE pc == IF FullDue THEN "snapshot" ELSE "list"
  <1>1. /\ sweep.pc = "idle" /\ UNCHANGED <<rows, reqs, late, clock, calls, kv, lastRun>>
        /\ sweep' = [NoSweep EXCEPT !.pc = pc, !.full = FullDue, !.began = clock]
    BY DEF StartCycle, ssVars
  <1>2. sweep'.pc \in {"snapshot", "list"} /\ sweep'.todo = <<>> /\ sweep'.began = clock
    BY <1>1 DEF NoSweep
  <1>3. lastRun' <= sweep'.began
    BY <1>1, <1>2, StandingFacts
  <1>4. MaxStall <= Overlap => Covered'
    BY <1>1, <1>2, CoveredKept DEF WindowInv, Distributing
  <1>5. QED
    BY <1>1, <1>2, <1>3, <1>4, Apart

LEMMA SnapshotWindow ==
  ASSUME Standing, WindowInv, Noted, Snapshot
  PROVE  WindowInv'
  <1>1. /\ sweep.pc = "snapshot" /\ UNCHANGED <<rows, reqs, late, clock, calls, kv, lastRun>>
    BY DEF Snapshot, pubVars, ssVars
  <1>2. sweep'.pc = "list" /\ sweep'.todo = sweep.todo /\ sweep'.began = sweep.began
    BY StandingFacts DEF Snapshot, Step, Sweep
  <1>3. lastRun' <= sweep'.began /\ sweep.todo = <<>>
    BY <1>1, <1>2, SweeperIdle DEF WindowInv, Base, Anchored
  <1>4. MaxStall <= Overlap => Covered'
    BY <1>1, <1>2, CoveredKept DEF WindowInv, Distributing
  <1>5. QED
    BY <1>1, <1>2, <1>3, <1>4, Apart

LEMMA EndCycleWindow ==
  ASSUME Standing, WindowInv, Noted, EndCycle \/ OtherSourceFails
  PROVE  WindowInv'
  <1>1. /\ sweep.pc = "end" /\ UNCHANGED <<rows, reqs, late, clock, calls, kv>>
    BY DEF EndCycle, OtherSourceFails, pubVars, ssVars
  <1>2. sweep.todo = <<>> /\ lastRun <= sweep.began
    BY <1>1, SweeperIdle DEF WindowInv, Base, Anchored
  <1>3. CASE OtherSourceFails
    <2>1. /\ sweep'.pc = "end" /\ sweep'.todo = <<>> /\ sweep'.began = sweep.began
          /\ sweep'.failed = TRUE /\ UNCHANGED lastRun
      BY <1>1, <1>2, <1>3, StandingFacts DEF OtherSourceFails, Sweep
    <2>2. MaxStall <= Overlap => Covered'
      BY <1>1, <2>1, CoveredKept DEF WindowInv
    <2>3. QED
      BY <1>1, <1>2, <2>1, <2>2, Apart
  <1>4. CASE EndCycle
    <2>1. /\ sweep'.pc = "idle" /\ sweep'.todo = <<>>
          /\ lastRun' = IF sweep.failed THEN lastRun ELSE sweep.began
      BY <1>4 DEF EndCycle, NoSweep
    <2>2. ASSUME MaxStall <= Overlap PROVE Covered'
      <3> SUFFICES ASSUME NEW id \in RowId, Exists(id)', Off(id)'
                   PROVE  Since(id, lastRun)'
        BY <2>1 DEF Covered, Distributing
      <3>1. Exists(id) /\ Off(id)
        BY <1>1 DEF Exists, Off, SB
      <3>2. sweep.failed \in BOOLEAN /\ ~ToCome(id)
        BY <1>2, StandingFacts, SweepFacts DEF ToCome
      <3>3. Since(id, lastRun) /\ (sweep.failed = FALSE => Since(id, sweep.began))
        BY <1>1, <2>2, <3>1, <3>2 DEF WindowInv, Covered
      <3>4. QED
        BY <1>1, <2>1, <3>2, <3>3 DEF Since
    <2>3. QED
      BY <1>1, <2>1, <2>2, Apart
  <1>5. QED
    BY <1>3, <1>4

(* The rows are read: each row that differs is among those to publish.     *)
LEMMA ListRowsWindow ==
  ASSUME Standing, WindowInv, Noted, ListRows
  PROVE  WindowInv'
  <1>1. /\ sweep.pc = "list" /\ UNCHANGED <<rows, reqs, late, clock, calls, kv, lastRun>>
    BY DEF ListRows, pubVars, ssVars
  <1>2. /\ calls[Rec].pc \notin Active /\ sweep.todo = <<>> /\ lastRun <= sweep.began
        /\ sweep \in Sweep
    BY <1>1, SweeperIdle, StandingFacts DEF WindowInv, Base, Anchored
  <1>3. CASE sweep' = [sweep EXCEPT !.pc = "end", !.failed = TRUE]
    <2>1. /\ sweep'.pc = "end" /\ sweep'.todo = <<>> /\ sweep'.began = sweep.began
          /\ sweep'.failed = TRUE
      BY <1>2, <1>3 DEF Sweep
    <2>2. MaxStall <= Overlap => Covered'
      BY <1>1, <2>1, CoveredKept DEF WindowInv
    <2>3. QED
      BY <1>1, <1>2, <2>1, <2>2, Apart
  <1>4. CASE \E ids \in InIdOrder(Window) :
                sweep' = AfterRows([sweep EXCEPT !.todo = [i \in DOMAIN ids |-> rows[ids[i]]]])
    <2>1. PICK ids \in InIdOrder(Window) :
                sweep' = AfterRows([sweep EXCEPT !.todo = [i \in DOMAIN ids |-> rows[ids[i]]]])
      BY <1>4
    <2> DEFINE T == [i \in DOMAIN ids |-> rows[ids[i]]]
               s == [sweep EXCEPT !.todo = T]
    <2>2. /\ T \in Seq(Row)
          /\ \A id \in Window : \E i \in 1..Len(T) : T[i] = rows[id]
          /\ \A i \in 1..Len(T) : \E id \in Window : T[i] = rows[id]
          /\ T = <<>> => Window = {}
      BY RowsRead DEF Standing
    <2>3. sweep' = AfterRows(s)
      BY <2>1
    <2> HIDE DEF T
    <2>4. s \in Sweep /\ s.todo = T /\ s.began = sweep.began /\ s.full = sweep.full
      BY <1>2, <2>2 DEF Sweep
    <2> HIDE DEF s
    <2>5. /\ sweep'.began = sweep.began /\ sweep'.full = sweep.full /\ sweep'.todo = T
          /\ sweep'.pc \in {"row", "prune", "end"}
          /\ sweep'.pc = "row" <=> T # <<>>
          /\ sweep'.pc = "prune" => T = <<>> /\ sweep'.full /\ sweep'.failed = FALSE
      BY <2>3, <2>4, AfterRowsFacts
    <2>6. Sweeper' /\ Anchored'
      BY <1>1, <1>2, <2>5 DEF Sweeper, Active, Anchored
    <2>7. Reads'
      <3> SUFFICES ASSUME NEW id \in RowId, Exists(id)'
                   PROVE  /\ \A i \in 1..Len(T) : T[i].key = rows[id].key => T[i] = rows[id]
                          /\ sweep.full => Queued(id)'
        BY <1>1, <2>5 DEF Reads
      <3>1. Exists(id) /\ RowsApart
        BY <1>1 DEF Exists, WindowInv, Base
      <3>2. ASSUME NEW i \in 1..Len(T), T[i].key = rows[id].key PROVE T[i] = rows[id]
        <4>1. PICK j \in Window : T[i] = rows[j]
          BY <2>2
        <4>2. j \in RowId /\ Exists(j) /\ rows[j].key = rows[id].key
          BY <3>2, <4>1 DEF Window
        <4>3. j = id
          BY <3>1, <4>2 DEF RowsApart
        <4>4. QED
          BY <4>1, <4>3
      <3>3. sweep.full => id \in Window
        BY <3>1 DEF Window
      <3>4. id \in Window => \E i \in 1..Len(T) : T[i] = rows[id]
        BY <2>2
      <3>5. QED
        BY <1>1, <2>5, <3>2, <3>3, <3>4 DEF Queued
    <2>8. ASSUME MaxStall <= Overlap PROVE Covered'
      <3> SUFFICES ASSUME NEW id \in RowId, Exists(id)', Off(id)'
                   PROVE  Since(id, lastRun)' /\ ToCome(id)'
        BY DEF Covered
      <3>1. Exists(id) /\ Off(id)
        BY <1>1 DEF Exists, Off, SB
      <3>2. Since(id, lastRun)
        BY <2>8, <3>1 DEF WindowInv, Covered
      <3>3. id \in Window
        BY <3>1, <3>2 DEF Window, Since
      <3>4. PICK i \in 1..Len(T) : T[i] = rows[id]
        BY <2>2, <3>3
      <3>5. sweep'.pc = "row"
        BY <2>2, <2>5, <3>3
      <3>6. QED
        BY <1>1, <2>5, <3>2, <3>4, <3>5 DEF ToCome, Since
    <2>9. QED
      BY <1>1, <1>2, <2>6, <2>7, <2>8, CycleWindow
  <1>5. QED
    BY <1>3, <1>4 DEF ListRows

(* The first of the rows to publish.                                       *)
LEMMA HeadOf ==
  ASSUME Standing, Base, sweep.pc \in {"row", "publishing"}
  PROVE  /\ sweep.todo \in Seq(Row) /\ sweep.todo # <<>>
         /\ Head(sweep.todo) = sweep.todo[1] /\ 1 \in 1..Len(sweep.todo)
         /\ Head(sweep.todo) \in Row
         /\ Head(sweep.todo).key \in Key /\ Head(sweep.todo).doc \in Payload
  <1>1. sweep.todo \in Seq(Row) /\ sweep.todo # <<>>
    BY StandingFacts, SweepFacts DEF Base, Sweeper
  <1>2. Head(sweep.todo) = sweep.todo[1] /\ 1 \in 1..Len(sweep.todo) /\ Head(sweep.todo) \in Row
    BY <1>1
  <1>3. QED
    BY <1>1, <1>2 DEF Row

LEMMA SweepRowWindow ==
  ASSUME Standing, WindowInv, Noted, SweepRow
  PROVE  WindowInv'
  <1> DEFINE row == Head(sweep.todo)
  <1>1. /\ sweep.pc = "row" /\ UNCHANGED <<rows, reqs, late, clock, kv, lastRun>>
        /\ sweep' = [sweep EXCEPT !.pc = "publishing"]
        /\ PublishServiceSettings(Rec, row.key, row.doc)
    BY DEF SweepRow, Step, PublishServiceSettings, PublishDocument, Begin, ssVars
  <1>2. /\ sweep.todo # <<>> /\ row = sweep.todo[1] /\ 1 \in 1..Len(sweep.todo)
        /\ lastRun <= sweep.began /\ calls \in [Caller -> Call] /\ sweep \in Sweep
        /\ Rec \in Caller
    BY <1>1, HeadOf, StandingFacts, RecCaller DEF WindowInv, Base, Anchored
  <1>3. /\ sweep'.pc = "publishing" /\ sweep'.todo = sweep.todo /\ sweep'.full = sweep.full
        /\ sweep'.failed = sweep.failed /\ sweep'.published = sweep.published
        /\ sweep'.began = sweep.began
    BY <1>1, <1>2 DEF Sweep
  <1>4. /\ \A d \in Caller : d # Rec => calls'[d] = calls[d]
        /\ \/ calls'[Rec].pc = "failed"
           \/ /\ calls'[Rec].pc = "get" /\ calls'[Rec].bucket = BucketServiceSettings
              /\ calls'[Rec].key = row.key /\ calls'[Rec].payload = row.doc
    <2>1. CASE calls' = [calls EXCEPT ![Rec] = Started(BucketServiceSettings, row.key, row.doc, "get")]
      BY <1>2, <2>1 DEF Started
    <2>2. CASE Return(Rec, "failed")
      BY <1>2, <2>2, ReturnType DEF Answer
    <2>3. QED
      BY <1>1, <2>1, <2>2 DEF PublishServiceSettings, PublishDocument, Begin
  <1> HIDE DEF row
  <1>5. Sweeper' /\ Anchored'
    BY <1>1, <1>2, <1>3, <1>4 DEF Sweeper, Anchored, row
  <1>6. ASSUME NEW id \in RowId PROVE Recent(id) /\ Base' => Recent(id)'
    BY <1>1, <1>3, UntimedPasses, UnderWayNext, RecCaller DEF Passes, Distributing
  <1>7. Base' => Carries(Rec)'
    <2> SUFFICES ASSUME Base' PROVE Carries(Rec)'
      OBVIOUS
    <2>1. ASSUME NEW id \in RowId, Under(id, row.key), rows[id].doc # row.doc
          PROVE  Recent(id)
      BY <1>2, <2>1 DEF WindowInv, Reads, Under
    <2>2. /\ calls'[Rec].pc \in Active => calls'[Rec].key = row.key /\ calls'[Rec].payload = row.doc
          /\ Passes /\ Renews /\ Carries(Rec)
      BY <1>1, <1>2, <1>4, UntimedPasses, SameRenews DEF Active, WindowInv
    <2>3. QED
      BY <1>1, <1>2, <1>3, <2>1, <2>2, CarriesBegun
  <1>8. Base' => Reads'
    <2> SUFFICES ASSUME Base', NEW id \in RowId, Exists(id)'
                 PROVE  /\ \A i \in 1..Len(sweep.todo) :
                              sweep.todo[i].key = rows[id].key => sweep.todo[i] = rows[id] \/ Recent(id)'
                        /\ sweep.full /\ sweep.failed = FALSE
                             => rows[id].key \in sweep.published \/ Queued(id)' \/ Recent(id)'
      BY <1>1, <1>3 DEF Reads
    <2>1. Exists(id) /\ (Queued(id) => Queued(id)')
      BY <1>1, <1>3 DEF Exists, Queued
    <2>2. QED
      BY <1>1, <1>6, <2>1 DEF WindowInv, Reads
  <1>9. MaxStall <= Overlap => Covered'
    <2>1. \A id \in RowId : ToCome(id) => ToCome(id)'
      BY <1>1, <1>3, <1>4 DEF ToCome
    <2>2. QED
      BY <1>1, <1>3, <2>1, CoveredKept DEF WindowInv, Distributing
  <1>10. QED
    BY <1>1, <1>4, <1>5, <1>7, <1>8, <1>9, CycleWindow

LEMMA SweepRowDoneWindow ==
  ASSUME Standing, WindowInv, Noted, SweepRowDone
  PROVE  WindowInv'
  <1> DEFINE row == Head(sweep.todo)
             P == IF Dropped(Rec) THEN sweep.published ELSE sweep.published \cup {row.key}
             F == sweep.failed \/ Dropped(Rec)
             q == Tail(sweep.todo)
             s == [sweep EXCEPT !.todo = q, !.published = P, !.failed = F]
  <1>1. /\ sweep.pc = "publishing" /\ UNCHANGED <<rows, reqs, late, clock, kv, lastRun>>
        /\ Taken(Rec) /\ sweep' = AfterRows(s)
    BY DEF SweepRowDone, Taken, ssVars
  <1>2. /\ sweep.todo \in Seq(Row) /\ sweep.todo # <<>> /\ row = sweep.todo[1] /\ row.key \in Key
        /\ lastRun <= sweep.began /\ calls \in [Caller -> Call] /\ sweep \in Sweep
        /\ Rec \in Caller
    BY <1>1, HeadOf, StandingFacts, RecCaller DEF WindowInv, Base, Anchored
  <1>3. /\ q \in Seq(Row) /\ Len(q) = Len(sweep.todo) - 1
        /\ \A i \in 1..Len(q) : i + 1 \in 1..Len(sweep.todo) /\ q[i] = sweep.todo[i + 1]
        /\ \A i \in 1..Len(sweep.todo) : i = 1 \/ (i - 1 \in 1..Len(q) /\ q[i - 1] = sweep.todo[i])
    BY <1>2
  <1>4. /\ P \subseteq Key /\ F \in BOOLEAN /\ sweep.published \subseteq P
        /\ F = FALSE => sweep.failed = FALSE /\ ~Dropped(Rec) /\ row.key \in P
    <2>1. /\ P \subseteq Key /\ sweep.published \subseteq P /\ (~Dropped(Rec) => row.key \in P)
          /\ sweep.failed \in BOOLEAN
      BY <1>2, SweepFacts
    <2>2. F \in BOOLEAN /\ (F = FALSE => sweep.failed = FALSE /\ ~Dropped(Rec))
      BY <2>1
    <2>3. QED
      BY <2>1, <2>2
  <1> HIDE DEF P, F, q
  <1>5. /\ s \in Sweep /\ s.todo = q /\ s.published = P /\ s.failed = F
        /\ s.began = sweep.began /\ s.full = sweep.full
    BY <1>2, <1>3, <1>4 DEF Sweep
  <1> HIDE DEF s
  <1>6. /\ sweep'.began = sweep.began /\ sweep'.full = sweep.full /\ sweep'.todo = q
        /\ sweep'.published = P /\ sweep'.failed = F
        /\ sweep'.pc \in {"row", "prune", "end"}
        /\ sweep'.pc = "row" <=> q # <<>>
        /\ sweep'.pc = "prune" => q = <<>> /\ sweep'.full /\ F = FALSE
    BY <1>1, <1>5, AfterRowsFacts
  <1>7. /\ \A d \in Caller : d # Rec => calls'[d] = calls[d]
        /\ calls'[Rec].pc \notin Active
    BY <1>1, <1>2, ReturnType DEF Taken, Answer, Active
  <1>8. Sweeper' /\ Anchored'
    BY <1>1, <1>2, <1>6, <1>7 DEF Sweeper, Active, Anchored
  <1>9. Base' => Reads'
    <2> SUFFICES ASSUME Base', NEW id \in RowId, Exists(id)'
                 PROVE  /\ \A i \in 1..Len(q) : q[i].key = rows[id].key => q[i] = rows[id] \/ Recent(id)'
                        /\ sweep.full /\ F = FALSE /\ sweep'.pc \in {"row", "prune"}
                             => rows[id].key \in P \/ Queued(id)' \/ Recent(id)'
      BY <1>1, <1>6 DEF Reads
    <2>1. Exists(id)
      BY <1>1 DEF Exists
    <2>2. sweep'.pc \in {"row", "prune"} /\ Recent(id) => Recent(id)'
      BY <1>1, <1>6, UntimedPasses, UnderWayNext, RecCaller DEF Passes, Distributing
    <2>3. ASSUME NEW i \in 1..Len(q), q[i].key = rows[id].key
          PROVE  q[i] = rows[id] \/ Recent(id)'
      <3>1. sweep.todo[i + 1] = rows[id] \/ Recent(id)
        BY <1>3, <2>1, <2>3 DEF WindowInv, Reads
      <3>2. q # <<>>
        BY <2>3
      <3>3. QED
        BY <1>3, <1>6, <2>2, <3>1, <3>2
    <2>4. ASSUME sweep.full, F = FALSE, sweep'.pc \in {"row", "prune"}
          PROVE  rows[id].key \in P \/ Queued(id)' \/ Recent(id)'
      <3>1. rows[id].key \in sweep.published \/ Queued(id) \/ Recent(id)
        BY <1>1, <1>4, <2>1, <2>4 DEF WindowInv, Reads
      <3>2. ASSUME NEW i \in 1..Len(sweep.todo), sweep.todo[i] = rows[id]
            PROVE  rows[id].key \in P \/ Queued(id)'
        <4>1. CASE i = 1
          BY <1>2, <1>4, <2>4, <3>2, <4>1
        <4>2. CASE i # 1
          <5>1. i - 1 \in 1..Len(q) /\ q[i - 1] = rows'[id]
            BY <1>1, <1>3, <3>2, <4>2
          <5>2. QED
            BY <1>6, <5>1 DEF Queued
        <4>3. QED
          BY <4>1, <4>2
      <3>3. QED
        BY <1>4, <2>2, <2>4, <3>1, <3>2 DEF Queued
    <2>5. QED
      BY <2>3, <2>4
  <1>10. MaxStall <= Overlap => Covered'
    <2>1. ASSUME F = FALSE, NEW id \in RowId, ToCome(id) PROVE ToCome(id)'
      <3>1. PICK i \in 1..Len(sweep.todo) :
              /\ sweep.todo[i] = rows[id]
              /\ i = 1 => calls[Rec].pc \notin {"ok", "skipped"}
        BY <1>1, <2>1 DEF ToCome
      <3>2. i # 1
        BY <1>4, <2>1, <3>1 DEF Dropped
      <3>3. i - 1 \in 1..Len(q) /\ q[i - 1] = rows'[id]
        BY <1>1, <1>3, <3>1, <3>2
      <3>4. QED
        BY <1>6, <3>3 DEF ToCome
    <2>2. QED
      BY <1>1, <1>4, <1>6, <2>1, CoveredKept DEF WindowInv, Distributing
  <1>11. QED
    BY <1>1, <1>7, <1>8, <1>9, <1>10, CycleWindow

(* From the prune on nothing is left to publish.                           *)
LEMMA PurgesWindow ==
  ASSUME Standing, WindowInv, Noted, UNCHANGED <<rows, reqs, late, clock, kv, lastRun>>,
         \A d \in Caller : d # Rec => calls'[d] = calls[d],
         sweep.pc \in {"prune", "purge", "purging"},
         sweep'.pc \in {"purge", "purging", "end"},
         sweep'.began = sweep.began, sweep'.todo = sweep.todo, sweep'.failed = sweep.failed,
         \A id \in RowId : Exists(id) /\ rows[id].key \in sweep'.stale => Recent(id),
         NEW k, \A id \in RowId : Exists(id) /\ rows[id].key = k => Recent(id),
         calls'[Rec].pc \in Active => /\ calls'[Rec].pc = "purge" /\ sweep'.pc = "purging"
                                      /\ calls'[Rec].key = k /\ calls'[Rec].payload = NoPayload
  PROVE  WindowInv'
  <1>1. sweep.todo = <<>> /\ lastRun <= sweep.began
    BY DEF WindowInv, Base, Anchored, Sweeper
  <1>2. Sweeper' /\ Anchored'
    BY <1>1 DEF Sweeper, Anchored, Active
  <1>3. Base' => Reads'
    BY <1>1, ReadsNothing
  <1>4. Base' => Carries(Rec)'
    BY RecCaller, UntimedPasses, SameRenews, CarriesBegun DEF WindowInv, Under
  <1>5. MaxStall <= Overlap => Covered'
    <2>1. \A id \in RowId : ~ToCome(id)
      BY <1>1 DEF ToCome
    <2>2. QED
      BY <2>1, CoveredKept DEF WindowInv, Distributing
  <1>6. QED
    BY <1>2, <1>3, <1>4, <1>5, CycleWindow

(* No key is stale whose row was read: its row is a recent one.            *)
LEMMA PruneWindow ==
  ASSUME Standing, WindowInv, Noted, Prune
  PROVE  WindowInv'
  <1>1. /\ sweep.pc = "prune" /\ UNCHANGED <<rows, reqs, late, clock, kv, lastRun, calls>>
        /\ sweep \in Sweep /\ calls[Rec].pc \notin Active
    BY StandingFacts, SweeperIdle DEF Prune, pubVars, ssVars, WindowInv
  <1>2. ASSUME NEW id \in RowId, Exists(id), rows[id].key \notin sweep.published
        PROVE  Recent(id)
    <2>1. sweep.full /\ sweep.failed = FALSE /\ ~Queued(id)
      BY <1>1 DEF WindowInv, Base, Sweeper, Queued
    <2>2. QED
      BY <1>1, <1>2, <2>1 DEF WindowInv, Reads
  <1>3. \A id \in RowId : ~(Exists(id) /\ rows[id].key = NoKey)
    BY RowOf
  <1>4. CASE Step("end")
    <2>1. /\ sweep'.pc = "end" /\ sweep'.began = sweep.began /\ sweep'.todo = sweep.todo
          /\ sweep'.failed = sweep.failed
      BY <1>1, <1>4 DEF Step, Sweep
    <2>2. sweep.todo = <<>> /\ lastRun <= sweep.began
      BY <1>1 DEF WindowInv, Base, Anchored, Sweeper
    <2>3. MaxStall <= Overlap => Covered'
      <3>1. \A id \in RowId : ~ToCome(id)
        BY <2>2 DEF ToCome
      <3>2. QED
        BY <1>1, <2>1, <3>1, CoveredKept DEF WindowInv, Distributing
    <2>4. QED
      BY <1>1, <2>1, <2>2, <2>3, Apart
  <1>5. CASE Purging(IF Refused THEN {} ELSE Stale)
    <2> DEFINE D == IF Refused THEN {} ELSE Stale
    <2>1. \A k \in D : k \notin sweep.published
      BY DEF Stale
    <2>2. sweep' = [sweep EXCEPT !.pc = IF D = {} THEN "end" ELSE "purge", !.stale = D]
      BY <1>5 DEF Purging
    <2> HIDE DEF D
    <2>3. /\ sweep'.pc \in {"end", "purge"} /\ sweep'.began = sweep.began
          /\ sweep'.todo = sweep.todo /\ sweep'.failed = sweep.failed /\ sweep'.stale = D
      BY <1>1, <2>2 DEF Sweep
    <2>4. QED
      BY <1>1, <1>2, <1>3, <2>1, <2>3, PurgesWindow
  <1>6. QED
    BY <1>4, <1>5 DEF Prune

LEMMA PurgeStaleWindow ==
  ASSUME Standing, WindowInv, Noted, PurgeStale
  PROVE  WindowInv'
  <1>1. PICK k \in sweep.stale :
          /\ DeleteKey(Rec, BucketServiceSettings, k)
          /\ sweep' = [sweep EXCEPT !.pc = "purging", !.stale = @ \ {k}]
    BY DEF PurgeStale
  <1>2. /\ sweep.pc = "purge" /\ UNCHANGED <<rows, reqs, late, clock, kv, lastRun>>
        /\ sweep \in Sweep /\ calls \in [Caller -> Call] /\ Rec \in Caller
    BY StandingFacts, RecCaller DEF PurgeStale, DeleteKey, Begin, ssVars
  <1>3. /\ sweep'.pc = "purging" /\ sweep'.began = sweep.began /\ sweep'.todo = sweep.todo
        /\ sweep'.failed = sweep.failed /\ sweep'.stale \subseteq sweep.stale
    BY <1>1, <1>2 DEF Sweep
  <1>4. \A id \in RowId : Exists(id) /\ rows[id].key \in sweep.stale => Recent(id)
    BY <1>2 DEF WindowInv, Reads
  <1>5. /\ \A d \in Caller : d # Rec => calls'[d] = calls[d]
        /\ \/ calls'[Rec].pc = "failed"
           \/ /\ calls'[Rec].pc = "purge" /\ calls'[Rec].key = k
              /\ calls'[Rec].payload = NoPayload
    <2>1. CASE calls' = [calls EXCEPT ![Rec] = Started(BucketServiceSettings, k, NoPayload, "purge")]
      BY <1>2, <2>1 DEF Started
    <2>2. CASE Return(Rec, "failed")
      BY <1>2, <2>2, ReturnType DEF Answer
    <2>3. QED
      BY <1>1, <2>1, <2>2 DEF DeleteKey, Begin
  <1>6. QED
    BY <1>1, <1>2, <1>3, <1>4, <1>5, PurgesWindow DEF Active

LEMMA PurgeStaleDoneWindow ==
  ASSUME Standing, WindowInv, Noted, PurgeStaleDone
  PROVE  WindowInv'
  <1>1. /\ sweep.pc = "purging" /\ UNCHANGED <<rows, reqs, late, clock, kv, lastRun>>
        /\ Taken(Rec) /\ Purging(sweep.stale) /\ sweep \in Sweep
        /\ calls \in [Caller -> Call] /\ Rec \in Caller
    BY StandingFacts, RecCaller DEF PurgeStaleDone, Taken, ssVars
  <1>2. /\ sweep'.pc \in {"end", "purge"} /\ sweep'.began = sweep.began
        /\ sweep'.todo = sweep.todo /\ sweep'.failed = sweep.failed
        /\ sweep'.stale = sweep.stale
    BY <1>1 DEF Purging, Sweep
  <1>3. \A id \in RowId : Exists(id) /\ rows[id].key \in sweep.stale => Recent(id)
    BY <1>1 DEF WindowInv, Reads
  <1>4. /\ \A d \in Caller : d # Rec => calls'[d] = calls[d]
        /\ calls'[Rec].pc \notin Active
    BY <1>1, ReturnType DEF Taken, Answer, Active
  <1>5. \A id \in RowId : ~(Exists(id) /\ rows[id].key = NoKey)
    BY RowOf
  <1>6. QED
    BY <1>1, <1>2, <1>3, <1>4, <1>5, PurgesWindow

-----------------------------------------------------------------------------
(* The requests.                                                           *)

OnlyRequest(c) ==
    /\ UNCHANGED <<late, sweep, lastRun, kv, clock>>
    /\ \A d \in Caller : d # c => calls'[d] = calls[d]
    /\ \A d \in Request : d # c => reqs'[d] = reqs[d]

LEMMA RequestAlone ==
  ASSUME Standing, NEW c \in Request, RequestMoves(c) \/ RequestLost(c)
  PROVE  OnlyRequest(c)
  <1>1. c \in Caller /\ calls \in [Caller -> Call] /\ reqs \in [Request -> Req]
    BY RequestAssumption, StandingFacts
  <1>2. UNCHANGED <<sweep, lastRun>> /\ (Arrival(c) \/ RequestStep(c) \/ DatabaseFails(c))
    BY DEF RequestMoves, RequestLost
  <1> DEFINE Others == /\ UNCHANGED <<late, kv, clock>>
                       /\ \A d \in Caller : d # c => calls'[d] = calls[d]
             Rest == \A d \in Request : d # c => reqs'[d] = reqs[d]
  <1>3. ASSUME UNCHANGED pubVars PROVE Others
    BY <1>3 DEF pubVars
  <1>4. ASSUME NEW b, NEW k, NEW p, NEW pc, Begin(c, b, k, p, pc)
        PROVE  Others
    BY <1>1, <1>4 DEF Begin, Return
  <1>5. ASSUME NEW k, DeleteKey(c, BucketServiceSettings, k)
        PROVE  Others
    BY <1>4, <1>5 DEF DeleteKey
  <1>6. ASSUME NEW k, NEW p, PublishServiceSettings(c, k, p)
        PROVE  Others
    <2>1. CASE \E b : Begin(c, b, k, p, "get")
      BY <1>4, <2>1
    <2>2. CASE Return(c, "failed") /\ UNCHANGED <<kv, provisioned, clock, late>>
      BY <1>1, <2>2 DEF Return
    <2>3. QED
      BY <1>6, <2>1, <2>2 DEF PublishServiceSettings, PublishDocument
  <1>7. ASSUME Taken(c) PROVE Others
    BY <1>1, <1>7 DEF Taken, Return
  <1>8. ASSUME NEW r, reqs' = [reqs EXCEPT ![c] = r] PROVE Rest
    BY <1>1, <1>8
  <1>9. ASSUME NEW pc, Goto(c, pc) PROVE Rest
    BY <1>1, <1>9 DEF Goto
  <1>10. CASE Arrival(c)
    <2>1. PICK r : Accept(c, r)
      BY <1>10 DEF Arrival, CreateMicroserviceConfig, UpdateMicroserviceConfig,
         DeleteMicroserviceConfig
    <2>2. QED
      BY <1>2, <1>3, <1>8, <2>1 DEF Accept, OnlyRequest
  <1>11. CASE ReadPrevious(c)
    <2>1. UNCHANGED pubVars /\ Rest
      BY <1>1, <1>8, <1>11 DEF ReadPrevious, Finish
    <2>2. QED
      BY <1>2, <1>3, <2>1 DEF OnlyRequest
  <1>12. CASE checkAppSettingsRefs(c) \/ ExecRefused(c) \/ DatabaseFails(c)
    <2>1. UNCHANGED pubVars /\ (Finish(c) \/ Goto(c, "exec"))
      BY <1>12 DEF checkAppSettingsRefs, ExecRefused, DatabaseFails
    <2>2. QED
      BY <1>2, <1>3, <1>8, <1>9, <2>1 DEF OnlyRequest, Finish
  <1>13. CASE Exec(c)
    BY <1>2, <1>3, <1>5, <1>9, <1>13 DEF Exec, OnlyRequest
  <1>14. CASE ReadBack(c)
    <2>1. Rest
      BY <1>1, <1>8, <1>14 DEF ReadBack, Finish
    <2>2. Others
      BY <1>3, <1>6, <1>14 DEF ReadBack
    <2>3. QED
      BY <1>2, <2>1, <2>2 DEF OnlyRequest
  <1>15. CASE AfterPublish(c) \/ AfterPurge(c)
    BY <1>2, <1>5, <1>7, <1>8, <1>9, <1>15 DEF AfterPublish, AfterPurge, OnlyRequest, Finish
  <1>16. QED
    BY <1>2, <1>10, <1>11, <1>12, <1>13, <1>14, <1>15 DEF RequestStep

LEMMA RequestWindow ==
  ASSUME Standing, WindowInv, Noted, NEW c \in Request, OnlyRequest(c),
         Errand(c)', RowsApart', Renews,
         Base' => Leaves(c)', Base' => Carries(c)'
  PROVE  WindowInv'
  <1>1. Base' /\ Passes
    BY RequestBase, UntimedPasses DEF WindowInv, OnlyRequest
  <1>2. \A d \in Request : Leaves(d)'
    BY <1>1, LeavesAside DEF WindowInv, OnlyRequest
  <1>3. \A d \in Caller : Carries(d)'
    BY <1>1, CarriesAside DEF WindowInv, OnlyRequest
  <1>4. Reads'
    BY <1>1, ReadsAside DEF WindowInv, OnlyRequest
  <1>5. ASSUME MaxStall <= Overlap PROVE Covered'
    <2>1. Lands(NoKey, NoPayload) /\ \A id \in RowId : ~Under(id, NoKey)
      BY RowOf DEF Lands, SB, Under, OnlyRequest
    <2>2. UNCHANGED <<sweep, lastRun>> /\ calls'[Rec] = calls[Rec]
      BY RecCaller DEF OnlyRequest
    <2>3. \A id \in RowId : rows'[id] = rows[id] /\ ToCome(id) => ToCome(id)'
      BY <2>2 DEF ToCome
    <2>4. QED
      BY <1>5, <2>1, <2>2, <2>3, CoveredAside DEF WindowInv
  <1>6. QED
    BY <1>1, <1>2, <1>3, <1>4, <1>5 DEF WindowInv

(* Away from its own publish and purge a request calls nobody.             *)
LEMMA RequestIdle ==
  ASSUME Standing, WindowInv, NEW c \in Request, reqs[c].pc \notin {"publishing", "purging"}
  PROVE  calls[c].pc \notin Active
  BY RecCaller, RequestAssumption DEF WindowInv, Base, Errand

LEMMA FinishWindow ==
  ASSUME Standing, WindowInv, Noted, NEW c \in Request, OnlyRequest(c), Finish(c),
         calls'[c].pc \notin Active, RowsApart', Renews
  PROVE  WindowInv'
  <1>1. reqs'[c].pc = "idle" /\ reqs'[c].op = "none"
    BY StandingFacts DEF Finish, NoReq
  <1>2. Errand(c)'
    BY <1>1 DEF Errand
  <1>3. Base' => Leaves(c)'
    BY <1>1, UntimedPasses, LeavesAside DEF OnlyRequest, WindowInv
  <1>4. Base' => Carries(c)'
    BY RequestAssumption, RecCaller, UntimedPasses, CarriesAside DEF OnlyRequest, WindowInv
  <1>5. QED
    BY <1>2, <1>3, <1>4, RequestWindow

(* A step that neither commits nor calls the publisher.                    *)
LEMMA QuietWindow ==
  ASSUME Standing, WindowInv, Noted, NEW c \in Request, OnlyRequest(c), UNCHANGED <<rows, calls>>,
         Errand(c)', Base' => Leaves(c)'
  PROVE  WindowInv'
  <1>1. Renews /\ RowsApart'
    BY SameRenews, SameApart DEF WindowInv, Base
  <1>2. Base' => Carries(c)'
    BY <1>1, RequestAssumption, RecCaller, UntimedPasses, CarriesAside DEF OnlyRequest, WindowInv
  <1>3. QED
    BY <1>1, <1>2, RequestWindow

LEMMA LeavesNothing ==
  ASSUME Standing, UNCHANGED rows, NEW c \in Request, reqs'[c].prev = NoKey
  PROVE  Leaves(c)'
  <1>1. \A id \in RowId : ~Under(id, reqs[c].prev)'
    BY RowOf DEF Under, Exists
  <1>2. QED
    BY <1>1 DEF Leaves

LEMMA ArrivalWindow ==
  ASSUME Standing, WindowInv, Noted, NEW c \in Request, OnlyRequest(c), Arrival(c)
  PROVE  WindowInv'
  <1>1. reqs \in [Request -> Req]
    BY StandingFacts
  <1>2. PICK r : /\ Accept(c, r) /\ r.prev = NoKey /\ r.pc # "readback"
                 /\ r.op = "create" => r.pc # "previous"
    <2>1. CASE \E k \in Key, d \in Payload : CreateMicroserviceConfig(c, k, d)
      <3>1. PICK k \in Key, d \in Payload : CreateMicroserviceConfig(c, k, d)
        BY <2>1
      <3> DEFINE r == [NoReq EXCEPT !.op = "create", !.pc = "check", !.key = k, !.doc = d]
      <3>2. /\ Accept(c, r) /\ r.prev = NoKey /\ r.pc # "readback"
            /\ r.op = "create" => r.pc # "previous"
        BY <3>1 DEF CreateMicroserviceConfig, NoReq
      <3> HIDE DEF r
      <3>3. QED
        BY <3>2
    <2>2. CASE \E id \in RowId, k \in Key, d \in Payload, guarded \in Opting :
                  UpdateMicroserviceConfig(c, id, k, d, guarded)
      <3>1. PICK id \in RowId, k \in Key, d \in Payload, guarded \in Opting :
                  UpdateMicroserviceConfig(c, id, k, d, guarded)
        BY <2>2
      <3> DEFINE e == IF guarded THEN rows[id].at ELSE 0
                 r == [NoReq EXCEPT !.op = "update", !.pc = "previous", !.id = id,
                                    !.key = k, !.doc = d, !.expected = e]
      <3>2. Accept(c, r)
        BY <3>1 DEF UpdateMicroserviceConfig
      <3>3. r.prev = NoKey /\ r.pc # "readback" /\ (r.op = "create" => r.pc # "previous")
        BY DEF NoReq
      <3> HIDE DEF r
      <3>4. QED
        BY <3>2, <3>3
    <2>3. CASE \E id \in RowId : DeleteMicroserviceConfig(c, id)
      <3>1. PICK id \in RowId : DeleteMicroserviceConfig(c, id)
        BY <2>3
      <3> DEFINE r == [NoReq EXCEPT !.op = "delete", !.pc = "previous", !.id = id]
      <3>2. /\ Accept(c, r) /\ r.prev = NoKey /\ r.pc # "readback"
            /\ r.op = "create" => r.pc # "previous"
        BY <3>1 DEF DeleteMicroserviceConfig, NoReq
      <3> HIDE DEF r
      <3>3. QED
        BY <3>2
    <2>4. QED
      BY <2>1, <2>2, <2>3 DEF Arrival
  <1>3. /\ reqs[c].pc = "idle" /\ reqs'[c] = r /\ UNCHANGED <<rows, calls>>
    BY <1>1, <1>2 DEF Accept, Idle, pubVars
  <1>4. Errand(c)'
    BY <1>2, <1>3, RequestIdle DEF Errand
  <1>5. Leaves(c)'
    BY <1>2, <1>3, LeavesNothing
  <1>6. QED
    BY <1>3, <1>4, <1>5, QuietWindow

(* The request reads the key the row feeds, and no other row has that key. *)
LEMMA ReadPreviousWindow ==
  ASSUME Standing, WindowInv, Noted, NEW c \in Request, OnlyRequest(c), ReadPrevious(c)
  PROVE  WindowInv'
  <1> DEFINE r == reqs[c]
             pc == IF r.op = "update" THEN "check" ELSE "exec"
             n == [r EXCEPT !.pc = pc, !.prev = rows[r.id].key]
  <1>1. /\ r.pc = "previous" /\ UNCHANGED <<rows, calls>> /\ r \in Req
        /\ reqs \in [Request -> Req]
    BY StandingFacts DEF ReadPrevious, pubVars
  <1>2. CASE Finish(c)
    BY <1>1, <1>2, RequestIdle, SameApart, SameRenews, FinishWindow DEF WindowInv, Base
  <1>3. CASE Exists(r.id) /\ reqs' = [reqs EXCEPT ![c] = n]
    <2>1. /\ n.pc \in {"check", "exec"} /\ n.op = r.op /\ n.id = r.id /\ n.prev = rows[r.id].key
      BY <1>1 DEF Req
    <2> HIDE DEF n
    <2>2. reqs'[c] = n
      BY <1>1, <1>3
    <2>3. r.op # "create"
      BY <1>1, RequestAssumption DEF WindowInv, Base, Errand
    <2>4. Errand(c)'
      BY <1>1, <2>1, <2>2, <2>3, RequestIdle DEF Errand
    <2>5. Leaves(c)'
      <3> SUFFICES ASSUME NEW id \in RowId, Under(id, reqs[c].prev)' PROVE id = r.id
        BY <2>1, <2>2 DEF Leaves
      <3>1. Exists(id) /\ rows[id].key = rows[r.id].key
        BY <1>1, <2>1, <2>2 DEF Under, Exists
      <3>2. QED
        BY <1>3, <3>1 DEF WindowInv, Base, RowsApart, Exists
    <2>6. QED
      BY <1>1, <2>4, <2>5, QuietWindow
  <1>4. QED
    BY <1>2, <1>3 DEF ReadPrevious

LEMMA CheckWindow ==
  ASSUME Standing, WindowInv, Noted, NEW c \in Request, OnlyRequest(c),
         checkAppSettingsRefs(c) \/ ExecRefused(c)
  PROVE  WindowInv'
  <1>1. /\ reqs[c].pc \in {"check", "exec"} /\ UNCHANGED <<rows, calls>>
        /\ Finish(c) \/ (reqs[c].pc = "check" /\ Goto(c, "exec"))
    BY DEF checkAppSettingsRefs, ExecRefused, pubVars
  <1>2. CASE Finish(c)
    BY <1>1, <1>2, RequestIdle, SameApart, SameRenews, FinishWindow DEF WindowInv, Base
  <1>3. CASE Goto(c, "exec") /\ reqs[c].pc = "check"
    <2>1. /\ reqs'[c].pc = "exec" /\ reqs'[c].op = reqs[c].op
          /\ reqs'[c].prev = reqs[c].prev /\ reqs'[c].id = reqs[c].id
      BY <1>3, StandingFacts DEF Goto, Req
    <2>2. Errand(c)'
      BY <1>1, <1>3, <2>1, RequestIdle, RequestAssumption DEF Errand, WindowInv, Base
    <2>3. Base' => Leaves(c)'
      BY <1>1, <1>3, <2>1, UntimedPasses, SameRenews, LeavesAside DEF OnlyRequest, WindowInv
    <2>4. QED
      BY <1>1, <2>2, <2>3, QuietWindow
  <1>4. QED
    BY <1>1, <1>2, <1>3

(* A commit: the row it writes bears the time, and shares its key with no  *)
(* other.                                                                  *)
LEMMA CommitWindow ==
  ASSUME Standing, Standing', RowsApart, NEW c \in Request, Commit(c), UNCHANGED clock
  PROVE  /\ reqs[c].pc = "exec" /\ reqs[c].op \in {"create", "update", "delete"}
         /\ Renews /\ RowsApart'
         /\ reqs[c].op = "delete" => \A id \in RowId : Exists(id)' => id # reqs[c].id
         /\ \A id \in RowId : rows'[id] # rows[id] /\ Exists(id)' => rows'[id].at = clock
  <1>1. rows \in [RowId -> Row \cup {NoRow}]
    BY StandingFacts
  <1>2. NewRow(c).at = clock /\ NewRow(c).key = reqs[c].key
    BY DEF NewRow
  <1>3. ASSUME NEW i \in RowId, rows' = [rows EXCEPT ![i] = NewRow(c)],
               \A j \in RowId \ {i} : rows[j].key # reqs[c].key
        PROVE  /\ RowsApart'
               /\ \A id \in RowId : rows'[id] # rows[id] => rows'[id].at = clock
    <2>1. rows'[i] = NewRow(c) /\ \A j \in RowId : j # i => rows'[j] = rows[j]
      BY <1>1, <1>3
    <2>2. RowsApart'
      <3> SUFFICES ASSUME NEW j \in RowId, NEW l \in RowId, Exists(j)', Exists(l)',
                          rows'[j].key = rows'[l].key
                   PROVE  j = l
        BY DEF RowsApart
      <3>1. CASE j # i /\ l # i
        BY <2>1, <3>1 DEF RowsApart, Exists
      <3>2. CASE j = i \/ l = i
        BY <1>2, <1>3, <2>1, <3>2
      <3>3. QED
        BY <3>1, <3>2
    <2>3. QED
      BY <1>2, <2>1, <2>2
  <1>4. CASE Insert(c)
    <2>1. PICK i \in RowId : rows' = [rows EXCEPT ![i] = NewRow(c)]
      BY <1>4 DEF Insert
    <2>2. \A j \in RowId \ {i} : rows[j].key # reqs[c].key
      BY <1>4, RowIdAssumption DEF Insert, KeyTaken
    <2>3. QED
      BY <1>3, <1>4, <2>1, <2>2, CommitRenews DEF Insert
  <1>5. CASE Update(c)
    <2> DEFINE i == reqs[c].id
    <2>1. /\ i \in RowId /\ rows' = [rows EXCEPT ![i] = NewRow(c)]
          /\ \A j \in RowId \ {i} : rows[j].key # reqs[c].key
      BY <1>5 DEF Update, Exists, KeyTaken
    <2> HIDE DEF i
    <2>2. QED
      BY <1>3, <1>5, <2>1, CommitRenews DEF Update
  <1>6. CASE Delete(c)
    <2> DEFINE i == reqs[c].id
    <2>1. i \in RowId /\ rows' = [rows EXCEPT ![i] = NoRow] /\ i = reqs[c].id
      BY <1>6 DEF Delete, Exists
    <2> HIDE DEF i
    <2>2. rows'[i] = NoRow /\ \A j \in RowId : j # i => rows'[j] = rows[j]
      BY <1>1, <2>1
    <2>3. \A j \in RowId : Exists(j)' => rows'[j] = rows[j] /\ Exists(j)
      BY <2>2 DEF Exists
    <2>4. RowsApart' /\ \A id \in RowId : Exists(id)' => id # i
      BY <2>2, <2>3 DEF RowsApart, Exists
    <2>5. QED
      BY <1>6, <2>1, <2>3, <2>4, CommitRenews DEF Delete
  <1>7. QED
    BY <1>4, <1>5, <1>6 DEF Commit

(* The calls of a request to the publisher.                                *)
LEMMA PurgeBegun ==
  ASSUME Standing, NEW c \in Caller, NEW k, DeleteKey(c, BucketServiceSettings, k)
  PROVE  calls'[c].pc \in Active => calls'[c].key = k /\ calls'[c].payload = NoPayload
  <1>1. calls \in [Caller -> Call]
    BY StandingFacts
  <1>2. CASE calls' = [calls EXCEPT ![c] = Started(BucketServiceSettings, k, NoPayload, "purge")]
    BY <1>1, <1>2 DEF Started
  <1>3. CASE Return(c, "failed")
    BY <1>1, <1>3, ReturnType DEF Answer, Active
  <1>4. QED
    BY <1>2, <1>3 DEF DeleteKey, Begin

LEMMA PublishBegun ==
  ASSUME Standing, NEW c \in Caller, NEW k, NEW p, PublishServiceSettings(c, k, p)
  PROVE  calls'[c].pc \in Active => calls'[c].key = k /\ calls'[c].payload = p
  <1>1. calls \in [Caller -> Call]
    BY StandingFacts
  <1>2. CASE calls' = [calls EXCEPT ![c] = Started(BucketServiceSettings, k, p, "get")]
    BY <1>1, <1>2 DEF Started
  <1>3. CASE Return(c, "failed")
    BY <1>1, <1>3, ReturnType DEF Answer, Active
  <1>4. QED
    BY <1>2, <1>3 DEF PublishServiceSettings, PublishDocument, Begin

(* A request that is about to leave a key, or to publish under another.    *)
LEMMA LeavesBegun ==
  ASSUME Passes, Renews, Base', NEW c \in Request, NEW k, reqs'[c].prev = k,
         reqs'[c].pc \in {"publishing", "purging"},
         reqs'[c].pc = "purging" \/ k # reqs'[c].key =>
            \A id \in RowId : rows'[id] = rows[id] /\ Under(id, k) => Young(id, c)
  PROVE  Leaves(c)'
  <1> SUFFICES ASSUME NEW id \in RowId, Under(id, reqs[c].prev)',
                      reqs'[c].pc = "purging" \/ k # reqs'[c].key
               PROVE  Young(id, c)'
    BY DEF Leaves
  <1>1. c \in Caller /\ Pending(c)'
    BY RequestAssumption, UnderWayNext
  <1>2. Exists(id)' /\ rows'[id].key = k
    BY DEF Under
  <1>3. CASE rows'[id] # rows[id]
    BY <1>1, <1>2, <1>3 DEF Renews
  <1>4. CASE rows'[id] = rows[id]
    <2>1. Under(id, k)
      BY <1>2, <1>4 DEF Exists, Under
    <2>2. QED
      BY <1>1, <1>4, <2>1 DEF Passes
  <1>5. QED
    BY <1>3, <1>4

(* A delete purges the key it read, its row gone: another row under that   *)
(* key is a younger one.                                                   *)
LEMMA ExecWindow ==
  ASSUME Standing, Standing', WindowInv, Noted, NEW c \in Request, OnlyRequest(c), Exec(c)
  PROVE  WindowInv'
  <1>1. c \in Caller /\ c # Rec /\ reqs \in [Request -> Req] /\ reqs[c] \in Req
    BY RequestAssumption, RecCaller, StandingFacts
  <1>2. /\ reqs[c].pc = "exec" /\ reqs[c].op \in {"create", "update", "delete"}
        /\ Renews /\ RowsApart'
        /\ reqs[c].op = "delete" => \A id \in RowId : Exists(id)' => id # reqs[c].id
    BY CommitWindow DEF Exec, OnlyRequest, WindowInv, Base
  <1>3. Passes
    BY UntimedPasses DEF OnlyRequest
  <1>4. CASE reqs[c].op # "delete" /\ Goto(c, "readback") /\ UNCHANGED pubVars
    <2>1. /\ reqs'[c].pc = "readback" /\ reqs'[c].op = reqs[c].op
          /\ reqs'[c].prev = reqs[c].prev /\ reqs'[c].id = reqs[c].id
      BY <1>1, <1>4 DEF Goto, Req
    <2>2. UNCHANGED calls /\ calls[c].pc \notin Active
      BY <1>2, <1>4, RequestIdle DEF pubVars
    <2>3. Errand(c)'
      BY <1>1, <1>2, <1>4, <2>1, <2>2 DEF Errand, WindowInv, Base
    <2>4. Base' => Leaves(c)'
      BY <1>2, <1>3, <2>1, LeavesAside DEF WindowInv
    <2>5. Base' => Carries(c)'
      BY <1>1, <1>2, <1>3, <2>2, CarriesAside DEF WindowInv, OnlyRequest
    <2>6. QED
      BY <1>2, <2>3, <2>4, <2>5, RequestWindow
  <1>5. CASE reqs[c].op = "delete" /\ DeleteKey(c, BucketServiceSettings, reqs[c].prev)
             /\ Goto(c, "purging")
    <2> DEFINE k == reqs[c].prev
    <2>1. reqs'[c].pc = "purging" /\ reqs'[c].op = "delete" /\ reqs'[c].prev = k
      BY <1>1, <1>5 DEF Goto, Req
    <2>2. calls'[c].pc \in Active => calls'[c].key = k /\ calls'[c].payload = NoPayload
      BY <1>1, <1>5, PurgeBegun
    <2>3. Errand(c)'
      BY <1>1, <2>1 DEF Errand
    <2>4. ASSUME NEW id \in RowId, rows'[id] = rows[id], Under(id, k) PROVE Young(id, c)
      <3>1. id # reqs[c].id
        BY <1>2, <1>5, <2>4 DEF Under, Exists
      <3>2. QED
        BY <1>2, <2>4, <3>1 DEF WindowInv, Leaves
    <2> HIDE DEF k
    <2>5. Base' => Leaves(c)'
      BY <1>2, <1>3, <2>1, <2>4, LeavesBegun
    <2>6. Base' => Carries(c)'
      BY <1>1, <1>2, <1>3, <2>2, <2>4, CarriesBegun DEF WindowInv, OnlyRequest
    <2>7. QED
      BY <1>2, <2>3, <2>5, <2>6, RequestWindow
  <1>6. QED
    BY <1>4, <1>5 DEF Exec

(* What the request publishes is what the row says now.                    *)
LEMMA ReadBackWindow ==
  ASSUME Standing, WindowInv, Noted, NEW c \in Request, OnlyRequest(c), ReadBack(c)
  PROVE  WindowInv'
  <1> DEFINE r == reqs[c]
  <1>1. /\ c \in Caller /\ c # Rec /\ reqs \in [Request -> Req] /\ r \in Req
        /\ r.pc = "readback" /\ UNCHANGED rows
    BY RequestAssumption, RecCaller, StandingFacts DEF ReadBack
  <1>2. Passes /\ Renews /\ RowsApart' /\ RowsApart
    BY <1>1, UntimedPasses, SameRenews, SameApart DEF WindowInv, Base, OnlyRequest
  <1>3. r.op \in {"create", "update"} /\ (r.op = "create" => r.prev = NoKey)
    BY <1>1 DEF WindowInv, Base, Errand
  <1>4. CASE Finish(c) /\ UNCHANGED pubVars
    BY <1>1, <1>2, <1>4, RequestIdle, FinishWindow DEF pubVars
  <1>5. ASSUME NEW x \in RowId, Exists(x), r.op = "update" => x = r.id,
               PublishServiceSettings(c, rows[x].key, rows[x].doc),
               reqs' = [reqs EXCEPT ![c].pc = "publishing", ![c].key = rows[x].key]
        PROVE  WindowInv'
    <2> DEFINE k == rows[x].key
               p == rows[x].doc
               n == [r EXCEPT !.pc = "publishing", !.key = k]
    <2>1. reqs' = [reqs EXCEPT ![c] = n]
      BY <1>5
    <2>2. n.pc = "publishing" /\ n.key = k /\ n.op = r.op /\ n.prev = r.prev
      BY <1>1 DEF Req
    <2> HIDE DEF n
    <2>3. reqs'[c] = n
      BY <1>1, <2>1
    <2>4. Errand(c)'
      BY <1>1, <1>3, <2>2, <2>3 DEF Errand
    <2>5. calls'[c].pc \in Active => calls'[c].key = k /\ calls'[c].payload = p
      BY <1>1, <1>5, PublishBegun
    <2>6. \A id \in RowId : ~(Under(id, k) /\ rows[id].doc # p)
      BY <1>2, <1>5 DEF Under, RowsApart
    <2>7. ASSUME NEW id \in RowId, Under(id, r.prev), r.prev # k PROVE Young(id, c)
      <3>1. r.op = "update"
        BY <1>3, <2>7, RowOf DEF Under
      <3>2. id # r.id
        BY <1>5, <2>7, <3>1 DEF Under
      <3>3. QED
        BY <1>1, <2>7, <3>2 DEF WindowInv, Leaves
    <2> HIDE DEF k, p
    <2>8. Base' => Leaves(c)'
      BY <1>2, <2>2, <2>3, <2>7, LeavesBegun
    <2>9. Base' => Carries(c)'
      BY <1>1, <1>2, <2>5, <2>6, CarriesBegun DEF WindowInv, OnlyRequest
    <2>10. QED
      BY <1>2, <2>4, <2>8, <2>9, RequestWindow
  <1>6. QED
    BY <1>4, <1>5 DEF ReadBack

(* An update that moved its row purges the key it left: a row that has     *)
(* taken the key since is a younger one.                                   *)
LEMMA AfterPublishWindow ==
  ASSUME Standing, WindowInv, Noted, NEW c \in Request, OnlyRequest(c),
         AfterPublish(c) \/ AfterPurge(c)
  PROVE  WindowInv'
  <1>1. /\ c \in Caller /\ c # Rec /\ reqs \in [Request -> Req] /\ reqs[c] \in Req
        /\ calls \in [Caller -> Call] /\ UNCHANGED rows
    BY RequestAssumption, RecCaller, StandingFacts DEF AfterPublish, AfterPurge
  <1>2. Passes /\ Renews /\ RowsApart'
    BY <1>1, UntimedPasses, SameRenews, SameApart DEF WindowInv, Base, OnlyRequest
  <1>3. CASE Taken(c) /\ Finish(c)
    <2>1. calls'[c].pc \notin Active
      BY <1>1, <1>3, ReturnType DEF Taken, Answer, Active
    <2>2. QED
      BY <1>2, <1>3, <2>1, FinishWindow
  <1>4. CASE /\ reqs[c].pc = "publishing" /\ Moved(c)
             /\ DeleteKey(c, BucketServiceSettings, reqs[c].prev) /\ Goto(c, "purging")
    <2> DEFINE k == reqs[c].prev
    <2>1. reqs'[c].pc = "purging" /\ reqs'[c].op = "update" /\ reqs'[c].prev = k
      BY <1>1, <1>4 DEF Goto, Req, Moved
    <2>2. calls'[c].pc \in Active => calls'[c].key = k /\ calls'[c].payload = NoPayload
      BY <1>1, <1>4, PurgeBegun
    <2>3. Errand(c)'
      BY <1>1, <2>1 DEF Errand
    <2>4. \A id \in RowId : Under(id, k) => Young(id, c)
      BY <1>4 DEF WindowInv, Leaves, Moved
    <2> HIDE DEF k
    <2>5. Base' => Leaves(c)'
      BY <1>2, <2>1, <2>4, LeavesBegun
    <2>6. Base' => Carries(c)'
      BY <1>1, <1>2, <2>2, <2>4, CarriesBegun DEF WindowInv, OnlyRequest
    <2>7. QED
      BY <1>2, <2>3, <2>5, <2>6, RequestWindow
  <1>5. QED
    BY <1>3, <1>4 DEF AfterPublish, AfterPurge

LEMMA DatabaseFailsWindow ==
  ASSUME Standing, Standing', WindowInv, Noted, NEW c \in Request, OnlyRequest(c),
         DatabaseFails(c)
  PROVE  WindowInv'
  <1>1. Finish(c) /\ UNCHANGED calls
    BY DEF DatabaseFails, pubVars
  <1>2. CASE Commit(c)
    <2>1. reqs[c].pc = "exec" /\ Renews /\ RowsApart'
      BY <1>2, CommitWindow DEF OnlyRequest, WindowInv, Base
    <2>2. QED
      BY <1>1, <2>1, RequestIdle, FinishWindow
  <1>3. CASE reqs[c].pc \in {"previous", "check", "exec", "readback"} /\ UNCHANGED rows
    BY <1>1, <1>3, RequestIdle, SameRenews, SameApart, FinishWindow DEF WindowInv, Base
  <1>4. QED
    BY <1>2, <1>3 DEF DatabaseFails

LEMMA RequestsWindow ==
  ASSUME Standing, Standing', WindowInv, Noted, NEW c \in Request,
         RequestMoves(c) \/ RequestLost(c)
  PROVE  WindowInv'
  <1>1. OnlyRequest(c)
    BY RequestAlone
  <1>2. QED
    BY <1>1, ArrivalWindow, ReadPreviousWindow, CheckWindow, ExecWindow, ReadBackWindow,
       AfterPublishWindow, DatabaseFailsWindow DEF RequestMoves, RequestLost, RequestStep

-----------------------------------------------------------------------------
(* A crash, the clock, and the whole.                                      *)

(* A process that starts again reads every row.                            *)
LEMMA RecCrashWindow ==
  ASSUME Standing, WindowInv, Noted, RecCrash
  PROVE  WindowInv'
  <1>1. /\ UNCHANGED <<rows, kv, clock, late>> /\ lastRun' = 0 /\ sweep' = NoSweep
        /\ \A c \in Caller : calls'[c].pc = "idle"
        /\ \A c \in Request : reqs'[c] = NoReq
    BY DEF RecCrash, Crash, Restart, NoCall
  <1>2. sweep'.pc = "idle" /\ sweep'.todo = <<>>
    BY <1>1 DEF NoSweep
  <1>3. Passes /\ Renews /\ RowsApart'
    BY <1>1, UntimedPasses, SameRenews, SameApart DEF WindowInv, Base
  <1>4. \A c \in Caller : Patient(c)'
    BY <1>1, PatientNext DEF WindowInv
  <1>5. \A c \in Caller : Errand(c)'
    BY <1>1 DEF Errand, Active, NoReq
  <1>6. Sweeper' /\ Anchored'
    BY <1>1, <1>2, RecCaller DEF Sweeper, Anchored
  <1>7. Base'
    BY <1>3, <1>4, <1>5, <1>6 DEF Base
  <1>8. \A c \in Request : Leaves(c)'
    BY <1>1, LeavesNothing DEF NoReq
  <1>9. \A c \in Caller : Carries(c)'
    BY <1>1, <1>3, <1>7, CarriesAside DEF WindowInv, Active
  <1>10. Reads'
    BY <1>1, <1>2, <1>7, ReadsNothing
  <1>11. Covered'
    <2> SUFFICES ASSUME NEW id \in RowId, Exists(id)' PROVE Since(id, lastRun)'
      BY <1>2 DEF Covered, Distributing
    <2>1. rows'[id].at \in Nat /\ Overlap \in Nat
      BY <1>1, RowOf, SweepAssumption DEF Exists
    <2>2. QED
      BY <1>1, <2>1 DEF Since
  <1>12. QED
    BY <1>7, <1>8, <1>9, <1>10, <1>11 DEF WindowInv

(* The clock waits for what is under way.                                  *)
LEMMA RecTickWindow ==
  ASSUME Standing, WindowInv, RecTick
  PROVE  WindowInv'
  <1>1. /\ UNCHANGED <<rows, reqs, kv, late, calls, sweep, lastRun>>
        /\ MaxStall \in Nat /\ age \in [Caller -> 0..(MaxStall + 1)]
    BY StandingFacts, StallAssumption DEF RecTick, Tick, ssVars
  <1>2. Passes /\ Renews /\ RowsApart'
    BY <1>1, TickPasses, SameRenews, SameApart DEF WindowInv, Base
  <1>3. ASSUME NEW c \in Caller PROVE Patient(c)'
    <2>1. (Ageing(c)' <=> Ageing(c)) /\ (Pending(c)' <=> Pending(c))
      BY <1>1 DEF Ageing, Pending, Idle
    <2>2. /\ age[c] \in Nat
          /\ age'[c] = IF Ageing(c) /\ age[c] <= MaxStall THEN age[c] + 1 ELSE age[c]
          /\ Pending(c) => age[c] < MaxStall
      BY <1>1 DEF RecTick
    <2>3. ~Ageing(c) => age[c] = 0
      BY DEF WindowInv, Base, Patient
    <2>4. Pending(c) => age'[c] <= MaxStall
      BY <1>1, <2>2
    <2>5. QED
      BY <2>1, <2>2, <2>3, <2>4 DEF Patient
  <1>4. \A c \in Caller : CallKept(c) /\ Errand(c)'
    BY <1>1, ErrandAside DEF WindowInv, Base, CallKept
  <1>5. Sweeper' /\ Anchored'
    BY <1>1, <1>4, RecCaller, SweeperAside DEF WindowInv, Base, Anchored
  <1>6. Base'
    BY <1>2, <1>3, <1>4, <1>5 DEF Base
  <1>7. \A c \in Request : Leaves(c)'
    BY <1>1, <1>2, <1>6, LeavesAside DEF WindowInv
  <1>8. \A c \in Caller : Carries(c)'
    BY <1>1, <1>2, <1>6, CarriesAside DEF WindowInv
  <1>9. Reads'
    BY <1>1, <1>2, <1>6, ReadsAside DEF WindowInv
  <1>10. ASSUME MaxStall <= Overlap PROVE Covered'
    <2>1. Lands(NoKey, NoPayload) /\ \A id \in RowId : ~Under(id, NoKey)
      BY <1>1, RowOf DEF Lands, SB, Under
    <2>2. \A id \in RowId : rows'[id] = rows[id] /\ ToCome(id) => ToCome(id)'
      BY <1>1 DEF ToCome
    <2>3. QED
      BY <1>1, <1>2, <1>10, <2>1, <2>2, CoveredAside DEF WindowInv
  <1>11. QED
    BY <1>6, <1>7, <1>8, <1>9, <1>10 DEF WindowInv

LEMMA CyclesWindow ==
  ASSUME Standing, WindowInv, Noted, Cycle
  PROVE  WindowInv'
  BY StartCycleWindow, SnapshotWindow, ListRowsWindow, SweepRowWindow, SweepRowDoneWindow,
     PruneWindow, PurgeStaleWindow, PurgeStaleDoneWindow, EndCycleWindow DEF Cycle

LEMMA StillWindow ==
  ASSUME WindowInv, UNCHANGED allVars
  PROVE  WindowInv'
  <1>1. UNCHANGED <<rows, reqs, calls, late, kv, clock, age, sweep, lastRun>>
    BY DEF allVars, vars, pubVars, ssVars, recVars
  <1>2. \A c \in Caller : Patient(c)' /\ Errand(c)' /\ Carries(c)'
    BY <1>1 DEF WindowInv, Base, Patient, Pending, Ageing, Idle, Errand, Carries, Recent, Young,
       Under, Exists
  <1>3. RowsApart' /\ Anchored' /\ Sweeper'
    BY <1>1 DEF WindowInv, Base, RowsApart, Exists, Anchored, Sweeper
  <1>4. \A c \in Request : Leaves(c)'
    BY <1>1 DEF WindowInv, Leaves, Under, Exists, Young
  <1>5. Reads'
    BY <1>1 DEF WindowInv, Reads, Exists, Recent, Young, Queued
  <1>6. Covered => Covered'
    BY <1>1 DEF Covered, Exists, Off, SB, Since, ToCome
  <1>7. QED
    BY <1>2, <1>3, <1>4, <1>5, <1>6 DEF WindowInv, Base

LEMMA WindowNext ==
  Standing /\ Standing' /\ WindowInv /\ [RecNext]_allVars => WindowInv'
  <1> SUFFICES ASSUME Standing, Standing', WindowInv, [RecNext]_allVars PROVE WindowInv'
    OBVIOUS
  <1>1. CASE Cycle /\ Noted
    BY <1>1, CyclesWindow
  <1>2. CASE (\E c \in Caller : Exchanged(c) \/ ExchangeLost(c) \/ Deliver(c)) /\ Noted
    BY <1>2, ExchangeWindow
  <1>3. CASE (\E c \in Request : RequestMoves(c) \/ RequestLost(c)) /\ Noted
    BY <1>3, RequestsWindow
  <1>4. CASE RecCrash /\ Noted
    BY <1>4, RecCrashWindow
  <1>5. CASE RecTick
    BY <1>5, RecTickWindow
  <1>6. CASE UNCHANGED allVars
    BY <1>6, StillWindow
  <1>7. QED
    BY <1>1, <1>2, <1>3, <1>4, <1>5, <1>6 DEF RecNext, Untimed

LEMMA WindowInit == RecInit => Standing /\ WindowInv
  <1> SUFFICES ASSUME RecInit PROVE Standing /\ WindowInv
    OBVIOUS
  <1>1. RecInv /\ Init
    BY RecInitInv
  <1>2. Carried
    BY <1>1, InitMapped DEF RecInv, RequestInv, RefInv, Mapped
  <1>3. /\ \A id \in RowId : ~Exists(id)
        /\ \A c \in Request : reqs[c] = NoReq
        /\ \A c \in Caller : calls[c] = NoCall /\ late[c] = NoMessage /\ age[c] = 0
        /\ sweep = NoSweep
    BY DEF RecInit, SSInit, Init, Exists
  <1>4. sweep.pc = "idle" /\ sweep.todo = <<>>
    BY <1>3 DEF NoSweep
  <1>5. \A c \in Caller : Patient(c)
    BY <1>3, StallAssumption DEF Patient
  <1>6. \A c \in Caller : calls[c].pc = "idle" /\ late[c].kind = "none"
    BY <1>3 DEF NoCall, NoMessage
  <1>7. \A c \in Caller : Errand(c)
    BY <1>3, <1>6 DEF Errand, Active, NoReq
  <1>8. RowsApart /\ Anchored /\ Sweeper
    BY <1>3, <1>4, <1>6, RecCaller DEF RowsApart, Anchored, Sweeper
  <1>9. (\A c \in Caller : Carries(c)) /\ (\A c \in Request : Leaves(c))
    BY <1>3 DEF Carries, Leaves, Under
  <1>10. Reads /\ Covered
    BY <1>3 DEF Reads, Covered
  <1>11. QED
    BY <1>1, <1>2, <1>5, <1>7, <1>8, <1>9, <1>10 DEF Standing, WindowInv, Base

LEMMA WindowDrift == Standing /\ WindowInv => WindowCoversDrift
  <1> SUFFICES ASSUME Standing, WindowInv, MaxStall <= Overlap, NEW id \in RowId, Exists(id),
                      ~Mirrored(rows[id].key)
               PROVE  rows[id].at >= lastRun - Overlap
    BY DEF WindowCoversDrift
  <1>1. id \in Backing(rows[id].key)
    BY DEF Backing
  <1>2. Off(id)
    BY <1>1 DEF Mirrored, Off, SB
  <1>3. QED
    BY <1>2 DEF WindowInv, Covered, Since

(* WindowCoversDrift: a row consumers do not see as the database has it    *)
(* lies in the window of the next sweep.  A write or a purge that could    *)
(* undo the publish of a row is younger than the row's last commit by no   *)
(* more than what is under way can last, and a clean sweep has published   *)
(* every other row it read, or still holds it.                             *)
THEOREM WindowCovers == RecSpec => []WindowCoversDrift
  <1>1. RecInit => Standing /\ WindowInv
    BY WindowInit
  <1>2. Standing /\ WindowInv /\ [RecNext]_allVars => (Standing /\ WindowInv)'
    BY StandingNext, WindowNext
  <1>3. Standing /\ WindowInv => WindowCoversDrift
    BY WindowDrift
  <1>4. QED
    BY <1>1, <1>2, <1>3, PTL DEF RecSpec
=============================================================================
