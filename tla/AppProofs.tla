----------------------------- MODULE AppProofs -----------------------------
(***************************************************************************)
(* Proofs about App: the requests of Gateway inside the process, for every *)
(* set of slots and environments, every scope and every budget.  The       *)
(* limiter's part is taken from LimiterProofs.                             *)
(***************************************************************************)
EXTENDS App, LimiterProofs

Request == [pc : {"idle", "guard", "target", "handler", "audit"},
            cred : Credential, write : Write, envs : SUBSET Env,
            raced : BOOLEAN, n : Nat]

Phases == {"starting", "opening", "connecting", "serving", "stopping",
           "shutdown", "draining", "closing", "closed", "exited"}

Busy(s) == inflight[s].pc # "idle"

-----------------------------------------------------------------------------
(* The inductive invariant, in parts.                                      *)

(* What is where: AppTypeOK with the types of the ghosts, and without the  *)
(* limiter.                                                                *)
Typed ==
    /\ phase \in Phases
    /\ tokens \subseteq TokenName /\ meant \in BOOLEAN
    /\ rows \in [Row -> Env \cup {0}]
    /\ inflight \in [Slot -> Request]
    /\ issued \in Nat /\ admitted \in Nat
    /\ trail \subseteq [n : 1..issued, env : Env \cup {0}]
    /\ dbOpen \in BOOLEAN /\ looping \in BOOLEAN

(* A number belongs to one request at most, and not to one in flight and a *)
(* record.                                                                 *)
Numbered ==
    /\ \A s \in Slot : ~Busy(s) => inflight[s].n = 0
    /\ \A s \in Slot : Busy(s) => inflight[s].n \in 1..issued
    /\ \A s, t \in Slot : Busy(s) /\ Busy(t) /\ inflight[s].n = inflight[t].n => s = t
    /\ \A e \in trail, s \in Slot : Busy(s) => inflight[s].n # e.n

(* What the guard established about a write of the narrow token that has   *)
(* not been overtaken since: where the row lives, and where it is sent.    *)
InScopeStill(w) ==
    /\ w.class # "global"
    /\ w.class \in {"envBody", "envPath"} => w.env \in NarrowScope
    /\ w.class \in {"update", "delete"} => rows[w.row] \in NarrowScope \cup {0}
    /\ w.class = "update" /\ movesEnvironment(w.row) => w.env \in NarrowScope \cup {0}

Cleared ==
    \A s \in Slot :
       inflight[s].pc = "handler" /\ Actor(inflight[s].cred) = "narrow" /\ ~inflight[s].raced
       => InScopeStill(inflight[s].write)

(* Which phases have requests and a reconciler, and what was settled about *)
(* authentication before the first request.                                *)
Lifecycle ==
    /\ \A s \in Slot : Busy(s) => Running
    /\ phase \in {"shutdown", "draining", "closing", "closed"} => ~looping
    /\ phase \notin {"starting", "exited"} /\ tokens = {} => ~meant

(* The keys a server behind one proxy charges.                             *)
ProxyKey == {addressKey(Proxy), anonymousKey(Proxy), tokenKey("narrow"), tokenKey("shared")}

(* While the process lives its table mirrors the ideal limiter, and of the *)
(* budget of the address exactly the admitted writes are spent.            *)
Budget ==
    /\ LimiterTypeOK
    /\ phase # "exited" =>
         /\ LimiterInv
         /\ DOMAIN buckets \subseteq ProxyKey
         /\ ideal[addressKey(Proxy)] = Capacity - admitted

Accounted == Numbered /\ EveryWriteIsOnRecord

AppInv == Typed /\ Accounted /\ Cleared /\ Lifecycle /\ Budget

-----------------------------------------------------------------------------
(* The operators the requests are built from.                              *)

LEMMA ProxyIsAnAddress == Proxy \in Address
  BY ProxyAssumption DEF Proxy

LEMMA ProxyKeyCalls ==
  /\ ProxyKey \subseteq CallerKey
  /\ addressKey(Proxy) # overflowKey
  /\ \A k \in ProxyKey \ {addressKey(Proxy)} : k # addressKey(Proxy)
  BY ProxyIsAnAddress, TokenAssumption
  DEF ProxyKey, CallerKey, addressKey, anonymousKey, tokenKey, overflowKey

LEMMA NoWriteTyped == NoWrite \in Request /\ NoWrite.pc = "idle" /\ NoWrite.n = 0
  BY DEF NoWrite, Request, Credential, Write, Class, Row

(* Over keeps a request what it is, up to its number.                      *)
LEMMA OverTyped ==
  ASSUME NEW r \in Request, NEW envs \in SUBSET Env
  PROVE  Over(r, envs) \in Request /\ Over(r, envs).n = r.n /\ Over(r, envs).pc = "audit"
  <1>1. NoWrite.write \in Write
    BY DEF NoWrite, Write, Class, Row
  <1>2. QED
    BY <1>1 DEF Over, Request

LEMMA ScopeTyped == NarrowScope \subseteq Env /\ 0 \notin NarrowScope /\ 0 \notin Env
  BY ScopeAssumption

(* The environments of a target are environments.                          *)
LEMMA ResolveTyped ==
  ASSUME NEW w \in Write, NEW env \in Env \cup {0}
  PROVE  resolveTarget(w, env).envs \in SUBSET Env
  BY DEF resolveTarget, Global, Targets, Write

(* What allows means for the narrow token and a row that lives in env.     *)
LEMMA AllowsNarrow ==
  ASSUME NEW w \in Write, NEW env \in Env \cup {0},
         allows("narrow", resolveTarget(w, env))
  PROVE  /\ w.class # "global"
         /\ w.class \in {"envBody", "envPath"} => w.env \in NarrowScope
         /\ w.class \in {"update", "delete"} => env \in NarrowScope
         /\ w.class = "update" /\ movesEnvironment(w.row) => w.env \in NarrowScope \cup {0}
  BY DEF resolveTarget, Global, Targets, Write, allows, FullScope, Class

(* A handler changes the row of its write and no other.                    *)
LEMMA EffectTyped ==
  ASSUME NEW w \in Write, rows \in [Row -> Env \cup {0}], NEW after \in Effect(w)
  PROVE  /\ after \in [Row -> Env \cup {0}]
         /\ \A q \in Row \ {w.row} : after[q] = rows[q]
  BY DEF Effect, Write, Class

(* What a write that goes through reaches is what the guard looked at.     *)
LEMMA ReachesCleared ==
  ASSUME NEW w \in Write, rows \in [Row -> Env \cup {0}], NEW after \in Effect(w),
         InScopeStill(w)
  PROVE  Reaches(w) \subseteq NarrowScope
  BY DEF Effect, Write, Class, InScopeStill, Reaches

(* The record of a request has its number and an environment or none.      *)
LEMMA EntryTyped ==
  ASSUME NEW s \in Slot, inflight[s] \in Request
  PROVE  Entry(s).n = inflight[s].n /\ Entry(s).env \in Env \cup {0}
         /\ Entry(s) \in [n : {inflight[s].n}, env : Env \cup {0}]
  <1>1. inflight[s].envs \in SUBSET Env
    BY DEF Request
  <1>2. Cardinality(inflight[s].envs) = 1 => inflight[s].envs # {}
    BY FS_EmptySet
  <1>3. inflight[s].envs # {} => (CHOOSE e \in inflight[s].envs : TRUE) \in Env
    BY <1>1
  <1>4. QED
    BY <1>2, <1>3 DEF Entry

-----------------------------------------------------------------------------
(* The limiter's part of a step: nothing, or one call on a key of a server *)
(* behind one proxy.                                                       *)

Charges(k, cost) == allowCost(k, cost) \/ refuseCost(k, cost)

LEMMA CostTyped == anonymousCost \in Nat
  BY RateAssumption DEF anonymousCost, anonWriteCost, Least

LEMMA FourElements ==
  ASSUME NEW a, NEW b, NEW c, NEW d,
         a # b, a # c, a # d, b # c, b # d, c # d
  PROVE  IsFiniteSet({a, b, c, d}) /\ Cardinality({a, b, c, d}) = 4
  <1> DEFINE S1 == {a}
             S2 == S1 \cup {b}
             S3 == S2 \cup {c}
             S4 == S3 \cup {d}
  <1>1. IsFiniteSet(S1) /\ Cardinality(S1) = 1
    BY FS_Singleton
  <1>2. b \notin S1 /\ c \notin S2 /\ d \notin S3
    OBVIOUS
  <1>3. S4 = {a, b, c, d}
    OBVIOUS
  <1> HIDE DEF S1
  <1>4. IsFiniteSet(S2) /\ Cardinality(S2) = 2
    BY <1>1, <1>2, FS_AddElement
  <1> HIDE DEF S2
  <1>5. IsFiniteSet(S3) /\ Cardinality(S3) = 3
    BY <1>2, <1>4, FS_AddElement
  <1> HIDE DEF S3
  <1>6. IsFiniteSet(S4) /\ Cardinality(S4) = 4
    BY <1>2, <1>5, FS_AddElement
  <1>7. QED
    BY <1>3, <1>6

(* A server behind one proxy never needs the overflow bucket.              *)
LEMMA OwnBucket ==
  ASSUME LimiterInv, DOMAIN buckets \subseteq ProxyKey, NEW k \in ProxyKey
  PROVE  Charged(k) = k
  <1> SUFFICES ASSUME k \notin DOMAIN buckets PROVE ~(Cardinality(DOMAIN Swept(k)) >= maxBuckets)
    BY DEF Charged
  <1> DEFINE a == addressKey(Proxy)
             b == anonymousKey(Proxy)
             c == tokenKey("narrow")
             d == tokenKey("shared")
             E == DOMAIN Swept(k)
  <1>1. E \subseteq ProxyKey \ {k}
    BY SweptKeeps, ProxyKeyCalls
  <1>2. a # b /\ a # c /\ a # d /\ b # c /\ b # d /\ c # d
    BY DEF addressKey, anonymousKey, tokenKey
  <1>3. ProxyKey = {a, b, c, d}
    BY DEF ProxyKey
  <1> HIDE DEF a, b, c, d
  <1>4. IsFiniteSet(ProxyKey) /\ Cardinality(ProxyKey) = 4
    BY <1>2, <1>3, FourElements
  <1>5. IsFiniteSet(ProxyKey \ {k}) /\ Cardinality(ProxyKey \ {k}) = 3
    BY <1>4, FS_RemoveElement
  <1>6. IsFiniteSet(E) /\ Cardinality(E) <= 3
    BY <1>1, <1>5, FS_Subset
  <1>7. Cardinality(E) \in Nat
    BY <1>6, FS_CardinalityType
  <1>8. QED
    BY <1>6, <1>7, ProxyAssumption, TableAssumption

(* One call keeps the mirror and takes its cost, if allowed, from its own  *)
(* key only.                                                               *)
LEMMA ChargeKeeps ==
  ASSUME LimiterInv, DOMAIN buckets \subseteq ProxyKey, NEW k \in ProxyKey,
         NEW cost \in Nat, Charges(k, cost)
  PROVE  /\ LimiterInv'
         /\ DOMAIN buckets' \subseteq ProxyKey
         /\ \A j \in ProxyKey : ideal'[j] = IF j = k /\ allowCost(k, cost)
                                             THEN ideal[j] - cost ELSE ideal[j]
  <1>1. k \in CallerKey
    BY ProxyKeyCalls
  <1>2. LimiterInv'
    BY <1>1, AllowPreserves, RefusePreserves DEF Charges
  <1>3. Charged(k) = k
    BY OwnBucket
  <1>4. DOMAIN buckets' = DOMAIN Swept(k) \cup {k}
    BY <1>3 DEF Charges, allowCost, refuseCost, Store
  <1>5. DOMAIN buckets' \subseteq ProxyKey
    BY <1>1, <1>4, SweptKeeps
  <1>6. DOMAIN ideal = BucketKey /\ ProxyKey \subseteq BucketKey
    BY ProxyKeyCalls DEF LimiterInv, LimiterTypeOK, BucketKey
  <1>7. allowCost(k, cost) => ideal' = [ideal EXCEPT ![k] = @ - cost]
    BY <1>3 DEF allowCost
  <1>8. ~allowCost(k, cost) => ideal' = ideal
    BY DEF Charges, refuseCost
  <1>9. QED
    BY <1>2, <1>5, <1>6, <1>7, <1>8

(* allowCost and refuseCost exclude each other.                            *)
LEMMA AllowsOrRefuses ==
  ASSUME NEW k, NEW cost
  PROVE  ~(allowCost(k, cost) /\ refuseCost(k, cost))
  BY DEF allowCost, refuseCost

(* Budget survives every step that charges a key other than the address.   *)
LEMMA BudgetElsewhere ==
  ASSUME Budget, phase # "exited", phase' = phase, admitted' = admitted,
         \/ UNCHANGED limiterVars
         \/ \E k \in ProxyKey \ {addressKey(Proxy)}, cost \in Nat : Charges(k, cost)
         \/ \E cost \in Nat : refuseCost(addressKey(Proxy), cost)
  PROVE  Budget'
  <1>1. LimiterInv /\ DOMAIN buckets \subseteq ProxyKey /\ ideal[addressKey(Proxy)] = Capacity - admitted
    BY DEF Budget
  <1>2. CASE UNCHANGED limiterVars
    BY <1>1, <1>2 DEF limiterVars, Budget, LimiterInv, LimiterTypeOK, Mirrors, HasRoom, Available
  <1>3. addressKey(Proxy) \in ProxyKey
    BY DEF ProxyKey
  <1>4. ASSUME NEW k \in ProxyKey \ {addressKey(Proxy)}, NEW cost \in Nat, Charges(k, cost)
        PROVE  Budget'
    <2>1. LimiterInv' /\ DOMAIN buckets' \subseteq ProxyKey /\ ideal'[addressKey(Proxy)] = ideal[addressKey(Proxy)]
      BY <1>1, <1>3, <1>4, ChargeKeeps
    <2>2. QED
      BY <1>1, <2>1 DEF Budget, LimiterInv
  <1>5. ASSUME NEW cost \in Nat, refuseCost(addressKey(Proxy), cost)
        PROVE  Budget'
    <2>1. Charges(addressKey(Proxy), cost) /\ ~allowCost(addressKey(Proxy), cost)
      BY <1>5, AllowsOrRefuses DEF Charges
    <2>2. LimiterInv' /\ DOMAIN buckets' \subseteq ProxyKey /\ ideal'[addressKey(Proxy)] = ideal[addressKey(Proxy)]
      BY <1>1, <1>3, <2>1, ChargeKeeps
    <2>3. QED
      BY <1>1, <2>2 DEF Budget, LimiterInv
  <1>6. QED
    BY <1>2, <1>4, <1>5

(* Of a write the edge lets through, the address pays one if a credential  *)
(* came with it and nothing otherwise.                                     *)
LEMMA BudgetAdmits ==
  ASSUME Budget, phase # "exited", phase' = phase, NEW cred, EdgeAdmits(cred), admitted \in Nat,
         admitted' = IF presentsCredential(cred) THEN admitted + 1 ELSE admitted
  PROVE  Budget'
  <1> DEFINE a == addressKey(Proxy)
  <1>1. LimiterInv /\ DOMAIN buckets \subseteq ProxyKey /\ ideal[a] = Capacity - admitted
    BY DEF Budget
  <1>2. a \in ProxyKey /\ anonymousKey(Proxy) \in ProxyKey \ {a}
    BY DEF ProxyKey, addressKey, anonymousKey
  <1>3. CASE presentsCredential(cred)
    <2>1. allowCost(a, 1) /\ Charges(a, 1)
      BY <1>3 DEF EdgeAdmits, allow, Charges
    <2>2. LimiterInv' /\ DOMAIN buckets' \subseteq ProxyKey /\ ideal'[a] = ideal[a] - 1
      BY <1>1, <1>2, <2>1, ChargeKeeps
    <2>3. ideal'[a] = Capacity - admitted'
      BY <1>1, <1>3, <2>2, RateAssumption
    <2>4. QED
      BY <2>2, <2>3 DEF Budget, LimiterInv
  <1>4. CASE ~presentsCredential(cred)
    <2>1. Charges(anonymousKey(Proxy), anonymousCost)
      BY <1>4 DEF EdgeAdmits, allowAnonymous, Charges
    <2>2. QED
      BY <1>2, <1>4, <2>1, CostTyped, BudgetElsewhere
  <1>5. QED
    BY <1>3, <1>4

-----------------------------------------------------------------------------
(* Numbers and records, by what becomes of a request.                      *)

(* Request t keeps its number and is in flight as before.                  *)
GoesOn(t) ==
    /\ inflight'[t].n = inflight[t].n
    /\ inflight'[t].pc = "idle" <=> inflight[t].pc = "idle"

LEMMA AccountsKept ==
  ASSUME Accounted, \A t \in Slot : GoesOn(t),
         issued' = issued, trail' = trail, lost' = lost
  PROVE  Accounted'
  BY DEF Accounted, Numbered, EveryWriteIsOnRecord, Busy, GoesOn

(* A request that takes a number takes a new one.                          *)
LEMMA AccountsOpened ==
  ASSUME Typed, Accounted, NEW s \in Slot, ~Busy(s),
         inflight'[s].n = issued + 1, inflight'[s].pc # "idle",
         \A t \in Slot \ {s} : GoesOn(t),
         issued' = issued + 1, trail' = trail, lost' = lost
  PROVE  Accounted'
  <1>1. issued \in Nat /\ \A e \in trail : e.n \in 1..issued
    BY DEF Typed
  <1>2. Numbered'
    <2>1. \A t \in Slot : ~Busy(t)' => inflight'[t].n = 0
      BY DEF Accounted, Numbered, Busy, GoesOn
    <2>2. \A t \in Slot : Busy(t)' => inflight'[t].n \in 1..issued'
      BY <1>1 DEF Accounted, Numbered, Busy, GoesOn
    <2>3. \A t, u \in Slot : Busy(t)' /\ Busy(u)' /\ inflight'[t].n = inflight'[u].n => t = u
      BY <1>1 DEF Accounted, Numbered, Busy, GoesOn
    <2>4. \A e \in trail', t \in Slot : Busy(t)' => inflight'[t].n # e.n
      BY <1>1 DEF Accounted, Numbered, Busy, GoesOn
    <2>5. QED
      BY <2>1, <2>2, <2>3, <2>4 DEF Numbered
  <1>3. ASSUME NEW n \in 1..issued'
        PROVE  n \in lost' \/ (\E t \in Slot : inflight'[t].n = n) \/ (\E e \in trail' : e.n = n)
    <2>1. CASE n = issued + 1
      BY <2>1
    <2>2. CASE n # issued + 1
      <3>1. n \in 1..issued /\ n # 0
        BY <1>1, <2>2
      <3>2. inflight[s].n = 0
        BY DEF Accounted, Numbered
      <3>3. QED
        BY <3>1, <3>2 DEF Accounted, EveryWriteIsOnRecord, GoesOn
    <2>3. QED
      BY <2>1, <2>2
  <1>4. QED
    BY <1>2, <1>3 DEF Accounted, EveryWriteIsOnRecord

(* A request that ends has its record, or is among the lost.               *)
LEMMA AccountsClosed ==
  ASSUME Typed, Accounted, NEW s \in Slot, Busy(s), inflight'[s] = NoWrite,
         \A t \in Slot \ {s} : GoesOn(t), issued' = issued,
         \/ trail' = trail /\ lost' = lost \cup {inflight[s].n}
         \/ trail' = trail \cup {Entry(s)} /\ lost' = lost
  PROVE  Accounted'
  <1>1. issued \in Nat /\ inflight[s] \in Request
    BY DEF Typed
  <1>2. Entry(s).n = inflight[s].n
    BY <1>1, EntryTyped
  <1>3. inflight'[s].n = 0 /\ inflight'[s].pc = "idle"
    BY NoWriteTyped
  <1>4. \A e \in trail' : e \in trail \/ e = Entry(s)
    OBVIOUS
  <1> HIDE DEF Entry
  <1>5. Numbered'
    <2>1. \A t \in Slot : ~Busy(t)' => inflight'[t].n = 0
      BY <1>3 DEF Accounted, Numbered, Busy, GoesOn
    <2>2. \A t \in Slot : Busy(t)' => inflight'[t].n \in 1..issued'
      BY <1>3 DEF Accounted, Numbered, Busy, GoesOn
    <2>3. \A t, u \in Slot : Busy(t)' /\ Busy(u)' /\ inflight'[t].n = inflight'[u].n => t = u
      BY <1>3 DEF Accounted, Numbered, Busy, GoesOn
    <2>4. \A e \in trail', t \in Slot : Busy(t)' => inflight'[t].n # e.n
      BY <1>2, <1>3, <1>4 DEF Accounted, Numbered, Busy, GoesOn
    <2>5. QED
      BY <2>1, <2>2, <2>3, <2>4 DEF Numbered
  <1>6. ASSUME NEW n \in 1..issued'
        PROVE  n \in lost' \/ (\E t \in Slot : inflight'[t].n = n) \/ (\E e \in trail' : e.n = n)
    <2>1. CASE n = inflight[s].n
      BY <1>2, <2>1
    <2>2. CASE n # inflight[s].n
      BY <2>2 DEF Accounted, EveryWriteIsOnRecord, GoesOn
    <2>3. QED
      BY <2>1, <2>2
  <1>7. \A e, f \in trail' : e.n = f.n => e = f
    BY <1>2, <1>4 DEF Accounted, Numbered, EveryWriteIsOnRecord
  <1>8. QED
    BY <1>5, <1>6, <1>7 DEF Accounted, EveryWriteIsOnRecord

-----------------------------------------------------------------------------
(* What the guard found out, by what becomes of the rows.                  *)

LEMMA ClearedKept ==
  ASSUME Cleared, rows' = rows, tokens' = tokens, NEW s \in Slot,
         \A t \in Slot \ {s} : inflight'[t] = inflight[t],
         inflight'[s].pc # "handler"
  PROVE  Cleared'
  BY DEF Cleared, InScopeStill, Actor

LEMMA RacedTyped ==
  ASSUME NEW r \in Request, NEW b \in BOOLEAN
  PROVE  LET q == [r EXCEPT !.raced = b]
         IN  /\ q \in Request /\ q.raced = b
             /\ q.pc = r.pc /\ q.cred = r.cred /\ q.write = r.write /\ q.n = r.n
  BY DEF Request

(* A write changes one row and marks the requests that had looked at it.   *)
LEMMA WrittenKeeps ==
  ASSUME Typed, Cleared, NEW s \in Slot, NEW own \in Request, own.pc # "handler",
         NEW after \in {rows} \cup Effect(inflight[s].write),
         Written(s, after, own), tokens' = tokens
  PROVE  /\ rows' \in [Row -> Env \cup {0}]
         /\ inflight' \in [Slot -> Request]
         /\ inflight'[s] = own
         /\ \A t \in Slot \ {s} : GoesOn(t)
         /\ Cleared'
  <1> DEFINE w == inflight[s].write
  <1>1. w \in Write /\ w.row \in Row
    BY DEF Typed, Request, Write
  <1>2. /\ after \in [Row -> Env \cup {0}]
        /\ \A q \in Row \ {w.row} : after[q] = rows[q]
    BY <1>1, EffectTyped DEF Typed
  <1>3. rows' = after /\ inflight'[s] = own
    BY DEF Written
  <1> DEFINE Sees(t) == inflight[t].pc = "handler" /\ inflight[t].write.row = w.row
  <1>4. ASSUME NEW t \in Slot \ {s}
        PROVE  /\ inflight'[t] \in Request /\ GoesOn(t)
               /\ inflight'[t].pc = inflight[t].pc /\ inflight'[t].cred = inflight[t].cred
               /\ inflight'[t].write = inflight[t].write
               /\ ~inflight'[t].raced => ~inflight[t].raced
               /\ ~inflight'[t].raced /\ Sees(t) => after[w.row] = rows[w.row]
    <2> DEFINE late == inflight[t].raced \/
                         /\ inflight[t].pc = "handler"
                         /\ inflight[t].write.row = w.row
                         /\ after[w.row] # rows[w.row]
    <2>1. inflight[t] \in Request
      BY DEF Typed
    <2>2. inflight'[t] = [inflight[t] EXCEPT !.raced = late]
      BY DEF Written
    <2>3. PICK b \in BOOLEAN :
            /\ inflight'[t] = [inflight[t] EXCEPT !.raced = b]
            /\ b = FALSE => ~inflight[t].raced
            /\ b = FALSE /\ Sees(t) => after[w.row] = rows[w.row]
      <3>1. /\ inflight'[t] = [inflight[t] EXCEPT !.raced = late]
            /\ late = FALSE => ~inflight[t].raced
            /\ late = FALSE /\ Sees(t) => after[w.row] = rows[w.row]
        BY <2>2
      <3>2. late \in BOOLEAN
        OBVIOUS
      <3> HIDE DEF late
      <3>3. QED
        BY <3>1, <3>2, Zenon
    <2>4. /\ inflight'[t] \in Request /\ inflight'[t].raced = b
          /\ inflight'[t].pc = inflight[t].pc /\ inflight'[t].cred = inflight[t].cred
          /\ inflight'[t].write = inflight[t].write /\ inflight'[t].n = inflight[t].n
      BY <2>1, <2>3, RacedTyped
    <2>5. ~inflight'[t].raced => b = FALSE
      BY <2>4, Zenon
    <2>6. GoesOn(t)
      BY <2>4 DEF GoesOn
    <2>7. QED
      BY <2>3, <2>4, <2>5, <2>6
  <1>5. inflight' \in [Slot -> Request]
    <2>1. DOMAIN inflight' = Slot /\ \A t \in Slot : inflight'[t] \in Request
      BY <1>3, <1>4 DEF Written
    <2>2. inflight' = [t \in Slot |-> inflight'[t]]
      BY DEF Written
    <2>3. QED
      BY <2>1, <2>2
  <1>6. Cleared'
    <2> SUFFICES ASSUME NEW t \in Slot, inflight'[t].pc = "handler", Actor(inflight[t].cred)' = "narrow",
                        ~inflight'[t].raced
                 PROVE  InScopeStill(inflight[t].write)'
      BY DEF Cleared
    <2>1. t # s
      BY <1>3
    <2>2. InScopeStill(inflight[t].write)
      BY <1>4, <2>1 DEF Cleared, Actor
    <2>3. inflight[t].write.row \in Row
      BY DEF Typed, Request, Write
    <2>4. rows'[inflight[t].write.row] = rows[inflight[t].write.row]
      BY <1>2, <1>3, <1>4, <2>1, <2>3
    <2>5. QED
      BY <1>4, <2>1, <2>2, <2>4 DEF InScopeStill
  <1>7. QED
    BY <1>2, <1>3, <1>4, <1>5, <1>6

-----------------------------------------------------------------------------
(* The steps of a request.                                                 *)

(* In these steps the process stays where it is.                           *)
Aside == UNCHANGED <<phase, tokens, meant, dbOpen, looping>>

LEMMA LifecycleKept ==
  ASSUME Lifecycle, Aside, Running
  PROVE  Lifecycle'
  BY DEF Lifecycle, Aside, Running, Busy

LEMMA AcceptingRuns == Accepting => Running
  BY DEF Accepting, Running

(* limitWrites answers 429, or the request finds no route.                 *)
LEMMA EdgeKeeps ==
  ASSUME AppInv, NEW s \in Slot, NEW cred \in Credential, UNCHANGED procVars,
         TurnAway(s, cred) \/ Unrouted(s, cred)
  PROVE  AppInv'
  <1>1. /\ Aside /\ Running /\ phase # "exited"
        /\ UNCHANGED <<rows, inflight, issued, trail, lost>>
    BY AcceptingRuns DEF TurnAway, Unrouted, gateVars, procVars, Aside, Running, Accepting
  <1>2. Budget'
    <2>1. CASE TurnAway(s, cred)
      <3>1. EdgeRefuses(cred) /\ admitted' = admitted /\ phase' = phase
        BY <2>1 DEF TurnAway, gateVars
      <3>2. anonymousKey(Proxy) \in ProxyKey \ {addressKey(Proxy)}
        BY DEF ProxyKey, addressKey, anonymousKey
      <3>3. \/ refuseCost(addressKey(Proxy), 1)
            \/ Charges(anonymousKey(Proxy), anonymousCost)
        BY <3>1 DEF EdgeRefuses, refuse, refuseAnonymous, Charges
      <3>4. QED
        BY <1>1, <3>1, <3>2, <3>3, CostTyped, BudgetElsewhere DEF AppInv
    <2>2. CASE Unrouted(s, cred)
      BY <1>1, <2>2, BudgetAdmits DEF Unrouted, AppInv, Typed
    <2>3. QED
      BY <2>1, <2>2
  <1>3. admitted' \in Nat
    BY DEF AppInv, Typed, TurnAway, Unrouted, gateVars
  <1>4. Typed'
    BY <1>1, <1>3 DEF AppInv, Typed, Aside
  <1>5. Accounted'
    BY <1>1, AccountsKept DEF AppInv, GoesOn
  <1>6. Cleared'
    BY <1>1 DEF AppInv, Cleared, InScopeStill, Actor, Aside
  <1>7. QED
    BY <1>1, <1>2, <1>4, <1>5, <1>6, LifecycleKept DEF AppInv

LEMMA ArriveKeeps ==
  ASSUME AppInv, NEW s \in Slot, NEW cred \in Credential, NEW w \in Writes,
         UNCHANGED procVars, Arrive(s, cred, w)
  PROVE  AppInv'
  <1> DEFINE c == lookup(cred)
             m == issued + 1
             r == [NoWrite EXCEPT !.pc = "guard", !.cred = c, !.write = w, !.n = m]
  <1>1. /\ Aside /\ Running /\ phase # "exited" /\ phase' = phase
        /\ UNCHANGED <<rows, trail, lost>> /\ issued' = m /\ issued \in Nat
    BY AcceptingRuns DEF Arrive, procVars, Aside, Running, Accepting, AppInv, Typed
  <1>2. c \in Credential /\ w \in Write /\ m \in Nat /\ NoWrite \in Request
    BY <1>1, NoWriteTyped DEF lookup, Credential, Writes
  <1>3. inflight' = [inflight EXCEPT ![s] = r]
    BY DEF Arrive
  <1>4. r \in Request /\ r.pc = "guard" /\ r.n = m
    <2> HIDE DEF c, m
    <2>1. QED
      BY <1>2 DEF Request
  <1> HIDE DEF r
  <1>5. /\ inflight' \in [Slot -> Request] /\ inflight'[s] = r
        /\ \A t \in Slot \ {s} : inflight'[t] = inflight[t]
    BY <1>3, <1>4 DEF AppInv, Typed
  <1>6. admitted' \in Nat
    BY DEF AppInv, Typed, Arrive
  <1>7. Typed'
    BY <1>1, <1>5, <1>6 DEF AppInv, Typed, Aside
  <1>8. Accounted'
    <2>1. ~Busy(s)
      BY DEF Arrive, Free, InFlight, Busy
    <2>2. \A t \in Slot \ {s} : GoesOn(t)
      BY <1>5 DEF GoesOn
    <2>3. QED
      BY <1>1, <1>4, <1>5, <2>1, <2>2, AccountsOpened DEF AppInv
  <1>9. Cleared'
    BY <1>1, <1>4, <1>5, ClearedKept DEF AppInv, Aside
  <1>10. Budget'
    BY <1>1, BudgetAdmits DEF AppInv, Typed, Arrive
  <1>11. QED
    BY <1>1, <1>7, <1>8, <1>9, <1>10, LifecycleKept DEF AppInv

(* A step in which one request goes on and the rows stay as they are.      *)
LEMMA OnwardKeeps ==
  ASSUME AppInv, NEW s \in Slot, NEW r \in Request, Running, Aside,
         inflight[s].pc # "idle", r.pc # "idle", r.n = inflight[s].n,
         inflight' = [inflight EXCEPT ![s] = r],
         UNCHANGED <<rows, issued, trail, lost, admitted>>,
         Budget', r.pc # "handler" \/ Cleared'
  PROVE  AppInv'
  <1>1. /\ inflight' \in [Slot -> Request] /\ inflight'[s] = r
        /\ \A t \in Slot \ {s} : inflight'[t] = inflight[t]
    BY DEF AppInv, Typed
  <1>2. Typed'
    BY <1>1 DEF AppInv, Typed, Aside
  <1>3. \A t \in Slot : GoesOn(t)
    BY <1>1 DEF GoesOn
  <1>4. Accounted'
    BY <1>3, AccountsKept DEF AppInv
  <1>5. Cleared'
    BY <1>1, ClearedKept DEF AppInv, Aside
  <1>6. QED
    BY <1>2, <1>4, <1>5, LifecycleKept DEF AppInv

(* What Goto and Answer make of a request.                                 *)
LEMMA MovesTyped ==
  ASSUME Typed, NEW s \in Slot, NEW pc \in {"target", "handler"}
  PROVE  /\ [inflight[s] EXCEPT !.pc = pc] \in Request
         /\ [inflight[s] EXCEPT !.pc = pc].n = inflight[s].n
         /\ [inflight[s] EXCEPT !.pc = pc].pc = pc
         /\ Goto(s, pc) => inflight' = [inflight EXCEPT ![s] = [inflight[s] EXCEPT !.pc = pc]]
         /\ Over(inflight[s], inflight[s].envs) \in Request
         /\ Over(inflight[s], inflight[s].envs).n = inflight[s].n
         /\ Over(inflight[s], inflight[s].envs).pc = "audit"
         /\ Answer(s) => inflight' = [inflight EXCEPT ![s] = Over(inflight[s], inflight[s].envs)]
  <1>1. inflight[s] \in Request
    BY DEF Typed
  <1>2. inflight[s].envs \in SUBSET Env
    BY <1>1 DEF Request
  <1>3. /\ [inflight[s] EXCEPT !.pc = pc] \in Request
        /\ [inflight[s] EXCEPT !.pc = pc].n = inflight[s].n
        /\ [inflight[s] EXCEPT !.pc = pc].pc = pc
    BY <1>1 DEF Request
  <1>4. Goto(s, pc) => inflight' = [inflight EXCEPT ![s] = [inflight[s] EXCEPT !.pc = pc]]
    BY DEF Goto, Typed
  <1>5. Answer(s) => inflight' = [inflight EXCEPT ![s] = Over(inflight[s], inflight[s].envs)]
    BY DEF Answer, Typed
  <1>6. QED
    BY <1>1, <1>2, <1>3, <1>4, <1>5, OverTyped

LEMMA GuardKeeps ==
  ASSUME AppInv, NEW s \in Slot, UNCHANGED procVars, Guard(s)
  PROVE  AppInv'
  <1>1. /\ Running /\ Aside /\ inflight[s].pc = "guard" /\ phase # "exited" /\ phase' = phase
        /\ UNCHANGED <<rows, issued, trail, lost, admitted>>
    BY DEF Guard, Aside, procVars, Running
  <1>2. Budget'
    <2>1. Known(inflight[s].cred) => tokenKey(inflight[s].cred) \in ProxyKey \ {addressKey(Proxy)}
      BY TokenAssumption DEF Known, ProxyKey, tokenKey, addressKey, AppInv, Typed
    <2>2. \/ UNCHANGED limiterVars
          \/ Known(inflight[s].cred) /\ Charges(tokenKey(inflight[s].cred), 1)
      BY DEF Guard, allow, refuse, Charges
    <2>3. QED
      BY <1>1, <2>1, <2>2, BudgetElsewhere DEF AppInv
  <1>3. Goto(s, "target") \/ Answer(s)
    BY DEF Guard
  <1>4. Typed
    BY DEF AppInv
  <1>5. CASE Goto(s, "target")
    BY <1>1, <1>2, <1>4, <1>5, MovesTyped, OnwardKeeps
  <1>6. CASE Answer(s)
    BY <1>1, <1>2, <1>4, <1>6, MovesTyped, OnwardKeeps
  <1>7. QED
    BY <1>3, <1>5, <1>6

(* The guard lets a write on with what allows says of the row's            *)
(* environment, which is the row's environment or none.                    *)
LEMMA ResolveKeeps ==
  ASSUME AppInv, NEW s \in Slot, UNCHANGED procVars, Resolve(s)
  PROVE  AppInv'
  <1>1. /\ Running /\ Aside /\ inflight[s].pc = "target" /\ phase # "exited" /\ phase' = phase
        /\ UNCHANGED <<rows, issued, trail, lost, admitted>> /\ UNCHANGED limiterVars
    BY DEF Resolve, Aside, procVars, Running
  <1>2. Budget'
    BY <1>1, BudgetElsewhere DEF AppInv
  <1> DEFINE w == inflight[s].write
  <1>3. inflight[s] \in Request /\ w \in Write /\ w.row \in Row /\ rows[w.row] \in Env \cup {0}
    BY DEF AppInv, Typed, Request, Write
  <1>4. PICK env \in {rows[w.row], 0} :
          inflight' = [inflight EXCEPT ![s] =
             IF allows(Actor(inflight[s].cred), resolveTarget(w, env))
               THEN [inflight[s] EXCEPT !.pc = "handler", !.envs = resolveTarget(w, env).envs]
               ELSE Over(inflight[s], resolveTarget(w, env).envs)]
    BY DEF Resolve, lookupRowEnvironment, AppInv, Typed
  <1> DEFINE target == resolveTarget(w, env)
  <1>5. env \in Env \cup {0} /\ target.envs \in SUBSET Env
    BY <1>3, ResolveTyped
  <1>6. CASE ~allows(Actor(inflight[s].cred), target)
    <2>1. inflight' = [inflight EXCEPT ![s] = Over(inflight[s], target.envs)]
      BY <1>4, <1>6
    <2>2. QED
      BY <1>1, <1>2, <1>3, <1>5, <2>1, OverTyped, OnwardKeeps
  <1>7. CASE allows(Actor(inflight[s].cred), target)
    <2> DEFINE r == [inflight[s] EXCEPT !.pc = "handler", !.envs = target.envs]
    <2>1. inflight' = [inflight EXCEPT ![s] = r]
      BY <1>4, <1>7
    <2> HIDE DEF target
    <2>2. /\ r \in Request /\ r.pc = "handler" /\ r.n = inflight[s].n
          /\ r.write = w /\ r.cred = inflight[s].cred
      BY <1>3, <1>5 DEF Request
    <2> HIDE DEF r
    <2>3. /\ inflight'[s] = r
          /\ \A t \in Slot \ {s} : inflight'[t] = inflight[t]
      BY <2>1 DEF AppInv, Typed
    <2>4. Actor(inflight[s].cred) = "narrow" => InScopeStill(w)
      <3>1. env \in NarrowScope => env = rows[w.row]
        BY <1>4, ScopeTyped
      <3>2. SUFFICES ASSUME allows("narrow", resolveTarget(w, env)) PROVE InScopeStill(w)
        BY <1>7 DEF target
      <3> HIDE DEF w
      <3>3. QED
        BY <1>3, <1>5, <3>1, <3>2, AllowsNarrow DEF InScopeStill
    <2>5. Cleared'
      <3> SUFFICES ASSUME NEW t \in Slot, inflight'[t].pc = "handler",
                          Actor(inflight[t].cred)' = "narrow", ~inflight'[t].raced
                   PROVE  InScopeStill(inflight[t].write)'
        BY DEF Cleared
      <3>1. CASE t = s
        BY <1>1, <2>2, <2>3, <2>4, <3>1 DEF InScopeStill, Actor, Aside
      <3>2. CASE t # s
        BY <1>1, <2>3, <3>2 DEF AppInv, Cleared, InScopeStill, Actor, Aside
      <3>3. QED
        BY <3>1, <3>2
    <2>6. QED
      BY <1>1, <1>2, <2>1, <2>2, <2>5, OnwardKeeps
  <1>8. QED
    BY <1>6, <1>7

LEMMA HandleKeeps ==
  ASSUME AppInv, NEW s \in Slot, UNCHANGED procVars, Handle(s)
  PROVE  AppInv'
  <1>1. /\ Running /\ Aside /\ inflight[s].pc = "handler" /\ phase # "exited" /\ phase' = phase
        /\ UNCHANGED <<issued, trail, lost, admitted>> /\ UNCHANGED limiterVars
    BY DEF Handle, Aside, procVars, Running
  <1>2. Budget'
    BY <1>1, BudgetElsewhere DEF AppInv
  <1> DEFINE own == Over(inflight[s], inflight[s].envs)
  <1>3. Typed /\ Cleared
    BY DEF AppInv
  <1>4. own \in Request /\ own.n = inflight[s].n /\ own.pc = "audit"
    BY <1>3, MovesTyped
  <1>5. PICK after \in Effect(inflight[s].write) : Written(s, after, own)
    BY DEF Handle
  <1> HIDE DEF own
  <1>6. /\ rows' \in [Row -> Env \cup {0}] /\ inflight' \in [Slot -> Request]
        /\ inflight'[s] = own /\ \A t \in Slot \ {s} : GoesOn(t)
        /\ Cleared'
    BY <1>1, <1>3, <1>4, <1>5, WrittenKeeps DEF Aside
  <1>7. \A t \in Slot : GoesOn(t)
    BY <1>1, <1>4, <1>6 DEF GoesOn
  <1>8. Typed'
    BY <1>1, <1>6 DEF AppInv, Typed, Aside
  <1>9. QED
    BY <1>1, <1>2, <1>6, <1>7, <1>8, AccountsKept, LifecycleKept DEF AppInv

LEMMA HandlerRefusesKeeps ==
  ASSUME AppInv, NEW s \in Slot, UNCHANGED procVars, HandlerRefuses(s)
  PROVE  AppInv'
  <1>1. /\ Running /\ Aside /\ inflight[s].pc = "handler" /\ phase # "exited" /\ phase' = phase
        /\ UNCHANGED <<rows, issued, trail, lost, admitted>> /\ UNCHANGED limiterVars /\ Answer(s)
    BY DEF HandlerRefuses, Aside, procVars, Running
  <1>2. Budget' /\ Typed
    BY <1>1, BudgetElsewhere DEF AppInv
  <1>3. QED
    BY <1>1, <1>2, MovesTyped, OnwardKeeps

(* The steps that end a request: it panicked, it is on record, or its      *)
(* record failed.                                                          *)
LEMMA EndKeeps ==
  ASSUME AppInv, NEW s \in Slot, UNCHANGED procVars,
         HandlerPanics(s) \/ (\E gone \in BOOLEAN : Audit(s, gone)) \/ AuditFails(s)
  PROVE  AppInv'
  <1>1. /\ Running /\ Aside /\ Busy(s) /\ phase # "exited" /\ phase' = phase
        /\ UNCHANGED <<issued, admitted>> /\ UNCHANGED limiterVars
        /\ \/ trail' = trail /\ lost' = lost \cup {inflight[s].n}
           \/ trail' = trail \cup {Entry(s)} /\ lost' = lost
    BY DEF HandlerPanics, Audit, AuditFails, Aside, procVars, Running, Busy
  <1>2. Budget'
    BY <1>1, BudgetElsewhere DEF AppInv
  <1>3. Typed /\ Cleared /\ inflight[s] \in Request
    BY DEF AppInv, Typed
  <1>4. /\ rows' \in [Row -> Env \cup {0}] /\ inflight' \in [Slot -> Request]
        /\ inflight'[s] = NoWrite /\ \A t \in Slot \ {s} : GoesOn(t)
        /\ Cleared'
    <2>1. CASE HandlerPanics(s)
      <3>1. PICK after \in {rows} \cup Effect(inflight[s].write) : Written(s, after, NoWrite)
        BY <2>1 DEF HandlerPanics
      <3>2. NoWrite \in Request /\ NoWrite.pc # "handler"
        BY NoWriteTyped
      <3>3. QED
        BY <1>1, <1>3, <3>1, <3>2, WrittenKeeps DEF Aside
    <2>2. CASE (\E gone \in BOOLEAN : Audit(s, gone)) \/ AuditFails(s)
      <3>1. inflight' = [inflight EXCEPT ![s] = NoWrite] /\ rows' = rows
        BY <2>2 DEF Audit, AuditFails
      <3>2. NoWrite \in Request /\ NoWrite.pc # "handler"
        BY NoWriteTyped
      <3> HIDE DEF NoWrite
      <3>3. /\ inflight' \in [Slot -> Request] /\ inflight'[s] = NoWrite
            /\ \A t \in Slot \ {s} : inflight'[t] = inflight[t]
        BY <1>3, <3>1, <3>2 DEF Typed
      <3>4. \A t \in Slot \ {s} : GoesOn(t)
        BY <3>3 DEF GoesOn
      <3>5. Cleared'
        BY <1>1, <1>3, <3>1, <3>2, <3>3, ClearedKept DEF Aside
      <3>6. QED
        BY <1>3, <3>1, <3>3, <3>4, <3>5 DEF Typed
    <2>3. QED
      BY <2>1, <2>2
  <1>5. trail' \subseteq [n : 1..issued', env : Env \cup {0}]
    <2>1. inflight[s].n \in 1..issued
      BY <1>1 DEF AppInv, Accounted, Numbered
    <2>2. Entry(s) \in [n : 1..issued, env : Env \cup {0}]
      BY <1>3, <2>1, EntryTyped
    <2>3. QED
      BY <1>1, <1>3, <2>2 DEF Typed
  <1>6. Typed'
    BY <1>1, <1>3, <1>4, <1>5 DEF Typed, Aside
  <1>7. Accounted'
    BY <1>1, <1>3, <1>4, AccountsClosed DEF AppInv
  <1>8. QED
    BY <1>1, <1>2, <1>4, <1>6, <1>7, LifecycleKept DEF AppInv

LEMMA GatewayKeeps ==
  ASSUME AppInv, GatewayStep, UNCHANGED procVars
  PROVE  AppInv'
  <1>1. PICK s \in Slot : SlotStep(s)
    BY DEF GatewayStep
  <1>2. CASE \E cred \in Credential : TurnAway(s, cred) \/ Unrouted(s, cred)
    BY <1>2, EdgeKeeps
  <1>3. CASE \E cred \in Credential, w \in Writes : Arrive(s, cred, w)
    BY <1>3, ArriveKeeps
  <1>4. CASE Guard(s)
    BY <1>4, GuardKeeps
  <1>5. CASE Resolve(s)
    BY <1>5, ResolveKeeps
  <1>6. CASE Handle(s)
    BY <1>6, HandleKeeps
  <1>7. CASE HandlerRefuses(s)
    BY <1>7, HandlerRefusesKeeps
  <1>8. CASE HandlerPanics(s) \/ (\E gone \in BOOLEAN : Audit(s, gone)) \/ AuditFails(s)
    BY <1>8, EndKeeps
  <1>9. QED
    BY <1>1, <1>2, <1>3, <1>4, <1>5, <1>6, <1>7, <1>8 DEF SlotStep

-----------------------------------------------------------------------------
(* The steps of the process.                                               *)

(* A step that leaves the requests, the limiter and the credentials alone  *)
(* keeps what is said of them.                                             *)
LEMMA RestKeeps ==
  ASSUME AppInv, UNCHANGED Rest, tokens' = tokens, meant' = meant,
         phase' \in Phases, dbOpen' \in BOOLEAN, looping' \in BOOLEAN,
         phase # "exited" \/ phase' = "exited", Lifecycle'
  PROVE  AppInv'
  <1>1. Typed'
    BY DEF AppInv, Typed, Rest
  <1>2. Accounted'
    BY AccountsKept DEF AppInv, Rest, GoesOn
  <1>3. Cleared'
    BY DEF AppInv, Cleared, InScopeStill, Actor, Rest
  <1>4. Budget'
    BY DEF AppInv, Budget, Rest, limiterVars, LimiterInv, LimiterTypeOK, Mirrors, HasRoom, Available
  <1>5. QED
    BY <1>1, <1>2, <1>3, <1>4 DEF AppInv

(* parseAdminTokens yields known names, and no name only when neither      *)
(* variable held anything.                                                 *)
LEMMA ParseTyped ==
  ASSUME NEW named \in Named, NEW shared \in {"", "blank", "secret"}, ~parseFails(named, shared)
  PROVE  /\ parseAdminTokens(named, shared) \subseteq TokenName
         /\ parseAdminTokens(named, shared) = {} => Blank(named) /\ shared = ""
  <1>1. \A i \in DOMAIN named : named[i] \in {"blank", "malformed", "narrow"}
    BY DEF Named
  <1>2. Entries(named) \subseteq {"malformed", "narrow"}
    BY <1>1 DEF Entries
  <1>3. "malformed" \notin Entries(named) /\ (Blank(named) \/ Entries(named) # {}) /\ shared # "blank"
    BY DEF parseFails
  <1>4. QED
    BY <1>2, <1>3, TokenAssumption DEF parseAdminTokens

LEMMA ParseKeeps ==
  ASSUME AppInv, NEW named \in Named, NEW shared \in {"", "blank", "secret"},
         ParseTokens(named, shared)
  PROVE  AppInv'
  <1>1. phase = "starting" /\ \A s \in Slot : ~Busy(s)
    BY DEF ParseTokens, AppInv, Lifecycle, Running
  <1>2. UNCHANGED <<limiterVars, rows, inflight, issued, trail, lost, admitted, dbOpen, looping>>
    BY DEF ParseTokens, Rest, procVars
  <1>3. CASE parseFails(named, shared)
    <2>1. phase' = "exited" /\ UNCHANGED <<tokens, meant>>
      BY <1>3 DEF ParseTokens
    <2>2. Lifecycle'
      BY <1>1, <1>2, <2>1 DEF AppInv, Lifecycle, Busy, Running
    <2>3. QED
      BY <1>2, <2>1, <2>2, RestKeeps DEF Rest, Phases, AppInv, Typed
  <1>4. CASE ~parseFails(named, shared)
    <2>1. /\ phase' = "opening"
          /\ tokens' = parseAdminTokens(named, shared)
          /\ meant' = (~Blank(named) \/ shared # "")
      BY <1>4 DEF ParseTokens
    <2>2. tokens' \subseteq TokenName /\ meant' \in BOOLEAN /\ (tokens' = {} => ~meant')
      BY <1>4, <2>1, ParseTyped
    <2>3. Typed'
      BY <1>2, <2>1, <2>2 DEF AppInv, Typed, Phases
    <2>4. Accounted'
      BY <1>2, AccountsKept DEF AppInv, GoesOn
    <2>5. Cleared'
      BY <1>1, <1>2 DEF Cleared, Busy
    <2>6. Lifecycle'
      BY <1>1, <1>2, <2>1, <2>2 DEF Lifecycle, Busy
    <2>7. Budget'
      BY <1>1, <1>2, <2>1 DEF AppInv, Budget, limiterVars, LimiterInv, LimiterTypeOK, Mirrors, HasRoom, Available
    <2>8. QED
      BY <2>3, <2>4, <2>5, <2>6, <2>7 DEF AppInv
  <1>5. QED
    BY <1>3, <1>4

(* NewApp opens what the process needs, and Run steps through its end.     *)
LEMMA ProcessKeeps ==
  ASSUME AppInv, \/ openDB \/ setupMessaging \/ Signal \/ LoopEnds \/ stopReconcile
                  \/ Shutdown \/ Drain \/ CloseDB
  PROVE  AppInv'
  <1>1. UNCHANGED Rest /\ tokens' = tokens /\ meant' = meant
    BY DEF openDB, setupMessaging, Signal, LoopEnds, stopReconcile, Shutdown, Drain, CloseDB, Phase
  <1>2. /\ phase' \in Phases /\ phase # "exited"
        /\ dbOpen' \in BOOLEAN /\ looping' \in BOOLEAN
    BY DEF openDB, setupMessaging, Signal, LoopEnds, stopReconcile, Shutdown, Drain, CloseDB,
           Phase, Phases, AppInv, Typed
  <1>3. inflight' = inflight
    BY <1>1 DEF Rest
  <1>4. Lifecycle'
    <2>1. CASE openDB \/ setupMessaging \/ Signal
      BY <1>1, <1>3, <2>1 DEF openDB, setupMessaging, Signal, Phase, AppInv, Lifecycle, Busy, Running
    <2>2. CASE LoopEnds \/ stopReconcile
      BY <1>1, <1>3, <2>2 DEF LoopEnds, stopReconcile, Phase, AppInv, Lifecycle, Busy, Running
    <2>3. CASE Shutdown
      <3>1. \A s \in Slot : ~Busy(s)'
        BY <1>3, <2>3 DEF Shutdown, InFlight, Busy
      <3>2. QED
        BY <1>1, <2>3, <3>1 DEF Shutdown, Phase, AppInv, Lifecycle
    <2>4. CASE Drain \/ CloseDB
      BY <1>1, <1>3, <2>4 DEF Drain, CloseDB, Phase, AppInv, Lifecycle, Busy, Running
    <2>5. QED
      BY <2>1, <2>2, <2>3, <2>4
  <1>5. QED
    BY <1>1, <1>2, <1>4, RestKeeps

(* What dies with the process is counted among the lost.                   *)
LEMMA DeathKeeps ==
  ASSUME AppInv, ServeFails \/ ShutdownTimesOut \/ Exit
  PROVE  AppInv'
  <1>1. /\ phase' = "exited" /\ inflight' = [s \in Slot |-> NoWrite]
        /\ lost' = lost \cup {inflight[s].n : s \in InFlight}
        /\ looping' = FALSE /\ buckets' = [k \in {} |-> 0] /\ dbOpen' = dbOpen
        /\ UNCHANGED <<lastSweep, now, ideal, tokens, meant, rows, issued, trail, admitted>>
    BY DEF ServeFails, ShutdownTimesOut, Exit, Dies
  <1>2. NoWrite \in Request /\ NoWrite.pc = "idle" /\ NoWrite.n = 0
    BY NoWriteTyped
  <1> HIDE DEF NoWrite
  <1>3. /\ inflight' \in [Slot -> Request]
        /\ \A s \in Slot : inflight'[s].pc = "idle" /\ inflight'[s].n = 0
    BY <1>1, <1>2
  <1>4. Typed'
    BY <1>1, <1>3 DEF AppInv, Typed, Phases
  <1>5. Accounted'
    <2>1. Numbered'
      BY <1>3 DEF Numbered, Busy
    <2>2. ASSUME NEW n \in 1..issued'
          PROVE  n \in lost' \/ (\E e \in trail' : e.n = n)
      <3>1. n \in 1..issued /\ n # 0
        BY <1>1 DEF AppInv, Typed
      <3>2. n \in lost \/ (\E s \in Slot : inflight[s].n = n) \/ (\E e \in trail : e.n = n)
        BY <3>1 DEF AppInv, Accounted, EveryWriteIsOnRecord
      <3>3. \A s \in Slot : inflight[s].n = n => s \in InFlight
        BY <3>1 DEF AppInv, Accounted, Numbered, Busy, InFlight
      <3>4. QED
        BY <1>1, <3>2, <3>3
    <2>3. QED
      BY <1>1, <2>1, <2>2 DEF AppInv, Accounted, EveryWriteIsOnRecord
  <1>6. Cleared'
    BY <1>3 DEF Cleared
  <1>7. Lifecycle'
    BY <1>1, <1>3 DEF Lifecycle, Busy
  <1>8. Budget'
    BY <1>1 DEF AppInv, Budget, LimiterTypeOK
  <1>9. QED
    BY <1>4, <1>5, <1>6, <1>7, <1>8 DEF AppInv

-----------------------------------------------------------------------------
(* The invariant.                                                          *)

LEMMA AppInitHolds == AppInit => AppInv
  <1> SUFFICES ASSUME AppInit PROVE AppInv
    OBVIOUS
  <1>1. /\ newRateLimiter /\ tokens = {} /\ meant = FALSE /\ rows = InitialRows
        /\ inflight = [s \in Slot |-> NoWrite]
        /\ issued = 0 /\ trail = {} /\ lost = {} /\ admitted = 0
        /\ phase = "starting" /\ dbOpen = FALSE /\ looping = FALSE
    BY DEF AppInit, GatewayInit
  <1>2. InitialRows \in [Row -> Env \cup {0}]
    <2>1. (CHOOSE e \in NarrowScope : TRUE) \in Env
      BY ScopeAssumption
    <2>2. \E e \in Env : NarrowScope # Env => e \notin NarrowScope
      BY ScopeAssumption
    <2>3. (CHOOSE e \in Env : NarrowScope # Env => e \notin NarrowScope) \in Env
      BY <2>2
    <2>4. QED
      BY <2>1, <2>3 DEF InitialRows
  <1>3. NoWrite \in Request /\ NoWrite.pc = "idle" /\ NoWrite.n = 0
    BY NoWriteTyped
  <1> HIDE DEF NoWrite
  <1>4. /\ inflight \in [Slot -> Request]
        /\ \A s \in Slot : inflight[s].pc = "idle" /\ inflight[s].n = 0
    BY <1>1, <1>3
  <1>5. Typed
    BY <1>1, <1>2, <1>4 DEF Typed, Phases
  <1>6. Accounted
    BY <1>1, <1>4 DEF Accounted, Numbered, EveryWriteIsOnRecord, Busy
  <1>7. Cleared /\ Lifecycle
    BY <1>1, <1>4 DEF Cleared, Lifecycle, Busy
  <1>8. Budget
    <2>1. LimiterInv
      BY <1>1, InitHolds
    <2>2. addressKey(Proxy) \in BucketKey
      BY ProxyKeyCalls DEF ProxyKey, BucketKey
    <2>3. DOMAIN buckets = {} /\ ideal[addressKey(Proxy)] = Capacity - admitted
      BY <1>1, <2>2, RateAssumption DEF newRateLimiter
    <2>4. QED
      BY <2>1, <2>3 DEF Budget, LimiterInv
  <1>9. QED
    BY <1>5, <1>6, <1>7, <1>8 DEF AppInv

LEMMA AppNextKeeps == AppInv /\ [AppNext]_appVars => AppInv'
  <1> SUFFICES ASSUME AppInv, [AppNext]_appVars PROVE AppInv'
    OBVIOUS
  <1>1. ASSUME NEW named \in Named, NEW shared \in {"", "blank", "secret"},
               ParseTokens(named, shared)
        PROVE  AppInv'
    BY <1>1, ParseKeeps
  <1>2. CASE openDB \/ setupMessaging \/ Signal \/ LoopEnds
    BY <1>2, ProcessKeeps
  <1>3. CASE ServeFails
    BY <1>3, DeathKeeps
  <1>4. CASE Stopping
    BY <1>4, ProcessKeeps, DeathKeeps DEF Stopping
  <1>5. CASE GatewayStep /\ UNCHANGED procVars
    BY <1>5, GatewayKeeps
  <1>6. CASE UNCHANGED appVars
    <2>1. /\ UNCHANGED Rest /\ UNCHANGED <<phase, tokens, meant, dbOpen, looping>>
      BY <1>6 DEF appVars, gatewayVars, gateVars, procVars, Rest
    <2>2. Lifecycle'
      BY <2>1 DEF AppInv, Lifecycle, Busy, Running, Rest
    <2>3. phase' \in Phases /\ dbOpen' \in BOOLEAN /\ looping' \in BOOLEAN
      BY <2>1 DEF AppInv, Typed
    <2>4. QED
      BY <2>1, <2>2, <2>3, RestKeeps
  <1>7. QED
    BY <1>1, <1>2, <1>3, <1>4, <1>5, <1>6 DEF AppNext

(* The invariant behind the theorems below holds from the start of the     *)
(* process to its end.                                                     *)
THEOREM AppInvariance == AppSpec => []AppInv
  BY AppInitHolds, AppNextKeeps, PTL DEF AppSpec

(* The handlers, the audit record and Run keep every variable in its type. *)
THEOREM AppTypeCorrect == AppSpec => []AppTypeOK
  <1>1. AppInv => AppTypeOK
    <2> SUFFICES ASSUME AppInv PROVE AppTypeOK
      OBVIOUS
    <2>1. \A s \in Slot : /\ inflight[s].pc \in {"idle", "guard", "target", "handler", "audit"}
                          /\ inflight[s].write \in Write
                          /\ inflight[s].envs \subseteq Env
      BY DEF AppInv, Typed, Request
    <2>2. QED
      BY <2>1 DEF AppInv, Typed, Budget, AppTypeOK, Phases
  <1>2. QED
    BY <1>1, AppInvariance, PTL

(* Whatever was put into the two variables, a process that serves without  *)
(* authentication was given neither (parseAdminTokens, NewApp).            *)
THEOREM AuthNeverSilentlyOff == AppSpec => []AuthIsNeverSilentlyOff
  <1>1. AppInv => AuthIsNeverSilentlyOff
    BY DEF AppInv, Lifecycle, Running, AuthIsNeverSilentlyOff
  <1>2. QED
    BY <1>1, AppInvariance, PTL

(* For every scope: what guard and resolveTarget let through reaches only  *)
(* environments of the scope, if the row was not moved in between.         *)
THEOREM NarrowWritesStayInScope == AppSpec => WritesStayInScope
  <1>1. ASSUME AppInv, NEW s \in Slot, inflight[s].pc = "handler",
               ~FullScope(Actor(inflight[s].cred)), ~inflight[s].raced, Handle(s)
        PROVE  Reaches(inflight[s].write) \subseteq NarrowScope
    <2>1. InScopeStill(inflight[s].write)
      BY <1>1 DEF AppInv, Cleared, FullScope
    <2>2. \E after : after \in Effect(inflight[s].write)
      BY <1>1 DEF Handle
    <2>3. inflight[s].write \in Write /\ rows \in [Row -> Env \cup {0}]
      BY <1>1 DEF AppInv, Typed, Request
    <2>4. QED
      BY <2>1, <2>2, <2>3, ReachesCleared
  <1>2. AppInv => [\A s \in Slot :
                      (/\ inflight[s].pc = "handler" /\ inflight'[s].pc = "audit"
                       /\ ~FullScope(Actor(inflight[s].cred)) /\ ~inflight[s].raced
                       /\ Handle(s))
                      => Reaches(inflight[s].write) \subseteq NarrowScope]_appVars
    BY <1>1
  <1>3. QED
    BY <1>2, AppInvariance, PTL DEF WritesStayInScope

(* auditWrites: no interleaving of requests, panics, failed inserts and    *)
(* the end of the process leaves a write without a trace or with two       *)
(* records.                                                                *)
THEOREM WritesOnRecord == AppSpec => []EveryWriteIsOnRecord
  <1>1. AppInv => EveryWriteIsOnRecord
    BY DEF AppInv, Accounted
  <1>2. QED
    BY <1>1, AppInvariance, PTL

(* limitWrites: with room in the table, writes without a credential from   *)
(* behind the proxy take nothing from those with one, for every budget.    *)
THEOREM OperatorsNotLockedOut == AppSpec => []AnonymousNeverLocksOut
  <1>1. AppInv => AnonymousNeverLocksOut
    <2> SUFFICES ASSUME AppInv, Running, ~Affords(addressKey(Proxy), 1) PROVE admitted >= Capacity
      BY DEF AnonymousNeverLocksOut
    <2> DEFINE a == addressKey(Proxy)
    <2>1. LimiterInv /\ DOMAIN buckets \subseteq ProxyKey /\ ideal[a] = Capacity - admitted
      BY DEF AppInv, Budget, Running
    <2>2. a \in ProxyKey /\ a \in CallerKey
      BY ProxyKeyCalls DEF ProxyKey
    <2>3. Charged(a) = a
      BY <2>1, <2>2, OwnBucket
    <2>4. Available(Bucket(a), now) = ideal[a] /\ Available(Bucket(a), now) \in 0..Capacity
      BY <2>1, <2>2, <2>3, BucketMirrors
    <2>5. ~(ideal[a] >= 1)
      BY <2>4 DEF Affords
    <2>6. admitted \in Nat
      BY DEF AppInv, Typed
    <2>7. QED
      BY <2>1, <2>4, <2>5, <2>6, RateAssumption
  <1>2. QED
    BY <1>1, AppInvariance, PTL

(* Run closes the pool and drains NATS only after the last request and the *)
(* reconciler's goroutine.                                                 *)
THEOREM NobodyCutOff == AppSpec => []NobodyIsCutOff
  <1>1. AppInv => NobodyIsCutOff
    BY DEF AppInv, Lifecycle, Busy, Running, InFlight, NobodyIsCutOff
  <1>2. QED
    BY <1>1, AppInvariance, PTL
=============================================================================
