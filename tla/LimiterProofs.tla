--------------------------- MODULE LimiterProofs ---------------------------
(***************************************************************************)
(* Proofs about RateLimiter, for every set of callers, every rate, burst   *)
(* and bound of the table, and every idle time long enough for a bucket to *)
(* fill up (IdleAssumption).                                               *)
(***************************************************************************)
EXTENDS RateLimiter, FiniteSetTheorems, TLAPS

-----------------------------------------------------------------------------
(* The inductive invariant.                                                *)

(* The table and the ideal limiter agree on every key: a key in the table  *)
(* has what its ideal bucket has, and a key that is not, never used or     *)
(* swept, has a full ideal bucket.                                         *)
Mirrors ==
    \A k \in BucketKey :
       ideal[k] = IF k \in DOMAIN buckets THEN Available(buckets[k], now) ELSE Capacity

(* Without the overflow bucket the table is within its bound.              *)
HasRoom ==
    /\ IsFiniteSet(DOMAIN buckets)
    /\ Cardinality(DOMAIN buckets \ {overflowKey}) <= maxBuckets

LimiterInv == LimiterTypeOK /\ Mirrors /\ HasRoom

BucketAt(t) == [tokens : 0..Capacity, last : 0..t]

-----------------------------------------------------------------------------
(* What a bucket holds.                                                    *)

LEMMA TimesNat ==
  ASSUME NEW a \in Nat, NEW b \in Nat
  PROVE  a * b \in Nat
  OBVIOUS

LEMMA TimesMonotonic ==
  ASSUME NEW a \in Nat, NEW b \in Nat, NEW c \in Nat, a <= b
  PROVE  a * c <= b * c
  OBVIOUS

(* A bucket never holds less than nothing nor more than its burst.         *)
LEMMA AvailableType ==
  ASSUME NEW t \in Nat, NEW b \in BucketAt(t)
  PROVE  Available(b, t) \in 0..Capacity
  <1>1. (t - b.last) * Refill \in Nat
    BY TimesNat, RateAssumption DEF BucketAt
  <1>2. b.tokens \in 0..Capacity
    BY DEF BucketAt
  <1>3. QED
    BY <1>1, <1>2, RateAssumption DEF Available, Least

(* A bucket just written holds what was written.                           *)
LEMMA AvailableNow ==
  ASSUME NEW t \in Nat, NEW n \in 0..Capacity
  PROVE  /\ [tokens |-> n, last |-> t] \in BucketAt(t)
         /\ Available([tokens |-> n, last |-> t], t) = n
  BY RateAssumption DEF Available, Least, BucketAt

(* A tick adds Refill tokens, up to the burst.                             *)
LEMMA AvailableLater ==
  ASSUME NEW t \in Nat, NEW b \in BucketAt(t)
  PROVE  /\ b \in BucketAt(t + 1)
         /\ Available(b, t + 1) = Least(Capacity, Available(b, t) + Refill)
  <1>1. b.tokens \in 0..Capacity /\ b.last \in 0..t
    BY DEF BucketAt
  <1>2. (t + 1 - b.last) * Refill = (t - b.last) * Refill + Refill
    BY <1>1, RateAssumption
  <1>3. (t - b.last) * Refill \in Nat
    BY <1>1, TimesNat, RateAssumption
  <1>4. Available(b, t + 1) = Least(Capacity, Available(b, t) + Refill)
    BY <1>1, <1>2, <1>3, RateAssumption DEF Available, Least
  <1>5. QED
    BY <1>4 DEF BucketAt

(* A bucket idle for longer than idleBucketTTL is full.                    *)
LEMMA AvailableIdle ==
  ASSUME NEW t \in Nat, NEW b \in BucketAt(t), ~(t - b.last <= idleBucketTTL)
  PROVE  Available(b, t) = Capacity
  <1>1. b.tokens \in 0..Capacity /\ b.last \in 0..t
    BY DEF BucketAt
  <1>2. t - b.last \in Nat /\ idleBucketTTL <= t - b.last
    BY <1>1, IdleAssumption
  <1>3. idleBucketTTL * Refill <= (t - b.last) * Refill
    BY <1>2, TimesMonotonic, IdleAssumption, RateAssumption
  <1>4. (t - b.last) * Refill \in Nat /\ idleBucketTTL * Refill \in Nat
    BY <1>2, TimesNat, IdleAssumption, RateAssumption
  <1>5. (t - b.last) * Refill >= Capacity
    BY <1>3, <1>4, IdleAssumption, RateAssumption
  <1>6. QED
    BY <1>1, <1>4, <1>5, RateAssumption DEF Available, Least

-----------------------------------------------------------------------------
(* The parts of a call.                                                    *)

(* The sweep only drops buckets that are full.                             *)
LEMMA SweptKeeps ==
  ASSUME LimiterInv, NEW k \in CallerKey
  PROVE  /\ DOMAIN Swept(k) \subseteq DOMAIN buckets
         /\ \A j \in DOMAIN Swept(k) : Swept(k)[j] = buckets[j]
         /\ \A j \in DOMAIN buckets \ DOMAIN Swept(k) : ideal[j] = Capacity
         /\ k \in DOMAIN buckets => DOMAIN Swept(k) = DOMAIN buckets
  <1>1. CASE Sweeps(k)
    <2>1. Swept(k) = [i \in {j \in DOMAIN buckets : now - buckets[j].last <= idleBucketTTL} |-> buckets[i]]
      BY <1>1 DEF Swept, sweep
    <2>2. ASSUME NEW j \in DOMAIN buckets, ~(now - buckets[j].last <= idleBucketTTL)
          PROVE  ideal[j] = Capacity
      <3>1. buckets[j] \in BucketAt(now) /\ now \in Nat /\ j \in BucketKey
        BY DEF LimiterInv, LimiterTypeOK, BucketAt
      <3>2. Available(buckets[j], now) = Capacity
        BY <2>2, <3>1, AvailableIdle
      <3>3. QED
        BY <3>1, <3>2 DEF LimiterInv, Mirrors
    <2>3. k \notin DOMAIN buckets
      BY <1>1 DEF Sweeps
    <2>4. QED
      BY <2>1, <2>2, <2>3
  <1>2. CASE ~Sweeps(k)
    BY <1>2 DEF Swept
  <1>3. QED
    BY <1>1, <1>2

(* The bucket that pays holds what its ideal one does.                     *)
LEMMA BucketMirrors ==
  ASSUME LimiterInv, NEW k \in CallerKey
  PROVE  /\ Charged(k) \in BucketKey
         /\ Bucket(k) \in BucketAt(now)
         /\ Available(Bucket(k), now) = ideal[Charged(k)]
         /\ Available(Bucket(k), now) \in 0..Capacity
  <1>1. Charged(k) \in BucketKey
    BY DEF Charged, BucketKey
  <1>2. now \in Nat
    BY DEF LimiterInv, LimiterTypeOK
  <1>3. CASE Charged(k) \in DOMAIN Swept(k)
    <2>1. Charged(k) \in DOMAIN buckets /\ Bucket(k) = buckets[Charged(k)]
      BY <1>3, SweptKeeps DEF Bucket
    <2>2. QED
      BY <1>1, <1>2, <2>1, AvailableType DEF LimiterInv, LimiterTypeOK, Mirrors, BucketAt
  <1>4. CASE Charged(k) \notin DOMAIN Swept(k)
    <2>1. Bucket(k) = [tokens |-> Capacity, last |-> now]
      BY <1>4 DEF Bucket
    <2>2. ideal[Charged(k)] = Capacity
      BY <1>1, <1>4, SweptKeeps DEF LimiterInv, Mirrors
    <2>3. Capacity \in 0..Capacity
      BY RateAssumption
    <2>4. QED
      BY <1>1, <1>2, <2>1, <2>2, <2>3, AvailableNow
  <1>5. QED
    BY <1>3, <1>4

(* Storing the bucket that paid leaves the others as they were, and the    *)
(* table within its bound.                                                 *)
LEMMA StoreKeeps ==
  ASSUME LimiterInv, NEW k \in CallerKey, NEW n \in 0..Capacity, Store(k, n)
  PROVE  /\ DOMAIN buckets' \subseteq BucketKey
         /\ \A j \in DOMAIN buckets' : buckets'[j] \in BucketAt(now)
         /\ now' = now /\ lastSweep' \in Int /\ lastSweep' <= now
         /\ Charged(k) \in DOMAIN buckets'
         /\ Available(buckets'[Charged(k)], now) = n
         /\ \A j \in BucketKey \ {Charged(k)} :
               ideal[j] = IF j \in DOMAIN buckets' THEN Available(buckets'[j], now) ELSE Capacity
         /\ HasRoom'
  <1> DEFINE c == Charged(k)
  <1>1. now \in Nat /\ c \in BucketKey
    BY BucketMirrors DEF LimiterInv, LimiterTypeOK
  <1>2. /\ DOMAIN buckets' = DOMAIN Swept(k) \cup {c}
        /\ buckets'[c] = [tokens |-> n, last |-> now]
        /\ \A j \in DOMAIN Swept(k) \ {c} : buckets'[j] = buckets[j]
    BY SweptKeeps DEF Store
  <1>3. /\ buckets'[c] \in BucketAt(now)
        /\ Available(buckets'[c], now) = n
    BY <1>1, <1>2, AvailableNow
  <1>4. \A j \in DOMAIN buckets : j \in BucketKey /\ buckets[j] \in BucketAt(now)
    BY DEF LimiterInv, LimiterTypeOK, BucketAt
  <1>5. \A j \in DOMAIN buckets' : j \in BucketKey /\ buckets'[j] \in BucketAt(now)
    BY <1>1, <1>2, <1>3, <1>4, SweptKeeps
  <1>6. now' = now /\ lastSweep' \in Int /\ lastSweep' <= now
    BY DEF Store, LimiterInv, LimiterTypeOK
  <1>7. ASSUME NEW j \in BucketKey \ {c}
        PROVE  ideal[j] = IF j \in DOMAIN buckets' THEN Available(buckets'[j], now) ELSE Capacity
    <2>1. CASE j \in DOMAIN buckets'
      <3>1. j \in DOMAIN buckets /\ buckets'[j] = buckets[j]
        BY <1>2, <2>1, SweptKeeps
      <3>2. QED
        BY <2>1, <3>1 DEF LimiterInv, Mirrors
    <2>2. CASE j \notin DOMAIN buckets'
      BY <1>2, <2>2, SweptKeeps DEF LimiterInv, Mirrors
    <2>3. QED
      BY <2>1, <2>2
  <1>8. HasRoom'
    <2> DEFINE D == DOMAIN buckets
               E == DOMAIN Swept(k)
    <2>1. IsFiniteSet(D) /\ IsFiniteSet(E) /\ E \subseteq D
      BY SweptKeeps, FS_Subset DEF LimiterInv, HasRoom
    <2>2. IsFiniteSet(E \cup {c}) /\ IsFiniteSet((E \cup {c}) \ {overflowKey})
      BY <2>1, FS_AddElement, FS_RemoveElement
    <2>3. IsFiniteSet(D \ {overflowKey})
      BY <2>1, FS_RemoveElement
    <2>4. Cardinality(D \ {overflowKey}) <= maxBuckets
      BY DEF LimiterInv, HasRoom
    <2>5. /\ Cardinality(D \ {overflowKey}) \in Nat
          /\ Cardinality((E \cup {c}) \ {overflowKey}) \in Nat
          /\ Cardinality(E) \in Nat
      BY <2>1, <2>2, <2>3, FS_CardinalityType
    <2>6. CASE (E \cup {c}) \ {overflowKey} \subseteq D \ {overflowKey}
      <3>1. Cardinality((E \cup {c}) \ {overflowKey}) <= Cardinality(D \ {overflowKey})
        BY <2>3, <2>6, FS_Subset
      <3>2. Cardinality((E \cup {c}) \ {overflowKey}) <= maxBuckets
        BY <2>4, <2>5, <3>1, TableAssumption
      <3>3. QED
        BY <1>2, <2>2, <3>2 DEF HasRoom
    <2>7. CASE ~((E \cup {c}) \ {overflowKey} \subseteq D \ {overflowKey})
      <3>1. c \notin D /\ c # overflowKey
        BY <2>1, <2>7
      <3>2. c = k /\ ~(Cardinality(E) >= maxBuckets)
        BY <3>1 DEF Charged
      <3>3. Cardinality(E \cup {c}) = Cardinality(E) + 1
        BY <2>1, <3>1, FS_AddElement
      <3>4. Cardinality((E \cup {c}) \ {overflowKey}) <= Cardinality(E \cup {c})
        BY <2>2, FS_Subset
      <3>5. Cardinality((E \cup {c}) \ {overflowKey}) <= maxBuckets
        BY <2>5, <3>2, <3>3, <3>4, TableAssumption
      <3>6. QED
        BY <1>2, <2>2, <3>5 DEF HasRoom
    <2>8. QED
      BY <2>6, <2>7
  <1>9. QED
    BY <1>2, <1>3, <1>5, <1>6, <1>7, <1>8

-----------------------------------------------------------------------------
(* The steps.                                                              *)

LEMMA AllowPreserves ==
  ASSUME LimiterInv, NEW k \in CallerKey, NEW cost \in Nat, allowCost(k, cost)
  PROVE  LimiterInv'
  <1> DEFINE c == Charged(k)
             n == Available(Bucket(k), now) - cost
  <1>1. n \in 0..Capacity /\ n = ideal[c] - cost /\ c \in BucketKey
    BY BucketMirrors, RateAssumption DEF allowCost, Affords
  <1>2. Store(k, n)
    BY DEF allowCost
  <1>3. /\ DOMAIN ideal' = BucketKey
        /\ ideal'[c] = n
        /\ \A j \in BucketKey \ {c} : ideal'[j] = ideal[j]
    BY <1>1 DEF allowCost, LimiterInv, LimiterTypeOK
  <1>4. LimiterTypeOK'
    BY <1>1, <1>2, <1>3, StoreKeeps DEF LimiterInv, LimiterTypeOK, BucketAt
  <1>5. Mirrors'
    BY <1>1, <1>2, <1>3, StoreKeeps DEF Mirrors, Available
  <1>6. HasRoom'
    BY <1>1, <1>2, StoreKeeps
  <1>7. QED
    BY <1>4, <1>5, <1>6 DEF LimiterInv

LEMMA RefusePreserves ==
  ASSUME LimiterInv, NEW k \in CallerKey, NEW cost \in Nat, refuseCost(k, cost)
  PROVE  LimiterInv'
  <1> DEFINE c == Charged(k)
             n == Available(Bucket(k), now)
  <1>1. n \in 0..Capacity /\ n = ideal[c] /\ c \in BucketKey
    BY BucketMirrors
  <1>2. Store(k, n) /\ ideal' = ideal
    BY DEF refuseCost
  <1>3. LimiterTypeOK'
    BY <1>1, <1>2, StoreKeeps DEF LimiterInv, LimiterTypeOK, BucketAt
  <1>4. Mirrors'
    BY <1>1, <1>2, StoreKeeps DEF Mirrors, Available
  <1>5. HasRoom'
    BY <1>1, <1>2, StoreKeeps
  <1>6. QED
    BY <1>3, <1>4, <1>5 DEF LimiterInv

LEMMA TickPreserves ==
  ASSUME LimiterInv, LimiterTick
  PROVE  LimiterInv'
  <1>1. now \in Nat /\ now' = now + 1 /\ now + 1 \in 0..MaxTicks /\ buckets' = buckets
    BY TicksAssumption DEF LimiterInv, LimiterTypeOK, LimiterTick
  <1>2. \A k \in DOMAIN buckets : k \in BucketKey /\ buckets[k] \in BucketAt(now)
    BY DEF LimiterInv, LimiterTypeOK, BucketAt
  <1>3. \A k \in DOMAIN buckets :
          /\ buckets[k] \in BucketAt(now + 1)
          /\ Available(buckets[k], now + 1) = Least(Capacity, Available(buckets[k], now) + Refill)
    BY <1>1, <1>2, AvailableLater
  <1>4. /\ DOMAIN ideal' = BucketKey
        /\ \A k \in BucketKey : ideal'[k] = Least(Capacity, ideal[k] + Refill)
    BY DEF LimiterTick
  <1>5. LimiterTypeOK'
    <2>1. \A k \in BucketKey : ideal'[k] \in Int
      BY <1>4, RateAssumption DEF Least, LimiterInv, LimiterTypeOK
    <2>2. lastSweep' \in Int /\ lastSweep' <= now'
      BY <1>1 DEF LimiterInv, LimiterTypeOK, LimiterTick
    <2>3. QED
      BY <1>1, <1>2, <1>3, <1>4, <2>1, <2>2 DEF LimiterTypeOK, BucketAt
  <1>6. Mirrors'
    <2>1. SUFFICES ASSUME NEW k \in BucketKey
                   PROVE  ideal'[k] = IF k \in DOMAIN buckets THEN Available(buckets[k], now + 1)
                                                              ELSE Capacity
      BY <1>1 DEF Mirrors, Available
    <2>2. CASE k \in DOMAIN buckets
      BY <1>3, <1>4, <2>2 DEF LimiterInv, Mirrors
    <2>3. CASE k \notin DOMAIN buckets
      BY <1>4, <2>3, RateAssumption DEF LimiterInv, Mirrors, Least
    <2>4. QED
      BY <2>2, <2>3
  <1>7. HasRoom'
    BY <1>1 DEF LimiterInv, HasRoom
  <1>8. QED
    BY <1>5, <1>6, <1>7 DEF LimiterInv

LEMMA InitHolds == newRateLimiter => LimiterInv
  <1> SUFFICES ASSUME newRateLimiter PROVE LimiterInv
    OBVIOUS
  <1>1. DOMAIN buckets = {}
    BY DEF newRateLimiter
  <1>2. LimiterTypeOK
    BY <1>1, RateAssumption, TableAssumption, TicksAssumption DEF newRateLimiter, LimiterTypeOK
  <1>3. Mirrors
    BY <1>1 DEF newRateLimiter, Mirrors
  <1>4. DOMAIN buckets \ {overflowKey} = {}
    BY <1>1
  <1>5. HasRoom
    BY <1>1, <1>4, FS_EmptySet, TableAssumption DEF HasRoom
  <1>6. QED
    BY <1>2, <1>3, <1>5 DEF LimiterInv

LEMMA NextPreserves == LimiterInv /\ [LimiterNext]_limiterVars => LimiterInv'
  <1> SUFFICES ASSUME LimiterInv, [LimiterNext]_limiterVars PROVE LimiterInv'
    OBVIOUS
  <1>1. ASSUME NEW k \in CallerKey, allow(k) \/ refuse(k) PROVE LimiterInv'
    BY <1>1, AllowPreserves, RefusePreserves DEF allow, refuse
  <1>2. ASSUME NEW a \in Address, allowAnonymous(a) \/ refuseAnonymous(a) PROVE LimiterInv'
    <2>1. anonymousKey(a) \in CallerKey
      BY DEF CallerKey
    <2>2. anonymousCost \in Nat
      BY RateAssumption DEF anonymousCost, anonWriteCost, Least
    <2>3. QED
      BY <1>2, <2>1, <2>2, AllowPreserves, RefusePreserves DEF allowAnonymous, refuseAnonymous
  <1>3. CASE UNCHANGED limiterVars
    BY <1>3 DEF limiterVars, LimiterInv, LimiterTypeOK, Mirrors, HasRoom, Available
  <1>4. QED
    BY <1>1, <1>2, <1>3, TickPreserves DEF LimiterNext

(* The table and an ideal limiter that forgets nothing agree in every      *)
(* reachable state: the invariant behind the theorems below.               *)
THEOREM LimiterInvariance == LimiterSpec => []LimiterInv
  BY InitHolds, NextPreserves, PTL DEF LimiterSpec

(* allowCost keeps the table, its clock and the buckets well-typed.        *)
THEOREM LimiterTypeCorrect == LimiterSpec => []LimiterTypeOK
  <1>1. LimiterInv => LimiterTypeOK
    BY DEF LimiterInv
  <1>2. QED
    BY <1>1, LimiterInvariance, PTL

(* Neither a sweep nor a late refill gives a bucket key (an address, or    *)
(* the shared overflow key) a token it had not earned: what the key was    *)
(* ever allowed fits one burst and the rate since its first call.          *)
THEOREM NothingGivenAway == LimiterSpec => []SweepGivesNothingAway
  <1>1. LimiterInv => SweepGivesNothingAway
    <2>1. SUFFICES ASSUME LimiterInv, NEW k \in BucketKey PROVE ideal[k] >= 0
      BY DEF SweepGivesNothingAway
    <2>2. CASE k \in DOMAIN buckets
      <3>1. now \in Nat /\ buckets[k] \in BucketAt(now)
        BY <2>1, <2>2 DEF LimiterInv, LimiterTypeOK, BucketAt
      <3>2. Available(buckets[k], now) \in 0..Capacity
        BY <3>1, AvailableType
      <3>3. QED
        BY <2>1, <2>2, <3>2, RateAssumption DEF LimiterInv, Mirrors
    <2>3. CASE k \notin DOMAIN buckets
      BY <2>1, <2>3, RateAssumption DEF LimiterInv, Mirrors
    <2>4. QED
      BY <2>2, <2>3
  <1>2. QED
    BY <1>1, LimiterInvariance, PTL

(* However many callers there are, the table holds at most maxBuckets      *)
(* buckets of their own and the overflow bucket.                           *)
THEOREM TableBounded == LimiterSpec => []TableIsBounded
  <1>1. LimiterInv => TableIsBounded
    <2>1. SUFFICES ASSUME LimiterInv PROVE Cardinality(DOMAIN buckets) <= maxBuckets + 1
      BY DEF TableIsBounded
    <2>2. /\ IsFiniteSet(DOMAIN buckets)
          /\ Cardinality(DOMAIN buckets \ {overflowKey}) <= maxBuckets
      BY <2>1 DEF LimiterInv, HasRoom
    <2>3. Cardinality(DOMAIN buckets) \in Nat
      BY <2>2, FS_CardinalityType
    <2>4. Cardinality(DOMAIN buckets \ {overflowKey}) =
            IF overflowKey \in DOMAIN buckets THEN Cardinality(DOMAIN buckets) - 1
                                              ELSE Cardinality(DOMAIN buckets)
      BY <2>2, FS_RemoveElement
    <2>5. QED
      BY <2>2, <2>3, <2>4, TableAssumption
  <1>2. QED
    BY <1>1, LimiterInvariance, PTL

-----------------------------------------------------------------------------
(* The wait a refusal announces.                                           *)

(* Division rounded up.                                                    *)
LEMMA RoundedUp ==
  ASSUME NEW x \in Nat \ {0}, NEW r \in Nat \ {0}
  PROVE  LET d == (x + r - 1) \div r
         IN  d \in Nat \ {0} /\ d * r >= x /\ (d - 1) * r < x
  OBVIOUS

(* RetryAfter is the least number of ticks after which the refused call is *)
(* allowed.                                                                *)
THEOREM RetryAfterCorrect == LimiterSpec => []RetryAfterIsExact
  <1>1. LimiterInv => RetryAfterIsExact
    <2> SUFFICES ASSUME LimiterInv, NEW k \in DOMAIN buckets, NEW cost \in {1, anonymousCost},
                        Available(buckets[k], now) < cost
                 PROVE  LET wait == RetryAfter(buckets[k], cost)
                        IN  /\ Available(buckets[k], now + wait) >= cost
                            /\ Available(buckets[k], now + wait - 1) < cost
      BY DEF RetryAfterIsExact
    <2> DEFINE b == buckets[k]
               earned == (now - b.last) * Refill
               short == cost - Available(b, now)
               wait == RetryAfter(b, cost)
    <2>1. cost \in Nat /\ cost <= Capacity
      BY RateAssumption DEF anonymousCost, anonWriteCost, Least
    <2>2. now \in Nat /\ b \in BucketAt(now) /\ b.tokens \in 0..Capacity /\ b.last \in 0..now
      BY DEF LimiterInv, LimiterTypeOK, BucketAt
    <2>3. earned \in Nat
      BY <2>2, TimesNat, RateAssumption
    <2>4. Available(b, now) = b.tokens + earned
      BY <2>1, <2>2, <2>3, RateAssumption DEF Available, Least
    <2>5. short \in Nat \ {0}
      BY <2>1, <2>2, <2>3, <2>4, RateAssumption
    <2>6. wait = (short + Refill - 1) \div Refill
      BY DEF RetryAfter
    <2>7. wait \in Nat \ {0} /\ wait * Refill >= short /\ (wait - 1) * Refill < short
      <3> HIDE DEF short, wait
      <3>1. QED
        BY <2>5, <2>6, RoundedUp, RateAssumption
    <2> HIDE DEF wait
    <2>8. /\ (now + wait - b.last) * Refill = earned + wait * Refill
          /\ (now + wait - 1 - b.last) * Refill = earned + (wait - 1) * Refill
      BY <2>2, <2>7, RateAssumption
    <2>9. wait * Refill \in Nat /\ (wait - 1) * Refill \in Nat
      BY <2>7, TimesNat, RateAssumption
    <2>10. Available(b, now + wait) >= cost
      BY <2>1, <2>2, <2>3, <2>4, <2>7, <2>8, <2>9, RateAssumption DEF Available, Least
    <2>11. Available(b, now + wait - 1) < cost
      BY <2>1, <2>2, <2>3, <2>4, <2>7, <2>8, <2>9, RateAssumption DEF Available, Least
    <2>12. QED
      BY <2>10, <2>11 DEF wait
  <1>2. QED
    BY <1>1, LimiterInvariance, PTL
=============================================================================
