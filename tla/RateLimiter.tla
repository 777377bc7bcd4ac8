---------------------------- MODULE RateLimiter ----------------------------
(***************************************************************************)
(* internal/app/ratelimit.go: token buckets per caller, in a table that is *)
(* bounded, swept of idle entries, and shared through one overflow bucket  *)
(* once it is full.                                                        *)
(*                                                                         *)
(* allowCost holds the limiter's mutex throughout, so a call is one step.  *)
(* Tokens are counted in whole writes and time in ticks; a tick stands for *)
(* the time in which Refill tokens come back.                              *)
(***************************************************************************)
EXTENDS Integers, FiniteSets

CONSTANTS
    Address,         \* peer addresses
    TokenName,       \* names of configured admin tokens
    Capacity,        \* the burst: WRITE_RATE_LIMIT_PER_MINUTE, when it is positive
    Refill,          \* tokens that come back in a tick
    idleBucketTTL,   \* ticks an unused bucket is kept
    sweepInterval,   \* ticks between two sweeps
    maxBuckets,      \* buckets of their own the table holds
    MaxTicks         \* bound on the clock

ASSUME RateAssumption == Capacity \in Nat \ {0} /\ Refill \in Nat \ {0}
ASSUME TableAssumption == maxBuckets \in Nat /\ sweepInterval \in Nat
ASSUME TicksAssumption == MaxTicks \in Nat

(* A bucket is kept at least as long as it takes to fill up: ten minutes   *)
(* against one.                                                            *)
ASSUME IdleAssumption ==
    idleBucketTTL \in Nat /\ idleBucketTTL * Refill >= Capacity

VARIABLES
    buckets,     \* the table: a function from the keys present to buckets
    lastSweep,
    now,
    ideal        \* ideal[k]: what bucket k would hold if it were never dropped

limiterVars == <<buckets, lastSweep, now, ideal>>

overflowKey == <<"overflow", "">>

(* Whom a call is charged to: four namespaces that never meet.             *)
addressKey(a) == <<"ip", a>>
anonymousKey(a) == <<"anon", a>>
tokenKey(n) == <<"t", n>>
inventoryKey(n, a) == IF n = "" THEN <<"inv", a>> ELSE <<"inv:t", n>>

InventoryKey == {inventoryKey(n, a) : n \in TokenName \cup {""}, a \in Address}

CallerKey == {addressKey(a) : a \in Address}
             \cup {anonymousKey(a) : a \in Address}
             \cup {tokenKey(n) : n \in TokenName}
             \cup InventoryKey

BucketKey == CallerKey \cup {overflowKey}

Least(x, y) == IF x <= y THEN x ELSE y

anonWriteCost == 4

(* A write without a credential costs four, or the whole budget if that is *)
(* less.                                                                   *)
anonymousCost == Least(anonWriteCost, Capacity)

(* A rate of zero or less gives a nil limiter, which keeps no table and    *)
(* refuses nothing; this is the other one.                                 *)
newRateLimiter ==
    /\ buckets = [k \in {} |-> 0]
    /\ lastSweep = 0 - sweepInterval
    /\ now = 0
    /\ ideal = [k \in BucketKey |-> Capacity]

-----------------------------------------------------------------------------
(* Fault: an idle bucket goes on filling past its capacity.                *)
AvailableUncapped(b, t) == b.tokens + (t - b.last) * Refill

(* What a bucket holds at time t.                                          *)
Available(b, t) == Least(Capacity, b.tokens + (t - b.last) * Refill)

(* Fault: a bucket is dropped as soon as a sweep finds it unused.          *)
sweepEager(table) ==
    [k \in {j \in DOMAIN table : now - table[j].last < sweepInterval} |-> table[k]]

sweep(table) ==
    [k \in {j \in DOMAIN table : now - table[j].last <= idleBucketTTL} |-> table[k]]

(* The sweep runs on a key not in the table, and not more than once per    *)
(* interval.                                                               *)
Sweeps(k) == k \notin DOMAIN buckets /\ now - lastSweep >= sweepInterval

Swept(k) == IF Sweeps(k) THEN sweep(buckets) ELSE buckets

(* Fault: the table takes one more entry than it may.                      *)
ChargedOneMore(k) ==
    IF k \notin DOMAIN buckets /\ Cardinality(DOMAIN Swept(k)) > maxBuckets
      THEN overflowKey ELSE k

(* The bucket that pays: a new caller is sent to the overflow bucket when  *)
(* the table is full.                                                      *)
Charged(k) ==
    IF k \notin DOMAIN buckets /\ Cardinality(DOMAIN Swept(k)) >= maxBuckets
      THEN overflowKey ELSE k

Bucket(k) ==
    IF Charged(k) \in DOMAIN Swept(k)
      THEN Swept(k)[Charged(k)]
      ELSE [tokens |-> Capacity, last |-> now]

Affords(k, cost) == Available(Bucket(k), now) >= cost

Store(k, tokens) ==
    /\ buckets' = [j \in DOMAIN Swept(k) \cup {Charged(k)} |->
                     IF j = Charged(k) THEN [tokens |-> tokens, last |-> now]
                                       ELSE Swept(k)[j]]
    /\ lastSweep' = IF Sweeps(k) THEN now ELSE lastSweep
    /\ UNCHANGED now

allowCost(k, cost) ==
    /\ Affords(k, cost)
    /\ Store(k, Available(Bucket(k), now) - cost)
    /\ ideal' = [ideal EXCEPT ![Charged(k)] = @ - cost]

refuseCost(k, cost) ==
    /\ ~Affords(k, cost)
    /\ Store(k, Available(Bucket(k), now))
    /\ UNCHANGED ideal

allow(k) == allowCost(k, 1)
refuse(k) == refuseCost(k, 1)
allowAnonymous(a) == allowCost(anonymousKey(a), anonymousCost)
refuseAnonymous(a) == refuseCost(anonymousKey(a), anonymousCost)

(* Fault: the wait is rounded down.                                        *)
RetryAfterDown(b, cost) == (cost - Available(b, now)) \div Refill

(* What a refusal tells the caller to wait.                                *)
RetryAfter(b, cost) == (cost - Available(b, now) + Refill - 1) \div Refill

LimiterTick ==
    /\ now < MaxTicks
    /\ now' = now + 1
    /\ ideal' = [k \in BucketKey |-> Least(Capacity, ideal[k] + Refill)]
    /\ UNCHANGED <<buckets, lastSweep>>

LimiterNext ==
    \/ \E k \in CallerKey \ {anonymousKey(a) : a \in Address} : allow(k) \/ refuse(k)
    \/ \E a \in Address : allowAnonymous(a) \/ refuseAnonymous(a)
    \/ LimiterTick

LimiterSpec == newRateLimiter /\ [][LimiterNext]_limiterVars

-----------------------------------------------------------------------------
(* Properties *)

(* Type correctness of the table and its clock.                            *)
LimiterTypeOK ==
    /\ DOMAIN buckets \subseteq BucketKey
    /\ \A k \in DOMAIN buckets : buckets[k] \in [tokens : 0..Capacity, last : 0..now]
    /\ now \in 0..MaxTicks
    /\ lastSweep \in Int
    /\ lastSweep <= now
    /\ DOMAIN ideal = BucketKey
    /\ \A k \in BucketKey : ideal[k] \in Int

(* No sequence of calls, idle times, sweeps and overflows lets a bucket    *)
(* spend more than one that was never dropped could: a dropped bucket that *)
(* comes back full had already filled up.  This is per bucket, of a caller *)
(* or the shared overflow: a caller that is charged to the overflow bucket *)
(* and, when a sweep has made room, to one of its own draws on both.       *)
SweepGivesNothingAway == \A k \in BucketKey : ideal[k] >= 0

(* The table never outgrows its bound, the one overflow bucket included,   *)
(* however many callers there are.                                         *)
TableIsBounded == Cardinality(DOMAIN buckets) <= maxBuckets + 1

(* The wait a refusal announces is enough, and not a tick too long: nobody *)
(* else spending, the same call is then allowed.                           *)
RetryAfterIsExact ==
    \A k \in DOMAIN buckets, cost \in {1, anonymousCost} :
       Available(buckets[k], now) < cost
       => LET wait == RetryAfter(buckets[k], cost)
          IN  /\ Available(buckets[k], now + wait) >= cost
              /\ Available(buckets[k], now + wait - 1) < cost
=============================================================================
