SPECIFICATION LimiterSpec
CONSTANTS
    Address = {"a1"}
    TokenName = {"t1"}
    Capacity = 3
    Refill = 2
    idleBucketTTL = 2
    sweepInterval = 1
    maxBuckets = 2
    MaxTicks = 5
INVARIANTS
    LimiterTypeOK
    SweepGivesNothingAway
    TableIsBounded
    RetryAfterIsExact
