SPECIFICATION AppSpec
CONSTANTS
    Address = {"proxy"}
    TokenName = {"narrow", "shared"}
    Capacity = 2
    Refill = 1
    idleBucketTTL = 2
    sweepInterval = 1
    maxBuckets = 8
    MaxTicks = 0
    Slot = {1, 2}
    Env = {1, 2}
    NarrowScope = {1}
    MaxWrites = 2
CHECK_DEADLOCK FALSE
INVARIANTS
    AppTypeOK
    AuthIsNeverSilentlyOff
    AnonymousNeverLocksOut
    EveryWriteIsOnRecord
    NobodyIsCutOff
PROPERTIES
    WritesStayInScope
    ShutdownEnds
