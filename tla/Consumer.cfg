SPECIFICATION CCFairSpec
CONSTANTS
    Item = {"settings", "foreign", "bundle"}
    Scoped = TRUE
    Fallbacks = {"none", "unusable", "limited"}
    MaxCommits = 2
    MaxFaults = 1
CHECK_DEADLOCK FALSE
INVARIANTS
    CCTypeOK
    NothingIsLost
    CacheStaysInScope
    HydrationIsHonest
    NothingLeftOpen
PROPERTY
    WatcherConverges
