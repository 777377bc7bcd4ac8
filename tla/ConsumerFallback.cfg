SPECIFICATION CCSpec
CONSTANTS
    Item = {"settings", "foreign", "bundle"}
    Scoped = TRUE
    Fallbacks = {"usable"}
    MaxCommits = 2
    MaxFaults = 0
CHECK_DEADLOCK FALSE
PROPERTY
    KvEntriesWin
