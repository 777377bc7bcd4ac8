SPECIFICATION SpentSpec
CONSTANTS
    Caller = {c1, rec}
    Request = {c1}
    Rec = rec
    Bucket = {"SERVICESETTINGS"}
    Key = {k1}
    Payload = {p1, p2, e}
    NoPayload = none
    EmptyDoc = e
    RowId = {1}
    KnownKey = {k1}
    NoKey = nokey
    Sqlite = TRUE
    Opting = {FALSE}
    FullSweepEvery = 3
    Overlap = 1
    MinPruneKeys = 1
    PruneNum = 1
    PruneDen = 5
    MaxStall = 1
    MaxFaults = 1
    MaxRequests = 2
    MaxClock = 3
    MaxRevision = 30
INVARIANTS
    RecTypeOK
    WindowCoversDrift
PROPERTY
    RowsConverge
