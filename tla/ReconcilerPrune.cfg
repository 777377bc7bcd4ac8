SPECIFICATION FilledSpec
CONSTANTS
    Caller = {c1, rec}
    Request = {c1}
    Rec = rec
    Bucket = {"SERVICESETTINGS"}
    Key = {k1, k2, k3}
    Payload = {p1, e}
    NoPayload = none
    EmptyDoc = e
    RowId = {1, 2, 3}
    KnownKey = {k1, k2, k3}
    NoKey = nokey
    Sqlite = TRUE
    Opting = {FALSE}
    FullSweepEvery = 2
    Overlap = 0
    MinPruneKeys = 1
    PruneNum = 1
    PruneDen = 5
    MaxStall = 0
    MaxFaults = 1
    MaxRequests = 2
    MaxClock = 1
    MaxRevision = 30
PROPERTY
    PruneSparesListedRows
    KvConverges
