SPECIFICATION WatchedSpec
CONSTANTS
    Caller = {c1, c2}
    Request = {c1, c2}
    Bucket = {"SERVICESETTINGS"}
    Key = {k1, k2}
    Payload = {p1, e}
    NoPayload = none
    EmptyDoc = e
    RowId = {1, 2}
    KnownKey = {k1, k2}
    NoKey = nokey
    Sqlite = FALSE
    Opting = {TRUE, FALSE}
    MaxRequests = 3
    MaxClock = 3
    MaxRevision = 20
SYMMETRY RequestSymmetry
INVARIANTS
    SSTypeOK
    PublishedWasCommitted
    DriftHasACause
PROPERTY
    GuardedUpdateSawTheRow
