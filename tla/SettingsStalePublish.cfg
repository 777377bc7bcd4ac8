SPECIFICATION WatchedSpec
CONSTANTS
    Caller = {c1, c2}
    Request = {c1, c2}
    Bucket = {"SERVICESETTINGS"}
    Key = {k1}
    Payload = {p1, p2, e}
    NoPayload = none
    EmptyDoc = e
    RowId = {1}
    KnownKey = {k1}
    NoKey = nokey
    Sqlite = TRUE
    Opting = {FALSE}
    MaxRequests = 3
    MaxClock = 1
    MaxRevision = 20
SYMMETRY RequestSymmetry
INVARIANT
    NewerUpdateWins
