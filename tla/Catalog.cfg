SPECIFICATION CatalogSpec
CONSTANTS
    Caller = {c1, c2}
    Request = {c1, c2}
    c1 = c1
    c2 = c2
    Bucket = {"FLAGS", "LOCALIZATION"}
    Key = {e1, e2}
    e1 = e1
    e2 = e2
    Service = m
    NoKey = nokey
    Payload = {p1, p2, e}
    EmptyDoc = e
    NoPayload = none
    FlagId = {1, 2}
    RowId = {1, 2, 3, 4}
    MaxRequests = 2
    MaxFaults = 1
    MaxClock = 1
    MaxRevision = 20
SYMMETRY CatalogSymmetry
INVARIANTS CatalogTypeOK ReferencesHold CatalogDriftHasACause
CHECK_DEADLOCK FALSE
