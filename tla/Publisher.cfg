SPECIFICATION OneBucketSpec
CONSTANTS
    Caller = {c1, c2}
    Bucket = {"FLAGS", "LOCALIZATION"}
    Key = {k1}
    Payload = {p1, p2, e}
    NoPayload = none
    EmptyDoc = e
    MaxClock = 2
    MaxRevision = 3
SYMMETRY Symmetry
INVARIANT TypeOK
PROPERTIES
    FlagStampsNeverGoBack
    EveryRevisionIsAChange
    PublishIsAtomic
    ConflictMeansContention
