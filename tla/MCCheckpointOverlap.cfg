\* Runs that overlap two at a time, with crashes, under a schema.
CONSTANTS
    a = a
    b = b
    c = c
    f1 = f1
    f2 = f2
    Null = Null
    None = None
    Runs = {r1, r2}
    Inputs = {a, b}
    Fingerprints = {f1, f2}
    Jobs <- OverlapJobs
    FlushEvery = 1
    HasSchema = TRUE
    CacheWarming = TRUE
    MaxActive = 2
    MaxClock = 1
SPECIFICATION FairSpec
INVARIANTS StoreIsFaithful DuplicateRowsAgree ReturnedIsStored
PROPERTY RunsEnd
\* Every run ends, and the model has finitely many of them.
CHECK_DEADLOCK FALSE
