\* A plain-text run whose requests go through the prompt-cache warming path.
CONSTANTS
    a = a
    b = b
    c = c
    f1 = f1
    f2 = f2
    Null = Null
    None = None
    Runs = {r1, r2}
    Inputs = {a, b}
    Fingerprints = {f1}
    Jobs <- PairJobs
    FlushEvery = 2
    HasSchema = FALSE
    CacheWarming = TRUE
    MaxActive = 1
    MaxClock = 1
SPECIFICATION Spec
SYMMETRY RunSymmetry
INVARIANT StoreIsFaithful
\* Every run ends, and the model has finitely many of them.
CHECK_DEADLOCK FALSE
