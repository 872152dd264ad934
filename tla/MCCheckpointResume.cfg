\* Three runs over one directory, one after the other, each of which may
\* crash anywhere: the resume story.
CONSTANTS
    a = a
    b = b
    c = c
    f1 = f1
    f2 = f2
    Null = Null
    None = None
    Runs = {r1, r2, r3}
    Inputs = {a, b, c}
    Fingerprints = {f1}
    Jobs <- ResumeJobs
    FlushEvery = 2
    HasSchema = FALSE
    CacheWarming = FALSE
    MaxActive = 1
    MaxClock = 1
SPECIFICATION Spec
SYMMETRY RunSymmetry
INVARIANTS AtMostOneChunkLost ResultsAreFaithful
PROPERTIES PaysOnlyForPending ImplementsMemo
\* Every run ends, and the model has finitely many of them.
CHECK_DEADLOCK FALSE
