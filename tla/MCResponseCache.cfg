\* Any three of two batches, two prunes and a clear over one directory, with
\* crashes and a part that cannot be read.
CONSTANTS
    k1 = k1
    k2 = k2
    Batches = {b1, b2}
    Pruners = {p1, p2}
    Clearers = {c1}
    Keys = {k1, k2}
    Jobs <- BothPaths
    HasSchema = FALSE
    PruneTtl = 1
    Never = Never
    Left <- LeftDirectories
    MaxActive = 2
    MaxStarted = 3
    MaxClock = 2
    MaxFaults = 1
SPECIFICATION Spec
SYMMETRY ActorSymmetry
INVARIANTS PruneIsInvisible ServedIsFresh ClearIsFull
\* Every operation ends, and the model has finitely many of them.
CHECK_DEADLOCK FALSE
