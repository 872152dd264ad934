\* Both paths, with and without tools, from either kind of session.
CONSTANTS
    search = search
    lookup = lookup
    stray = stray
    Null = Null
    Unreadable = Unreadable
    None = None
    Tools = {search, lookup, stray}
    Pages <- TwoPages
    Columns <- ToolColumns
    Concurrencies = {0, 2}
SPECIFICATION FairSpec
INVARIANTS ListedInFull RowsTellTheTruth
PROPERTIES VerdictIsFinal BatchEnds
\* A batch ends.
CHECK_DEADLOCK FALSE
