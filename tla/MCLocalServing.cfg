\* Two threads, each with any of the jobs.
CONSTANTS
    Null = Null
    Threads = {t1, t2}
    Jobs <- LocalJobs
    Environments <- LocalEnvironments
    Bad <- LocalBad
    DefaultChunk = 2
    MinPrefixTokens = 1
    PrefillStepSize = 2
    MaxEntries = 1
    OnLongerCache = "raise"
    Encode <- MCEncode
SPECIFICATION FairSpec
INVARIANTS RowsAnswerTheirPrompt BuiltOnce RequestsStayLocal ReuseIsSound
PROPERTIES JobsEnd
\* Jobs end.
CHECK_DEADLOCK FALSE
