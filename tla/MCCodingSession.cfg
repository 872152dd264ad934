\* Five rows to cluster, four to review twice, and a run recorded or not.
CONSTANTS
    None = None
    NoValue = NoValue
    Words = {"fee"}
    NExemplars = 2
    MaxDemos = 2
    Clusterings <- SessionClusterings
    Columns <- SessionColumns
    N = 4
    MaxRounds = 2
    MaxFilled = 2
    Configs <- SessionConfigs
    RunEnvironments <- SessionEnvironments
SPECIFICATION Spec
INVARIANTS CodebookPartitions QuotasAreFair GoldIsWhatReviewersWrote ReplayIsTheSameRequest
\* A session ends.
CHECK_DEADLOCK FALSE
