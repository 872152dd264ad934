\* Three streams through a channel of two slots, two of them at a time, with
\* interrupts and a callback that raises.
CONSTANTS
    Columns <- MixedColumns
    Capacity = 2
    MaxConcurrency = 2
    MaxDeltas = 2
SPECIFICATION FairSpec
INVARIANTS TextIsPrefix FinishedIsWhole NoSilentLoss
PROPERTY PumpReturns
\* The call returns.
CHECK_DEADLOCK FALSE
