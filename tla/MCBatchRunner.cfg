\* Every strategy and setting over mixed columns.
CONSTANTS
    long1 = long1
    long2 = long2
    short = short
    NoPrompt = NoPrompt
    Null = Null
    Unset = Unset
    Columns <- MixedColumns
    Prompts = {long1, long2, short}
    Cacheable = {long1, long2}
    Strategies = {"off", "none", "system_prompt", "schema"}
    Settings = {Unset, 0, 2}
    DefaultWindow = 64
SPECIFICATION FairSpec
INVARIANTS WarmsFirst
PROPERTIES ImplementsRowCalls CallReturns
\* A call ends when it has returned.
CHECK_DEADLOCK FALSE
