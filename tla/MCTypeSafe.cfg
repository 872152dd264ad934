\* Rows and documents, with retries.
CONSTANTS
    Null = Null
    Contracts <- SomeContracts
    States <- SomeStates
    Documents <- SomeDocuments
    MaxQuestions = {0, 2, 4}
    Window = 2
    Budget = 2
SPECIFICATION FairSpec
INVARIANTS RetriesAreSpentWell EveryLineItsOwn
PROPERTY EvaluationEnds
\* An evaluation ends.
CHECK_DEADLOCK FALSE
