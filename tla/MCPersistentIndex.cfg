\* Two ids, three internal ids, with and without automatic compaction.
CONSTANTS
    a = a
    b = b
    Ids = {a, b}
    Vectors = {0, 1}
    Batches <- SmallBatches
    Params <- BothParams
    MaxId = 3
    NoIndex = NoIndex
SPECIFICATION Spec
INVARIANTS StructuresAgree QueryIsExact
PROPERTY ImplementsMap
