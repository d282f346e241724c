SPECIFICATION FairSpec
CONSTANTS
    NumBatches = 5
    NumStreams = 3
    NumRows <- MCNumRows
INVARIANTS
    TypeOK
    FailsOnlyWithTheService
PROPERTIES
    ImplementsAtomicLoad
    LoadEnds
CHECK_DEADLOCK FALSE
