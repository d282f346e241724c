\* Up to five pages on up to two streams: a stream may have none, or so many that
\* its worker waits for room while the other one ends.
SPECIFICATION FairSpec
CONSTANTS
    MaxPages = 5
    CpuCount = 2
INVARIANTS
    TypeOK
    ReturnsAfterEveryStream
    PagesInOrder
    BoundedReadAhead
PROPERTIES
    ReadEnds
\* The generator ends.
CHECK_DEADLOCK FALSE
