SPECIFICATION Spec
CONSTANTS
    Readers = {r1, r2}
    Lag = 1
    MaxTime = 4
    None = None
SYMMETRY ReaderSymmetry
INVARIANTS
    TypeOK
    FrameReadsItsTable
    LiveOnlyIfReplaced
    UncachedReadsAreFresh
CHECK_DEADLOCK FALSE
