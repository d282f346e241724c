SPECIFICATION Spec
CONSTANTS
    Readers = {r1, r2}
    Lag = 0
    MaxTime = 3
    None = None
SYMMETRY ReaderSymmetry
INVARIANT KeyOfTheSnapshot
CHECK_DEADLOCK FALSE
