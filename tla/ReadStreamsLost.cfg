SPECIFICATION Spec
CONSTANTS
    MaxPages = 2
    CpuCount = 2
INVARIANTS
    AllPagesRead
CHECK_DEADLOCK FALSE
