SPECIFICATION Spec
CONSTANTS
    Threads = {t1, t2}
    Importer = t1
    SessionIds = {s1, s2, s3}
    Locations = {"US", "EU"}
    MaxCalls = 5
    MaxDepth = 2
    None = None
INVARIANT GetReturnsASession
CHECK_DEADLOCK FALSE
