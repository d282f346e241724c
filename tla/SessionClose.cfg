SPECIFICATION FairSpec
CONSTANTS
    Workers = {w1, w2}
    None = None
    MaxCalls = 2
    Tables = {t1, t2}
    OldUdfs = {u1}
    YoungUdfs = {u2}
    BqSessions = {s1, s2}
    Routines = {"rf", "rf2", "named", "udf"}
    Named = {"named"}
    CloudOf <- MCCloudOf
INVARIANTS
    TypeOK
    NoForgottenTable
    DatasetLookedUpOnce
    ExclusiveSession
    OneOpenSession
    QuietAfterClose
    DeployedAreOwned
    NamedFunctionsSurvive
PROPERTY CloseEnds
