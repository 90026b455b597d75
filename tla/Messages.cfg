SPECIFICATION FairSpec
CONSTANTS
    Job = {j1}
    Worker = {w1, w2}
    None = None
    Envs <- MCEnvs
    MaxTries = 2
    MaxMishaps = 1
    MaxReports = 3
    Page = {p1, p2}
    MaxLinks = 2
    MaxFailedAttempts = 2
CHECK_DEADLOCK FALSE
INVARIANTS
    TypeOK
    StatusIsFurthest
    NothingVanishes
    OfferedChannelsSend
    GuessesBounded
PROPERTIES
    BurntUntilReissued
    JobsEnd
