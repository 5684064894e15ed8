CONSTANTS
    b1 = b1
    b2 = b2
    Backend = {b1, b2}
    SeqModulus = 3
    MaxSkippedCycles = 1
    MaxResponses = 1
    MaxDelay = 1
    Removable = {b1}
    FixedPort = FALSE
    MayShutdown = TRUE
SPECIFICATION FairSpec
INVARIANT TypeOK
INVARIANT OneHeartbeat
PROPERTY DeadBackendLeaves
PROPERTY ShutdownCompletes
