CONSTANTS
    b1 = b1
    b2 = b2
    Backend = {b1, b2}
    SeqModulus = 4
    MaxSkippedCycles = 2
    MaxResponses = 1
    MaxDelay = 0
    Removable = {b1}
    FixedPort = TRUE
    MayShutdown = FALSE
SPECIFICATION ReliableSpec
INVARIANT OneHeartbeat
PROPERTY AllOrNothing
PROPERTY ServingBackendRouted
