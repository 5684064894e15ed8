CONSTANTS
    b1 = b1
    b2 = b2
    Backend = {b1, b2}
    SeqModulus = 4
    MaxSkippedCycles = 2
    MaxResponses = 1
    MaxDelay = 1
    Removable = {}
    FixedPort = FALSE
    MayShutdown = FALSE
SPECIFICATION Spec
INVARIANT ResponsesAreCurrent
