CONSTANTS
    b1 = b1
    b2 = b2
    a = a
    x = x
    y = y
    Backend = {b1, b2}
    Service = {a, x, y}
    Offer <- GrowingOffer
    NoBackend = NoBackend
    Capacity = 3
    SeqModulus = 3
    MaxSkippedCycles = 0
    MayShutdown = FALSE
    MaxWaiting = 2
SPECIFICATION Spec
INVARIANT FiledAsAnnounced
