CONSTANTS
    b1 = b1
    b2 = b2
    a = a
    x = x
    y = y
    Backend = {b1, b2}
    Service = {a, x, y}
    Offer <- GrowingOffer
    NoBackend = NoBackend
    Capacity = 2
    SeqModulus = 3
    MaxSkippedCycles = 0
    MayShutdown = TRUE
    MaxWaiting = 2
SPECIFICATION FairSpec
INVARIANT TypeOK
INVARIANT OneMoreThanCarried
INVARIANT ReadsOwnReply
PROPERTY FullSocketDrains
CHECK_DEADLOCK FALSE
