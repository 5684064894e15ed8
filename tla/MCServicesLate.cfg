CONSTANTS
    b1 = b1
    b2 = b2
    a = a
    ax = ax
    NoHost = NoHost
    AnyService = AnyService
    t1 = t1
    Backend = {b1, b2}
    Service = {a}
    Offer <- SharedOffer
    Prefix <- NoPrefix
    Under <- RootUnder
    InfoBackend = {}
    Thread = {t1}
    RemoveService = {AnyService}
    SeqModulus = 3
    MaxSkippedCycles = 1
    InOrder = FALSE
    MaxEntries = 3
    MaxUnanswered = 0
SPECIFICATION Spec
INVARIANT TypeOK
INVARIANT SameBackends
INVARIANT SlotInRange
INVARIANT SentinelKnown
INVARIANT ActiveAtOnce
PROPERTY TableSpec
PROPERTY NothingMissed
