CONSTANTS
    b1 = b1
    b2 = b2
    a = a
    ax = ax
    NoHost = NoHost
    AnyService = AnyService
    t1 = t1
    Backend = {b1, b2}
    Service = {a}
    Offer <- SharedOffer
    Prefix <- APrefix
    Under <- RootUnder
    InfoBackend = {}
    Thread = {t1}
    RemoveService = {a}
    SeqModulus = 3
    MaxSkippedCycles = 1
    InOrder = FALSE
    MaxEntries = 3
    MaxUnanswered = 0
SPECIFICATION Spec
INVARIANT PrefixRegistered
