CONSTANTS
    b1 = b1
    b2 = b2
    a = a
    ax = ax
    NoHost = NoHost
    AnyService = AnyService
    t1 = t1
    Backend = {b1, b2}
    Service = {a}
    Offer <- SharedOffer
    Prefix <- APrefix
    Under <- RootUnder
    InfoBackend = {b1, b2}
    Thread = {t1}
    RemoveService = {AnyService}
    SeqModulus = 3
    MaxSkippedCycles = 0
    InOrder = TRUE
    MaxEntries = 3
    MaxUnanswered = 1
SPECIFICATION Spec
SYMMETRY Symmetry
INVARIANT ChosenIsReturned
INVARIANT InfoMatchesRoutes
