CONSTANTS
    b1 = b1
    b2 = b2
    b3 = b3
    Backend = {b1, b2, b3}
    Config <- Settings
    Client <- Addresses
    Agent <- Agents
    Cookie <- Cookies
    Score <- Ranks
    ConnectionSlack = 1
    MaxInt = 7
    OutOfRange <- LeastInt
    Vanishing = 2
    MaxInfos = 3
    MaxConns = 3
SPECIFICATION Spec
INVARIANT TypeOK
INVARIANT DistInRange
INVARIANT StickyIsRendezvous
PROPERTY FewestConnections
PROPERTY OnlyChangedRemaps
PROPERTY OnlyHotspotsSpill
PROPERTY ListSpec
