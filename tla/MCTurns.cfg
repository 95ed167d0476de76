CONSTANTS
    c1 = c1
    c2 = c2
    c3 = c3
    Sockets <- Clients
    Admins <- AdminClients
    NoOne = NoOne
    TurnDuration = 3
    IdleTimeout = 2
    MaxIdleSkips = 2
    MaxRestarts = 2
SPECIFICATION FairWatchSpec
INVARIANTS
    HolderIsQueued
    TurnAlwaysEnds
    TurnLength
PROPERTIES
    TurnsComeInOrder
    OnlyIdlersAreSkipped
    ImplementsRotation
    NobodyStarves
