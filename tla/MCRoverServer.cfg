CONSTANTS
    c1 = c1
    c2 = c2
    r1 = r1
    r2 = r2
    Sockets <- Clients
    Rovers <- AllRovers
    Accounts <- Logins
    Watchers <- Clients
    Dockable <- Docks
    NoOne = NoOne
    NoRover = NoRover
SPECIFICATION Spec
INVARIANTS
    DriversArePlaced
    NobodyWaitsInVain
    GoneMeansForgotten
PROPERTIES
    SpectatorsHear
    UsersStayPlaced
