CONSTANTS
    Commands = {k1, k2}
    NoCommand = NoCommand
    MaxConns = 2
    MaxFlight = 2
    MaxFrames = 1
SPECIFICATION Spec
INVARIANTS
    ToldIsTrue
    AloneIsListed
PROPERTIES
    ClosedIsUnlisted
    CommandsAreAnswered
    OldForwardersEnd
CHECK_DEADLOCK FALSE
