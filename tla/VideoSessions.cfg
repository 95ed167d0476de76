CONSTANTS
    MaxSockets = 2
    MaxRequests = 4
    MaxChanges = 4
    MaxFlight = 2
SPECIFICATION Spec
INVARIANTS
    NoRequestLost
PROPERTIES
    GrantedPlays
