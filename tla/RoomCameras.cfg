SPECIFICATION Spec
CONSTANTS
  Cameras = {c1}
  Views = {"drive", "spectate", "mini"}
  SUBSCRIBE_LIMIT = 2
  MaxSockets = 2
  MaxChanges = 2
  MaxFlight = 2
INVARIANTS SubscriptionsFollow
PROPERTY RecoveredPlays
CHECK_DEADLOCK FALSE
