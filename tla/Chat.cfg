SPECIFICATION Spec
CONSTANTS
  Rovers = {r1}
  Pages = {p1}
  Drivers = {p1}
  RATE_LIMIT_WINDOW = 1
  RATE_LIMIT_MAX = 1
  MaxShown = 1
  MaxEvents = 1
  MaxSaid = 2
  MaxConnects = 2
INVARIANTS SaidOnce PresenceIsTrue
PROPERTY PageSettles
CHECK_DEADLOCK FALSE
