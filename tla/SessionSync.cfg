SPECIFICATION Spec
CONSTANTS
  None = None
  Pages = {p1, p2}
  Entities = {e1}
  MaxChanges = 2
  MaxCalls = 1
  MaxEvents = 3
  MaxPresses = 1
INVARIANT ShownIsCurrent
PROPERTY EverybodyComesToSee
CHECK_DEADLOCK FALSE
