SPECIFICATION Spec
CONSTANTS
  None = None
  Rovers = {r1}
  Contested = {r1}
  Layouts = {"desktop", "mobile-portrait"}
  Users <- DriveUsers
  Mapped <- DriveMapped
  MaxHeld = 1
  Rebindable = {}
  NewKeys = {}
  Remappable = {"drive"}
  Servo <- NoServo
  Leftovers <- FullSpeed
  NoteRange <- OneNote
  DefaultNote = 60
  Lights = {}
  MaxMacros = 1
INVARIANTS ControlsInvariant
PROPERTY StopsInTheEnd
CHECK_DEADLOCK FALSE
