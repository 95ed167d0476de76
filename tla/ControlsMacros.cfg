SPECIFICATION Spec
CONSTANTS
  None = None
  Rovers = {r1, r2}
  Contested = {r1}
  Layouts = {"desktop", "mobile-portrait"}
  Users <- MacroUsers
  Mapped <- MacroMapped
  MaxHeld = 2
  Rebindable = {"songNoteUp"}
  NewKeys <- NewSongKeys
  Remappable = {}
  Servo <- TwoServos
  Leftovers = {}
  NoteRange <- TwoNotes
  DefaultNote = 60
  Lights = {}
  MaxMacros = 1
INVARIANTS ControlsInvariant KeysInvariant NobodyLeftSeeking
CHECK_DEADLOCK FALSE
