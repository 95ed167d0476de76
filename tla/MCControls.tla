----------------------------- MODULE MCControls -----------------------------
(* Small keyboards, gamepads and rovers for the controls of the web client: *)
(* each user has some of them, so that what they do adds up, and what one   *)
(* user does at once multiplies                                             *)
EXTENDS Controls

Key(plain, shifted, code) == [plain |-> plain, shifted |-> shifted, code |-> code]
KeyW == Key("w", "W", "KeyW")
KeySemicolon == Key(";", ":", "Semicolon")
KeyShift == Key("Shift", "Shift", "ShiftLeft")
KeyEnter == Key("Enter", "Enter", "Enter")
KeyF == Key("f", "F", "KeyF")
KeyU == Key("u", "U", "KeyU")
KeySlash == Key("/", "?", "Slash")
Key1 == Key("1", "!", "Digit1")

\* A pad with its stick pulled (and trembling sideways) and a trigger pressed,
\* and a thumb that moves so little that the smoothed vector has one value
Pulled == [x |-> 10, y |-> -100, main |-> 100, side |-> 0, camera |-> 0, buttons |-> {}]
SlightThumb == [Rest EXCEPT !.y = 2]

\* Driving: with a drive key or the key of the vacuum, a pad, the joystick, and
\* the buttons of the motors, some of them at once
DriveUsers ==
  {User({KeyW}, {None, Pulled}, {SlightThumb}, {"mainForward"}, {"joystick"}),
   User({KeySemicolon}, {None, Pulled}, {}, {"mainForward", "vacuumFast", "stopAll"}, {}),
   User({KeyW, KeySemicolon}, {None, Pulled}, {}, {}, {"settings"})}
DriveMapped == {"drive", "main"}

\* A pad with the camera's axis pulled, a toggle and the macro's button pressed
Pressed == [x |-> 0, y |-> 0, main |-> 0, side |-> 0, camera |-> -100,
            buttons |-> {"mainReverse", "driveMacro"}]

\* Macros by key, by button and by pad; a camera tilted by key and by pad; keys
\* whose shifted character is another, with an alias and without, the chat's
\* key and a field
MacroUsers ==
  {User({KeyF}, {}, {}, {}, {"dockButtons"}),
   User({KeyU}, {None, Pressed}, {}, {}, {}),
   User({KeySlash, KeyShift, KeyEnter}, {}, {}, {}, {"settings", "field"}),
   User({Key1, KeyShift}, {}, {}, {}, {"settings"})}
MacroMapped == {"camera", "mainReverse", "driveMacro"}
NewSongKeys == {KeySlash, Key1}

\* Another driver drives the rover at full speed, its vacuum on
FullSpeed == {<<[left |-> 250, right |-> 250], AUX_BUTTONS["vacuumFast"]>>}

NoServo == [r \in Rovers |-> None]
TwoServos == [r \in Rovers |-> IF r = CHOOSE s \in Rovers : TRUE
                               THEN [min |-> -1, max |-> 1, home |-> 0, nudge |-> 1]
                               ELSE [min |-> 0, max |-> 0, home |-> 0, nudge |-> 1]]
TwoNotes == <<60, 61>>
OneNote == <<60, 60>>
=============================================================================
