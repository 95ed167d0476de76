------------------------------ MODULE Controls ------------------------------
(***************************************************************************)
(* The controls of the web client: the keyboard, the gamepad, the joystick *)
(* and buttons of a phone, and the commands they make the page send        *)
(* (src/webui/src/controls, MobileControls.jsx, DriveDockAction.jsx).      *)
(*                                                                         *)
(* Every input is on its own: each remembers the vector it sent last and   *)
(* sends only a different one, and the rover obeys whoever spoke last:     *)
(* another input, another driver, or the server that stops it.  The server *)
(* may refuse what the page sends, and the page does not ask whether it    *)
(* did.                                                                    *)
(*                                                                         *)
(* A change of rover reaches the page in three steps: the session names    *)
(* the new rover (assigned); the effects of the next rendering give the    *)
(* handlers closures over it (wired); the rendering after that sets        *)
(* state.roverId and resets the keyboard's state (settled).  Handlers may  *)
(* run between them, with the closures they have.  Timers keep the         *)
(* closures they were armed with.                                          *)
(*                                                                         *)
(* Delays are not counted: a timer may fire any time after it is armed.    *)
(***************************************************************************)
EXTENDS ControlOps, Sequences, SequencesExt

CONSTANTS Rovers,       \* the rovers a session may be assigned to
          Contested,    \* bound: those others may drive, and the server may refuse
          Layouts,      \* bound: the layouts of the page, as useLayoutMode names them
          Users,        \* bound: who may use the page: what each has at hand, see User
          MaxHeld,      \* bound: the keys held at one time
          Mapped,       \* the controls the user has mapped to the gamepad
          Rebindable,   \* bound: the bindings whose keys the user may change
          NewKeys,      \* bound: the keys the user may give them
          Remappable,   \* bound: the controls whose mapping the user may change
          Servo,        \* each rover's camera config
          NoteRange,    \* SONG_NOTE_RANGE
          DefaultNote,  \* SONG_DEFAULT_NOTE
          Leftovers,    \* what others, the server included, may make a rover do
          Lights,       \* the lights and switches of Home Assistant
          MaxMacros     \* bound: macros that wait at a pause at one time

\* What a user has at hand: the keys of the keyboard (records of plain, shifted
\* and code), what the gamepad may read (None when it is not there), where the
\* thumb may move the joystick, the buttons of AUX_BUTTONS, and what else is
\* used of "joystick", "dockButtons", "field" and "settings"
User(keys, pads, thumbs, buttons, widgets) ==
  [keys |-> keys, pads |-> pads, thumbs |-> thumbs, buttons |-> buttons, widgets |-> widgets]
Keys == UNION {u.keys : u \in Users}
Pads == UNION {u.pads : u \in Users}
Thumbs == UNION {u.thumbs : u \in Users}
Buttons == UNION {u.buttons : u \in Users}

\* The keymaps: the user gives an action one of the characters of the keys
Characters == {DEFAULT_KEYMAP[action] : action \in DOMAIN DEFAULT_KEYMAP}
              \cup {canonicalizeKeyInput(k.plain) : k \in Keys}
              \cup {canonicalizeKeyInput(k.shifted) : k \in Keys}
Keymaps == [DOMAIN DEFAULT_KEYMAP -> Characters]

\* The closures of an armed servo timer and of an armed song timer
ServoLoops == [rover : Rovers \cup {None}, step : Int, keymap : Keymaps]
SongLoops == [rover : Rovers \cup {None}, note : Int, keymap : Keymaps]

\* A rover announces the limits of a servo it has, in order (config.go), or
\* no servo; the other constants are of the kind their comments say
ASSUME ControlsConstants ==
  /\ Contested \subseteq Rovers
  /\ None \notin Rovers \cup Buttons \cup ServoLoops \cup SongLoops
  /\ \A r \in Rovers : \/ Servo[r] = None
                        \/ /\ Servo[r].min \in Int /\ Servo[r].max \in Int
                           /\ Servo[r].home \in Int /\ Servo[r].nudge \in Int
                           /\ Servo[r].min <= Servo[r].max
  /\ \A p \in Pads \ {None} : \A axis \in {"x", "y", "main", "side", "camera"} : p[axis] \in Int
  /\ \A thumb \in Thumbs : thumb.x \in Int /\ thumb.y \in Int /\ thumb.boost \in BOOLEAN
  /\ \A l \in Leftovers : l[1] \in [left : -500..500, right : -500..500]
  /\ NoteRange[1] \in Int /\ NoteRange[2] \in Int
  /\ DefaultNote \in NoteRange[1]..NoteRange[2]
  /\ MaxMacros \in Nat

VARIABLES
  user, layout, \* who uses the page, and its layout
  \* the settings: the key of each binding, the binding that waits for its new
  \* key, and the controls mapped to the gamepad
  keymap, capture, mapped,
  \* what the user does
  held, typing, pad, finger, auxHeld,
  \* the rover of the session, of the handlers, and of the controls' state;
  \* and the rovers for which the server passes on what the page sends
  assigned, wired, settled, granted,
  \* KeyboardInputManager's refs: activeTokens, lastVector, lastAux, and the
  \* closures of the armed servo and song timers; and whether the keys of
  \* these have been changed since the keyboard was last at rest (history)
  tokens, kbVector, kbAux, servoLoop, songLoop, rebound,
  \* GamepadInputManager's refs
  gpVector, gpAux, reverse, edges,
  \* the joystick: pointerIdRef and the smoothed vector; and whether the page
  \* shows the docked view, which has no joystick
  tracking, stick, docked,
  activeButton, \* AuxMotorPanel's activeRef
  \* the state of the reducer and of the drive and dock buttons
  mode, songNote, angle, pending, confirmOpen,
  macros,       \* the macros that wait at a pause
  entities,     \* the lights that are not on, None before they are known
  pendingLights,
  \* the speeds, the powers and the OI command each rover obeyed last; the
  \* rovers to which the page did not have the last word about the wheels, or
  \* about the brushes, or whose last OI command was refused (history)
  driven, brushes, oi, wheelsLoose, brushesLoose, oiRefused,
  \* the servo angle the page sent to each rover last, and whether it has
  \* toggled its night vision
  servoSent, night

page == <<user, layout>>
settings == <<keymap, capture, mapped>>
input == <<page, settings, held, typing, pad, finger, auxHeld>>
session == <<assigned, wired, settled, granted>>
keyboard == <<tokens, kbVector, kbAux, servoLoop, songLoop, rebound>>
gamepad == <<gpVector, gpAux, reverse, edges>>
joystick == <<tracking, stick, docked>>
song == <<songNote>>
camera == <<angle, servoSent>>
macro == <<mode, pending, macros, entities, pendingLights, oi, oiRefused>>
wheels == <<driven, wheelsLoose>>
motors == <<brushes, brushesLoose>>
motion == <<wheels, motors>>
vars == <<input, session, keyboard, gamepad, joystick, activeButton, song, camera,
          macro, confirmOpen, motion, night>>

Init ==
  /\ user \in Users /\ layout \in Layouts
  /\ keymap = DEFAULT_KEYMAP /\ capture = None /\ mapped = Mapped
  /\ held = {} /\ auxHeld = {} /\ typing = FALSE /\ pad = None /\ finger = FALSE
  /\ assigned = None /\ wired = None /\ settled = None /\ granted = Rovers
  /\ tokens = {} /\ kbVector = Rest /\ kbAux = Idle /\ servoLoop = None /\ songLoop = None
  /\ rebound = FALSE
  /\ gpVector = Rest /\ gpAux = Idle /\ reverse = {} /\ edges = {}
  /\ tracking = FALSE /\ stick = Rest /\ docked = FALSE
  /\ activeButton = None
  /\ mode = "drive" /\ songNote = DefaultNote /\ angle = None
  /\ pending = FALSE /\ confirmOpen = FALSE /\ macros = <<>>
  \* mode is "drive" when the page mounts, which counts as a change to it
  /\ entities = None /\ pendingLights = TRUE
  /\ driven = [r \in Rovers |-> Halt] /\ brushes = [r \in Rovers |-> Idle]
  /\ wheelsLoose = {} /\ brushesLoose = {} /\ oiRefused = {}
  /\ night = [r \in Rovers |-> FALSE]
  /\ oi = [r \in Rovers |-> None] /\ servoSent = [r \in Rovers |-> None]

-----------------------------------------------------------------------------
(* The commands (commandPipeline.js).  They go to the rover of the closure *)
(* and are dropped when there is none.  The server passes them on when the *)
(* page may drive that rover, whichever rover its session names (anybody   *)
(* may, except in the turn of another), and refuses them when it may not.  *)
(* The page has the last word when it is passed on to the session's rover. *)

HasSay == wired \in granted /\ wired = assigned
Unheeded == {wired} \cap Rovers

sendDriveDirect(speeds) ==
  /\ driven' = IF wired \in granted THEN [driven EXCEPT ![wired] = speeds] ELSE driven
  /\ wheelsLoose' = IF HasSay THEN wheelsLoose \ {wired} ELSE wheelsLoose \cup Unheeded

sendAuxMotors(values) ==
  /\ brushes' = IF wired \in granted THEN [brushes EXCEPT ![wired] = AuxPayload(values)] ELSE brushes
  /\ brushesLoose' = IF HasSay THEN brushesLoose \ {wired} ELSE brushesLoose \cup Unheeded

setDriveVector(v, options) == sendDriveDirect(computeDifferentialSpeeds(v, options))

\* An input sends its vector and its powers when they are not those it sent last
DriveFrom(v, last, options) ==
  IF v = last THEN UNCHANGED wheels ELSE setDriveVector(v, options)
\* Mutant: the end of an input's powers is not sent.
AuxFrom_NoStop(a, last) == IF a = last \/ a = Idle THEN UNCHANGED motors ELSE sendAuxMotors(a)

AuxFrom(a, last) == IF a = last THEN UNCHANGED motors ELSE sendAuxMotors(a)

stopAllMotion == sendDriveDirect(Halt) /\ sendAuxMotors(Idle)

\* servoConfig: the camera config of rover r, None without a rover
servoConfig(r) == IF r = None THEN None ELSE Servo[r]

\* setServoAngle and sendServoAngle, with the closures over rover r
setServoAngle(r, v) ==
  LET clamped == clampServoAngle(Servo[r], v)
  IN  angle' = clamped /\ servoSent' = [servoSent EXCEPT ![r] = clamped]

\* nudgeServo: delta 0 stands for the config's own step
nudgeServo(r, delta) ==
  IF servoConfig(r) = None
  THEN UNCHANGED camera
  ELSE setServoAngle(r, (IF angle = None THEN Servo[r].home ELSE angle)
                        + (IF delta = 0 THEN Servo[r].nudge ELSE delta))

\* servoStep of the keyboard: the config's step, 1 without one
servoStep == IF servoConfig(wired) = None THEN 1 ELSE Servo[wired].nudge

\* sendNightVision
toggleNightVision == night' = IF wired = None THEN night ELSE [night EXCEPT ![wired] = ~@]

\* The camera's angle when its config becomes that of rover r: kept if it fits
AngleFor(r) ==
  IF servoConfig(r) = None THEN None
  ELSE clampServoAngle(Servo[r], IF angle = None THEN Servo[r].home ELSE angle)

\* The command of a macro at its step
Command(m) == [cmd |-> DEFAULT_MACROS[m.id][m.step], by |-> m.id]

\* Mutant: a macro goes on with the rover of the page.
SendOi_Current(m) ==
  /\ oi' = IF wired \in granted THEN [oi EXCEPT ![wired] = Command(m)] ELSE oi
  /\ oiRefused' = IF wired \in granted THEN oiRefused \ {wired} ELSE oiRefused \cup Unheeded

\* sendOiCommand, to the rover of the macro's closures
SendOi(m) ==
  IF m.rover \in granted
  THEN oi' = [oi EXCEPT ![m.rover] = Command(m)] /\ oiRefused' = oiRefused \ {m.rover}
  ELSE oiRefused' = oiRefused \cup {m.rover} /\ UNCHANGED oi

\* turnOnAllLights: Home Assistant is asked for those that are off; before
\* they are known the request is kept
turnOnAllLights ==
  /\ pendingLights' = (entities = None)
  /\ entities' = IF entities = None THEN None ELSE {}

\* setMode and runMacro, for driving, docking, or one after the other: each
\* macro runs up to its first pause, which seek-dock has none of.  The effect
\* of a change of mode to drive also turns the lights on.
RunMacros(drive, dock, button) ==
  LET id == IF dock THEN "seek-dock" ELSE "drive-sequence"
  IN  /\ drive => Len(macros) < MaxMacros
      /\ mode' = IF dock THEN "dock" ELSE "drive"
      /\ IF drive THEN turnOnAllLights ELSE UNCHANGED <<entities, pendingLights>>
      /\ IF wired = None
         THEN UNCHANGED <<oi, oiRefused, macros, pending>>
         ELSE /\ SendOi([id |-> id, step |-> 1, rover |-> wired])
              /\ macros' = IF drive
                           THEN Append(macros, [id |-> "drive-sequence", step |-> 2,
                                                rover |-> wired, button |-> button])
                           ELSE macros
              /\ pending' = (pending \/ (button /\ drive))

-----------------------------------------------------------------------------
(* KeyboardInputManager.jsx *)

\* driveFromKeys, with the keymap and the tokens now active
driveFromKeys(km, now) ==
  /\ kbVector' = computeDriveVector(km, now)
  /\ kbAux' = computeAuxMotors(km, now)
  /\ DriveFrom(kbVector', kbVector, SpeedOptions(km, now))
  /\ AuxFrom(kbAux', kbAux)

\* ensureServoLoop: the timer keeps the closures of the handler that arms it
ensureServoLoop(km, now) ==
  servoLoop' = IF computeServoDirection(km, now) = 0 THEN None
               ELSE IF servoLoop # None THEN servoLoop
               ELSE [rover |-> wired, step |-> servoStep, keymap |-> km]

\* ensureSongLoop: and the note the state had when it was armed
ensureSongLoop(km, now) ==
  songLoop' = IF computeSongDirection(km, now) = 0 THEN None
              ELSE IF songLoop # None THEN songLoop
              ELSE [rover |-> wired, note |-> songNote, keymap |-> km]

\* Mutant: the rover is left as it is.
resetAll_KeepsMoving ==
  /\ tokens' = {} /\ kbVector' = Rest /\ kbAux' = Idle
  /\ servoLoop' = None /\ songLoop' = None /\ rebound' = FALSE
  /\ UNCHANGED motion

resetAll ==
  /\ tokens' = {} /\ kbVector' = Rest /\ kbAux' = Idle
  /\ servoLoop' = None /\ songLoop' = None /\ rebound' = FALSE
  /\ stopAllMotion

\* The keys that are no movement act once, when they are newly pressed
KeyActions(km, new) ==
  LET drive == new \cap Binding(km, "driveMacro") # {}
      dock == ~drive /\ new \cap Binding(km, "dockMacro") # {}
      toggle == ~drive /\ ~dock /\ new \cap Binding(km, "nightVisionToggle") # {}
  IN  /\ IF drive \/ dock THEN RunMacros(drive, dock, FALSE) ELSE UNCHANGED macro
      /\ IF toggle THEN toggleNightVision ELSE UNCHANGED night

ShiftHeld == \E k \in held : k.plain = "Shift"

\* The change to keymap km rebinds the keys of the servo or the song loop
LoopKeysChange(km) ==
  \E action \in {"cameraUp", "cameraDown", "songNoteUp", "songNoteDown"} :
    km[action] # keymap[action]

\* updateKeyBinding: the binding has the key of the event, and no other
updateKeyBinding(action, c) == [keymap EXCEPT ![action] = canonicalizeKeyInput(c)]

\* handleKeyDown; a held key repeats it.  What is typed into a field is none
\* of its business.  The chat's key resets the controls and moves to the chat.
\* A binding that waits for its key (useKeyCapture) takes it before, and the
\* page is rendered, so the same event is then handled by the new keymap.
KeyDown(k) ==
  /\ capture # None => k \in NewKeys
  /\ held' = held \cup {k} /\ Cardinality(held') <= MaxHeld
  /\ LET km == IF capture = None THEN keymap
               ELSE updateKeyBinding(capture, IF ShiftHeld THEN k.shifted ELSE k.plain)
         event == tokensForEvent(k, ShiftHeld)
         now == tokens \cup event
         chat == event \cap Binding(km, "chatFocus") # {}
     IN  /\ keymap' = km /\ capture' = None
         /\ \/ /\ typing
               /\ rebound' = (tokens # {} /\ (rebound \/ LoopKeysChange(km)))
               /\ UNCHANGED <<typing, tokens, kbVector, kbAux, servoLoop, songLoop, macro,
                              motion, night>>
            \/ /\ ~typing /\ chat
               /\ resetAll
               /\ typing' = TRUE
               /\ UNCHANGED <<macro, night>>
            \/ /\ ~typing /\ ~chat
               /\ tokens' = now /\ rebound' = (rebound \/ LoopKeysChange(km))
               /\ KeyActions(km, event \ tokens)
               /\ ensureServoLoop(km, now)
               /\ ensureSongLoop(km, now)
               /\ driveFromKeys(km, now)
               /\ UNCHANGED typing
  /\ UNCHANGED <<page, mapped, pad, finger, auxHeld, session, gamepad, joystick,
                 activeButton, song, camera, confirmOpen>>

\* handleKeyUp: also what was pressed in a field
KeyUp(k) ==
  /\ k \in held
  /\ held' = held \ {k}
  /\ tokens' = tokens \ tokensForEvent(k, ShiftHeld)
  /\ rebound' = (rebound /\ tokens' # {})
  /\ ensureServoLoop(keymap, tokens')
  /\ ensureSongLoop(keymap, tokens')
  /\ driveFromKeys(keymap, tokens')
  /\ UNCHANGED <<page, settings, typing, pad, finger, auxHeld, session, gamepad, joystick,
                 activeButton, song, camera, macro, confirmOpen, night>>

\* handleBlur: the window no longer hears of the keys that are still held
Blur ==
  /\ held' = {}
  /\ resetAll
  /\ UNCHANGED <<page, settings, typing, pad, finger, auxHeld, session, gamepad, joystick,
                 activeButton, song, camera, macro, confirmOpen, night>>

\* The user clicks into a field, or out of it
Click ==
  /\ "field" \in user.widgets
  /\ typing' = ~typing
  /\ UNCHANGED <<page, settings, held, pad, finger, auxHeld, session, keyboard, gamepad,
                 joystick, activeButton, song, camera, macro, confirmOpen, motion, night>>

\* Bound: at most one setting differs from those the page began with
OneSetting == capture = None /\ keymap = DEFAULT_KEYMAP

\* KeymapSettings: "Change" or "Cancel" of a binding, "Reset defaults".  A
\* click takes the focus from a field; the handlers get the new keymap, but
\* nothing is sent, and the armed timers keep the old one.
StartCapture(action) ==
  /\ layout = "desktop" /\ "settings" \in user.widgets
  /\ action # None => OneSetting /\ mapped = Mapped
  /\ capture' = action /\ typing' = FALSE
  /\ UNCHANGED <<page, keymap, mapped, held, pad, finger, auxHeld, session, keyboard, gamepad,
                 joystick, activeButton, song, camera, macro, confirmOpen, motion, night>>

resetKeyBindings ==
  /\ layout = "desktop" /\ "settings" \in user.widgets
  /\ keymap' = DEFAULT_KEYMAP /\ typing' = FALSE
  /\ rebound' = (tokens # {} /\ (rebound \/ LoopKeysChange(DEFAULT_KEYMAP)))
  /\ UNCHANGED <<page, capture, mapped, held, pad, finger, auxHeld, session, tokens, kbVector,
                 kbAux, servoLoop, songLoop, gamepad, joystick, activeButton, song, camera, macro,
                 confirmOpen, motion, night>>

\* A tick of the servo loop: nudge the camera while a key asks for it
ServoTick ==
  /\ servoLoop # None
  /\ LET direction == computeServoDirection(servoLoop.keymap, tokens)
     IN  IF direction = 0
         THEN servoLoop' = None /\ UNCHANGED camera
         ELSE /\ nudgeServo(servoLoop.rover, direction * servoLoop.step)
              /\ UNCHANGED servoLoop
  /\ UNCHANGED <<input, session, tokens, kbVector, kbAux, songLoop, rebound, gamepad, joystick,
                 activeButton, song, macro, confirmOpen, motion, night>>

\* A tick of the song loop: the next note after the one the loop captured
SongTick ==
  /\ songLoop # None
  /\ LET direction == computeSongDirection(songLoop.keymap, tokens)
     IN  IF direction = 0
         THEN songLoop' = None /\ UNCHANGED song
         ELSE songNote' = NextNote(songLoop.note, direction, NoteRange) /\ UNCHANGED songLoop
  /\ UNCHANGED <<input, session, tokens, kbVector, kbAux, servoLoop, rebound, gamepad,
                 joystick, activeButton, camera, macro, confirmOpen, motion, night>>

-----------------------------------------------------------------------------
(* GamepadInputManager.jsx *)

MovePad(p) ==
  /\ pad' = p
  /\ UNCHANGED <<page, settings, held, typing, finger, auxHeld, session, keyboard, gamepad,
                 joystick, activeButton, song, camera, macro, confirmOpen, motion, night>>

\* handleButtonEdge: the buttons that act when they are pressed
EdgeButtons == mapped \cap {"mainReverse", "sideReverse", "driveMacro", "dockMacro"}
Turns == ("mainReverse" :> "main") @@ ("sideReverse" :> "side")

\* The camera follows its axis, at most once in 120 ms
PadServo(axis) ==
  \/ magnitude(axis) > 25 /\ nudgeServo(wired, IF axis > 0 THEN 2 ELSE -2)
  \/ UNCHANGED camera

\* pollGamepads, once per animation frame
pollGamepads ==
  /\ \/ /\ pad = None
        /\ gpVector' = Rest /\ DriveFrom(Rest, gpVector, DRIVE_LIMITS)
        /\ gpAux' = Idle /\ AuxFrom(Idle, gpAux)
        /\ UNCHANGED <<reverse, edges, macro, camera>>
     \/ /\ pad # None
        /\ gpVector' = PadVector(pad, mapped) /\ DriveFrom(gpVector', gpVector, DRIVE_LIMITS)
        /\ gpAux' = PadAux(pad, mapped, reverse) /\ AuxFrom(gpAux', gpAux)
        /\ PadServo(PadCamera(pad, mapped))
        /\ edges' = (edges \ EdgeButtons) \cup (pad.buttons \cap EdgeButtons)
        /\ LET pressed == edges' \ edges
               turn == {Turns[b] : b \in pressed \cap DOMAIN Turns}
           IN  /\ reverse' = (reverse \ turn) \cup (turn \ reverse)
               /\ IF pressed \cap {"driveMacro", "dockMacro"} # {}
                  THEN RunMacros("driveMacro" \in pressed, "dockMacro" \in pressed, FALSE)
                  ELSE UNCHANGED macro
  /\ UNCHANGED <<input, session, keyboard, joystick, activeButton, song, confirmOpen, night>>

\* GamepadMappingSettings: a control is mapped to the axis that is swept or the
\* button that is pressed while the panel scans the pad, or cleared.  Which axis
\* or button it is shows in what the pad then reads.
Axes == {"drive", "camera", "main", "side"}
Captured(control) ==
  /\ pad # None
  /\ IF control \in Axes
     THEN \E axis \in {"x", "y", "camera", "main", "side"} : magnitude(pad[axis]) > 65
     ELSE pad.buttons # {}
UpdateMapping(control) ==
  /\ layout = "desktop" /\ "settings" \in user.widgets /\ OneSetting
  /\ mapped' = IF control \in mapped THEN mapped \ {control} ELSE mapped \cup {control}
  /\ control \notin mapped => Captured(control)
  /\ typing' = FALSE
  /\ UNCHANGED <<page, keymap, capture, held, pad, finger, auxHeld, session, keyboard, gamepad,
                 joystick, activeButton, song, camera, macro, confirmOpen, motion, night>>

-----------------------------------------------------------------------------
(* MobileControls.jsx: the joystick.  It is disabled without a rover. *)

disabled == settled = None

\* handlePointerDown: a disabled joystick does not follow the finger
PointerDown ==
  /\ layout # "desktop" /\ "joystick" \in user.widgets /\ ~docked /\ ~finger
  /\ finger' = TRUE
  /\ tracking' = ~disabled
  /\ UNCHANGED <<page, settings, held, typing, pad, auxHeld, session, keyboard, gamepad,
                 stick, docked, activeButton, song, camera, macro, confirmOpen, motion, night>>

\* handlePointerMove and handleMove
PointerMove(thumb) ==
  /\ finger /\ tracking /\ ~disabled
  /\ stick' = Smoothed(stick, thumb)
  /\ setDriveVector(stick', DRIVE_LIMITS)
  /\ UNCHANGED <<input, session, keyboard, gamepad, tracking, docked, activeButton, song, camera,
                 macro, confirmOpen, motors, night>>

\* handlePointerEnd, stopTracking and handleStop
PointerUp ==
  /\ finger
  /\ finger' = FALSE
  /\ tracking' = FALSE
  /\ IF tracking /\ ~disabled
     THEN stick' = Rest /\ setDriveVector(Rest, DRIVE_LIMITS)
     ELSE UNCHANGED <<stick, wheels>>
  /\ UNCHANGED <<page, settings, held, typing, pad, auxHeld, session, keyboard, gamepad, docked,
                 activeButton, song, camera, macro, confirmOpen, motors, night>>

\* A frame of the rover's sensors changes the view to or from the docked one;
\* a joystick that goes with it sends nothing
DockedFrame ==
  /\ layout # "desktop"
  /\ docked' = ~docked
  /\ tracking' = FALSE
  /\ wheelsLoose' = IF tracking THEN wheelsLoose \cup Unheeded ELSE wheelsLoose
  /\ UNCHANGED <<input, session, keyboard, gamepad, stick, activeButton, song, camera, macro,
                 confirmOpen, driven, motors, night>>

\* AuxMotorPanel's handlePress
PressAux(b) ==
  /\ layout # "desktop" /\ b \notin auxHeld
  /\ auxHeld' = auxHeld \cup {b}
  /\ IF disabled
     THEN UNCHANGED <<activeButton, motors>>
     ELSE /\ sendAuxMotors(AUX_BUTTONS[b])
          /\ activeButton' = IF b = "stopAll" THEN None ELSE b
  /\ UNCHANGED <<page, settings, held, typing, pad, finger, session, keyboard, gamepad,
                 joystick, song, camera, macro, confirmOpen, wheels, night>>

\* handleRelease: only the button that was pressed last stops the motors
ReleaseAux(b) ==
  /\ b \in auxHeld
  /\ auxHeld' = auxHeld \ {b}
  /\ IF ~disabled /\ b # "stopAll" /\ activeButton = b
     THEN activeButton' = None /\ sendAuxMotors(Idle)
     ELSE UNCHANGED <<activeButton, motors>>
  /\ UNCHANGED <<page, settings, held, typing, pad, finger, session, keyboard, gamepad,
                 joystick, song, camera, macro, confirmOpen, wheels, night>>

-----------------------------------------------------------------------------
(* DriveDockAction.jsx and the macros *)

\* Without a rover, or while a macro of theirs runs, the buttons do nothing
ButtonsReady == "dockButtons" \in user.widgets /\ settled # None /\ ~pending

\* handleStartDrive; handleReturnToDrive is the same without a dialog to close
ClickDrive ==
  /\ ButtonsReady
  /\ RunMacros(TRUE, FALSE, TRUE)
  /\ confirmOpen' = FALSE
  /\ UNCHANGED <<input, session, keyboard, gamepad, joystick, activeButton, song, camera, motion,
                 night>>

\* handleOpenDock
OpenDock ==
  /\ ButtonsReady
  /\ confirmOpen' = TRUE
  /\ UNCHANGED <<input, session, keyboard, gamepad, joystick, activeButton, song, camera, macro,
                 motion, night>>

\* handleConfirmDock
ConfirmDock ==
  /\ ButtonsReady /\ confirmOpen
  /\ RunMacros(FALSE, TRUE, TRUE)
  /\ confirmOpen' = FALSE
  /\ UNCHANGED <<input, session, keyboard, gamepad, joystick, activeButton, song, camera, motion,
                 night>>

\* The pause of macro i is over: runMacroSteps goes on, with the closures it
\* started with; at the end the button that ran it is freed
MacroStep(i) ==
  /\ i \in DOMAIN macros
  /\ LET m == macros[i]
         last == m.step = Len(DEFAULT_MACROS[m.id])
     IN  /\ SendOi(m)
         /\ macros' = IF last THEN RemoveAt(macros, i) ELSE [macros EXCEPT ![i].step = @ + 1]
         /\ pending' = (pending /\ ~(last /\ m.button))
  /\ UNCHANGED <<input, session, keyboard, gamepad, joystick, activeButton, song, camera, mode,
                 entities, pendingLights, confirmOpen, motion, night>>

-----------------------------------------------------------------------------
(* App.jsx *)

\* The window is turned or resized (useLayoutMode).  Another layout has panels
\* of its own: the joystick, the buttons of the motors, the drive and dock
\* buttons, the settings and the chat's field start afresh, and those that go
\* send nothing.  The keyboard and the gamepad are not part of a layout.
Rotate(l) ==
  /\ l # layout
  /\ layout' = l
  /\ capture' = None /\ typing' = FALSE
  /\ tracking' = FALSE /\ stick' = Rest /\ activeButton' = None
  /\ wheelsLoose' = IF tracking THEN wheelsLoose \cup Unheeded ELSE wheelsLoose
  /\ brushesLoose' = IF activeButton # None THEN brushesLoose \cup Unheeded ELSE brushesLoose
  /\ pending' = FALSE /\ confirmOpen' = FALSE
  /\ macros' = [i \in DOMAIN macros |-> [macros[i] EXCEPT !.button = FALSE]]
  /\ UNCHANGED <<user, keymap, mapped, held, pad, finger, auxHeld, session, keyboard, gamepad, docked,
                 song, camera, mode, entities, pendingLights, oi, oiRefused, driven, brushes,
                 night>>

-----------------------------------------------------------------------------
(* The session and its effects (ControlContext.jsx) *)

Settled == settled = wired /\ wired = assigned

\* The session names another rover.  What the earlier one was told last it
\* goes on doing, unless the server stops it.  React ends the renderings of
\* one change before the next.
AssignRover(r) ==
  /\ r # assigned /\ Settled
  /\ assigned' = r
  /\ wheelsLoose' = (wheelsLoose \cup Unheeded) \ {r}
  /\ brushesLoose' = (brushesLoose \cup Unheeded) \ {r}
  /\ UNCHANGED <<input, wired, settled, granted, keyboard, gamepad, joystick, activeButton, song,
                 camera, macro, confirmOpen, driven, brushes, night>>

\* The effects of the rendering: new closures, the new rover's camera config,
\* and without a rover no song note.  The camera's angle is kept.
WireRover ==
  /\ wired # assigned
  /\ wired' = assigned
  /\ angle' = AngleFor(assigned)
  /\ songNote' = IF assigned = None THEN DefaultNote ELSE songNote
  /\ UNCHANGED <<input, assigned, settled, granted, keyboard, gamepad, joystick, activeButton,
                 servoSent, macro, confirmOpen, motion, night>>

\* state.roverId has changed: the keyboard resets everything, and without a
\* rover the joystick lets go
SettleRover ==
  /\ settled # wired
  /\ settled' = wired
  /\ resetAll
  /\ IF wired = None THEN tracking' = FALSE /\ stick' = Rest ELSE UNCHANGED <<tracking, stick>>
  /\ UNCHANGED <<input, assigned, wired, granted, gamepad, docked, activeButton, song, camera, macro,
                 confirmOpen, night>>

\* Home Assistant's entities reach the session, which may do without them
HomeAssistantReport(off) ==
  /\ entities' = IF pendingLights /\ off # None THEN {} ELSE off
  /\ pendingLights' = (pendingLights /\ off = None)
  /\ UNCHANGED <<input, session, keyboard, gamepad, joystick, activeButton, song, camera, mode,
                 pending, macros, oi, oiRefused, confirmOpen, motion, night>>

-----------------------------------------------------------------------------
(* The server (commandService.js, turnService.js) and the other drivers *)

\* Turns, modes, roles, and rovers that come and go decide whether the server
\* passes on what the page sends to rover r (canDrive, issueCommand)
Permission(r) ==
  /\ granted' = IF r \in granted THEN granted \ {r} ELSE granted \cup {r}
  /\ UNCHANGED <<input, assigned, wired, settled, keyboard, gamepad, joystick, activeButton, song,
                 camera, macro, confirmOpen, motion, night>>

\* Another driver moves rover r, or stops it, as does the server's stopRover
OthersSpeak(r) ==
  /\ \E left \in Leftovers :
       /\ driven' = [driven EXCEPT ![r] = left[1]]
       /\ brushes' = [brushes EXCEPT ![r] = left[2]]
  /\ wheelsLoose' = wheelsLoose \cup {r}
  /\ brushesLoose' = brushesLoose \cup {r}
  /\ UNCHANGED <<input, session, keyboard, gamepad, joystick, activeButton, song, camera, macro,
                 confirmOpen, night>>

-----------------------------------------------------------------------------
PageStep == \/ ServoTick \/ SongTick \/ pollGamepads \/ WireRover \/ SettleRover
            \/ \E i \in 1..MaxMacros : MacroStep(i)

UserStep ==
  \/ \E k \in user.keys : KeyDown(k) \/ KeyUp(k)
  \/ Blur \/ Click \/ resetKeyBindings
  \/ \E action \in Rebindable \cup {None} : StartCapture(action)
  \/ \E control \in Remappable : UpdateMapping(control)
  \/ \E p \in user.pads : MovePad(p)
  \/ PointerDown \/ PointerUp
  \/ \E thumb \in user.thumbs : PointerMove(thumb)
  \/ \E b \in user.buttons : PressAux(b) \/ ReleaseAux(b)
  \/ ClickDrive \/ OpenDock \/ ConfirmDock

Environment ==
  \/ DockedFrame
  \/ \E l \in Layouts : Rotate(l)
  \/ \E r \in Contested : Permission(r) \/ OthersSpeak(r)
  \/ \E r \in Rovers \cup {None} : AssignRover(r)
  \/ \E off \in (SUBSET Lights) \cup {None} : HomeAssistantReport(off)

Next == PageStep \/ UserStep \/ Environment

\* The page's timers fire, its frames are polled and its effects run; what
\* the user and the server do is up to them
Fairness ==
  /\ WF_vars(pollGamepads) /\ WF_vars(WireRover) /\ WF_vars(SettleRover)
  /\ WF_vars(ServoTick) /\ WF_vars(SongTick)
  /\ \A i \in 1..MaxMacros : WF_vars(MacroStep(i))

Spec == Init /\ [][Next]_vars /\ Fairness

-----------------------------------------------------------------------------
(* What should hold *)

TypeOK ==
  /\ DOMAIN keymap = DOMAIN DEFAULT_KEYMAP /\ capture \in Rebindable \cup {None}
  /\ mapped \subseteq Mapped \cup Remappable
  /\ user \in Users
  /\ held \subseteq user.keys /\ pad \in user.pads \cup {None} /\ auxHeld \subseteq user.buttons
  /\ {typing, finger, tracking, docked, rebound} \subseteq BOOLEAN
  /\ {pending, confirmOpen, pendingLights} \subseteq BOOLEAN
  /\ {assigned, wired, settled} \subseteq Rovers \cup {None}
  /\ granted \cup wheelsLoose \cup brushesLoose \cup oiRefused \subseteq Rovers
  /\ driven \in [Rovers -> [left : -500..500, right : -500..500]]
  /\ mode \in {"drive", "dock"} /\ songNote \in NoteRange[1]..NoteRange[2]
  /\ Len(macros) <= MaxMacros
  /\ \A i \in DOMAIN macros : macros[i].step \in 2..Len(DEFAULT_MACROS[macros[i].id])

\* Every active token is one of a held key: no rover is driven by a key that
\* was released, whatever shift did meanwhile, wherever the focus and the
\* window went (KeyboardInputManager.jsx, keymapUtils.js).  The exception is
\* the name of a key that has another with shift, as the digits do and the
\* settings allow: if shift came or went before its release, it stays.
ShiftRenames(k) == Apply(KEY_ALIASES, Apply(LowerCase, k.shifted))
                   # Apply(KEY_ALIASES, Apply(LowerCase, k.plain))
TokensOf(k) == tokensForEvent(k, FALSE) \cup tokensForEvent(k, TRUE)
NoPhantomKey ==
  \A t \in tokens : \/ \E k \in held : t \in TokensOf(k)
                    \/ t[1] = "key" /\ \E k \in user.keys : ShiftRenames(k) /\ t \in TokensOf(k)

\* The servo and song loops run exactly while the keys ask for a direction:
\* no loop survives its key, and no held key is without its loop; if their
\* keys were changed while some were held, they end with the last of these
LoopsFollowKeys ==
  /\ tokens = {} => servoLoop = None /\ songLoop = None
  /\ ~rebound =>
       /\ (servoLoop # None) <=> (computeServoDirection(keymap, tokens) # 0)
       /\ (songLoop # None) <=> (computeSongDirection(keymap, tokens) # 0)

KeysInvariant == NoPhantomKey /\ LoopsFollowKeys

\* The session's rover is driven, or its brushes turn, only while an input
\* that asked for it still does: several inputs that overwrite each other's
\* commands, resets, changes of rover and of layout leave none of it behind.
\* It is not so when the page did not have the last word: the server refused
\* it, somebody else has spoken since, or the docked view or another layout
\* took the joystick or the button away.
RestMeansStop ==
  Settled /\ assigned # None =>
    /\ (kbVector = Rest /\ gpVector = Rest /\ ~tracking /\ assigned \notin wheelsLoose)
         => driven[assigned] = Halt
    /\ (kbAux = Idle /\ gpAux = Idle /\ auxHeld = {} /\ assigned \notin brushesLoose)
         => brushes[assigned] = Idle
\* A servo is only told angles within the limits of its own rover, even by a
\* loop armed for another
SentAnglesFit ==
  \A r \in Rovers : servoSent[r] # None => servoSent[r] \in Servo[r].min..Servo[r].max
ControlsInvariant == TypeOK /\ RestMeansStop /\ SentAnglesFit

\* When the user has let go of everything for good, the session's rover stands
\* still, whatever was done before, if the page has the last word about it
PadAtRest == PadVector(pad, mapped) = Rest /\ PadAux(pad, mapped, {}) = Idle
HandsOff == /\ held = {} /\ ~finger /\ auxHeld = {} /\ (pad = None \/ (pad # None /\ PadAtRest))
            /\ \A k \in user.keys : ~ShiftRenames(k)
StopsInTheEnd ==
  \A r \in Rovers :
    <>[](HandsOff /\ assigned = r /\ r \notin wheelsLoose \cup brushesLoose)
      => <>[](driven[r] = Halt /\ brushes[r] = Idle)

\* A rover is not left halfway through the drive sequence, seeking its dock,
\* not even when the session moves on to another rover or the layout changes
\* during a pause: the sequence goes on to its end.  It is not so when the
\* server refused the last of it, in the turn of another.
NobodyLeftSeeking ==
  \A r \in Rovers \ oiRefused :
    (oi[r] # None /\ oi[r].by = "drive-sequence"
     /\ \A i \in DOMAIN macros : macros[i].rover # r) => oi[r].cmd = "full"
=============================================================================
