----------------------------- MODULE ControlOps -----------------------------
(***************************************************************************)
(* The pure part of the web client's controls: the key bindings, the       *)
(* arithmetic of a drive vector, and what the keyboard and the gamepad     *)
(* make of the keys and axes they read (src/webui/src/controls).           *)
(*                                                                         *)
(* A vector's x and y are in hundredths of the full deflection, speeds in  *)
(* mm/s, motor powers in the units of the code.  A key is a record of the  *)
(* character it types, the one it types with shift, and its code.          *)
(***************************************************************************)
EXTENDS Integers, FiniteSets, TLC

CONSTANT None

Rest == [x |-> 0, y |-> 0, boost |-> FALSE]         \* ZERO_VECTOR
Idle == [main |-> 0, side |-> 0, vacuum |-> 0]      \* ZERO_AUX
Halt == [left |-> 0, right |-> 0]

-----------------------------------------------------------------------------
(* controlMath.js *)

AtMost(a, b) == IF a < b THEN a ELSE b
AtLeast(a, b) == IF a > b THEN a ELSE b
clamp(v, lo, hi) == AtLeast(lo, AtMost(hi, v))
clampUnit(v) == clamp(v, -100, 100)
magnitude(v) == IF v < 0 THEN -v ELSE v
round(n, d) == (2 * n + d) \div (2 * d)             \* Math.round(n / d)

normalizeDriveVector(v) == [x |-> clampUnit(v.x), y |-> clampUnit(v.y), boost |-> v.boost]

\* options: [baseSpeed, boostSpeed]; no caller gives a maxSpeed other than 500
computeDifferentialSpeeds(v, options) ==
  LET n == normalizeDriveVector(v)
      base == IF n.boost THEN options.boostSpeed ELSE options.baseSpeed
  IN  [left  |-> clamp(round((n.y + n.x) * base, 100), -500, 500),
       right |-> clamp(round((n.y - n.x) * base, 100), -500, 500)]

DRIVE_LIMITS == [baseSpeed |-> 250, boostSpeed |-> 400]

\* sendAuxMotors: the values a caller leaves out are 0
AuxPayload(a) == [main   |-> clamp(a.main, -127, 127),
                  side   |-> clamp(a.side, -127, 127),
                  vacuum |-> clamp(a.vacuum, 0, 127)]

-----------------------------------------------------------------------------
(* keymapUtils.js and the default bindings *)

Backslash == "\\"
Semicolon == ";"
Comma == ","

KEY_ALIASES == ("{" :> "[") @@ ("}" :> "]") @@ (":" :> Semicolon) @@ ("<" :> Comma) @@ (">" :> ".")
               @@ ("?" :> "/") @@ ("|" :> Backslash) @@ ("_" :> "-") @@ ("+" :> "=")

\* toLowerCase on the characters the default bindings are about
LowerCase == ("W" :> "w") @@ ("S" :> "s") @@ ("A" :> "a") @@ ("D" :> "d") @@ ("I" :> "i")
             @@ ("K" :> "k") @@ ("O" :> "o") @@ ("L" :> "l") @@ ("P" :> "p") @@ ("U" :> "u")
             @@ ("J" :> "j") @@ ("E" :> "e") @@ ("F" :> "f") @@ ("G" :> "g")
             @@ ("Shift" :> "shift") @@ ("Enter" :> "enter")
             @@ ("ArrowUp" :> "arrowup") @@ ("ArrowDown" :> "arrowdown")

Apply(table, c) == IF c \in DOMAIN table THEN table[c] ELSE c
\* Mutant: the characters typed with shift are not aliased.
canonicalizeKeyInput_NoAlias(c) == Apply(LowerCase, c)

canonicalizeKeyInput(c) == Apply(KEY_ALIASES, Apply(LowerCase, c))

\* deriveCodeForKey; a name that is no single character has no code
CodeOf == ("w" :> "KeyW") @@ ("s" :> "KeyS") @@ ("a" :> "KeyA") @@ ("d" :> "KeyD")
          @@ ("i" :> "KeyI") @@ ("k" :> "KeyK") @@ ("o" :> "KeyO") @@ ("l" :> "KeyL")
          @@ ("p" :> "KeyP") @@ ("u" :> "KeyU") @@ ("j" :> "KeyJ") @@ ("e" :> "KeyE")
          @@ ("f" :> "KeyF") @@ ("g" :> "KeyG") @@ (Semicolon :> "Semicolon")
          @@ (Comma :> "Comma") @@ (Backslash :> "Backslash") @@ ("1" :> "Digit1")

DEFAULT_KEYMAP ==
  [driveForward |-> "w", driveBackward |-> "s", driveLeft |-> "a", driveRight |-> "d",
   boostModifier |-> Backslash, slowModifier |-> "shift",
   auxMainForward |-> "i", auxMainReverse |-> "k", auxSideForward |-> "o",
   auxSideReverse |-> "l", auxVacuumFast |-> "p", auxVacuumSlow |-> Semicolon,
   auxAllForward |-> Comma, cameraUp |-> "u", cameraDown |-> "j",
   nightVisionToggle |-> "e", driveMacro |-> "f", dockMacro |-> "g",
   chatFocus |-> "enter", songNoteUp |-> "ArrowUp", songNoteDown |-> "ArrowDown"]

\* normalizeKeymapEntries: the tokens that stand for a binding of keymap km
Binding(km, action) ==
  LET c == canonicalizeKeyInput(km[action])
  IN  {<<"key", c>>} \cup (IF c \in DOMAIN CodeOf THEN {<<"code", CodeOf[c]>>} ELSE {})

\* tokensForEvent: the tokens of an event of key k, with or without shift
tokensForEvent(k, shift) ==
  {<<"key", canonicalizeKeyInput(IF shift THEN k.shifted ELSE k.plain)>>, <<"code", k.code>>}

bindingActive(km, action, tokens) == Binding(km, action) \cap tokens # {}

-----------------------------------------------------------------------------
(* KeyboardInputManager.jsx: what the held tokens ask for *)

Opposed(km, plus, minus, tokens) ==
  LET p == bindingActive(km, plus, tokens)
      m == bindingActive(km, minus, tokens)
  IN  (IF p THEN 1 ELSE 0) - (IF m THEN 1 ELSE 0)

computeDriveVector(km, tokens) ==
  LET slow == bindingActive(km, "slowModifier", tokens)
      scale == IF slow THEN 40 ELSE 100
  IN  [x |-> scale * Opposed(km, "driveRight", "driveLeft", tokens),
       y |-> scale * Opposed(km, "driveForward", "driveBackward", tokens),
       boost |-> bindingActive(km, "boostModifier", tokens) /\ ~slow]

\* speedOptions from the default settings of the keyboard
SpeedOptions(km, tokens) ==
  IF bindingActive(km, "slowModifier", tokens)
  THEN [baseSpeed |-> 125, boostSpeed |-> 125]
  ELSE [baseSpeed |-> 250, boostSpeed |-> 400]

\* the first of the bindings that is active, with the power it stands for
FirstActive(km, plus, p, minus, m, tokens) ==
  IF bindingActive(km, plus, tokens) THEN p ELSE IF bindingActive(km, minus, tokens) THEN m ELSE 0

computeAuxMotors(km, tokens) ==
  IF bindingActive(km, "auxAllForward", tokens)
  THEN [main |-> 127, side |-> 127, vacuum |-> 127]
  ELSE [main   |-> FirstActive(km, "auxMainForward", 127, "auxMainReverse", -127, tokens),
        side   |-> FirstActive(km, "auxSideForward", 127, "auxSideReverse", -70, tokens),
        vacuum |-> FirstActive(km, "auxVacuumFast", 127, "auxVacuumSlow", 50, tokens)]

computeServoDirection(km, tokens) == Opposed(km, "cameraUp", "cameraDown", tokens)
computeSongDirection(km, tokens) == Opposed(km, "songNoteUp", "songNoteDown", tokens)

-----------------------------------------------------------------------------
(* GamepadInputManager.jsx: what a pad asks for.  A pad is a record of its *)
(* axes x, y, main, side, camera and the set of the buttons pressed;       *)
(* mapped is the set of the controls the user has mapped.                  *)

applyDeadzone(v, amount) == IF magnitude(v) < amount THEN 0 ELSE v

PadVector(pad, mapped) ==
  IF "drive" \in mapped
  THEN [x |-> clampUnit(applyDeadzone(pad.x, 20)), y |-> clampUnit(applyDeadzone(-pad.y, 20)),
        boost |-> FALSE]
  ELSE Rest

isButtonPressed(pad, mapped, button) == button \in mapped \cap pad.buttons

\* reverse: the brushes whose direction the pad's toggles have turned
PadAux(pad, mapped, reverse) ==
  LET Power(axis) == IF axis \in mapped THEN round(AtMost(magnitude(pad[axis]), 100) * 127, 100) ELSE 0
      main == Power("main")
      side == round(Power("side") * 55, 100)
  IN  IF isButtonPressed(pad, mapped, "allAux")
      THEN [main |-> 127, side |-> 127, vacuum |-> 127]
      ELSE [main   |-> IF "main" \in reverse THEN -main ELSE main,
            side   |-> IF "side" \in reverse THEN -side ELSE side,
            vacuum |-> IF isButtonPressed(pad, mapped, "vacuum") THEN 127 ELSE 0]

PadCamera(pad, mapped) ==
  IF "camera" \in mapped THEN clampUnit(applyDeadzone(-pad.camera, 25)) ELSE 0

-----------------------------------------------------------------------------
(* The joystick and the buttons of a phone, MobileControls.jsx *)

\* JOYSTICK_SMOOTHING is 0.15: 85% of the way to the thumb
Smoothed(v, thumb) == [x |-> v.x + ((clampUnit(thumb.x) - v.x) * 85) \div 100,
                       y |-> v.y + ((clampUnit(thumb.y) - v.y) * 85) \div 100, boost |-> thumb.boost]

AUX_BUTTONS ==
  [mainForward |-> [Idle EXCEPT !.main = 127],  mainReverse |-> [Idle EXCEPT !.main = -127],
   allForward  |-> [main |-> 127, side |-> 127, vacuum |-> 127],
   sideForward |-> [Idle EXCEPT !.side = 127],  sideReverse |-> [Idle EXCEPT !.side = -70],
   vacuumFast  |-> [Idle EXCEPT !.vacuum = 127], vacuumSlow |-> [Idle EXCEPT !.vacuum = 50],
   stopAll     |-> Idle]

-----------------------------------------------------------------------------
(* The macros, the camera and the songs *)

\* DEFAULT_MACROS: the commands of a macro; between two of them it pauses
DEFAULT_MACROS ==
  [id \in {"drive-sequence", "seek-dock"} |->
     IF id = "drive-sequence" THEN <<"start", "dock", "full">> ELSE <<"dock">>]

\* Mutant: the upper limit is forgotten.
clampServoAngle_NoMax(config, v) == AtLeast(config.min, v)

\* a camera's config is a record of min, max, home and nudge, or None
clampServoAngle(config, v) == clamp(v, config.min, config.max)

\* triggerSongChange: one note up or down, round the ends of the range
NextNote(note, direction, range) ==
  LET next == note + direction
  IN  IF next > range[2] THEN range[1] ELSE IF next < range[1] THEN range[2] ELSE next
=============================================================================
