---------------------------- MODULE ControlsProofs ----------------------------
(***************************************************************************)
(* What the controls of the web client guarantee for every keyboard, pad,  *)
(* phone and set of rovers.                                                *)
(***************************************************************************)
EXTENDS Controls, SequenceTheorems, TLAPS

-----------------------------------------------------------------------------
(* The keyboard's tokens.                                                  *)

\* What a user has at hand is among what there is.
LEMMA AtHand ==
    ASSUME user \in Users
    PROVE  /\ user.keys \subseteq Keys /\ user.pads \subseteq Pads
           /\ user.thumbs \subseteq Thumbs /\ user.buttons \subseteq Buttons
BY DEF Keys, Pads, Thumbs, Buttons

LEMMA SameUser ==
    ASSUME [Next]_vars
    PROVE  user' = user
<1> USE DEF input, page
<1>1. CASE PageStep
  BY <1>1 DEF PageStep, ServoTick, SongTick, pollGamepads, WireRover, SettleRover, MacroStep
<1>2. CASE UserStep
  <2>1. CASE \/ \E k \in user.keys : KeyDown(k) \/ KeyUp(k)
             \/ Blur \/ Click \/ resetKeyBindings \/ PointerDown \/ PointerUp
             \/ \E action \in Rebindable \cup {None} : StartCapture(action)
             \/ \E control \in Remappable : UpdateMapping(control)
    BY <2>1 DEF KeyDown, KeyUp, Blur, Click, resetKeyBindings, PointerDown, PointerUp, StartCapture,
                UpdateMapping
  <2>2. CASE \/ \E p \in user.pads : MovePad(p)
             \/ \E thumb \in user.thumbs : PointerMove(thumb)
             \/ \E b \in user.buttons : PressAux(b) \/ ReleaseAux(b)
             \/ ClickDrive \/ OpenDock \/ ConfirmDock
    BY <2>2 DEF MovePad, PointerMove, PressAux, ReleaseAux, ClickDrive, OpenDock, ConfirmDock
  <2> QED BY <1>2, <2>1, <2>2 DEF UserStep
<1>3. CASE Environment
  BY <1>3 DEF Environment, DockedFrame, Rotate, Permission, OthersSpeak, AssignRover,
              HomeAssistantReport
<1>4. CASE UNCHANGED vars
  BY <1>4 DEF vars
<1> QED BY <1>1, <1>2, <1>3, <1>4 DEF Next

\* A key is released by the name and the code it has then: what stays is at
\* most another name, of a key that shift renames.
LEMMA TokensReleased ==
    ASSUME NEW k, NEW s \in BOOLEAN, NEW t \in TokensOf(k) \ tokensForEvent(k, s)
    PROVE  t[1] = "key" /\ ShiftRenames(k)
<1> DEFINE plain == canonicalizeKeyInput(k.plain)
           shifted == canonicalizeKeyInput(k.shifted)
<1>1. /\ tokensForEvent(k, FALSE) = {<<"key", plain>>, <<"code", k.code>>}
      /\ tokensForEvent(k, TRUE) = {<<"key", shifted>>, <<"code", k.code>>}
  BY DEF tokensForEvent
<1>2. ShiftRenames(k) <=> shifted # plain
  BY DEF ShiftRenames, canonicalizeKeyInput
<1> HIDE DEF plain, shifted
<1>3. s = TRUE \/ s = FALSE
  OBVIOUS
<1>4. t \in {<<"key", plain>>, <<"key", shifted>>} /\ plain # shifted
  BY <1>1, <1>3 DEF TokensOf
<1> QED BY <1>2, <1>4

\* The steps that press and release no key.
LEMMA QuietKeys ==
    ASSUME [Next]_vars, \A k \in user.keys : ~ KeyDown(k) /\ ~ KeyUp(k), ~ Blur, ~ SettleRover
    PROVE  UNCHANGED <<held, tokens>>
<1> USE DEF input, page, keyboard
<1>1. CASE PageStep
  BY <1>1 DEF PageStep, ServoTick, SongTick, pollGamepads, WireRover, MacroStep
<1>2. CASE UserStep
  <2>1. CASE \/ Click \/ resetKeyBindings \/ PointerDown \/ PointerUp
             \/ \E action \in Rebindable \cup {None} : StartCapture(action)
             \/ \E control \in Remappable : UpdateMapping(control)
    BY <2>1 DEF Click, resetKeyBindings, PointerDown, PointerUp, StartCapture, UpdateMapping
  <2>2. CASE \/ \E p \in user.pads : MovePad(p)
             \/ \E thumb \in user.thumbs : PointerMove(thumb)
             \/ \E b \in user.buttons : PressAux(b) \/ ReleaseAux(b)
             \/ ClickDrive \/ OpenDock \/ ConfirmDock
    BY <2>2 DEF MovePad, PointerMove, PressAux, ReleaseAux, ClickDrive, OpenDock, ConfirmDock
  <2> QED BY <1>2, <2>1, <2>2 DEF UserStep
<1>3. CASE Environment
  BY <1>3 DEF Environment, DockedFrame, Rotate, Permission, OthersSpeak, AssignRover,
              HomeAssistantReport
<1>4. CASE UNCHANGED vars
  BY <1>4 DEF vars
<1> QED BY <1>1, <1>2, <1>3, <1>4 DEF Next

LEMMA PhantomSteps ==
    NoPhantomKey /\ [Next]_vars => NoPhantomKey'
<1> SUFFICES ASSUME NoPhantomKey, [Next]_vars
             PROVE  NoPhantomKey'
  OBVIOUS
<1> USE DEF NoPhantomKey
<1>0. user' = user
  BY SameUser
<1>1. ASSUME NEW k \in user.keys, KeyDown(k) PROVE NoPhantomKey'
  <2>1. held' = held \cup {k}
    BY <1>1 DEF KeyDown
  <2>2. tokens' \subseteq tokens \cup TokensOf(k)
    BY <1>1 DEF KeyDown, resetAll, ShiftHeld, TokensOf
  <2> QED BY <1>0, <2>1, <2>2
<1>2. ASSUME NEW k \in user.keys, KeyUp(k) PROVE NoPhantomKey'
  <2>1. held' = held \ {k} /\ tokens' = tokens \ tokensForEvent(k, ShiftHeld)
    BY <1>2 DEF KeyUp
  <2>2. ShiftHeld \in BOOLEAN
    BY DEF ShiftHeld
  <2>3. \A t \in tokens' \cap TokensOf(k) : t[1] = "key" /\ ShiftRenames(k)
    BY <2>1, <2>2, TokensReleased
  <2> QED BY <1>0, <2>1, <2>3
<1>3. CASE Blur
  BY <1>3 DEF Blur, resetAll
<1>4. CASE SettleRover
  BY <1>4 DEF SettleRover, resetAll
<1>5. CASE UNCHANGED <<held, tokens>>
  BY <1>0, <1>5
<1> QED BY <1>1, <1>2, <1>3, <1>4, <1>5, QuietKeys

-----------------------------------------------------------------------------
(* The loops of the camera and of the songs.                               *)

SameLoopKeys(k1, k2) ==
  \A action \in {"cameraUp", "cameraDown", "songNoteUp", "songNoteDown"} :
    k1[action] = k2[action]

\* What LoopsFollowKeys needs to be inductive: while no loop's key has been
\* rebound, an armed loop reads the keymap of the page for its own keys.
LoopInv ==
  /\ assigned \in Rovers \cup {None} /\ wired \in Rovers \cup {None}
  /\ settled \in Rovers \cup {None}
  /\ keymap \in Keymaps
  /\ servoLoop \in ServoLoops \cup {None} /\ songLoop \in SongLoops \cup {None}
  /\ songNote \in NoteRange[1]..NoteRange[2]
  /\ LoopsFollowKeys
  /\ ~rebound => /\ servoLoop # None => SameLoopKeys(servoLoop.keymap, keymap)
                 /\ songLoop # None => SameLoopKeys(songLoop.keymap, keymap)

LEMMA SameDirections ==
    ASSUME NEW k1, NEW k2, NEW t, SameLoopKeys(k1, k2)
    PROVE  /\ computeServoDirection(k1, t) = computeServoDirection(k2, t)
           /\ computeSongDirection(k1, t) = computeSongDirection(k2, t)
BY DEF SameLoopKeys, computeServoDirection, computeSongDirection, Opposed, bindingActive, Binding

LEMMA Directions ==
    ASSUME NEW k, NEW t
    PROVE  /\ computeServoDirection(k, t) \in {-1, 0, 1}
           /\ computeSongDirection(k, t) \in {-1, 0, 1}
           /\ t = {} => computeServoDirection(k, t) = 0 /\ computeSongDirection(k, t) = 0
<1>1. ASSUME t = {}, NEW action PROVE ~ bindingActive(k, action, t)
  BY <1>1 DEF bindingActive
<1> QED BY <1>1 DEF computeServoDirection, computeSongDirection, Opposed

LEMMA DefaultKeymap == DEFAULT_KEYMAP \in Keymaps
<1>1. DEFAULT_KEYMAP \in [DOMAIN DEFAULT_KEYMAP -> {DEFAULT_KEYMAP[a] : a \in DOMAIN DEFAULT_KEYMAP}]
  BY DEF DEFAULT_KEYMAP
<1>2. \A a \in DOMAIN DEFAULT_KEYMAP : DEFAULT_KEYMAP[a] \in Characters
  BY DEF Characters
<1> HIDE DEF DEFAULT_KEYMAP
<1> QED BY <1>1, <1>2 DEF Keymaps

LEMMA ReboundKeymap ==
    ASSUME keymap \in Keymaps, NEW k \in Keys, NEW a, NEW s \in BOOLEAN
    PROVE  updateKeyBinding(a, IF s THEN k.shifted ELSE k.plain) \in Keymaps
<1>1. canonicalizeKeyInput(IF s THEN k.shifted ELSE k.plain) \in Characters
  BY DEF Characters
<1> QED BY <1>1 DEF updateKeyBinding, Keymaps

LEMMA ServoStepIsInt ==
    ASSUME wired \in Rovers \cup {None}
    PROVE  servoStep \in Int
BY ControlsConstants DEF servoStep, servoConfig

\* The loops after a change of the tokens to now, under keymap km.
LEMMA LoopsEnsured ==
    ASSUME LoopInv, NEW km \in Keymaps, NEW now, ensureServoLoop(km, now), ensureSongLoop(km, now)
    PROVE  /\ servoLoop' \in ServoLoops \cup {None} /\ songLoop' \in SongLoops \cup {None}
           /\ (servoLoop' # None) <=> (computeServoDirection(km, now) # 0)
           /\ (songLoop' # None) <=> (computeSongDirection(km, now) # 0)
           /\ servoLoop' # None => servoLoop' = servoLoop \/ servoLoop'.keymap = km
           /\ songLoop' # None => songLoop' = songLoop \/ songLoop'.keymap = km
<1> DEFINE sv == [rover |-> wired, step |-> servoStep, keymap |-> km]
           sg == [rover |-> wired, note |-> songNote, keymap |-> km]
<1>1. sv \in ServoLoops /\ sv.keymap = km
  BY ServoStepIsInt DEF ServoLoops, LoopInv
<1>2. sg \in SongLoops /\ sg.keymap = km
  <2>1. songNote \in Int
    BY ControlsConstants DEF LoopInv
  <2> QED BY <2>1 DEF SongLoops, LoopInv
<1>3. None \notin ServoLoops /\ None \notin SongLoops
  BY ControlsConstants
<1>4. servoLoop' = IF computeServoDirection(km, now) = 0 THEN None
                   ELSE IF servoLoop # None THEN servoLoop ELSE sv
  BY DEF ensureServoLoop
<1>5. songLoop' = IF computeSongDirection(km, now) = 0 THEN None
                  ELSE IF songLoop # None THEN songLoop ELSE sg
  BY DEF ensureSongLoop
<1>6. servoLoop \in ServoLoops \cup {None} /\ songLoop \in SongLoops \cup {None}
  BY DEF LoopInv
<1> HIDE DEF sv, sg
<1> QED BY <1>1, <1>2, <1>3, <1>4, <1>5, <1>6

loopVars == <<assigned, wired, settled, keymap, tokens, servoLoop, songLoop, songNote, rebound>>

\* The steps that change none of these.
LEMMA QuietLoops ==
    ASSUME [Next]_vars, \A k \in user.keys : ~ KeyDown(k) /\ ~ KeyUp(k), ~ Blur, ~ resetKeyBindings,
           ~ ServoTick, ~ SongTick, ~ WireRover, ~ SettleRover,
           \A r \in Rovers \cup {None} : ~ AssignRover(r)
    PROVE  UNCHANGED loopVars
<1> USE DEF loopVars, input, settings, session, keyboard, song
<1>1. CASE PageStep
  BY <1>1 DEF PageStep, pollGamepads, MacroStep
<1>2. CASE UserStep
  <2>1. CASE \/ Click \/ PointerDown \/ PointerUp
             \/ \E action \in Rebindable \cup {None} : StartCapture(action)
             \/ \E control \in Remappable : UpdateMapping(control)
    BY <2>1 DEF Click, PointerDown, PointerUp, StartCapture, UpdateMapping
  <2>2. CASE \/ \E p \in user.pads : MovePad(p)
             \/ \E thumb \in user.thumbs : PointerMove(thumb)
             \/ \E b \in user.buttons : PressAux(b) \/ ReleaseAux(b)
             \/ ClickDrive \/ OpenDock \/ ConfirmDock
    BY <2>2 DEF MovePad, PointerMove, PressAux, ReleaseAux, ClickDrive, OpenDock, ConfirmDock
  <2> QED BY <1>2, <2>1, <2>2 DEF UserStep
<1>3. CASE Environment
  BY <1>3 DEF Environment, DockedFrame, Rotate, Permission, OthersSpeak, HomeAssistantReport
<1>4. CASE UNCHANGED vars
  BY <1>4 DEF vars
<1> QED BY <1>1, <1>2, <1>3, <1>4 DEF Next

\* A change of the keymap alone, in a field or by "Reset defaults".
LEMMA KeymapReplaced ==
    ASSUME LoopInv, keymap' \in Keymaps,
           rebound' = (tokens # {} /\ (rebound \/ LoopKeysChange(keymap'))),
           UNCHANGED <<assigned, wired, settled, tokens, servoLoop, songLoop, songNote>>
    PROVE  LoopInv'
<1>1. ~rebound' => tokens = {} \/ (~rebound /\ SameLoopKeys(keymap, keymap'))
  BY DEF LoopKeysChange, SameLoopKeys
<1>2. tokens = {} => servoLoop = None /\ songLoop = None
  BY DEF LoopInv, LoopsFollowKeys
<1>3. tokens = {} => /\ computeServoDirection(keymap', tokens) = 0
                     /\ computeSongDirection(keymap', tokens) = 0
  BY Directions
<1>4. SameLoopKeys(keymap, keymap')
        => /\ computeServoDirection(keymap', tokens) = computeServoDirection(keymap, tokens)
           /\ computeSongDirection(keymap', tokens) = computeSongDirection(keymap, tokens)
  BY SameDirections
<1>5. LoopsFollowKeys'
  BY <1>1, <1>2, <1>3, <1>4 DEF LoopInv, LoopsFollowKeys
<1>6. ~rebound' => /\ servoLoop # None => SameLoopKeys(servoLoop.keymap, keymap')
                   /\ songLoop # None => SameLoopKeys(songLoop.keymap, keymap')
  BY <1>1, <1>2 DEF LoopInv, SameLoopKeys
<1> QED BY <1>5, <1>6 DEF LoopInv

LEMMA LoopsReset ==
    ASSUME LoopInv, resetAll, assigned' \in Rovers \cup {None}, wired' \in Rovers \cup {None},
           settled' \in Rovers \cup {None}, keymap' \in Keymaps, UNCHANGED songNote
    PROVE  LoopInv'
<1>1. tokens' = {} /\ servoLoop' = None /\ songLoop' = None
  BY DEF resetAll
<1>2. computeServoDirection(keymap', {}) = 0 /\ computeSongDirection(keymap', {}) = 0
  BY Directions
<1> QED BY <1>1, <1>2 DEF LoopInv, LoopsFollowKeys

\* A change of the tokens, after which the loops are ensured.
LEMMA LoopsFollow ==
    ASSUME LoopInv, keymap' \in Keymaps,
           ensureServoLoop(keymap', tokens'), ensureSongLoop(keymap', tokens'),
           ~rebound' => tokens' = {} \/ (~rebound /\ SameLoopKeys(keymap, keymap')),
           UNCHANGED <<assigned, wired, settled, songNote>>
    PROVE  LoopInv'
<1>1. /\ servoLoop' \in ServoLoops \cup {None} /\ songLoop' \in SongLoops \cup {None}
      /\ (servoLoop' # None) <=> (computeServoDirection(keymap', tokens') # 0)
      /\ (songLoop' # None) <=> (computeSongDirection(keymap', tokens') # 0)
      /\ servoLoop' # None => servoLoop' = servoLoop \/ servoLoop'.keymap = keymap'
      /\ songLoop' # None => songLoop' = songLoop \/ songLoop'.keymap = keymap'
  BY LoopsEnsured
<1>2. tokens' = {} => /\ computeServoDirection(keymap', tokens') = 0
                      /\ computeSongDirection(keymap', tokens') = 0
  BY Directions
<1>3. LoopsFollowKeys'
  BY <1>1, <1>2 DEF LoopsFollowKeys
<1>4. ~rebound' => /\ servoLoop' # None => SameLoopKeys(servoLoop'.keymap, keymap')
                   /\ songLoop' # None => SameLoopKeys(songLoop'.keymap, keymap')
  BY <1>1, <1>2 DEF LoopInv, SameLoopKeys
<1> QED BY <1>1, <1>3, <1>4 DEF LoopInv

LEMMA LoopSteps ==
    user \in Users /\ LoopInv /\ [Next]_vars => LoopInv'
<1> SUFFICES ASSUME user \in Users, LoopInv, [Next]_vars
             PROVE  LoopInv'
  OBVIOUS
<1> USE DEF input, page, settings, session, keyboard, song
<1>0. keymap \in Keymaps
  BY DEF LoopInv
<1>1. ASSUME NEW k \in user.keys, KeyDown(k) PROVE LoopInv'
  <2> DEFINE km == IF capture = None THEN keymap
                   ELSE updateKeyBinding(capture, IF ShiftHeld THEN k.shifted ELSE k.plain)
             now == tokens \cup tokensForEvent(k, ShiftHeld)
  <2>1. km \in Keymaps
    <3>1. k \in Keys
      BY AtHand
    <3> QED BY <1>0, <3>1, ReboundKeymap DEF ShiftHeld
  <2>2. keymap' = km /\ UNCHANGED <<assigned, wired, settled, songNote>>
    BY <1>1 DEF KeyDown
  <2>3. CASE /\ rebound' = (tokens # {} /\ (rebound \/ LoopKeysChange(km)))
             /\ UNCHANGED <<tokens, servoLoop, songLoop>>
    <3>1. rebound' = (tokens # {} /\ (rebound \/ LoopKeysChange(keymap')))
      BY <2>2, <2>3
    <3>2. keymap' \in Keymaps
      BY <2>1, <2>2
    <3> HIDE DEF km
    <3> QED BY <2>2, <2>3, <3>1, <3>2, KeymapReplaced
  <2>4. CASE resetAll
    <3> HIDE DEF km
    <3> QED BY <2>1, <2>2, <2>4, LoopsReset DEF LoopInv
  <2>5. CASE /\ tokens' = now /\ rebound' = (rebound \/ LoopKeysChange(km))
             /\ ensureServoLoop(km, now) /\ ensureSongLoop(km, now)
    <3>1. ~rebound' => ~rebound /\ SameLoopKeys(keymap, keymap')
      <4> HIDE DEF km
      <4> QED BY <2>2, <2>5 DEF LoopKeysChange, SameLoopKeys
    <3>2. ensureServoLoop(keymap', tokens') /\ ensureSongLoop(keymap', tokens') /\ keymap' \in Keymaps
      <4> HIDE DEF km, now
      <4> QED BY <2>1, <2>2, <2>5 DEF ensureServoLoop, ensureSongLoop
    <3> HIDE DEF km, now
    <3> QED BY <2>2, <3>1, <3>2, LoopsFollow
  <2> QED BY <1>1, <2>3, <2>4, <2>5 DEF KeyDown
<1>2. ASSUME NEW k \in user.keys, KeyUp(k) PROVE LoopInv'
  <2>1. /\ rebound' = (rebound /\ tokens' # {})
        /\ ensureServoLoop(keymap, tokens') /\ ensureSongLoop(keymap, tokens')
        /\ UNCHANGED <<assigned, wired, settled, songNote, keymap>>
    BY <1>2 DEF KeyUp
  <2>2. ensureServoLoop(keymap', tokens') /\ ensureSongLoop(keymap', tokens')
    BY <2>1 DEF ensureServoLoop, ensureSongLoop
  <2>3. ~rebound' => tokens' = {} \/ (~rebound /\ SameLoopKeys(keymap, keymap'))
    BY <2>1 DEF SameLoopKeys
  <2> QED BY <1>0, <2>1, <2>2, <2>3, LoopsFollow
<1>3. CASE Blur
  <2>1. resetAll /\ UNCHANGED <<assigned, wired, settled, songNote, keymap>>
    BY <1>3 DEF Blur
  <2> QED BY <2>1, LoopsReset DEF LoopInv
<1>4. CASE resetKeyBindings
  <2>1. /\ keymap' = DEFAULT_KEYMAP
        /\ rebound' = (tokens # {} /\ (rebound \/ LoopKeysChange(DEFAULT_KEYMAP)))
        /\ UNCHANGED <<assigned, wired, settled, tokens, servoLoop, songLoop, songNote>>
    BY <1>4 DEF resetKeyBindings
  <2>2. rebound' = (tokens # {} /\ (rebound \/ LoopKeysChange(keymap')))
    BY <2>1
  <2> QED BY <2>1, <2>2, DefaultKeymap, KeymapReplaced
<1>5. CASE ServoTick
  <2>1. /\ servoLoop # None /\ UNCHANGED <<assigned, wired, settled, keymap, tokens, songLoop,
                                            songNote, rebound>>
        /\ \/ computeServoDirection(servoLoop.keymap, tokens) = 0 /\ servoLoop' = None
           \/ UNCHANGED servoLoop
    BY <1>5 DEF ServoTick
  <2>2. CASE UNCHANGED servoLoop
    BY <2>1, <2>2 DEF LoopInv, LoopsFollowKeys
  <2>3. CASE computeServoDirection(servoLoop.keymap, tokens) = 0 /\ servoLoop' = None
    <3>1. ~rebound => computeServoDirection(keymap, tokens) = 0
      BY <2>1, <2>3, SameDirections DEF LoopInv
    <3> QED BY <2>1, <2>3, <3>1 DEF LoopInv, LoopsFollowKeys
  <2> QED BY <2>1, <2>2, <2>3
<1>6. CASE SongTick
  <2> DEFINE direction == computeSongDirection(songLoop.keymap, tokens)
  <2>1. /\ songLoop # None /\ UNCHANGED <<assigned, wired, settled, keymap, tokens, servoLoop, rebound>>
        /\ \/ direction = 0 /\ songLoop' = None /\ UNCHANGED songNote
           \/ songNote' = NextNote(songLoop.note, direction, NoteRange) /\ UNCHANGED songLoop
    BY <1>6 DEF SongTick
  <2>2. CASE songNote' = NextNote(songLoop.note, direction, NoteRange) /\ UNCHANGED songLoop
    <3>1. songLoop.note \in Int /\ direction \in Int
      BY <2>1, Directions DEF LoopInv, SongLoops
    <3>2. NextNote(songLoop.note, direction, NoteRange) \in NoteRange[1]..NoteRange[2]
      <4> HIDE DEF direction
      <4> QED BY <3>1, ControlsConstants DEF NextNote
    <3> QED BY <2>1, <2>2, <3>2 DEF LoopInv, LoopsFollowKeys
  <2>3. CASE direction = 0 /\ songLoop' = None /\ UNCHANGED songNote
    <3>1. ~rebound => computeSongDirection(keymap, tokens) = 0
      BY <2>1, <2>3, SameDirections DEF LoopInv
    <3> QED BY <2>1, <2>3, <3>1 DEF LoopInv, LoopsFollowKeys
  <2> QED BY <2>1, <2>2, <2>3
<1>7. CASE WireRover
  <2>1. /\ UNCHANGED <<assigned, settled, keymap, tokens, servoLoop, songLoop, rebound>>
        /\ wired' = assigned /\ songNote' = IF assigned = None THEN DefaultNote ELSE songNote
    BY <1>7 DEF WireRover
  <2>2. songNote' \in NoteRange[1]..NoteRange[2]
    BY <2>1, ControlsConstants DEF LoopInv
  <2> QED BY <2>1, <2>2 DEF LoopInv, LoopsFollowKeys
<1>8. CASE SettleRover
  <2>1. resetAll /\ settled' = wired /\ UNCHANGED <<assigned, wired, songNote, keymap>>
    BY <1>8 DEF SettleRover
  <2> QED BY <2>1, LoopsReset DEF LoopInv
<1>9. ASSUME NEW r \in Rovers \cup {None}, AssignRover(r) PROVE LoopInv'
  <2>1. /\ UNCHANGED <<wired, settled, keymap, tokens, servoLoop, songLoop, songNote, rebound>>
        /\ assigned' = r
    BY <1>9 DEF AssignRover
  <2> QED BY <2>1 DEF LoopInv, LoopsFollowKeys
<1>10. CASE UNCHANGED loopVars
  BY <1>10 DEF loopVars, LoopInv, LoopsFollowKeys
<1> QED BY <1>1, <1>2, <1>3, <1>4, <1>5, <1>6, <1>7, <1>8, <1>9, <1>10, QuietLoops

-----------------------------------------------------------------------------
(* The angles the servos are told.                                         *)

\* What SentAnglesFit needs to be inductive: only a rover with a servo was
\* told an angle, and angles and steps are numbers.
CameraInv ==
  /\ angle \in Int \cup {None}
  /\ servoSent \in [Rovers -> Int \cup {None}]
  /\ \A r \in Rovers : servoSent[r] # None => Servo[r] # None
  /\ SentAnglesFit

LEMMA Clamped ==
    ASSUME NEW v \in Int, NEW lo \in Int, NEW hi \in Int, lo <= hi
    PROVE  clamp(v, lo, hi) \in lo..hi
BY DEF clamp, AtLeast, AtMost

LEMMA ServoAngle ==
    ASSUME NEW r \in Rovers, Servo[r] # None, NEW v \in Int
    PROVE  /\ clampServoAngle(Servo[r], v) \in Servo[r].min..Servo[r].max
           /\ clampServoAngle(Servo[r], v) \in Int
<1>1. Servo[r].min \in Int /\ Servo[r].max \in Int /\ Servo[r].min <= Servo[r].max
  BY ControlsConstants
<1> DEFINE lo == Servo[r].min
           hi == Servo[r].max
<1>2. clampServoAngle(Servo[r], v) = clamp(v, lo, hi) /\ lo \in Int /\ hi \in Int /\ lo <= hi
  BY <1>1 DEF clampServoAngle
<1>3. lo..hi \subseteq Int
  OBVIOUS
<1> HIDE DEF lo, hi
<1>4. clamp(v, lo, hi) \in lo..hi
  BY <1>2, Clamped
<1>5. clampServoAngle(Servo[r], v) \in lo..hi /\ clampServoAngle(Servo[r], v) \in Int
  BY <1>2, <1>3, <1>4
<1> QED BY <1>5 DEF lo, hi

LEMMA Nudged ==
    ASSUME CameraInv, NEW r \in Rovers \cup {None}, NEW delta \in Int, nudgeServo(r, delta)
    PROVE  CameraInv'
<1>1. CASE servoConfig(r) = None
  BY <1>1 DEF nudgeServo, camera, CameraInv, SentAnglesFit
<1>2. CASE servoConfig(r) # None
  <2>1. r \in Rovers /\ Servo[r] # None
    BY <1>2 DEF servoConfig
  <2> DEFINE v == (IF angle = None THEN Servo[r].home ELSE angle)
                  + (IF delta = 0 THEN Servo[r].nudge ELSE delta)
             c == clampServoAngle(Servo[r], v)
  <2>2. v \in Int
    BY <2>1, ControlsConstants DEF CameraInv
  <2>3. c \in Servo[r].min..Servo[r].max /\ c \in Int
    <3> HIDE DEF v
    <3> QED BY <2>1, <2>2, ServoAngle
  <2>4. angle' = c /\ servoSent' = [servoSent EXCEPT ![r] = c]
    BY <1>2 DEF nudgeServo, setServoAngle
  <2> HIDE DEF c
  <2> QED BY <2>1, <2>3, <2>4 DEF CameraInv, SentAnglesFit
<1> QED BY <1>1, <1>2

LEMMA QuietCamera ==
    ASSUME [Next]_vars, ~ ServoTick, ~ pollGamepads, ~ WireRover
    PROVE  UNCHANGED <<angle, servoSent>>
<1> USE DEF camera
<1>1. CASE PageStep
  BY <1>1 DEF PageStep, SongTick, SettleRover, MacroStep
<1>2. CASE UserStep
  <2>1. CASE \/ \E k \in user.keys : KeyDown(k) \/ KeyUp(k)
             \/ Blur \/ Click \/ resetKeyBindings \/ PointerDown \/ PointerUp
             \/ \E action \in Rebindable \cup {None} : StartCapture(action)
             \/ \E control \in Remappable : UpdateMapping(control)
    BY <2>1 DEF KeyDown, KeyUp, Blur, Click, resetKeyBindings, PointerDown, PointerUp, StartCapture,
                UpdateMapping
  <2>2. CASE \/ \E p \in user.pads : MovePad(p)
             \/ \E thumb \in user.thumbs : PointerMove(thumb)
             \/ \E b \in user.buttons : PressAux(b) \/ ReleaseAux(b)
             \/ ClickDrive \/ OpenDock \/ ConfirmDock
    BY <2>2 DEF MovePad, PointerMove, PressAux, ReleaseAux, ClickDrive, OpenDock, ConfirmDock
  <2> QED BY <1>2, <2>1, <2>2 DEF UserStep
<1>3. CASE Environment
  BY <1>3 DEF Environment, DockedFrame, Rotate, Permission, OthersSpeak, AssignRover,
              HomeAssistantReport
<1>4. CASE UNCHANGED vars
  BY <1>4 DEF vars
<1> QED BY <1>1, <1>2, <1>3, <1>4 DEF Next

LEMMA CameraSteps ==
    LoopInv /\ CameraInv /\ [Next]_vars => CameraInv'
<1> SUFFICES ASSUME LoopInv, CameraInv, [Next]_vars
             PROVE  CameraInv'
  OBVIOUS
<1>0. CASE UNCHANGED <<angle, servoSent>>
  BY <1>0 DEF CameraInv, SentAnglesFit
<1>1. CASE ServoTick
  <2>1. servoLoop \in ServoLoops
    BY <1>1 DEF ServoTick, LoopInv
  <2> DEFINE direction == computeServoDirection(servoLoop.keymap, tokens)
  <2>2. servoLoop.rover \in Rovers \cup {None} /\ servoLoop.step \in Int
    BY <2>1 DEF ServoLoops
  <2>3. direction \in {-1, 0, 1}
    BY Directions
  <2>4. UNCHANGED camera \/ nudgeServo(servoLoop.rover, direction * servoLoop.step)
    BY <1>1 DEF ServoTick
  <2> HIDE DEF direction
  <2>5. direction * servoLoop.step \in Int
    BY <2>2, <2>3
  <2> QED BY <1>0, <2>2, <2>4, <2>5, Nudged DEF camera
<1>2. CASE pollGamepads
  <2>1. \/ UNCHANGED camera
        \/ nudgeServo(wired, 2) \/ nudgeServo(wired, -2)
    BY <1>2 DEF pollGamepads, PadServo
  <2>2. wired \in Rovers \cup {None} /\ 2 \in Int /\ -2 \in Int
    BY DEF LoopInv
  <2> QED BY <1>0, <2>1, <2>2, Nudged DEF camera
<1>3. CASE WireRover
  <2>1. angle' = AngleFor(assigned) /\ servoSent' = servoSent
    BY <1>3 DEF WireRover
  <2>2. CASE servoConfig(assigned) = None
    BY <2>1, <2>2 DEF AngleFor, CameraInv, SentAnglesFit
  <2>3. CASE servoConfig(assigned) # None
    <3>1. assigned \in Rovers /\ Servo[assigned] # None
      BY <2>3 DEF servoConfig, LoopInv
    <3> DEFINE v == IF angle = None THEN Servo[assigned].home ELSE angle
    <3>2. v \in Int
      BY <3>1, ControlsConstants DEF CameraInv
    <3>3. angle' = clampServoAngle(Servo[assigned], v)
      BY <2>1, <2>3 DEF AngleFor
    <3> HIDE DEF v
    <3>4. angle' \in Int
      BY <3>1, <3>2, <3>3, ServoAngle
    <3> QED BY <2>1, <3>4 DEF CameraInv, SentAnglesFit
  <2> QED BY <2>2, <2>3
<1> QED BY <1>0, <1>1, <1>2, <1>3, QuietCamera

-----------------------------------------------------------------------------
(* The macros.                                                             *)

\* What NobodyLeftSeeking needs to be inductive: a macro that waits is the
\* drive sequence, before one of its last two commands.
Waiting == [id : {"drive-sequence"}, step : 2..3, rover : Rovers, button : BOOLEAN]
MacroInv ==
  /\ macros \in Seq(Waiting) /\ Len(macros) <= MaxMacros
  /\ mode \in {"drive", "dock"}
  /\ DOMAIN oi = Rovers /\ oiRefused \subseteq Rovers
  /\ NobodyLeftSeeking

LEMMA RemovedAt ==
    ASSUME NEW S, NEW q \in Seq(S), NEW i \in 1..Len(q), NEW d, d = RemoveAt(q, i)
    PROVE  /\ d \in Seq(S) /\ DOMAIN d = 1..(Len(q) - 1)
           /\ \A j \in DOMAIN d : d[j] = IF j < i THEN q[j] ELSE q[j + 1]
<1> DEFINE a == SubSeq(q, 1, i - 1)
           b == SubSeq(q, i + 1, Len(q))
<1>1. a \in Seq(S) /\ Len(a) = i - 1 /\ \A j \in 1..(i - 1) : a[j] = q[j]
  OBVIOUS
<1>2. b \in Seq(S) /\ Len(b) = Len(q) - i /\ \A j \in 1..(Len(q) - i) : b[j] = q[i + j]
  <2>1. i + 1 \in Int /\ Len(q) \in Int /\ \A j \in (i + 1)..Len(q) : q[j] \in S
    OBVIOUS
  <2>2. /\ b \in Seq(S) /\ Len(b) = IF i + 1 <= Len(q) THEN Len(q) - (i + 1) + 1 ELSE 0
        /\ \A j \in 1..(Len(q) - (i + 1) + 1) : b[j] = q[(i + 1) + j - 1]
    BY <2>1, SubSeqProperties
  <2> HIDE DEF b
  <2>3. \A j \in 1..(Len(q) - i) : j \in 1..(Len(q) - (i + 1) + 1) /\ (i + 1) + j - 1 = i + j
    OBVIOUS
  <2>4. Len(b) = Len(q) - i
    BY <2>2
  <2>5. ASSUME NEW j \in 1..(Len(q) - i) PROVE b[j] = q[i + j]
    BY <2>2, <2>3
  <2> QED BY <2>2, <2>4, <2>5
<1>3. d = a \o b
  BY DEF RemoveAt
<1> HIDE DEF a, b
<1>4. /\ d \in Seq(S) /\ Len(d) = Len(a) + Len(b)
      /\ \A j \in 1..(Len(a) + Len(b)) : d[j] = IF j <= Len(a) THEN a[j] ELSE b[j - Len(a)]
  <2>1. a \in Seq(S) /\ b \in Seq(S)
    BY <1>1, <1>2
  <2>2. /\ a \o b \in Seq(S) /\ Len(a \o b) = Len(a) + Len(b)
        /\ \A j \in 1..(Len(a) + Len(b)) :
              (a \o b)[j] = IF j <= Len(a) THEN a[j] ELSE b[j - Len(a)]
    BY <2>1, ConcatProperties, Zenon
  <2> QED BY <1>3, <2>2
<1>5. Len(d) = Len(q) - 1
  BY <1>1, <1>2, <1>4
<1>6. ASSUME NEW j \in 1..(Len(q) - 1)
      PROVE  d[j] = IF j < i THEN q[j] ELSE q[j + 1]
  <2>1. CASE j < i
    <3>1. j \in 1..(i - 1) /\ j \in 1..(Len(a) + Len(b)) /\ j <= Len(a)
      BY <1>1, <1>2, <2>1
    <3>2. d[j] = a[j] /\ a[j] = q[j]
      BY <1>1, <1>4, <3>1
    <3> QED BY <2>1, <3>2
  <2>2. CASE j >= i
    <3>1. j - (i - 1) \in 1..(Len(q) - i) /\ i + (j - (i - 1)) = j + 1
      BY <2>2
    <3>2. j \in 1..(Len(a) + Len(b)) /\ Len(a) = i - 1 /\ ~ (j <= Len(a))
      BY <1>1, <1>2, <2>2
    <3>3. d[j] = b[j - (i - 1)]
      BY <1>4, <3>2
    <3>4. b[j - (i - 1)] = q[i + (j - (i - 1))]
      BY <1>2, <3>1
    <3> QED BY <2>2, <3>1, <3>3, <3>4
  <2> QED BY <2>1, <2>2
<1> QED BY <1>4, <1>5, <1>6

LEMMA OthersRemain ==
    ASSUME NEW S, NEW q \in Seq(S), NEW i \in 1..Len(q), NEW d, d = RemoveAt(q, i),
           NEW j \in 1..Len(q), j # i
    PROVE  \E k \in DOMAIN d : d[k] = q[j]
<1>1. DOMAIN d = 1..(Len(q) - 1) /\ \A k \in DOMAIN d : d[k] = IF k < i THEN q[k] ELSE q[k + 1]
  BY RemovedAt
<1>2. CASE j < i
  <2>1. j \in DOMAIN d /\ d[j] = q[j]
    BY <1>1, <1>2
  <2> QED BY <2>1
<1>3. CASE j > i
  <2>1. j - 1 \in DOMAIN d /\ ~(j - 1 < i) /\ (j - 1) + 1 = j
    BY <1>1, <1>3
  <2>2. d[j - 1] = q[j]
    BY <1>1, <2>1
  <2> QED BY <2>1, <2>2
<1> QED BY <1>2, <1>3

\* The commands of the drive sequence after its first pause.
LEMMA DriveCommands ==
    /\ Len(DEFAULT_MACROS["drive-sequence"]) = 3
    /\ DEFAULT_MACROS["drive-sequence"][3] = "full"
BY DEF DEFAULT_MACROS

\* A command reaches the rover of its macro, or is refused.
LEMMA OiSent ==
    ASSUME NEW m, m.rover \in Rovers, DOMAIN oi = Rovers, oiRefused \subseteq Rovers, SendOi(m)
    PROVE  /\ DOMAIN oi' = Rovers /\ oiRefused' \subseteq Rovers
           /\ m.rover \notin oiRefused' => oi'[m.rover] = Command(m)
           /\ \A r \in Rovers \ {m.rover} :
                oi'[r] = oi[r] /\ (r \in oiRefused' <=> r \in oiRefused)
<1>1. CASE m.rover \in granted
  <2>1. oi' = [oi EXCEPT ![m.rover] = Command(m)] /\ oiRefused' = oiRefused \ {m.rover}
    BY <1>1 DEF SendOi
  <2> QED BY <2>1
<1>2. CASE m.rover \notin granted
  <2>1. oi' = oi /\ oiRefused' = oiRefused \cup {m.rover}
    BY <1>2 DEF SendOi
  <2> QED BY <2>1
<1> QED BY <1>1, <1>2

LEMMA QuietMacros ==
    ASSUME [Next]_vars, \A k \in user.keys : ~ KeyDown(k), ~ pollGamepads, ~ ClickDrive, ~ ConfirmDock,
           \A i \in 1..MaxMacros : ~ MacroStep(i), \A l \in Layouts : ~ Rotate(l)
    PROVE  UNCHANGED <<macros, mode, oi, oiRefused>>
<1> USE DEF macro
<1>1. CASE PageStep
  BY <1>1 DEF PageStep, ServoTick, SongTick, WireRover, SettleRover
<1>2. CASE UserStep
  <2>1. CASE \/ \E k \in user.keys : KeyUp(k)
             \/ Blur \/ Click \/ resetKeyBindings \/ PointerDown \/ PointerUp
             \/ \E action \in Rebindable \cup {None} : StartCapture(action)
             \/ \E control \in Remappable : UpdateMapping(control)
    BY <2>1 DEF KeyUp, Blur, Click, resetKeyBindings, PointerDown, PointerUp, StartCapture,
                UpdateMapping
  <2>2. CASE \/ \E p \in user.pads : MovePad(p)
             \/ \E thumb \in user.thumbs : PointerMove(thumb)
             \/ \E b \in user.buttons : PressAux(b) \/ ReleaseAux(b)
             \/ OpenDock
    BY <2>2 DEF MovePad, PointerMove, PressAux, ReleaseAux, OpenDock
  <2> QED BY <1>2, <2>1, <2>2 DEF UserStep
<1>3. CASE Environment
  BY <1>3 DEF Environment, DockedFrame, Permission, OthersSpeak, AssignRover,
              HomeAssistantReport
<1>4. CASE UNCHANGED vars
  BY <1>4 DEF vars
<1> QED BY <1>1, <1>2, <1>3, <1>4 DEF Next

LEMMA MacrosRun ==
    ASSUME LoopInv, MacroInv, NEW drive \in BOOLEAN, NEW dock \in BOOLEAN, NEW button \in BOOLEAN,
           drive \/ dock, RunMacros(drive, dock, button)
    PROVE  MacroInv'
<1> DEFINE id == IF dock THEN "seek-dock" ELSE "drive-sequence"
           new == [id |-> "drive-sequence", step |-> 2, rover |-> wired, button |-> button]
<1>1. mode' \in {"drive", "dock"} /\ (drive => Len(macros) < MaxMacros)
  BY DEF RunMacros
<1>2. CASE wired = None
  BY <1>1, <1>2 DEF RunMacros, MacroInv, NobodyLeftSeeking
<1>3. CASE wired # None
  <2>1. wired \in Rovers
    BY <1>3 DEF LoopInv
  <2> DEFINE m == [id |-> id, step |-> 1, rover |-> wired]
  <2>2. SendOi(m) /\ macros' = IF drive THEN Append(macros, new) ELSE macros
    BY <1>3 DEF RunMacros
  <2>3. new \in Waiting /\ new.rover = wired
    BY <2>1 DEF Waiting
  <2>4. /\ DOMAIN oi' = Rovers /\ oiRefused' \subseteq Rovers
        /\ wired \notin oiRefused' => oi'[wired].by = id
        /\ \A r \in Rovers \ {wired} :
             oi'[r] = oi[r] /\ (r \in oiRefused' <=> r \in oiRefused)
    <3>1. m.rover = wired /\ Command(m).by = id
      BY DEF Command
    <3> HIDE DEF m, id
    <3> QED BY <2>1, <2>2, <3>1, OiSent DEF MacroInv
  <2>5. macros \in Seq(Waiting) /\ Len(macros) \in Nat /\ Len(macros) <= MaxMacros
    BY DEF MacroInv
  <2> HIDE DEF new, m
  <2>6. CASE drive
    <3>1. /\ macros' \in Seq(Waiting) /\ Len(macros') = Len(macros) + 1
          /\ \A i \in DOMAIN macros : i \in DOMAIN macros' /\ macros'[i] = macros[i]
          /\ Len(macros') \in DOMAIN macros' /\ macros'[Len(macros')] = new
      BY <2>2, <2>3, <2>5, <2>6
    <3>2. Len(macros') <= MaxMacros
      BY <1>1, <2>5, <2>6, <3>1, ControlsConstants
    <3>3. NobodyLeftSeeking'
      <4>1. \A r \in Rovers : (\A i \in DOMAIN macros' : macros'[i].rover # r)
                              => r # wired /\ \A i \in DOMAIN macros : macros[i].rover # r
        BY <2>3, <3>1
      <4> QED BY <2>4, <4>1 DEF MacroInv, NobodyLeftSeeking
    <3> QED BY <1>1, <2>4, <3>1, <3>2, <3>3 DEF MacroInv
  <2>7. CASE ~drive
    <3>1. id = "seek-dock" /\ macros' = macros
      BY <2>2, <2>7
    <3>2. NobodyLeftSeeking'
      BY <2>4, <3>1 DEF MacroInv, NobodyLeftSeeking
    <3> QED BY <1>1, <2>4, <2>5, <3>1, <3>2 DEF MacroInv
  <2> QED BY <2>6, <2>7
<1> QED BY <1>2, <1>3

LEMMA MacroGoesOn ==
    ASSUME MacroInv, NEW i \in 1..MaxMacros, MacroStep(i)
    PROVE  MacroInv'
<1> DEFINE m == macros[i]
<1>0. macros \in Seq(Waiting) /\ i \in 1..Len(macros) /\ UNCHANGED mode
  BY DEF MacroStep, MacroInv
<1>1. m \in Waiting
  BY <1>0
<1>2. m.id = "drive-sequence" /\ m.step \in 2..3 /\ m.rover \in Rovers
  BY <1>1 DEF Waiting
<1>3. /\ SendOi(m)
      /\ macros' = IF m.step = Len(DEFAULT_MACROS[m.id])
                   THEN RemoveAt(macros, i) ELSE [macros EXCEPT ![i].step = @ + 1]
  BY DEF MacroStep
<1>4. /\ DOMAIN oi' = Rovers /\ oiRefused' \subseteq Rovers
      /\ m.rover \notin oiRefused' => oi'[m.rover].cmd = DEFAULT_MACROS[m.id][m.step]
      /\ \A r \in Rovers \ {m.rover} :
           oi'[r] = oi[r] /\ (r \in oiRefused' <=> r \in oiRefused)
  <2>1. Command(m).cmd = DEFAULT_MACROS[m.id][m.step]
    BY DEF Command
  <2> HIDE DEF m
  <2> QED BY <1>2, <1>3, <2>1, OiSent DEF MacroInv
<1>5. CASE m.step = 3
  <2>1. macros' = RemoveAt(macros, i) /\ (m.rover \notin oiRefused' => oi'[m.rover].cmd = "full")
    BY <1>2, <1>3, <1>4, <1>5, DriveCommands
  <2>2. macros' \in Seq(Waiting) /\ DOMAIN macros' = 1..(Len(macros) - 1)
    BY <1>0, <2>1, RemovedAt
  <2>3. Len(macros') <= MaxMacros
    <3>1. Len(macros') = Len(macros) - 1
      BY <1>0, <2>2
    <3> QED BY <1>0, <3>1, ControlsConstants DEF MacroInv
  <2>4. \A j \in 1..Len(macros) : j # i => \E k \in DOMAIN macros' : macros'[k] = macros[j]
    BY <1>0, <2>1, OthersRemain
  <2>5. NobodyLeftSeeking'
    <3> SUFFICES ASSUME NEW r \in Rovers \ oiRefused', oi'[r] # None, oi'[r].by = "drive-sequence",
                        \A k \in DOMAIN macros' : macros'[k].rover # r
                 PROVE  oi'[r].cmd = "full"
      BY DEF NobodyLeftSeeking
    <3>1. CASE r = m.rover
      BY <2>1, <3>1
    <3>2. CASE r # m.rover
      <4>1. \A j \in DOMAIN macros : macros[j].rover # r
        BY <1>0, <2>4, <3>2
      <4> QED BY <1>4, <3>2, <4>1 DEF MacroInv, NobodyLeftSeeking
    <3> QED BY <3>1, <3>2
  <2> QED BY <1>0, <1>4, <2>2, <2>3, <2>5 DEF MacroInv
<1>6. CASE m.step = 2
  <2>1. macros' = [macros EXCEPT ![i] = [m EXCEPT !.step = 3]]
    BY <1>2, <1>3, <1>6, DriveCommands
  <2>2. [m EXCEPT !.step = 3] \in Waiting /\ [m EXCEPT !.step = 3].rover = m.rover
    BY <1>1 DEF Waiting
  <2> DEFINE next == [m EXCEPT !.step = 3]
  <2> HIDE DEF next
  <2>3. /\ macros' \in Seq(Waiting) /\ Len(macros') = Len(macros)
        /\ \A j \in DOMAIN macros : macros'[j].rover = macros[j].rover
    <3>1. macros' = [macros EXCEPT ![i] = next] /\ next \in Waiting /\ next.rover = m.rover
      BY <2>1, <2>2 DEF next
    <3> QED BY <1>0, <3>1
  <2>4. NobodyLeftSeeking'
    <3> SUFFICES ASSUME NEW r \in Rovers \ oiRefused', oi'[r] # None, oi'[r].by = "drive-sequence",
                        \A k \in DOMAIN macros' : macros'[k].rover # r
                 PROVE  oi'[r].cmd = "full"
      BY DEF NobodyLeftSeeking
    <3>1. \A j \in DOMAIN macros : macros[j].rover # r
      BY <1>0, <2>3
    <3>2. r # m.rover
      BY <1>0, <3>1
    <3> QED BY <1>4, <3>1, <3>2 DEF MacroInv, NobodyLeftSeeking
  <2> QED BY <1>0, <1>4, <2>3, <2>4 DEF MacroInv
<1> QED BY <1>2, <1>5, <1>6

LEMMA MacroSteps ==
    LoopInv /\ MacroInv /\ [Next]_vars => MacroInv'
<1> SUFFICES ASSUME LoopInv, MacroInv, [Next]_vars
             PROVE  MacroInv'
  OBVIOUS
<1>0. CASE UNCHANGED <<macros, mode, oi, oiRefused>>
  BY <1>0 DEF MacroInv, NobodyLeftSeeking
<1>1. ASSUME NEW k \in user.keys, KeyDown(k) PROVE MacroInv'
  <2>1. UNCHANGED macro \/ \E km, new : KeyActions(km, new)
    BY <1>1 DEF KeyDown
  <2>2. ASSUME NEW km, NEW new, KeyActions(km, new) PROVE MacroInv'
    <3> DEFINE drive == new \cap Binding(km, "driveMacro") # {}
               dock == ~drive /\ new \cap Binding(km, "dockMacro") # {}
    <3>1. UNCHANGED macro \/ ((drive \/ dock) /\ RunMacros(drive, dock, FALSE))
      BY <2>2 DEF KeyActions
    <3>2. drive \in BOOLEAN /\ dock \in BOOLEAN
      OBVIOUS
    <3> HIDE DEF drive, dock
    <3> QED BY <1>0, <3>1, <3>2, MacrosRun DEF macro
  <2> QED BY <1>0, <2>1, <2>2 DEF macro
<1>2. CASE pollGamepads
  <2>1. \/ UNCHANGED macro
        \/ \E pressed : /\ pressed \cap {"driveMacro", "dockMacro"} # {}
                        /\ RunMacros("driveMacro" \in pressed, "dockMacro" \in pressed, FALSE)
    BY <1>2 DEF pollGamepads
  <2>2. ASSUME NEW pressed, pressed \cap {"driveMacro", "dockMacro"} # {},
               RunMacros("driveMacro" \in pressed, "dockMacro" \in pressed, FALSE)
        PROVE  MacroInv'
    <3> DEFINE drive == "driveMacro" \in pressed
               dock == "dockMacro" \in pressed
    <3>1. drive \/ dock
      BY <2>2
    <3>2. RunMacros(drive, dock, FALSE)
      BY <2>2, Zenon
    <3>3. drive \in BOOLEAN /\ dock \in BOOLEAN
      OBVIOUS
    <3> HIDE DEF drive, dock
    <3> QED BY <3>1, <3>2, <3>3, MacrosRun
  <2> QED BY <1>0, <2>1, <2>2 DEF macro
<1>3. CASE ClickDrive
  BY <1>3, MacrosRun DEF ClickDrive
<1>4. CASE ConfirmDock
  BY <1>4, MacrosRun DEF ConfirmDock
<1>5. ASSUME NEW i \in 1..MaxMacros, MacroStep(i) PROVE MacroInv'
  BY <1>5, MacroGoesOn
<1>6. ASSUME NEW l \in Layouts, Rotate(l) PROVE MacroInv'
  <2>1. /\ macros' = [i \in DOMAIN macros |-> [macros[i] EXCEPT !.button = FALSE]]
        /\ UNCHANGED <<mode, oi, oiRefused>>
    BY <1>6 DEF Rotate
  <2>2. ASSUME NEW m \in Waiting
        PROVE  [m EXCEPT !.button = FALSE] \in Waiting /\ [m EXCEPT !.button = FALSE].rover = m.rover
    BY DEF Waiting
  <2>3. macros \in Seq(Waiting) /\ DOMAIN macros = 1..Len(macros) /\ Len(macros) \in Nat
    BY DEF MacroInv
  <2>4. ASSUME NEW i \in DOMAIN macros
        PROVE  macros'[i] \in Waiting /\ macros'[i].rover = macros[i].rover
    <3>1. macros[i] \in Waiting
      BY <2>3
    <3>2. macros'[i] = [macros[i] EXCEPT !.button = FALSE]
      BY <2>1
    <3> QED BY <2>2, <3>1, <3>2
  <2>5. macros' \in Seq(Waiting) /\ DOMAIN macros' = DOMAIN macros /\ Len(macros') = Len(macros)
    <3>1. DOMAIN macros' = 1..Len(macros)
      BY <2>1, <2>3
    <3>2. macros' \in [1..Len(macros) -> Waiting]
      BY <2>1, <2>3, <2>4, <3>1
    <3> QED BY <2>3, <3>1, <3>2
  <2> QED BY <2>1, <2>4, <2>5 DEF MacroInv, NobodyLeftSeeking
<1> QED BY <1>0, <1>1, <1>2, <1>3, <1>4, <1>5, <1>6, QuietMacros

-----------------------------------------------------------------------------
(* The speeds of the assigned rover.                                       *)

\* The effects of one change of rover end before the next begins.
HandoverInv == wired # assigned => settled = wired

LEMMA HandoverSteps ==
    HandoverInv /\ [Next]_vars => HandoverInv'
<1> SUFFICES ASSUME HandoverInv, [Next]_vars
             PROVE  HandoverInv'
  OBVIOUS
<1> USE DEF HandoverInv, session
<1>1. ASSUME NEW k \in user.keys, KeyDown(k) \/ KeyUp(k) PROVE HandoverInv'
  BY <1>1 DEF KeyDown, KeyUp
<1>2. CASE Blur \/ resetKeyBindings \/ ServoTick \/ SongTick
  BY <1>2 DEF Blur, resetKeyBindings, ServoTick, SongTick
<1>3. CASE WireRover \/ SettleRover
  BY <1>3 DEF WireRover, SettleRover
<1>4. ASSUME NEW r \in Rovers \cup {None}, AssignRover(r) PROVE HandoverInv'
  BY <1>4 DEF AssignRover, Settled
<1>5. CASE UNCHANGED loopVars
  BY <1>5 DEF loopVars
<1> QED BY <1>1, <1>2, <1>3, <1>4, <1>5, QuietLoops

Speeds == [left : -500..500, right : -500..500]
Vectors == [x : Int, y : Int, boost : BOOLEAN]
Options == [baseSpeed : Int, boostSpeed : Int]

\* The first part of RestMeansStop, and the types it takes.
DriveInv ==
  /\ driven \in [Rovers -> Speeds] /\ stick \in Vectors /\ wheelsLoose \subseteq Rovers
  /\ Settled /\ assigned # None /\ kbVector = Rest /\ gpVector = Rest /\ ~tracking
       /\ assigned \notin wheelsLoose => driven[assigned] = Halt

LEMMA HaltIsSpeeds == Halt \in Speeds
BY DEF Halt, Speeds

LEMMA Rounded ==
    ASSUME NEW n \in Int
    PROVE  round(n, 100) \in Int /\ round(0, 100) = 0
BY DEF round

LEMMA UnitClamped ==
    ASSUME NEW v \in Int
    PROVE  clampUnit(v) \in Int
BY Clamped DEF clampUnit

LEMMA SpeedClamped ==
    ASSUME NEW s \in Int
    PROVE  clamp(s, -500, 500) \in -500..500
BY DEF clamp, AtLeast, AtMost

LEMMA SpeedsOf ==
    ASSUME NEW v \in Vectors, NEW options \in Options
    PROVE  computeDifferentialSpeeds(v, options) \in Speeds
<1> DEFINE n == normalizeDriveVector(v)
           base == IF n.boost THEN options.boostSpeed ELSE options.baseSpeed
           l == round((n.y + n.x) * base, 100)
           r == round((n.y - n.x) * base, 100)
<1>1. n.x \in Int /\ n.y \in Int
  <2>1. v.x \in Int /\ v.y \in Int
    BY DEF Vectors
  <2> QED BY <2>1, UnitClamped DEF normalizeDriveVector
<1>2. base \in Int
  BY DEF Options
<1> HIDE DEF n, base
<1>3. (n.y + n.x) * base \in Int /\ (n.y - n.x) * base \in Int
  BY <1>1, <1>2
<1>4. l \in Int /\ r \in Int
  BY <1>3, Rounded
<1>5. computeDifferentialSpeeds(v, options) = [left |-> clamp(l, -500, 500), right |-> clamp(r, -500, 500)]
  BY DEF computeDifferentialSpeeds, n, base
<1> HIDE DEF l, r
<1>6. clamp(l, -500, 500) \in -500..500 /\ clamp(r, -500, 500) \in -500..500
  BY <1>4, SpeedClamped
<1> QED BY <1>5, <1>6 DEF Speeds

LEMMA RestIsHalt ==
    ASSUME NEW options \in Options
    PROVE  computeDifferentialSpeeds(Rest, options) = Halt
<1>1. normalizeDriveVector(Rest) = Rest
  BY DEF normalizeDriveVector, Rest, clampUnit, clamp, AtLeast, AtMost
<1>2. options.boostSpeed * 0 = 0 /\ options.baseSpeed * 0 = 0 /\ 0 * options.baseSpeed = 0
  BY DEF Options
<1>3. computeDifferentialSpeeds(Rest, options) = [left |-> clamp(0, -500, 500), right |-> clamp(0, -500, 500)]
  BY <1>1, <1>2 DEF computeDifferentialSpeeds, Rest, round
<1> QED BY <1>3 DEF Halt, clamp, AtLeast, AtMost

LEMMA KeysAskVectors ==
    ASSUME NEW km, NEW t
    PROVE  computeDriveVector(km, t) \in Vectors /\ SpeedOptions(km, t) \in Options
<1>1. \A plus, minus : Opposed(km, plus, minus, t) \in Int
  BY DEF Opposed
<1>2. computeDriveVector(km, t) \in Vectors
  BY <1>1 DEF computeDriveVector, Vectors
<1>3. SpeedOptions(km, t) \in Options
  BY DEF SpeedOptions, Options
<1> QED BY <1>2, <1>3

LEMMA RestIsVector == Rest \in Vectors /\ DRIVE_LIMITS \in Options
BY DEF Rest, Vectors, DRIVE_LIMITS, Options

LEMMA PadAsksVectors ==
    ASSUME NEW p \in Pads \ {None}, NEW m
    PROVE  PadVector(p, m) \in Vectors
<1>1. p.x \in Int /\ p.y \in Int
  <2>1. p["x"] \in Int /\ p["y"] \in Int
    BY ControlsConstants
  <2> QED BY <2>1
<1>2. applyDeadzone(p.x, 20) \in Int /\ applyDeadzone(-p.y, 20) \in Int
  BY <1>1 DEF applyDeadzone
<1>3. clampUnit(applyDeadzone(p.x, 20)) \in Int /\ clampUnit(applyDeadzone(-p.y, 20)) \in Int
  BY <1>2, UnitClamped
<1> QED BY <1>3, RestIsVector DEF PadVector, Vectors

LEMMA ThumbAsksVectors ==
    ASSUME NEW v \in Vectors, NEW thumb \in Thumbs
    PROVE  Smoothed(v, thumb) \in Vectors
<1>1. thumb.x \in Int /\ thumb.y \in Int /\ thumb.boost \in BOOLEAN
  BY ControlsConstants
<1>2. clampUnit(thumb.x) \in Int /\ clampUnit(thumb.y) \in Int
  BY <1>1, UnitClamped
<1>3. v.x \in Int /\ v.y \in Int
  BY DEF Vectors
<1>4. \A a, b \in Int : a + ((b - a) * 85) \div 100 \in Int
  OBVIOUS
<1> QED BY <1>1, <1>2, <1>3, <1>4 DEF Smoothed, Vectors

\* What the page sends moves the session's rover, or leaves it loose.
LEMMA SpeedsSent ==
    ASSUME NEW speeds \in Speeds, sendDriveDirect(speeds), wired \in Rovers \cup {None},
           driven \in [Rovers -> Speeds], wheelsLoose \subseteq Rovers
    PROVE  /\ driven' \in [Rovers -> Speeds] /\ wheelsLoose' \subseteq Rovers
           /\ wired \in Rovers /\ wired = assigned /\ wired \notin wheelsLoose'
                => driven'[wired] = speeds
<1>1. wheelsLoose' \subseteq Rovers
  BY DEF sendDriveDirect, Unheeded
<1>2. CASE wired \in granted
  <2>1. driven' = [driven EXCEPT ![wired] = speeds]
    BY <1>2 DEF sendDriveDirect
  <2> QED BY <1>1, <2>1
<1>3. CASE wired \notin granted
  <2>1. driven' = driven /\ wheelsLoose' = wheelsLoose \cup Unheeded
    BY <1>3 DEF sendDriveDirect, HasSay
  <2> QED BY <1>1, <2>1 DEF Unheeded
<1> QED BY <1>2, <1>3

LEMMA DriveSent ==
    ASSUME NEW v \in Vectors, NEW options \in Options, setDriveVector(v, options), DriveInv,
           wired \in Rovers \cup {None}
    PROVE  /\ driven' \in [Rovers -> Speeds] /\ wheelsLoose' \subseteq Rovers
           /\ v = Rest /\ wired \in Rovers /\ wired = assigned /\ wired \notin wheelsLoose'
                => driven'[wired] = Halt
<1> DEFINE speeds == computeDifferentialSpeeds(v, options)
<1>1. speeds \in Speeds /\ (v = Rest => speeds = Halt)
  BY SpeedsOf, RestIsHalt
<1>2. sendDriveDirect(speeds)
  BY DEF setDriveVector
<1> HIDE DEF speeds
<1> QED BY <1>1, <1>2, SpeedsSent DEF DriveInv

\* Both inputs of the page that send only what has changed.
LEMMA InputDrives ==
    ASSUME DriveInv, LoopInv, UNCHANGED <<assigned, wired, settled, tracking, stick>>,
           NEW options \in Options,
           \/ /\ kbVector' \in Vectors /\ DriveFrom(kbVector', kbVector, options)
              /\ UNCHANGED gpVector
           \/ /\ gpVector' \in Vectors /\ DriveFrom(gpVector', gpVector, options)
              /\ UNCHANGED kbVector
    PROVE  DriveInv'
<1>1. CASE UNCHANGED <<driven, wheelsLoose, kbVector, gpVector>>
  BY <1>1 DEF DriveInv, Settled
<1>2. ASSUME NEW v \in Vectors, setDriveVector(v, options),
             \/ v = kbVector' /\ UNCHANGED gpVector
             \/ v = gpVector' /\ UNCHANGED kbVector
      PROVE  DriveInv'
  <2>1. /\ driven' \in [Rovers -> Speeds] /\ wheelsLoose' \subseteq Rovers
        /\ v = Rest /\ wired \in Rovers /\ wired = assigned /\ wired \notin wheelsLoose'
             => driven'[wired] = Halt
    BY <1>2, DriveSent DEF LoopInv
  <2>2. kbVector' = Rest /\ gpVector' = Rest => v = Rest
    BY <1>2
  <2>3. Settled' /\ assigned' # None => wired \in Rovers /\ wired = assigned
    BY DEF Settled, LoopInv
  <2> QED BY <2>1, <2>2, <2>3 DEF DriveInv
<1> QED BY <1>1, <1>2 DEF DriveFrom, wheels

LEMMA ResetDrives ==
    ASSUME DriveInv, LoopInv, resetAll, UNCHANGED <<assigned, wired>>, stick' \in Vectors
    PROVE  DriveInv'
<1>1. sendDriveDirect(Halt)
  BY DEF resetAll, stopAllMotion
<1>2. /\ driven' \in [Rovers -> Speeds] /\ wheelsLoose' \subseteq Rovers
      /\ wired \in Rovers /\ wired = assigned /\ wired \notin wheelsLoose' => driven'[wired] = Halt
  BY <1>1, HaltIsSpeeds, SpeedsSent DEF DriveInv, LoopInv
<1> QED BY <1>2 DEF DriveInv, LoopInv, Settled

driveVars == <<assigned, wired, settled, kbVector, gpVector, tracking, stick, driven, wheelsLoose>>

LEMMA QuietDrive ==
    ASSUME [Next]_vars, \A k \in user.keys : ~ KeyDown(k) /\ ~ KeyUp(k), ~ Blur, ~ pollGamepads,
           ~ WireRover, ~ SettleRover, ~ PointerDown, ~ PointerUp, ~ DockedFrame,
           \A thumb \in user.thumbs : ~ PointerMove(thumb),
           \A r \in Rovers \cup {None} : ~ AssignRover(r), \A l \in Layouts : ~ Rotate(l),
           \A r \in Contested : ~ OthersSpeak(r)
    PROVE  UNCHANGED driveVars
<1> USE DEF driveVars, session, keyboard, gamepad, joystick, wheels, motion
<1>1. CASE PageStep
  BY <1>1 DEF PageStep, ServoTick, SongTick, MacroStep
<1>2. CASE UserStep
  <2>1. CASE \/ Click \/ resetKeyBindings
             \/ \E action \in Rebindable \cup {None} : StartCapture(action)
             \/ \E control \in Remappable : UpdateMapping(control)
    BY <2>1 DEF Click, resetKeyBindings, StartCapture, UpdateMapping
  <2>2. CASE \/ \E p \in user.pads : MovePad(p)
             \/ \E b \in user.buttons : PressAux(b) \/ ReleaseAux(b)
             \/ ClickDrive \/ OpenDock \/ ConfirmDock
    BY <2>2 DEF MovePad, PressAux, ReleaseAux, ClickDrive, OpenDock, ConfirmDock
  <2> QED BY <1>2, <2>1, <2>2 DEF UserStep
<1>3. CASE Environment
  BY <1>3 DEF Environment, Permission, HomeAssistantReport
<1>4. CASE UNCHANGED vars
  BY <1>4 DEF vars
<1> QED BY <1>1, <1>2, <1>3, <1>4 DEF Next

\* A joystick that goes while the thumb moves it leaves the rover loose.
LEMMA JoystickGone ==
    ASSUME DriveInv, LoopInv, stick' \in Vectors,
           wheelsLoose' = IF tracking THEN wheelsLoose \cup Unheeded ELSE wheelsLoose,
           UNCHANGED <<assigned, wired, settled, kbVector, gpVector, driven>>
    PROVE  DriveInv'
<1>1. wheelsLoose' \subseteq Rovers /\ wheelsLoose \subseteq wheelsLoose'
  BY DEF DriveInv, Unheeded
<1>2. Settled /\ assigned # None /\ tracking => assigned \in wheelsLoose'
  BY DEF LoopInv, Unheeded, Settled
<1>3. Settled' <=> Settled
  BY DEF Settled
<1> QED BY <1>1, <1>2, <1>3 DEF DriveInv

LEMMA DriveSteps ==
    /\ DriveInv /\ LoopInv /\ HandoverInv
    /\ user \in Users /\ pad \in user.pads \cup {None}
    /\ [Next]_vars
    => DriveInv'
<1> SUFFICES ASSUME DriveInv, LoopInv, HandoverInv, user \in Users, pad \in user.pads \cup {None},
                    [Next]_vars
             PROVE  DriveInv'
  OBVIOUS
<1> USE DEF session, keyboard, gamepad, joystick, wheels, motion
<1>1. ASSUME NEW km, NEW now, driveFromKeys(km, now),
             UNCHANGED <<assigned, wired, settled, tracking, stick, gpVector>>
      PROVE  DriveInv'
  <2>1. kbVector' \in Vectors /\ SpeedOptions(km, now) \in Options
    BY <1>1, KeysAskVectors DEF driveFromKeys
  <2>2. DriveFrom(kbVector', kbVector, SpeedOptions(km, now))
    BY <1>1 DEF driveFromKeys
  <2> QED BY <1>1, <2>1, <2>2, InputDrives
<1>2. ASSUME NEW k \in user.keys, KeyDown(k) PROVE DriveInv'
  <2>1. /\ UNCHANGED <<assigned, wired, settled, tracking, stick, gpVector>>
        /\ \/ UNCHANGED <<kbVector, driven, wheelsLoose>>
           \/ resetAll
           \/ \E km, now : driveFromKeys(km, now)
    BY <1>2 DEF KeyDown
  <2>2. CASE UNCHANGED <<kbVector, driven, wheelsLoose>>
    BY <2>1, <2>2 DEF DriveInv, Settled
  <2>3. CASE resetAll
    BY <2>1, <2>3, ResetDrives DEF DriveInv
  <2> QED BY <1>1, <2>1, <2>2, <2>3
<1>3. ASSUME NEW k \in user.keys, KeyUp(k) PROVE DriveInv'
  <2>1. /\ UNCHANGED <<assigned, wired, settled, tracking, stick, gpVector>>
        /\ driveFromKeys(keymap, tokens')
    BY <1>3 DEF KeyUp
  <2> QED BY <1>1, <2>1
<1>4. CASE Blur
  BY <1>4, ResetDrives DEF Blur, DriveInv
<1>5. CASE pollGamepads
  <2>1. UNCHANGED <<assigned, wired, settled, tracking, stick, kbVector>>
    BY <1>5 DEF pollGamepads
  <2>2. gpVector' \in Vectors /\ DriveFrom(gpVector', gpVector, DRIVE_LIMITS)
    <3>1. CASE pad = None /\ gpVector' = Rest /\ DriveFrom(Rest, gpVector, DRIVE_LIMITS)
      BY <3>1, RestIsVector DEF DriveFrom
    <3>2. CASE /\ pad # None /\ gpVector' = PadVector(pad, mapped)
               /\ DriveFrom(gpVector', gpVector, DRIVE_LIMITS)
      BY <3>2, AtHand, PadAsksVectors
    <3> QED BY <1>5, <3>1, <3>2 DEF pollGamepads
  <2> QED BY <2>1, <2>2, InputDrives, RestIsVector
<1>6. CASE WireRover
  <2>1. /\ wired # assigned /\ wired' = assigned
        /\ UNCHANGED <<assigned, settled, kbVector, gpVector, tracking, stick, driven, wheelsLoose>>
    BY <1>6 DEF WireRover
  <2> QED BY <2>1 DEF DriveInv, HandoverInv, Settled
<1>7. CASE SettleRover
  <2>1. resetAll /\ UNCHANGED <<assigned, wired, gpVector>> /\ stick' \in Vectors
    BY <1>7, RestIsVector DEF SettleRover, DriveInv
  <2> QED BY <2>1, ResetDrives
<1>8. CASE PointerDown
  BY <1>8 DEF PointerDown, DriveInv, Settled, disabled
<1>9. CASE PointerUp
  <2>1. UNCHANGED <<assigned, wired, settled, kbVector, gpVector>> /\ tracking' = FALSE
    BY <1>9 DEF PointerUp
  <2>2. CASE tracking /\ ~disabled
    <3>1. stick' = Rest /\ setDriveVector(Rest, DRIVE_LIMITS)
      BY <1>9, <2>2 DEF PointerUp
    <3>2. /\ driven' \in [Rovers -> Speeds] /\ wheelsLoose' \subseteq Rovers
          /\ wired \in Rovers /\ wired = assigned /\ wired \notin wheelsLoose'
               => driven'[wired] = Halt
      BY <3>1, DriveSent, RestIsVector DEF LoopInv
    <3> QED BY <2>1, <3>1, <3>2, RestIsVector DEF DriveInv, LoopInv, Settled
  <2>3. CASE ~(tracking /\ ~disabled)
    <3>1. UNCHANGED <<stick, driven, wheelsLoose>>
      BY <1>9, <2>3 DEF PointerUp
    <3> QED BY <2>1, <2>3, <3>1 DEF DriveInv, Settled, disabled
  <2> QED BY <2>2, <2>3
<1>10. ASSUME NEW thumb \in user.thumbs, PointerMove(thumb) PROVE DriveInv'
  <2>1. /\ stick' = Smoothed(stick, thumb) /\ setDriveVector(stick', DRIVE_LIMITS) /\ tracking
        /\ UNCHANGED <<assigned, wired, settled, kbVector, gpVector, tracking>>
    BY <1>10 DEF PointerMove
  <2>2. stick' \in Vectors
    BY <2>1, AtHand, ThumbAsksVectors DEF DriveInv
  <2>3. driven' \in [Rovers -> Speeds] /\ wheelsLoose' \subseteq Rovers
    BY <2>1, <2>2, DriveSent, RestIsVector DEF LoopInv
  <2> QED BY <2>1, <2>2, <2>3 DEF DriveInv
<1>11. CASE DockedFrame
  <2>1. /\ tracking' = FALSE
        /\ wheelsLoose' = IF tracking THEN wheelsLoose \cup Unheeded ELSE wheelsLoose
        /\ UNCHANGED <<assigned, wired, settled, kbVector, gpVector, stick, driven>>
    BY <1>11 DEF DockedFrame
  <2> QED BY <2>1, JoystickGone DEF DriveInv
<1>12. ASSUME NEW l \in Layouts, Rotate(l) PROVE DriveInv'
  <2>1. /\ tracking' = FALSE /\ stick' = Rest
        /\ wheelsLoose' = IF tracking THEN wheelsLoose \cup Unheeded ELSE wheelsLoose
        /\ UNCHANGED <<assigned, wired, settled, kbVector, gpVector, driven>>
    BY <1>12 DEF Rotate
  <2> QED BY <2>1, JoystickGone, RestIsVector
<1>13. ASSUME NEW r \in Rovers \cup {None}, AssignRover(r) PROVE DriveInv'
  <2>1. /\ r # assigned /\ Settled /\ assigned' = r
        /\ wheelsLoose' = (wheelsLoose \cup Unheeded) \ {r}
        /\ UNCHANGED <<wired, settled, kbVector, gpVector, tracking, stick, driven>>
    BY <1>13 DEF AssignRover
  <2> QED BY <2>1 DEF DriveInv, Settled, Unheeded
<1>14. ASSUME NEW r \in Contested, OthersSpeak(r) PROVE DriveInv'
  <2>1. PICK left \in Leftovers : driven' = [driven EXCEPT ![r] = left[1]]
    BY <1>14 DEF OthersSpeak
  <2>2. /\ wheelsLoose' = wheelsLoose \cup {r}
        /\ UNCHANGED <<assigned, wired, settled, kbVector, gpVector, tracking, stick>>
    BY <1>14 DEF OthersSpeak
  <2>3. left[1] \in Speeds /\ r \in Rovers
    BY ControlsConstants DEF Speeds
  <2>4. driven' \in [Rovers -> Speeds] /\ \A x \in Rovers \ {r} : driven'[x] = driven[x]
    BY <2>1, <2>3 DEF DriveInv
  <2> QED BY <2>2, <2>3, <2>4 DEF DriveInv, LoopInv, Settled
<1>15. CASE UNCHANGED driveVars
  BY <1>15 DEF driveVars, DriveInv, Settled
<1> QED BY <1>2, <1>3, <1>4, <1>5, <1>6, <1>7, <1>8, <1>9, <1>10, <1>11, <1>12, <1>13,
         <1>14, <1>15, QuietDrive

-----------------------------------------------------------------------------
(* The brushes and the vacuum of the assigned rover.                       *)

\* What the second part of RestMeansStop needs to be inductive: of the phone's
\* buttons only the one pressed last counts.
BrushInv ==
  /\ activeButton = None \/ activeButton # "stopAll"
  /\ DOMAIN brushes = Rovers /\ brushesLoose \subseteq Rovers
  /\ Settled /\ assigned # None /\ kbAux = Idle /\ gpAux = Idle
       /\ (activeButton = None \/ activeButton \notin auxHeld) /\ assigned \notin brushesLoose
       => brushes[assigned] = Idle

LEMMA IdleIsSent == AuxPayload(Idle) = Idle
BY DEF AuxPayload, Idle, clamp, AtLeast, AtMost

LEMMA PowersSent ==
    ASSUME NEW values, sendAuxMotors(values), wired \in Rovers \cup {None},
           DOMAIN brushes = Rovers, brushesLoose \subseteq Rovers
    PROVE  /\ DOMAIN brushes' = Rovers /\ brushesLoose' \subseteq Rovers
           /\ wired \in Rovers /\ wired = assigned /\ wired \notin brushesLoose'
                => brushes'[wired] = AuxPayload(values)
<1>1. brushesLoose' \subseteq Rovers
  BY DEF sendAuxMotors, Unheeded
<1>2. CASE wired \in granted
  <2>1. brushes' = [brushes EXCEPT ![wired] = AuxPayload(values)]
    BY <1>2 DEF sendAuxMotors
  <2> QED BY <1>1, <2>1
<1>3. CASE wired \notin granted
  <2>1. brushes' = brushes /\ brushesLoose' = brushesLoose \cup Unheeded
    BY <1>3 DEF sendAuxMotors, HasSay
  <2> QED BY <1>1, <2>1 DEF Unheeded
<1> QED BY <1>2, <1>3

\* The keyboard or the gamepad sends what has changed.
LEMMA InputTurns ==
    ASSUME BrushInv, LoopInv, UNCHANGED <<assigned, wired, settled, activeButton, auxHeld>>,
           \/ AuxFrom(kbAux', kbAux) /\ UNCHANGED gpAux
           \/ AuxFrom(gpAux', gpAux) /\ UNCHANGED kbAux
    PROVE  BrushInv'
<1>1. CASE UNCHANGED <<brushes, brushesLoose, kbAux, gpAux>>
  BY <1>1 DEF BrushInv, Settled
<1>2. ASSUME NEW a, sendAuxMotors(a), a = kbAux' \/ a = gpAux'
      PROVE  BrushInv'
  <2>1. /\ DOMAIN brushes' = Rovers /\ brushesLoose' \subseteq Rovers
        /\ wired \in Rovers /\ wired = assigned /\ wired \notin brushesLoose'
             => brushes'[wired] = AuxPayload(a)
    BY <1>2, PowersSent DEF BrushInv, LoopInv
  <2>2. kbAux' = Idle /\ gpAux' = Idle => AuxPayload(a) = Idle
    BY <1>2, IdleIsSent
  <2>3. Settled' /\ assigned' # None => wired \in Rovers /\ wired = assigned
    BY DEF Settled, LoopInv
  <2> QED BY <2>1, <2>2, <2>3 DEF BrushInv
<1> QED BY <1>1, <1>2 DEF AuxFrom, motors

LEMMA ResetTurns ==
    ASSUME BrushInv, LoopInv, resetAll, UNCHANGED <<assigned, wired, activeButton, auxHeld>>
    PROVE  BrushInv'
<1>1. sendAuxMotors(Idle)
  BY DEF resetAll, stopAllMotion
<1>2. /\ DOMAIN brushes' = Rovers /\ brushesLoose' \subseteq Rovers
      /\ wired \in Rovers /\ wired = assigned /\ wired \notin brushesLoose'
           => brushes'[wired] = Idle
  BY <1>1, IdleIsSent, PowersSent DEF BrushInv, LoopInv
<1> QED BY <1>2 DEF BrushInv, LoopInv, Settled

brushVars == <<assigned, wired, settled, kbAux, gpAux, activeButton, auxHeld, brushes,
               brushesLoose>>

LEMMA QuietBrushes ==
    ASSUME [Next]_vars, \A k \in user.keys : ~ KeyDown(k) /\ ~ KeyUp(k), ~ Blur, ~ pollGamepads,
           ~ WireRover, ~ SettleRover, \A b \in user.buttons : ~ PressAux(b) /\ ~ ReleaseAux(b),
           \A r \in Rovers \cup {None} : ~ AssignRover(r), \A l \in Layouts : ~ Rotate(l),
           \A r \in Contested : ~ OthersSpeak(r)
    PROVE  UNCHANGED brushVars
<1> USE DEF brushVars, input, session, keyboard, gamepad, motors, motion
<1>1. CASE PageStep
  BY <1>1 DEF PageStep, ServoTick, SongTick, MacroStep
<1>2. CASE UserStep
  <2>1. CASE \/ Click \/ resetKeyBindings \/ PointerDown \/ PointerUp
             \/ \E action \in Rebindable \cup {None} : StartCapture(action)
             \/ \E control \in Remappable : UpdateMapping(control)
    BY <2>1 DEF Click, resetKeyBindings, PointerDown, PointerUp, StartCapture, UpdateMapping
  <2>2. CASE \/ \E p \in user.pads : MovePad(p)
             \/ \E thumb \in user.thumbs : PointerMove(thumb)
             \/ ClickDrive \/ OpenDock \/ ConfirmDock
    BY <2>2 DEF MovePad, PointerMove, ClickDrive, OpenDock, ConfirmDock
  <2> QED BY <1>2, <2>1, <2>2 DEF UserStep
<1>3. CASE Environment
  BY <1>3 DEF Environment, DockedFrame, Permission, HomeAssistantReport
<1>4. CASE UNCHANGED vars
  BY <1>4 DEF vars
<1> QED BY <1>1, <1>2, <1>3, <1>4 DEF Next

LEMMA BrushSteps ==
    BrushInv /\ LoopInv /\ HandoverInv /\ user \in Users /\ [Next]_vars => BrushInv'
<1> SUFFICES ASSUME BrushInv, LoopInv, HandoverInv, user \in Users, [Next]_vars
             PROVE  BrushInv'
  OBVIOUS
<1> USE DEF input, page, session, keyboard, gamepad, motors, motion
<1>1. ASSUME NEW km, NEW now, driveFromKeys(km, now),
             UNCHANGED <<assigned, wired, settled, activeButton, auxHeld, gpAux>>
      PROVE  BrushInv'
  BY <1>1, InputTurns DEF driveFromKeys
<1>2. ASSUME NEW k \in user.keys, KeyDown(k) PROVE BrushInv'
  <2>1. /\ UNCHANGED <<assigned, wired, settled, activeButton, auxHeld, gpAux>>
        /\ \/ UNCHANGED <<kbAux, brushes, brushesLoose>>
           \/ resetAll
           \/ \E km, now : driveFromKeys(km, now)
    BY <1>2 DEF KeyDown
  <2>2. CASE UNCHANGED <<kbAux, brushes, brushesLoose>>
    BY <2>1, <2>2 DEF BrushInv, Settled
  <2>3. CASE resetAll
    BY <2>1, <2>3, ResetTurns
  <2> QED BY <1>1, <2>1, <2>2, <2>3
<1>3. ASSUME NEW k \in user.keys, KeyUp(k) PROVE BrushInv'
  <2>1. /\ UNCHANGED <<assigned, wired, settled, activeButton, auxHeld, gpAux>>
        /\ driveFromKeys(keymap, tokens')
    BY <1>3 DEF KeyUp
  <2> QED BY <1>1, <2>1
<1>4. CASE Blur
  BY <1>4, ResetTurns DEF Blur
<1>5. CASE pollGamepads
  <2>1. UNCHANGED <<assigned, wired, settled, activeButton, auxHeld, kbAux>>
    BY <1>5 DEF pollGamepads
  <2>2. AuxFrom(gpAux', gpAux)
    BY <1>5 DEF pollGamepads, AuxFrom
  <2> QED BY <2>1, <2>2, InputTurns
<1>6. CASE WireRover
  <2>1. /\ wired # assigned /\ wired' = assigned
        /\ UNCHANGED <<assigned, settled, kbAux, gpAux, activeButton, auxHeld, brushes, brushesLoose>>
    BY <1>6 DEF WireRover
  <2> QED BY <2>1 DEF BrushInv, HandoverInv, Settled
<1>7. CASE SettleRover
  <2>1. resetAll /\ UNCHANGED <<assigned, wired, activeButton, auxHeld>>
    BY <1>7 DEF SettleRover
  <2> QED BY <2>1, ResetTurns
<1>8. ASSUME NEW b \in user.buttons, PressAux(b) PROVE BrushInv'
  <2>1. UNCHANGED <<assigned, wired, settled, kbAux, gpAux>> /\ auxHeld' = auxHeld \cup {b}
    BY <1>8 DEF PressAux
  <2>2. CASE disabled
    <3>1. UNCHANGED <<activeButton, brushes, brushesLoose>>
      BY <1>8, <2>2 DEF PressAux
    <3> QED BY <2>1, <2>2, <3>1 DEF BrushInv, Settled, disabled
  <2>3. CASE ~disabled
    <3>1. /\ sendAuxMotors(AUX_BUTTONS[b])
          /\ activeButton' = IF b = "stopAll" THEN None ELSE b
      BY <1>8, <2>3 DEF PressAux
    <3>2. activeButton' = None \/ activeButton' # "stopAll"
      BY <3>1
    <3>3. /\ DOMAIN brushes' = Rovers /\ brushesLoose' \subseteq Rovers
          /\ wired \in Rovers /\ wired = assigned /\ wired \notin brushesLoose'
               => brushes'[wired] = AuxPayload(AUX_BUTTONS[b])
      BY <3>1, PowersSent DEF BrushInv, LoopInv
    <3>4. CASE b = "stopAll"
      <4>1. AUX_BUTTONS[b] = Idle
        BY <3>4 DEF AUX_BUTTONS
      <4> QED BY <2>1, <3>2, <3>3, <4>1, IdleIsSent DEF BrushInv, LoopInv, Settled
    <3>5. CASE b # "stopAll"
      <4>1. activeButton' # None /\ activeButton' \in auxHeld'
        BY <2>1, <3>1, <3>5, AtHand, ControlsConstants
      <4> QED BY <2>1, <3>2, <3>3, <4>1 DEF BrushInv
    <3> QED BY <3>4, <3>5
  <2> QED BY <2>2, <2>3
<1>9. ASSUME NEW b \in user.buttons, ReleaseAux(b) PROVE BrushInv'
  <2>1. UNCHANGED <<assigned, wired, settled, kbAux, gpAux>> /\ auxHeld' = auxHeld \ {b}
    BY <1>9 DEF ReleaseAux
  <2>2. CASE ~disabled /\ b # "stopAll" /\ activeButton = b
    <3>1. activeButton' = None /\ sendAuxMotors(Idle)
      BY <1>9, <2>2 DEF ReleaseAux
    <3>2. /\ DOMAIN brushes' = Rovers /\ brushesLoose' \subseteq Rovers
          /\ wired \in Rovers /\ wired = assigned /\ wired \notin brushesLoose'
               => brushes'[wired] = Idle
      BY <3>1, IdleIsSent, PowersSent DEF BrushInv, LoopInv
    <3> QED BY <2>1, <3>1, <3>2 DEF BrushInv, LoopInv, Settled
  <2>3. CASE ~(~disabled /\ b # "stopAll" /\ activeButton = b)
    <3>1. UNCHANGED <<activeButton, brushes, brushesLoose>>
      BY <1>9, <2>3 DEF ReleaseAux
    <3> QED BY <2>1, <2>3, <3>1 DEF BrushInv, Settled, disabled
  <2> QED BY <2>2, <2>3
<1>10. ASSUME NEW r \in Rovers \cup {None}, AssignRover(r) PROVE BrushInv'
  <2>1. /\ r # assigned /\ Settled /\ assigned' = r
        /\ brushesLoose' = (brushesLoose \cup Unheeded) \ {r}
        /\ UNCHANGED <<wired, settled, activeButton, brushes>>
    BY <1>10 DEF AssignRover
  <2> QED BY <2>1 DEF BrushInv, Settled, Unheeded
<1>11. ASSUME NEW l \in Layouts, Rotate(l) PROVE BrushInv'
  <2>1. /\ activeButton' = None
        /\ brushesLoose' = IF activeButton # None THEN brushesLoose \cup Unheeded ELSE brushesLoose
        /\ UNCHANGED <<assigned, wired, settled, kbAux, gpAux, auxHeld, brushes>>
    BY <1>11 DEF Rotate
  <2>2. Settled /\ assigned # None /\ activeButton # None => assigned \in brushesLoose'
    BY <2>1 DEF LoopInv, Unheeded, Settled
  <2> QED BY <2>1, <2>2 DEF BrushInv, Settled, Unheeded
<1>12. ASSUME NEW r \in Contested, OthersSpeak(r) PROVE BrushInv'
  <2>1. PICK left \in Leftovers : brushes' = [brushes EXCEPT ![r] = left[2]]
    BY <1>12 DEF OthersSpeak
  <2>2. /\ brushesLoose' = brushesLoose \cup {r} /\ r \in Rovers
        /\ UNCHANGED <<assigned, wired, settled, kbAux, gpAux, activeButton, auxHeld>>
    BY <1>12, ControlsConstants DEF OthersSpeak
  <2>3. DOMAIN brushes' = Rovers /\ \A x \in Rovers \ {r} : brushes'[x] = brushes[x]
    BY <2>1 DEF BrushInv
  <2> QED BY <2>2, <2>3 DEF BrushInv, LoopInv, Settled
<1>13. CASE UNCHANGED brushVars
  BY <1>13 DEF brushVars, BrushInv, Settled
<1> QED BY <1>2, <1>3, <1>4, <1>5, <1>6, <1>7, <1>8, <1>9, <1>10, <1>11, <1>12, <1>13,
        QuietBrushes

-----------------------------------------------------------------------------
(* The rest of the state has the types it should.                          *)

InputInv ==
  /\ user \in Users /\ granted \subseteq Rovers
  /\ capture \in Rebindable \cup {None} /\ mapped \subseteq Mapped \cup Remappable
  /\ held \subseteq user.keys /\ pad \in user.pads \cup {None} /\ auxHeld \subseteq user.buttons
  /\ typing \in BOOLEAN /\ finger \in BOOLEAN /\ tracking \in BOOLEAN /\ docked \in BOOLEAN
  /\ rebound \in BOOLEAN
  /\ pending \in BOOLEAN /\ confirmOpen \in BOOLEAN /\ pendingLights \in BOOLEAN

LEMMA MacroFlags ==
    ASSUME InputInv, NEW drive \in BOOLEAN, NEW dock, NEW button \in BOOLEAN,
           RunMacros(drive, dock, button)
    PROVE  pending' \in BOOLEAN /\ pendingLights' \in BOOLEAN
BY DEF RunMacros, turnOnAllLights, InputInv

LEMMA KeyFlags ==
    ASSUME InputInv, NEW km, NEW new, KeyActions(km, new)
    PROVE  pending' \in BOOLEAN /\ pendingLights' \in BOOLEAN
<1> DEFINE drive == new \cap Binding(km, "driveMacro") # {}
           dock == ~drive /\ new \cap Binding(km, "dockMacro") # {}
<1>1. UNCHANGED macro \/ RunMacros(drive, dock, FALSE)
  BY DEF KeyActions
<1>2. drive \in BOOLEAN
  OBVIOUS
<1> HIDE DEF drive, dock
<1> QED BY <1>1, <1>2, MacroFlags DEF macro, InputInv

LEMMA InputSteps ==
    InputInv /\ [Next]_vars => InputInv'
<1> SUFFICES ASSUME InputInv, [Next]_vars
             PROVE  InputInv'
  OBVIOUS
<1>0. user' = user
  BY SameUser
<1> USE DEF input, page, settings, session, keyboard, joystick, macro, motion
<1>1. CASE PageStep
  <2>1. CASE ServoTick \/ SongTick \/ WireRover
    BY <1>0, <2>1 DEF ServoTick, SongTick, WireRover, InputInv
  <2>2. CASE pollGamepads
    <3>1. pending' \in BOOLEAN /\ pendingLights' \in BOOLEAN
      <4>1. \/ UNCHANGED macro
            \/ \E pressed : RunMacros("driveMacro" \in pressed, "dockMacro" \in pressed, FALSE)
        BY <2>2 DEF pollGamepads
      <4>2. ASSUME NEW pressed, RunMacros("driveMacro" \in pressed, "dockMacro" \in pressed, FALSE)
            PROVE  pending' \in BOOLEAN /\ pendingLights' \in BOOLEAN
        <5> DEFINE drive == "driveMacro" \in pressed
        <5>1. RunMacros(drive, "dockMacro" \in pressed, FALSE)
          BY <4>2, Zenon
        <5>2. drive \in BOOLEAN
          OBVIOUS
        <5> HIDE DEF drive
        <5> QED BY <5>1, <5>2, MacroFlags
      <4> QED BY <4>1, <4>2 DEF InputInv
    <3>2. UNCHANGED <<user, granted, capture, mapped, held, pad, auxHeld, typing, finger, tracking,
                      docked, rebound, confirmOpen>>
      BY <2>2 DEF pollGamepads
    <3> QED BY <3>1, <3>2 DEF InputInv
  <2>3. CASE SettleRover
    BY <2>3 DEF SettleRover, resetAll, InputInv
  <2>4. ASSUME NEW i \in 1..MaxMacros, MacroStep(i) PROVE InputInv'
    BY <2>4 DEF MacroStep, InputInv
  <2> QED BY <1>1, <2>1, <2>2, <2>3, <2>4 DEF PageStep
<1>2. ASSUME NEW k \in user.keys, KeyDown(k) PROVE InputInv'
  <2>1. capture' = None /\ held' \subseteq user'.keys /\ typing' \in BOOLEAN
    BY <1>0, <1>2 DEF KeyDown, InputInv
  <2>2. UNCHANGED <<user, granted, mapped, pad, auxHeld, finger, tracking, docked, confirmOpen>>
    BY <1>2 DEF KeyDown
  <2>3. pending' \in BOOLEAN /\ pendingLights' \in BOOLEAN
    <3>1. UNCHANGED macro \/ \E km, new : KeyActions(km, new)
      BY <1>2 DEF KeyDown
    <3> QED BY <3>1, KeyFlags DEF InputInv
  <2>4. rebound' \in BOOLEAN
    BY <1>2 DEF KeyDown, resetAll, InputInv
  <2> QED BY <2>1, <2>2, <2>3, <2>4 DEF InputInv
<1>3. ASSUME NEW k \in user.keys, KeyUp(k) PROVE InputInv'
  <2>1. /\ held' \subseteq held /\ rebound' \in BOOLEAN
        /\ UNCHANGED <<user, granted, capture, mapped, pad, auxHeld, typing, finger, tracking, docked,
                       pending, confirmOpen, pendingLights>>
    BY <1>3 DEF KeyUp, InputInv
  <2> QED BY <2>1 DEF InputInv
<1>4. CASE Blur
  BY <1>4 DEF Blur, resetAll, InputInv
<1>5. CASE \/ Click \/ resetKeyBindings \/ PointerDown
           \/ \E action \in Rebindable \cup {None} : StartCapture(action)
           \/ \E p \in user.pads : MovePad(p)
  <2>1. CASE Click \/ resetKeyBindings
    BY <2>1, ZenonT(30) DEF Click, resetKeyBindings, InputInv
  <2>2. CASE PointerDown
    BY <2>2 DEF PointerDown, InputInv
  <2>3. ASSUME NEW action \in Rebindable \cup {None}, StartCapture(action) PROVE InputInv'
    BY <2>3 DEF StartCapture, InputInv
  <2>4. ASSUME NEW p \in user.pads, MovePad(p) PROVE InputInv'
    BY <2>4 DEF MovePad, InputInv
  <2> QED BY <1>5, <2>1, <2>2, <2>3, <2>4
<1>6. ASSUME NEW control \in Remappable, UpdateMapping(control) PROVE InputInv'
  BY <1>6 DEF UpdateMapping, InputInv
<1>7. CASE PointerUp
  BY <1>7 DEF PointerUp, InputInv
<1>8. ASSUME NEW thumb \in user.thumbs, PointerMove(thumb) PROVE InputInv'
  BY <1>8 DEF PointerMove, InputInv
<1>9. ASSUME NEW b \in user.buttons, PressAux(b) \/ ReleaseAux(b) PROVE InputInv'
  BY <1>9 DEF PressAux, ReleaseAux, InputInv
<1>10. CASE ClickDrive \/ OpenDock \/ ConfirmDock
  <2>1. pending' \in BOOLEAN /\ pendingLights' \in BOOLEAN
    <3>1. CASE RunMacros(TRUE, FALSE, TRUE) \/ RunMacros(FALSE, TRUE, TRUE)
      BY <3>1, MacroFlags
    <3>2. CASE OpenDock
      BY <3>2 DEF OpenDock, InputInv
    <3> QED BY <1>10, <3>1, <3>2 DEF ClickDrive, ConfirmDock
  <2>2. UNCHANGED <<user, granted, capture, mapped, held, pad, auxHeld, typing, finger, tracking,
                    docked, rebound>> /\ confirmOpen' \in BOOLEAN
    BY <1>10 DEF ClickDrive, OpenDock, ConfirmDock
  <2> QED BY <2>1, <2>2 DEF InputInv
<1>11. CASE Environment
  <2>1. CASE DockedFrame
    BY <2>1 DEF DockedFrame, InputInv
  <2>2. ASSUME NEW r, AssignRover(r) PROVE InputInv'
    BY <2>2 DEF AssignRover, InputInv
  <2>3. ASSUME NEW l, Rotate(l) PROVE InputInv'
    BY <2>3 DEF Rotate, InputInv
  <2>4. ASSUME NEW r \in Contested, Permission(r) \/ OthersSpeak(r) PROVE InputInv'
    BY <2>4, ControlsConstants DEF Permission, OthersSpeak, InputInv
  <2>5. ASSUME NEW off, HomeAssistantReport(off) PROVE InputInv'
    BY <2>5 DEF HomeAssistantReport, InputInv
  <2> QED BY <1>11, <2>1, <2>2, <2>3, <2>4, <2>5 DEF Environment
<1>12. CASE UNCHANGED vars
  BY <1>12 DEF vars, InputInv
<1> QED BY <1>1, <1>2, <1>3, <1>4, <1>5, <1>6, <1>7, <1>8, <1>9, <1>10, <1>11, <1>12
        DEF Next, UserStep

-----------------------------------------------------------------------------
(* The theorems.                                                           *)

ControlsInv ==
  /\ InputInv /\ LoopInv /\ HandoverInv /\ CameraInv /\ MacroInv /\ DriveInv /\ BrushInv

LEMMA InitHolds == Init => ControlsInv /\ NoPhantomKey
<1> SUFFICES ASSUME Init
             PROVE  ControlsInv /\ NoPhantomKey
  OBVIOUS
<1> USE DEF Init
<1>1. InputInv
  BY DEF InputInv
<1>2. LoopInv
  <2>1. computeServoDirection(keymap, {}) = 0 /\ computeSongDirection(keymap, {}) = 0
    BY Directions
  <2>2. keymap \in Keymaps
    BY DefaultKeymap
  <2>3. LoopsFollowKeys
    BY <2>1 DEF LoopsFollowKeys
  <2> QED BY <2>2, <2>3, ControlsConstants DEF LoopInv
<1>3. HandoverInv
  BY DEF HandoverInv
<1>4. CameraInv
  BY DEF CameraInv, SentAnglesFit
<1>5. MacroInv
  BY ControlsConstants DEF MacroInv, NobodyLeftSeeking
<1>6. DriveInv
  BY HaltIsSpeeds, RestIsVector DEF DriveInv
<1>7. BrushInv
  BY DEF BrushInv
<1>8. NoPhantomKey
  BY DEF NoPhantomKey
<1> QED BY <1>1, <1>2, <1>3, <1>4, <1>5, <1>6, <1>7, <1>8 DEF ControlsInv

LEMMA NextHolds ==
    ControlsInv /\ [Next]_vars => ControlsInv'
BY LoopSteps, HandoverSteps, CameraSteps, MacroSteps, DriveSteps, BrushSteps, InputSteps
   DEF ControlsInv, InputInv

LEMMA InvInvariants ==
    ControlsInv => ControlsInvariant /\ LoopsFollowKeys /\ NobodyLeftSeeking
<1> SUFFICES ASSUME ControlsInv
             PROVE  ControlsInvariant /\ LoopsFollowKeys /\ NobodyLeftSeeking
  OBVIOUS
<1>1. TypeOK
  <2>1. DOMAIN keymap = DOMAIN DEFAULT_KEYMAP
    BY DEF ControlsInv, LoopInv, Keymaps
  <2>2. /\ {typing, finger, tracking, docked, rebound} \subseteq BOOLEAN
        /\ {pending, confirmOpen, pendingLights} \subseteq BOOLEAN
    BY DEF ControlsInv, InputInv
  <2>3. \A i \in DOMAIN macros : macros[i].step \in 2..Len(DEFAULT_MACROS[macros[i].id])
    <3> SUFFICES ASSUME NEW i \in DOMAIN macros
                 PROVE  macros[i].step \in 2..Len(DEFAULT_MACROS[macros[i].id])
      OBVIOUS
    <3>1. macros[i] \in Waiting
      BY DEF ControlsInv, MacroInv
    <3>2. macros[i].id = "drive-sequence" /\ macros[i].step \in 2..3
      BY <3>1 DEF Waiting
    <3> QED BY <3>2, DriveCommands
  <2> QED BY <2>1, <2>2, <2>3
          DEF TypeOK, ControlsInv, InputInv, LoopInv, DriveInv, BrushInv, MacroInv, Speeds
<1>2. RestMeansStop
  BY DEF RestMeansStop, ControlsInv, DriveInv, BrushInv
<1> QED BY <1>1, <1>2 DEF ControlsInvariant, ControlsInv, LoopInv, CameraInv, MacroInv

\* The controls keep their types; the session's rover stands still when no
\* input asks for anything and the page had the last word about it; and no
\* servo is told an angle beyond its own limits: for every user, layout,
\* number of rovers and whatever others make them do (KeyboardInputManager.jsx,
\* GamepadInputManager.jsx, MobileControls.jsx, ControlContext.jsx)
THEOREM ControlsHold == Spec => []ControlsInvariant
<1>1. Init => ControlsInv
  BY InitHolds
<1>2. ControlsInv => ControlsInvariant
  BY InvInvariants
<1> QED BY <1>1, <1>2, NextHolds, PTL DEF Spec

\* A drive sequence that has begun ends in the full mode, or still waits, or
\* was refused by the server: for any number of rovers and of macros at once,
\* and whatever becomes of the session meanwhile (commandPipeline.js)
THEOREM NobodyEverLeftSeeking == Spec => []NobodyLeftSeeking
<1>1. Init => ControlsInv
  BY InitHolds
<1>2. ControlsInv => NobodyLeftSeeking
  BY InvInvariants
<1> QED BY <1>1, <1>2, NextHolds, PTL DEF Spec

\* No token outlives its key but the names that shift changes, and the loops
\* of the camera and of the songs run while their keys ask for it: for every
\* keyboard, keymap and order of keys (KeyboardInputManager.jsx, keymapUtils.js)
THEOREM NoKeyIsPhantom == Spec => []KeysInvariant
<1>1. Init => ControlsInv /\ NoPhantomKey
  BY InitHolds
<1>2. ControlsInv /\ NoPhantomKey => KeysInvariant
  BY InvInvariants DEF KeysInvariant
<1> QED BY <1>1, <1>2, NextHolds, PhantomSteps, PTL DEF Spec
=============================================================================
