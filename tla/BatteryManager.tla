---------------------------- MODULE BatteryManager ----------------------------
(***************************************************************************)
(* server/src/services/batteryManager.js for one rover, with what          *)
(* roverManager keeps of it: the lock, its reason, and the battery state   *)
(* last decoded.  The manager locks a rover that charges in its dock with  *)
(* a low battery, and unlocks it when the charger has been waiting for     *)
(* WAITING_UNLOCK_MS; admins lock and unlock it too, and it may go and     *)
(* come back.  lockRover emits `lock' while a sensor frame is handled, so  *)
(* the manager's own listener runs in the middle of its handler.           *)
(*                                                                         *)
(* The rover's record (roverManager) is deleted with the connection; the   *)
(* manager's state (roverState) is not.  Flags that only decide which      *)
(* event is published (urgent, onDock, charging) are left out.             *)
(***************************************************************************)
EXTENDS Integers

CONSTANTS
    WaitUnlock,     \* WAITING_UNLOCK_MS, in ticks
    MaxManual       \* bound: locks and unlocks by admins

ASSUME BatteryConstants == WaitUnlock \in Nat \ {0} /\ MaxManual \in Nat

\* What a sensor frame says of the charger: not docked, docked but idle,
\* charging in the dock (codes 2 and 3), waiting in the dock (code 4), waiting
\* on the cable, or a frame that does not parse.
Readings == {"away", "idle", "charging", "waiting", "cable", "garbled"}

\* The charge, against the thresholds Warn and Full of the rover's config.
Levels == {"low", "mid", "full"}

NotWaiting == -1

BatteryState ==
    [online        : BOOLEAN,                           \* rovers.has(id)
     locked        : BOOLEAN,
     reason        : {"none", "manual", "battery"},     \* lockReason
     reported      : Levels \cup {"none"},              \* record.batteryState
     warned        : BOOLEAN,
     batteryLocked : BOOLEAN,
     waited        : {NotWaiting} \cup 0..WaitUnlock]   \* since waitingSince

VARIABLES
    b,          \* the state of the rover on the server
    reading,    \* the rover: what its frames say of the charger
    level,      \* the rover: its charge
    manual,     \* bound: admins' locks and unlocks so far
    lowSeen     \* history: reported low since the manager last unlocked it

batteryVars == <<b, reading, level, manual, lowSeen>>

NewRecord(s) == [s EXCEPT !.locked = FALSE, !.reason = "none", !.reported = "none"]

BatteryInit ==
    /\ b = [online |-> FALSE, locked |-> FALSE, reason |-> "none",
            reported |-> "none", warned |-> FALSE, batteryLocked |-> FALSE,
            waited |-> NotWaiting]
    /\ reading = "away" /\ level = "mid"
    /\ manual = 0 /\ lowSeen = FALSE

-----------------------------------------------------------------------------
(* The lock, and the manager's listener of it.                             *)

\* Mutant: the reason is not looked at.
HandleLock_AnyReason(s) ==
    IF s.locked THEN [s EXCEPT !.batteryLocked = TRUE]
    ELSE [s EXCEPT !.batteryLocked = FALSE, !.waited = NotWaiting]

HandleLock(s) ==
    IF s.locked THEN [s EXCEPT !.batteryLocked = s.reason = "battery"]
    ELSE [s EXCEPT !.batteryLocked = FALSE, !.waited = NotWaiting]

LockRover(s, locked, reason) ==
    HandleLock([s EXCEPT !.locked = locked,
                         !.reason = IF locked THEN reason ELSE "none"])

-----------------------------------------------------------------------------
(* The handling of a sensor frame.                                         *)

Waiting(r) == r \in {"waiting", "cable"}
DockedCharging(r) == r \in {"charging", "waiting"}
WaitedLongEnough(s) == s.waited = WaitUnlock

\* A frame that does not parse leaves the battery state as it was.
Decode(s, r, l) == IF r = "garbled" THEN s ELSE [s EXCEPT !.reported = l]

\* Mutants: every frame restarts the wait; the lock is forgotten off the dock.
Observe_RestartsWait(s, r) ==
    [s EXCEPT !.warned = @ \/ s.reported = "low",
              !.waited = IF Waiting(r) THEN 0 ELSE NotWaiting]
Observe_ForgetsLock(s, r) ==
    [s EXCEPT !.warned = @ \/ s.reported = "low",
              !.batteryLocked = @ /\ DockedCharging(r),
              !.waited = IF ~Waiting(r) THEN NotWaiting ELSE IF @ = NotWaiting THEN 0 ELSE @]

Observe(s, r) ==
    [s EXCEPT !.warned = @ \/ s.reported = "low",
              !.waited = IF ~Waiting(r) THEN NotWaiting ELSE IF @ = NotWaiting THEN 0 ELSE @]

LockForCharging(s, r) ==
    IF /\ DockedCharging(r) /\ s.reason # "manual" /\ s.warned
       /\ ~s.batteryLocked /\ s.reported # "full" /\ ~WaitedLongEnough(s)
    THEN [LockRover(s, TRUE, "battery") EXCEPT !.batteryLocked = TRUE]
    ELSE s

\* Mutant: the warning outlives the charge.
UnlockAfterCharge_KeepsWarned(s) ==
    IF s.batteryLocked /\ WaitedLongEnough(s)
    THEN LockRover(s, FALSE, "battery") ELSE s

UnlockAfterCharge(s) ==
    IF s.batteryLocked /\ WaitedLongEnough(s)
    THEN [LockRover(s, FALSE, "battery") EXCEPT
              !.batteryLocked = FALSE, !.warned = FALSE, !.waited = NotWaiting]
    ELSE s

HandleSensor(s, r, l) ==
    UnlockAfterCharge(LockForCharging(Observe(Decode(s, r, l), r), r))

-----------------------------------------------------------------------------
(* The steps.                                                              *)

SensorFrame ==
    /\ b.online
    /\ b' = HandleSensor(b, reading, level)
    /\ lowSeen' = IF b.reason = "battery" /\ ~b'.locked THEN FALSE
                  ELSE lowSeen \/ b'.reported = "low"
    /\ UNCHANGED <<reading, level, manual>>

\* lockRover by an admin's client, or by the Discord bot.
ManualLock(locked) ==
    /\ b.online
    /\ manual < MaxManual
    /\ b' = LockRover(b, locked, "manual")
    /\ manual' = manual + 1
    /\ UNCHANGED <<reading, level, lowSeen>>

\* A hello of a rover whose record is still there keeps the lock.
RoverHello ==
    /\ b' = [IF b.online THEN b ELSE NewRecord(b) EXCEPT !.online = TRUE]
    /\ UNCHANGED <<reading, level, manual, lowSeen>>

RemoveRover ==
    /\ b.online
    /\ b' = [NewRecord(b) EXCEPT !.online = FALSE]
    /\ UNCHANGED <<reading, level, manual, lowSeen>>

\* The rover: it docks and leaves, charges and discharges.
RoverChanges ==
    /\ reading' \in Readings /\ level' \in Levels
    /\ UNCHANGED <<b, manual, lowSeen>>

BatteryTick ==
    /\ b.waited \in 0 .. WaitUnlock - 1
    /\ b' = [b EXCEPT !.waited = @ + 1]
    /\ UNCHANGED <<reading, level, manual, lowSeen>>

BatteryNext ==
    \/ SensorFrame
    \/ \E locked \in BOOLEAN : ManualLock(locked)
    \/ RoverHello
    \/ RemoveRover
    \/ RoverChanges
    \/ BatteryTick

\* A connected rover streams its frames, and time passes.
BatterySpec ==
    /\ BatteryInit /\ [][BatteryNext]_batteryVars
    /\ WF_batteryVars(SensorFrame) /\ WF_batteryVars(BatteryTick)

-----------------------------------------------------------------------------
\* The types; a lock has a reason and nothing else has one; and a rover that
\* is away has no record.
BatteryTypeOK ==
    /\ b \in BatteryState
    /\ reading \in Readings /\ level \in Levels
    /\ manual \in 0..MaxManual /\ lowSeen \in BOOLEAN
    /\ b.locked <=> b.reason # "none"
    /\ ~b.online => ~b.locked /\ b.reported = "none"

\* A rover locked for its battery is one the manager knows it locked: it would
\* never unlock any other, and the rover would stay locked for good.
LockKnown == b.reason = "battery" => b.batteryLocked

\* An admin's lock is not taken for the manager's own; with the two above, the
\* inductive invariant that RoverProofs proves.
ManualKnown == b.reason = "manual" => ~b.batteryLocked
LockInv == BatteryTypeOK /\ LockKnown /\ ManualKnown

\* The manager never lifts a lock of an admin, nor takes it for its own,
\* whatever it had locked before.
ManualLockStands ==
    [][ SensorFrame /\ b.reason = "manual" => b'.locked /\ b'.reason = "manual" ]_batteryVars

\* A rover that the manager has unlocked is not locked by it again until its
\* battery is reported low again.
RelockNeedsLow ==
    [][ b'.reason = "battery" /\ b.reason # "battery" => lowSeen' ]_batteryVars

\* A connected rover whose charger keeps waiting, its battery no longer low,
\* is in the end unlocked, and stays so.
ChargedIsUnlocked ==
    <>[](b.online /\ reading = "waiting" /\ level # "low")
        => <>[](b.reason # "battery")
=============================================================================
