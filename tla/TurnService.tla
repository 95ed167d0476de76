----------------------------- MODULE TurnService -----------------------------
(***************************************************************************)
(* server/src/services/turnService.js for one rover, with the callers that *)
(* drive it: roverManager (drivers come and go, a rover is removed),       *)
(* commandService (drivers act), modeManager (the mode changes) and the    *)
(* two timeouts.                                                           *)
(***************************************************************************)
EXTENDS TurnOps

CONSTANT Admins     \* the clients whose role is admin or lockdown
ASSUME AdminsAssumption == Admins \subseteq Sockets

VARIABLES
    mode,           \* modeManager's currentMode
    t               \* the turn state of the rover

vars == <<mode, t>>

Init == mode = "admin" /\ t = NoQueue(FALSE)

(***************************************************************************)
(* Calls from the rest of the server.                                      *)
(***************************************************************************)

SetMode(m) ==
    /\ m # mode
    /\ mode' = m
    /\ t' = ModeChanged(m, t)

\* Mutant: `force' of any driver is passed on.
RequestControl_AnyForce(s, force) ==
    t' = DriverAdded(mode, t, s, force) /\ UNCHANGED mode

\* roverManager.requestControl: only an admin's `force' is passed on.
RequestControl(s, force) ==
    /\ force => s \in Admins
    /\ t' = DriverAdded(mode, t, s, force)
    /\ UNCHANGED mode

\* roverManager.releaseControl, which any client may cause, driver or not.
ReleaseControl(s) ==
    /\ t' = DriverRemoved(mode, t, s)
    /\ UNCHANGED mode

\* roverManager.removeRover.  Nobody is left to tell the motors to stop.
CleanupRover ==
    /\ t.known
    /\ t' = NoQueue(t.moving)
    /\ UNCHANGED mode

\* A command that commandService lets through; `motion' is whether it leaves
\* a motor running.
Command(s, motion) ==
    /\ MayDrive(mode, t, s) \/ s \in Admins
    /\ t' = RecordActivity([t EXCEPT !.moving = motion], s)
    /\ UNCHANGED mode

(***************************************************************************)
(* The timeouts, and the passing of time, which does not overtake one.     *)
(***************************************************************************)

TurnTimeout ==
    /\ t.timer = 0
    /\ t' = TurnExpired(mode, t)
    /\ UNCHANGED mode

IdleTimeoutFires ==
    /\ t.idleTimer = 0
    /\ t' = IdleExpired(mode, t)
    /\ UNCHANGED mode

Tick ==
    /\ ~Due(t)
    /\ t' = Elapse(t)
    /\ UNCHANGED mode

Next ==
    \/ \E m \in Modes : SetMode(m)
    \/ \E s \in Sockets, force \in BOOLEAN : RequestControl(s, force)
    \/ \E s \in Sockets : ReleaseControl(s)
    \/ CleanupRover
    \/ \E s \in Sockets, motion \in BOOLEAN : Command(s, motion)
    \/ TurnTimeout
    \/ IdleTimeoutFires
    \/ Tick

Spec == Init /\ [][Next]_vars

-----------------------------------------------------------------------------
(***************************************************************************)
(* Safety                                                                  *)
(***************************************************************************)

TypeOK == mode \in Modes /\ t \in TurnState

\* A driver stands in the queue once, whatever the order of requests,
\* releases and removals (driverAdded pushes only an absent id; driverRemoved
\* filters every occurrence).
NoDuplicates ==
    \A i, j \in DOMAIN t.queue : t.queue[i] = t.queue[j] => i = j

\* The turn is never held by a client that left: whoever may drive (the entry
\* of activeDrivers, which canDrive consults) is in the queue and is the
\* `current' shown to the clients, and with an empty queue it is nobody.
HolderIsQueued ==
    IF t.queue = <<>> THEN t.active = NoOne
    ELSE t.active = t.current /\ t.current \in Range(t.queue)

\* A turn that somebody is waiting for always ends: its timeout is pending,
\* and the driver either has acted or has an idle timeout running.
TurnAlwaysEnds ==
    Contested(mode, t) => /\ t.timer # Off
                          /\ t.idleTimer # Off \/ t.disarmed

\* The deadlines sent to the clients are those of the pending timeouts, none
\* forgotten, none left behind by a branch that clears only one of the two.
DeadlinesAreReal ==
    t.deadline = t.timer /\ t.idleDeadline = t.idleTimer

\* Only a driver whom somebody waits for and who has not acted can be skipped
\* as idle; outside the turns mode no timeout is pending at all.
TimeoutsOnlyInTurns ==
    /\ t.idleTimer # Off => Contested(mode, t) /\ ~t.disarmed
    /\ t.timer # Off => mode = "turns"

\* Outside the turns mode the first of the queue is the driver on record.
FirstDrives ==
    mode # "turns" /\ t.queue # <<>> => t.current = t.queue[1]

\* Idle skips are counted only for clients in the queue, and the count that
\* removes a driver is never left standing.
SkipsOfQueued ==
    \A s \in Sockets : t.skips[s] > 0 => /\ s \in Range(t.queue)
                                         /\ t.skips[s] < MaxIdleSkips

\* A rover without a queue has no driver and no timeout pending.
NothingUnknown ==
    ~t.known => t.queue = <<>> /\ t.timer = Off /\ t.current = NoOne

\* The inductive invariant that TurnProofs proves.
IInv == /\ TypeOK /\ NoDuplicates /\ HolderIsQueued /\ TurnAlwaysEnds
        /\ DeadlinesAreReal /\ TimeoutsOnlyInTurns /\ FirstDrives
        /\ SkipsOfQueued /\ NothingUnknown

(***************************************************************************)
(* What a step may do                                                      *)
(***************************************************************************)

\* A driver whose turn ends by a timeout has its motors stopped in the same
\* step, before the next one may drive.
TimeoutStops ==
    [][ (TurnTimeout \/ IdleTimeoutFires) /\ t'.active # t.active
            => ~t'.moving ]_vars

\* Nobody is put out of the queue while it is another's turn, except by
\* leaving: a timeout removes nobody but the driver that used up its skips.
OnlyIdlersAreRemoved ==
    [][ Tick \/ TurnTimeout \/ IdleTimeoutFires =>
        \A s \in Range(t.queue) \ Range(t'.queue) :
            /\ s = t.current
            /\ t.skips[s] = MaxIdleSkips - 1 ]_vars

\* How many turns begin before that of s does.
Ahead(u, s) ==
    LET place  == Position(u.queue, s)
        driver == Position(u.queue, u.active)
    IN  IF place >= driver THEN place - driver ELSE Len(u.queue) - driver + place

\* A timeout brings everybody who waits one turn nearer, and nobody is set
\* back by more than one turn for each new client: not by those who leave the
\* queue, by any command or by a mode, unless an admin seizes the turn or the
\* driver leaves the queue and its head is next.
NobodyIsSetBack ==
    Contested(mode, t) /\ Contested(mode', t') /\ t.active \in Range(t'.queue) =>
        \A s \in (Range(t.queue) \cap Range(t'.queue)) \ {t.active} :
            /\ TurnTimeout \/ IdleTimeoutFires => Ahead(t', s) = Ahead(t, s) - 1
            /\ \/ Ahead(t', s) <= Ahead(t, s)
               \/ Len(t'.queue) > Len(t.queue) /\ Ahead(t', s) = Ahead(t, s) + 1
               \/ \E a \in Admins : RequestControl(a, TRUE)

\* Turns come in the order of the queue, and a timeout stops the motors.
TurnsComeInOrder == TimeoutStops /\ [][NobodyIsSetBack]_vars
=============================================================================
