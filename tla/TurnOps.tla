------------------------------- MODULE TurnOps -------------------------------
(***************************************************************************)
(* The operations of server/src/services/turnService.js on the state it    *)
(* keeps for ONE rover.  In the code that state is spread over seven Maps  *)
(* keyed by rover id; here it is one record (TurnState), and each function *)
(* of the service is an operator from the mode and the record to the       *)
(* record.  The Node process runs each call to completion, so a call is    *)
(* one step of whatever module uses these operators.                       *)
(*                                                                         *)
(* setTimeout is a countdown: a pending timer holds the time left, 0 means *)
(* due, Off means not pending.  `timer' and `idleTimer' are the timeouts   *)
(* themselves, `deadline' and `idleDeadline' the entries of the Maps that  *)
(* are sent to the clients.                                                *)
(***************************************************************************)
EXTENDS Integers, Sequences, SequencesExt

CONSTANTS
    Sockets,        \* ids of the connected clients
    NoOne,          \* null, as a socket id
    TurnDuration,   \* TURN_DURATION_MS, in ticks
    IdleTimeout,    \* IDLE_TIMEOUT_MS, in ticks
    MaxIdleSkips    \* MAX_IDLE_SKIPS

ASSUME TurnConstants ==
    /\ NoOne \notin Sockets
    /\ TurnDuration \in Nat \ {0}
    /\ IdleTimeout \in Nat \ {0}
    /\ MaxIdleSkips \in Nat \ {0}

Modes == {"open", "turns", "admin", "lockdown"}

Off == -1
Countdown(d) == {Off} \cup 0..d

TurnState ==
    [known        : BOOLEAN,                     \* driverQueues.has(roverId)
     queue        : Seq(Sockets),
     current      : Sockets \cup {NoOne},
     active       : Sockets \cup {NoOne},        \* activeDrivers
     timer        : Countdown(TurnDuration),
     deadline     : Countdown(TurnDuration),
     idleTimer    : Countdown(IdleTimeout),
     idleDeadline : Countdown(IdleTimeout),
     skips        : [Sockets -> 0..MaxIdleSkips],
     disarmed     : BOOLEAN,                     \* idleDisarmed
     moving       : BOOLEAN]                     \* the motors last told to run

\* What is left when none of the Maps has an entry for the rover.
NoQueue(moving) ==
    [known |-> FALSE, queue |-> <<>>, current |-> NoOne, active |-> NoOne,
     timer |-> Off, deadline |-> Off, idleTimer |-> Off, idleDeadline |-> Off,
     skips |-> [s \in Sockets |-> 0], disarmed |-> FALSE, moving |-> moving]

-----------------------------------------------------------------------------
(* The queue.                                                              *)

Position(q, s) == IF \E i \in DOMAIN q : q[i] = s
                  THEN CHOOSE i \in DOMAIN q : q[i] = s
                  ELSE 0

\* queue.filter((id) => id !== s), for a queue that holds s at most once
\* (NoDuplicates in TurnService says that it does).
Without(q, s) ==
    LET p == Position(q, s)
    IN  IF p = 0 THEN q
        ELSE [i \in 1 .. Len(q) - 1 |-> IF i < p THEN q[i] ELSE q[i + 1]]

Contested(mode, t) == mode = "turns" /\ Len(t.queue) > 1

\* queue.queue[0] || null
First(t) == IF t.queue = <<>> THEN NoOne ELSE t.queue[1]

\* Mutant: the last of the queue is never reached.
NextInTurn_NotLast(t) ==
    t.queue[(Position(t.queue, t.current) % (Len(t.queue) - 1)) + 1]

\* Mutant: the turn goes to the one before, as if new drivers came in front.
NextInTurn_Backwards(t) ==
    t.queue[((Position(t.queue, t.current) + Len(t.queue) - 2) % Len(t.queue)) + 1]

\* findIndex gives -1 for a current driver that left: the first is next.
NextInTurn(t) == t.queue[(Position(t.queue, t.current) % Len(t.queue)) + 1]

-----------------------------------------------------------------------------
(* The timers and the turn.                                                *)

StopRover(t) == [t EXCEPT !.moving = FALSE]

TimersOff(t) == [t EXCEPT !.timer = Off, !.deadline = Off,
                          !.idleTimer = Off, !.idleDeadline = Off,
                          !.disarmed = FALSE]

\* No turns are taken: the first in the queue drives and nothing runs out.
Settle(t) == [TimersOff(t) EXCEPT !.current = First(t), !.active = First(t)]

ScheduleNextTurn(t) == [t EXCEPT !.timer = TurnDuration,
                                 !.deadline = TurnDuration]

ScheduleIdleTimer(mode, t) ==
    LET left == IF Contested(mode, t) /\ t.current # NoOne /\ ~t.disarmed
                THEN IdleTimeout ELSE Off
    IN  [t EXCEPT !.idleTimer = left, !.idleDeadline = left]

BeginTurn(mode, t, s) ==
    ScheduleIdleTimer(mode,
        ScheduleNextTurn([t EXCEPT !.current = s, !.active = s,
                                   !.disarmed = FALSE]))

SyncState(mode, t) ==
    IF Contested(mode, t)
    THEN BeginTurn(mode, t, IF t.current = NoOne THEN First(t) ELSE t.current)
    ELSE Settle(t)

AdvanceTurn(mode, t) ==
    CASE ~t.known            -> t
      [] t.known /\ t.queue = <<>> ->
             \* `current' keeps the driver that left
             StopRover([TimersOff(t) EXCEPT !.active = NoOne])
      [] t.known /\ t.queue # <<>> /\ ~Contested(mode, t) -> Settle(t)
      [] t.known /\ Contested(mode, t) ->
             StopRover(BeginTurn(mode, t, NextInTurn(t)))

-----------------------------------------------------------------------------
(* The calls of the service.                                               *)

DriverAdded(mode, t, s, force) ==
    SyncState(mode,
        [t EXCEPT !.known = TRUE,
                  !.queue = IF s \in Range(@) THEN @ ELSE Append(@, s),
                  !.current = IF @ = NoOne \/ force THEN s ELSE @])

\* Mutants: the turn stays with the driver that left; the idle timeout of the
\* driver is not set again; the whole turn of the driver is.
DriverRemoved_NoAdvance(mode, t, s) ==
    ScheduleIdleTimer(mode, [t EXCEPT !.queue = Without(@, s), !.skips[s] = 0,
                                      !.disarmed = FALSE])
DriverRemoved_NoIdleTimer(mode, t, s) ==
    LET left == [t EXCEPT !.queue = Without(@, s), !.skips[s] = 0,
                          !.disarmed = FALSE]
    IN  IF t.known /\ t.current = s THEN AdvanceTurn(mode, left) ELSE left
DriverRemoved_NewTurn(mode, t, s) ==
    LET left == [t EXCEPT !.queue = Without(@, s), !.skips[s] = 0,
                          !.disarmed = FALSE]
    IN  IF t.known /\ t.current = s THEN AdvanceTurn(mode, left)
        ELSE SyncState(mode, left)

DriverRemoved(mode, t, s) ==
    LET left == [t EXCEPT !.queue = Without(@, s),
                          !.skips[s] = 0,
                          !.disarmed = FALSE]
    IN  CASE ~t.known -> t
          [] t.known /\ t.current = s -> AdvanceTurn(mode, StopRover(left))
          [] t.known /\ t.current # s -> ScheduleIdleTimer(mode, left)

MayDrive(mode, t, s) == Contested(mode, t) => t.active = s

\* Mutant: activity is not recorded.
RecordActivity_Nothing(t, s) == t

RecordActivity(t, s) ==
    IF t.known /\ t.current = s
    THEN [t EXCEPT !.disarmed = TRUE, !.idleTimer = Off, !.idleDeadline = Off]
    ELSE t

ModeChanged(mode, t) == IF t.known THEN SyncState(mode, t) ELSE t

TurnExpired(mode, t) == AdvanceTurn(mode, [t EXCEPT !.timer = Off])

\* The closure of setTimeout reads queue.current when it fires, so the test
\* for a driver that is no longer the expected one never succeeds.
IdleExpired(mode, t) ==
    LET fired   == [t EXCEPT !.idleTimer = Off]
        skipped == StopRover([fired EXCEPT !.skips[t.current] = @ + 1])
    IN  IF t.disarmed THEN ScheduleIdleTimer(mode, fired)
        ELSE IF skipped.skips[t.current] >= MaxIdleSkips
        THEN DriverRemoved(mode, skipped, t.current)   \* removeDriverCompletely
        ELSE AdvanceTurn(mode, skipped)

\* One tick of the clock on the timers of a rover.
CountDown(n) == IF n > 0 THEN n - 1 ELSE n
Elapse(t) == [t EXCEPT !.timer = CountDown(@), !.deadline = CountDown(@),
                       !.idleTimer = CountDown(@), !.idleDeadline = CountDown(@)]
Due(t) == t.timer = 0 \/ t.idleTimer = 0
=============================================================================
