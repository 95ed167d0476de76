------------------------------ MODULE TurnWatch ------------------------------
(***************************************************************************)
(* TurnService with history variables that time the turns: how long the    *)
(* driver has had the present turn, how often a request restarted it, and  *)
(* whether the driver has acted.  They observe only: every step of         *)
(* TurnService is a step here.                                             *)
(***************************************************************************)
EXTENDS TurnRefinement

CONSTANT MaxRestarts    \* bound: requests while somebody waits for a turn
ASSUME MaxRestartsAssumption == MaxRestarts \in Nat

VARIABLES
    held,       \* ticks of the present turn
    restarts,   \* requests for control during the present turn
    acted,      \* the driver sent a command in this turn
    disturbed,  \* somebody requested or released control since it did
    requests    \* requests and mode changes made while turns are taken

history == <<held, restarts, acted, disturbed, requests>>

SameTurn == /\ Contested(mode, t) /\ Contested(mode', t')
            /\ t'.current = t.current

\* A new turn starts all the history of a turn; within one it accumulates.
Watch(elapsed, asked, acts, disturbs) ==
    /\ held' = IF SameTurn THEN held + elapsed ELSE 0
    /\ restarts' = IF SameTurn THEN restarts + asked ELSE 0
    /\ acted' = (SameTurn /\ (acted \/ acts))
    /\ disturbed' = (SameTurn /\ ~acts /\ (disturbed \/ disturbs))
    /\ requests' = IF Contested(mode', t') THEN requests + asked ELSE requests
    /\ requests' <= MaxRestarts

Timeouts == TurnTimeout \/ IdleTimeoutFires

WatchInit == /\ Init
             /\ held = 0 /\ restarts = 0 /\ requests = 0
             /\ acted = FALSE /\ disturbed = FALSE

WatchNext ==
    \/ Tick /\ Watch(1, 0, FALSE, FALSE)
    \/ \E s \in Sockets, force \in BOOLEAN :
          RequestControl(s, force) /\ Watch(0, 1, FALSE, TRUE)
    \/ \E m \in Modes : SetMode(m) /\ Watch(0, 1, FALSE, FALSE)
    \/ \E s \in Sockets : ReleaseControl(s) /\ Watch(0, 0, FALSE, TRUE)
    \/ \E s \in Sockets, motion \in BOOLEAN :
          Command(s, motion) /\ Watch(0, 0, s = t.current, FALSE)
    \/ (CleanupRover \/ Timeouts) /\ Watch(0, 0, FALSE, FALSE)

WatchSpec == WatchInit /\ [][WatchNext]_<<vars, history>>

\* The clock runs and a timeout that is due fires in the end: the event loop
\* of Node never blocks.  Nothing is assumed of the clients.
FairWatchSpec ==
    /\ WatchSpec
    /\ WF_<<vars, history>>(Tick /\ Watch(1, 0, FALSE, FALSE))
    /\ WF_<<vars, history>>(TurnTimeout /\ Watch(0, 0, FALSE, FALSE))
    /\ WF_<<vars, history>>(IdleTimeoutFires /\ Watch(0, 0, FALSE, FALSE))

-----------------------------------------------------------------------------
\* While others wait, a turn lasts at most TURN_DURATION, plus as much again
\* for every request for control made during it (syncState restarts the turn
\* timeout for any caller of driverAdded).
TurnLength ==
    Contested(mode, t) =>
        held + (IF t.timer = Off THEN 0 ELSE t.timer)
            <= TurnDuration * (1 + restarts)

\* A driver is skipped as idle after it has acted in its turn only if somebody
\* requested or released control since; and no timeout takes anybody out of
\* the queue but the driver that used up its skips, which nobody in the queue
\* has left standing.
OnlyIdlersAreSkipped ==
    /\ [][ IdleTimeoutFires /\ acted => disturbed ]_<<vars, history>>
    /\ OnlyIdlersAreRemoved
    /\ []SkipsOfQueued

\* As long as no more requests are made than the bound, a queued driver gets
\* the turn or stops waiting for it: it leaves, turns are no longer taken, or
\* the rover goes.  The queue loops, and no order of the two timeouts,
\* departures and skips passes a driver over for ever.
NobodyStarves ==
    \A s \in Sockets :
        (Contested(mode, t) /\ s \in Range(t.queue)) ~>
            (~Contested(mode, t) \/ s \notin Range(t.queue) \/ t.active = s)
=============================================================================
