----------------------------- MODULE SessionSync -----------------------------
(***************************************************************************)
(* sessionService: the snapshots of the server's state that keep the pages *)
(* current (session:sync), with the lights of homeAssistantService as the  *)
(* state that changes by itself, and the pages' buttons for them           *)
(* (HomeAssistantControls).                                                *)
(*                                                                         *)
(* Some changes are sent to every page at once, some only to the page they *)
(* are about, those of a driver's activity at most every three seconds,    *)
(* and everything to everybody every twenty.                               *)
(***************************************************************************)
EXTENDS HomeAssistant

CONSTANTS
    None,           \* no session
    Pages,
    MaxEvents,      \* bound: events at the server
    MaxPresses      \* bound: buttons pressed

\* What a snapshot says; of users that are not there, nothing.
User == [role : {"user", "admin"}, nickname : Nat]
Snapshot == [mode : {"open", "admin"}, turn : Nat,
             users : [Pages -> User \cup {None}],
             connected : BOOLEAN, entities : [Entities -> States \cup {"unknown"}]]

ASSUME SyncConstants == MaxEvents \in Nat /\ MaxPresses \in Nat
ASSUME NoneAssumption == None \notin Snapshot

VARIABLES
    mode,
    turn,               \* of the turn queue: changes so far
    online, role, nickname,     \* of the pages' sockets
    cooldown,           \* less than ACTIVITY_SYNC_COOLDOWN_MS since lastActivitySync
    pendingActivitySync,        \* "none", "waiting" or "due"
    toPage, pressed,    \* in flight: the last snapshot to each page, its presses
    shown,              \* the session that each page has
    events, presses     \* bounds

socketVars == <<online, role, nickname>>
timerVars == <<cooldown, pendingActivitySync>>
syncVars == <<mode, turn, socketVars, timerVars>>
pageVars == <<toPage, pressed, shown>>
vars == <<houseVars, syncVars, pageVars, events, presses>>

Init ==
    /\ HouseInit
    /\ mode = "admin" /\ turn = 0
    /\ online = {} /\ role = [p \in Pages |-> "user"] /\ nickname = [p \in Pages |-> 0]
    /\ cooldown = FALSE /\ pendingActivitySync = "none"
    /\ toPage = [p \in Pages |-> None] /\ pressed = [p \in Pages |-> <<>>]
    /\ shown = [p \in Pages |-> None]
    /\ events = 0 /\ presses = 0

-----------------------------------------------------------------------------
(* The snapshots.                                                          *)

Users == [p \in Pages |-> IF p \in online THEN [role |-> role[p], nickname |-> nickname[p]]
                         ELSE None]

buildSession ==
    [mode |-> mode, turn |-> turn, users |-> Users,
     connected |-> connected, entities |-> entityState]

\* They are built after the change, and whole: of those on their way to a page,
\* which come in order, the last says all.
SyncTo(pages) ==
    toPage' = [p \in Pages |-> IF p \in pages \cap online' THEN buildSession'
                               ELSE IF p \in online' THEN toPage[p] ELSE None]
syncSocket(p) == SyncTo({p})
syncAll == SyncTo(Pages)
NoSync == SyncTo({})

Event == events < MaxEvents /\ events' = events + 1

-----------------------------------------------------------------------------
(* The server's events.                                                    *)

Connect(p) ==
    /\ p \notin online /\ Event
    /\ online' = online \cup {p}
    /\ role' = [role EXCEPT ![p] = "user"] /\ nickname' = [nickname EXCEPT ![p] = 0]
    /\ UNCHANGED <<houseVars, mode, turn, timerVars, pressed, shown, presses>>
    /\ syncSocket(p)

Disconnect(p) ==
    /\ p \in online
    /\ online' = online \ {p} /\ pressed' = [pressed EXCEPT ![p] = <<>>]
    /\ UNCHANGED <<houseVars, mode, turn, role, nickname, timerVars, shown, events, presses>>
    /\ NoSync

\* The role or the nickname of a socket: it alone is told at once.
RoleChanges(p) ==
    /\ p \in online /\ role[p] # "admin" /\ Event
    /\ role' = [role EXCEPT ![p] = "admin"]
    /\ UNCHANGED <<houseVars, mode, turn, online, nickname, timerVars, pressed, shown, presses>>
    /\ syncSocket(p)

NicknameChanges(p) ==
    /\ p \in online /\ Event
    /\ nickname' = [nickname EXCEPT ![p] = @ + 1]
    /\ UNCHANGED <<houseVars, mode, turn, online, role, timerVars, pressed, shown, presses>>
    /\ syncSocket(p)

ModeChanges ==
    /\ Event
    /\ mode' = IF mode = "open" THEN "admin" ELSE "open"
    /\ UNCHANGED <<houseVars, turn, socketVars, timerVars, pressed, shown, presses>>
    /\ syncAll

\* Mutant: activity within the cooldown is left to the next event.
Throttled_Dropped == NoSync /\ UNCHANGED timerVars

\* The first activity within the cooldown sets a timer for its end.
Throttled ==
    /\ pendingActivitySync' = IF pendingActivitySync = "none" THEN "waiting"
                              ELSE pendingActivitySync
    /\ UNCHANGED cooldown
    /\ NoSync

QueueActivity ==
    /\ Event
    /\ turn' = turn + 1
    /\ UNCHANGED <<houseVars, mode, socketVars, pressed, shown, presses>>
    /\ IF cooldown THEN Throttled
       ELSE cooldown' = TRUE /\ syncAll /\ UNCHANGED pendingActivitySync

\* Any other event of the queue takes the place of the delayed one.
QueueChanges ==
    /\ Event
    /\ turn' = turn + 1
    /\ pendingActivitySync' = "none"
    /\ UNCHANGED <<houseVars, mode, socketVars, cooldown, pressed, shown, presses>>
    /\ syncAll

CooldownEnds ==
    /\ cooldown /\ cooldown' = FALSE
    /\ pendingActivitySync' = IF pendingActivitySync = "waiting" THEN "due"
                              ELSE pendingActivitySync
    /\ UNCHANGED <<houseVars, mode, turn, socketVars, pageVars, events, presses>>

DelayedSync ==
    /\ pendingActivitySync = "due" /\ pendingActivitySync' = "none"
    /\ cooldown' = TRUE
    /\ UNCHANGED <<houseVars, mode, turn, socketVars, pressed, shown, events, presses>>
    /\ syncAll

\* Every 20 seconds; no sync is on its way for so long.
PeriodicSync ==
    /\ \A p \in online : toPage[p] = None
    /\ \E p \in online : shown[p] # buildSession
    /\ UNCHANGED <<houseVars, syncVars, pressed, shown, events, presses>>
    /\ syncAll

\* The service emits status or update just when what it tells has changed.
Lights ==
    /\ ServiceStep
    /\ UNCHANGED <<syncVars, pressed, shown, events, presses>>
    /\ IF <<connected, entityState>>' = <<connected, entityState>> THEN NoSync ELSE syncAll

House ==
    /\ HouseStep
    /\ UNCHANGED <<syncVars, pageVars, events, presses>>

-----------------------------------------------------------------------------
(* The pages.                                                              *)

PageReceives(p) ==
    /\ toPage[p] # None
    /\ shown' = [shown EXCEPT ![p] = toPage[p]]
    /\ toPage' = [toPage EXCEPT ![p] = None]
    /\ UNCHANGED <<houseVars, syncVars, pressed, events, presses>>

\* EntityRow: the button is there for what is known to be available.
Press(p, e) ==
    /\ p \in online /\ shown[p] # None /\ presses < MaxPresses
    /\ shown[p].connected /\ shown[p].entities[e] \in {"on", "off"}
    /\ pressed' = [pressed EXCEPT ![p] = Append(@, e)]
    /\ presses' = presses + 1
    /\ UNCHANGED <<houseVars, syncVars, toPage, shown, events>>

\* homeAssistant:toggle
ToggleArrives(p) ==
    /\ pressed[p] # <<>>
    /\ pressed' = [pressed EXCEPT ![p] = Tail(@)]
    /\ IF mode = "admin" /\ role[p] # "admin" THEN UNCHANGED houseVars
       ELSE toggleEntity(Head(pressed[p]))
    /\ UNCHANGED <<syncVars, toPage, shown, events, presses>>

-----------------------------------------------------------------------------
Next ==
    \/ \E p \in Pages : \/ Connect(p) \/ Disconnect(p) \/ RoleChanges(p) \/ NicknameChanges(p)
                        \/ PageReceives(p) \/ ToggleArrives(p)
                        \/ \E e \in Entities : Press(p, e)
    \/ ModeChanges \/ QueueActivity \/ QueueChanges
    \/ CooldownEnds \/ DelayedSync \/ PeriodicSync \/ Lights \/ House

\* Messages arrive, timers fire, attempts end, and the house runs what it is
\* called for.  That a connection to the house breaks is not assumed, nor that
\* the service hears of it when it does.
Fairness ==
    /\ \A p \in Pages : WF_vars(PageReceives(p)) /\ WF_vars(ToggleArrives(p))
    /\ WF_vars(CooldownEnds) /\ WF_vars(DelayedSync) /\ WF_vars(PeriodicSync)
    /\ WF_vars(ServiceRuns /\ Lights) /\ WF_vars(ServiceCalled /\ House)

Spec == Init /\ [][Next]_vars /\ Fairness

-----------------------------------------------------------------------------
ServerTypes ==
    /\ HouseTypes
    /\ mode \in {"open", "admin"} /\ turn \in Nat
    /\ online \subseteq Pages
    /\ role \in [Pages -> {"user", "admin"}] /\ nickname \in [Pages -> Nat]
    /\ cooldown \in BOOLEAN /\ pendingActivitySync \in {"none", "waiting", "due"}
PageTypes ==
    /\ toPage \in [Pages -> Snapshot \cup {None}]
    /\ shown \in [Pages -> Snapshot \cup {None}]
    /\ pressed \in [Pages -> Seq(Entities)]
TypeOK == ServerTypes /\ PageTypes

\* A page to which nothing is on its way shows the mode, the lights, and its
\* own role and nickname as they are, and the turn too unless a delayed sync
\* is pending: no throttle, timer or lost connection to the house swallows a
\* change.
ShownIsCurrent ==
    /\ TypeOK /\ OneWayToTheHouse
    /\ \A p \in online : toPage[p] = None =>
           /\ shown[p] # None
           /\ shown[p].mode = mode
           /\ shown[p].users[p] = Users[p]
           /\ shown[p].connected = connected /\ shown[p].entities = entityState
           /\ shown[p].turn = turn \/ pendingActivitySync # "none"

\* A page that stays comes to show the users as they are, whatever becomes of
\* the house; and the lights as they are there once it can be reached, however
\* often the connection was lost before, if no loss goes unnoticed for good.
EverybodyComesToSee ==
    \A p \in Pages :
        /\ <>[](p \in online) => <>[](shown[p] # None /\ shown[p].users = Users)
        /\ <>[](p \in online /\ reachable) /\ []<>(connection => open)
             => <>[](shown[p] # None /\ shown[p].connected /\ shown[p].entities = house)
=============================================================================
