----------------------------- MODULE RoverServer -----------------------------
(***************************************************************************)
(* The server's bookkeeping of who drives what: modeManager, roleService,  *)
(* authService, lockdownGuard, roverManager, assignmentService and the     *)
(* queues of turnService, wired together by their event emitters.          *)
(*                                                                         *)
(* Node runs a handler and every listener it triggers to completion, so a  *)
(* handler is one step.  Its listeners call one another's functions, and   *)
(* so the state is one record, srv, and each function of the services is   *)
(* an operator from a state w to a state.  The only await is the password  *)
(* check of a login: it is two steps.                                      *)
(*                                                                         *)
(* The turns of a rover are what TurnRotation promises of them (and        *)
(* TurnProofs proves): a line and a holder.  Its timeouts may fire         *)
(* whenever somebody waits for the turn.                                   *)
(***************************************************************************)
EXTENDS Integers, Sequences, SequencesExt

CONSTANTS
    Sockets, Rovers, NoOne, NoRover,
    Watchers,   \* bound: the clients that may ask to be spectators
    Dockable,   \* the rovers that may stand charging in their dock
    Accounts    \* the logins a client can make: {<<s, "admin" or "lockdown">>}

\* The clients are finitely many: rovers are compared by how many drive them.
ASSUME ServerConstants ==
    /\ IsFiniteSet(Sockets)
    /\ NoOne \notin Sockets /\ NoRover \notin Rovers
    /\ Watchers \subseteq Sockets /\ Dockable \subseteq Rovers
    /\ Accounts \subseteq Sockets \X {"admin", "lockdown"}

VARIABLE srv

Modes == {"open", "turns", "admin", "lockdown"}
Roles == {"user", "spectator", "admin", "lockdown"}

\* One Map entry of assignments (socketId -> roverId).
Assignment == [socket : Sockets, rover : Rovers]

ServerState ==
    [mode     : Modes,
     conn     : [Sockets -> {"new", "up", "down", "refused"}],
     role     : [Sockets -> Roles \cup {"none"}],
     login    : SUBSET Sockets,              \* password checks under way
     online   : Seq(Rovers),                 \* keys of rovers, in order
     locked   : [Rovers -> BOOLEAN],
     drivers  : [Rovers -> SUBSET Sockets],
     joined   : [Sockets -> Seq(Rovers)],    \* socketToRovers
     room     : [Rovers -> SUBSET Sockets],  \* who is sent a rover's frames
     line     : [Rovers -> Seq(Sockets)],
     holder   : [Rovers -> Sockets \cup {NoOne}],
     refs     : SUBSET Sockets,              \* socketRefs
     assigned : Seq(Assignment),             \* assignments, in order
     waiting  : Seq(Sockets)]

Init ==
    srv = [mode |-> "admin",
           conn |-> [s \in Sockets |-> "new"],
           role |-> [s \in Sockets |-> "none"],
           login |-> {}, online |-> <<>>,
           locked |-> [r \in Rovers |-> FALSE],
           drivers |-> [r \in Rovers |-> {}],
           joined |-> [s \in Sockets |-> <<>>],
           room |-> [r \in Rovers |-> {}],
           line |-> [r \in Rovers |-> <<>>],
           holder |-> [r \in Rovers |-> NoOne],
           refs |-> {}, assigned |-> <<>>, waiting |-> <<>>]

-----------------------------------------------------------------------------
(* Sets and Maps of JavaScript keep the order of insertion.                *)

Added(q, x) == IF x \in Range(q) THEN q ELSE Append(q, x)
Dropped(q, x) == RemoveFirst(q, x)

IsAdmin(w, s) == w.role[s] \in {"admin", "lockdown"}
IsOnline(w, r) == r \in Range(w.online)

IsAssigned(w, s) == \E a \in Range(w.assigned) : a.socket = s
RoverOf(w, s) == (CHOOSE a \in Range(w.assigned) : a.socket = s).rover

Assign(w, s, r) ==
    [w EXCEPT !.assigned =
        IF IsAssigned(w, s)
        THEN [i \in DOMAIN @ |->
                IF @[i].socket = s THEN [socket |-> s, rover |-> r] ELSE @[i]]
        ELSE Append(@, [socket |-> s, rover |-> r])]

Unassign(w, s) ==
    [w EXCEPT !.assigned = RemoveFirstMatch(@, LAMBDA a : a.socket = s)]

Wait(w, s) == [w EXCEPT !.waiting = Added(@, s)]
StopWaiting(w, s) == [w EXCEPT !.waiting = Dropped(@, s)]

-----------------------------------------------------------------------------
(* The turns of a rover.                                                   *)

Contested(w, r) == w.mode = "turns" /\ Len(w.line[r]) > 1

HeadOf(q) == IF q = <<>> THEN NoOne ELSE Head(q)

\* syncTurn: where nobody waits, whoever is first in the line drives.
Synced(mode, q, h) == IF mode = "turns" /\ Len(q) > 1 THEN h ELSE HeadOf(q)

DriverAdded(w, r, s, force) ==
    LET q == Added(w.line[r], s)
        h == IF w.holder[r] = NoOne \/ force THEN s ELSE w.holder[r]
    IN  [w EXCEPT !.line[r] = q, !.holder[r] = Synced(w.mode, q, h)]

\* record.drivers.delete and driverRemoved, for each rover of P.
StopDriving(w, P, s) ==
    LET line == [r \in Rovers |-> IF r \in P THEN Dropped(w.line[r], s) ELSE w.line[r]]
    IN  [w EXCEPT !.drivers = [r \in Rovers |-> IF r \in P THEN @[r] \ {s} ELSE @[r]],
                  !.line = line,
                  !.holder = [r \in Rovers |-> IF r \in P /\ @[r] = s THEN HeadOf(line[r])
                                               ELSE @[r]]]

\* canDrive, as commandService asks it of roverManager.
CanDrive(w, r, s) ==
    (Contested(w, r) => w.holder[r] = s) \/ IsAdmin(w, s)

-----------------------------------------------------------------------------
(* roverManager                                                            *)

\* spectatorSockets, without those whose connection is gone.
Spectators(w) == {s \in Sockets : w.conn[s] = "up" /\ w.role[s] = "spectator"}

\* socket.join, which comes to nothing for a socket that is gone.
Join(w, r, s) == IF w.conn[s] = "up" THEN w.room[r] \cup {s} ELSE w.room[r]

JoinAll(w, s) ==
    [w EXCEPT !.room = [r \in Rovers |-> IF IsOnline(w, r) THEN Join(w, r, s) ELSE @[r]]]
LeaveAll(w, s) ==
    [w EXCEPT !.room = [r \in Rovers |-> IF IsOnline(w, r) THEN @[r] \ {s} ELSE @[r]]]

MayGrant(w, r, s) == IsOnline(w, r) /\ (w.locked[r] => IsAdmin(w, s))

Grant(w, r, s, force) ==
    DriverAdded([w EXCEPT !.drivers[r] = @ \cup {s},
                          !.joined[s] = Added(@, r),
                          !.room[r] = Join(w, r, s)], r, s, force)

\* releaseControl does nothing for a rover that is not connected.
Release(w, r, s) ==
    IF ~IsOnline(w, r) THEN w
    ELSE StopDriving([w EXCEPT !.room[r] = @ \ {s}, !.joined[s] = Dropped(@, r)], {r}, s)

\* A client that was given rover r releases those it had before.
ReleaseOther(w, p, r, s) == IF p = r THEN w ELSE Release(w, p, s)
SwitchTo(w, previous, r, s) == FoldLeft(LAMBDA v, p : ReleaseOther(v, p, r, s), w, previous)

\* canSwitchRover.  Whether the client's rover stands charging in its dock is
\* up to the sensors, and only rovers in Dockable ever do.
CanSwitch(w, s, target) ==
    LET primary == IF w.joined[s] = <<>> THEN target ELSE Head(w.joined[s])
    IN  \/ primary = target
        \/ ~IsOnline(w, primary)
        \/ w.drivers[primary] \ {s} # {}
        \/ primary \in Dockable

-----------------------------------------------------------------------------
(* assignmentService                                                       *)

\* The unlocked rovers with the fewest drivers; the first of them is taken,
\* as sort() is stable.
PickRover(w) ==
    LET Free == {i \in DOMAIN w.online : ~w.locked[w.online[i]]}
        load(i) == Cardinality(w.drivers[w.online[i]])
    IN  IF w.mode \in {"admin", "lockdown"} \/ Free = {} THEN NoRover
        ELSE w.online[CHOOSE i \in Free :
                        \A j \in Free : load(i) < load(j) \/ (load(i) = load(j) /\ i <= j)]

AssignSocket(w, s) ==
    LET r == PickRover(w)
    IN  IF w.role[s] # "user" \/ IsAssigned(w, s) THEN w
        ELSE IF r = NoRover THEN Wait(w, s)
        ELSE Assign(StopWaiting(Grant(w, r, s, FALSE), s), s, r)

UnassignSocket(w, s) ==
    LET v == StopWaiting(w, s)
    IN  IF IsAssigned(w, s) THEN Unassign(Release(v, RoverOf(w, s), s), s) ELSE v

PlaceWaiting(w, s) == IF s \in w.refs THEN AssignSocket(w, s) ELSE StopWaiting(w, s)
ReassignWaiting(w) == FoldLeft(PlaceWaiting, w, w.waiting)

MoveFrom(w, r, a) ==
    IF a.rover # r THEN w
    ELSE IF a.socket \notin w.refs THEN Unassign(w, a.socket)
    ELSE AssignSocket(Unassign(Release(w, r, a.socket), a.socket), a.socket)
ReassignFromRover(w, r) == FoldLeft(LAMBDA v, a : MoveFrom(v, r, a), w, w.assigned)

\* Mutant: the users released are not put back to waiting.
PutBack_Forgets(w, a) ==
    IF a.socket \in w.refs /\ ~IsAdmin(w, a.socket)
    THEN Unassign(Release(w, a.rover, a.socket), a.socket) ELSE w

\* The listener of mode changes: users are put back to waiting, admins keep
\* what they drive.
PutBack(w, a) ==
    IF a.socket \in w.refs /\ ~IsAdmin(w, a.socket)
    THEN Wait(Unassign(Release(w, a.rover, a.socket), a.socket), a.socket)
    ELSE w
ReleaseUsers(w) == FoldLeft(PutBack, w, w.assigned)

ForceRelease(w, r, s) ==
    LET kept == IF IsAssigned(w, s) /\ RoverOf(w, s) = r THEN Unassign(w, s) ELSE w
        v    == StopWaiting(kept, s)
    IN  IF s \in w.refs \/ w.conn[s] = "up" THEN Release(v, r, s) ELSE v

-----------------------------------------------------------------------------
(* roleService, and the two handlers of a disconnect                       *)

\* assignmentService's listener.
RoleChanged(w, s) ==
    IF w.role[s] = "user" THEN AssignSocket(w, s) ELSE UnassignSocket(w, s)

\* The listeners of roverManager (enableSpectator, disableSpectator), then of
\* assignmentService: a driver that becomes a spectator joins all rooms and
\* then leaves that of the rover it drove.
SetRole(w, s, role) ==
    LET u == [w EXCEPT !.role[s] = role]
        v == IF role = "spectator" THEN JoinAll(u, s)
             ELSE IF s \in Spectators(w) THEN LeaveAll(u, s) ELSE u
    IN  IF w.role[s] = role THEN w
        ELSE RoleChanged(v, s)

\* Mutant: the entry of socketRefs is kept.
Disconnected_KeepsRef(w, s) ==
    LET v == StopDriving(w, Range(w.joined[s]), s)
    IN  UnassignSocket([v EXCEPT !.joined[s] = <<>>, !.conn[s] = "down",
                                 !.room = [r \in Rovers |-> @[r] \ {s}]], s)

Disconnected(w, s) ==
    LET v == StopDriving(w, Range(w.joined[s]), s)
    IN  UnassignSocket([v EXCEPT !.joined[s] = <<>>, !.conn[s] = "down",
                                 !.room = [r \in Rovers |-> @[r] \ {s}],
                                 !.refs = @ \ {s}], s)

-----------------------------------------------------------------------------
(* The steps.                                                              *)

\* The roles that need no login.
FreeRoles(s) == IF s \in Watchers THEN {"user", "spectator"} ELSE {"user"}

\* In lockdown the guard's listener refuses the client at once; the listeners
\* registered after it still run, and their 'disconnect' handlers are
\* registered too late to be called: a refused client keeps its role and its
\* entry in socketRefs, and waits for a rover like any other.
Connect(s, role) ==
    /\ srv.conn[s] = "new"
    /\ LET up == IF srv.mode = "lockdown" THEN "refused" ELSE "up"
           v  == SetRole([srv EXCEPT !.conn[s] = up], s, role)
       IN  srv' = [v EXCEPT !.refs = @ \cup {s}]

Disconnect(s) ==
    /\ srv.conn[s] = "up"
    /\ srv' = Disconnected(srv, s)

RoleSet(s, role) ==
    /\ srv.conn[s] = "up"
    /\ srv' = SetRole(srv, s, role)

LoginStart(s) ==
    /\ srv.conn[s] = "up" /\ s \notin srv.login
    /\ \E a \in Accounts : a[1] = s
    /\ srv' = [srv EXCEPT !.login = @ \cup {s}]

\* The client may be gone, or have another role, when bcrypt answers.
LoginEnd(s, role) ==
    /\ s \in srv.login
    /\ <<s, role>> \in Accounts
    /\ srv' = SetRole([srv EXCEPT !.login = @ \ {s}], s, role)

LoginFails(s) ==
    /\ s \in srv.login
    /\ srv' = [srv EXCEPT !.login = @ \ {s}]

\* By an admin's client or by the Discord bot, which needs none.  Listeners:
\* lockdownGuard, turnService, assignmentService, in this order.
SetMode(m) ==
    /\ m # srv.mode
    /\ LET w1 == [srv EXCEPT !.mode = m]
           out == {s \in Sockets : m = "lockdown" /\ w1.conn[s] = "up"
                                    /\ w1.role[s] # "lockdown"}
           w2 == FoldLeft(Disconnected, w1, SetToSeq(out))
           w3 == [w2 EXCEPT !.holder = [r \in Rovers |-> Synced(m, w2.line[r], @[r])]]
           w4 == IF m \in {"admin", "lockdown"} THEN ReleaseUsers(w3) ELSE w3
       IN  srv' = ReassignWaiting(w4)

\* Mutant: the spectators are not told of a new rover's frames.
UpsertRover_SpectatorsMiss(r) ==
    srv' = ReassignWaiting([srv EXCEPT !.online = Added(@, r)])

\* A rover says hello, for the first time or again.
UpsertRover(r) ==
    srv' = ReassignWaiting([srv EXCEPT !.online = Added(@, r),
                                       !.room[r] = @ \cup Spectators(srv)])

\* The record goes, with its drivers and its lock, and so does the queue;
\* socketToRovers and assignments stay, and the drivers in the room.
RemoveRover(r) ==
    /\ IsOnline(srv, r)
    /\ srv' = ReassignWaiting(
                [srv EXCEPT !.online = Dropped(@, r), !.locked[r] = FALSE,
                            !.drivers[r] = {}, !.line[r] = <<>>,
                            !.room[r] = @ \ Spectators(srv),
                            !.holder[r] = NoOne])

\* Mutant: an unlocked rover is given to nobody.
LockRover_NoReassign(r, locked) ==
    /\ IsOnline(srv, r)
    /\ LET w == [srv EXCEPT !.locked[r] = locked]
       IN  srv' = IF locked THEN ReassignFromRover(w, r) ELSE w

\* assignmentService's listener.
LockChanged(w, r) == IF w.locked[r] THEN ReassignFromRover(w, r) ELSE ReassignWaiting(w)

\* By an admin, the battery manager or the Discord bot.
LockRover(r, locked) ==
    /\ IsOnline(srv, r)
    /\ srv' = LockChanged([srv EXCEPT !.locked[r] = locked], r)

\* Mutant: the rover driven before is not released.
RequestControl_KeepsBoth(s, r, force) ==
    /\ srv.conn[s] = "up" /\ srv.role[s] # "spectator" /\ ~force
    /\ MayGrant(srv, r, s)
    /\ srv' = Assign(StopWaiting(Grant(srv, r, s, FALSE), s), s, r)

\* `force' of anyone but an admin is ignored.
RequestControl(s, r, force) ==
    /\ srv.conn[s] = "up" /\ srv.role[s] # "spectator"
    /\ force => IsAdmin(srv, s)
    /\ IsAdmin(srv, s) \/ CanSwitch(srv, s, r)
    /\ MayGrant(srv, r, s)
    /\ LET granted  == Grant(srv, r, s, force)
           switched == SwitchTo(granted, srv.joined[s], r, s)
       IN  srv' = IF s \in srv.refs
                  THEN Assign(StopWaiting(switched, s), s, r)
                  ELSE switched

ReleaseControl(s, r) ==
    /\ srv.conn[s] = "up"
    /\ srv' = Release(srv, r, s)

\* handleSubscribeAll
SubscribeAll(s) ==
    /\ s \in Spectators(srv) /\ srv.mode # "lockdown"
    /\ srv' = JoinAll(srv, s)

TurnTimeout(r) ==
    /\ Contested(srv, r)
    /\ LET q == srv.line[r]
           i == CHOOSE j \in DOMAIN q : q[j] = srv.holder[r]
       IN  srv' = [srv EXCEPT !.holder[r] = q[(i % Len(q)) + 1]]

\* The last of the idle skips that a driver is allowed.
IdleRemoval(r) ==
    /\ Contested(srv, r)
    /\ srv' = ForceRelease(srv, r, srv.holder[r])

Next ==
    \/ \E s \in Sockets : \E role \in FreeRoles(s) : Connect(s, role)
    \/ \E s \in Sockets : Disconnect(s)
    \/ \E s \in Sockets : \E role \in FreeRoles(s) : RoleSet(s, role)
    \/ \E s \in Sockets : LoginStart(s)
    \/ \E s \in Sockets, role \in {"admin", "lockdown"} : LoginEnd(s, role)
    \/ \E s \in Sockets : LoginFails(s)
    \/ \E m \in Modes : SetMode(m)
    \/ \E r \in Rovers : UpsertRover(r)
    \/ \E r \in Rovers : RemoveRover(r)
    \/ \E r \in Rovers, locked \in BOOLEAN : LockRover(r, locked)
    \/ \E s \in Sockets, r \in Rovers, force \in BOOLEAN :
            RequestControl(s, r, force)
    \/ \E s \in Sockets, r \in Rovers : ReleaseControl(s, r)
    \/ \E s \in Sockets : SubscribeAll(s)
    \/ \E r \in Rovers : TurnTimeout(r)
    \/ \E r \in Rovers : IdleRemoval(r)

Spec == Init /\ [][Next]_srv

-----------------------------------------------------------------------------
(***************************************************************************)
(* Safety                                                                  *)
(***************************************************************************)

TypeOK == srv \in ServerState

\* Two services keep the drivers of a rover, roverManager a Set and
\* turnService a queue, a third the rover a client is assigned to, and
\* socket.io who hears its sensors; no step of any handler lets the four part,
\* and nobody waits for a rover and has one at the same time.
DriversArePlaced ==
    /\ TypeOK
    /\ \A r \in Rovers :
          /\ Range(srv.line[r]) = srv.drivers[r]
          /\ srv.drivers[r] # {} => IsOnline(srv, r)
          /\ IF srv.line[r] = <<>> THEN srv.holder[r] = NoOne
             ELSE srv.holder[r] \in srv.drivers[r]
          /\ \A s \in srv.drivers[r] :
                /\ IsAssigned(srv, s) /\ RoverOf(srv, s) = r
                /\ srv.conn[s] = "up" => s \in srv.room[r]
    /\ \A s \in Range(srv.waiting) : ~IsAssigned(srv, s)

\* Nobody waits while there is a rover that users may be given: whatever
\* frees one (a mode, an unlocking, a rover that connects) also places those
\* who wait.
NobodyWaitsInVain ==
    srv.mode \in {"open", "turns"} /\ srv.waiting # <<>> =>
        \A r \in Range(srv.online) : srv.locked[r]

\* A client that disconnects is forgotten by every Map and Set of every service.
\* One that was refused in lockdown is not: it is only sure to hear of no rover.
\* It stays in socketRefs, may wait, and may be given a rover when the lockdown
\* is over.
GoneMeansForgotten ==
    \A s \in Sockets :
        /\ srv.conn[s] = "down" =>
              /\ s \notin srv.refs
              /\ srv.joined[s] = <<>>
              /\ ~IsAssigned(srv, s)
              /\ s \notin Range(srv.waiting)
              /\ \A r \in Rovers : s \notin srv.drivers[r] \cup srv.room[r]
        /\ srv.conn[s] = "refused" => \A r \in Rovers : s \notin srv.room[r]

(***************************************************************************)
(* The inductive invariant that RoverServerProofs proves, of a state w.    *)
(* known is the clients the assignment service has heard of: socketRefs,   *)
(* except while the listeners of a connection run; placing those that are  *)
(* between requestControl and the entry in assignments.                    *)
(***************************************************************************)

OnePlace(q) == \A i, j \in DOMAIN q : q[i].socket = q[j].socket => i = j

\* The entries of Sets and Maps are distinct, and nobody both waits for a
\* rover and has one.
Entries(w) ==
    /\ IsInjective(w.online) /\ IsInjective(w.waiting)
    /\ \A r \in Rovers : IsInjective(w.line[r])
    /\ OnePlace(w.assigned)
    /\ \A s \in Range(w.waiting) : ~IsAssigned(w, s)

\* The queue of a rover, its drivers and its holder.
Queued(w) ==
    \A r \in Rovers :
        /\ Range(w.line[r]) = w.drivers[r]
        /\ w.drivers[r] # {} => IsOnline(w, r)
        /\ IF w.line[r] = <<>> THEN w.holder[r] = NoOne ELSE w.holder[r] \in w.drivers[r]

\* assignments has rover r for client s.
Has(w, s, r) == [socket |-> s, rover |-> r] \in Range(w.assigned)

\* The drivers are on record wherever they should be, but for those just
\* given a rover.
Linked(w, placing) ==
    \A r \in Rovers : \A s \in w.drivers[r] :
        /\ r \in Range(w.joined[s])
        /\ s \notin placing => Has(w, s, r)
        /\ w.conn[s] = "up" => s \in w.room[r]

\* Only clients that are connected hear of a rover, and only known ones have
\* a rover or wait for one.
Known(w, known) ==
    /\ \A s \in Sockets \ known :
          w.conn[s] # "up" /\ w.joined[s] = <<>> /\ ~IsAssigned(w, s) /\ s \notin Range(w.waiting)
    /\ \A r \in Rovers : \A s \in w.room[r] : w.conn[s] = "up"

\* Only users wait, no spectator has a rover, and every known client has a role
\* and is connected, or was refused.
RoleFits(w, s) ==
    /\ s \in Range(w.waiting) => w.role[s] = "user"
    /\ w.role[s] = "spectator" => ~IsAssigned(w, s)
    /\ s \in w.refs => w.role[s] # "none" /\ w.conn[s] \in {"up", "refused"}

Consistent(w, known, placing) ==
    /\ w \in ServerState
    /\ Entries(w) /\ Queued(w) /\ Linked(w, placing) /\ Known(w, known)

Sound(w, known) == Consistent(w, known, {}) /\ \A s \in Sockets : RoleFits(w, s)

ServerInv == Sound(srv, srv.refs) /\ NobodyWaitsInVain

(***************************************************************************)
(* What a step may do                                                      *)
(***************************************************************************)

\* A spectator goes on hearing every rover it hears, hears every rover that
\* comes, and hears all of them when it has asked to: neither what the drivers
\* do nor what it did as one makes it deaf.  (It may itself release a rover.)
SpectatorsHear ==
    [][ \A s \in Spectators(srv) \cap Spectators(srv') : \A r \in Range(srv'.online) :
          s \in srv.room[r] \/ ~IsOnline(srv, r) \/ SubscribeAll(s)
          => s \in srv'.room[r] \/ ReleaseControl(s, r) ]_srv

Placed(w, s) == IsAssigned(w, s) \/ s \in Range(w.waiting)
\* A connected user that has a rover or waits for one keeps the one or the
\* other, and a client that becomes a user gets the one or the other: the
\* service forgets nobody, through changes of mode, locks and losses of rovers,
\* but the driver it removes as idle.
UsersStayPlaced ==
    [][ \A s \in Sockets :
            /\ srv'.conn[s] = "up" /\ srv'.role[s] = "user"
            /\ Placed(srv, s) \/ srv.role[s] # "user"
            => \/ Placed(srv', s)
               \/ \E r \in Rovers : srv.holder[r] = s /\ IdleRemoval(r) ]_srv
=============================================================================
