---------------------------- MODULE VideoSessions ----------------------------
(***************************************************************************)
(* The video of one rover on one page: useVideoRequests asks the server    *)
(* for a token (videoSocketService), a VideoTile plays with it through the *)
(* media server, which asks the server for each stream (videoAuthService), *)
(* and the sessions behind the tokens go with the socket (videoSessions).  *)
(*                                                                         *)
(* The page is a spectator's, which shows every rover in the roster, or a  *)
(* driver's, which shows the rover it is assigned.  React renders in its   *)
(* own time: a Render runs the effects of all that changed since the last. *)
(*                                                                         *)
(* What the rest of the server decides is open here: modes, rovers that    *)
(* come and go, who is assigned and who drives (RoverServer).  "open"      *)
(* stands for turns too, and admins, who may view what spectators may, are *)
(* left out, as is the audio stream, which is asked for and played alike.  *)
(***************************************************************************)
EXTENDS Naturals, Sequences

CONSTANTS
    MaxSockets,     \* bound: times that the page connects
    MaxRequests,    \* bound: tokens that the page asks for
    MaxChanges,     \* bound: changes of modes, rovers, drivers and streams
    MaxFlight       \* bound: messages in flight, each way

ASSUME VideoConstants == /\ MaxSockets \in Nat /\ MaxRequests \in Nat
                         /\ MaxChanges \in Nat /\ MaxFlight \in Nat \ {0}

Requests == 1 .. MaxRequests    \* a token is known by the request for it
None == 0

Modes == {"open", "admin", "lockdown"}

\* What a session:sync says, of the rover and of this page.
Session == [mode     : Modes \cup {"none"},
            role     : {"none", "user", "spectator"},
            online   : BOOLEAN,     \* the rover is in the roster
            assigned : BOOLEAN]     \* it is the page's assignment

NoSession == [mode |-> "none", role |-> "none", online |-> FALSE, assigned |-> FALSE]

ToServer == [type : {"setRole"}, req : {None}] \cup [type : {"video"}, req : Requests]
ToPage == [type : {"sync"}, session : Session]
             \cup [type : {"answer"}, req : Requests, ok : BOOLEAN]

VARIABLES
    view,       \* "spectate" or "drive"
    server,     \* mode and roster; role, assignment, drivers and sessions of the socket
    page,       \* the socket, the session, and the state of useVideoRequests
    rendered,   \* what the effects last ran for
    tile,       \* the VideoTile: its player's token, its status, restartTimer
    net,        \* the rover's stream is published and can be reached
    toServer, toPage,
    sockets,    \* bound: connections so far
    changes     \* bound: changes so far

vars == <<view, server, page, rendered, tile, net, toServer, toPage, sockets, changes>>

ServerState == [mode : Modes, online : BOOLEAN, role : {"user", "spectator"},
                assigned : BOOLEAN, driver : BOOLEAN, sessions : SUBSET Requests]

PageState == [conn    : {"down", "up", "closed"},
              session : Session,
              nonced  : BOOLEAN,                    \* connectionNonce has changed
              asked   : 0 .. MaxRequests,           \* requests so far
              latest  : {None} \cup Requests,       \* the one not cancelled
              answer  : [req : {None} \cup Requests, ok : BOOLEAN]]     \* sources

TileState == [token  : {None} \cup Requests,
              status : {"idle", "connecting", "playing", "error"},
              timer  : BOOLEAN]

NoAnswer == [req |-> None, ok |-> FALSE]

NoSocket(s) == [s EXCEPT !.role = "user", !.assigned = FALSE, !.driver = FALSE,
                         !.sessions = {}]

StartedServer == [mode |-> "admin", online |-> FALSE, role |-> "user",
                  assigned |-> FALSE, driver |-> FALSE, sessions |-> {}]

\* The page is loaded and has rendered once: a spectator's asks for its role.
Init ==
    /\ view \in {"spectate", "drive"}
    /\ server = StartedServer
    /\ page = [conn |-> "down", session |-> NoSession, nonced |-> FALSE,
               asked |-> 0, latest |-> None, answer |-> NoAnswer]
    /\ rendered = [up |-> FALSE, session |-> NoSession]
    /\ tile = [token |-> None, status |-> "idle", timer |-> FALSE]
    /\ net = TRUE
    /\ toServer = IF view = "spectate" THEN <<[type |-> "setRole", req |-> None]>> ELSE <<>>
    /\ toPage = <<>> /\ sockets = 0 /\ changes = 0

-----------------------------------------------------------------------------
(* The server.                                                             *)

Sync(s) == [type |-> "sync",
            session |-> [mode |-> s.mode, role |-> s.role,
                         online |-> s.online, assigned |-> s.assigned]]

Emit(m) ==
    IF page.conn = "up" THEN Len(toPage) < MaxFlight /\ toPage' = Append(toPage, m)
    ELSE UNCHANGED toPage

\* canView of videoAuthService, passesMode and canViewRover of
\* videoSocketService, which agree.
MayView ==
    \/ server.mode # "lockdown" /\ server.role = "spectator"
    \/ server.mode = "open" /\ server.driver

\* A user may be given the rover when it, the user or the mode comes.
MaybeAssigned(s) ==
    {s} \cup (IF s.role = "user" /\ ~s.assigned /\ s.mode = "open" /\ s.online
              THEN {[s EXCEPT !.assigned = TRUE, !.driver = TRUE]} ELSE {})

Changed == changes < MaxChanges /\ changes' = changes + 1

\* A change of server state that ends in a session:sync.
ServerChanges(s) ==
    /\ Changed
    /\ server' = s /\ Emit(Sync(s))
    /\ UNCHANGED <<view, page, rendered, tile, net, toServer, sockets>>

\* In admin mode users are released.  Lockdown disconnects the page, which
\* then does not connect again.
SetMode(m) ==
    /\ m # server.mode
    /\ LET s == [server EXCEPT !.mode = m]
       IN  \/ /\ m = "open" /\ page.conn = "up"
              /\ \E t \in MaybeAssigned(s) : ServerChanges(t)
           \/ /\ m = "admin" \/ (m = "open" /\ page.conn # "up")
              /\ ServerChanges(IF s.role = "user"
                               THEN [s EXCEPT !.assigned = FALSE, !.driver = FALSE] ELSE s)
           \/ /\ m = "lockdown"
              /\ Changed
              /\ server' = IF page.conn = "up" THEN NoSocket(s) ELSE s
              /\ page' = [page EXCEPT !.conn = IF @ = "up" THEN "closed" ELSE @]
              /\ UNCHANGED <<view, rendered, tile, net, toServer, toPage, sockets>>

RoverComes ==
    /\ ~server.online
    /\ \E s \in (IF page.conn = "up" THEN MaybeAssigned([server EXCEPT !.online = TRUE])
                 ELSE {[server EXCEPT !.online = TRUE]}) : ServerChanges(s)

\* The record goes with its drivers, the assignment stays.
RoverGoes ==
    /\ server.online
    /\ ServerChanges([server EXCEPT !.online = FALSE, !.driver = FALSE])

\* The page asks for control and gets it, in whatever mode, or gives it up.
Granted ==
    /\ page.conn = "up" /\ server.role = "user" /\ server.online /\ ~server.driver
    /\ ServerChanges([server EXCEPT !.driver = TRUE, !.assigned = TRUE])
Released ==
    /\ page.conn = "up" /\ server.driver
    /\ ServerChanges([server EXCEPT !.driver = FALSE])

\* It is given another rover, or put back to waiting.
Unassigned ==
    /\ page.conn = "up" /\ server.assigned
    /\ ServerChanges([server EXCEPT !.driver = FALSE, !.assigned = FALSE])

\* Every 20 seconds.
PeriodicSync ==
    /\ toPage = <<>>
    /\ toPage' = IF page.conn = "up" THEN <<Sync(server)>> ELSE <<>>
    /\ UNCHANGED <<view, server, page, rendered, tile, net, toServer, sockets, changes>>

SetRole ==
    /\ server' = IF server.role = "spectator" THEN server
                 ELSE [server EXCEPT !.role = "spectator", !.assigned = FALSE,
                                     !.driver = FALSE]
    /\ IF server' = server THEN UNCHANGED toPage ELSE Emit(Sync(server'))

VideoRequest(q) ==
    LET ok == server.online /\ MayView
    IN  /\ server' = IF ok THEN [server EXCEPT !.sessions = @ \cup {q}] ELSE server
        /\ Emit([type |-> "answer", req |-> q, ok |-> ok])

ServerReceives ==
    /\ page.conn = "up" /\ toServer # <<>>
    /\ IF Head(toServer).type = "setRole" THEN SetRole
       ELSE VideoRequest(Head(toServer).req)
    /\ toServer' = Tail(toServer)
    /\ UNCHANGED <<view, page, rendered, tile, net, sockets, changes>>

-----------------------------------------------------------------------------
(* The connection.  What the page emits while it is down is sent when it   *)
(* is up again; what was on its way when it is lost is lost.               *)

\* In lockdown the socket is disconnected at once.
Connect ==
    /\ page.conn = "down" /\ sockets < MaxSockets
    /\ sockets' = sockets + 1
    /\ IF server.mode = "lockdown"
       THEN /\ page' = [page EXCEPT !.conn = "closed"]
            /\ UNCHANGED <<server, toPage>>
       ELSE \E s \in MaybeAssigned(server) :
                /\ server' = s
                /\ page' = [page EXCEPT !.conn = "up", !.nonced = TRUE]
                /\ toPage' = <<Sync(s)>>
    /\ UNCHANGED <<view, rendered, tile, net, toServer, changes>>

Lost(s) ==
    /\ server' = s
    /\ page' = [page EXCEPT !.conn = "down"]
    /\ toServer' = <<>> /\ toPage' = <<>>
    /\ UNCHANGED <<view, rendered, tile, net, sockets, changes>>

ConnectionLost == page.conn = "up" /\ Lost(NoSocket(server))
ServerRestarts == page.conn = "up" /\ Lost(StartedServer)

-----------------------------------------------------------------------------
(* The page.                                                               *)

PageReceives ==
    /\ toPage # <<>>
    /\ LET m == Head(toPage)
       IN  page' = IF m.type = "sync" THEN [page EXCEPT !.session = m.session]
                   ELSE IF m.req = page.latest
                   THEN [page EXCEPT !.answer = [req |-> m.req, ok |-> m.ok]]
                   ELSE page
    /\ toPage' = Tail(toPage)
    /\ UNCHANGED <<view, server, rendered, tile, net, toServer, sockets, changes>>

\* The rover is among the sources, and the normalizedKey, which on a
\* spectator's page has the mode in it.
Wanted(s) == IF view = "drive" THEN s.assigned ELSE s.online
Key(s) == <<Wanted(s), IF view = "drive" THEN "none" ELSE s.mode>>

\* The token that the tile is to play with.
Shown(p) == IF Wanted(p.session) /\ p.answer.ok THEN p.answer.req ELSE None

\* useSpectatorMode, after any change of what it depends on.
WantsRole ==
    /\ view = "spectate" /\ page.session.role # "spectator"
    /\ \/ rendered.up # (page.conn = "up")
       \/ rendered.session.mode # page.session.mode
       \/ rendered.session.role # page.session.role

\* Mutant: a new connection does not ask again.
MustRequest_NotOnConnect == Key(rendered.session) # Key(page.session)

\* useVideoRequests, after any change of what it depends on.
MustRequest == page.nonced \/ Key(rendered.session) # Key(page.session)

\* An earlier request is cancelled; with an empty key its answer is dropped.
Requested ==
    IF ~MustRequest THEN page
    ELSE IF Wanted(page.session)
    THEN [page EXCEPT !.asked = @ + 1, !.latest = page.asked + 1]
    ELSE [page EXCEPT !.latest = None,
                      !.answer = IF view = "drive" \/ page.session = NoSession
                                 THEN NoAnswer ELSE @]

\* A tile without its rover is unmounted, with its timer.  One with a new
\* token stops its player and starts another; a pending timer stays.
TileFor(p) ==
    IF ~Wanted(p.session) THEN [token |-> None, status |-> "idle", timer |-> FALSE]
    ELSE IF Shown(p) = tile.token THEN tile
    ELSE [tile EXCEPT !.token = Shown(p),
                      !.status = IF Shown(p) = None THEN "idle" ELSE "connecting"]

Render ==
    LET p    == Requested
        sent == (IF WantsRole THEN <<[type |-> "setRole", req |-> None]>> ELSE <<>>)
                  \o (IF p.asked # page.asked THEN <<[type |-> "video", req |-> p.asked]>>
                      ELSE <<>>)
    IN  /\ page.conn # "closed"
        /\ \/ page.nonced \/ rendered.up # (page.conn = "up")
           \/ rendered.session # page.session \/ Shown(page) # tile.token
        /\ p.asked <= MaxRequests /\ Len(toServer \o sent) <= MaxFlight
        /\ page' = [p EXCEPT !.nonced = FALSE]
        /\ rendered' = [up |-> page.conn = "up", session |-> page.session]
        /\ tile' = TileFor(p)
        /\ toServer' = toServer \o sent
        /\ UNCHANGED <<view, server, net, toPage, sockets, changes>>

-----------------------------------------------------------------------------
(* The tile's player, through the media server.                            *)

Failed == [tile EXCEPT !.status = "error", !.timer = TRUE]

\* Mutant: a player that was refused is not started again.
Start_NoRetry ==
    /\ tile.status = "connecting"
    /\ tile' = IF net /\ tile.token \in server.sessions /\ MayView
               THEN [tile EXCEPT !.status = "playing"]
               ELSE [tile EXCEPT !.status = "error"]
    /\ UNCHANGED <<view, server, page, rendered, net, toServer, toPage, sockets, changes>>

\* The WHEP request, upon which the media server asks /mediamtx/auth.
Start ==
    /\ tile.status = "connecting"
    /\ tile' = IF net /\ tile.token \in server.sessions /\ MayView
               THEN [tile EXCEPT !.status = "playing"] ELSE Failed
    /\ UNCHANGED <<view, server, page, rendered, net, toServer, toPage, sockets, changes>>

StreamFails ==
    /\ tile.status = "playing" /\ ~net
    /\ tile' = Failed
    /\ UNCHANGED <<view, server, page, rendered, net, toServer, toPage, sockets, changes>>

\* restartTimer: the player is stopped, in whatever state it is, and another
\* is started with the same token.
Restart ==
    /\ tile.timer
    /\ tile' = [tile EXCEPT !.timer = FALSE,
                            !.status = IF tile.token = None THEN "idle" ELSE "connecting"]
    /\ UNCHANGED <<view, server, page, rendered, net, toServer, toPage, sockets, changes>>

\* The stream breaks, or is back.
NetChanges ==
    /\ Changed
    /\ net' = ~net
    /\ UNCHANGED <<view, server, page, rendered, tile, toServer, toPage, sockets>>

-----------------------------------------------------------------------------
Next ==
    \/ \E m \in Modes : SetMode(m)
    \/ RoverComes \/ RoverGoes \/ Granted \/ Released \/ Unassigned
    \/ PeriodicSync \/ ServerReceives
    \/ Connect \/ ConnectionLost \/ ServerRestarts
    \/ PageReceives \/ Render
    \/ Start \/ StreamFails \/ Restart \/ NetChanges

\* Messages arrive, the page renders, its requests and timers end, and the
\* server's interval runs.
Fairness ==
    /\ WF_vars(Connect) /\ WF_vars(ServerReceives) /\ WF_vars(PageReceives)
    /\ WF_vars(PeriodicSync) /\ WF_vars(Render)
    /\ WF_vars(Start) /\ WF_vars(StreamFails) /\ WF_vars(Restart)

Spec == Init /\ [][Next]_vars /\ Fairness

-----------------------------------------------------------------------------
\* The types; only the drivers of a connected rover drive it, and are assigned.
TypeOK ==
    /\ view \in {"spectate", "drive"}
    /\ server \in ServerState /\ page \in PageState /\ tile \in TileState
    /\ rendered \in [up : BOOLEAN, session : Session]
    /\ net \in BOOLEAN
    /\ toServer \in Seq(ToServer) /\ toPage \in Seq(ToPage)
    /\ sockets \in 0 .. MaxSockets /\ changes \in 0 .. MaxChanges
    /\ server.driver => server.online /\ server.assigned /\ server.role = "user"
    /\ tile.token = None <=> tile.status = "idle"

\* A page that is connected and wants the rover has the answer to its latest
\* request, or will get it: neither a lost connection nor an answer that comes
\* late leaves it waiting for one that does not come.
InFlight(q) ==
    \/ \E i \in DOMAIN toServer : toServer[i].req = q
    \/ \E i \in DOMAIN toPage : toPage[i].type = "answer" /\ toPage[i].req = q
NoRequestLost ==
    /\ TypeOK
    /\ page.conn = "up" /\ ~page.nonced /\ Wanted(rendered.session) =>
           /\ page.latest # None
           /\ page.answer.req = page.latest \/ InFlight(page.latest)

\* A tile with a token that stays good plays in the end, however often it was
\* refused, or its stream broke, before.
GrantedPlays ==
    <>[](net /\ tile.token \in server.sessions /\ MayView) => <>[](tile.status = "playing")
=============================================================================
