----------------------------- MODULE RoomCameras -----------------------------
(***************************************************************************)
(* The room cameras: the server polls each camera for a snapshot           *)
(* (roomCameraSnapshotService) and relays it to the sockets that have      *)
(* subscribed (roomCameraSocketService); a page subscribes in an effect of *)
(* useRoomCameraSnapshots and shows what comes (RoomCameraPanel).          *)
(*                                                                         *)
(* There is one page, which is a driver's, a spectator's or the mini       *)
(* summary, with one socket after another.  The list of cameras is read    *)
(* when the server starts and does not change, so startAll runs once.      *)
(***************************************************************************)
EXTENDS Naturals, Sequences, SequencesExt

CONSTANTS
    Cameras,
    Views,              \* the pages to look at, of "drive", "spectate", "mini"
    SUBSCRIBE_LIMIT,    \* subscriptions a socket may ask for in a window
    MaxSockets,         \* bound: times that the page connects
    MaxChanges,         \* bound: changes of the mode, the cameras and the tabs
    MaxFlight           \* bound: messages in flight, each way

ASSUME RoomConstants == /\ Views \subseteq {"drive", "spectate", "mini"}
                        /\ IsFiniteSet(Cameras)
                        /\ SUBSCRIBE_LIMIT \in Nat /\ MaxSockets \in Nat
                        /\ MaxChanges \in Nat /\ MaxFlight \in Nat

Sockets == 1 .. MaxSockets
Modes == {"open", "admin", "lockdown"}      \* open stands for turns too

\* What a session:sync says, and what the page has before the first.
Session == [mode : Modes \cup {"none"}, role : {"none", "user", "spectator"}]
NoSession == [mode |-> "none", role |-> "none"]

ToServer == {"setRole", "subscribe", "unsubscribe"}
ToPage == [type : {"sync"}, session : Session]
             \cup [type : {"frame"}, camera : Cameras]
             \cup [type : {"status"}, camera : Cameras, error : BOOLEAN]

VARIABLES
    view,
    up,             \* the cameras that answer
    fetches,        \* the cameras with a fetch in flight
    cameraState,    \* of each camera: it has a frame, an error; fetching is set
    mode, role,     \* of the server, and of the present socket
    cameraSubscribers, socketSubscriptions, subscribeBucket,
    answered,       \* what the last roomCamera:subscribe was told
    socket,         \* the present socket, or the last one
    conn,           \* "down", "up", or "closed" by the server
    session, nonced,    \* the page: its session; connectionNonce has changed
    mounted,        \* the panel is on the tab that is shown
    rendered,       \* what the effects last ran for
    feeds,
    toServer, toPage,
    changes         \* bound: changes so far

cameraVars == <<up, fetches, cameraState>>
serverVars == <<mode, role, cameraSubscribers, socketSubscriptions, subscribeBucket, answered>>
linkVars == <<socket, conn>>
pageVars == <<session, nonced, mounted, rendered, feeds>>
vars == <<view, cameraVars, serverVars, linkVars, pageVars, toServer, toPage, changes>>

NoFeeds == [c \in Cameras |-> [status |-> "none", picture |-> FALSE]]
Nobody == [c \in Cameras |-> {}]

\* What the effects depend on: the connection, the session, the ids.
Rendered == [up : BOOLEAN, session : Session, watching : BOOLEAN]

\* The server has started its fetches; a spectator's page, which asks for its
\* role when it is loaded, is about to connect.
Init ==
    /\ view \in Views
    /\ up \in SUBSET Cameras
    /\ fetches = Cameras
    /\ cameraState = [c \in Cameras |-> [frame |-> FALSE, error |-> FALSE, fetching |-> TRUE]]
    /\ mode \in {"open", "admin"} /\ role = "user"
    /\ cameraSubscribers = Nobody
    /\ socketSubscriptions = [s \in Sockets |-> {}]
    /\ subscribeBucket = 0 /\ answered = "nothing"
    /\ socket = 0 /\ conn = "down"
    /\ session = NoSession /\ nonced = FALSE /\ mounted = TRUE
    /\ rendered = [up |-> FALSE, session |-> NoSession, watching |-> FALSE]
    /\ feeds = NoFeeds
    /\ toServer = IF view = "drive" THEN <<>> ELSE <<"setRole">>
    /\ toPage = <<>> /\ changes = 0

-----------------------------------------------------------------------------
(* The polling.                                                            *)

ToSubscriber(c, m) ==
    IF conn = "up" /\ socket \in cameraSubscribers[c]
    THEN Len(toPage) < MaxFlight /\ toPage' = Append(toPage, m)
    ELSE UNCHANGED toPage

\* The interval: each camera whose last fetch has ended is fetched again.
Poll ==
    /\ \E c \in Cameras : ~cameraState[c].fetching
    /\ fetches' = fetches \cup {c \in Cameras : ~cameraState[c].fetching}
    /\ cameraState' = [c \in Cameras |-> [cameraState[c] EXCEPT !.fetching = TRUE]]
    /\ UNCHANGED <<view, up, serverVars, linkVars, pageVars, toServer, toPage, changes>>

\* Mutant: a fetch that fails leaves fetching set.
FetchFailed_StillFetching(s) == [s EXCEPT !.error = TRUE]

\* It fails at once, or is aborted after FETCH_TIMEOUT_MS; the old frame stays.
FetchFailed(s) == [s EXCEPT !.error = TRUE, !.fetching = FALSE]

FetchSnapshot(c) ==
    /\ c \in fetches /\ fetches' = fetches \ {c}
    /\ cameraState' = [cameraState EXCEPT ![c] =
           IF c \in up THEN [frame |-> TRUE, error |-> FALSE, fetching |-> FALSE]
           ELSE FetchFailed(@)]
    /\ ToSubscriber(c, IF c \in up THEN [type |-> "frame", camera |-> c]
                       ELSE [type |-> "status", camera |-> c, error |-> TRUE])
    /\ UNCHANGED <<view, up, serverVars, linkVars, pageVars, toServer, changes>>

CameraChanges(c) ==
    /\ changes < MaxChanges /\ changes' = changes + 1
    /\ up' = IF c \in up THEN up \ {c} ELSE up \cup {c}
    /\ UNCHANGED <<view, fetches, cameraState, serverVars, linkVars, pageVars, toServer, toPage>>

-----------------------------------------------------------------------------
(* The sockets' subscriptions.                                             *)

Sync(m, r) == [type |-> "sync", session |-> [mode |-> m, role |-> r]]

passesMode == \/ mode = "open"
              \/ mode = "admin" /\ role = "spectator"

removeSubscriptions(s) ==
    /\ cameraSubscribers' = [c \in Cameras |-> cameraSubscribers[c] \ {s}]
    /\ socketSubscriptions' = [socketSubscriptions EXCEPT ![s] = {}]

\* What a new subscriber is sent of each camera.
Snapshot(c) ==
    (IF cameraState[c].frame THEN <<[type |-> "frame", camera |-> c]>> ELSE <<>>)
      \o <<[type |-> "status", camera |-> c, error |-> cameraState[c].error]>>

SetRole ==
    /\ role' = "spectator"
    /\ toPage' = IF role = "spectator" THEN toPage ELSE Append(toPage, Sync(mode, "spectator"))
    /\ UNCHANGED <<mode, cameraSubscribers, socketSubscriptions, subscribeBucket, answered>>

\* The page's ids are all the cameras.  A refused request leaves the
\* subscriptions as they are.
Subscribe ==
    /\ subscribeBucket' = subscribeBucket + 1
    /\ IF subscribeBucket' > SUBSCRIBE_LIMIT \/ ~passesMode
       THEN /\ answered' = "refused"
            /\ UNCHANGED <<cameraSubscribers, socketSubscriptions, toPage>>
       ELSE /\ answered' = "ok"
            /\ cameraSubscribers' = [c \in Cameras |-> cameraSubscribers[c] \cup {socket}]
            /\ socketSubscriptions' = [socketSubscriptions EXCEPT ![socket] = Cameras]
            /\ toPage' = FlattenSeq(<<toPage>> \o [i \in 1 .. Cardinality(Cameras) |->
                                                     Snapshot(SetToSeq(Cameras)[i])])
    /\ UNCHANGED <<mode, role>>

Unsubscribe ==
    /\ removeSubscriptions(socket)
    /\ UNCHANGED <<mode, role, subscribeBucket, answered, toPage>>

ServerReceives ==
    /\ conn = "up" /\ toServer # <<>>
    /\ CASE Head(toServer) = "setRole" -> SetRole
         [] Head(toServer) = "subscribe" -> Subscribe
         [] Head(toServer) = "unsubscribe" -> Unsubscribe
    /\ toServer' = Tail(toServer)
    /\ UNCHANGED <<view, cameraVars, linkVars, pageVars, changes>>

\* SUBSCRIBE_WINDOW_MS after the first request of the bucket.
WindowEnds ==
    /\ subscribeBucket > 0 /\ subscribeBucket' = 0
    /\ UNCHANGED <<view, cameraVars, mode, role, cameraSubscribers, socketSubscriptions,
                   answered, linkVars, pageVars, toServer, toPage, changes>>

-----------------------------------------------------------------------------
(* The connection.  What the page emits while it is down is sent when it   *)
(* is up again; what was on its way when it is lost is lost.               *)

\* The disconnect handler of roomCameraSocketService.
Disconnected ==
    /\ removeSubscriptions(socket)
    /\ subscribeBucket' = 0 /\ role' = "user" /\ answered' = "nothing"

\* In lockdown the guard disconnects the page, which does not come back.
SetMode(m) ==
    /\ m # mode /\ changes < MaxChanges
    /\ mode' = m /\ changes' = changes + 1
    /\ IF m = "lockdown" /\ conn = "up"
       THEN /\ conn' = "closed" /\ Disconnected
            /\ UNCHANGED toPage
       ELSE /\ UNCHANGED <<conn, role, cameraSubscribers, socketSubscriptions,
                           subscribeBucket, answered>>
            /\ IF conn = "up" THEN Len(toPage) < MaxFlight /\ toPage' = Append(toPage, Sync(m, role))
               ELSE UNCHANGED toPage
    /\ UNCHANGED <<view, cameraVars, socket, pageVars, toServer>>

Connect ==
    /\ conn = "down" /\ socket < MaxSockets
    /\ socket' = socket + 1
    /\ IF mode = "lockdown"
       THEN /\ conn' = "closed" /\ UNCHANGED <<nonced, toPage>>
       ELSE /\ conn' = "up" /\ nonced' = TRUE
            /\ toPage' = <<Sync(mode, role)>>
    /\ UNCHANGED <<view, cameraVars, serverVars, session, mounted, rendered, feeds,
                   toServer, changes>>

ConnectionLost ==
    /\ conn = "up"
    /\ conn' = "down" /\ Disconnected
    /\ toServer' = <<>> /\ toPage' = <<>>
    /\ UNCHANGED <<view, cameraVars, mode, socket, pageVars, changes>>

-----------------------------------------------------------------------------
(* The page.                                                               *)

handleFrame(c) == [feeds EXCEPT ![c] = [status |-> "playing", picture |-> TRUE]]
handleStatus(c, error) ==
    [feeds EXCEPT ![c].status = IF error THEN "error" ELSE IF @ = "none" THEN "connecting" ELSE @]

PageReceives ==
    /\ toPage # <<>>
    /\ LET m == Head(toPage)
       IN  /\ session' = IF m.type = "sync" THEN m.session ELSE session
           /\ feeds' = CASE m.type = "frame" /\ rendered.watching -> handleFrame(m.camera)
                         [] m.type = "status" /\ rendered.watching ->
                                handleStatus(m.camera, m.error)
                         [] OTHER -> feeds
    /\ toPage' = Tail(toPage)
    /\ UNCHANGED <<view, cameraVars, serverVars, linkVars, nonced, mounted, rendered,
                   toServer, changes>>

\* Another tab, or back: the panel is unmounted and mounted again.
SwitchTab ==
    /\ view = "drive" /\ changes < MaxChanges
    /\ mounted' = ~mounted /\ changes' = changes + 1
    /\ UNCHANGED <<view, cameraVars, serverVars, linkVars, session, nonced, rendered, feeds,
                   toServer, toPage>>

\* The panel is there, enabled, and has ids, which come with the session.
Watching == mounted /\ session # NoSession /\ (view = "mini" => session.mode # "lockdown")

\* idsKey, which in the mini summary has the mode in it.
idsKey(watching, s) == <<watching, IF view = "mini" THEN s.mode ELSE "none">>
Rekeyed == idsKey(Watching, session) # idsKey(rendered.watching, rendered.session)

\* Mutant: a new connection does not subscribe again.
MustSubscribe_NotOnConnect == Rekeyed

\* The effect runs again.
MustSubscribe == Rekeyed \/ nonced

\* useSpectatorMode, after any change of what it depends on.
WantsRole ==
    /\ view # "drive" /\ session.role # "spectator" /\ session.mode # "lockdown"
    /\ \/ rendered.up # (conn = "up")
       \/ rendered.session # session

\* The cleanup of the last run of the effect, then the next; the hook of
\* SpectatorApp and MiniSummaryApp that asks for the role runs after the
\* panel's effect in the one and before it in the other.
Render ==
    LET out == IF rendered.watching /\ MustSubscribe THEN <<"unsubscribe">> ELSE <<>>
        in  == IF Watching /\ MustSubscribe THEN <<"subscribe">> ELSE <<>>
        as  == IF WantsRole THEN <<"setRole">> ELSE <<>>
        sent == IF view = "mini" THEN out \o as \o in ELSE out \o in \o as
    IN  /\ conn # "closed" /\ Len(toServer) + Len(sent) <= MaxFlight + 1
        /\ nonced \/ rendered # [up |-> conn = "up", session |-> session, watching |-> Watching]
        /\ rendered' = [up |-> conn = "up", session |-> session, watching |-> Watching]
        /\ nonced' = FALSE
        /\ feeds' = IF Rekeyed THEN NoFeeds ELSE feeds
        /\ toServer' = toServer \o sent
        /\ UNCHANGED <<view, cameraVars, serverVars, linkVars, session, mounted, toPage, changes>>

-----------------------------------------------------------------------------
Next ==
    \/ Poll \/ (\E c \in Cameras : FetchSnapshot(c) \/ CameraChanges(c))
    \/ ServerReceives \/ WindowEnds
    \/ (\E m \in Modes : SetMode(m)) \/ Connect \/ ConnectionLost
    \/ PageReceives \/ SwitchTab \/ Render

\* The interval and the fetches, with their timeouts; messages arrive; the
\* page connects and renders.
Fairness ==
    /\ WF_vars(Poll) /\ \A c \in Cameras : WF_vars(FetchSnapshot(c))
    /\ WF_vars(ServerReceives) /\ WF_vars(PageReceives)
    /\ WF_vars(Connect) /\ WF_vars(Render)

Spec == Init /\ [][Next]_vars /\ Fairness

-----------------------------------------------------------------------------
TypeOK ==
    /\ view \in Views /\ up \subseteq Cameras
    /\ fetches = {c \in Cameras : cameraState[c].fetching}
    /\ cameraState \in [Cameras -> [frame : BOOLEAN, error : BOOLEAN, fetching : BOOLEAN]]
    /\ mode \in Modes /\ role \in {"user", "spectator"}
    /\ cameraSubscribers \in [Cameras -> SUBSET Sockets]
    /\ socketSubscriptions \in [Sockets -> SUBSET Cameras]
    /\ subscribeBucket \in Nat /\ answered \in {"nothing", "ok", "refused"}
    /\ socket \in 0 .. MaxSockets /\ conn \in {"down", "up", "closed"}
    /\ session \in Session /\ nonced \in BOOLEAN /\ mounted \in BOOLEAN
    /\ rendered \in Rendered
    /\ feeds \in [Cameras -> [status : {"none", "connecting", "playing", "error"},
                              picture : BOOLEAN]]
    /\ toServer \in Seq(ToServer) /\ toPage \in Seq(ToPage) /\ changes \in 0 .. MaxChanges

\* The two maps of subscriptions say the same, and nothing of a socket that is
\* gone.
MapsAgree ==
    /\ \A s \in Sockets, c \in Cameras :
           s \in cameraSubscribers[c] <=> c \in socketSubscriptions[s]
    /\ \A s \in Sockets : conn # "up" \/ s # socket => socketSubscriptions[s] = {}

\* Once the page has rendered and what it sent has arrived, its socket is
\* subscribed just when the panel is there and was not refused: no cleanup of
\* an earlier run of the effect undoes a later one, and no reconnection leaves
\* the panel without frames, or the server sending them to nobody.
Quiet == conn = "up" /\ toServer = <<>> /\ ~nonced
SubscriptionsFollow ==
    /\ TypeOK /\ MapsAgree
    /\ Quiet => socketSubscriptions[socket] =
                    IF rendered.watching /\ answered # "refused" THEN Cameras ELSE {}

\* A camera that comes back is seen, by a page that stays subscribed: no fetch
\* that failed, or hung, stops the polling, and no late error hides the frame.
RecoveredPlays ==
    \A c \in Cameras :
        <>[](c \in up /\ conn = "up" /\ socket \in cameraSubscribers[c])
            => <>[](feeds[c].status = "playing" /\ feeds[c].picture)
=============================================================================
