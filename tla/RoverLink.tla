------------------------------- MODULE RoverLink -------------------------------
(***************************************************************************)
(* The websockets between one rover and the server: the Run loop of        *)
(* pi/roverd/wsclient.go, the connection handler of                        *)
(* server/src/services/roverConnectionService.js, and the commands that    *)
(* commandService.js has in flight.  roverd dials again whenever Run ends; *)
(* the server learns of the end of the old websocket on its own, perhaps   *)
(* after the hello of the new one.                                         *)
(*                                                                         *)
(* A command may fail: the rover passes over what it cannot parse, and     *)
(* acknowledges with status error what it could not carry out.  What a     *)
(* command says is left out, so which of these happens is left open.       *)
(*                                                                         *)
(* Each connection is a pair of FIFO channels.  A connection that is cut   *)
(* loses what is in flight, and neither end is told: roverd finds out from *)
(* its writes, the server only if it has something to send (it sends no    *)
(* pings).  Timers, retry delays and text to speech are not modelled here, *)
(* nor what frames say (BatteryManager) or who may command (TurnService).  *)
(***************************************************************************)
EXTENDS Naturals, Sequences, FiniteSets

CONSTANTS
    Commands,       \* ids of commands (uuidv4)
    NoCommand,
    MaxConns,       \* bound: connections that are dialled
    MaxFlight,      \* bound: messages in flight, each way of a connection
    MaxFrames       \* capacity of the channel sensorFrames

ASSUME LinkConstants == /\ NoCommand \notin Commands
                        /\ MaxConns \in Nat /\ MaxFlight \in Nat \ {0}
                        /\ MaxFrames \in Nat \ {0}

Conns == 1 .. MaxConns
NoConn == 0

Statuses == {"ok", "error"}

Message == [type : {"hello", "sensor"}, id : {NoCommand}, status : {"none"}]
              \cup [type : {"ack"}, id : Commands, status : Statuses]

Hello == [type |-> "hello", id |-> NoCommand, status |-> "none"]
Sensor == [type |-> "sensor", id |-> NoCommand, status |-> "none"]
Ack(id, status) == [type |-> "ack", id |-> id, status |-> status]

VARIABLES
    roverd,     \* roverd: where Run is, its connection, its forwarders
    ends,       \* the connections: who has them open, which are up
    toServer,   \* messages in flight to the server
    toRover,    \* commands in flight to the rover
    server,     \* the server: who said hello, the record's ws, pendingCommands
    outcome,    \* history: how each command fared in readLoop
    told,       \* history: the status in each command's commandAck
    clashed     \* history: connections known to the server with another one

vars == <<roverd, ends, toServer, toRover, server, outcome, told, clashed>>

RoverdState == [phase      : {"dial", "hello", "loop"},
                conn       : Conns \cup {NoConn},
                dialled    : Conns \cup {0},
                forwarders : SUBSET Conns,      \* goroutines of forwardSensors
                frames     : 0 .. MaxFrames]    \* in sensorFrames

EndsState == [rover : SUBSET Conns, server : SUBSET Conns, up : SUBSET Conns]

ServerState == [known   : SUBSET Conns,             \* roverId is set
                record  : Conns \cup {NoConn},      \* rovers.get(roverId).ws
                pending : SUBSET Commands]          \* pendingCommands

Init ==
    /\ roverd = [phase |-> "dial", conn |-> NoConn, dialled |-> 0,
                 forwarders |-> {}, frames |-> 0]
    /\ ends = [rover |-> {}, server |-> {}, up |-> {}]
    /\ toServer = [c \in Conns |-> <<>>]
    /\ toRover = [c \in Conns |-> <<>>]
    /\ server = [known |-> {}, record |-> NoConn, pending |-> {}]
    /\ outcome = [id \in Commands |-> "none"] /\ told = [id \in Commands |-> "none"]
    /\ clashed = {}

\* The history of connections that the server knew at the same time.
NoteClashes ==
    LET both == ends'.server \cap server'.known
    IN  clashed' = clashed \cup {c \in both : both # {c}}

-----------------------------------------------------------------------------
(* roverd                                                                  *)

\* The message is written on connection c, and is in flight if c is up.
Send(c, m) ==
    /\ Len(toServer[c]) < MaxFlight
    /\ toServer' = IF c \in ends.up THEN [toServer EXCEPT ![c] = Append(@, m)]
                   ELSE toServer

\* A dial that fails changes nothing here.
Dial ==
    /\ roverd.phase = "dial" /\ roverd.dialled < MaxConns
    /\ LET c == roverd.dialled + 1
       IN  /\ roverd' = [roverd EXCEPT !.phase = "hello", !.conn = c, !.dialled = c]
           /\ ends' = [rover  |-> ends.rover \cup {c},
                       server |-> ends.server \cup {c},
                       up     |-> ends.up \cup {c}]
    /\ UNCHANGED <<toServer, toRover, server, outcome, told, clashed>>

\* The hello is sent, and the goroutines of this connection start.
SendHello ==
    /\ roverd.phase = "hello"
    /\ Send(roverd.conn, Hello)
    /\ roverd' = [roverd EXCEPT !.phase = "loop", !.forwarders = @ \cup {roverd.conn}]
    /\ UNCHANGED <<ends, toRover, server, outcome, told, clashed>>

\* Mutants: an acknowledgement always says ok; the reader waits for the last
\* command to be acknowledged to the client.
ReadCommand_AlwaysOk ==
    LET c == roverd.conn
    IN  /\ roverd.phase = "loop"
        /\ c \in ends.up /\ toRover[c] # <<>>
        /\ \/ /\ outcome' = [outcome EXCEPT ![Head(toRover[c])] = "skipped"]
              /\ UNCHANGED toServer
           \/ \E status \in Statuses :
                 /\ outcome' = [outcome EXCEPT ![Head(toRover[c])] = status]
                 /\ Send(c, Ack(Head(toRover[c]), "ok"))
        /\ toRover' = [toRover EXCEPT ![c] = Tail(@)]
        /\ UNCHANGED <<roverd, ends, server, told, clashed>>

ReadCommand_Waits ==
    LET c == roverd.conn
    IN  /\ roverd.phase = "loop"
        /\ \A id \in Commands : outcome[id] \in Statuses => told[id] # "none"
        /\ c \in ends.up /\ toRover[c] # <<>>
        /\ \E status \in Statuses :
              /\ outcome' = [outcome EXCEPT ![Head(toRover[c])] = status]
              /\ Send(c, Ack(Head(toRover[c]), status))
        /\ toRover' = [toRover EXCEPT ![c] = Tail(@)]
        /\ UNCHANGED <<roverd, ends, server, told, clashed>>

\* The reader takes a command: it passes over one that it cannot parse, and
\* acknowledges any other with what its dispatch came to.
ReadCommand ==
    LET c == roverd.conn
    IN  /\ roverd.phase = "loop"
        /\ c \in ends.up /\ toRover[c] # <<>>
        /\ \/ /\ outcome' = [outcome EXCEPT ![Head(toRover[c])] = "skipped"]
              /\ UNCHANGED toServer
           \/ \E status \in Statuses :
                 /\ outcome' = [outcome EXCEPT ![Head(toRover[c])] = status]
                 /\ Send(c, Ack(Head(toRover[c]), status))
        /\ toRover' = [toRover EXCEPT ![c] = Tail(@)]
        /\ UNCHANGED <<roverd, ends, server, told, clashed>>

\* A write or a read fails, on a connection that is cut or that the server has
\* closed: Run returns and closes its end.
RunEnds ==
    LET c == roverd.conn
    IN  /\ roverd.phase \in {"hello", "loop"}
        /\ c \notin ends.up \/ c \notin ends.server
        /\ roverd' = [roverd EXCEPT !.phase = "dial", !.conn = NoConn]
        /\ ends' = [ends EXCEPT !.rover = @ \ {c}]
        /\ UNCHANGED <<toServer, toRover, server, outcome, told, clashed>>

\* roverd stops, on a signal or a crash, and is started again by systemd: what
\* it had written may still be on its way.
RoverdRestarts ==
    /\ roverd.phase # "dial"
    /\ roverd' = [roverd EXCEPT !.phase = "dial", !.conn = NoConn,
                                !.forwarders = {}, !.frames = 0]
    /\ ends' = [ends EXCEPT !.rover = {}]
    /\ UNCHANGED <<toServer, toRover, server, outcome, told, clashed>>

\* The streamer; a frame that finds the channel full is dropped.
StreamFrame ==
    /\ roverd.frames < MaxFrames
    /\ roverd' = [roverd EXCEPT !.frames = @ + 1]
    /\ UNCHANGED <<ends, toServer, toRover, server, outcome, told, clashed>>

\* Mutant: the forwarder of a connection that has ended stays.
ForwardFrame_Stays(c) ==
    /\ c \in roverd.forwarders /\ roverd.frames > 0
    /\ roverd' = [roverd EXCEPT !.frames = @ - 1]
    /\ IF c \in ends.rover THEN Send(c, Sensor) ELSE UNCHANGED toServer
    /\ UNCHANGED <<ends, toRover, server, outcome, told, clashed>>

\* Every forwarder takes frames, also those of earlier connections: theirs
\* fails to send the frame it has taken, and ends.
ForwardFrame(c) ==
    /\ c \in roverd.forwarders /\ roverd.frames > 0
    /\ IF c \in ends.rover
       THEN /\ Send(c, Sensor)
            /\ roverd' = [roverd EXCEPT !.frames = @ - 1]
       ELSE /\ roverd' = [roverd EXCEPT !.frames = @ - 1, !.forwarders = @ \ {c}]
            /\ UNCHANGED toServer
    /\ UNCHANGED <<ends, toRover, server, outcome, told, clashed>>

-----------------------------------------------------------------------------
(* The server                                                              *)

\* A hello makes this websocket the one of the rover; an acknowledgement is
\* passed on once.  Frames and events change nothing here.
HandleMessage(c, m) ==
    /\ server' = IF m.type = "hello"
                 THEN [server EXCEPT !.known = @ \cup {c}, !.record = c]
                 ELSE IF m.type = "ack" /\ c \in server.known
                 THEN [server EXCEPT !.pending = @ \ {m.id}]
                 ELSE server
    /\ told' = IF m.type = "ack" /\ c \in server.known /\ m.id \in server.pending
               THEN [told EXCEPT ![m.id] = m.status] ELSE told

Receive(c) ==
    /\ c \in ends.up \cap ends.server
    /\ toServer[c] # <<>>
    /\ HandleMessage(c, Head(toServer[c]))
    /\ toServer' = [toServer EXCEPT ![c] = Tail(@)]
    /\ UNCHANGED <<roverd, ends, toRover, outcome>>
    /\ NoteClashes

\* The server's end closes: after everything the rover sent and its close, or
\* because what the server sent on a cut connection is never acknowledged.
SeesClose(c) ==
    \/ c \in ends.up /\ c \notin ends.rover /\ toServer[c] = <<>>
    \/ c \notin ends.up /\ toRover[c] # <<>>

\* Mutants of Removed: a websocket without a hello removes the rover; the close
\* of the rover's own websocket is taken for the close of an older one.
Removed_WithoutHello(c) == NoConn
Removed_OnlyOthers(c) ==
    IF c \in server.known /\ server.record # c THEN NoConn ELSE server.record

\* removeRover is called with the rover's name, whichever websocket closed.
Removed(c) == IF c \in server.known THEN NoConn ELSE server.record

Closed(c) ==
    /\ c \in ends.server /\ SeesClose(c)
    /\ ends' = [ends EXCEPT !.server = @ \ {c}]
    /\ server' = [server EXCEPT !.record = Removed(c)]
    /\ UNCHANGED <<roverd, toServer, toRover, outcome, told>>
    /\ NoteClashes

\* record.ws.send, then pendingCommands.set.
IssueCommand(id) ==
    LET c == server.record
    IN  /\ c # NoConn
        /\ id \notin server.pending /\ outcome[id] = "none"
        /\ \A d \in Conns : \A i \in DOMAIN toRover[d] : toRover[d][i] # id
        /\ Len(toRover[c]) < MaxFlight
        /\ toRover' = IF c \in ends.server THEN [toRover EXCEPT ![c] = Append(@, id)]
                      ELSE toRover
        /\ server' = [server EXCEPT !.pending = @ \cup {id}]
        /\ UNCHANGED <<roverd, ends, toServer, outcome, told, clashed>>

\* The server's process ends and is started again: its Maps are gone.
ServerRestarts ==
    /\ ends.server # {}
    /\ ends' = [ends EXCEPT !.server = {}]
    /\ server' = [known |-> {}, record |-> NoConn, pending |-> {}]
    /\ UNCHANGED <<roverd, toServer, toRover, outcome, told, clashed>>

-----------------------------------------------------------------------------
(* The network, and the whole.                                             *)

Cut(c) ==
    /\ c \in ends.up /\ c \in ends.rover \cup ends.server
    /\ ends' = [ends EXCEPT !.up = @ \ {c}]
    /\ toServer' = [toServer EXCEPT ![c] = <<>>]
    /\ UNCHANGED <<roverd, toRover, server, outcome, told, clashed>>

Next ==
    \/ Dial \/ SendHello \/ ReadCommand \/ RunEnds \/ RoverdRestarts
    \/ StreamFrame
    \/ \E c \in Conns : ForwardFrame(c) \/ Receive(c) \/ Closed(c) \/ Cut(c)
    \/ \E id \in Commands : IssueCommand(id)
    \/ ServerRestarts

\* The goroutines of roverd and the event loop of the server run; a goroutine
\* that waits to receive from a channel or to write gets its turn, in order.
\* Nothing is assumed of the network, of restarts, or of who commands.
Fairness ==
    /\ WF_vars(Dial) /\ WF_vars(SendHello) /\ SF_vars(ReadCommand) /\ WF_vars(RunEnds)
    /\ WF_vars(StreamFrame)
    /\ \A c \in Conns : /\ SF_vars(ForwardFrame(c))
                        /\ WF_vars(Receive(c)) /\ WF_vars(Closed(c))

Spec == Init /\ [][Next]_vars /\ Fairness

-----------------------------------------------------------------------------
\* The types; and roverd has a connection exactly while Run is in progress.
TypeOK ==
    /\ roverd \in RoverdState
    /\ ends \in EndsState
    /\ server \in ServerState
    /\ toServer \in [Conns -> Seq(Message)]
    /\ toRover \in [Conns -> Seq(Commands)]
    /\ outcome \in [Commands -> Statuses \cup {"none", "skipped"}]
    /\ told \in [Commands -> Statuses \cup {"none"}]
    /\ clashed \in SUBSET Conns
    /\ roverd.phase = "dial" <=> roverd.conn = NoConn
    /\ ends.rover = {roverd.conn} \ {NoConn}

\* Commands are sent to a websocket that said hello and that the server has
\* not closed: no close, in whatever order, leaves a closed one in the record.
RecordIsOpen ==
    server.record # NoConn => server.record \in ends.server \cap server.known

\* What clients are told of a command is what it came to on the rover: that it
\* was carried out, or that it failed; never of one that was lost or skipped.
ToldIsTrue == \A id \in Commands : told[id] # "none" => told[id] = outcome[id]

\* A rover is listed from its hello until its websocket closes, as long as the
\* server never knew it by two websockets at the same time.
AloneIsListed ==
    \A c \in ends.server \cap server.known : c \notin clashed => server.record = c

\* What the three rest on, with which they are the inductive invariant that
\* RoverProofs proves: connections are numbered as they are dialled, a command
\* on its way is there once and has come to nothing yet, an acknowledgement on
\* its way says what its command came to, and two connections known at the same
\* time are both noted.
DialledOnly == ends.server \cup server.known \subseteq 1 .. roverd.dialled
TakenOnce ==
    \A c, d \in Conns : \A i \in DOMAIN toRover[c], j \in DOMAIN toRover[d] :
        /\ outcome[toRover[c][i]] = "none"
        /\ toRover[c][i] = toRover[d][j] => c = d /\ i = j
AcksInFlight ==
    \A c \in Conns : \A i \in DOMAIN toServer[c] :
        toServer[c][i].type = "ack" =>
            toServer[c][i].status = outcome[toServer[c][i].id]
ClashesNoted ==
    \A c, d \in ends.server \cap server.known : c # d => c \in clashed
LinkInv == /\ TypeOK /\ RecordIsOpen /\ ToldIsTrue /\ AloneIsListed
           /\ DialledOnly /\ TakenOnce /\ AcksInFlight /\ ClashesNoted

\* A rover that closed its connection is taken off the list, or has a new one.
ClosedIsUnlisted ==
    \A c \in Conns : (server.record = c /\ c \in ends.up \ ends.rover)
                        ~> (server.record # c \/ c \notin ends.up)

\* A command on its way over a connection that lasts is not lost: the rover
\* takes it, and its clients hear what it came to unless it made no sense.
CommandsAreAnswered ==
    \A c \in Conns : \A id \in Commands :
        (\E i \in DOMAIN toRover[c] : toRover[c][i] = id)
            ~> (\/ outcome[id] = "skipped" \/ told[id] # "none"
                \/ c \notin ends.up \cap ends.rover \cap ends.server)

\* Forwarders of earlier connections do not go on taking the frames of the
\* connection that lasts.
OldForwardersEnd ==
    \A c \in Conns :
        <>[](roverd.phase = "loop" /\ roverd.conn = c /\ c \in ends.up)
            => <>[](roverd.forwarders = {c})

\* docs/pi-deployment.md:112 "The UI expects `roverd` instances to send `hello`
\* frames so it can populate the rover list": a rover that said hello, on a
\* websocket that is still open, is in the list.
HelloedIsListed ==
    ends.server \cap server.known # {} => server.record # NoConn
=============================================================================
