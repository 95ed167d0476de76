------------------------------ MODULE RoverProofs ------------------------------
(***************************************************************************)
(* The safety of a rover, seen from its websockets, from the daemon on it  *)
(* and from its battery's lock, for every length of a wait and any bounds. *)
(***************************************************************************)
EXTENDS RoverLink, Roverd, BatteryManager, TLAPS

-----------------------------------------------------------------------------
(* The websockets.  LinkInv is inductive; the proof takes its conjuncts    *)
(* one by one, the types first, as the others use them.                    *)

LEMMA LinkInit == Init => LinkInv
BY LinkConstants
   DEF Init, LinkInv, TypeOK, RecordIsOpen, ToldIsTrue, AloneIsListed,
       DialledOnly, TakenOnce, AcksInFlight, ClashesNoted, RoverdState, EndsState,
       ServerState, Conns, NoConn, Statuses

\* A message appended to what is in flight.
LEMMA SendTypes ==
    ASSUME TypeOK, NEW c \in Conns, NEW m \in Message, Send(c, m)
    PROVE  /\ toServer' \in [Conns -> Seq(Message)]
           /\ \A d \in Conns : \A i \in DOMAIN toServer'[d] :
                 \/ i \in DOMAIN toServer[d] /\ toServer'[d][i] = toServer[d][i]
                 \/ toServer'[d][i] = m
BY DEF TypeOK, Send

\* What is left in flight when the head is taken, or when all is lost.
LEMMA TailInFlight ==
    ASSUME TypeOK, NEW c \in Conns, toServer[c] # <<>>,
           toServer' = [toServer EXCEPT ![c] = Tail(@)]
    PROVE  /\ toServer' \in [Conns -> Seq(Message)]
           /\ Head(toServer[c]) \in Message
           /\ Head(toServer[c]) = toServer[c][1] /\ 1 \in DOMAIN toServer[c]
           /\ \A d \in Conns : \A i \in DOMAIN toServer'[d] :
                 \E j \in DOMAIN toServer[d] : toServer'[d][i] = toServer[d][j]
<1>1. toServer[c] \in Seq(Message) /\ Len(toServer[c]) > 0
  BY DEF TypeOK
<1>2. /\ Tail(toServer[c]) \in Seq(Message)
      /\ Head(toServer[c]) \in Message
      /\ Head(toServer[c]) = toServer[c][1] /\ 1 \in DOMAIN toServer[c]
      /\ \A i \in DOMAIN Tail(toServer[c]) : /\ i + 1 \in DOMAIN toServer[c]
                                             /\ Tail(toServer[c])[i] = toServer[c][i + 1]
  BY <1>1
<1>3. \A d \in Conns : toServer'[d] = IF d = c THEN Tail(toServer[c]) ELSE toServer[d]
  BY DEF TypeOK
<1>4. toServer' \in [Conns -> Seq(Message)]
  BY <1>2 DEF TypeOK
<1>5. ASSUME NEW d \in Conns, NEW i \in DOMAIN toServer'[d]
      PROVE  \E j \in DOMAIN toServer[d] : toServer'[d][i] = toServer[d][j]
  <2>1. CASE d = c
    BY <1>2, <1>3, <2>1
  <2>2. CASE d # c
    BY <1>3, <2>2
  <2> QED BY <2>1, <2>2
<1> QED BY <1>2, <1>4, <1>5

LEMMA MessagesAreMessages ==
    /\ Hello \in Message /\ Sensor \in Message
    /\ \A id \in Commands, status \in Statuses : Ack(id, status) \in Message
BY DEF Hello, Sensor, Ack, Message

LEMMA HeadOfCommands ==
    ASSUME TypeOK, NEW c \in Conns, toRover[c] # <<>>
    PROVE  /\ Head(toRover[c]) \in Commands
           /\ [toRover EXCEPT ![c] = Tail(@)] \in [Conns -> Seq(Commands)]
<1>1. toRover[c] \in Seq(Commands) /\ Len(toRover[c]) > 0
  BY DEF TypeOK
<1>2. Head(toRover[c]) \in Commands /\ Tail(toRover[c]) \in Seq(Commands)
  BY <1>1
<1> QED BY <1>2 DEF TypeOK

LEMMA FramesChange ==
    ASSUME NEW r \in RoverdState, NEW n \in 0 .. MaxFrames, NEW F \in SUBSET Conns
    PROVE  /\ [r EXCEPT !.frames = n] \in RoverdState
           /\ [r EXCEPT !.frames = n, !.forwarders = F] \in RoverdState
BY DEF RoverdState

-----------------------------------------------------------------------------
LEMMA TypeStep == TypeOK /\ [Next]_vars => TypeOK'
<1> SUFFICES ASSUME TypeOK, [Next]_vars PROVE TypeOK'
  OBVIOUS
<1> USE DEF RoverdState, EndsState, ServerState, NoConn
<1>0. /\ MaxConns \in Nat /\ 0 \in 0 .. MaxFrames
      /\ \A n \in 0 .. MaxFrames : /\ n < MaxFrames => n + 1 \in 0 .. MaxFrames
                                   /\ n > 0 => n - 1 \in 0 .. MaxFrames
      /\ roverd.frames \in 0 .. MaxFrames
      /\ roverd.dialled \in 0 .. MaxConns
      /\ roverd.phase # "dial" => roverd.conn \in Conns
  BY LinkConstants DEF TypeOK, Conns
<1>1. CASE Dial
  <2>1. roverd.dialled + 1 \in Conns /\ roverd.dialled + 1 # 0
    BY <1>0, <1>1 DEF Dial, Conns
  <2>2. roverd' \in RoverdState /\ roverd'.phase = "hello" /\ roverd'.conn # NoConn
    BY <1>1, <2>1 DEF Dial, TypeOK
  <2>3. ends' \in EndsState
    BY <1>1, <2>1 DEF Dial, TypeOK
  <2>4. ends.rover = {}
    BY <1>1 DEF Dial, TypeOK
  <2>5. ends'.rover = {roverd'.conn} \ {NoConn}
    BY <1>1, <2>1, <2>4 DEF Dial, TypeOK
  <2> QED BY <1>1, <2>2, <2>3, <2>5 DEF Dial, TypeOK
<1>2. CASE SendHello
  <2>1. roverd.conn \in Conns /\ toServer' \in [Conns -> Seq(Message)]
    BY <1>0, <1>2, SendTypes, MessagesAreMessages DEF SendHello
  <2> QED BY <1>2, <2>1 DEF SendHello, TypeOK
<1>3. CASE ReadCommand
  <2>1. roverd.conn \in Conns /\ toRover[roverd.conn] # <<>>
    BY <1>0, <1>3 DEF ReadCommand
  <2>2. /\ Head(toRover[roverd.conn]) \in Commands
        /\ toRover' \in [Conns -> Seq(Commands)]
    BY <1>3, <2>1, HeadOfCommands DEF ReadCommand
  <2>3. toServer' \in [Conns -> Seq(Message)]
    BY <1>3, <2>1, <2>2, SendTypes, MessagesAreMessages DEF ReadCommand, TypeOK
  <2>4. outcome' \in [Commands -> Statuses \cup {"none", "skipped"}]
    BY <1>3, <2>2 DEF ReadCommand, TypeOK
  <2> QED BY <1>3, <2>2, <2>3, <2>4 DEF ReadCommand, TypeOK
<1>4. CASE RunEnds
  <2>1. roverd' \in RoverdState /\ roverd'.phase = "dial" /\ roverd'.conn = NoConn
    BY <1>4 DEF RunEnds, TypeOK
  <2>2. ends' \in EndsState /\ ends'.rover = {}
    BY <1>0, <1>4 DEF RunEnds, TypeOK
  <2> QED BY <1>4, <2>1, <2>2 DEF RunEnds, TypeOK
<1>5. CASE RoverdRestarts
  <2>1. roverd' \in RoverdState /\ roverd'.phase = "dial" /\ roverd'.conn = NoConn
    <3>1. \A r \in RoverdState :
             [r EXCEPT !.phase = "dial", !.conn = NoConn, !.forwarders = {}, !.frames = 0]
                \in RoverdState
      BY <1>0
    <3>2. roverd \in RoverdState
      BY DEF TypeOK
    <3>3. roverd' = [roverd EXCEPT !.phase = "dial", !.conn = NoConn,
                                   !.forwarders = {}, !.frames = 0]
      BY <1>5, Zenon DEF RoverdRestarts
    <3>4. roverd' \in RoverdState
      BY <3>1, <3>2, <3>3, Zenon
    <3> QED BY <3>2, <3>3, <3>4
  <2>2. ends' \in EndsState /\ ends'.rover = {}
    BY <1>5 DEF RoverdRestarts, TypeOK
  <2>3. UNCHANGED <<toServer, toRover, server, outcome, told, clashed>>
    BY <1>5, Zenon DEF RoverdRestarts
  <2> QED BY <2>1, <2>2, <2>3 DEF TypeOK
<1>6. CASE StreamFrame
  <2>1. roverd' \in RoverdState /\ roverd'.phase = roverd.phase /\ roverd'.conn = roverd.conn
    BY <1>0, <1>6, FramesChange DEF StreamFrame, TypeOK
  <2> QED BY <1>6, <2>1 DEF StreamFrame, TypeOK
<1>7. ASSUME NEW c \in Conns, ForwardFrame(c) PROVE TypeOK'
  <2>1. toServer' \in [Conns -> Seq(Message)]
    <3>1. CASE Send(c, Sensor)
      BY <3>1, SendTypes, MessagesAreMessages
    <3>2. CASE UNCHANGED toServer
      BY <3>2 DEF TypeOK
    <3> QED BY <1>7, <3>1, <3>2 DEF ForwardFrame
  <2>2. roverd' \in RoverdState /\ roverd'.phase = roverd.phase /\ roverd'.conn = roverd.conn
    <3>1. /\ roverd \in RoverdState /\ roverd.frames - 1 \in 0 .. MaxFrames
          /\ roverd.forwarders \ {c} \in SUBSET Conns
      BY <1>0, <1>7 DEF ForwardFrame, TypeOK
    <3>2. \/ roverd' = [roverd EXCEPT !.frames = roverd.frames - 1]
          \/ roverd' = [roverd EXCEPT !.frames = roverd.frames - 1,
                                      !.forwarders = roverd.forwarders \ {c}]
      <4>1. CASE c \in ends.rover
        BY <1>7, <4>1 DEF ForwardFrame
      <4>2. CASE c \notin ends.rover
        BY <1>7, <4>2, Zenon DEF ForwardFrame
      <4> QED BY <4>1, <4>2
    <3>3. roverd' \in RoverdState
      <4> HIDE DEF RoverdState
      <4> QED BY <3>1, <3>2, FramesChange, ZenonT(30)
    <3> QED BY <3>1, <3>2, <3>3
  <2> QED BY <1>7, <2>1, <2>2 DEF ForwardFrame, TypeOK
<1>8. ASSUME NEW c \in Conns, Receive(c) PROVE TypeOK'
  <2>1. toServer' \in [Conns -> Seq(Message)] /\ Head(toServer[c]) \in Message
    BY <1>8, TailInFlight DEF Receive
  <2>2. server' \in ServerState
    BY <1>8, <2>1 DEF Receive, HandleMessage, TypeOK
  <2>4. told' \in [Commands -> Statuses \cup {"none"}]
    BY <1>8, <2>1 DEF Receive, HandleMessage, TypeOK, Message
  <2>3. clashed' \in SUBSET Conns
    BY <1>8 DEF Receive, NoteClashes, TypeOK
  <2> QED BY <1>8, <2>1, <2>2, <2>3, <2>4 DEF Receive, TypeOK
<1>9. ASSUME NEW c \in Conns, Closed(c) PROVE TypeOK'
  <2>1. server' \in ServerState
    BY <1>9 DEF Closed, Removed, TypeOK
  <2>3. ends' \in EndsState /\ ends'.rover = ends.rover
    BY <1>9 DEF Closed, TypeOK
  <2>2. clashed' \in SUBSET Conns
    <3>1. NoteClashes
      BY <1>9 DEF Closed
    <3> QED BY <2>1, <2>3, <3>1 DEF NoteClashes, TypeOK
  <2> QED BY <1>9, <2>1, <2>2, <2>3 DEF Closed, TypeOK
<1>10. ASSUME NEW c \in Conns, Cut(c) PROVE TypeOK'
  <2>1. toServer' \in [Conns -> Seq(Message)]
    BY <1>10 DEF Cut, TypeOK
  <2>2. ends' \in EndsState /\ ends'.rover = ends.rover
    BY <1>10 DEF Cut, TypeOK
  <2> QED BY <1>10, <2>1, <2>2 DEF Cut, TypeOK
<1>11. ASSUME NEW id \in Commands, IssueCommand(id) PROVE TypeOK'
  <2>1. toRover' \in [Conns -> Seq(Commands)]
    BY <1>11 DEF IssueCommand, TypeOK
  <2> QED BY <1>11, <2>1 DEF IssueCommand, TypeOK
<1>12. CASE ServerRestarts
  BY <1>12 DEF ServerRestarts, TypeOK
<1>13. CASE UNCHANGED vars
  BY <1>13 DEF vars, TypeOK
<1> QED
  BY <1>1, <1>2, <1>3, <1>4, <1>5, <1>6, <1>7, <1>8, <1>9, <1>10, <1>11, <1>12,
     <1>13 DEF Next

-----------------------------------------------------------------------------
\* Who has connections open, and whom the server knows, changes in few steps.
LEMMA EndsChange ==
    ASSUME TypeOK, [Next]_vars
    PROVE  \/ Dial
           \/ ServerRestarts
           \/ \E c \in Conns : Receive(c) \/ Closed(c)
           \/ \E id \in Commands : IssueCommand(id)
           \/ ReadCommand
           \/ /\ UNCHANGED <<server, outcome, told, clashed>>
              /\ ends'.server = ends.server
              /\ roverd'.dialled = roverd.dialled
<1>1. CASE SendHello
  BY <1>1 DEF SendHello, TypeOK, RoverdState
<1>2. CASE RunEnds
  BY <1>2 DEF RunEnds, TypeOK, RoverdState, EndsState
<1>3. CASE RoverdRestarts
  BY <1>3 DEF RoverdRestarts, TypeOK, RoverdState, EndsState
<1>4. CASE StreamFrame
  BY <1>4 DEF StreamFrame, TypeOK, RoverdState
<1>5. ASSUME NEW c \in Conns, ForwardFrame(c)
      PROVE  /\ UNCHANGED <<server, outcome, told, clashed, ends>>
             /\ roverd'.dialled = roverd.dialled
  BY <1>5 DEF ForwardFrame, TypeOK, RoverdState
<1>6. ASSUME NEW c \in Conns, Cut(c)
      PROVE  /\ UNCHANGED <<server, outcome, told, clashed, roverd>>
             /\ ends'.server = ends.server
  BY <1>6 DEF Cut, TypeOK, EndsState
<1>7. CASE UNCHANGED vars
  BY <1>7 DEF vars
<1> QED BY <1>1, <1>2, <1>3, <1>4, <1>5, <1>6, <1>7 DEF Next

LEMMA DialledStep ==
    TypeOK /\ TypeOK' /\ DialledOnly /\ [Next]_vars => DialledOnly'
<1> SUFFICES ASSUME TypeOK, TypeOK', DialledOnly, [Next]_vars PROVE DialledOnly'
  OBVIOUS
<1>0. roverd.dialled \in Nat
  <2>1. roverd.dialled \in Conns \cup {0}
    BY DEF TypeOK, RoverdState
  <2> QED BY <2>1 DEF Conns
<1>1. CASE Dial
  <2>1. /\ roverd'.dialled = roverd.dialled + 1
        /\ ends'.server = ends.server \cup {roverd.dialled + 1}
        /\ server' = server
    BY <1>1 DEF Dial, TypeOK, RoverdState
  <2>2. /\ 1 .. roverd.dialled \subseteq 1 .. roverd'.dialled
        /\ roverd.dialled + 1 \in 1 .. roverd'.dialled
    BY <1>0, <2>1
  <2> QED BY <2>1, <2>2 DEF DialledOnly
<1>2. CASE ServerRestarts
  BY <1>2 DEF ServerRestarts, DialledOnly, TypeOK, EndsState
<1>3. ASSUME NEW c \in Conns, Receive(c) PROVE DialledOnly'
  <2>1. server'.known \subseteq server.known \cup {c} /\ c \in ends.server
    BY <1>3 DEF Receive, HandleMessage, TypeOK, ServerState
  <2> QED BY <1>3, <2>1 DEF Receive, DialledOnly
<1>4. ASSUME NEW c \in Conns, Closed(c) PROVE DialledOnly'
  <2>1. ends'.server \subseteq ends.server /\ server'.known = server.known
    BY <1>4 DEF Closed, TypeOK, EndsState, ServerState
  <2> QED BY <1>4, <2>1 DEF Closed, DialledOnly
<1>5. ASSUME NEW id \in Commands, IssueCommand(id) PROVE DialledOnly'
  <2>1. server'.known = server.known
    BY <1>5 DEF IssueCommand, TypeOK, ServerState
  <2> QED BY <1>5, <2>1 DEF IssueCommand, DialledOnly
<1>6. CASE ReadCommand
  BY <1>6 DEF ReadCommand, DialledOnly
<1>7. CASE /\ UNCHANGED server /\ ends'.server = ends.server
           /\ roverd'.dialled = roverd.dialled
  BY <1>7 DEF DialledOnly
<1> QED BY <1>1, <1>2, <1>3, <1>4, <1>5, <1>6, <1>7, EndsChange

LEMMA RecordStep ==
    TypeOK /\ RecordIsOpen /\ [Next]_vars => RecordIsOpen'
<1> SUFFICES ASSUME TypeOK, RecordIsOpen, [Next]_vars PROVE RecordIsOpen'
  OBVIOUS
<1> USE DEF RecordIsOpen
<1>1. CASE Dial
  BY <1>1 DEF Dial
<1>2. CASE ServerRestarts
  BY <1>2 DEF ServerRestarts
<1>3. ASSUME NEW c \in Conns, Receive(c) PROVE RecordIsOpen'
  <2>1. CASE Head(toServer[c]).type = "hello"
    BY <1>3, <2>1 DEF Receive, HandleMessage, TypeOK, ServerState
  <2>2. CASE Head(toServer[c]).type # "hello"
    BY <1>3, <2>2 DEF Receive, HandleMessage, TypeOK, ServerState
  <2> QED BY <2>1, <2>2
<1>4. ASSUME NEW c \in Conns, Closed(c) PROVE RecordIsOpen'
  <2>1. /\ ends'.server = ends.server \ {c}
        /\ server'.known = server.known
        /\ server'.record = IF c \in server.known THEN NoConn ELSE server.record
    BY <1>4 DEF Closed, Removed, TypeOK, EndsState, ServerState
  <2> QED BY <2>1
<1>5. ASSUME NEW id \in Commands, IssueCommand(id) PROVE RecordIsOpen'
  BY <1>5 DEF IssueCommand, TypeOK, ServerState
<1>6. CASE ReadCommand
  BY <1>6 DEF ReadCommand
<1>7. CASE UNCHANGED server /\ ends'.server = ends.server
  BY <1>7
<1> QED BY <1>1, <1>2, <1>3, <1>4, <1>5, <1>6, <1>7, EndsChange

\* The history of clashes notes every pair that is known together.
LEMMA ClashStep ==
    TypeOK /\ DialledOnly /\ ClashesNoted /\ [Next]_vars => ClashesNoted'
<1> SUFFICES ASSUME TypeOK, DialledOnly, ClashesNoted, [Next]_vars
             PROVE  ClashesNoted'
  OBVIOUS
<1> USE DEF ClashesNoted
<1>1. CASE Dial
  <2>1. /\ ends'.server = ends.server \cup {roverd.dialled + 1}
        /\ server' = server /\ clashed' = clashed
    BY <1>1 DEF Dial
  <2>2. roverd.dialled + 1 \notin server.known
    BY LinkConstants DEF DialledOnly, TypeOK, RoverdState, Conns
  <2> QED BY <2>1, <2>2
<1>2. CASE ServerRestarts
  BY <1>2 DEF ServerRestarts
<1>3. CASE NoteClashes
  BY <1>3 DEF NoteClashes
<1>4. ASSUME NEW id \in Commands, IssueCommand(id) PROVE ClashesNoted'
  BY <1>4 DEF IssueCommand, TypeOK, ServerState
<1>5. CASE ReadCommand
  BY <1>5 DEF ReadCommand
<1>6. CASE UNCHANGED <<server, clashed>> /\ ends'.server = ends.server
  BY <1>6
<1> QED
  BY <1>1, <1>2, <1>3, <1>4, <1>5, <1>6, EndsChange DEF Receive, Closed

LEMMA AloneStep ==
    TypeOK /\ DialledOnly /\ ClashesNoted /\ AloneIsListed /\ [Next]_vars
        => AloneIsListed'
<1> SUFFICES ASSUME TypeOK, DialledOnly, ClashesNoted, AloneIsListed, [Next]_vars
             PROVE  AloneIsListed'
  OBVIOUS
<1> USE DEF AloneIsListed
<1>1. CASE Dial
  <2>1. /\ ends'.server = ends.server \cup {roverd.dialled + 1}
        /\ server' = server /\ clashed' = clashed
    BY <1>1 DEF Dial
  <2>2. roverd.dialled + 1 \notin server.known
    BY LinkConstants DEF DialledOnly, TypeOK, RoverdState, Conns
  <2> QED BY <2>1, <2>2
<1>2. CASE ServerRestarts
  BY <1>2 DEF ServerRestarts
<1>3. ASSUME NEW c \in Conns, Receive(c) PROVE AloneIsListed'
  <2>1. /\ ends' = ends /\ c \in ends.server
        /\ clashed' = clashed \cup {d \in ends.server \cap server'.known :
                                        ends.server \cap server'.known # {d}}
    BY <1>3 DEF Receive, NoteClashes
  <2>2. CASE server'.known = server.known \cup {c} /\ server'.record = c
    BY <2>1, <2>2
  <2>3. CASE server'.known = server.known /\ server'.record = server.record
    BY <2>1, <2>3
  <2> QED BY <1>3, <2>2, <2>3 DEF Receive, HandleMessage, TypeOK, ServerState
<1>4. ASSUME NEW c \in Conns, Closed(c) PROVE AloneIsListed'
  <2>1. /\ c \in ends.server /\ ends'.server = ends.server \ {c}
        /\ server'.known = server.known
        /\ server'.record = IF c \in server.known THEN NoConn ELSE server.record
        /\ clashed \subseteq clashed'
    BY <1>4 DEF Closed, Removed, NoteClashes, TypeOK, EndsState, ServerState
  <2> QED BY <2>1 DEF ClashesNoted
<1>5. ASSUME NEW id \in Commands, IssueCommand(id) PROVE AloneIsListed'
  BY <1>5 DEF IssueCommand, TypeOK, ServerState
<1>6. CASE ReadCommand
  BY <1>6 DEF ReadCommand
<1>7. CASE UNCHANGED <<server, clashed>> /\ ends'.server = ends.server
  BY <1>7
<1> QED BY <1>1, <1>2, <1>3, <1>4, <1>5, <1>6, <1>7, EndsChange

\* Each command on its way is there once: its id is new, and a command that is
\* taken leaves no copy behind.
LEMMA TakenStep == TypeOK /\ TakenOnce /\ [Next]_vars => TakenOnce'
<1> SUFFICES ASSUME TypeOK, TakenOnce, [Next]_vars PROVE TakenOnce'
  OBVIOUS
<1>1. CASE ReadCommand
  <2> DEFINE r == roverd.conn
             id == Head(toRover[r])
  <2>1. r \in Conns /\ toRover[r] # <<>>
    BY <1>1 DEF ReadCommand, TypeOK, RoverdState, NoConn
  <2>2. toRover[r] \in Seq(Commands) /\ Len(toRover[r]) > 0
    BY <2>1 DEF TypeOK
  <2>3. /\ id \in Commands /\ id = toRover[r][1] /\ 1 \in DOMAIN toRover[r]
        /\ \A i \in DOMAIN Tail(toRover[r]) :
              /\ i \in Nat /\ i # 0 /\ i + 1 \in DOMAIN toRover[r]
              /\ Tail(toRover[r])[i] = toRover[r][i + 1]
    BY <2>2
  <2>4. \A d \in Conns : toRover'[d] = IF d = r THEN Tail(toRover[r]) ELSE toRover[d]
    BY <1>1 DEF ReadCommand, TypeOK
  <2> DEFINE at(d, i) == IF d = r THEN i + 1 ELSE i
  <2>5. ASSUME NEW d \in Conns, NEW i \in DOMAIN toRover'[d]
        PROVE  /\ at(d, i) \in DOMAIN toRover[d]
               /\ toRover'[d][i] = toRover[d][at(d, i)]
               /\ d = r => at(d, i) # 1
    <3> HIDE DEF r, id
    <3>1. CASE d = r
      <4>1. toRover'[d] = Tail(toRover[r]) /\ i \in DOMAIN Tail(toRover[r])
        BY <2>4, <3>1
      <4>2. i \in Nat /\ i # 0 /\ i + 1 \in DOMAIN toRover[r]
        BY <2>3, <4>1
      <4> QED BY <2>3, <3>1, <4>1, <4>2
    <3>2. CASE d # r
      BY <2>4, <3>2
    <3> QED BY <3>1, <3>2
  <2>6. ASSUME NEW d \in Conns, NEW i \in DOMAIN toRover'[d], NEW j \in DOMAIN toRover'[d],
               at(d, i) = at(d, j)
        PROVE  i = j
    <3> HIDE DEF r, id
    <3>1. CASE d = r
      <4>1. DOMAIN toRover'[d] = DOMAIN Tail(toRover[r])
        BY <2>4, <3>1
      <4>2. i \in Nat /\ j \in Nat /\ i + 1 = j + 1
        BY <2>3, <2>6, <3>1, <4>1
      <4> QED BY <4>2
    <3>2. CASE d # r
      BY <2>6, <3>2
    <3> QED BY <3>1, <3>2
  <2>7. \A k \in Commands : k # id => outcome'[k] = outcome[k]
    BY <1>1, <2>3 DEF ReadCommand, TypeOK
  <2>8. \A d \in Conns : \A i \in DOMAIN toRover[d] : toRover[d][i] \in Commands
    BY DEF TypeOK
  <2> HIDE DEF r, id, at
  <2>9. ASSUME NEW d \in Conns, NEW i \in DOMAIN toRover'[d]
        PROVE  outcome'[toRover'[d][i]] = "none"
    <3>1. toRover[d][at(d, i)] # id
      BY <2>1, <2>3, <2>5 DEF TakenOnce
    <3> QED BY <2>5, <2>7, <2>8, <3>1 DEF TakenOnce
  <2>10. ASSUME NEW c \in Conns, NEW d \in Conns, NEW i \in DOMAIN toRover'[c],
                NEW j \in DOMAIN toRover'[d], toRover'[c][i] = toRover'[d][j]
         PROVE  c = d /\ i = j
    <3>1. c = d /\ at(c, i) = at(d, j)
      BY <2>5, <2>10 DEF TakenOnce
    <3> QED BY <2>6, <3>1
  <2> QED BY <2>9, <2>10 DEF TakenOnce
<1>2. ASSUME NEW id \in Commands, IssueCommand(id) PROVE TakenOnce'
  <2> DEFINE r == server.record
  <2>1. r \in Conns /\ outcome' = outcome /\ outcome[id] = "none"
    BY <1>2 DEF IssueCommand, TypeOK, ServerState
  <2>2. \A d \in Conns : \A i \in DOMAIN toRover[d] : toRover[d][i] # id
    BY <1>2 DEF IssueCommand
  <2>3. toRover' = toRover \/ toRover' = [toRover EXCEPT ![r] = Append(@, id)]
    BY <1>2 DEF IssueCommand
  <2>4. toRover[r] \in Seq(Commands)
    BY <2>1 DEF TypeOK
  <2> HIDE DEF r
  <2>5. \A d \in Conns : \A i \in DOMAIN toRover'[d] :
           \/ i \in DOMAIN toRover[d] /\ toRover'[d][i] = toRover[d][i]
           \/ d = r /\ i = Len(toRover[r]) + 1 /\ toRover'[d][i] = id
    <3>1. \A d \in Conns :
             \/ toRover'[d] = toRover[d]
             \/ d = r /\ toRover'[d] = Append(toRover[r], id)
      BY <2>1, <2>3 DEF TypeOK
    <3>2. \A i \in DOMAIN Append(toRover[r], id) :
             \/ i \in DOMAIN toRover[r] /\ Append(toRover[r], id)[i] = toRover[r][i]
             \/ i = Len(toRover[r]) + 1 /\ Append(toRover[r], id)[i] = id
      BY <2>4
    <3> QED BY <3>1, <3>2
  <2> QED BY <2>1, <2>2, <2>5 DEF TakenOnce
<1>3. ASSUME UNCHANGED <<toRover, outcome>> PROVE TakenOnce'
  BY <1>3 DEF TakenOnce
<1> QED
  BY <1>1, <1>2, <1>3
  DEF Next, Dial, SendHello, RunEnds, RoverdRestarts, StreamFrame, ForwardFrame,
      Receive, Closed, Cut, ServerRestarts, vars

\* Acknowledgements, on their way and passed on.  A command that is still to be
\* taken has come to nothing yet, so an outcome is never changed.
LEMMA AckStep ==
    TypeOK /\ TakenOnce /\ AcksInFlight /\ ToldIsTrue /\ [Next]_vars
        => AcksInFlight' /\ ToldIsTrue'
<1> SUFFICES ASSUME TypeOK, TakenOnce, AcksInFlight, ToldIsTrue, [Next]_vars
             PROVE  AcksInFlight' /\ ToldIsTrue'
  OBVIOUS
<1> DEFINE Kept == \A id \in Commands : outcome[id] # "none" => outcome'[id] = outcome[id]
           True(m) == m.type = "ack" => m.status = outcome'[m.id]
<1>0. \A d \in Conns : \A i \in DOMAIN toServer[d] : toServer[d][i] \in Message
  BY DEF TypeOK
<1>1. ASSUME Kept, NEW c \in Conns, NEW m \in Message, Send(c, m), True(m)
      PROVE  AcksInFlight'
  <2>1. \A d \in Conns : \A i \in DOMAIN toServer[d] : True(toServer[d][i])
    BY <1>0, <1>1 DEF AcksInFlight, Message, Statuses
  <2>2. \A d \in Conns : \A i \in DOMAIN toServer'[d] :
           \/ i \in DOMAIN toServer[d] /\ toServer'[d][i] = toServer[d][i]
           \/ toServer'[d][i] = m
    BY <1>1, SendTypes
  <2> HIDE DEF Kept
  <2> QED BY <1>1, <2>1, <2>2 DEF AcksInFlight
<1>2. ASSUME outcome' = outcome, toServer' = toServer
      PROVE  AcksInFlight'
  BY <1>2 DEF AcksInFlight
<1>3. CASE ReadCommand
  <2> DEFINE id == Head(toRover[roverd.conn])
  <2>1. roverd.conn \in Conns /\ toRover[roverd.conn] # <<>>
    BY <1>3 DEF ReadCommand, TypeOK, RoverdState, NoConn
  <2>2. id \in Commands /\ outcome[id] = "none"
    <3>1. toRover[roverd.conn] \in Seq(Commands) /\ Len(toRover[roverd.conn]) > 0
      BY <2>1 DEF TypeOK
    <3>2. 1 \in DOMAIN toRover[roverd.conn] /\ id = toRover[roverd.conn][1]
      BY <3>1
    <3> QED BY <2>1, <3>2, HeadOfCommands DEF TakenOnce
  <2> HIDE DEF id
  <2>3. /\ Kept /\ told' = told
        /\ \/ UNCHANGED toServer
           \/ \E status \in Statuses :
                 outcome'[id] = status /\ Send(roverd.conn, Ack(id, status))
    BY <1>3, <2>2 DEF ReadCommand, TypeOK, id
  <2>4. AcksInFlight'
    <3>1. CASE UNCHANGED toServer
      BY <1>0, <2>3, <3>1 DEF AcksInFlight, Message, Statuses
    <3>2. ASSUME NEW status \in Statuses, outcome'[id] = status,
                 Send(roverd.conn, Ack(id, status))
          PROVE  AcksInFlight'
      <4>1. Ack(id, status) \in Message /\ True(Ack(id, status))
        BY <2>2, <3>2, MessagesAreMessages DEF Ack
      <4> HIDE DEF Kept, True
      <4> QED BY <1>1, <2>1, <2>3, <3>2, <4>1
    <3> QED BY <2>3, <3>1, <3>2
  <2> QED BY <2>3, <2>4 DEF ToldIsTrue
<1>4. CASE SendHello
  <2>1. roverd.conn \in Conns
    BY <1>4 DEF SendHello, TypeOK, RoverdState, NoConn
  <2>2. AcksInFlight'
    BY <1>1, <1>4, <2>1, MessagesAreMessages DEF SendHello, Hello
  <2> QED BY <1>4, <2>2 DEF SendHello, ToldIsTrue
<1>5. ASSUME NEW c \in Conns, ForwardFrame(c) PROVE AcksInFlight' /\ ToldIsTrue'
  <2>1. CASE Send(c, Sensor)
    <3>1. AcksInFlight'
      BY <1>1, <1>5, <2>1, MessagesAreMessages DEF ForwardFrame, Sensor
    <3> QED BY <1>5, <3>1 DEF ForwardFrame, ToldIsTrue
  <2>2. CASE UNCHANGED toServer
    BY <1>2, <1>5, <2>2 DEF ForwardFrame, ToldIsTrue
  <2> QED BY <1>5, <2>1, <2>2 DEF ForwardFrame
<1>6. ASSUME NEW c \in Conns, Receive(c) PROVE AcksInFlight' /\ ToldIsTrue'
  <2> DEFINE m == Head(toServer[c])
  <2>1. outcome' = outcome
    BY <1>6 DEF Receive
  <2>2. AcksInFlight'
    <3>1. \A d \in Conns : \A i \in DOMAIN toServer'[d] :
             \E j \in DOMAIN toServer[d] : toServer'[d][i] = toServer[d][j]
      BY <1>6, TailInFlight DEF Receive
    <3> QED BY <2>1, <3>1 DEF AcksInFlight
  <2>3. m \in Message /\ (m.type = "ack" => m.status = outcome[m.id])
    <3>1. /\ m \in Message /\ m = toServer[c][1] /\ 1 \in DOMAIN toServer[c]
      BY <1>6, TailInFlight DEF Receive
    <3> HIDE DEF m
    <3> QED BY <3>1 DEF AcksInFlight
  <2>4. \/ told' = told
        \/ m.type = "ack" /\ told' = [told EXCEPT ![m.id] = m.status]
    BY <1>6 DEF Receive, HandleMessage
  <2> HIDE DEF m
  <2>5. m.type = "ack" => m.id \in Commands
    BY <2>3 DEF Message
  <2> QED BY <2>1, <2>2, <2>3, <2>4, <2>5 DEF ToldIsTrue, TypeOK
<1>7. ASSUME NEW c \in Conns, Cut(c) PROVE AcksInFlight' /\ ToldIsTrue'
  BY <1>7 DEF Cut, AcksInFlight, ToldIsTrue, TypeOK
<1>8. ASSUME UNCHANGED <<outcome, told, toServer>>
      PROVE  AcksInFlight' /\ ToldIsTrue'
  BY <1>2, <1>8 DEF ToldIsTrue
<1> QED
  BY <1>3, <1>4, <1>5, <1>6, <1>7, <1>8
  DEF Next, Dial, RunEnds, RoverdRestarts, StreamFrame, Closed, IssueCommand,
      ServerRestarts, vars

-----------------------------------------------------------------------------
\* The inductive invariant of the link.
THEOREM LinkInvariant == Spec => []LinkInv
<1>1. LinkInv /\ [Next]_vars => LinkInv'
  BY TypeStep, DialledStep, RecordStep, ClashStep, AloneStep, TakenStep,
     AckStep DEF LinkInv
<1> QED BY LinkInit, <1>1, PTL DEF Spec

\* The server commands only a websocket that is open and said hello
\* (record.ws, against every order of hellos and closes).
THEOREM RecordStaysOpen == Spec => []RecordIsOpen
BY LinkInvariant, PTL DEF LinkInv

\* A commandAck says what the dispatch of its command came to, be it ok or error
\* (handleAck, readLoop).
THEOREM AcksAreTrue == Spec => []ToldIsTrue
BY LinkInvariant, PTL DEF LinkInv

\* A rover goes missing from the list only after the server knew it by two
\* websockets at once; otherwise it is listed until its websocket closes.
THEOREM AloneStaysListed == Spec => []AloneIsListed
BY LinkInvariant, PTL DEF LinkInv

-----------------------------------------------------------------------------
(* The daemon.  RoverdInv is inductive: the connection and the disconnect  *)
(* timer change in MarkConnected, MarkDisconnected, the timer's own steps  *)
(* and DaemonTick; the other steps leave them alone.                       *)

LEMMA RoverdInit == DaemonInit => RoverdInv
<1> SUFFICES ASSUME DaemonInit PROVE RoverdInv
  OBVIOUS
<1>1. /\ 1 \in 1 .. 2 * RetryCap /\ 0 \in 0 .. 2 * RetryCap
      /\ 0 \in 0 .. SeekDelay /\ 0 \in 0 .. TtsSlots /\ 0 \in 0 .. MaxRuns
      /\ 0 <= MaxSamples
  BY RoverdConstants
<1>2. run \in RunState /\ seek \in SeekState /\ tts \in TtsState
  BY <1>1 DEF DaemonInit, RunState, SeekState, TtsState
<1>3. charge \in ChargeState /\ Len(charge.samples) <= MaxSamples
  BY <1>1 DEF DaemonInit, ChargeState, Docks
<1>4. NeverEarly
  BY DEF DaemonInit, NeverEarly, NoTimer, Fired
<1> QED BY <1>1, <1>2, <1>3, <1>4 DEF DaemonInit, RoverdInv, DaemonTypeOK, Docks

-----------------------------------------------------------------------------
\* The connection and its timer.
SeekOK == seek \in SeekState /\ held \in 0 .. SeekDelay /\ NeverEarly

LEMMA MarkConnectedKeeps ==
    ASSUME SeekOK, MarkConnected
    PROVE  SeekOK' /\ seek'.connected
<1>1. seek' \in SeekState /\ seek'.connected /\ seek'.timer = NoTimer
  BY DEF MarkConnected, SeekOK, SeekState
<1>2. held' \in 0 .. SeekDelay
  BY RoverdConstants DEF MarkConnected, SeekOK
<1> QED BY <1>1, <1>2, RoverdConstants DEF SeekOK, NeverEarly, NoTimer, Fired

LEMMA MarkDisconnectedKeeps ==
    ASSUME SeekOK, MarkDisconnected
    PROVE  SeekOK' /\ ~seek'.connected
<1>1. /\ seek.timer \in {NoTimer, Fired} \cup 0 .. SeekDelay
      /\ held \in 0 .. SeekDelay /\ SeekDelay \in 0 .. SeekDelay
  BY RoverdConstants DEF SeekOK, SeekState
<1>2. /\ seek' \in SeekState /\ ~seek'.connected
      /\ seek'.timer = IF seek.timer = NoTimer THEN SeekDelay ELSE seek.timer
      /\ held' = IF seek.connected THEN 0 ELSE held
  BY <1>1 DEF MarkDisconnected, SeekOK, SeekState
<1>3. NeverEarly'
  BY <1>1, <1>2, RoverdConstants DEF SeekOK, NeverEarly, NoTimer, Fired
<1> QED BY <1>1, <1>2, <1>3, RoverdConstants DEF SeekOK

LEMMA CallbackKeeps ==
    ASSUME SeekOK, TimerFires \/ CheckTimeout \/ SeekDock
    PROVE  SeekOK' /\ seek'.connected = seek.connected
<1>1. CASE TimerFires
  <2>1. /\ seek' \in SeekState /\ seek'.connected = seek.connected
        /\ seek.timer = 0 /\ seek'.timer = Fired /\ held' = held
    BY <1>1 DEF TimerFires, SeekOK, SeekState
  <2> QED BY <2>1, RoverdConstants DEF SeekOK, NeverEarly, NoTimer, Fired
<1>2. CASE CheckTimeout \/ SeekDock
  <2>1. /\ seek' \in SeekState /\ seek'.connected = seek.connected
        /\ seek'.timer = seek.timer /\ held' = held
    BY <1>2 DEF CheckTimeout, SeekDock, SeekOK, SeekState
  <2> QED BY <2>1 DEF SeekOK, NeverEarly
<1> QED BY <1>1, <1>2

LEMMA TickKeeps ==
    ASSUME SeekOK, DaemonTick
    PROVE  SeekOK' /\ seek'.connected = seek.connected
<1>1. /\ seek.timer \in {NoTimer, Fired} \cup 0 .. SeekDelay /\ seek.timer # 0
      /\ held \in 0 .. SeekDelay
  BY DEF SeekOK, SeekState, DaemonTick
<1>2. /\ seek'.timer = IF seek.timer > 0 THEN seek.timer - 1 ELSE seek.timer
      /\ seek'.connected = seek.connected
      /\ held' = IF held < SeekDelay THEN held + 1 ELSE held
  BY DEF SeekOK, SeekState, DaemonTick
<1>3. /\ seek'.timer \in {NoTimer, Fired} \cup 0 .. SeekDelay
      /\ held' \in 0 .. SeekDelay
  BY <1>1, <1>2, RoverdConstants DEF NoTimer, Fired
<1>4. seek' \in SeekState
  BY <1>3 DEF SeekOK, SeekState, DaemonTick
<1>5. NeverEarly'
  BY <1>1, <1>2, <1>3, RoverdConstants DEF SeekOK, NeverEarly, NoTimer, Fired
<1> QED BY <1>2, <1>3, <1>4, <1>5 DEF SeekOK

-----------------------------------------------------------------------------
\* The rest of the state.
LEMMA RunChanges ==
    ASSUME run \in RunState
    PROVE  /\ \A p \in {"dial", "hello", "loop", "sleep"} :
                 [run EXCEPT !.phase = p] \in RunState
           /\ [run EXCEPT !.phase = "sleep", !.wait = run.delay] \in RunState
           /\ [run EXCEPT !.phase = "dial",
                          !.delay = IF @ < RetryCap THEN 2 * @ ELSE @] \in RunState
           /\ [run EXCEPT !.wait = IF @ > 0 THEN @ - 1 ELSE @] \in RunState
<1>1. /\ run.delay \in 1 .. 2 * RetryCap /\ run.wait \in 0 .. 2 * RetryCap
      /\ RetryCap \in Nat
  BY RoverdConstants DEF RunState
<1>2. /\ (IF run.delay < RetryCap THEN 2 * run.delay ELSE run.delay) \in 1 .. 2 * RetryCap
      /\ (IF run.wait > 0 THEN run.wait - 1 ELSE run.wait) \in 0 .. 2 * RetryCap
      /\ run.delay \in 0 .. 2 * RetryCap
  BY <1>1
<1> QED BY <1>1, <1>2 DEF RunState

\* The queue and the workers.
LEMMA TtsChanges ==
    ASSUME tts \in TtsState, tts.speaking <= tts.workers
    PROVE  /\ tts.workers < MaxRuns => [tts EXCEPT !.workers = @ + 1] \in TtsState
           /\ tts.queue < TtsSlots => [tts EXCEPT !.queue = @ + 1] \in TtsState
           /\ tts.queue > 0 /\ tts.speaking < tts.workers =>
                 [tts EXCEPT !.queue = @ - 1, !.speaking = @ + 1] \in TtsState
           /\ tts.speaking > 0 => [tts EXCEPT !.speaking = @ - 1] \in TtsState
<1>1. /\ tts.queue \in 0 .. TtsSlots /\ tts.workers \in 0 .. MaxRuns
      /\ tts.speaking \in 0 .. MaxRuns
  BY DEF TtsState
<1>2. /\ tts.workers < MaxRuns => tts.workers + 1 \in 0 .. MaxRuns
      /\ tts.queue < TtsSlots => tts.queue + 1 \in 0 .. TtsSlots
      /\ tts.queue > 0 => tts.queue - 1 \in 0 .. TtsSlots
      /\ tts.speaking < tts.workers => tts.speaking + 1 \in 0 .. MaxRuns
      /\ tts.speaking > 0 => tts.speaking - 1 \in 0 .. MaxRuns
  BY <1>1, RoverdConstants
<1> QED BY <1>2 DEF TtsState

LEMMA ChargeChanges ==
    ASSUME DaemonTypeOK, [DaemonNext]_daemonVars
    PROVE  charge' \in ChargeState /\ Len(charge'.samples) <= MaxSamples
<1>0. /\ charge.samples \in Seq(Docks) /\ Len(charge.samples) <= MaxSamples
      /\ charge.since \in {NoTimer} \cup 0 .. ChargeTimeout /\ dock \in Docks
  BY DEF DaemonTypeOK, ChargeState
<1>1. CASE StreamSample
  <2>1. charge' = [samples |-> Append(charge.samples, dock), since |-> charge.since]
    BY <1>1 DEF StreamSample, DaemonTypeOK, ChargeState
  <2>2. /\ Append(charge.samples, dock) \in Seq(Docks)
        /\ Len(Append(charge.samples, dock)) = Len(charge.samples) + 1
        /\ Len(charge.samples) \in Nat
    BY <1>0
  <2>3. Len(charge'.samples) <= MaxSamples
    BY <1>1, <2>1, <2>2, RoverdConstants DEF StreamSample
  <2> QED BY <1>0, <2>1, <2>2, <2>3 DEF ChargeState
<1>2. CASE ProcessSample
  <2>1. /\ Tail(charge.samples) \in Seq(Docks)
        /\ Len(Tail(charge.samples)) = Len(charge.samples) - 1
        /\ Len(charge.samples) \in Nat
    BY <1>0, <1>2 DEF ProcessSample
  <2>2. ChargeTimer(Head(charge.samples)) \in {NoTimer} \cup 0 .. ChargeTimeout
    BY <1>0, RoverdConstants DEF ChargeTimer
  <2>3. charge' = [samples |-> Tail(charge.samples),
                   since   |-> ChargeTimer(Head(charge.samples))]
    BY <1>2 DEF ProcessSample
  <2>4. Len(charge'.samples) <= MaxSamples
    BY <1>0, <2>1, <2>3, RoverdConstants
  <2> QED BY <2>1, <2>2, <2>3, <2>4 DEF ChargeState
<1>3. CASE DaemonTick
  <2>1. (IF charge.since \in 0 .. ChargeTimeout - 1 THEN charge.since + 1
         ELSE charge.since) \in {NoTimer} \cup 0 .. ChargeTimeout
    BY <1>0, RoverdConstants DEF NoTimer
  <2>2. charge' = [samples |-> charge.samples,
                   since   |-> IF charge.since \in 0 .. ChargeTimeout - 1
                               THEN charge.since + 1 ELSE charge.since]
    BY <1>3 DEF DaemonTick, DaemonTypeOK, ChargeState
  <2> QED BY <1>0, <2>1, <2>2 DEF ChargeState
<1>4. CASE UNCHANGED charge
  BY <1>4 DEF DaemonTypeOK
<1> QED
  BY <1>1, <1>2, <1>3, <1>4
  DEF DaemonNext, DialSucceeds, HelloSent, RunReturns, Retry, TimerFires, CheckTimeout,
      SeekDock, EnqueueTTS, TakeTTS, SpeechEnds, RobotMoves, daemonVars

-----------------------------------------------------------------------------
LEMMA RoverdStep == RoverdInv /\ [DaemonNext]_daemonVars => RoverdInv'
<1> SUFFICES ASSUME RoverdInv, [DaemonNext]_daemonVars PROVE RoverdInv'
  OBVIOUS
<1>0. /\ DaemonTypeOK /\ SeekOK /\ run \in RunState /\ tts \in TtsState
      /\ tts.speaking <= tts.workers /\ dock \in Docks
      /\ tts.queue \in Int /\ tts.workers \in Int /\ tts.speaking \in Int
      /\ run.phase = "hello" => tts.workers < MaxRuns
      /\ seek.connected <=> run.phase \in {"hello", "loop"}
  BY DEF RoverdInv, DaemonTypeOK, SeekOK, TtsState
<1> DEFINE Rest == /\ run' \in RunState /\ tts' \in TtsState
                   /\ tts'.speaking <= tts'.workers /\ dock' \in Docks
                   /\ run'.phase = "hello" => tts'.workers < MaxRuns
                   /\ seek'.connected <=> run'.phase \in {"hello", "loop"}
<1>1. SUFFICES SeekOK' /\ Rest
  BY <1>0, ChargeChanges DEF RoverdInv, DaemonTypeOK, SeekOK
<1>2. CASE DialSucceeds
  BY <1>0, <1>2, MarkConnectedKeeps, RunChanges DEF DialSucceeds, RunState
<1>3. CASE HelloSent
  <2>1. /\ run' = [run EXCEPT !.phase = "loop"]
        /\ tts' = [tts EXCEPT !.workers = @ + 1] /\ tts.workers < MaxRuns
        /\ UNCHANGED <<seek, held, dock>> /\ seek.connected
    BY <1>0, <1>3 DEF HelloSent
  <2>2. run' \in RunState /\ run'.phase = "loop"
    BY <1>0, <2>1, RunChanges DEF RunState
  <2>3. tts' \in TtsState /\ tts'.speaking <= tts'.workers
    BY <1>0, <2>1, TtsChanges DEF TtsState
  <2> QED BY <1>0, <2>1, <2>2, <2>3 DEF SeekOK, NeverEarly
<1>4. CASE RunReturns
  BY <1>0, <1>4, MarkDisconnectedKeeps, RunChanges DEF RunReturns, RunState
<1>5. CASE Retry
  BY <1>0, <1>5, RunChanges DEF Retry, SeekOK, NeverEarly, RunState
<1>6. CASE TimerFires \/ CheckTimeout \/ SeekDock
  BY <1>0, <1>6, CallbackKeeps DEF TimerFires, CheckTimeout, SeekDock
<1>7. CASE StreamSample \/ ProcessSample \/ RobotMoves
  BY <1>0, <1>7 DEF StreamSample, ProcessSample, RobotMoves, SeekOK, NeverEarly
<1>8. CASE EnqueueTTS \/ TakeTTS \/ SpeechEnds
  <2>1. tts' \in TtsState
    BY <1>0, <1>8, TtsChanges DEF EnqueueTTS, TakeTTS, SpeechEnds
  <2>2. tts'.speaking <= tts'.workers /\ tts'.workers = tts.workers
    <3>1. CASE EnqueueTTS
      BY <1>0, <3>1 DEF EnqueueTTS, TtsState
    <3>2. CASE TakeTTS
      <4>1. tts'.speaking = tts.speaking + 1 /\ tts'.workers = tts.workers
        BY <1>0, <3>2 DEF TakeTTS, TtsState
      <4> QED BY <1>0, <3>2, <4>1 DEF TakeTTS
    <3>3. CASE SpeechEnds
      <4>1. tts'.speaking = tts.speaking - 1 /\ tts'.workers = tts.workers
        BY <1>0, <3>3 DEF SpeechEnds, TtsState
      <4> QED BY <1>0, <4>1
    <3> QED BY <1>8, <3>1, <3>2, <3>3
  <2>3. UNCHANGED <<run, seek, held, dock>>
    BY <1>8 DEF EnqueueTTS, TakeTTS, SpeechEnds
  <2> QED BY <1>0, <2>1, <2>2, <2>3 DEF SeekOK, NeverEarly
<1>9. CASE DaemonTick
  BY <1>0, <1>9, TickKeeps, RunChanges DEF DaemonTick, RunState
<1>10. CASE UNCHANGED daemonVars
  BY <1>0, <1>10 DEF daemonVars, SeekOK, NeverEarly
<1> QED
  BY <1>2, <1>3, <1>4, <1>5, <1>6, <1>7, <1>8, <1>9, <1>10 DEF DaemonNext

-----------------------------------------------------------------------------
THEOREM RoverdInvariant == DaemonSpec => []RoverdInv
BY RoverdInit, RoverdStep, PTL DEF DaemonSpec

\* The disconnect timer of wsclient.go never comes due early, for every delay,
\* every pattern of retries and every number of connections.
THEOREM TimerNeverEarly == DaemonSpec => []NeverEarly
BY RoverdInvariant, PTL DEF RoverdInv

-----------------------------------------------------------------------------
(* The lock of the battery, as batteryManager and roverManager keep it     *)
(* between them.  ManualLockStands is no invariant's consequence until     *)
(* ManualKnown is added: a manual lock is safe from UnlockAfterCharge only *)
(* because the listener of the lock cleared batteryLocked when the admin   *)
(* locked.                                                                 *)

USE BatteryConstants

\* The part of the invariant that speaks of the server's state alone.
Consistent(s) ==
    /\ s \in BatteryState
    /\ s.locked <=> s.reason # "none"
    /\ ~s.online => ~s.locked /\ s.reported = "none"
    /\ s.reason = "battery" => s.batteryLocked
    /\ s.reason = "manual" => ~s.batteryLocked

LEMMA InvIsConsistent ==
    LockInv <=> /\ Consistent(b)
                /\ reading \in Readings /\ level \in Levels
                /\ manual \in 0..MaxManual /\ lowSeen \in BOOLEAN
BY DEF LockInv, BatteryTypeOK, LockKnown, ManualKnown, Consistent

\* lockRover, with the listener it triggers, leaves the lock consistent,
\* whatever it was.
LEMMA LockRoverConsistent ==
    ASSUME NEW s \in BatteryState, s.online, NEW locked \in BOOLEAN,
           NEW reason \in {"manual", "battery"}
    PROVE  /\ Consistent(LockRover(s, locked, reason))
           /\ LockRover(s, locked, reason).online
           /\ LockRover(s, locked, reason).waited \in {s.waited, NotWaiting}
           /\ LockRover(s, locked, reason).locked = locked
           /\ LockRover(s, locked, reason).batteryLocked
                = (locked /\ reason = "battery")
           /\ LockRover(s, locked, reason).reason
                = IF locked THEN reason ELSE "none"
<1> DEFINE set == [s EXCEPT !.locked = locked,
                            !.reason = IF locked THEN reason ELSE "none"]
<1>1. /\ set \in BatteryState
      /\ set.locked = locked /\ set.online
      /\ set.reason = IF locked THEN reason ELSE "none"
      /\ set.waited = s.waited
  BY DEF BatteryState
<1>2. LockRover(s, locked, reason) = HandleLock(set)
  BY DEF LockRover
<1> HIDE DEF set
<1>3. CASE locked
  <2>1. HandleLock(set) = [set EXCEPT !.batteryLocked = set.reason = "battery"]
    BY <1>1, <1>3 DEF HandleLock
  <2>2. /\ HandleLock(set) \in BatteryState
        /\ HandleLock(set).locked = set.locked /\ HandleLock(set).online = set.online
        /\ HandleLock(set).reason = set.reason /\ HandleLock(set).waited = set.waited
        /\ HandleLock(set).reported = set.reported
        /\ HandleLock(set).batteryLocked = (set.reason = "battery")
    BY <1>1, <2>1 DEF BatteryState
  <2> QED BY <1>1, <1>2, <1>3, <2>2, Zenon DEF Consistent
<1>4. CASE ~locked
  <2>1. HandleLock(set) = [set EXCEPT !.batteryLocked = FALSE, !.waited = NotWaiting]
    BY <1>1, <1>4 DEF HandleLock
  <2>2. /\ HandleLock(set) \in BatteryState
        /\ HandleLock(set).locked = set.locked /\ HandleLock(set).online = set.online
        /\ HandleLock(set).reason = set.reason /\ HandleLock(set).waited = NotWaiting
        /\ HandleLock(set).reported = set.reported
        /\ HandleLock(set).batteryLocked = FALSE
    BY <1>1, <2>1 DEF BatteryState
  <2> QED BY <1>1, <1>2, <1>4, <2>2, Zenon DEF Consistent
<1> QED BY <1>3, <1>4

\* A sensor frame keeps the lock consistent, and an admin's lock in place.
LEMMA HandleSensorConsistent ==
    ASSUME NEW s, Consistent(s), s.online,
           NEW r \in Readings, NEW l \in Levels
    PROVE  /\ Consistent(HandleSensor(s, r, l))
           /\ s.reason = "manual" => /\ HandleSensor(s, r, l).locked
                                     /\ HandleSensor(s, r, l).reason = "manual"
<1> DEFINE d == Decode(s, r, l)
           o == Observe(d, r)
           k == LockForCharging(o, r)
<1>1. /\ Consistent(d) /\ d.online
      /\ d.reason = s.reason
  BY DEF Consistent, Decode, BatteryState
<1> HIDE DEF d
<1>2. /\ Consistent(o) /\ o.online
      /\ o.reason = s.reason
  <2> DEFINE warned == d.warned \/ d.reported = "low"
             waited == IF ~Waiting(r) THEN NotWaiting
                       ELSE IF d.waited = NotWaiting THEN 0 ELSE d.waited
  <2>1. warned \in BOOLEAN
    OBVIOUS
  <2>2. waited \in {NotWaiting} \cup 0..WaitUnlock
    BY <1>1 DEF Consistent, BatteryState, NotWaiting
  <2>3. o = [d EXCEPT !.warned = warned, !.waited = waited]
    BY DEF Observe
  <2> HIDE DEF warned, waited, o
  <2> QED BY <1>1, <2>1, <2>2, <2>3 DEF Consistent, BatteryState
<1> HIDE DEF o
<1>3. /\ Consistent(k) /\ k.online
      /\ s.reason = "manual" => k = o
  <2>1. CASE k = o
    BY <1>2, <2>1
  <2>2. CASE k # o
    <3> DEFINE locked == LockRover(o, TRUE, "battery")
    <3>1. k = [locked EXCEPT !.batteryLocked = TRUE] /\ o.reason # "manual"
      BY <2>2 DEF LockForCharging
    <3>2. o \in BatteryState
      BY <1>2 DEF Consistent
    <3>3. /\ Consistent(locked) /\ locked.online
          /\ locked.reason = "battery" /\ locked.locked
      BY <1>2, <3>2, LockRoverConsistent
    <3> HIDE DEF locked
    <3> QED BY <1>2, <3>1, <3>3 DEF Consistent, BatteryState
  <2> QED BY <2>1, <2>2
<1> HIDE DEF k
<1>4. HandleSensor(s, r, l) = UnlockAfterCharge(k)
  BY DEF HandleSensor, k, o, d
<1>5. CASE k.batteryLocked /\ WaitedLongEnough(k)
  <2> DEFINE freed == LockRover(k, FALSE, "battery")
  <2>1. UnlockAfterCharge(k) = [freed EXCEPT !.batteryLocked = FALSE,
                                    !.warned = FALSE, !.waited = NotWaiting]
    BY <1>5 DEF UnlockAfterCharge
  <2>2. k \in BatteryState
    BY <1>3 DEF Consistent
  <2>3. Consistent(freed) /\ freed.online /\ freed.reason = "none"
    BY <1>3, <2>2, LockRoverConsistent
  <2> HIDE DEF freed
  <2>4. Consistent(UnlockAfterCharge(k))
    BY <2>1, <2>3 DEF Consistent, BatteryState, NotWaiting
  <2>5. s.reason # "manual"
    BY <1>2, <1>3, <1>5 DEF Consistent
  <2> QED BY <1>4, <2>4, <2>5
<1>6. CASE ~(k.batteryLocked /\ WaitedLongEnough(k))
  <2>1. UnlockAfterCharge(k) = k
    BY <1>6 DEF UnlockAfterCharge
  <2> QED BY <1>2, <1>3, <1>4, <2>1 DEF Consistent
<1> QED BY <1>5, <1>6

LEMMA LockInit == BatteryInit => LockInv
<1> SUFFICES ASSUME BatteryInit PROVE LockInv
  OBVIOUS
<1>1. b \in BatteryState
  BY DEF BatteryInit, BatteryState
<1>2. Consistent(b)
  BY <1>1 DEF BatteryInit, Consistent
<1>3. reading \in Readings /\ level \in Levels
  BY DEF BatteryInit, Readings, Levels
<1>4. manual \in 0..MaxManual
  BY DEF BatteryInit
<1>5. lowSeen \in BOOLEAN
  BY DEF BatteryInit
<1> QED BY <1>2, <1>3, <1>4, <1>5, InvIsConsistent

LEMMA BatteryStep == LockInv /\ [BatteryNext]_batteryVars => LockInv'
<1> SUFFICES ASSUME LockInv, [BatteryNext]_batteryVars PROVE LockInv'
  OBVIOUS
<1>0. /\ Consistent(b) /\ b \in BatteryState
      /\ reading \in Readings /\ level \in Levels
      /\ manual \in 0..MaxManual /\ lowSeen \in BOOLEAN
  BY InvIsConsistent DEF Consistent
<1>1. SUFFICES /\ Consistent(b')
               /\ reading' \in Readings /\ level' \in Levels
               /\ manual' \in 0..MaxManual /\ lowSeen' \in BOOLEAN
  BY DEF LockInv, BatteryTypeOK, LockKnown, ManualKnown, Consistent
<1>2. CASE SensorFrame
  BY <1>0, <1>2, HandleSensorConsistent DEF SensorFrame
<1>3. ASSUME NEW locked \in BOOLEAN, ManualLock(locked) PROVE Consistent(b') /\ manual' \in 0..MaxManual
  BY <1>0, <1>3, LockRoverConsistent DEF ManualLock
<1>4. CASE RoverHello
  BY <1>0, <1>4 DEF RoverHello, NewRecord, Consistent, BatteryState
<1>5. CASE RemoveRover
  BY <1>0, <1>5 DEF RemoveRover, NewRecord, Consistent, BatteryState
<1>6. CASE RoverChanges
  BY <1>0, <1>6 DEF RoverChanges
<1>7. CASE BatteryTick
  BY <1>0, <1>7 DEF BatteryTick, Consistent, BatteryState, NotWaiting
<1>8. CASE UNCHANGED batteryVars
  BY <1>0, <1>8 DEF batteryVars
<1> QED
  BY <1>0, <1>2, <1>3, <1>4, <1>5, <1>6, <1>7, <1>8 DEF BatteryNext, ManualLock

-----------------------------------------------------------------------------
\* The inductive invariant: types, and who holds the lock.
THEOREM BatteryInvariant == BatterySpec => []LockInv
BY LockInit, BatteryStep, PTL DEF BatterySpec

\* A rover locked for its battery is known to the manager as locked by it, so
\* its unlocking is never lost.
THEOREM LockIsKnown == BatterySpec => []LockKnown
BY BatteryInvariant, PTL DEF LockInv

\* No sensor frame lifts the lock of an admin.
THEOREM ManualLockIsKept == BatterySpec => ManualLockStands
<1>1. LockInv /\ [BatteryNext]_batteryVars =>
        [SensorFrame /\ b.reason = "manual" => b'.locked /\ b'.reason = "manual"]_batteryVars
  <2> SUFFICES ASSUME LockInv, SensorFrame, b.reason = "manual"
               PROVE  b'.locked /\ b'.reason = "manual"
    OBVIOUS
  <2>1. Consistent(b) /\ reading \in Readings /\ level \in Levels
    BY InvIsConsistent
  <2> QED BY <2>1, HandleSensorConsistent DEF SensorFrame
<1> QED BY <1>1, BatteryInvariant, PTL DEF BatterySpec, ManualLockStands

-----------------------------------------------------------------------------
(* The warning, which the manager must have seen before it locks.          *)

LEMMA LockRoverKeeps ==
    ASSUME NEW s \in BatteryState, NEW locked \in BOOLEAN,
           NEW reason \in {"manual", "battery"}
    PROVE  /\ LockRover(s, locked, reason).warned = s.warned
           /\ LockRover(s, locked, reason).reported = s.reported
<1> DEFINE set == [s EXCEPT !.locked = locked,
                            !.reason = IF locked THEN reason ELSE "none"]
           known == set.reason = "battery"
<1>1. LockRover(s, locked, reason) = HandleLock(set)
  BY DEF LockRover
<1>2. set \in BatteryState /\ set.warned = s.warned /\ set.reported = s.reported
  BY DEF BatteryState
<1>3. HandleLock(set) \in {[set EXCEPT !.batteryLocked = known],
                          [set EXCEPT !.batteryLocked = FALSE, !.waited = NotWaiting]}
  BY DEF HandleLock
<1> HIDE DEF set, known
<1>4. \A f \in {[set EXCEPT !.batteryLocked = known],
                [set EXCEPT !.batteryLocked = FALSE, !.waited = NotWaiting]} :
          f.warned = set.warned /\ f.reported = set.reported
  BY <1>2 DEF BatteryState
<1> QED BY <1>1, <1>2, <1>3, <1>4

\* A frame warns only if the battery is low, locks only if the manager has
\* been warned, and unlocks only with the warning gone.
LEMMA HandleSensorWarns ==
    ASSUME NEW s, Consistent(s), s.online,
           NEW r \in Readings, NEW l \in Levels
    PROVE  LET v == HandleSensor(s, r, l)
           IN  /\ v.warned => s.warned \/ v.reported = "low"
               /\ v.reason = "battery" /\ s.reason # "battery"
                    => s.warned \/ v.reported = "low"
               /\ s.reason = "battery" /\ ~v.locked => ~v.warned
<1> DEFINE d == Decode(s, r, l)
           o == Observe(d, r)
           k == LockForCharging(o, r)
<1>1. Consistent(d) /\ d.online /\ d.reason = s.reason /\ d.warned = s.warned
  BY DEF Consistent, Decode, BatteryState
<1> HIDE DEF d
<1>2. /\ o \in BatteryState /\ o.online
      /\ o.locked = d.locked /\ o.reason = s.reason /\ o.reported = d.reported
      /\ o.warned <=> d.warned \/ d.reported = "low"
  <2> DEFINE warned == d.warned \/ d.reported = "low"
             waited == IF ~Waiting(r) THEN NotWaiting
                       ELSE IF d.waited = NotWaiting THEN 0 ELSE d.waited
  <2>1. warned \in BOOLEAN
    OBVIOUS
  <2>2. waited \in {NotWaiting} \cup 0..WaitUnlock
    BY <1>1 DEF Consistent, BatteryState, NotWaiting
  <2>3. o = [d EXCEPT !.warned = warned, !.waited = waited]
    BY DEF Observe
  <2>4. d \in BatteryState
    BY <1>1 DEF Consistent
  <2> HIDE DEF waited, o
  <2> QED BY <1>1, <2>1, <2>2, <2>3, <2>4 DEF BatteryState
<1> HIDE DEF o
<1>3. /\ k \in BatteryState /\ k.online
      /\ k.warned = o.warned /\ k.reported = o.reported
      /\ k # o => o.warned /\ k.locked /\ k.reason = "battery"
  <2>1. CASE k = o
    BY <1>2, <2>1
  <2>2. CASE k # o
    <3> DEFINE locked == LockRover(o, TRUE, "battery")
    <3>1. k = [locked EXCEPT !.batteryLocked = TRUE] /\ o.warned
      BY <2>2 DEF LockForCharging
    <3>2. /\ Consistent(locked) /\ locked.online
          /\ locked.reason = "battery" /\ locked.locked
          /\ locked.warned = o.warned /\ locked.reported = o.reported
      BY <1>2, LockRoverConsistent, LockRoverKeeps
    <3>3. locked \in BatteryState
      BY <3>2 DEF Consistent
    <3> HIDE DEF locked, k
    <3>4. /\ k \in BatteryState /\ k.warned = locked.warned
          /\ k.reported = locked.reported /\ k.locked = locked.locked
          /\ k.reason = locked.reason /\ k.online = locked.online
      BY <3>1, <3>3 DEF BatteryState
    <3> QED BY <3>1, <3>2, <3>4
  <2> QED BY <2>1, <2>2
<1> HIDE DEF k
<1>4. HandleSensor(s, r, l) = UnlockAfterCharge(k)
  BY DEF HandleSensor, k, o, d
<1>5. CASE k.batteryLocked /\ WaitedLongEnough(k)
  <2> DEFINE freed == LockRover(k, FALSE, "battery")
  <2>1. UnlockAfterCharge(k) = [freed EXCEPT !.batteryLocked = FALSE,
                                    !.warned = FALSE, !.waited = NotWaiting]
    BY <1>5 DEF UnlockAfterCharge
  <2>2. Consistent(freed) /\ freed.reason = "none"
    BY <1>3, LockRoverConsistent
  <2> HIDE DEF freed
  <2>3. ~UnlockAfterCharge(k).warned /\ UnlockAfterCharge(k).reason = "none"
    BY <2>1, <2>2 DEF Consistent, BatteryState
  <2> QED BY <1>4, <2>3
<1>6. CASE ~(k.batteryLocked /\ WaitedLongEnough(k))
  <2>1. UnlockAfterCharge(k) = k
    BY <1>6 DEF UnlockAfterCharge
  <2>2. s.reason = "battery" => k.locked
    BY <1>1, <1>2, <1>3 DEF Consistent
  <2>3. k.warned => s.warned \/ k.reported = "low"
    BY <1>1, <1>2, <1>3
  <2>4. k.reason = "battery" /\ s.reason # "battery" => s.warned \/ k.reported = "low"
    BY <1>1, <1>2, <1>3
  <2> QED BY <1>4, <2>1, <2>2, <2>3, <2>4
<1> QED BY <1>5, <1>6

\* The manager holds a warning only of a battery that was reported low since
\* it last unlocked the rover.
WarnedInv == LockInv /\ (b.warned => lowSeen)

LEMMA WarnedInit == BatteryInit => WarnedInv
BY LockInit DEF BatteryInit, WarnedInv

\* What a step does to the warning, and what a new lock needs.
LEMMA WarnedStep ==
    ASSUME WarnedInv, BatteryNext
    PROVE  /\ b'.warned => lowSeen'
           /\ b'.reason = "battery" /\ b.reason # "battery" => lowSeen'
<1>0. Consistent(b) /\ b \in BatteryState /\ reading \in Readings /\ level \in Levels
  BY InvIsConsistent DEF WarnedInv, Consistent
<1>1. CASE SensorFrame
  <2>1. b.online /\ b' = HandleSensor(b, reading, level)
    BY <1>1 DEF SensorFrame
  <2>2. /\ b'.warned => b.warned \/ b'.reported = "low"
        /\ b'.reason = "battery" /\ b.reason # "battery" => b.warned \/ b'.reported = "low"
        /\ b.reason = "battery" /\ ~b'.locked => ~b'.warned
    BY <1>0, <2>1, HandleSensorWarns
  <2>3. CASE b.reason = "battery" /\ ~b'.locked
    BY <2>2, <2>3
  <2>4. CASE ~(b.reason = "battery" /\ ~b'.locked)
    <3>1. lowSeen' <=> lowSeen \/ b'.reported = "low"
      BY <1>1, <2>4 DEF SensorFrame
    <3> QED BY <2>2, <3>1 DEF WarnedInv
  <2> QED BY <2>3, <2>4
<1>2. ASSUME NEW locked \in BOOLEAN, ManualLock(locked)
      PROVE  b'.warned = b.warned /\ b'.reason # "battery" /\ lowSeen' = lowSeen
  BY <1>0, <1>2, LockRoverConsistent, LockRoverKeeps DEF ManualLock
<1>3. CASE RoverHello \/ RemoveRover \/ RoverChanges \/ BatteryTick
  <2>1. /\ b'.warned = b.warned /\ lowSeen' = lowSeen
        /\ b'.reason \in {b.reason, "none"}
    BY <1>0, <1>3 DEF RoverHello, RemoveRover, RoverChanges, BatteryTick, NewRecord, BatteryState
  <2> QED BY <2>1 DEF WarnedInv
<1> QED BY <1>1, <1>2, <1>3 DEF BatteryNext, WarnedInv

LEMMA WarnedKept == WarnedInv /\ [BatteryNext]_batteryVars => WarnedInv'
<1>1. ASSUME WarnedInv, BatteryNext PROVE WarnedInv'
  BY <1>1, WarnedStep, BatteryStep DEF WarnedInv
<1>2. ASSUME WarnedInv, UNCHANGED batteryVars PROVE WarnedInv'
  BY <1>2, BatteryStep DEF WarnedInv, batteryVars
<1> QED BY <1>1, <1>2

\* A rover that was unlocked after its charge is not locked for its battery
\* again before that is reported low (batteryManager.js unlockAfterCharge).
THEOREM RelockIsEarned == BatterySpec => RelockNeedsLow
<1>1. WarnedInv /\ [BatteryNext]_batteryVars =>
        [b'.reason = "battery" /\ b.reason # "battery" => lowSeen']_batteryVars
  BY WarnedStep DEF batteryVars
<1>2. BatterySpec => []WarnedInv
  BY WarnedInit, WarnedKept, PTL DEF BatterySpec
<1> QED BY <1>1, <1>2, PTL DEF BatterySpec, RelockNeedsLow
=============================================================================
