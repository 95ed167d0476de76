----------------------------- MODULE VideoProofs -----------------------------
(***************************************************************************)
(* What a page is promised of the video it asks for, for every bound on    *)
(* connections, requests and messages in flight.                           *)
(***************************************************************************)
EXTENDS VideoSessions, SequenceTheorems, TLAPS

LEMMA VideoInit == Init => NoRequestLost
<1> SUFFICES ASSUME Init PROVE NoRequestLost
  OBVIOUS
<1> USE DEF Init, None, NoSession, NoAnswer, StartedServer, Requests
<1>1. 0 \in 0 .. MaxRequests /\ 0 \in 0 .. MaxSockets /\ 0 \in 0 .. MaxChanges
  BY VideoConstants
<1>2. NoSession \in Session
  BY DEF Session
<1>3. server \in ServerState /\ page \in PageState /\ tile \in TileState
  BY <1>1, <1>2 DEF ServerState, PageState, TileState, Modes
<1>4. toServer \in Seq(ToServer) /\ toPage \in Seq(ToPage)
  <2>1. [type |-> "setRole", req |-> 0] \in ToServer
    BY DEF ToServer
  <2> QED BY <2>1
<1>5. rendered \in [up : BOOLEAN, session : Session]
  BY <1>2
<1>6. TypeOK
  BY <1>1, <1>3, <1>4, <1>5 DEF TypeOK
<1> QED BY <1>6 DEF NoRequestLost

\* What can be in flight.
LEMMA VideoMessages ==
    /\ [type |-> "setRole", req |-> None] \in ToServer
    /\ \A q \in Requests : [type |-> "video", req |-> q] \in ToServer
    /\ \A m \in ToServer : \/ m.type = "setRole" /\ m.req = None
                           \/ m.type = "video" /\ m.req \in Requests
    /\ \A s \in ServerState : Sync(s) \in ToPage
    /\ \A q \in Requests, ok \in BOOLEAN :
           [type |-> "answer", req |-> q, ok |-> ok] \in ToPage
    /\ \A m \in ToPage :
           \/ m.type = "sync" /\ m.session \in Session
           \/ m.type = "answer" /\ m.req \in Requests /\ m.ok \in BOOLEAN
<1>1. \A s \in ServerState : Sync(s) \in ToPage
  BY DEF ServerState, Sync, ToPage, Session
<1> QED BY <1>1 DEF ToServer, ToPage

\* Who drives the rover is a user that it is assigned to, and there.
DriverFits(s) == s.driver => s.online /\ s.assigned /\ s.role = "user"

\* A page that has rendered with a rover to show has its answer, or will.
Answered ==
    page.conn = "up" /\ ~page.nonced /\ Wanted(rendered.session) =>
        /\ page.latest # None
        /\ page.answer.req = page.latest \/ InFlight(page.latest)

LEMMA ParseNoRequestLost == NoRequestLost <=> TypeOK /\ Answered
BY DEF NoRequestLost, Answered

LEMMA StillInFlight ==
    ASSUME NEW q, TypeOK, InFlight(q),
           toServer' = toServer \/ (\E sent \in Seq(ToServer) : toServer' = toServer \o sent),
           toPage' = toPage \/ (\E m \in ToPage : toPage' = Append(toPage, m))
    PROVE  InFlight(q)'
<1>1. CASE \E i \in DOMAIN toServer : toServer[i].req = q
  <2>1. PICK i \in DOMAIN toServer : toServer[i].req = q
    BY <1>1
  <2>2. toServer \in Seq(ToServer) /\ i \in 1 .. Len(toServer)
    BY <2>1 DEF TypeOK
  <2>3. CASE \E sent \in Seq(ToServer) : toServer' = toServer \o sent
    BY <2>1, <2>2, <2>3 DEF InFlight
  <2>4. CASE toServer' = toServer
    BY <2>1, <2>4 DEF InFlight
  <2> QED BY <2>3, <2>4
<1>2. CASE \E i \in DOMAIN toPage : toPage[i].type = "answer" /\ toPage[i].req = q
  <2>1. PICK i \in DOMAIN toPage : toPage[i].type = "answer" /\ toPage[i].req = q
    BY <1>2
  <2>2. i \in DOMAIN toPage' /\ toPage'[i] = toPage[i]
    BY <2>1 DEF TypeOK
  <2> QED BY <2>1, <2>2 DEF InFlight
<1> QED BY <1>1, <1>2 DEF InFlight

\* A change of the server that is told to the page.
LEMMA ServerChangesKeeps ==
    ASSUME TypeOK, Answered,
           NEW s \in ServerState, DriverFits(s), ServerChanges(s)
    PROVE  TypeOK' /\ Answered'
<1>1. changes' \in 0 .. MaxChanges
  BY VideoConstants DEF ServerChanges, Changed, TypeOK
<1>2. Sync(s) \in ToPage
  BY VideoMessages
<1>3. toPage' = toPage \/ toPage' = Append(toPage, Sync(s))
  BY DEF ServerChanges, Emit
<1>4. toPage' \in Seq(ToPage)
  BY <1>2, <1>3 DEF TypeOK
<1>5. TypeOK'
  BY <1>1, <1>4 DEF TypeOK, ServerChanges, DriverFits
<1>6. InFlight(page.latest) => InFlight(page.latest)'
  BY <1>2, <1>3, StillInFlight DEF ServerChanges
<1> QED BY <1>5, <1>6 DEF Answered, ServerChanges, Wanted

LEMMA Assignable ==
    ASSUME NEW s \in ServerState, DriverFits(s), NEW t \in MaybeAssigned(s)
    PROVE  t \in ServerState /\ DriverFits(t)
BY DEF MaybeAssigned, ServerState, DriverFits

LEMMA SetModeVideoKeeps ==
    ASSUME TypeOK, Answered, NEW m \in Modes, SetMode(m)
    PROVE  TypeOK' /\ Answered'
<1> DEFINE s == [server EXCEPT !.mode = m]
<1>1. s \in ServerState /\ DriverFits(s) /\ server \in ServerState /\ DriverFits(server)
  BY DEF TypeOK, ServerState, DriverFits
<1>2. s.role = server.role /\ s.mode = m
  BY DEF TypeOK, ServerState
<1>3. ASSUME NEW t \in MaybeAssigned(s), ServerChanges(t)
      PROVE  TypeOK' /\ Answered'
  <2> HIDE DEF s
  <2> QED BY <1>1, <1>3, Assignable, ServerChangesKeeps
<1>4. CASE ServerChanges(IF s.role = "user"
                               THEN [s EXCEPT !.assigned = FALSE, !.driver = FALSE] ELSE s)
  <2> DEFINE t == IF s.role = "user" THEN [s EXCEPT !.assigned = FALSE, !.driver = FALSE] ELSE s
  <2>1. t \in ServerState /\ DriverFits(t)
    BY <1>1 DEF ServerState, DriverFits
  <2>2. ServerChanges(t)
    BY <1>4
  <2> HIDE DEF t
  <2> QED BY <2>1, <2>2, ServerChangesKeeps
<1>5. CASE /\ m = "lockdown" /\ Changed
           /\ server' = IF page.conn = "up" THEN NoSocket(s) ELSE s
           /\ page' = [page EXCEPT !.conn = IF @ = "up" THEN "closed" ELSE @]
           /\ UNCHANGED <<view, rendered, tile, net, toServer, toPage, sockets>>
  <2>1. server' \in ServerState /\ DriverFits(server')
    BY <1>1, <1>5 DEF NoSocket, ServerState, DriverFits
  <2>2. page' \in PageState /\ page'.conn # "up"
    BY <1>5 DEF TypeOK, PageState
  <2>3. changes' \in 0 .. MaxChanges
    BY <1>5, VideoConstants DEF Changed, TypeOK
  <2>4. TypeOK'
    BY <1>5, <2>1, <2>2, <2>3 DEF TypeOK, DriverFits
  <2> QED BY <2>2, <2>4 DEF Answered
<1> QED BY <1>3, <1>4, <1>5 DEF SetMode

LEMMA RoverVideoKeeps ==
    ASSUME TypeOK, Answered,
           RoverComes \/ RoverGoes \/ Granted \/ Released \/ Unassigned
    PROVE  TypeOK' /\ Answered'
<1>1. server \in ServerState /\ DriverFits(server)
  BY DEF TypeOK, DriverFits
<1>2. CASE RoverComes
  <2> DEFINE s == [server EXCEPT !.online = TRUE]
  <2>1. s \in ServerState /\ DriverFits(s) /\ s \in MaybeAssigned(s)
    BY <1>1 DEF ServerState, DriverFits, MaybeAssigned
  <2>2. PICK t \in MaybeAssigned(s) : ServerChanges(t)
    BY <1>2, <2>1 DEF RoverComes
  <2> HIDE DEF s
  <2> QED BY <2>1, <2>2, Assignable, ServerChangesKeeps
<1>3. ASSUME NEW s \in {[server EXCEPT !.online = FALSE, !.driver = FALSE],
                        [server EXCEPT !.driver = FALSE],
                        [server EXCEPT !.driver = FALSE, !.assigned = FALSE]},
             ServerChanges(s)
      PROVE  TypeOK' /\ Answered'
  <2>1. s \in ServerState /\ DriverFits(s)
    BY <1>1 DEF ServerState, DriverFits
  <2> QED BY <1>3, <2>1, ServerChangesKeeps
<1>4. CASE Granted
  <2> DEFINE s == [server EXCEPT !.driver = TRUE, !.assigned = TRUE]
  <2>1. s \in ServerState /\ DriverFits(s) /\ ServerChanges(s)
    BY <1>1, <1>4 DEF ServerState, DriverFits, Granted
  <2> HIDE DEF s
  <2> QED BY <2>1, ServerChangesKeeps
<1> QED BY <1>2, <1>3, <1>4 DEF RoverGoes, Released, Unassigned

LEMMA VideoReceivesKeeps ==
    ASSUME TypeOK, Answered, ServerReceives
    PROVE  TypeOK' /\ Answered'
<1> DEFINE m == Head(toServer)
<1>1. /\ page.conn = "up" /\ toServer # <<>> /\ toServer \in Seq(ToServer)
      /\ m \in ToServer /\ toServer' = Tail(toServer)
      /\ toServer' \in Seq(ToServer) /\ m = toServer[1]
  BY DEF ServerReceives, TypeOK
<1>2. UNCHANGED <<view, page, rendered, tile, net, sockets, changes>>
  BY DEF ServerReceives
<1>3. server \in ServerState /\ DriverFits(server)
  BY DEF TypeOK, DriverFits
<1>4. ASSUME toPage' = toPage \/ \E p \in ToPage : toPage' = Append(toPage, p),
             server' \in ServerState, DriverFits(server')
      PROVE  TypeOK'
  <2>1. toPage' \in Seq(ToPage)
    BY <1>4 DEF TypeOK
  <2> QED BY <1>1, <1>2, <1>4, <2>1 DEF TypeOK, DriverFits
<1>5. ASSUME NEW q, InFlight(q), m.req # q,
             toPage' = toPage \/ \E p \in ToPage : toPage' = Append(toPage, p)
      PROVE  InFlight(q)'
  <2>1. CASE \E i \in DOMAIN toServer : toServer[i].req = q
    <3>1. PICK i \in 1 .. Len(toServer) : toServer[i].req = q
      BY <1>1, <2>1
    <3>2. i # 1
      BY <1>1, <1>5, <3>1
    <3>3. i - 1 \in DOMAIN toServer' /\ toServer'[i - 1] = toServer[i]
      BY <1>1, <3>1, <3>2
    <3> QED BY <3>1, <3>3 DEF InFlight
  <2>2. CASE \E i \in DOMAIN toPage : toPage[i].type = "answer" /\ toPage[i].req = q
    <3>1. PICK i \in DOMAIN toPage : toPage[i].type = "answer" /\ toPage[i].req = q
      BY <2>2
    <3>2. i \in DOMAIN toPage' /\ toPage'[i] = toPage[i]
      BY <1>5, <3>1 DEF TypeOK
    <3> QED BY <3>1, <3>2 DEF InFlight
  <2> QED BY <1>5, <2>1, <2>2 DEF InFlight
<1>6. CASE m.type = "setRole"
  <2>1. server' \in ServerState /\ DriverFits(server')
    BY <1>3, <1>6 DEF ServerReceives, SetRole, ServerState, DriverFits
  <2>2. toPage' = toPage \/ \E p \in ToPage : toPage' = Append(toPage, p)
    BY <1>6, <2>1, VideoMessages DEF ServerReceives, SetRole, Emit
  <2>3. m.req = None
    BY <1>1, <1>6, VideoMessages
  <2>4. page.latest # None /\ InFlight(page.latest) => InFlight(page.latest)'
    <3> HIDE DEF m
    <3>1. page' = page
      BY <1>2
    <3> QED BY <1>5, <2>2, <2>3, <3>1
  <2>5. Answered'
    BY <1>2, <2>4 DEF Answered, Wanted
  <2> QED BY <1>4, <2>1, <2>2, <2>5
<1>7. CASE m.type # "setRole"
  <2> DEFINE ok == server.online /\ MayView
             a == [type |-> "answer", req |-> m.req, ok |-> ok]
  <2>1. m.req \in Requests
    BY <1>1, <1>7, VideoMessages
  <2>2. ok \in BOOLEAN
    BY <1>3 DEF ServerState, MayView
  <2>3. /\ server' = IF ok THEN [server EXCEPT !.sessions = @ \cup {m.req}] ELSE server
        /\ toPage' = Append(toPage, a)
    BY <1>1, <1>7 DEF ServerReceives, VideoRequest, Emit
  <2>4. a \in ToPage /\ a.req = m.req /\ a.type = "answer"
    BY <2>1, <2>2, VideoMessages
  <2> HIDE DEF ok, a, m
  <2>5. server' \in ServerState /\ DriverFits(server')
    BY <1>3, <2>1, <2>3 DEF ServerState, DriverFits
  <2>6. ASSUME NEW q, q = m.req
        PROVE  InFlight(q)'
    <3>1. toPage \in Seq(ToPage)
      BY DEF TypeOK
    <3>2. Len(toPage) + 1 \in DOMAIN toPage' /\ toPage'[Len(toPage) + 1] = a
      BY <2>3, <2>4, <3>1
    <3> QED BY <2>4, <2>6, <3>2 DEF InFlight
  <2>7. InFlight(page.latest) => InFlight(page.latest)'
    <3>1. page' = page
      BY <1>2
    <3> QED BY <1>5, <2>3, <2>4, <2>6, <3>1
  <2>8. Answered'
    BY <1>2, <2>7 DEF Answered, Wanted
  <2> QED BY <1>4, <2>3, <2>4, <2>5, <2>8
<1> QED BY <1>6, <1>7

LEMMA VideoConnectionKeeps ==
    ASSUME TypeOK, Answered,
           PeriodicSync \/ Connect \/ ConnectionLost \/ ServerRestarts
    PROVE  TypeOK' /\ Answered'
<1>1. server \in ServerState /\ DriverFits(server)
  BY DEF TypeOK, DriverFits
<1>2. CASE PeriodicSync
  <2>1. toPage' \in Seq(ToPage)
    BY <1>1, <1>2, VideoMessages DEF PeriodicSync
  <2>2. TypeOK'
    BY <1>2, <2>1 DEF PeriodicSync, TypeOK
  <2>3. InFlight(page.latest) => InFlight(page.latest)'
    BY <1>2 DEF PeriodicSync, InFlight
  <2> QED BY <1>2, <2>2, <2>3 DEF PeriodicSync, Answered, Wanted
<1>3. CASE Connect
  <2>1. sockets' \in 0 .. MaxSockets
    BY <1>3, VideoConstants DEF Connect, TypeOK
  <2>2. CASE server.mode = "lockdown"
    <3>1. page' \in PageState /\ page'.conn = "closed"
      BY <1>3, <2>2 DEF Connect, TypeOK, PageState
    <3>2. TypeOK'
      BY <1>3, <2>1, <2>2, <3>1 DEF Connect, TypeOK
    <3> QED BY <3>1, <3>2 DEF Answered
  <2>3. CASE server.mode # "lockdown"
    <3>1. PICK s \in MaybeAssigned(server) :
              /\ server' = s /\ toPage' = <<Sync(s)>>
              /\ page' = [page EXCEPT !.conn = "up", !.nonced = TRUE]
      BY <1>3, <2>3 DEF Connect
    <3>2. s \in ServerState /\ DriverFits(s)
      BY <1>1, Assignable
    <3>3. page' \in PageState /\ page'.nonced
      BY <3>1 DEF TypeOK, PageState
    <3>4. toPage' \in Seq(ToPage)
      BY <3>1, <3>2, VideoMessages
    <3>5. TypeOK'
      BY <1>3, <2>1, <3>1, <3>2, <3>3, <3>4 DEF Connect, TypeOK, DriverFits
    <3> QED BY <3>3, <3>5 DEF Answered
  <2> QED BY <2>2, <2>3
<1>4. CASE ConnectionLost \/ ServerRestarts
  <2>1. NoSocket(server) \in ServerState /\ DriverFits(NoSocket(server))
    BY <1>1 DEF NoSocket, ServerState, DriverFits
  <2>2. StartedServer \in ServerState /\ DriverFits(StartedServer)
    BY DEF StartedServer, ServerState, Modes, DriverFits
  <2>3. PICK s \in ServerState : DriverFits(s) /\ Lost(s)
    BY <1>4, <2>1, <2>2 DEF ConnectionLost, ServerRestarts
  <2>4. page' \in PageState /\ page'.conn = "down"
    BY <2>3 DEF Lost, TypeOK, PageState
  <2>5. TypeOK'
    BY <2>3, <2>4 DEF Lost, TypeOK, DriverFits
  <2> QED BY <2>4, <2>5 DEF Answered
<1> QED BY <1>2, <1>3, <1>4

LEMMA PageReceivesKeeps ==
    ASSUME TypeOK, Answered, PageReceives
    PROVE  TypeOK' /\ Answered'
<1> DEFINE m == Head(toPage)
<1>1. /\ toPage # <<>> /\ toPage \in Seq(ToPage)
      /\ m \in ToPage /\ toPage' = Tail(toPage)
      /\ toPage' \in Seq(ToPage) /\ m = toPage[1]
  BY DEF PageReceives, TypeOK
<1>2. UNCHANGED <<view, server, rendered, tile, net, toServer, sockets, changes>>
  BY DEF PageReceives
<1>3. page' = IF m.type = "sync" THEN [page EXCEPT !.session = m.session]
              ELSE IF m.req = page.latest
              THEN [page EXCEPT !.answer = [req |-> m.req, ok |-> m.ok]] ELSE page
  BY DEF PageReceives
<1>4. \/ m.type = "sync" /\ m.session \in Session
      \/ m.type = "answer" /\ m.req \in Requests /\ m.ok \in BOOLEAN
  BY <1>1, VideoMessages
<1> HIDE DEF m
<1>5. page' \in PageState
  BY <1>3, <1>4 DEF TypeOK, PageState
<1>6. TypeOK'
  BY <1>1, <1>2, <1>5 DEF TypeOK
<1>7. /\ page'.conn = page.conn /\ page'.nonced = page.nonced /\ page'.latest = page.latest
      /\ \/ page'.answer.req = page.answer.req
         \/ page'.answer.req = page.latest /\ m.type # "sync" /\ m.req = page.latest
  <2>1. page \in PageState
    BY DEF TypeOK
  <2>2. CASE m.type = "sync"
    BY <1>3, <2>1, <2>2 DEF PageState
  <2>3. CASE m.type # "sync"
    BY <1>3, <2>1, <2>3 DEF PageState
  <2> QED BY <2>2, <2>3
<1>8. ASSUME NEW q, InFlight(q), ~(m.type = "answer" /\ m.req = q)
      PROVE  InFlight(q)'
  <2>1. CASE \E i \in DOMAIN toServer : toServer[i].req = q
    BY <1>2, <2>1 DEF InFlight
  <2>2. CASE \E i \in DOMAIN toPage : toPage[i].type = "answer" /\ toPage[i].req = q
    <3>1. PICK i \in 1 .. Len(toPage) : toPage[i].type = "answer" /\ toPage[i].req = q
      BY <1>1, <2>2
    <3>2. i # 1
      BY <1>1, <1>8, <3>1
    <3>3. i - 1 \in DOMAIN toPage' /\ toPage'[i - 1] = toPage[i]
      BY <1>1, <3>1, <3>2
    <3> QED BY <3>1, <3>3 DEF InFlight
  <2> QED BY <1>8, <2>1, <2>2 DEF InFlight
<1>9. /\ page'.answer.req = page'.latest \/ InFlight(page.latest)'
      \/ ~(page.answer.req = page.latest \/ InFlight(page.latest))
  <2>1. CASE m.type = "answer" /\ m.req = page.latest
    BY <1>3, <1>4, <2>1 DEF TypeOK, PageState
  <2>2. CASE ~(m.type = "answer" /\ m.req = page.latest)
    <3>1. page'.answer.req = page.answer.req
      BY <1>4, <1>7, <2>2
    <3>2. ASSUME InFlight(page.latest) PROVE InFlight(page.latest)'
      <4> DEFINE q == page.latest
      <4> HIDE DEF q
      <4> QED BY <1>7, <1>8, <2>2, <3>2 DEF q
    <3> QED BY <1>7, <3>1, <3>2
  <2> QED BY <2>1, <2>2
<1> QED BY <1>2, <1>6, <1>7, <1>9 DEF Answered, Wanted

LEMMA OneMore ==
    ASSUME NEW S, NEW s \in Seq(S), NEW t \in Seq(S), Len(t) = 1
    PROVE  /\ s \o t \in Seq(S) /\ Len(s \o t) = Len(s) + 1 /\ Len(s) \in Nat
           /\ (s \o t)[Len(s) + 1] = t[1]
<1> DEFINE n == Len(s)
           r == s \o t
<1>1. /\ r \in Seq(S) /\ Len(r) = n + Len(t)
      /\ \A i \in 1 .. n + Len(t) : r[i] = IF i <= n THEN s[i] ELSE t[i - n]
  BY ConcatProperties, Zenon
<1>2. n \in Nat
  OBVIOUS
<1> HIDE DEF n, r
<1>3. n + 1 \in 1 .. n + 1 /\ ~ (n + 1 <= n) /\ (n + 1) - n = 1
  BY <1>2
<1>4. r[n + 1] = t[1]
  BY <1>1, <1>3
<1> QED BY <1>1, <1>2, <1>4 DEF n, r

LEMMA RenderVideoKeeps ==
    ASSUME TypeOK, Answered, Render
    PROVE  TypeOK' /\ Answered'
<1> DEFINE p == Requested
           asks == IF WantsRole THEN <<[type |-> "setRole", req |-> None]>> ELSE <<>>
           request == IF p.asked # page.asked THEN <<[type |-> "video", req |-> p.asked]>> ELSE <<>>
           sent == asks \o request
<1>1. /\ page.conn # "closed" /\ p.asked <= MaxRequests
      /\ page' = [p EXCEPT !.nonced = FALSE]
      /\ rendered' = [up |-> page.conn = "up", session |-> page.session]
      /\ tile' = TileFor(p) /\ toServer' = toServer \o sent
      /\ UNCHANGED <<view, server, net, toPage, sockets, changes>>
  BY DEF Render
<1>2. page \in PageState
  BY DEF TypeOK
<1>3. /\ p \in PageState /\ p.conn = page.conn /\ p.session = page.session
      /\ p.asked = page.asked \/ p.asked \in Requests
  <2>1. CASE ~MustRequest
    BY <1>2, <2>1 DEF Requested, PageState
  <2>2. CASE MustRequest /\ Wanted(page.session)
    <3>1. p = [page EXCEPT !.asked = page.asked + 1, !.latest = page.asked + 1]
      BY <2>2 DEF Requested
    <3>2. page.asked \in Nat /\ p.asked = page.asked + 1
      BY <1>2, <3>1 DEF PageState
    <3>3. page.asked + 1 \in 0 .. MaxRequests /\ page.asked + 1 \in Requests
      BY <1>1, <3>2 DEF Requests
    <3> HIDE DEF p
    <3> QED BY <1>2, <3>1, <3>3 DEF PageState
  <2>3. CASE MustRequest /\ ~Wanted(page.session)
    <3>1. PICK a \in {page.answer, NoAnswer} :
              p = [page EXCEPT !.latest = None, !.answer = a]
      BY <2>3 DEF Requested
    <3>2. a \in [req : {None} \cup Requests, ok : BOOLEAN]
      <4>1. page.answer \in [req : {None} \cup Requests, ok : BOOLEAN]
        BY <1>2 DEF PageState
      <4>2. NoAnswer \in [req : {None} \cup Requests, ok : BOOLEAN]
        BY DEF NoAnswer
      <4> QED BY <4>1, <4>2
    <3> HIDE DEF p
    <3> QED BY <1>2, <3>1, <3>2 DEF PageState
  <2> QED BY <2>1, <2>2, <2>3
<1>4. page' \in PageState
  BY <1>1, <1>3 DEF PageState
<1>5. asks \in Seq(ToServer) /\ request \in Seq(ToServer)
  BY <1>3, VideoMessages
<1>6. sent \in Seq(ToServer) /\ toServer' \in Seq(ToServer)
  BY <1>1, <1>5 DEF TypeOK
<1>7. rendered' \in [up : BOOLEAN, session : Session] /\ rendered'.session = page.session
  BY <1>1, <1>2 DEF PageState
<1>8. tile' \in TileState /\ (tile'.token = None <=> tile'.status = "idle")
  <2>1. Shown(p) \in {None} \cup Requests
    BY <1>3 DEF Shown, PageState
  <2> HIDE DEF p
  <2> QED BY <1>1, <2>1 DEF TileFor, TypeOK, TileState, None
<1>9. TypeOK'
  BY <1>1, <1>4, <1>6, <1>7, <1>8 DEF TypeOK
<1>10. ASSUME page.conn = "up", Wanted(page.session), MustRequest
       PROVE  Answered'
  <2>1. /\ p.asked = page.asked + 1 /\ p.latest = page.asked + 1
        /\ page.asked \in Nat
    BY <1>2, <1>10 DEF Requested, PageState
  <2>2. page'.latest = p.asked /\ p.asked # None /\ p.asked # page.asked
    BY <1>1, <1>3, <2>1 DEF PageState, None
  <2>3. request = <<[type |-> "video", req |-> p.asked]>>
    BY <2>2
  <2> HIDE DEF p, asks, request
  <2>4. toServer' = toServer \o (asks \o request) /\ toServer \in Seq(ToServer)
    BY <1>1 DEF TypeOK
  <2>5. PICK i \in DOMAIN toServer' : toServer'[i].req = p.asked
    <3> DEFINE i == Len(toServer) + Len(asks) + 1
    <3>1. Len(request) = 1 /\ request[1].req = p.asked
      BY <2>3
    <3>2. /\ asks \o request \in Seq(ToServer)
          /\ Len(asks \o request) = Len(asks) + 1 /\ Len(asks) \in Nat
          /\ (asks \o request)[Len(asks) + 1] = request[1]
      BY <1>5, <3>1, OneMore
    <3> DEFINE all == asks \o request
    <3> HIDE DEF all
    <3>3. i \in DOMAIN toServer' /\ toServer'[i] = request[1]
      BY <2>4, <3>2 DEF all
    <3> QED BY <3>1, <3>3
  <2>6. \A q : q = p.asked => InFlight(q)'
    BY <2>5 DEF InFlight
  <2> QED BY <2>2, <2>6 DEF Answered
<1>11. ASSUME page.conn = "up", Wanted(page.session), ~MustRequest
       PROVE  Answered'
  <2>1. p = page /\ ~page.nonced
    BY <1>11 DEF Requested, MustRequest
  <2>2. Wanted(rendered.session) = Wanted(page.session)
    BY <1>11 DEF MustRequest, Key
  <2>3. /\ page.latest # None
        /\ page.answer.req = page.latest \/ InFlight(page.latest)
    BY <1>11, <2>1, <2>2 DEF Answered
  <2>4. page'.latest = page.latest /\ page'.answer = page.answer
    BY <1>1, <2>1 DEF TypeOK, PageState
  <2>5. InFlight(page.latest) => InFlight(page.latest)'
    <3> HIDE DEF sent
    <3> QED BY <1>1, <1>6, <2>4, StillInFlight
  <2> QED BY <2>3, <2>4, <2>5 DEF Answered
<1>12. page'.conn = page.conn /\ (Wanted(rendered.session)' <=> Wanted(page.session))
  BY <1>1, <1>3, <1>7 DEF Wanted, PageState
<1>13. Answered'
  BY <1>10, <1>11, <1>12 DEF Answered
<1> QED BY <1>9, <1>13

LEMMA TileKeeps ==
    ASSUME TypeOK, Answered,
           Start \/ StreamFails \/ Restart \/ NetChanges
    PROVE  TypeOK' /\ Answered'
<1>1. UNCHANGED <<view, server, page, rendered, toServer, toPage, sockets>>
  BY DEF Start, StreamFails, Restart, NetChanges
<1>2. tile' \in TileState /\ (tile'.token = None <=> tile'.status = "idle")
  BY DEF Start, StreamFails, Restart, NetChanges, Failed,
         TypeOK, TileState
<1>3. net' \in BOOLEAN /\ changes' \in 0 .. MaxChanges
  <2>1. CASE NetChanges
    BY <2>1, VideoConstants DEF NetChanges, Changed, TypeOK
  <2>2. CASE Start \/ StreamFails \/ Restart
    BY <2>2 DEF Start, StreamFails, Restart, TypeOK
  <2> QED BY <2>1, <2>2
<1>4. TypeOK'
  BY <1>1, <1>2, <1>3 DEF TypeOK
<1> QED BY <1>1, <1>4 DEF Answered, InFlight, Wanted

\* NoRequestLost (VideoSessions), of every page and every bound: the request
\* is on its way to the server, or its answer is on its way back, whatever is
\* cancelled, reconnected or rendered late in between.
THEOREM NoRequestIsLost == Spec => []NoRequestLost
<1>1. Init => NoRequestLost
  BY VideoInit
<1>2. NoRequestLost /\ [Next]_vars => NoRequestLost'
  <2> SUFFICES ASSUME TypeOK, Answered, [Next]_vars
               PROVE  TypeOK' /\ Answered'
    BY DEF NoRequestLost, Answered
  <2>1. ASSUME NEW m \in Modes, SetMode(m) PROVE TypeOK' /\ Answered'
    BY <2>1, SetModeVideoKeeps
  <2>2. CASE RoverComes \/ RoverGoes \/ Granted \/ Released
             \/ Unassigned
    BY <2>2, RoverVideoKeeps
  <2>3. CASE PeriodicSync \/ Connect \/ ConnectionLost \/ ServerRestarts
    BY <2>3, VideoConnectionKeeps
  <2>4. CASE ServerReceives
    BY <2>4, VideoReceivesKeeps
  <2>5. CASE PageReceives
    BY <2>5, PageReceivesKeeps
  <2>6. CASE Render
    BY <2>6, RenderVideoKeeps
  <2>7. CASE Start \/ StreamFails \/ Restart \/ NetChanges
    BY <2>7, TileKeeps
  <2>8. CASE UNCHANGED vars
    BY <2>8 DEF vars, TypeOK, Answered, InFlight, Wanted
  <2> QED BY <2>1, <2>2, <2>3, <2>4, <2>5, <2>6, <2>7, <2>8 DEF Next
<1> QED BY <1>1, <1>2, PTL DEF Spec
=============================================================================
