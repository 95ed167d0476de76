---------------------------- MODULE CameraProofs ----------------------------
(***************************************************************************)
(* The subscriptions to the room cameras follow what the page shows, over  *)
(* messages in flight and connections that come and go, for every finite   *)
(* set of cameras.                                                         *)
(***************************************************************************)
EXTENDS RoomCameras, FiniteSetTheorems, SequenceTheorems, WellFoundedInduction, TLAPS

-----------------------------------------------------------------------------
(* The frames and statuses that a new subscriber is sent.                  *)

LEMMA Least ==
    ASSUME NEW T, T \subseteq Nat, T # {}
    PROVE  \E n \in T : \A m \in T : n <= m
<1> DEFINE LT == {p \in Nat \X Nat : p[1] < p[2]}
<1>1. IsWellFoundedOn(LT, Nat)
  BY NatLessThanWellFounded DEF OpToRel
<1> HIDE DEF LT
<1>2. PICK n \in T : \A m \in T : <<m, n>> \notin LT
  BY <1>1, WFMin
<1>3. \A m \in T : ~ (m < n)
  BY <1>2 DEF LT
<1>4. \A m \in T : n <= m
  BY <1>3
<1> QED BY <1>4

\* The function by which FlattenSeq is defined, up to k.
Flattens(g, seqs, S, k) ==
    /\ g \in [1 .. k -> Seq(S)]
    /\ \A i \in 1 .. k : g[i] = IF i = 1 THEN seqs[i] ELSE g[i - 1] \o seqs[i]

LEMMA FlattenExists ==
    ASSUME NEW S, NEW seqs \in Seq(Seq(S)), seqs # <<>>
    PROVE  \E g : Flattens(g, seqs, S, Len(seqs))
<1> DEFINE n == Len(seqs)
           T == {k \in 1 .. n : ~ \E g : Flattens(g, seqs, S, k)}
<1>1. n \in Nat /\ n >= 1 /\ \A i \in 1 .. n : seqs[i] \in Seq(S)
  OBVIOUS
<1> HIDE DEF n
<1>2. \E g : Flattens(g, seqs, S, 1)
  <2> DEFINE g == [i \in 1 .. 1 |-> seqs[1]]
  <2>1. Flattens(g, seqs, S, 1)
    BY <1>1 DEF Flattens
  <2> QED BY <2>1
<1>3. ASSUME NEW k \in 2 .. n, NEW g, Flattens(g, seqs, S, k - 1)
      PROVE  \E h : Flattens(h, seqs, S, k)
  <2> DEFINE h == [i \in 1 .. k |-> IF i = k THEN g[k - 1] \o seqs[k] ELSE g[i]]
  <2>1. /\ g \in [1 .. (k - 1) -> Seq(S)]
        /\ \A i \in 1 .. (k - 1) : g[i] = IF i = 1 THEN seqs[i] ELSE g[i - 1] \o seqs[i]
    BY <1>3 DEF Flattens
  <2>2. k \in Nat /\ k - 1 \in 1 .. (k - 1) /\ seqs[k] \in Seq(S)
    BY <1>1
  <2>3. g[k - 1] \o seqs[k] \in Seq(S)
    BY <2>1, <2>2
  <2>4. h \in [1 .. k -> Seq(S)]
    <3>1. \A i \in 1 .. k : i # k => i \in 1 .. (k - 1)
      BY <2>2
    <3> QED BY <2>1, <2>3, <3>1
  <2>5. ASSUME NEW i \in 1 .. k
        PROVE  h[i] = IF i = 1 THEN seqs[i] ELSE h[i - 1] \o seqs[i]
    <3>1. CASE i = k
      <4>1. i # 1 /\ i - 1 \in 1 .. k /\ i - 1 # k
        BY <2>2, <3>1
      <4> QED BY <3>1, <4>1
    <3>2. CASE i # k
      <4>1. i \in 1 .. (k - 1)
        BY <2>2, <3>2
      <4>2. i # 1 => i - 1 \in 1 .. k /\ i - 1 # k
        BY <2>2, <4>1
      <4> QED BY <2>1, <3>2, <4>1, <4>2
    <3> QED BY <3>1, <3>2
  <2> HIDE DEF h
  <2>6. Flattens(h, seqs, S, k)
    BY <2>4, <2>5 DEF Flattens
  <2> QED BY <2>6
<1> SUFFICES ASSUME T # {} PROVE FALSE
  BY <1>1 DEF n
<1>0. T \subseteq Nat
  OBVIOUS
<1>4. PICK k \in T : \A m \in T : k <= m
  BY <1>0, Least
<1>5. k # 1
  BY <1>2, <1>4
<1>6. k \in 2 .. n /\ k - 1 \in 1 .. n /\ k - 1 \notin T
  <2>1. k \in 1 .. n
    BY <1>4
  <2>2. k \in 2 .. n /\ k - 1 \in 1 .. n /\ ~ (k <= k - 1)
    BY <1>1, <1>5, <2>1
  <2> QED BY <1>4, <2>2
<1> QED BY <1>3, <1>4, <1>6

LEMMA FlattenTyped ==
    ASSUME NEW S, NEW seqs \in Seq(Seq(S)), seqs # <<>>
    PROVE  FlattenSeq(seqs) \in Seq(S)
<1> DEFINE n == Len(seqs)
           F(f) == [i \in 1 .. n |-> IF i = 1 THEN seqs[i] ELSE f[i - 1] \o seqs[i]]
           flatten == CHOOSE f : f = F(f)
<1>1. n \in Nat /\ n >= 1 /\ \A i \in 1 .. n : seqs[i] \in Seq(S)
  OBVIOUS
<1>2. FlattenSeq(seqs) = flatten[n]
  BY <1>1 DEF FlattenSeq
<1>3. PICK g : Flattens(g, seqs, S, n)
  BY FlattenExists
<1> HIDE DEF n
<1>4. g = F(g)
  BY <1>3 DEF Flattens
<1>5. flatten = F(flatten)
  <2> HIDE DEF F
  <2> QED BY <1>4
<1> HIDE DEF flatten
<1>6. \A i \in 1 .. n : flatten[i] = IF i = 1 THEN seqs[i] ELSE flatten[i - 1] \o seqs[i]
  BY <1>5
<1> HIDE DEF F
<1> DEFINE T == {i \in 1 .. n : flatten[i] \notin Seq(S)}
<1>7. ASSUME T # {} PROVE FALSE
  <2>0. T \subseteq Nat
    BY <1>1
  <2>1. PICK k \in T : \A m \in T : k <= m
    BY <1>7, <2>0, Least
  <2>2. k \in 1 .. n /\ flatten[k] \notin Seq(S)
    BY <2>1
  <2>3. k # 1
    BY <1>1, <1>6, <2>2
  <2>4. k - 1 \in 1 .. n /\ ~ (k <= k - 1)
    BY <1>1, <2>2, <2>3
  <2>5. flatten[k - 1] \in Seq(S)
    BY <2>1, <2>4
  <2>6. flatten[k] = flatten[k - 1] \o seqs[k] /\ seqs[k] \in Seq(S)
    BY <1>1, <1>6, <2>2, <2>3
  <2> QED BY <2>2, <2>5, <2>6, SMTT(20)
<1>8. n \in 1 .. n
  BY <1>1
<1>9. flatten[n] \in Seq(S)
  BY <1>7, <1>8
<1> QED BY <1>2, <1>9

LEMMA CamerasListed ==
    /\ Cardinality(Cameras) \in Nat
    /\ \A i \in 1 .. Cardinality(Cameras) : SetToSeq(Cameras)[i] \in Cameras
<1> DEFINE n == Cardinality(Cameras)
<1>1. n \in Nat
  BY RoomConstants, FS_CardinalityType
<1>2. PICK f : f \in Bijection(1 .. n, Cameras)
  BY RoomConstants, FS_CountingElements, FS_CardinalityType DEF ExistsBijection
<1>3. f \in [1 .. n -> Cameras] /\ IsInjective(f)
  BY <1>2 DEF Bijection, Injection, Surjection, IsInjective
<1>4. SetToSeq(Cameras) \in [1 .. n -> Cameras]
  <2> HIDE DEF n
  <2> QED BY <1>3 DEF SetToSeq, n
<1> QED BY <1>1, <1>4

-----------------------------------------------------------------------------
(* The subscriptions.                                                      *)

\* The way of a subscription through what is in flight: f[0] is whether the
\* server's last word on it was a request to subscribe, f[i] what it will be
\* when the first i messages have arrived.  A page never asks to subscribe
\* twice without unsubscribing in between.
Follows(f, q) ==
    /\ f \in [0 .. Len(q) -> {0, 1}]
    /\ \A i \in 1 .. Len(q) : /\ q[i] = "subscribe" => f[i - 1] = 0 /\ f[i] = 1
                              /\ q[i] = "unsubscribe" => f[i] = 0
                              /\ q[i] = "setRole" => f[i] = f[i - 1]

\* It begins with what the server holds of the present socket, and ends with
\* what the page last rendered; but a new connection holds nothing, whatever
\* the page shows, until that has rendered once more.
Way(f) ==
    /\ Follows(f, toServer)
    /\ conn = "up" => socketSubscriptions[socket] =
                          IF f[0] = 1 /\ answered # "refused" THEN Cameras ELSE {}
    /\ conn = "down" => f[0] = 0
    /\ ~rendered.watching => f[Len(toServer)] = 0
    /\ rendered.watching /\ conn = "up" /\ ~nonced => f[Len(toServer)] = 1

Present == conn = "up" => socket # 0
RequestsFollow == conn = "closed" \/ \E f : Way(f)

CameraInv == TypeOK /\ MapsAgree /\ Present /\ RequestsFollow

LEMMA CameraInit == Init => CameraInv
<1> SUFFICES ASSUME Init PROVE CameraInv
  OBVIOUS
<1>1. TypeOK
  <2>1. 0 \in 0 .. MaxSockets /\ 0 \in 0 .. MaxChanges
    BY RoomConstants
  <2>2. cameraState \in [Cameras -> [frame : BOOLEAN, error : BOOLEAN, fetching : BOOLEAN]]
    BY DEF Init
  <2>3. fetches = {c \in Cameras : cameraState[c].fetching}
    BY DEF Init
  <2>4. session \in Session /\ rendered \in Rendered
    BY DEF Init, Session, NoSession, Rendered
  <2>5. feeds \in [Cameras -> [status : {"none", "connecting", "playing", "error"},
                               picture : BOOLEAN]]
    BY DEF Init, NoFeeds
  <2>6. toServer \in Seq(ToServer) /\ toPage \in Seq(ToPage)
    <3>1. "setRole" \in ToServer
      BY DEF ToServer
    <3> QED BY <3>1 DEF Init
  <2> QED BY <2>1, <2>2, <2>3, <2>4, <2>5, <2>6 DEF Init, TypeOK, Modes, Nobody
<1>2. MapsAgree /\ Present
  BY DEF Init, MapsAgree, Present, Nobody
<1>3. Way([i \in 0 .. Len(toServer) |-> 0])
  <2> DEFINE f == [i \in 0 .. Len(toServer) |-> 0]
  <2>1. Len(toServer) \in Nat /\ \A i \in 1 .. Len(toServer) : toServer[i] = "setRole"
    BY DEF Init
  <2>2. \A i \in 0 .. Len(toServer) : f[i] = 0
    OBVIOUS
  <2>3. f \in [0 .. Len(toServer) -> {0, 1}]
    OBVIOUS
  <2> HIDE DEF f
  <2>4. Follows(f, toServer)
    BY <2>1, <2>2, <2>3 DEF Follows
  <2>5. f[0] = 0 /\ f[Len(toServer)] = 0 /\ conn = "down"
    BY <2>1, <2>2 DEF Init
  <2> QED BY <2>4, <2>5 DEF Way, f
<1> QED BY <1>1, <1>2, <1>3 DEF CameraInv, RequestsFollow

\* Steps that neither subscriptions nor requests take part in.
LEMMA Elsewhere ==
    ASSUME CameraInv, TypeOK',
           UNCHANGED <<conn, socket, cameraSubscribers, socketSubscriptions, answered,
                       rendered, nonced, toServer>>
    PROVE  CameraInv'
<1>1. MapsAgree' /\ Present'
  BY DEF CameraInv, MapsAgree, Present
<1>2. RequestsFollow'
  BY DEF CameraInv, RequestsFollow, Way
<1> QED BY <1>1, <1>2 DEF CameraInv

\* What is sent to a page that has room for it.
LEMMA Told ==
    ASSUME TypeOK, NEW m \in ToPage,
           toPage' = toPage \/ toPage' = Append(toPage, m)
    PROVE  toPage' \in Seq(ToPage)
<1>1. toPage \in Seq(ToPage)
  BY DEF TypeOK
<1> QED BY <1>1

LEMMA PollingKeeps ==
    ASSUME CameraInv,
           Poll \/ WindowEnds \/ SwitchTab \/ (\E c \in Cameras : FetchSnapshot(c) \/ CameraChanges(c))
    PROVE  CameraInv'
<1>1. TypeOK
  BY DEF CameraInv
<1>2. CASE Poll
  <2>1. UNCHANGED <<view, up, serverVars, linkVars, pageVars, toServer, toPage, changes>>
    BY <1>2 DEF Poll
  <2>2. cameraState' \in [Cameras -> [frame : BOOLEAN, error : BOOLEAN, fetching : BOOLEAN]]
    BY <1>1, <1>2 DEF Poll, TypeOK
  <2>3. \A c \in Cameras : cameraState'[c].fetching
    BY <1>1, <1>2 DEF Poll, TypeOK
  <2>4. fetches' = Cameras
    BY <1>1, <1>2 DEF Poll, TypeOK
  <2>5. TypeOK'
    BY <1>1, <2>1, <2>2, <2>3, <2>4 DEF TypeOK, serverVars, linkVars, pageVars
  <2> QED BY <2>1, <2>5, Elsewhere DEF serverVars, linkVars, pageVars
<1>3. CASE WindowEnds
  <2>1. TypeOK'
    BY <1>1, <1>3 DEF WindowEnds, TypeOK, cameraVars, linkVars, pageVars
  <2> QED BY <1>3, <2>1, Elsewhere DEF WindowEnds, linkVars, pageVars
<1>4. CASE SwitchTab
  <2>1. changes' \in 0 .. MaxChanges /\ mounted' \in BOOLEAN
    BY <1>1, <1>4, RoomConstants DEF SwitchTab, TypeOK
  <2>2. TypeOK'
    BY <1>1, <1>4, <2>1 DEF SwitchTab, TypeOK, cameraVars, serverVars, linkVars
  <2> QED BY <1>4, <2>2, Elsewhere DEF SwitchTab, serverVars, linkVars
<1>5. ASSUME NEW c \in Cameras, FetchSnapshot(c) PROVE CameraInv'
  <2>1. UNCHANGED <<view, up, serverVars, linkVars, pageVars, toServer, changes>>
    BY <1>5 DEF FetchSnapshot
  <2>2. cameraState[c] \in [frame : BOOLEAN, error : BOOLEAN, fetching : BOOLEAN]
    BY <1>1 DEF TypeOK
  <2> DEFINE s == IF c \in up THEN [frame |-> TRUE, error |-> FALSE, fetching |-> FALSE]
                  ELSE FetchFailed(cameraState[c])
             m == IF c \in up THEN [type |-> "frame", camera |-> c]
                  ELSE [type |-> "status", camera |-> c, error |-> TRUE]
  <2>3. /\ s \in [frame : BOOLEAN, error : BOOLEAN, fetching : BOOLEAN] /\ ~s.fetching
        /\ m \in ToPage
    BY <2>2 DEF FetchFailed, ToPage
  <2>4. /\ cameraState' = [cameraState EXCEPT ![c] = s] /\ fetches' = fetches \ {c}
        /\ ToSubscriber(c, m)
    BY <1>5 DEF FetchSnapshot
  <2> HIDE DEF s, m
  <2>5. /\ cameraState' \in [Cameras -> [frame : BOOLEAN, error : BOOLEAN, fetching : BOOLEAN]]
        /\ fetches' = {d \in Cameras : cameraState'[d].fetching}
    BY <1>1, <2>3, <2>4 DEF TypeOK
  <2>6. toPage' \in Seq(ToPage)
    BY <1>1, <2>3, <2>4, Told DEF ToSubscriber
  <2>7. TypeOK'
    BY <1>1, <2>1, <2>5, <2>6 DEF TypeOK, serverVars, linkVars, pageVars
  <2> QED BY <2>1, <2>7, Elsewhere DEF serverVars, linkVars, pageVars
<1>6. ASSUME NEW c \in Cameras, CameraChanges(c) PROVE CameraInv'
  <2>1. changes' \in 0 .. MaxChanges /\ up' \subseteq Cameras
    BY <1>1, <1>6, RoomConstants DEF CameraChanges, TypeOK
  <2>2. TypeOK'
    BY <1>1, <1>6, <2>1 DEF CameraChanges, TypeOK, serverVars, linkVars, pageVars
  <2> QED BY <1>6, <2>2, Elsewhere DEF CameraChanges, serverVars, linkVars, pageVars
<1> QED BY <1>2, <1>3, <1>4, <1>5, <1>6

LEMMA PageReceivesCameras ==
    ASSUME CameraInv, PageReceives
    PROVE  CameraInv'
<1> DEFINE m == Head(toPage)
<1>1. TypeOK
  BY DEF CameraInv
<1>2. /\ UNCHANGED <<view, cameraVars, serverVars, linkVars, nonced, mounted, rendered,
                     toServer, changes>>
      /\ session' = IF m.type = "sync" THEN m.session ELSE session
      /\ feeds' = CASE m.type = "frame" /\ rendered.watching -> handleFrame(m.camera)
                    [] m.type = "status" /\ rendered.watching -> handleStatus(m.camera, m.error)
                    [] OTHER -> feeds
  BY DEF PageReceives
<1>3. m \in ToPage /\ toPage' \in Seq(ToPage)
  <2>1. toPage \in Seq(ToPage) /\ toPage # <<>> /\ toPage' = Tail(toPage)
    BY <1>1 DEF TypeOK, PageReceives
  <2> QED BY <2>1
<1> HIDE DEF m
<1>4. \/ m.type = "sync" /\ m.session \in Session
      \/ m.type = "frame" /\ m.camera \in Cameras
      \/ m.type = "status" /\ m.camera \in Cameras /\ m.error \in BOOLEAN
  BY <1>3 DEF ToPage
<1> DEFINE Feeds == [Cameras -> [status : {"none", "connecting", "playing", "error"},
                                 picture : BOOLEAN]]
<1>5. feeds \in Feeds
  BY <1>1 DEF TypeOK
<1>6. session' \in Session
  BY <1>1, <1>2, <1>4 DEF TypeOK
<1>7. feeds' \in Feeds
  <2>1. CASE m.type = "sync" \/ ~rendered.watching
    <3>1. feeds' = feeds
      BY <1>2, <1>4, <2>1
    <3> QED BY <1>5, <3>1
  <2>2. CASE m.type = "frame" /\ rendered.watching
    <3>1. feeds' = handleFrame(m.camera)
      BY <1>2, <2>2
    <3> QED BY <1>4, <1>5, <2>2, <3>1 DEF handleFrame
  <2>3. CASE m.type = "status" /\ rendered.watching
    <3>1. feeds' = handleStatus(m.camera, m.error)
      BY <1>2, <2>3
    <3>2. /\ feeds[m.camera] \in [status : {"none", "connecting", "playing", "error"},
                                  picture : BOOLEAN]
          /\ m.camera \in Cameras
      BY <1>4, <1>5, <2>3
    <3> QED BY <1>5, <3>1, <3>2 DEF handleStatus
  <2> QED BY <1>4, <2>1, <2>2, <2>3
<1>8. TypeOK'
  BY <1>1, <1>2, <1>3, <1>6, <1>7 DEF TypeOK, cameraVars, serverVars, linkVars
<1> QED BY <1>2, <1>8, Elsewhere DEF serverVars, linkVars

\* A socket that is given up holds nothing any more.
LEMMA Removed ==
    ASSUME TypeOK, MapsAgree, conn = "up" => socket \in Sockets, conn = "up",
           removeSubscriptions(socket)
    PROVE  /\ cameraSubscribers' \in [Cameras -> SUBSET Sockets]
           /\ socketSubscriptions' \in [Sockets -> SUBSET Cameras]
           /\ \A s \in Sockets, c \in Cameras :
                  s \in cameraSubscribers'[c] <=> c \in socketSubscriptions'[s]
           /\ \A s \in Sockets : socketSubscriptions'[s] = {}
<1>1. /\ cameraSubscribers \in [Cameras -> SUBSET Sockets]
      /\ socketSubscriptions \in [Sockets -> SUBSET Cameras]
      /\ \A s \in Sockets, c \in Cameras :
             s \in cameraSubscribers[c] <=> c \in socketSubscriptions[s]
      /\ \A s \in Sockets : s # socket => socketSubscriptions[s] = {}
      /\ socket \in Sockets
  BY DEF TypeOK, MapsAgree
<1>2. /\ cameraSubscribers' = [c \in Cameras |-> cameraSubscribers[c] \ {socket}]
      /\ socketSubscriptions' = [socketSubscriptions EXCEPT ![socket] = {}]
  BY DEF removeSubscriptions
<1>3. \A s \in Sockets : socketSubscriptions'[s] = {}
  BY <1>1, <1>2
<1>4. \A s \in Sockets, c \in Cameras : s \notin cameraSubscribers'[c]
  BY <1>1, <1>2
<1>5. /\ cameraSubscribers' \in [Cameras -> SUBSET Sockets]
      /\ socketSubscriptions' \in [Sockets -> SUBSET Cameras]
  BY <1>1, <1>2
<1> QED BY <1>3, <1>4, <1>5

LEMMA SocketThere ==
    ASSUME CameraInv, conn = "up"
    PROVE  socket \in Sockets
BY RoomConstants DEF CameraInv, Present, TypeOK, Sockets

LEMMA ConnectionCameras ==
    ASSUME CameraInv, ConnectionLost \/ Connect \/ \E m \in Modes : SetMode(m)
    PROVE  CameraInv'
<1>1. TypeOK /\ MapsAgree
  BY DEF CameraInv
<1>2. CASE ConnectionLost
  <2>1. /\ conn = "up" /\ conn' = "down" /\ toServer' = <<>> /\ toPage' = <<>>
        /\ removeSubscriptions(socket)
        /\ subscribeBucket' = 0 /\ role' = "user" /\ answered' = "nothing"
        /\ UNCHANGED <<view, cameraVars, mode, socket, pageVars, changes>>
    BY <1>2 DEF ConnectionLost, Disconnected
  <2>2. /\ cameraSubscribers' \in [Cameras -> SUBSET Sockets]
        /\ socketSubscriptions' \in [Sockets -> SUBSET Cameras]
        /\ MapsAgree'
    BY <1>1, <2>1, Removed, SocketThere DEF MapsAgree
  <2>3. TypeOK'
    BY <1>1, <2>1, <2>2 DEF TypeOK, cameraVars, pageVars
  <2>4. Way([i \in 0 .. 0 |-> 0])'
    BY <2>1 DEF Way, Follows
  <2> QED BY <2>1, <2>2, <2>3, <2>4 DEF CameraInv, Present, RequestsFollow
<1>3. CASE Connect
  <2>1. /\ conn = "down" /\ socket' = socket + 1 /\ socket < MaxSockets
        /\ UNCHANGED <<view, cameraVars, serverVars, session, mounted, rendered, feeds,
                       toServer, changes>>
        /\ \/ conn' = "closed" /\ UNCHANGED <<nonced, toPage>>
           \/ conn' = "up" /\ nonced' = TRUE /\ toPage' = <<Sync(mode, role)>>
    BY <1>3 DEF Connect
  <2>2. socket' \in Sockets
    BY <1>1, <2>1, RoomConstants DEF TypeOK, Sockets
  <2>3. toPage' \in Seq(ToPage)
    <3>1. Sync(mode, role) \in ToPage
      BY <1>1 DEF TypeOK, Sync, ToPage, Session
    <3>2. toPage \in Seq(ToPage)
      BY <1>1 DEF TypeOK
    <3>3. CASE conn' = "closed" /\ UNCHANGED <<nonced, toPage>>
      BY <3>2, <3>3
    <3>4. CASE conn' = "up" /\ nonced' = TRUE /\ toPage' = <<Sync(mode, role)>>
      BY <3>1, <3>4
    <3> QED BY <2>1, <3>3, <3>4
  <2>4. TypeOK'
    <3>1. socket' \in 0 .. MaxSockets /\ nonced' \in BOOLEAN /\ conn' \in {"down", "up", "closed"}
      <4>1. nonced \in BOOLEAN
        BY <1>1 DEF TypeOK
      <4>2. CASE conn' = "closed" /\ UNCHANGED <<nonced, toPage>>
        BY <2>2, <4>1, <4>2 DEF Sockets
      <4>3. CASE conn' = "up" /\ nonced' = TRUE /\ toPage' = <<Sync(mode, role)>>
        BY <2>2, <4>3 DEF Sockets
      <4> QED BY <2>1, <4>2, <4>3
    <3> QED BY <1>1, <2>1, <2>3, <3>1 DEF TypeOK, cameraVars, serverVars
  <2>5. \A s \in Sockets : socketSubscriptions[s] = {}
    BY <1>1, <2>1 DEF MapsAgree
  <2>6. MapsAgree' /\ Present'
    BY <1>1, <2>1, <2>2, <2>5 DEF MapsAgree, serverVars, Present, Sockets
  <2>7. RequestsFollow'
    <3>1. CASE conn' = "closed"
      BY <3>1 DEF RequestsFollow
    <3>2. CASE conn' = "up"
      <4>1. PICK f : Way(f)
        BY <2>1 DEF CameraInv, RequestsFollow
      <4>2. f[0] = 0 /\ nonced' = TRUE /\ socketSubscriptions'[socket'] = {}
        BY <2>1, <2>2, <2>5, <3>2, <4>1 DEF Way, serverVars
      <4>3. Way(f)'
        BY <2>1, <3>2, <4>1, <4>2 DEF Way
      <4> QED BY <4>3 DEF RequestsFollow
    <3> QED BY <2>1, <3>1, <3>2
  <2> QED BY <2>4, <2>6, <2>7 DEF CameraInv
<1>4. ASSUME NEW m \in Modes, SetMode(m) PROVE CameraInv'
  <2>1. changes' \in 0 .. MaxChanges /\ mode' = m
    BY <1>1, <1>4, RoomConstants DEF SetMode, TypeOK
  <2>2. UNCHANGED <<view, cameraVars, socket, pageVars, toServer>>
    BY <1>4 DEF SetMode
  <2>3. CASE m = "lockdown" /\ conn = "up"
    <3>1. /\ conn' = "closed" /\ removeSubscriptions(socket) /\ toPage' = toPage
          /\ subscribeBucket' = 0 /\ role' = "user" /\ answered' = "nothing"
      BY <1>4, <2>3 DEF SetMode, Disconnected
    <3>2. /\ cameraSubscribers' \in [Cameras -> SUBSET Sockets]
          /\ socketSubscriptions' \in [Sockets -> SUBSET Cameras]
          /\ MapsAgree'
      BY <1>1, <2>2, <2>3, <3>1, Removed, SocketThere DEF MapsAgree
    <3>3. TypeOK'
      BY <1>1, <2>1, <2>2, <3>1, <3>2 DEF TypeOK, cameraVars, pageVars
    <3> QED BY <3>1, <3>2, <3>3 DEF CameraInv, Present, RequestsFollow
  <2>4. CASE ~(m = "lockdown" /\ conn = "up")
    <3>1. /\ UNCHANGED <<conn, role, cameraSubscribers, socketSubscriptions,
                         subscribeBucket, answered>>
          /\ toPage' = toPage \/ toPage' = Append(toPage, Sync(m, role))
      BY <1>4, <2>4 DEF SetMode
    <3>2. Sync(m, role) \in ToPage
      BY <1>1 DEF TypeOK, Sync, ToPage, Session
    <3>3. toPage' \in Seq(ToPage)
      BY <1>1, <3>1, <3>2, Told
    <3>4. TypeOK'
      BY <1>1, <2>1, <2>2, <3>1, <3>3 DEF TypeOK, cameraVars, pageVars
    <3> QED BY <2>2, <3>1, <3>4, Elsewhere DEF pageVars
  <2> QED BY <2>3, <2>4
<1> QED BY <1>2, <1>3, <1>4

\* The head of what is in flight arrives, and the way goes on from there.
LEMMA WayOn ==
    ASSUME NEW q \in Seq(ToServer), q # <<>>, NEW f, Follows(f, q)
    PROVE  LET n == Len(Tail(q))
               g == [i \in 0 .. n |-> f[i + 1]]
           IN  /\ Follows(g, Tail(q)) /\ g[0] = f[1] /\ g[n] = f[Len(q)]
               /\ Head(q) = q[1] /\ 1 \in 1 .. Len(q)
<1> DEFINE n == Len(Tail(q))
           g == [i \in 0 .. n |-> f[i + 1]]
<1>1. /\ n \in Nat /\ Len(q) = n + 1 /\ Head(q) = q[1]
      /\ \A i \in 1 .. n : Tail(q)[i] = q[i + 1]
  OBVIOUS
<1> HIDE DEF n
<1>2. /\ f \in [0 .. Len(q) -> {0, 1}]
      /\ \A i \in 1 .. Len(q) : /\ q[i] = "subscribe" => f[i - 1] = 0 /\ f[i] = 1
                                /\ q[i] = "unsubscribe" => f[i] = 0
                                /\ q[i] = "setRole" => f[i] = f[i - 1]
  BY DEF Follows
<1>3. g \in [0 .. n -> {0, 1}]
  BY <1>1, <1>2
<1>4. ASSUME NEW i \in 1 .. n
      PROVE  /\ Tail(q)[i] = "subscribe" => g[i - 1] = 0 /\ g[i] = 1
             /\ Tail(q)[i] = "unsubscribe" => g[i] = 0
             /\ Tail(q)[i] = "setRole" => g[i] = g[i - 1]
  <2>1. i + 1 \in 1 .. Len(q) /\ (i + 1) - 1 = i /\ Tail(q)[i] = q[i + 1]
    BY <1>1
  <2>2. g[i] = f[i + 1] /\ g[i - 1] = f[i]
    <3>1. i \in 0 .. n /\ i - 1 \in 0 .. n /\ (i - 1) + 1 = i
      BY <1>1
    <3> QED BY <3>1
  <2> QED BY <1>2, <2>1, <2>2
<1>5. g[0] = f[1] /\ g[n] = f[Len(q)] /\ 1 \in 1 .. Len(q)
  BY <1>1
<1> HIDE DEF g
<1>6. Follows(g, Tail(q))
  BY <1>1, <1>3, <1>4 DEF Follows, n
<1> QED BY <1>1, <1>5, <1>6 DEF n, g

LEMMA SnapshotsTyped ==
    ASSUME TypeOK
    PROVE  FlattenSeq(<<toPage>> \o [i \in 1 .. Cardinality(Cameras) |->
                                        Snapshot(SetToSeq(Cameras)[i])]) \in Seq(ToPage)
<1> DEFINE n == Cardinality(Cameras)
           all == [i \in 1 .. n |-> Snapshot(SetToSeq(Cameras)[i])]
<1>1. ASSUME NEW c \in Cameras PROVE Snapshot(c) \in Seq(ToPage)
  <2>1. /\ [type |-> "frame", camera |-> c] \in ToPage
        /\ [type |-> "status", camera |-> c, error |-> cameraState[c].error] \in ToPage
    BY DEF TypeOK, ToPage
  <2> QED BY <2>1 DEF Snapshot
<1>2. n \in Nat /\ \A i \in 1 .. n : SetToSeq(Cameras)[i] \in Cameras
  BY CamerasListed
<1> HIDE DEF n
<1>3. all \in [1 .. n -> Seq(ToPage)]
  BY <1>1, <1>2
<1>4. all \in Seq(Seq(ToPage))
  BY <1>2, <1>3
<1>5. <<toPage>> \in Seq(Seq(ToPage))
  BY DEF TypeOK
<1> HIDE DEF all
<1>6. /\ <<toPage>> \o all \in Seq(Seq(ToPage)) /\ Len(<<toPage>> \o all) = 1 + Len(all)
      /\ Len(all) \in Nat
  BY <1>4, <1>5
<1>7. <<toPage>> \o all # <<>>
  BY <1>6
<1> QED BY <1>6, <1>7, FlattenTyped DEF all, n

LEMMA ServerReceivesCameras ==
    ASSUME CameraInv, ServerReceives
    PROVE  CameraInv'
<1> DEFINE m == Head(toServer)
<1>1. TypeOK /\ MapsAgree /\ socket \in Sockets /\ Present
  BY SocketThere DEF CameraInv, ServerReceives
<1>2. /\ conn = "up" /\ toServer # <<>> /\ toServer' = Tail(toServer)
      /\ toServer \in Seq(ToServer) /\ m \in ToServer
      /\ UNCHANGED <<view, cameraVars, linkVars, pageVars, changes>>
  BY <1>1 DEF ServerReceives, TypeOK
<1>3. PICK f : Way(f)
  BY <1>2 DEF CameraInv, RequestsFollow
<1> DEFINE n == Len(Tail(toServer))
           g == [i \in 0 .. n |-> f[i + 1]]
<1>4. /\ Follows(g, Tail(toServer)) /\ g[0] = f[1] /\ g[n] = f[Len(toServer)]
      /\ m = toServer[1] /\ 1 \in 1 .. Len(toServer)
  BY <1>2, <1>3, WayOn DEF Way
<1>5. /\ m = "subscribe" => f[0] = 0 /\ f[1] = 1
      /\ m = "unsubscribe" => f[1] = 0
      /\ m = "setRole" => f[1] = f[0]
  BY <1>3, <1>4 DEF Way, Follows
<1> HIDE DEF m, g
<1>6. ASSUME socketSubscriptions'[socket] =
                IF g[0] = 1 /\ answered' # "refused" THEN Cameras ELSE {}
      PROVE  RequestsFollow'
  <2>1. /\ conn' = "up" /\ socket' = socket /\ nonced' = nonced /\ rendered' = rendered
        /\ toServer' = Tail(toServer) /\ Len(toServer') = n
    BY <1>2 DEF linkVars, pageVars
  <2>2. /\ ~rendered.watching => g[n] = 0
        /\ rendered.watching /\ ~nonced => g[n] = 1
    BY <1>2, <1>3, <1>4 DEF Way
  <2>3. Follows(g, toServer')
    BY <1>4, <2>1
  <2>4. socketSubscriptions'[socket'] =
            IF g[0] = 1 /\ answered' # "refused" THEN Cameras ELSE {}
    BY <1>6, <2>1
  <2>5. /\ ~rendered'.watching => g[Len(toServer')] = 0
        /\ rendered'.watching /\ ~nonced' => g[Len(toServer')] = 1
    BY <2>1, <2>2
  <2>6. PICK h : h = g      \* g' is another function: n changes
    OBVIOUS
  <2> HIDE DEF n
  <2>7. Way(h)'
    BY <2>1, <2>3, <2>4, <2>5, <2>6 DEF Way
  <2> QED BY <2>7 DEF RequestsFollow
<1>7. Present'
  BY <1>1, <1>2 DEF Present, linkVars
<1>8. toServer' \in Seq(ToServer)
  BY <1>2
<1>9. ASSUME /\ mode' = mode /\ role' \in {"user", "spectator"}
             /\ subscribeBucket' \in Nat /\ answered' \in {"nothing", "ok", "refused"},
             toPage' \in Seq(ToPage),
             cameraSubscribers' \in [Cameras -> SUBSET Sockets],
             socketSubscriptions' \in [Sockets -> SUBSET Cameras]
      PROVE  TypeOK'
  BY <1>1, <1>2, <1>8, <1>9 DEF TypeOK, cameraVars, linkVars, pageVars
<1> DEFINE Subs == socketSubscriptions[socket] =
                      IF f[0] = 1 /\ answered # "refused" THEN Cameras ELSE {}
<1>10. Subs
  BY <1>2, <1>3 DEF Way
<1>11. CASE m = "setRole"
  <2>1. SetRole
    BY <1>11 DEF ServerReceives, m
  <2>2. toPage' \in Seq(ToPage)
    <3>1. Sync(mode, "spectator") \in ToPage
      BY <1>1 DEF TypeOK, Sync, ToPage, Session
    <3>2. toPage' = toPage \/ toPage' = Append(toPage, Sync(mode, "spectator"))
      BY <2>1 DEF SetRole
    <3> QED BY <1>1, <3>1, <3>2, Told
  <2>3. TypeOK'
    BY <1>1, <1>9, <2>1, <2>2 DEF SetRole, TypeOK
  <2>4. MapsAgree'
    BY <1>1, <1>2, <2>1 DEF SetRole, MapsAgree, linkVars
  <2>5. RequestsFollow'
    BY <1>4, <1>5, <1>6, <1>10, <1>11, <2>1 DEF SetRole
  <2> QED BY <1>7, <2>3, <2>4, <2>5 DEF CameraInv
<1>12. CASE m = "unsubscribe"
  <2>1. Unsubscribe
    BY <1>12 DEF ServerReceives, m
  <2>2. removeSubscriptions(socket)
    BY <2>1 DEF Unsubscribe
  <2>3. /\ cameraSubscribers' \in [Cameras -> SUBSET Sockets]
        /\ socketSubscriptions' \in [Sockets -> SUBSET Cameras]
        /\ \A s \in Sockets, c \in Cameras :
               s \in cameraSubscribers'[c] <=> c \in socketSubscriptions'[s]
        /\ \A s \in Sockets : socketSubscriptions'[s] = {}
    BY <1>1, <1>2, <2>2, Removed
  <2>4. MapsAgree'
    BY <2>3 DEF MapsAgree
  <2>5. TypeOK'
    <3>1. toPage' \in Seq(ToPage)
      BY <1>1, <2>1 DEF Unsubscribe, TypeOK
    <3> QED BY <1>1, <1>9, <2>1, <2>3, <3>1 DEF Unsubscribe, TypeOK
  <2>6. RequestsFollow'
    BY <1>1, <1>4, <1>5, <1>6, <1>12, <2>3
  <2> QED BY <1>7, <2>4, <2>5, <2>6 DEF CameraInv
<1>13. CASE m = "subscribe"
  <2>1. Subscribe
    BY <1>13 DEF ServerReceives, m
  <2>2. subscribeBucket' \in Nat /\ mode' = mode /\ role' = role
    BY <1>1, <2>1 DEF Subscribe, TypeOK
  <2>3. f[0] = 0 /\ g[0] = 1
    BY <1>4, <1>5, <1>13
  <2>4. CASE subscribeBucket' > SUBSCRIBE_LIMIT \/ ~passesMode
    <3>1. answered' = "refused" /\ UNCHANGED <<cameraSubscribers, socketSubscriptions, toPage>>
      BY <2>1, <2>4 DEF Subscribe
    <3>2. TypeOK'
      BY <1>1, <1>9, <2>2, <3>1 DEF TypeOK
    <3>3. MapsAgree'
      BY <1>1, <1>2, <3>1 DEF MapsAgree, linkVars
    <3>4. RequestsFollow'
      BY <1>6, <1>10, <2>3, <3>1
    <3> QED BY <1>7, <3>2, <3>3, <3>4 DEF CameraInv
  <2>5. CASE ~(subscribeBucket' > SUBSCRIBE_LIMIT \/ ~passesMode)
    <3>1. /\ answered' = "ok"
          /\ cameraSubscribers' = [c \in Cameras |-> cameraSubscribers[c] \cup {socket}]
          /\ socketSubscriptions' = [socketSubscriptions EXCEPT ![socket] = Cameras]
          /\ toPage' = FlattenSeq(<<toPage>> \o [i \in 1 .. Cardinality(Cameras) |->
                                                     Snapshot(SetToSeq(Cameras)[i])])
      BY <2>1, <2>5 DEF Subscribe
    <3>2. toPage' \in Seq(ToPage)
      BY <1>1, <3>1, SnapshotsTyped
    <3>3. /\ cameraSubscribers \in [Cameras -> SUBSET Sockets]
          /\ socketSubscriptions \in [Sockets -> SUBSET Cameras]
      BY <1>1 DEF TypeOK
    <3>4. /\ cameraSubscribers' \in [Cameras -> SUBSET Sockets]
          /\ socketSubscriptions' \in [Sockets -> SUBSET Cameras]
          /\ socketSubscriptions'[socket] = Cameras
          /\ \A s \in Sockets : s # socket => socketSubscriptions'[s] = socketSubscriptions[s]
      BY <1>1, <3>1, <3>3
    <3>5. TypeOK'
      BY <1>1, <1>9, <2>2, <3>1, <3>2, <3>4 DEF TypeOK
    <3>6. MapsAgree'
      BY <1>1, <1>2, <3>1, <3>3, <3>4 DEF MapsAgree, linkVars
    <3>7. RequestsFollow'
      BY <1>6, <2>3, <3>1, <3>4
    <3> QED BY <1>7, <3>5, <3>6, <3>7 DEF CameraInv
  <2> QED BY <2>4, <2>5
<1> QED BY <1>2, <1>11, <1>12, <1>13 DEF ToServer

\* What an effect sends is appended, and the way is prolonged over it.
LEMMA Prolonged ==
    ASSUME NEW q \in Seq(ToServer), NEW f, Follows(f, q), NEW t \in ToServer, NEW b \in {0, 1},
           t = "subscribe" => f[Len(q)] = 0 /\ b = 1,
           t = "unsubscribe" => b = 0,
           t = "setRole" => b = f[Len(q)]
    PROVE  \E g : /\ Follows(g, q \o <<t>>) /\ g[0] = f[0] /\ g[Len(q \o <<t>>)] = b
                  /\ q \o <<t>> \in Seq(ToServer)
<1> DEFINE n == Len(q)
           r == q \o <<t>>
           g == [i \in 0 .. n + 1 |-> IF i = n + 1 THEN b ELSE f[i]]
<1>1. /\ n \in Nat /\ r \in Seq(ToServer) /\ Len(r) = n + 1 /\ r[n + 1] = t
      /\ \A i \in 1 .. n : r[i] = q[i]
  OBVIOUS
<1>2. /\ f \in [0 .. n -> {0, 1}]
      /\ \A i \in 1 .. n : /\ q[i] = "subscribe" => f[i - 1] = 0 /\ f[i] = 1
                           /\ q[i] = "unsubscribe" => f[i] = 0
                           /\ q[i] = "setRole" => f[i] = f[i - 1]
  BY DEF Follows
<1>3. /\ t = "subscribe" => f[n] = 0 /\ b = 1
      /\ t = "setRole" => b = f[n]
  OBVIOUS
<1> HIDE DEF n, r
<1>4. g[n + 1] = b /\ \A i \in 0 .. n : g[i] = f[i]
  BY <1>1
<1>5. g \in [0 .. n + 1 -> {0, 1}]
  BY <1>1, <1>2
<1> HIDE DEF g
<1>6. ASSUME NEW i \in 1 .. n + 1
      PROVE  /\ r[i] = "subscribe" => g[i - 1] = 0 /\ g[i] = 1
             /\ r[i] = "unsubscribe" => g[i] = 0
             /\ r[i] = "setRole" => g[i] = g[i - 1]
  <2>1. CASE i = n + 1
    <3>1. r[i] = t /\ g[i] = b /\ g[i - 1] = f[n]
      BY <1>1, <1>4, <2>1
    <3> QED BY <1>3, <3>1
  <2>2. CASE i # n + 1
    <3>1. i \in 1 .. n /\ i \in 0 .. n /\ i - 1 \in 0 .. n
      BY <1>1, <2>2
    <3>2. r[i] = q[i] /\ g[i] = f[i] /\ g[i - 1] = f[i - 1]
      BY <1>1, <1>4, <3>1
    <3> QED BY <1>2, <3>1, <3>2
  <2> QED BY <2>1, <2>2
<1>7. Follows(g, r)
  BY <1>1, <1>5, <1>6 DEF Follows
<1>8. g[0] = f[0]
  BY <1>1, <1>4
<1> QED BY <1>1, <1>4, <1>7, <1>8 DEF r

\* A sequence of requests that leads from a way that ends in a to one that
\* ends in b.
Leads(sent, a, b) ==
    \A f : \A q \in Seq(ToServer) :
        Follows(f, q) /\ f[Len(q)] = a =>
            /\ q \o sent \in Seq(ToServer)
            /\ \E g : Follows(g, q \o sent) /\ g[0] = f[0] /\ g[Len(q \o sent)] = b

LEMMA LeadsOne ==
    ASSUME NEW a \in {0, 1}
    PROVE  /\ Leads(<<>>, a, a) /\ Leads(<<"setRole">>, a, a)
           /\ Leads(<<"unsubscribe">>, a, 0) /\ Leads(<<"subscribe">>, 0, 1)
<1>1. Leads(<<>>, a, a)
  <2>1. \A q \in Seq(ToServer) : q \o <<>> = q
    BY ConcatEmptySeq
  <2> QED BY <2>1 DEF Leads
<1>2. "setRole" \in ToServer /\ "subscribe" \in ToServer /\ "unsubscribe" \in ToServer
  BY DEF ToServer
<1>3. Leads(<<"setRole">>, a, a)
  BY <1>2, Prolonged DEF Leads
<1>4. Leads(<<"unsubscribe">>, a, 0)
  BY <1>2, Prolonged DEF Leads
<1>5. Leads(<<"subscribe">>, 0, 1)
  BY <1>2, Prolonged DEF Leads
<1> QED BY <1>1, <1>3, <1>4, <1>5

LEMMA LeadsOn ==
    ASSUME NEW a, NEW b, NEW c, NEW s \in Seq(ToServer), NEW t \in Seq(ToServer),
           Leads(s, a, b), Leads(t, b, c)
    PROVE  Leads(s \o t, a, c)
<1> SUFFICES ASSUME NEW q \in Seq(ToServer), NEW f, Follows(f, q), f[Len(q)] = a
             PROVE  /\ q \o (s \o t) \in Seq(ToServer)
                    /\ \E g : /\ Follows(g, q \o (s \o t)) /\ g[0] = f[0]
                              /\ g[Len(q \o (s \o t))] = c
  BY DEF Leads
<1>1. PICK g : Follows(g, q \o s) /\ g[0] = f[0] /\ g[Len(q \o s)] = b
  BY DEF Leads
<1>2. q \o s \in Seq(ToServer)
  BY DEF Leads
<1>3. /\ (q \o s) \o t \in Seq(ToServer)
      /\ \E h : /\ Follows(h, (q \o s) \o t) /\ h[0] = g[0]
                /\ h[Len((q \o s) \o t)] = c
  BY <1>1, <1>2 DEF Leads
<1>4. (q \o s) \o t = q \o (s \o t)
  BY ConcatAssociative
<1> QED BY <1>1, <1>3, <1>4

LEMMA RenderCameras ==
    ASSUME CameraInv, Render
    PROVE  CameraInv'
<1> DEFINE out == IF rendered.watching /\ MustSubscribe THEN <<"unsubscribe">> ELSE <<>>
           in  == IF Watching /\ MustSubscribe THEN <<"subscribe">> ELSE <<>>
           as  == IF WantsRole THEN <<"setRole">> ELSE <<>>
           sent == IF view = "mini" THEN out \o as \o in ELSE out \o in \o as
<1>1. /\ conn # "closed" /\ nonced' = FALSE /\ toServer' = toServer \o sent
      /\ rendered' = [up |-> conn = "up", session |-> session, watching |-> Watching]
      /\ feeds' = IF Rekeyed THEN NoFeeds ELSE feeds
      /\ UNCHANGED <<view, cameraVars, serverVars, linkVars, session, mounted, toPage, changes>>
  BY DEF Render
<1>2. TypeOK /\ MapsAgree /\ Present
  BY DEF CameraInv
<1>3. PICK f : Way(f)
  BY <1>1 DEF CameraInv, RequestsFollow
<1>4. /\ Watching \in BOOLEAN /\ rendered.watching \in BOOLEAN /\ nonced \in BOOLEAN
      /\ toServer \in Seq(ToServer) /\ session \in Session
  BY <1>2 DEF TypeOK, Rendered, Watching
<1>5. rendered' \in Rendered /\ rendered'.watching = Watching
  BY <1>1, <1>4 DEF Rendered
<1>6. feeds' \in [Cameras -> [status : {"none", "connecting", "playing", "error"},
                              picture : BOOLEAN]]
  BY <1>1, <1>2 DEF TypeOK, NoFeeds
<1>7. ~MustSubscribe => rendered.watching = Watching /\ ~nonced
  BY DEF MustSubscribe, Rekeyed, idsKey
<1> DEFINE a == f[Len(toServer)]
           b == IF MustSubscribe THEN 0 ELSE a
           c == IF MustSubscribe /\ Watching THEN 1 ELSE b
<1>8. a \in {0, 1} /\ b \in {0, 1} /\ c \in {0, 1}
  BY <1>3, <1>4 DEF Way, Follows
<1>9. ~rendered.watching => a = 0
  BY <1>3 DEF Way
<1>10. rendered.watching /\ conn = "up" /\ ~nonced => a = 1
  BY <1>3 DEF Way
<1> HIDE DEF a
<1>11. /\ out \in Seq(ToServer) /\ in \in Seq(ToServer) /\ as \in Seq(ToServer)
       /\ Leads(out, a, b) /\ Leads(in, b, c) /\ Leads(as, b, b) /\ Leads(as, c, c)
  <2>1. "setRole" \in ToServer /\ "subscribe" \in ToServer /\ "unsubscribe" \in ToServer
    BY DEF ToServer
  <2>2. Leads(out, a, b)
    <3>1. CASE rendered.watching /\ MustSubscribe
      BY <1>8, <3>1, LeadsOne
    <3>2. CASE ~(rendered.watching /\ MustSubscribe)
      <4>1. out = <<>> /\ b = a
        BY <1>9, <3>2
      <4> QED BY <1>8, <4>1, LeadsOne
    <3> QED BY <3>1, <3>2
  <2>3. Leads(in, b, c)
    <3>1. CASE Watching /\ MustSubscribe
      BY <3>1, LeadsOne
    <3>2. CASE ~(Watching /\ MustSubscribe)
      BY <1>8, <3>2, LeadsOne
    <3> QED BY <3>1, <3>2
  <2>4. Leads(as, b, b) /\ Leads(as, c, c)
    BY <1>8, LeadsOne
  <2>5. out \in Seq(ToServer) /\ in \in Seq(ToServer) /\ as \in Seq(ToServer)
    BY <2>1
  <2> QED BY <2>2, <2>3, <2>4, <2>5
<1>12. /\ MustSubscribe /\ Watching => c = 1
       /\ MustSubscribe /\ ~Watching => c = 0
       /\ ~MustSubscribe => c = a
  <2>1. CASE MustSubscribe
    BY <2>1
  <2>2. CASE ~MustSubscribe
    BY <2>2
  <2> QED BY <2>1, <2>2
<1>13. Leads(sent, a, c)
  <2>0. \/ view = "mini" /\ sent = (out \o as) \o in
        \/ sent = (out \o in) \o as
    OBVIOUS
  <2> HIDE DEF out, in, as, b, c, sent
  <2>1. out \o in \in Seq(ToServer) /\ out \o as \in Seq(ToServer)
    BY <1>11, ConcatProperties
  <2>2. Leads(out \o in, a, c) /\ Leads(out \o as, a, b)
    BY <1>11, LeadsOn
  <2>3. Leads((out \o in) \o as, a, c) /\ Leads((out \o as) \o in, a, c)
    BY <1>11, <2>1, <2>2, LeadsOn
  <2> QED BY <2>0, <2>3
<1> HIDE DEF sent, b, c
<1>14. /\ toServer' \in Seq(ToServer)
       /\ \E g : Follows(g, toServer') /\ g[0] = f[0] /\ g[Len(toServer')] = c
  BY <1>1, <1>3, <1>4, <1>13 DEF Leads, Way, a
<1>15. PICK g : Follows(g, toServer') /\ g[0] = f[0] /\ g[Len(toServer')] = c
  BY <1>14
<1>16. UNCHANGED <<conn, socket, socketSubscriptions, cameraSubscribers, answered>>
  BY <1>1 DEF linkVars, serverVars
<1>17. /\ ~Watching => c = 0
       /\ Watching /\ conn = "up" => c = 1
  BY <1>7, <1>9, <1>10, <1>12
<1>18. Way(g)'
  BY <1>1, <1>3, <1>5, <1>15, <1>16, <1>17 DEF Way
<1>19. MapsAgree' /\ Present'
  BY <1>2, <1>16 DEF MapsAgree, Present
<1>20. TypeOK'
  BY <1>1, <1>2, <1>5, <1>6, <1>14 DEF TypeOK, cameraVars, serverVars, linkVars
<1> QED BY <1>18, <1>19, <1>20 DEF CameraInv, RequestsFollow

\* What the server holds of the present socket when nothing is in flight.
LEMMA CameraInvGives == CameraInv => SubscriptionsFollow
<1> SUFFICES ASSUME CameraInv, Quiet
             PROVE  socketSubscriptions[socket] =
                        IF rendered.watching /\ answered # "refused" THEN Cameras ELSE {}
  BY DEF SubscriptionsFollow, CameraInv
<1>1. conn = "up" /\ Len(toServer) = 0 /\ ~nonced
  BY DEF Quiet
<1>2. PICK f : Way(f)
  BY <1>1 DEF CameraInv, RequestsFollow
<1> QED BY <1>1, <1>2 DEF Way

\* The inductive invariant of the subscriptions (CameraInv): they follow what
\* the page has rendered, message by message.
THEOREM RequestsLead == Spec => []CameraInv
<1>1. CameraInv /\ [Next]_vars => CameraInv'
  <2> SUFFICES ASSUME CameraInv, [Next]_vars PROVE CameraInv'
    OBVIOUS
  <2>1. CASE Poll \/ WindowEnds \/ SwitchTab
             \/ (\E c \in Cameras : FetchSnapshot(c) \/ CameraChanges(c))
    BY <2>1, PollingKeeps
  <2>2. CASE ServerReceives
    BY <2>2, ServerReceivesCameras
  <2>3. CASE ConnectionLost \/ Connect \/ \E m \in Modes : SetMode(m)
    BY <2>3, ConnectionCameras
  <2>4. CASE PageReceives
    BY <2>4, PageReceivesCameras
  <2>5. CASE Render
    BY <2>5, RenderCameras
  <2>6. CASE UNCHANGED vars
    <3>1. TypeOK'
      BY <2>6 DEF CameraInv, TypeOK, vars, cameraVars, serverVars, linkVars, pageVars
    <3> QED BY <2>6, <3>1, Elsewhere DEF vars, serverVars, linkVars, pageVars
  <2> QED BY <2>1, <2>2, <2>3, <2>4, <2>5, <2>6 DEF Next
<1> QED BY <1>1, CameraInit, PTL DEF Spec

\* SubscriptionsFollow (RoomCameras), of every set of cameras and every limit
\* on subscriptions: no cleanup of an earlier run of the effect undoes a later
\* one, and no reconnection leaves the panel without frames, or the server
\* sending them to nobody.
THEOREM SubscriptionsAlwaysFollow == Spec => []SubscriptionsFollow
BY RequestsLead, CameraInvGives, PTL
=============================================================================
