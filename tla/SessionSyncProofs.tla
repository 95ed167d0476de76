-------------------------- MODULE SessionSyncProofs --------------------------
(***************************************************************************)
(* For any pages, entities and bounds: a page to which nothing is on its   *)
(* way shows the server's state (ShownIsCurrent).                          *)
(*                                                                         *)
(* The inductive invariant says it of the last snapshot that was sent to a *)
(* page, whether it has arrived or not.  Every step that changes what a    *)
(* page should see also sends it a snapshot; SyncKeepsCurrent is that      *)
(* argument, and each action has only to name the pages it sends to.       *)
(***************************************************************************)
EXTENDS SessionSync, TLAPS

\* The last snapshot sent to page p.
Latest(p) == IF toPage[p] # None THEN toPage[p] ELSE shown[p]

Current ==
    \A p \in online :
        /\ Latest(p) # None
        /\ Latest(p).mode = mode
        /\ Latest(p).users[p] = Users[p]
        /\ Latest(p).connected = connected /\ Latest(p).entities = entityState
        /\ Latest(p).turn = turn \/ pendingActivitySync # "none"

IInv == TypeOK /\ OneWayToTheHouse /\ Current

-----------------------------------------------------------------------------
\* What buildSession builds is a snapshot, so it is not None.
LEMMA BuildIsSnapshot ==
    ASSUME ServerTypes'
    PROVE  buildSession' \in Snapshot
<1>1. Users' \in [Pages -> User \cup {None}]
    BY DEF ServerTypes, Users, User
<1> QED
    BY <1>1 DEF ServerTypes, HouseTypes, buildSession, Snapshot

\* Nothing of what page p should see changes, but the turn while a delayed
\* snapshot is pending.
Unchanged(p) ==
    /\ p \in online
    /\ mode' = mode /\ role'[p] = role[p] /\ nickname'[p] = nickname[p]
    /\ connected' = connected /\ entityState' = entityState
    /\ \/ turn' = turn /\ (pendingActivitySync # "none" => pendingActivitySync' # "none")
       \/ pendingActivitySync' # "none"

\* A step that sends a snapshot to all pages but those for which nothing
\* changes keeps the last snapshots current.
LEMMA SyncKeepsCurrent ==
    ASSUME IInv, ServerTypes', NEW pages, SyncTo(pages), shown' = shown,
           \A p \in online' : p \in pages \/ Unchanged(p)
    PROVE  /\ toPage' \in [Pages -> Snapshot \cup {None}]
           /\ Current'
<1>1. buildSession' \in Snapshot /\ buildSession' # None
    BY BuildIsSnapshot, NoneAssumption
<1>2. toPage' \in [Pages -> Snapshot \cup {None}]
    BY <1>1 DEF IInv, TypeOK, PageTypes, SyncTo
<1>3. ASSUME NEW p \in online'
      PROVE  /\ Latest(p)' # None
             /\ Latest(p)'.mode = mode'
             /\ Latest(p)'.users[p] = Users'[p]
             /\ Latest(p)'.connected = connected' /\ Latest(p)'.entities = entityState'
             /\ Latest(p)'.turn = turn' \/ pendingActivitySync' # "none"
  <2>0. p \in Pages
      BY DEF ServerTypes
  <2>1. CASE p \in pages
    <3>1. toPage'[p] = buildSession'
        BY <2>0, <2>1 DEF SyncTo
    <3>2. Latest(p)' = buildSession'
        BY <1>1, <3>1 DEF Latest
    <3> QED
        BY <1>1, <3>2 DEF buildSession
  <2>2. CASE p \notin pages
    <3>1. Unchanged(p)
        BY <2>2
    <3>2. toPage'[p] = toPage[p]
        BY <2>0, <2>2 DEF SyncTo
    <3>3. Latest(p)' = Latest(p)
        BY <3>2 DEF Latest
    <3>4. Users'[p] = Users[p]
        BY <2>0, <3>1 DEF Unchanged, Users
    <3> QED
        BY <3>1, <3>3, <3>4 DEF Unchanged, IInv, Current
  <2> QED
      BY <2>1, <2>2
<1> QED
    BY <1>2, <1>3 DEF Current

-----------------------------------------------------------------------------
LEMMA InitIsCurrent == Init => IInv
<1> SUFFICES ASSUME Init PROVE IInv
    OBVIOUS
<1>1. HouseTypes
  <2>1. house \in HouseStates /\ entityState \in [Entities -> States \cup {"unknown"}]
      BY DEF Init, HouseInit, HouseStates, States
  <2>2. /\ reports \in Seq(HouseStates)
        /\ calls \in Seq(Commands)
      BY DEF Init, HouseInit
  <2> QED
      BY <2>1, <2>2 DEF Init, HouseInit, HouseTypes
<1>2. ServerTypes
    BY <1>1 DEF Init, ServerTypes
<1>3. PageTypes
    BY DEF Init, PageTypes
<1>4. OneWayToTheHouse
    BY DEF Init, HouseInit, OneWayToTheHouse
<1>5. Current
    BY DEF Init, Current
<1> QED
    BY <1>1, <1>2, <1>3, <1>4, <1>5 DEF IInv, TypeOK

\* The service keeps its types, and one way to the house.
LEMMA ServiceKeepsOneWay ==
    ASSUME HouseTypes, OneWayToTheHouse, ServiceStep
    PROVE  HouseTypes' /\ OneWayToTheHouse'
<1>1. CASE ConnectSucceeds
  <2>1. reports' \in Seq(HouseStates) /\ calls' \in Seq(Commands)
      BY <1>1 DEF ConnectSucceeds, HouseTypes
  <2> QED
      BY <1>1, <2>1 DEF ConnectSucceeds, HouseTypes, OneWayToTheHouse
<1>2. CASE ConnectFails
    BY <1>2 DEF ConnectFails, teardownConnection, scheduleReconnect, HouseTypes, OneWayToTheHouse
<1>3. CASE ReconnectFires
    BY <1>3 DEF ReconnectFires, HouseTypes, OneWayToTheHouse
<1>4. CASE Disconnected
    BY <1>4 DEF Disconnected, teardownConnection, scheduleReconnect, HouseTypes, OneWayToTheHouse
<1>5. CASE handleEntitySnapshot
  <2>1. Head(reports) \in HouseStates /\ Tail(reports) \in Seq(HouseStates)
      BY <1>5 DEF handleEntitySnapshot, HouseTypes
  <2>2. Head(reports) \in [Entities -> States \cup {"unknown"}]
      BY <2>1 DEF HouseStates
  <2> QED
      BY <1>5, <2>1, <2>2 DEF handleEntitySnapshot, HouseTypes, OneWayToTheHouse
<1> QED
    BY <1>1, <1>2, <1>3, <1>4, <1>5 DEF ServiceStep, ServiceRuns

\* The house keeps them too, and what the server knows of it.
LEMMA HouseKeepsOneWay ==
    ASSUME HouseTypes, OneWayToTheHouse, HouseStep
    PROVE  HouseTypes' /\ OneWayToTheHouse' /\ UNCHANGED <<connected, entityState>>
<1>1. CASE ConnectionBreaks
  <2>1. reports' \in Seq(HouseStates) /\ calls' \in Seq(Commands)
      BY <1>1 DEF ConnectionBreaks, HouseTypes
  <2> QED
      BY <1>1, <2>1 DEF ConnectionBreaks, HouseTypes, OneWayToTheHouse
<1>2. CASE ServiceCalled
  <2>1. Head(calls) \in Commands
        /\ Tail(calls) \in Seq(Commands)
      BY <1>2 DEF ServiceCalled, HouseTypes
  <2>2. house' \in HouseStates
      BY <1>2, <2>1 DEF ServiceCalled, HouseTypes, HouseStates, Commands, States
  <2>3. reports' \in Seq(HouseStates)
      BY <1>2, <2>2 DEF ServiceCalled, Report, HouseTypes
  <2> QED
      BY <1>2, <2>1, <2>2, <2>3 DEF ServiceCalled, HouseTypes, OneWayToTheHouse
<1>3. CASE ReachableChanges
    BY <1>3 DEF ReachableChanges, HouseTypes, OneWayToTheHouse
<1>4. ASSUME NEW e \in Entities, NEW s \in States, HouseChanges(e, s)
      PROVE  HouseTypes' /\ OneWayToTheHouse' /\ UNCHANGED <<connected, entityState>>
  <2>1. house' \in HouseStates
      BY <1>4 DEF HouseChanges, HouseTypes, HouseStates
  <2>2. reports' \in Seq(HouseStates)
      BY <1>4, <2>1 DEF HouseChanges, Report, HouseTypes
  <2> QED
      BY <1>4, <2>1, <2>2 DEF HouseChanges, HouseTypes, OneWayToTheHouse
<1> QED
    BY <1>1, <1>2, <1>3, <1>4 DEF HouseStep

-----------------------------------------------------------------------------
LEMMA StepIsCurrent == IInv /\ [Next]_vars => IInv'
<1> SUFFICES ASSUME IInv, [Next]_vars PROVE IInv'
    OBVIOUS
<1> USE DEF IInv, TypeOK, ServerTypes, PageTypes
<1>1. ASSUME NEW p \in Pages, Connect(p) PROVE IInv'
  <2>1. HouseTypes' /\ OneWayToTheHouse' /\ ServerTypes'
      BY <1>1 DEF Connect, houseVars, timerVars, HouseTypes, OneWayToTheHouse
  <2>2. \A q \in online' : q \in {p} \/ Unchanged(q)
      BY <1>1 DEF Connect, houseVars, timerVars, Unchanged
  <2>3. SyncTo({p}) /\ shown' = shown /\ pressed' = pressed
      BY <1>1 DEF Connect, syncSocket
  <2> QED
      BY <2>1, <2>2, <2>3, SyncKeepsCurrent
<1>2. ASSUME NEW p \in Pages, Disconnect(p) PROVE IInv'
  <2>1. HouseTypes' /\ OneWayToTheHouse' /\ ServerTypes'
      BY <1>2 DEF Disconnect, houseVars, timerVars, HouseTypes, OneWayToTheHouse
  <2>2. \A q \in online' : q \in {} \/ Unchanged(q)
      BY <1>2 DEF Disconnect, houseVars, timerVars, Unchanged
  <2>3. SyncTo({}) /\ shown' = shown /\ pressed' \in [Pages -> Seq(Entities)]
      BY <1>2 DEF Disconnect, NoSync
  <2> QED
      BY <2>1, <2>2, <2>3, SyncKeepsCurrent
<1>3. ASSUME NEW p \in Pages, RoleChanges(p) PROVE IInv'
  <2>1. HouseTypes' /\ OneWayToTheHouse' /\ ServerTypes'
      BY <1>3 DEF RoleChanges, houseVars, timerVars, HouseTypes, OneWayToTheHouse
  <2>2. \A q \in online' : q \in {p} \/ Unchanged(q)
      BY <1>3 DEF RoleChanges, houseVars, timerVars, Unchanged
  <2>3. SyncTo({p}) /\ shown' = shown /\ pressed' = pressed
      BY <1>3 DEF RoleChanges, syncSocket
  <2> QED
      BY <2>1, <2>2, <2>3, SyncKeepsCurrent
<1>4. ASSUME NEW p \in Pages, NicknameChanges(p) PROVE IInv'
  <2>1. HouseTypes' /\ OneWayToTheHouse' /\ ServerTypes'
      BY <1>4 DEF NicknameChanges, houseVars, timerVars, HouseTypes, OneWayToTheHouse
  <2>2. \A q \in online' : q \in {p} \/ Unchanged(q)
      BY <1>4 DEF NicknameChanges, houseVars, timerVars, Unchanged
  <2>3. SyncTo({p}) /\ shown' = shown /\ pressed' = pressed
      BY <1>4 DEF NicknameChanges, syncSocket
  <2> QED
      BY <2>1, <2>2, <2>3, SyncKeepsCurrent
<1>5. CASE ModeChanges
  <2>1. HouseTypes' /\ OneWayToTheHouse' /\ ServerTypes'
      BY <1>5 DEF ModeChanges, houseVars, socketVars, timerVars, HouseTypes, OneWayToTheHouse
  <2>2. \A q \in online' : q \in Pages \/ Unchanged(q)
      BY <2>1
  <2>3. SyncTo(Pages) /\ shown' = shown /\ pressed' = pressed
      BY <1>5 DEF ModeChanges, syncAll
  <2> QED
      BY <2>1, <2>2, <2>3, SyncKeepsCurrent
<1>6. CASE QueueActivity
  <2>0. HouseTypes' /\ OneWayToTheHouse'
      BY <1>6 DEF QueueActivity, houseVars, HouseTypes, OneWayToTheHouse
  <2>1. HouseTypes' /\ OneWayToTheHouse' /\ ServerTypes'
    <3>1. UNCHANGED <<mode, socketVars>> /\ turn' = turn + 1 /\ cooldown' \in BOOLEAN
          /\ pendingActivitySync' \in {"none", "waiting", "due"}
        BY <1>6 DEF QueueActivity, Throttled
    <3> QED
        BY <2>0, <3>1 DEF socketVars
  <2>2. shown' = shown /\ pressed' = pressed
      BY <1>6 DEF QueueActivity
  <2>3. CASE cooldown
    <3>1. \A q \in online' : q \in {} \/ Unchanged(q)
        BY <1>6, <2>3 DEF QueueActivity, Throttled, houseVars, socketVars, Unchanged
    <3>2. SyncTo({})
        BY <1>6, <2>3 DEF QueueActivity, Throttled, NoSync
    <3> QED
        BY <2>1, <2>2, <3>1, <3>2, SyncKeepsCurrent
  <2>4. CASE ~cooldown
    <3>1. \A q \in online' : q \in Pages \/ Unchanged(q)
        BY <2>1
    <3>2. SyncTo(Pages)
        BY <1>6, <2>4 DEF QueueActivity, syncAll
    <3> QED
        BY <2>1, <2>2, <3>1, <3>2, SyncKeepsCurrent
  <2> QED
      BY <2>3, <2>4
<1>7. CASE QueueChanges
  <2>1. HouseTypes' /\ OneWayToTheHouse' /\ ServerTypes'
      BY <1>7 DEF QueueChanges, houseVars, socketVars, HouseTypes, OneWayToTheHouse
  <2>2. \A q \in online' : q \in Pages \/ Unchanged(q)
      BY <2>1
  <2>3. SyncTo(Pages) /\ shown' = shown /\ pressed' = pressed
      BY <1>7 DEF QueueChanges, syncAll
  <2> QED
      BY <2>1, <2>2, <2>3, SyncKeepsCurrent
<1>8. CASE CooldownEnds
    BY <1>8 DEF CooldownEnds, houseVars, socketVars, pageVars, HouseTypes, OneWayToTheHouse,
                Current, Latest, Users
<1>9. CASE DelayedSync
  <2>1. HouseTypes' /\ OneWayToTheHouse' /\ ServerTypes'
      BY <1>9 DEF DelayedSync, houseVars, socketVars, HouseTypes, OneWayToTheHouse
  <2>2. \A q \in online' : q \in Pages \/ Unchanged(q)
      BY <2>1
  <2>3. SyncTo(Pages) /\ shown' = shown /\ pressed' = pressed
      BY <1>9 DEF DelayedSync, syncAll
  <2> QED
      BY <2>1, <2>2, <2>3, SyncKeepsCurrent
<1>10. CASE PeriodicSync
  <2>1. HouseTypes' /\ OneWayToTheHouse' /\ ServerTypes'
      BY <1>10 DEF PeriodicSync, houseVars, syncVars, socketVars, timerVars,
                   HouseTypes, OneWayToTheHouse
  <2>2. \A q \in online' : q \in Pages \/ Unchanged(q)
      BY <2>1
  <2>3. SyncTo(Pages) /\ shown' = shown /\ pressed' = pressed
      BY <1>10 DEF PeriodicSync, syncAll
  <2> QED
      BY <2>1, <2>2, <2>3, SyncKeepsCurrent
<1>11. CASE Lights
  <2>1. HouseTypes' /\ OneWayToTheHouse'
      BY <1>11, ServiceKeepsOneWay DEF Lights
  <2>2. ServerTypes' /\ shown' = shown /\ pressed' = pressed
      BY <1>11, <2>1 DEF Lights, syncVars, socketVars, timerVars
  <2>3. CASE <<connected, entityState>>' = <<connected, entityState>>
    <3>1. \A q \in online' : q \in {} \/ Unchanged(q)
        BY <1>11, <2>3 DEF Lights, syncVars, socketVars, timerVars, Unchanged
    <3>2. SyncTo({})
        BY <1>11, <2>3 DEF Lights, NoSync
    <3> QED
        BY <2>1, <2>2, <3>1, <3>2, SyncKeepsCurrent
  <2>4. CASE <<connected, entityState>>' # <<connected, entityState>>
    <3>1. \A q \in online' : q \in Pages \/ Unchanged(q)
        BY <2>2
    <3>2. SyncTo(Pages)
        BY <1>11, <2>4 DEF Lights, syncAll
    <3> QED
        BY <2>1, <2>2, <3>1, <3>2, SyncKeepsCurrent
  <2> QED
      BY <2>3, <2>4
<1>12. CASE House
  <2>1. HouseTypes' /\ OneWayToTheHouse' /\ UNCHANGED <<connected, entityState>>
      BY <1>12, HouseKeepsOneWay DEF House
  <2> QED
      BY <1>12, <2>1 DEF House, syncVars, socketVars, timerVars, pageVars, Current, Latest, Users
<1>13. ASSUME NEW p \in Pages, PageReceives(p) PROVE IInv'
  <2>1. PageTypes'
      BY <1>13 DEF PageReceives
  <2>2. \A q \in Pages : Latest(q)' = Latest(q)
      BY <1>13 DEF PageReceives, Latest
  <2> QED
      BY <1>13, <2>1, <2>2 DEF PageReceives, houseVars, syncVars, socketVars, timerVars,
                               HouseTypes, OneWayToTheHouse, Current, Users
<1>14. ASSUME NEW p \in Pages, NEW e \in Entities, Press(p, e) PROVE IInv'
  <2>1. pressed' \in [Pages -> Seq(Entities)]
      BY <1>14 DEF Press
  <2> QED
      BY <1>14, <2>1 DEF Press, houseVars, syncVars, socketVars, timerVars,
                         HouseTypes, OneWayToTheHouse, Current, Latest, Users
<1>15. ASSUME NEW p \in Pages, ToggleArrives(p) PROVE IInv'
  <2>1. Head(pressed[p]) \in Entities /\ pressed' \in [Pages -> Seq(Entities)]
      BY <1>15 DEF ToggleArrives
  <2>2. calls' \in Seq(Commands)
        /\ UNCHANGED <<house, reachable, connection, open, connecting, reconnectTimer,
                       connected, entityState, reports>>
    <3>1. CASE UNCHANGED houseVars
        BY <3>1 DEF houseVars, HouseTypes
    <3>2. ASSUME NEW e \in Entities, NEW to \in {"on", "off"}, setEntityState(e, to)
          PROVE  calls' \in Seq(Commands)
                 /\ UNCHANGED <<house, reachable, connection, open, connecting, reconnectTimer,
                                connected, entityState, reports>>
      <4>1. [entity |-> e, to |-> to] \in Commands
          BY DEF Commands
      <4> QED
          BY <3>2, <4>1 DEF setEntityState, HouseTypes
    <3> QED
        BY <1>15, <2>1, <3>1, <3>2 DEF ToggleArrives, toggleEntity
  <2>3. HouseTypes' /\ OneWayToTheHouse' /\ UNCHANGED <<connected, entityState>>
      BY <2>2 DEF HouseTypes, OneWayToTheHouse
  <2> QED
      BY <1>15, <2>1, <2>3 DEF ToggleArrives, syncVars, socketVars, timerVars, Current, Latest, Users
<1>16. CASE UNCHANGED vars
    BY <1>16 DEF vars, houseVars, syncVars, socketVars, timerVars, pageVars,
                 HouseTypes, OneWayToTheHouse, Current, Latest, Users
<1> QED
    BY <1>1, <1>2, <1>3, <1>4, <1>5, <1>6, <1>7, <1>8, <1>9, <1>10, <1>11, <1>12, <1>13,
       <1>14, <1>15, <1>16 DEF Next

-----------------------------------------------------------------------------
\* The last snapshot sent to a page that is connected says what the server's
\* state is, whatever was throttled, delayed, or lost with a connection
\* (sessionService.js, homeAssistantService.js).
THEOREM LastSnapshotIsCurrent == Spec => []IInv
<1>1. Init => IInv
    BY InitIsCurrent
<1>2. IInv /\ [Next]_vars => IInv'
    BY StepIsCurrent
<1> QED
    BY <1>1, <1>2, PTL DEF Spec

\* So a page to which nothing is on its way shows the server's state.
THEOREM PagesShowTheState == Spec => []ShownIsCurrent
<1>1. IInv => ShownIsCurrent
    BY DEF IInv, Current, Latest, ShownIsCurrent
<1> QED
    BY <1>1, LastSnapshotIsCurrent, PTL
=============================================================================
