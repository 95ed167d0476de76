---------------------------- MODULE HomeAssistant ----------------------------
(***************************************************************************)
(* homeAssistantService: the server's connection to Home Assistant, what   *)
(* it knows of the lights, and the commands it passes on.                  *)
(*                                                                         *)
(* The house is outside: it can be reached or not, runs the services it is *)
(* called for in their order, and reports every change over a connection.  *)
(* What a call answers is only logged and passed back, and left out.       *)
(***************************************************************************)
EXTENDS Naturals, Sequences

CONSTANTS
    Entities,       \* the lights and switches of the configuration
    MaxChanges,     \* bound: changes of the house and the network
    MaxCalls        \* bound: calls in flight

ASSUME HouseConstants == MaxChanges \in Nat /\ MaxCalls \in Nat

States == {"on", "off", "unavailable"}
HouseStates == [Entities -> States]
Commands == [entity : Entities, to : {"on", "off"}]

VARIABLES
    house,          \* the state of each entity, in Home Assistant
    reachable,
    connection,     \* there is a connection (not null)
    open,           \* and it has not been lost
    connecting,     \* createConnection is awaited
    reconnectTimer,
    connected,
    entityState,    \* what was last reported of each entity
    reports, calls, \* in flight, from and to Home Assistant
    changes         \* bound: changes so far

houseVars == <<house, reachable, connection, open, connecting, reconnectTimer, connected,
               entityState, reports, calls, changes>>

\* The service is loaded: connect has been called.
HouseInit ==
    /\ house = [e \in Entities |-> "off"]
    /\ reachable \in BOOLEAN
    /\ connection = FALSE /\ open = FALSE /\ connecting = TRUE /\ reconnectTimer = FALSE
    /\ connected = FALSE
    /\ entityState = [e \in Entities |-> "unknown"]
    /\ reports = <<>> /\ calls = <<>> /\ changes = 0

-----------------------------------------------------------------------------
(* The connection.                                                         *)

teardownConnection == connection' = FALSE /\ open' = FALSE /\ connected' = FALSE

\* Mutant: a reconnection that fails is the last.
scheduleReconnect_Once == UNCHANGED reconnectTimer

scheduleReconnect == reconnectTimer' = TRUE

\* subscribeEntities reports the states there are.
ConnectSucceeds ==
    /\ connecting /\ reachable
    /\ connecting' = FALSE
    /\ connection' = TRUE /\ open' = TRUE /\ connected' = TRUE
    /\ reports' = <<house>> /\ calls' = <<>>
    /\ UNCHANGED <<house, reachable, reconnectTimer, entityState, changes>>

ConnectFails ==
    /\ connecting /\ ~reachable
    /\ connecting' = FALSE
    /\ teardownConnection /\ scheduleReconnect
    /\ UNCHANGED <<house, reachable, entityState, reports, calls, changes>>

\* The timer's connect returns at once when there is a connection.
ReconnectFires ==
    /\ reconnectTimer
    /\ reconnectTimer' = FALSE
    /\ connecting' = (connecting \/ ~connection)
    /\ UNCHANGED <<house, reachable, connection, open, connected, entityState, reports, calls,
                   changes>>

\* Before the service hears of it.
ConnectionBreaks ==
    /\ open /\ ~reachable
    /\ open' = FALSE
    /\ reports' = <<>> /\ calls' = <<>>
    /\ UNCHANGED <<house, reachable, connection, connecting, reconnectTimer, connected,
                   entityState, changes>>

\* The library's event, for which the service waits: it sends no pings, and a
\* connection that went without a word stays, for all it knows.
Disconnected ==
    /\ connection /\ ~open
    /\ teardownConnection /\ scheduleReconnect
    /\ UNCHANGED <<house, reachable, connecting, entityState, reports, calls, changes>>

-----------------------------------------------------------------------------
(* Reports and commands.                                                   *)

handleEntitySnapshot ==
    /\ reports # <<>>
    /\ entityState' = Head(reports) /\ reports' = Tail(reports)
    /\ UNCHANGED <<house, reachable, connection, open, connecting, reconnectTimer, connected,
                   calls, changes>>

Report(h) == reports' = IF open THEN Append(reports, h) ELSE reports

\* Without a connection it throws; on one that is lost the call is rejected.
setEntityState(e, state) ==
    /\ Len(calls) < MaxCalls
    /\ calls' = IF connection /\ open THEN Append(calls, [entity |-> e, to |-> state]) ELSE calls
    /\ UNCHANGED <<house, reachable, connection, open, connecting, reconnectTimer, connected,
                   entityState, reports, changes>>

toggleEntity(e) == setEntityState(e, IF entityState[e] = "on" THEN "off" ELSE "on")

-----------------------------------------------------------------------------
(* The house.                                                              *)

ServiceCalled ==
    /\ calls # <<>>
    /\ LET c == Head(calls)
       IN  house' = IF house[c.entity] = "unavailable" THEN house
                    ELSE [house EXCEPT ![c.entity] = c.to]
    /\ Report(house') /\ calls' = Tail(calls)
    /\ UNCHANGED <<reachable, connection, open, connecting, reconnectTimer, connected,
                   entityState, changes>>

\* Somebody at the switch, or a plug that is pulled.
HouseChanges(e, state) ==
    /\ state # house[e] /\ changes < MaxChanges
    /\ changes' = changes + 1
    /\ house' = [house EXCEPT ![e] = state] /\ Report(house')
    /\ UNCHANGED <<reachable, connection, open, connecting, reconnectTimer, connected,
                   entityState, calls>>

ReachableChanges ==
    /\ changes < MaxChanges
    /\ reachable' = ~reachable /\ changes' = changes + 1
    /\ UNCHANGED <<house, connection, open, connecting, reconnectTimer, connected,
                   entityState, reports, calls>>

-----------------------------------------------------------------------------
\* What the service does by itself, and what it may be told.
ServiceRuns == ConnectSucceeds \/ ConnectFails \/ ReconnectFires \/ handleEntitySnapshot
ServiceStep == ServiceRuns \/ Disconnected
HouseStep == ConnectionBreaks \/ ServiceCalled \/ ReachableChanges
                  \/ \E e \in Entities, s \in States : HouseChanges(e, s)

HouseTypes ==
    /\ house \in HouseStates
    /\ entityState \in [Entities -> States \cup {"unknown"}]
    /\ reachable \in BOOLEAN /\ connection \in BOOLEAN /\ open \in BOOLEAN
    /\ connecting \in BOOLEAN /\ reconnectTimer \in BOOLEAN /\ connected \in BOOLEAN
    /\ reports \in Seq(HouseStates)
    /\ calls \in Seq(Commands)

\* There is always just one way to the house: a connection, an attempt at
\* one, or the timer of the next attempt.
OneWayToTheHouse ==
    /\ connection \/ connecting \/ reconnectTimer
    /\ ~(connection /\ connecting) /\ ~(connection /\ reconnectTimer)
    /\ ~(connecting /\ reconnectTimer)
    /\ connected = connection /\ (open => connection)
=============================================================================
