------------------------------ MODULE DiscordBot ------------------------------
(***************************************************************************)
(* discordBotService: the bot that shows in its presence how many rovers   *)
(* are ready, and carries chat between the server and a Discord channel.   *)
(* Chat has the other side of that bridge and the bot's commands.  What it *)
(* announces in other channels has no effect here and is left out.         *)
(*                                                                         *)
(* Discord is outside: it logs the bot in, lets it fetch channels then,    *)
(* takes posts, and hands the bot every message of its channels, the bot's *)
(* own included.  A presence is sent over the gateway, in order; a post is *)
(* a request that may fail.  The rovers are the server's.                  *)
(***************************************************************************)
EXTENDS Naturals, Sequences, SequencesExt, FiniteSets

CONSTANTS
    Rovers,
    MaxEvents       \* bound: changes of the rovers, commands apart

ASSUME BotConstants == MaxEvents \in Nat /\ IsFiniteSet(Rovers)

VARIABLES
    roster,         \* of each rover: gone, or there and locked or not
    login,          \* client.user is there, and "ready" has been emitted
    channelCache,   \* whether it has the channel of the bridge
    fetching,       \* posts that wait for fetchChannel
    sending,        \* posts on their way to the channel
    presences, presence,    \* on their way, and what Discord shows, if anything
    bridge,         \* Discord: who said what the bot has posted in chatBridge
    inbox,          \* the messages that Discord has for the bot
    events          \* bound: events so far

botVars == <<login, channelCache, fetching, sending, presences, presence, bridge>>

\* The bot logs in: what happened to the rovers before has left no trace in it.
BotInit ==
    /\ roster \in [Rovers -> {"gone", "unlocked"}]
    /\ login = FALSE /\ channelCache = FALSE /\ fetching = <<>> /\ sending = <<>>
    /\ presences = <<>> /\ presence = {}
    /\ bridge = <<>> /\ inbox = <<>> /\ events = 0

-----------------------------------------------------------------------------
countReady == [ready |-> Cardinality({r \in Rovers : roster[r] = "unlocked"}),
               total |-> Cardinality({r \in Rovers : roster[r] # "gone"})]

updatePresence == presences' = IF login' THEN Append(presences, countReady') ELSE presences

\* Up to its first await: the fetch of the channel, or the request itself.
sendToChannel(post) ==
    IF channelCache THEN sending' = Append(sending, post) /\ UNCHANGED fetching
    ELSE fetching' = Append(fetching, post) /\ UNCHANGED sending

\* Of a change of the mode, the rovers or a battery's lock.
handleBusEvent ==
    UNCHANGED <<login, channelCache, fetching, sending, presence, bridge>> /\ updatePresence

\* A chat message on the bus, m.said being what was said.
handleChatBridgeOutbound(m) ==
    IF m.from = "discord" THEN UNCHANGED <<fetching, sending>> ELSE sendToChannel(m.said)

-----------------------------------------------------------------------------
(* Discord answers.                                                        *)

\* Mutant: the presence is left to the next event.
Ready_NoPresence == ~login /\ login' = TRUE /\ UNCHANGED <<roster, presences>>

Ready == ~login /\ login' = TRUE /\ UNCHANGED roster /\ updatePresence

\* Without a channel the post is dropped: always before the login, and after
\* it when the request fails.
FetchEnds(i) ==
    /\ fetching' = RemoveAt(fetching, i)
    /\ \/ /\ login /\ channelCache' = TRUE
          /\ sending' = Append(sending, fetching[i])
       \/ UNCHANGED <<channelCache, sending>>

\* The request ends, well or not.
SendEnds ==
    /\ sending # <<>> /\ sending' = Tail(sending)
    /\ \/ UNCHANGED <<bridge, inbox>>
       \/ /\ bridge' = Append(bridge, Head(sending))
          /\ inbox' = Append(inbox, [author |-> "bot", text |-> "fine", said |-> Head(sending)])

PresenceShows ==
    /\ presences # <<>>
    /\ presence' = {Head(presences)} /\ presences' = Tail(presences)

BotStep ==
    \/ Ready /\ UNCHANGED <<channelCache, fetching, sending, presence, bridge, inbox>>
    \/ (\E i \in 1 .. Len(fetching) : FetchEnds(i))
         /\ UNCHANGED <<roster, login, presences, presence, bridge, inbox>>
    \/ SendEnds /\ UNCHANGED <<roster, login, channelCache, fetching, presences, presence>>
    \/ PresenceShows /\ UNCHANGED <<roster, login, channelCache, fetching, sending, bridge, inbox>>

-----------------------------------------------------------------------------
(* The events of the server, each published after the change it is about.  *)

\* upsertRover, for a rover that is new, and removeRover.
RoverComes(r) ==
    /\ roster[r] = "gone" /\ roster' = [roster EXCEPT ![r] = "unlocked"]
    /\ handleBusEvent

RoverGoes(r) ==
    /\ roster[r] # "gone" /\ roster' = [roster EXCEPT ![r] = "gone"]
    /\ handleBusEvent

\* Also for a rover that is locked, or unlocked, already.
lockRover(r, locked) ==
    /\ roster[r] # "gone"
    /\ roster' = [roster EXCEPT ![r] = IF locked THEN "locked" ELSE "unlocked"]
    /\ handleBusEvent

ModeChanges == UNCHANGED roster /\ handleBusEvent

ServerStep ==
    /\ events < MaxEvents /\ events' = events + 1
    /\ \/ \E r \in Rovers : RoverComes(r) \/ RoverGoes(r)
                              \/ \E locked \in BOOLEAN : lockRover(r, locked)
       \/ ModeChanges
    /\ UNCHANGED inbox

\* When no update is on its way, the presence counts the rovers as they are:
\* no order of login, arrivals, departures and locks leaves a stale one.
PresenceIsTrue == login /\ presences = <<>> => presence = {countReady}
=============================================================================
