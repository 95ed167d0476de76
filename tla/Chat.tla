--------------------------------- MODULE Chat ---------------------------------
(***************************************************************************)
(* The chat: the pages' panel and nicknames (ChatPanel, ChatContext,       *)
(* UserListPanel), chatService and nicknameService on the server, and the  *)
(* bridge of DiscordBot to a channel in Discord, from where admins also    *)
(* command the bot.                                                        *)
(*                                                                         *)
(* What is said is a number; of a text there is whether it is fine,        *)
(* blocked (too long, profane or a keymash) or blank, and whether it is a  *)
(* command.  Time is counted in ticks for the rate limit alone.            *)
(***************************************************************************)
EXTENDS DiscordBot

CONSTANTS
    Pages,
    Drivers,        \* those of a page that drives a rover with text to speech
    RATE_LIMIT_WINDOW, RATE_LIMIT_MAX,
    MaxShown,       \* the messages that a page keeps (100)
    MaxSaid,        \* bound: messages typed, on the pages and in Discord
    MaxConnects     \* bound: connections of the pages

ASSUME ChatConstants ==
    /\ Drivers \subseteq Pages
    /\ RATE_LIMIT_WINDOW \in Nat /\ RATE_LIMIT_MAX \in Nat
    /\ MaxShown \in Nat \ {0}
    /\ MaxSaid \in Nat /\ MaxConnects \in Nat

VARIABLES
    online,         \* the pages that are connected
    toServer, toPage,       \* in flight; toServer waits while the page is not online
    draft,          \* the text field: what is said and its kind, or nothing
    waiting,        \* the panel is sending: what, or 0
    shown,          \* the messages that the page shows
    panel,          \* the page shows the list of users, which sets the nickname
    rateBuckets, nickname,  \* the server: of the present socket of each page
    spoken,         \* what was sent to a rover to speak
    log, joined, accepted,  \* history: what was published; Len(log) when the
                            \* page connected; the ages of what it got through
    received,       \* history: all that the page was sent of the chat
    said, connects  \* bounds

pageVars == <<draft, waiting, shown, received, panel>>
serverVars == <<rateBuckets, nickname, spoken, log, accepted>>
linkVars == <<online, joined, connects>>
vars == <<roster, botVars, inbox, events, pageVars, serverVars, linkVars, toServer, toPage, said>>

NoDraft == [said |-> 0, text |-> "blank"]

\* The pages are loaded and connect; each has a nickname in its settings.
Init ==
    /\ BotInit
    /\ online = {}
    /\ toServer = [p \in Pages |-> <<>>] /\ toPage = [p \in Pages |-> <<>>]
    /\ draft = [p \in Pages |-> NoDraft] /\ waiting = [p \in Pages |-> 0]
    /\ shown = [p \in Pages |-> <<>>] /\ received = [p \in Pages |-> <<>>]
    /\ panel = [p \in Pages |-> FALSE]
    /\ rateBuckets = [p \in Pages |-> <<>>] /\ nickname = [p \in Pages |-> FALSE]
    /\ spoken = <<>> /\ log = <<>> /\ joined = [p \in Pages |-> 0]
    /\ accepted = [p \in Pages |-> <<>>]
    /\ said = 0 /\ connects = 0

-----------------------------------------------------------------------------
(* The server.                                                             *)

\* What still counts; a bucket is in the order of time.
Recent(bucket) ==
    LET old == {i \in 1 .. Len(bucket) : bucket[i] > RATE_LIMIT_WINDOW}
    IN  SubSeq(bucket, Cardinality(old) + 1, Len(bucket))

withinRateLimit(p) == Len(Recent(rateBuckets[p])) < RATE_LIMIT_MAX

\* A chat:message to everybody, and an answer to one of them.
Emit(m, p, answer) ==
    toPage' = [q \in Pages |-> toPage[q] \o (IF q \in online THEN <<m>> ELSE <<>>)
                                         \o (IF q = p THEN answer ELSE <<>>)]

\* publishEvent, to chatService itself and to the bot.
broadcastMessage(m, p, answer) ==
    /\ log' = Append(log, m)
    /\ Emit(m, p, answer)
    /\ handleChatBridgeOutbound(m)
    /\ UNCHANGED <<roster, login, channelCache, presences,
                   presence, bridge, inbox, events>>

Answer(p, type) == toPage' = [toPage EXCEPT ![p] = Append(@, [type |-> type])]

\* The rover of the driver, if it is there, is told to speak.
maybeSpeak(p, m) ==
    spoken' = IF p \in Drivers /\ \E r \in Rovers : roster[r] # "gone"
              THEN Append(spoken, m.said) ELSE spoken

\* chat:send
handleIncoming(p, d) ==
    /\ UNCHANGED nickname
    /\ rateBuckets' = [rateBuckets EXCEPT ![p] = Append(Recent(@), 0)]
    /\ IF withinRateLimit(p) /\ d.text = "fine"
       THEN LET m == [type |-> "chat", said |-> d.said, from |-> "page"]
            IN  /\ broadcastMessage(m, p, <<[type |-> "sent"]>>)
                /\ maybeSpeak(p, m)
                /\ accepted' = [accepted EXCEPT ![p] = Append(@, 0)]
       ELSE /\ Answer(p, "refused")
            /\ UNCHANGED <<roster, botVars, inbox, events, spoken, log, accepted>>

\* nickname:set
setNickname(p) ==
    /\ nickname' = [nickname EXCEPT ![p] = TRUE]
    /\ Answer(p, "named")
    /\ UNCHANGED <<roster, botVars, inbox, events, rateBuckets, spoken, log, accepted>>

ServerReceives(p) ==
    /\ p \in online /\ toServer[p] # <<>>
    /\ IF Head(toServer[p]).type = "nickname" THEN setNickname(p)
       ELSE handleIncoming(p, Head(toServer[p]).draft)
    /\ toServer' = [toServer EXCEPT ![p] = Tail(@)]
    /\ UNCHANGED <<pageVars, linkVars, said>>

Older(ages) == [i \in 1 .. Len(ages) |->
                   IF ages[i] > RATE_LIMIT_WINDOW THEN ages[i] ELSE ages[i] + 1]

\* Time passes, for messages that may still count.
Tick ==
    /\ \E p \in Pages : \E i \in 1 .. Len(rateBuckets[p]) :
           rateBuckets[p][i] <= RATE_LIMIT_WINDOW
    /\ rateBuckets' = [p \in Pages |-> Older(rateBuckets[p])]
    /\ accepted' = [p \in Pages |-> Recent(Older(accepted[p]))]
    /\ UNCHANGED <<roster, botVars, inbox, events, pageVars, linkVars, toServer, toPage,
                   nickname, spoken, log, said>>

-----------------------------------------------------------------------------
(* Discord.  Somebody writes in the channel of the bridge, or an admin     *)
(* there or elsewhere a command.  Whatever else is written, such as what   *)
(* is blocked, or a command by anybody else, is "other".                   *)

DiscordWrites(text) ==
    /\ said < MaxSaid /\ said' = said + 1
    /\ inbox' = Append(inbox, [author |-> "person", text |-> text, said |-> said + 1])
    /\ UNCHANGED <<roster, botVars, events, pageVars, serverVars, linkVars, toServer, toPage>>

\* Mutant: the bot's own messages are taken in.
Bridged_OwnToo(m) == m.text = "fine"

\* handleBridgeInbound: what goes on to the chat.
Bridged(m) == m.author # "bot" /\ m.text = "fine"

\* The bot hears of it as of any message, and does not post it again.
sendExternalMessage(m) ==
    /\ log' = Append(log, m)
    /\ Emit(m, "none", <<>>)
    /\ handleChatBridgeOutbound(m)
    /\ UNCHANGED <<roster, login, channelCache, presences, presence, bridge>>

\* Its lock and mode; the reply is awaited and changes nothing.
handleCommand(m) ==
    /\ m.author # "bot"
    /\ CASE m.text = "rs lock"   -> \E r \in Rovers : lockRover(r, TRUE)
         [] m.text = "rs unlock" -> \E r \in Rovers : lockRover(r, FALSE)
         [] m.text = "rs mode"   -> ModeChanges

Commands == {"rs lock", "rs unlock", "rs mode"}

\* Nothing comes of a command for a rover that is not there.
MessageCreate ==
    /\ inbox # <<>>
    /\ LET m == Head(inbox)
       IN  IF Bridged(m)
           THEN sendExternalMessage([type |-> "chat", said |-> m.said, from |-> "discord"])
           ELSE /\ \/ m.text \in Commands /\ handleCommand(m)
                   \/ /\ m.text # "rs mode"
                      /\ m.text \in Commands => \E r \in Rovers : roster[r] = "gone"
                      /\ UNCHANGED <<roster, botVars>>
                /\ UNCHANGED <<log, toPage>>
    /\ inbox' = Tail(inbox)
    /\ UNCHANGED <<events, pageVars, linkVars, rateBuckets, nickname, spoken, accepted,
                   toServer, said>>

Bot == BotStep /\ UNCHANGED <<events, pageVars, serverVars, linkVars, toServer, toPage, said>>
Server == ServerStep /\ UNCHANGED <<pageVars, serverVars, linkVars, toServer, toPage, said>>

-----------------------------------------------------------------------------
(* The connection.                                                         *)

Nickname == [type |-> "nickname"]

\* What was emitted meanwhile goes first, before what the page's listeners of
\* connect emit; the server sends the session.
Connect(p) ==
    /\ p \notin online /\ connects < MaxConnects
    /\ online' = online \cup {p} /\ connects' = connects + 1
    /\ joined' = [joined EXCEPT ![p] = Len(log)]
    /\ toServer' = [toServer EXCEPT ![p] = @ \o (IF panel[p] THEN <<Nickname>> ELSE <<>>)]
    /\ toPage' = [toPage EXCEPT ![p] = <<[type |-> "session"]>>]
    /\ UNCHANGED <<roster, botVars, inbox, events, pageVars, serverVars, said>>

\* With the socket go its nickname, its bucket, and what was on its way: an
\* answer that is lost leaves the panel waiting.
ConnectionLost(p) ==
    /\ p \in online /\ online' = online \ {p}
    /\ toServer' = [toServer EXCEPT ![p] = <<>>] /\ toPage' = [toPage EXCEPT ![p] = <<>>]
    /\ nickname' = [nickname EXCEPT ![p] = FALSE]
    /\ rateBuckets' = [rateBuckets EXCEPT ![p] = <<>>]
    /\ accepted' = [accepted EXCEPT ![p] = <<>>]
    /\ UNCHANGED <<roster, botVars, inbox, events, pageVars, spoken, log, joined, connects, said>>

-----------------------------------------------------------------------------
(* The page.                                                               *)

\* Also while the panel waits for an answer, which clears what it finds.
Type(p, text) ==
    /\ said < MaxSaid /\ said' = said + 1
    /\ draft' = [draft EXCEPT ![p] = [said |-> said + 1, text |-> text]]
    /\ UNCHANGED <<roster, botVars, inbox, events, waiting, shown, received, panel,
                   serverVars, linkVars, toServer, toPage>>

\* Bound: a page is refused for its rate once at a time.
FewRefused(p) == Len(Recent(rateBuckets[p])) <= RATE_LIMIT_MAX

\* A blank draft is not sent, nor any while the button is disabled; one that
\* was refused stays.
handleSend(p) ==
    /\ draft[p].text # "blank" /\ waiting[p] = 0 /\ FewRefused(p)
    /\ waiting' = [waiting EXCEPT ![p] = draft[p].said]
    /\ toServer' = [toServer EXCEPT ![p] = Append(@, [type |-> "chat", draft |-> draft[p]])]
    /\ UNCHANGED <<roster, botVars, inbox, events, draft, shown, received, panel,
                   serverVars, linkVars, toPage, said>>

\* The last n of s: all of them, if they are no more.
Latest(s, n) == IF Len(s) <= n THEN s ELSE SubSeq(s, Len(s) - n + 1, Len(s))

\* The oldest makes room.
handleMessage(p, m) ==
    /\ shown' = [shown EXCEPT ![p] = Append(Latest(@, MaxShown - 1), m)]
    /\ received' = [received EXCEPT ![p] = Append(@, m)]

\* Mutant: the nickname is left to the connect listener.
MustName_Never(m) == FALSE

\* UserListPanel's effect, upon the session of another socket.
MustName(m) == m.type = "session"

PageReceives(p) ==
    /\ toPage[p] # <<>>
    /\ LET m == Head(toPage[p])
       IN  /\ IF m.type = "chat" THEN handleMessage(p, m)
              ELSE UNCHANGED <<shown, received>>
           /\ waiting' = IF m.type \in {"sent", "refused"} THEN [waiting EXCEPT ![p] = 0]
                         ELSE waiting
           /\ draft' = IF m.type = "sent" THEN [draft EXCEPT ![p] = NoDraft] ELSE draft
           /\ panel' = IF m.type = "session" THEN [panel EXCEPT ![p] = TRUE] ELSE panel
           /\ toServer' = IF MustName(m) THEN [toServer EXCEPT ![p] = Append(@, Nickname)]
                          ELSE toServer
    /\ toPage' = [toPage EXCEPT ![p] = Tail(@)]
    /\ UNCHANGED <<roster, botVars, inbox, events, serverVars, linkVars, said>>

-----------------------------------------------------------------------------
PageTexts == {"fine", "blocked"}
DiscordTexts == {"fine", "other"} \cup Commands

Next ==
    \/ \E p \in Pages : \/ ServerReceives(p) \/ Connect(p) \/ ConnectionLost(p)
                        \/ handleSend(p) \/ PageReceives(p)
                        \/ \E text \in PageTexts : Type(p, text)
    \/ \E text \in DiscordTexts : DiscordWrites(text)
    \/ MessageCreate \/ Tick \/ Bot \/ Server

\* Messages arrive on a connection that lasts.
Fairness ==
    \A p \in Pages : WF_vars(ServerReceives(p)) /\ WF_vars(PageReceives(p))

Spec == Init /\ [][Next]_vars /\ Fairness

-----------------------------------------------------------------------------
TypeOK ==
    /\ roster \in [Rovers -> {"gone", "unlocked", "locked"}]
    /\ login \in BOOLEAN /\ channelCache \in BOOLEAN
    /\ online \subseteq Pages /\ nickname \in [Pages -> BOOLEAN]
    /\ waiting \in [Pages -> Nat] /\ panel \in [Pages -> BOOLEAN]

Said(messages) == [i \in 1 .. Len(messages) |-> messages[i].said]

\* What a page got of the chat, and of answers on their way after it.
Coming(p) == received[p] \o toPage[p]

\* The messages of s are of the log l, and in its order.
InOrder(s, l) ==
    /\ \A k \in 1 .. Len(s) : s[k].type = "chat" => \E i \in 1 .. Len(l) : s[k] = l[i]
    /\ \A k, n \in 1 .. Len(s) :
           k < n /\ s[k].type = "chat" /\ s[n].type = "chat" =>
               \E i, j \in 1 .. Len(l) : i < j /\ s[k] = l[i] /\ s[n] = l[j]

HasAllSince(s, l, n) == \A i \in n + 1 .. Len(l) : \E k \in 1 .. Len(s) : s[k] = l[i]

NothingTwice == IsInjective(Said(log)) /\ IsInjective(spoken) /\ IsInjective(bridge)

NothingGoesRound ==
    \A i \in 1 .. Len(bridge) : \E j \in 1 .. Len(log) :
        log[j].said = bridge[i] /\ log[j].from = "page"

PagesFollow ==
    /\ \A p \in Pages : InOrder(Coming(p), log)
    /\ \A p \in online : HasAllSince(Coming(p), log, joined[p])

ShowsLatest == \A p \in Pages : shown[p] = Latest(received[p], MaxShown)

SentIsShown ==
    \A p \in online : toPage[p] # <<>> /\ Head(toPage[p]).type = "sent" =>
        shown[p] # <<>> /\ shown[p][Len(shown[p])].said = waiting[p]

RateIsKept == \A p \in Pages : Len(accepted[p]) <= RATE_LIMIT_MAX

\* Whatever is said is published once, spoken once, and posted in Discord once,
\* unless it comes from there: nothing goes round the bridge.  A page is sent
\* everything that is published while it is connected, over all its connections
\* in the order of the log; it shows the last of it, as many as it keeps, and
\* what it said is the last that it shows when it is told that it was sent.  No
\* socket gets more through, within any window, than the limit.
SaidOnce ==
    /\ TypeOK /\ NothingTwice /\ NothingGoesRound
    /\ PagesFollow /\ ShowsLatest /\ SentIsShown /\ RateIsKept

\* A page that stays connected comes to be known by its nickname, and its
\* panel stops waiting if the answer was not lost with an earlier connection.
PageSettles ==
    \A p \in Pages :
        /\ <>[](p \in online) => <>[]nickname[p]
        /\ (p \in online /\ \E i \in 1 .. Len(toServer[p]) : toServer[p][i].type = "chat")
              ~> (waiting[p] = 0 \/ p \notin online)
=============================================================================
