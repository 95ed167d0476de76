------------------------------ MODULE ChatProofs ------------------------------
(***************************************************************************)
(* For any rovers, pages and bounds: the bot's presence is never left      *)
(* stale (PresenceIsTrue), and what is said is said once, to everybody and *)
(* in order (SaidOnce).                                                    *)
(*                                                                         *)
(* The invariant of the presence says of the last update, sent or shown,   *)
(* what the property says of the one that is shown.  Nothing that changes  *)
(* a rover, in the server's own events or in a command given in Discord,   *)
(* can be done without an update (UpdateIsTrue).                           *)
(*                                                                         *)
(* SaidInv follows each number through its life.  A page holds it in its   *)
(* text field, or waits for its answer, and no one else has it             *)
(* (NumbersInv); of a panel that waits there is at most one request or one *)
(* answer on its way (AsksOnce, AnsweredOnce), so what is published is not *)
(* in the log yet.  On the bridge it is in one place (BridgeInv).  The     *)
(* order of the log reaches the pages by lemmas about sequences            *)
(* (MessageComes, OtherIsTaken, MessageIsTaken), of which a page shows the *)
(* last (LatestGrows), and the rate is kept as what got through is,        *)
(* counted from the newest, no younger than what the bucket counts         *)
(* (Within).                                                               *)
(***************************************************************************)
EXTENDS Chat, FiniteSetTheorems, SequenceTheorems, TLAPS

Counts == [ready : Nat, total : Nat]

LastIsTrue ==
    login => IF presences = <<>> THEN presence = {countReady}
             ELSE presences[Len(presences)] = countReady

PresenceInv ==
    /\ roster \in [Rovers -> {"gone", "unlocked", "locked"}]
    /\ presences \in Seq(Counts)
    /\ LastIsTrue

-----------------------------------------------------------------------------
LEMMA CountTypes == countReady \in Counts
<1>1. IsFiniteSet(Rovers)
    BY BotConstants
<1>2. \A S \in SUBSET Rovers : Cardinality(S) \in Nat
    BY <1>1, FS_Subset, FS_CardinalityType
<1>3. /\ {r \in Rovers : roster[r] = "unlocked"} \in SUBSET Rovers
      /\ {r \in Rovers : roster[r] # "gone"} \in SUBSET Rovers
    OBVIOUS
<1> QED
    BY <1>2, <1>3 DEF countReady, Counts

\* The same of the next state.
LEMMA CountTypesNext == countReady' \in Counts
<1>1. IsFiniteSet(Rovers)
    BY BotConstants
<1>2. \A S \in SUBSET Rovers : Cardinality(S) \in Nat
    BY <1>1, FS_Subset, FS_CardinalityType
<1>3. /\ {r \in Rovers : roster'[r] = "unlocked"} \in SUBSET Rovers
      /\ {r \in Rovers : roster'[r] # "gone"} \in SUBSET Rovers
    OBVIOUS
<1> QED
    BY <1>2, <1>3 DEF countReady, Counts

\* After an update the last one is true, whatever has changed.
LEMMA UpdateIsTrue ==
    ASSUME PresenceInv, updatePresence,
           roster' \in [Rovers -> {"gone", "unlocked", "locked"}]
    PROVE  PresenceInv'
<1>1. CASE login'
  <2>1. presences' = Append(presences, countReady')
      BY <1>1 DEF updatePresence
  <2>2. presences' \in Seq(Counts) /\ presences' # <<>>
        /\ presences'[Len(presences')] = countReady'
      BY <2>1, CountTypesNext DEF PresenceInv
  <2> QED
      BY <2>2 DEF PresenceInv, LastIsTrue
<1>2. CASE ~login'
    BY <1>2 DEF updatePresence, PresenceInv, LastIsTrue
<1> QED
    BY <1>1, <1>2

\* Without a change of the rovers or the presence nothing has to be told.
LEMMA NothingToTell ==
    ASSUME PresenceInv, UNCHANGED <<roster, login, presences, presence>>
    PROVE  PresenceInv'
BY DEF PresenceInv, LastIsTrue, countReady

\* A rover comes, goes, or is locked or unlocked by anybody.
LEMMA RoversChange ==
    ASSUME PresenceInv, NEW r \in Rovers,
           \/ RoverComes(r) \/ RoverGoes(r)
           \/ \E locked \in BOOLEAN : lockRover(r, locked)
    PROVE  PresenceInv'
<1>1. updatePresence
    BY DEF RoverComes, RoverGoes, lockRover, handleBusEvent
<1>2. roster' \in [Rovers -> {"gone", "unlocked", "locked"}]
    BY DEF RoverComes, RoverGoes, lockRover, PresenceInv
<1> QED
    BY <1>1, <1>2, UpdateIsTrue

LEMMA ModeTold == ASSUME PresenceInv, ModeChanges PROVE PresenceInv'
BY UpdateIsTrue DEF ModeChanges, handleBusEvent, PresenceInv

-----------------------------------------------------------------------------
LEMMA BotTells == ASSUME PresenceInv, BotStep PROVE PresenceInv'
<1>1. CASE Ready
    BY <1>1, UpdateIsTrue DEF Ready, PresenceInv
<1>2. CASE PresenceShows /\ UNCHANGED <<roster, login>>
  <2>1. /\ presences # <<>> /\ presences' = Tail(presences)
        /\ presence' = {Head(presences)}
      BY <1>2 DEF PresenceShows
  <2>2. presences \in Seq(Counts) /\ presences' \in Seq(Counts)
      BY <2>1 DEF PresenceInv
  <2>3. countReady' = countReady
      BY <1>2 DEF countReady
  <2>4. CASE Len(presences) = 1
    <3>1. presences' = <<>> /\ Head(presences) = presences[Len(presences)]
        BY <2>1, <2>2, <2>4
    <3> QED
        BY <1>2, <2>1, <2>2, <2>3, <3>1 DEF PresenceInv, LastIsTrue
  <2>5. CASE Len(presences) # 1
    <3>1. Len(presences) \in Nat /\ Len(presences) # 0
        BY <2>1, <2>2
    <3>2. Len(Tail(presences)) = Len(presences) - 1
        BY <2>1, <2>2
    <3>3. Len(presences') = Len(presences) - 1 /\ Len(presences') > 0
        BY <2>1, <2>5, <3>1, <3>2
    <3>4. presences' # <<>>
        BY <2>2, <3>3
    <3>5. presences'[Len(presences')] = presences[Len(presences)]
        BY <2>1, <2>2, <3>3
    <3>6. LastIsTrue'
        BY <1>2, <2>1, <2>3, <3>4, <3>5 DEF PresenceInv, LastIsTrue
    <3> QED
        BY <1>2, <2>2, <3>6 DEF PresenceInv
  <2> QED
      BY <2>4, <2>5
<1>3. CASE UNCHANGED <<roster, login, presences, presence>>
    BY <1>3, NothingToTell
<1> QED
    BY <1>1, <1>2, <1>3 DEF BotStep

LEMMA CommandsTell == ASSUME PresenceInv, MessageCreate PROVE PresenceInv'
<1>1. CASE UNCHANGED <<roster, login, presences, presence>>
    BY <1>1, NothingToTell
<1>2. ASSUME NEW m, m.text \in Commands, handleCommand(m) PROVE PresenceInv'
    BY <1>2, RoversChange, ModeTold DEF handleCommand, Commands
<1> QED
    BY <1>1, <1>2 DEF MessageCreate, sendExternalMessage, botVars

LEMMA StepTells == PresenceInv /\ [Next]_vars => PresenceInv'
<1> SUFFICES ASSUME PresenceInv, [Next]_vars PROVE PresenceInv'
    OBVIOUS
<1>1. ASSUME NEW p \in Pages, ServerReceives(p)
      PROVE  UNCHANGED <<roster, login, presences, presence>>
    BY <1>1 DEF ServerReceives, setNickname, handleIncoming, broadcastMessage, botVars
<1>2. ASSUME NEW p \in Pages,
             \/ Connect(p) \/ ConnectionLost(p) \/ handleSend(p) \/ PageReceives(p)
             \/ \E text \in PageTexts : Type(p, text)
      PROVE  UNCHANGED <<roster, login, presences, presence>>
    BY <1>2 DEF Connect, ConnectionLost, handleSend, PageReceives, Type, botVars
<1>3. ASSUME NEW text \in DiscordTexts, DiscordWrites(text)
      PROVE  UNCHANGED <<roster, login, presences, presence>>
    BY <1>3 DEF DiscordWrites, botVars
<1>4. CASE MessageCreate
    BY <1>4, CommandsTell
<1>5. CASE Tick \/ UNCHANGED vars
    BY <1>5, NothingToTell DEF Tick, vars, botVars
<1>6. CASE Bot
    BY <1>6, BotTells DEF Bot
<1>7. CASE Server
    BY <1>7, RoversChange, ModeTold DEF Server, ServerStep
<1> QED
    BY <1>1, <1>2, <1>3, <1>4, <1>5, <1>6, <1>7, NothingToTell DEF Next

LEMMA InitTells == Init => PresenceInv
BY DEF Init, BotInit, PresenceInv, LastIsTrue

-----------------------------------------------------------------------------
\* The last presence that the bot has sent counts the rovers as they are, from
\* its login on (discordBotService.js updatePresence and its callers).
THEOREM LastPresenceIsTrue == Spec => []PresenceInv
BY InitTells, StepTells, PTL DEF Spec

\* So what Discord shows is true when no update is on its way.
THEOREM PresenceStaysTrue == Spec => []PresenceIsTrue
<1>1. PresenceInv => PresenceIsTrue
    BY DEF PresenceInv, LastIsTrue, PresenceIsTrue
<1> QED
    BY <1>1, LastPresenceIsTrue, PTL

-----------------------------------------------------------------------------
(* What is said.                                                           *)

LogEntry == [type : {"chat"}, said : Nat, from : {"page", "discord"}]
Answers == [type : {"sent", "refused", "named", "session"}]
Drafts == [said : Nat, text : {"fine", "blocked", "blank"}]
Requests == [type : {"nickname"}] \cup [type : {"chat"}, draft : Drafts]
Posts == [author : {"bot", "person"}, text : DiscordTexts, said : Nat]
Ages == 0 .. RATE_LIMIT_WINDOW + 1

ChatTypes ==
    /\ login \in BOOLEAN /\ channelCache \in BOOLEAN
    /\ online \subseteq Pages
    /\ nickname \in [Pages -> BOOLEAN] /\ panel \in [Pages -> BOOLEAN]
    /\ said \in Nat
    /\ log \in Seq(LogEntry) /\ joined \in [Pages -> Nat]
    /\ shown \in [Pages -> Seq(LogEntry)] /\ received \in [Pages -> Seq(LogEntry)]
    /\ toPage \in [Pages -> Seq(LogEntry \cup Answers)]
    /\ toServer \in [Pages -> Seq(Requests)]
    /\ draft \in [Pages -> Drafts] /\ waiting \in [Pages -> Nat]
    /\ inbox \in Seq(Posts)
    /\ fetching \in Seq(Nat) /\ sending \in Seq(Nat) /\ bridge \in Seq(Nat)
    /\ spoken \in Seq(Nat)
    /\ rateBuckets \in [Pages -> Seq(Ages)] /\ accepted \in [Pages -> Seq(Ages)]

Unsaid(n) == \A i \in 1 .. Len(log) : log[i].said # n

\* The page has the number in its text field or waits for its answer.
Holds(p, n) == n # 0 /\ (draft[p].said = n \/ waiting[p] = n)

\* A number is published once, and from one place.
LogNumbers ==
    /\ \A i \in 1 .. Len(log) : log[i].said \in 1 .. said
    /\ \A i, j \in 1 .. Len(log) : log[i].said = log[j].said => i = j

PageNumbers ==
    /\ \A p \in Pages : draft[p].said <= said /\ waiting[p] <= said
    /\ \A p \in Pages : draft[p].text # "blank" => draft[p].said # 0
    /\ \A p, q \in Pages, n \in 1 .. said : Holds(p, n) /\ Holds(q, n) => p = q
    /\ \A p \in Pages : draft[p].said # waiting[p] => Unsaid(draft[p].said)

InboxNumbers ==
    /\ \A i \in 1 .. Len(inbox) : inbox[i].author = "person" =>
           /\ inbox[i].said \in 1 .. said /\ Unsaid(inbox[i].said)
           /\ \A p \in Pages : ~Holds(p, inbox[i].said)
    /\ \A i, j \in 1 .. Len(inbox) :
           inbox[i].author = "person" /\ inbox[j].author = "person"
               /\ inbox[i].said = inbox[j].said => i = j

Asks(p, i) == i \in 1 .. Len(toServer[p]) /\ toServer[p][i].type = "chat"
Answered(p, i) == i \in 1 .. Len(toPage[p]) /\ toPage[p][i].type \in {"sent", "refused"}

\* A panel that waits has one request on its way, or one answer, or lost it.
AsksOnce(p) ==
    \A i \in 1 .. Len(toServer[p]) : Asks(p, i) =>
        /\ toServer[p][i].draft.said = waiting[p] /\ waiting[p] # 0
        /\ Unsaid(waiting[p])
        /\ \A j \in 1 .. Len(toServer[p]) : Asks(p, j) => i = j
        /\ \A j \in 1 .. Len(toPage[p]) : ~Answered(p, j)

LastShown(p, n) == shown[p] # <<>> /\ shown[p][Len(shown[p])].said = n

\* What comes before the answer at i: the message, on its way or shown last.
ComesBefore(p, i) ==
    IF i = 1 THEN LastShown(p, waiting[p])
    ELSE toPage[p][i - 1].type = "chat" /\ toPage[p][i - 1].said = waiting[p]

AnsweredOnce(p) ==
    \A i \in 1 .. Len(toPage[p]) : Answered(p, i) =>
        /\ waiting[p] # 0
        /\ \A j \in 1 .. Len(toPage[p]) : Answered(p, j) => i = j
        /\ toPage[p][i].type = "refused" => Unsaid(waiting[p])
        /\ toPage[p][i].type = "sent" => ComesBefore(p, i)

NumbersInv ==
    /\ LogNumbers /\ PageNumbers /\ InboxNumbers
    /\ \A p \in Pages : AsksOnce(p) /\ AnsweredOnce(p)

FromPage(n) == \E j \in 1 .. Len(log) : log[j].said = n /\ log[j].from = "page"

Has(s, n) == \E i \in 1 .. Len(s) : s[i] = n

\* A post is in one place on its way to Discord, and was said on a page.
BridgeInv ==
    /\ IsInjective(fetching) /\ IsInjective(sending) /\ IsInjective(bridge)
    /\ \A n \in Nat :
           /\ Has(fetching, n) => FromPage(n) /\ ~Has(sending, n) /\ ~Has(bridge, n)
           /\ Has(sending, n) => FromPage(n) /\ ~Has(bridge, n)
           /\ Has(bridge, n) => FromPage(n)

SpokenInv == IsInjective(spoken) /\ \A n \in Nat : Has(spoken, n) => ~Unsaid(n)

\* Older than any age comes before the rest.
Sorted(b) == \A a \in 0 .. RATE_LIMIT_WINDOW : \E n \in 0 .. Len(b) :
                 \A i \in 1 .. Len(b) : b[i] > a <=> i <= n

\* Counted from the newest, what got through is no younger than what was asked.
Within(a, b) ==
    /\ Len(a) <= Len(b)
    /\ \A k \in 0 .. Len(a) - 1 : a[Len(a) - k] >= b[Len(b) - k]

RateInv ==
    \A p \in Pages :
        /\ Sorted(rateBuckets[p]) /\ Sorted(accepted[p])
        /\ \A i \in 1 .. Len(accepted[p]) : accepted[p][i] <= RATE_LIMIT_WINDOW
        /\ Within(accepted[p], rateBuckets[p])
        /\ Len(accepted[p]) <= RATE_LIMIT_MAX

SaidInv ==
    /\ ChatTypes /\ NumbersInv /\ BridgeInv /\ SpokenInv
    /\ PagesFollow /\ ShowsLatest /\ RateInv

-----------------------------------------------------------------------------
\* The last n of a sequence, one by one.
LEMMA LatestProperties ==
    ASSUME NEW S, NEW s \in Seq(S), NEW n \in Nat
    PROVE  /\ Latest(s, n) \in Seq(S)
           /\ Len(s) <= n => Latest(s, n) = s
           /\ Len(s) > n => /\ Len(Latest(s, n)) = n
                            /\ \A i \in 1 .. n : Latest(s, n)[i] = s[Len(s) - n + i]
<1>1. Len(s) \in Nat /\ \A i \in 1 .. Len(s) : s[i] \in S
    BY LenProperties, ElementOfSeq
<1>2. CASE Len(s) <= n
    BY <1>1, <1>2 DEF Latest
<1>3. CASE Len(s) > n
  <2>1. Len(s) - n + 1 \in Int /\ \A i \in Len(s) - n + 1 .. Len(s) : s[i] \in S
      BY <1>1, <1>3
  <2>2. Latest(s, n) = SubSeq(s, Len(s) - n + 1, Len(s))
      BY <1>1, <1>3 DEF Latest
  <2>3. /\ Latest(s, n) \in Seq(S)
        /\ Len(Latest(s, n)) = IF Len(s) - n + 1 <= Len(s)
                               THEN Len(s) - (Len(s) - n + 1) + 1 ELSE 0
        /\ \A i \in 1 .. Len(s) - (Len(s) - n + 1) + 1 :
               Latest(s, n)[i] = s[(Len(s) - n + 1) + i - 1]
      BY <1>1, <2>1, <2>2, SubSeqProperties
  <2> HIDE DEF Latest
  <2>4. Len(s) - (Len(s) - n + 1) + 1 = n
      BY <1>1
  <2>5. Len(Latest(s, n)) = n
      BY <1>1, <1>3, <2>3
  <2>6. \A i \in 1 .. n : Latest(s, n)[i] = s[Len(s) - n + i]
    <3> TAKE i \in 1 .. n
    <3>1. (Len(s) - n + 1) + i - 1 = Len(s) - n + i
        BY <1>1
    <3> QED
        BY <2>3, <2>4, <3>1
  <2> QED
      BY <1>3, <2>3, <2>5, <2>6
<1> QED
    BY <1>1, <1>2, <1>3

LEMMA InitTypes == Init => ChatTypes
<1> SUFFICES ASSUME Init PROVE ChatTypes
    OBVIOUS
<1>1. \A S : <<>> \in Seq(S)
    OBVIOUS
<1>2. NoDraft \in Drafts
    BY DEF NoDraft, Drafts
<1>3. login \in BOOLEAN /\ channelCache \in BOOLEAN /\ online \subseteq Pages /\ said \in Nat
    BY DEF Init, BotInit
<1>4. /\ nickname \in [Pages -> BOOLEAN] /\ panel \in [Pages -> BOOLEAN]
      /\ joined \in [Pages -> Nat] /\ waiting \in [Pages -> Nat] /\ draft \in [Pages -> Drafts]
    BY <1>2 DEF Init
<1>5. /\ \A p \in Pages : /\ toPage[p] = <<>> /\ toServer[p] = <<>>
                          /\ shown[p] = <<>> /\ received[p] = <<>>
      /\ toPage = [p \in Pages |-> toPage[p]] /\ toServer = [p \in Pages |-> toServer[p]]
      /\ shown = [p \in Pages |-> shown[p]] /\ received = [p \in Pages |-> received[p]]
    BY DEF Init
<1>6. /\ toPage \in [Pages -> Seq(LogEntry \cup Answers)] /\ toServer \in [Pages -> Seq(Requests)]
      /\ shown \in [Pages -> Seq(LogEntry)] /\ received \in [Pages -> Seq(LogEntry)]
    BY <1>1, <1>5
<1>7. /\ \A p \in Pages : rateBuckets[p] = <<>> /\ accepted[p] = <<>>
      /\ rateBuckets = [p \in Pages |-> rateBuckets[p]] /\ accepted = [p \in Pages |-> accepted[p]]
    BY DEF Init
<1>8. rateBuckets \in [Pages -> Seq(Ages)] /\ accepted \in [Pages -> Seq(Ages)]
    BY <1>1, <1>7
<1>9. /\ log \in Seq(LogEntry) /\ inbox \in Seq(Posts) /\ spoken \in Seq(Nat)
      /\ fetching \in Seq(Nat) /\ sending \in Seq(Nat) /\ bridge \in Seq(Nat)
    BY <1>1 DEF Init, BotInit
<1> QED
    BY <1>3, <1>4, <1>6, <1>8, <1>9 DEF ChatTypes

\* What is published is a message, which is added to the log and goes to
\* those who are online, and to whom it is answered.
LEMMA PublishTypes ==
    ASSUME ChatTypes, NEW m \in LogEntry, NEW p, NEW answer \in Seq(Answers),
           log' = Append(log, m), Emit(m, p, answer), handleChatBridgeOutbound(m),
           UNCHANGED channelCache
    PROVE  /\ log' \in Seq(LogEntry)
           /\ toPage' \in [Pages -> Seq(LogEntry \cup Answers)]
           /\ fetching' \in Seq(Nat) /\ sending' \in Seq(Nat)
<1>1. log' \in Seq(LogEntry)
    BY DEF ChatTypes
<1>2. ASSUME NEW q \in Pages
      PROVE  toPage[q] \o (IF q \in online THEN <<m>> ELSE <<>>)
                       \o (IF q = p THEN answer ELSE <<>>) \in Seq(LogEntry \cup Answers)
  <2> DEFINE S == LogEntry \cup Answers
  <2>1. toPage[q] \in Seq(S)
      BY DEF ChatTypes
  <2>2. m \in S
      OBVIOUS
  <2>3. answer \in Seq(S)
      BY SeqMonotonic
  <2> HIDE DEF S
  <2>4. (IF q \in online THEN <<m>> ELSE <<>>) \in Seq(S)
      BY <2>2
  <2>5. (IF q = p THEN answer ELSE <<>>) \in Seq(S)
      BY <2>3
  <2>6. toPage[q] \o (IF q \in online THEN <<m>> ELSE <<>>)
            \o (IF q = p THEN answer ELSE <<>>) \in Seq(S)
      BY <2>1, <2>4, <2>5, ConcatProperties
  <2> QED
      BY <2>6 DEF S
<1>3. toPage' \in [Pages -> Seq(LogEntry \cup Answers)]
    BY <1>2 DEF Emit
<1>4. fetching' \in Seq(Nat) /\ sending' \in Seq(Nat)
  <2>1. m.said \in Nat /\ fetching \in Seq(Nat) /\ sending \in Seq(Nat)
      BY DEF ChatTypes, LogEntry
  <2>2. Append(fetching, m.said) \in Seq(Nat) /\ Append(sending, m.said) \in Seq(Nat)
      BY <2>1, AppendProperties
  <2> QED
      BY <2>1, <2>2 DEF handleChatBridgeOutbound, sendToChannel
<1> QED
    BY <1>1, <1>3, <1>4

LEMMA RecentTypes ==
    ASSUME NEW b \in Seq(Ages) PROVE Recent(b) \in Seq(Ages)
<1> DEFINE old == {i \in 1 .. Len(b) : b[i] > RATE_LIMIT_WINDOW}
<1>1. Cardinality(old) \in Nat
  <2>1. IsFiniteSet(1 .. Len(b))
      BY FS_Interval
  <2> QED
      BY <2>1, FS_Subset, FS_CardinalityType
<1>2. \A i \in Cardinality(old) + 1 .. Len(b) : b[i] \in Ages
    BY <1>1
<1>3. SubSeq(b, Cardinality(old) + 1, Len(b)) \in Seq(Ages)
    BY <1>1, <1>2, SubSeqProperties
<1> QED
    BY <1>3 DEF Recent

LEMMA AnswerTypes ==
    ASSUME ChatTypes, NEW p \in Pages, NEW type \in {"sent", "refused", "named", "session"},
           Answer(p, type)
    PROVE  toPage' \in [Pages -> Seq(LogEntry \cup Answers)]
<1>1. toPage \in [Pages -> Seq(LogEntry \cup Answers)]
    BY DEF ChatTypes
<1>2. [type |-> type] \in LogEntry \cup Answers
    BY DEF Answers
<1>3. Append(toPage[p], [type |-> type]) \in Seq(LogEntry \cup Answers)
    BY <1>1, <1>2, AppendProperties
<1> QED
    BY <1>1, <1>3 DEF Answer

LEMMA ServerReceivesTypes ==
    ASSUME ChatTypes, NEW p \in Pages, ServerReceives(p) PROVE ChatTypes'
<1> DEFINE r == Head(toServer[p])
<1>1. /\ toServer[p] \in Seq(Requests) /\ r \in Requests
      /\ toServer' \in [Pages -> Seq(Requests)]
    BY DEF ServerReceives, ChatTypes
<1>2. UNCHANGED <<pageVars, linkVars, said>>
    BY DEF ServerReceives
<1>3. CASE r.type = "nickname"
  <2>1. setNickname(p)
      BY <1>3 DEF ServerReceives
  <2>2. toPage' \in [Pages -> Seq(LogEntry \cup Answers)]
      BY <2>1, AnswerTypes DEF setNickname
  <2> QED
      BY <1>1, <1>2, <2>1, <2>2 DEF setNickname, ChatTypes, pageVars, linkVars, botVars
<1>4. CASE r.type # "nickname"
  <2> DEFINE d == r.draft
  <2>1. handleIncoming(p, d)
      BY <1>4 DEF ServerReceives
  <2>2. d \in Drafts
      BY <1>1, <1>4 DEF Requests
  <2>3. rateBuckets' \in [Pages -> Seq(Ages)]
    <3>1. rateBuckets[p] \in Seq(Ages)
        BY DEF ChatTypes
    <3>2. Append(Recent(rateBuckets[p]), 0) \in Seq(Ages)
        BY <3>1, RecentTypes, ChatConstants DEF Ages
    <3> QED
        BY <2>1, <3>2 DEF handleIncoming, ChatTypes
  <2>4. CASE withinRateLimit(p) /\ d.text = "fine"
    <3> DEFINE m == [type |-> "chat", said |-> d.said, from |-> "page"]
    <3>1. m \in LogEntry /\ <<[type |-> "sent"]>> \in Seq(Answers)
        BY <2>2 DEF Drafts, LogEntry, Answers
    <3>2. broadcastMessage(m, p, <<[type |-> "sent"]>>) /\ maybeSpeak(p, m)
          /\ accepted' = [accepted EXCEPT ![p] = Append(@, 0)]
        BY <2>1, <2>4 DEF handleIncoming
    <3>3. accepted' \in [Pages -> Seq(Ages)]
        BY <3>2, ChatConstants DEF ChatTypes, Ages
    <3>4. spoken' \in Seq(Nat)
        BY <3>1, <3>2 DEF maybeSpeak, ChatTypes, LogEntry
    <3>5. /\ log' \in Seq(LogEntry)
          /\ toPage' \in [Pages -> Seq(LogEntry \cup Answers)]
          /\ fetching' \in Seq(Nat) /\ sending' \in Seq(Nat)
        BY <3>1, <3>2, PublishTypes DEF broadcastMessage
    <3> QED
        BY <1>1, <1>2, <2>1, <2>3, <3>2, <3>3, <3>4, <3>5
        DEF handleIncoming, broadcastMessage, ChatTypes, pageVars, linkVars
  <2>5. CASE ~(withinRateLimit(p) /\ d.text = "fine")
    <3>1. Answer(p, "refused")
          /\ UNCHANGED <<roster, botVars, inbox, events, spoken, log, accepted>>
        BY <2>1, <2>5 DEF handleIncoming
    <3>2. toPage' \in [Pages -> Seq(LogEntry \cup Answers)]
        BY <3>1, AnswerTypes
    <3> QED
        BY <1>1, <1>2, <2>1, <2>3, <3>1, <3>2
        DEF handleIncoming, ChatTypes, pageVars, linkVars, botVars
  <2> QED
      BY <2>4, <2>5
<1> QED
    BY <1>3, <1>4

LEMMA MessageCreateTypes == ASSUME ChatTypes, MessageCreate PROVE ChatTypes'
<1> DEFINE m == Head(inbox)
<1>1. m \in Posts /\ inbox' \in Seq(Posts)
  <2>1. inbox \in Seq(Posts) /\ inbox # <<>> /\ inbox' = Tail(inbox)
      BY DEF MessageCreate, ChatTypes
  <2> QED
      BY <2>1
<1>2. CASE Bridged(m)
  <2> DEFINE e == [type |-> "chat", said |-> m.said, from |-> "discord"]
  <2>1. sendExternalMessage(e)
      BY <1>2 DEF MessageCreate
  <2>2. e \in LogEntry /\ <<>> \in Seq(Answers)
      BY <1>1 DEF Posts, LogEntry
  <2>3. /\ log' \in Seq(LogEntry)
        /\ toPage' \in [Pages -> Seq(LogEntry \cup Answers)]
        /\ fetching' \in Seq(Nat) /\ sending' \in Seq(Nat)
      BY <2>1, <2>2, PublishTypes DEF sendExternalMessage
  <2> QED
      BY <1>1, <2>1, <2>3
      DEF MessageCreate, sendExternalMessage, ChatTypes, pageVars, linkVars
<1>3. CASE ~Bridged(m)
  <2>1. UNCHANGED <<login, channelCache, fetching, sending, bridge, log, toPage>>
      BY <1>3 DEF MessageCreate, handleCommand, lockRover, ModeChanges, handleBusEvent,
                  botVars, Commands
  <2> QED
      BY <1>1, <2>1 DEF MessageCreate, ChatTypes, pageVars, linkVars
<1> QED
    BY <1>2, <1>3

LEMMA BotTypes == ASSUME ChatTypes, Bot \/ Server PROVE ChatTypes'
<1>1. UNCHANGED <<pageVars, serverVars, linkVars, toServer, toPage, said>>
    BY DEF Bot, Server
<1>2. CASE \E i \in 1 .. Len(fetching) : FetchEnds(i)
           /\ UNCHANGED <<roster, login, presences, presence, bridge, inbox>>
  <2> PICK i \in 1 .. Len(fetching) : FetchEnds(i)
      BY <1>2
  <2>1. fetching' \in Seq(Nat)
      BY DEF FetchEnds, RemoveAt, ChatTypes
  <2>2. fetching[i] \in Nat
      BY DEF ChatTypes
  <2>3. sending' \in Seq(Nat) /\ channelCache' \in BOOLEAN
    <3>1. sending \in Seq(Nat) /\ channelCache \in BOOLEAN
        BY DEF ChatTypes
    <3>2. Append(sending, fetching[i]) \in Seq(Nat)
        BY <2>2, <3>1, AppendProperties
    <3> QED
        BY <3>1, <3>2 DEF FetchEnds
  <2> QED
      BY <1>1, <1>2, <2>1, <2>3 DEF ChatTypes, pageVars, serverVars, linkVars
<1>3. CASE SendEnds /\ UNCHANGED <<roster, login, channelCache, fetching, presences, presence>>
  <2>1. Head(sending) \in Nat /\ sending' \in Seq(Nat)
      BY <1>3 DEF SendEnds, ChatTypes
  <2>2. bridge' \in Seq(Nat)
    <3>1. bridge \in Seq(Nat)
        BY DEF ChatTypes
    <3>2. Append(bridge, Head(sending)) \in Seq(Nat)
        BY <2>1, <3>1, AppendProperties
    <3> QED
        BY <1>3, <3>1, <3>2 DEF SendEnds
  <2>3. inbox' \in Seq(Posts)
    <3>1. [author |-> "bot", text |-> "fine", said |-> Head(sending)] \in Posts
        BY <2>1 DEF Posts, DiscordTexts
    <3>2. inbox \in Seq(Posts)
        BY DEF ChatTypes
    <3>3. Append(inbox, [author |-> "bot", text |-> "fine", said |-> Head(sending)]) \in Seq(Posts)
        BY <3>1, <3>2, AppendProperties
    <3> QED
        BY <1>3, <3>2, <3>3 DEF SendEnds
  <2> QED
      BY <1>1, <1>3, <2>1, <2>2, <2>3 DEF ChatTypes, pageVars, serverVars, linkVars
<1>4. CASE UNCHANGED <<channelCache, fetching, sending, bridge, inbox>> /\ login' \in BOOLEAN
    BY <1>1, <1>4 DEF ChatTypes, pageVars, serverVars, linkVars
<1>5. CASE Server
    BY <1>4, <1>5 DEF Server, ServerStep, RoverComes, RoverGoes, lockRover, ModeChanges,
                      handleBusEvent, ChatTypes
<1> QED
    BY <1>2, <1>3, <1>4, <1>5 DEF Bot, BotStep, Ready, PresenceShows, ChatTypes

LEMMA LinkTypes ==
    ASSUME ChatTypes, NEW p \in Pages, Connect(p) \/ ConnectionLost(p) PROVE ChatTypes'
<1>1. toServer' \in [Pages -> Seq(Requests)]
  <2>1. Nickname \in Requests /\ <<>> \in Seq(Requests)
      BY DEF Nickname, Requests
  <2>2. toServer[p] \o (IF panel[p] THEN <<Nickname>> ELSE <<>>) \in Seq(Requests)
      BY <2>1, ConcatProperties DEF ChatTypes
  <2> QED
      BY <2>1, <2>2 DEF Connect, ConnectionLost, ChatTypes
<1>2. toPage' \in [Pages -> Seq(LogEntry \cup Answers)]
  <2>1. /\ toPage \in [Pages -> Seq(LogEntry \cup Answers)]
        /\ [type |-> "session"] \in LogEntry \cup Answers
      BY DEF ChatTypes, Answers
  <2>2. /\ <<>> \in Seq(LogEntry \cup Answers)
        /\ <<[type |-> "session"]>> \in Seq(LogEntry \cup Answers)
      BY <2>1
  <2> QED
      BY <2>1, <2>2 DEF Connect, ConnectionLost
<1>3. online' \subseteq Pages /\ joined' \in [Pages -> Nat] /\ nickname' \in [Pages -> BOOLEAN]
  <2>1. Len(log) \in Nat /\ online \subseteq Pages /\ joined \in [Pages -> Nat]
        /\ nickname \in [Pages -> BOOLEAN]
      BY DEF ChatTypes
  <2> QED
      BY <2>1 DEF Connect, ConnectionLost, serverVars
<1>4. rateBuckets' \in [Pages -> Seq(Ages)] /\ accepted' \in [Pages -> Seq(Ages)]
  <2>1. /\ rateBuckets \in [Pages -> Seq(Ages)] /\ accepted \in [Pages -> Seq(Ages)]
        /\ <<>> \in Seq(Ages)
      BY DEF ChatTypes
  <2> QED
      BY <2>1 DEF Connect, ConnectionLost, serverVars
<1>5. UNCHANGED <<botVars, inbox, pageVars, spoken, log, said>>
    BY DEF Connect, ConnectionLost, serverVars
<1> QED
    BY <1>1, <1>2, <1>3, <1>4, <1>5 DEF ChatTypes, pageVars, botVars

LEMMA PageReceivesTypes ==
    ASSUME ChatTypes, NEW p \in Pages, PageReceives(p) PROVE ChatTypes'
<1> DEFINE m == Head(toPage[p])
<1>1. toPage[p] \in Seq(LogEntry \cup Answers) /\ toPage[p] # <<>>
    BY DEF PageReceives, ChatTypes
<1>2. m \in LogEntry \cup Answers /\ Tail(toPage[p]) \in Seq(LogEntry \cup Answers)
    BY <1>1
<1>3. toPage' \in [Pages -> Seq(LogEntry \cup Answers)]
    BY <1>2 DEF PageReceives, ChatTypes
<1>4. shown' \in [Pages -> Seq(LogEntry)] /\ received' \in [Pages -> Seq(LogEntry)]
  <2>1. shown \in [Pages -> Seq(LogEntry)] /\ received \in [Pages -> Seq(LogEntry)]
      BY DEF ChatTypes
  <2>2. m.type = "chat" => m \in LogEntry
      BY <1>2 DEF Answers
  <2>3. shown[p] \in Seq(LogEntry) /\ received[p] \in Seq(LogEntry)
      BY <2>1
  <2>4. Latest(shown[p], MaxShown - 1) \in Seq(LogEntry)
    <3>1. MaxShown - 1 \in Nat
        BY ChatConstants
    <3> QED
        BY <2>3, <3>1, LatestProperties
  <2>5. m.type = "chat" => /\ Append(Latest(shown[p], MaxShown - 1), m) \in Seq(LogEntry)
                           /\ Append(received[p], m) \in Seq(LogEntry)
      BY <2>2, <2>3, <2>4, AppendProperties
  <2> QED
      BY <2>1, <2>5 DEF PageReceives, handleMessage
<1>5. waiting' \in [Pages -> Nat] /\ draft' \in [Pages -> Drafts] /\ panel' \in [Pages -> BOOLEAN]
    BY DEF PageReceives, ChatTypes, NoDraft, Drafts
<1>6. toServer' \in [Pages -> Seq(Requests)]
  <2>1. toServer \in [Pages -> Seq(Requests)] /\ Nickname \in Requests
      BY DEF ChatTypes, Nickname, Requests
  <2> QED
      BY <2>1 DEF PageReceives
<1> QED
    BY <1>3, <1>4, <1>5, <1>6 DEF PageReceives, ChatTypes, serverVars, linkVars, botVars

LEMMA SayTypes ==
    ASSUME ChatTypes, NEW p \in Pages,
           handleSend(p) \/ \E text \in PageTexts : Type(p, text)
    PROVE  ChatTypes'
<1>1. CASE handleSend(p)
  <2>1. [type |-> "chat", draft |-> draft[p]] \in Requests /\ draft[p].said \in Nat
      BY DEF ChatTypes, Requests, Drafts
  <2>2. waiting \in [Pages -> Nat] /\ toServer \in [Pages -> Seq(Requests)]
      BY DEF ChatTypes
  <2>3. waiting' \in [Pages -> Nat] /\ toServer' \in [Pages -> Seq(Requests)]
      BY <1>1, <2>1, <2>2 DEF handleSend
  <2> QED
      BY <1>1, <2>3 DEF handleSend, ChatTypes, serverVars, linkVars, botVars
<1>2. ASSUME NEW text \in PageTexts, Type(p, text) PROVE ChatTypes'
  <2>1. [said |-> said + 1, text |-> text] \in Drafts
      BY DEF ChatTypes, Drafts, PageTexts
  <2>2. draft' \in [Pages -> Drafts] /\ said' \in Nat
    <3>1. draft \in [Pages -> Drafts] /\ said \in Nat
        BY DEF ChatTypes
    <3> QED
        BY <1>2, <2>1, <3>1 DEF Type
  <2> QED
      BY <1>2, <2>2 DEF Type, ChatTypes, serverVars, linkVars, botVars
<1> QED
    BY <1>1, <1>2

LEMMA TickTypes == ASSUME ChatTypes, Tick PROVE ChatTypes'
<1>1. ASSUME NEW ages \in Seq(Ages) PROVE Older(ages) \in Seq(Ages)
    BY ChatConstants DEF Ages, Older
<1>2. ASSUME NEW p \in Pages
      PROVE  Older(rateBuckets[p]) \in Seq(Ages) /\ Recent(Older(accepted[p])) \in Seq(Ages)
    BY <1>1, RecentTypes DEF ChatTypes
<1>3. /\ rateBuckets' = [p \in Pages |-> Older(rateBuckets[p])]
      /\ accepted' = [p \in Pages |-> Recent(Older(accepted[p]))]
    BY DEF Tick
<1>4. rateBuckets' \in [Pages -> Seq(Ages)] /\ accepted' \in [Pages -> Seq(Ages)]
    BY <1>2, <1>3
<1> QED
    BY <1>4 DEF Tick, ChatTypes, pageVars, linkVars, botVars

LEMMA StepTypes == ASSUME ChatTypes, [Next]_vars PROVE ChatTypes'
<1>1. ASSUME NEW text \in DiscordTexts, DiscordWrites(text) PROVE ChatTypes'
  <2>1. inbox \in Seq(Posts) /\ said \in Nat
      BY DEF ChatTypes
  <2>2. [author |-> "person", text |-> text, said |-> said + 1] \in Posts
      BY <2>1 DEF Posts
  <2>3. Append(inbox, [author |-> "person", text |-> text, said |-> said + 1]) \in Seq(Posts)
      BY <2>1, <2>2, AppendProperties
  <2>4. inbox' \in Seq(Posts) /\ said' \in Nat
      BY <1>1, <2>1, <2>3 DEF DiscordWrites
  <2>5. UNCHANGED <<botVars, pageVars, serverVars, linkVars, toServer, toPage>>
      BY <1>1 DEF DiscordWrites
  <2> QED
      BY <2>4, <2>5 DEF ChatTypes, pageVars, serverVars, linkVars, botVars
<1>2. CASE UNCHANGED vars
    BY <1>2 DEF vars, ChatTypes, pageVars, serverVars, linkVars, botVars
<1> QED
    BY <1>1, <1>2, ServerReceivesTypes, MessageCreateTypes, BotTypes, LinkTypes,
       PageReceivesTypes, SayTypes, TickTypes DEF Next

-----------------------------------------------------------------------------
LEMMA EmitTo ==
    ASSUME ChatTypes, NEW m \in LogEntry, NEW p, NEW answer \in Seq(Answers),
           Emit(m, p, answer), NEW q \in Pages
    PROVE  /\ q # p \/ answer = <<>> =>
                  toPage'[q] = IF q \in online THEN Append(toPage[q], m) ELSE toPage[q]
           /\ \A a \in Answers : q = p /\ q \in online /\ answer = <<a>> =>
                  toPage'[q] = Append(Append(toPage[q], m), a)
<1> DEFINE S == LogEntry \cup Answers
           t == toPage[q]
<1>1. t \in Seq(S) /\ m \in S
    BY DEF ChatTypes
<1>2. toPage'[q] = t \o (IF q \in online THEN <<m>> ELSE <<>>)
                     \o (IF q = p THEN answer ELSE <<>>)
    BY DEF Emit
<1> HIDE DEF S, t
<1>3. t \o <<>> = t /\ Append(t, m) = t \o <<m>> /\ t \o <<m>> \in Seq(S)
    BY <1>1, ConcatEmptySeq, AppendIsConcat, AppendProperties
<1>4. (t \o <<m>>) \o <<>> = t \o <<m>>
    BY <1>3, ConcatEmptySeq
<1>5. ASSUME NEW a \in Answers PROVE Append(t \o <<m>>, a) = (t \o <<m>>) \o <<a>>
  <2>1. a \in S
      BY DEF S
  <2> QED
      BY <1>3, <2>1, AppendIsConcat
<1>6. q # p \/ answer = <<>> => (IF q = p THEN answer ELSE <<>>) = <<>>
    OBVIOUS
<1> QED
    BY <1>2, <1>3, <1>4, <1>5, <1>6 DEF t

LEMMA UnsaidGrows ==
    ASSUME log \in Seq(LogEntry), NEW m \in LogEntry, log' = Append(log, m)
    PROVE  \A n : Unsaid(n)' <=> Unsaid(n) /\ n # m.said
<1>1. /\ Len(log') = Len(log) + 1 /\ Len(log) \in Nat /\ log'[Len(log) + 1] = m
      /\ \A i \in 1 .. Len(log) : log'[i] = log[i]
    BY AppendProperties
<1> QED
    BY <1>1 DEF Unsaid

LEMMA UnsaidSame == ASSUME UNCHANGED log PROVE \A n : Unsaid(n)' <=> Unsaid(n)
BY DEF Unsaid

LEMMA LogNumbersGrow ==
    ASSUME ChatTypes, LogNumbers, NEW m \in LogEntry, log' = Append(log, m), UNCHANGED said,
           m.said \in 1 .. said, Unsaid(m.said)
    PROVE  LogNumbers'
<1>1. /\ Len(log') = Len(log) + 1 /\ Len(log) \in Nat /\ log'[Len(log) + 1] = m
      /\ \A i \in 1 .. Len(log) : log'[i] = log[i]
    BY AppendProperties DEF ChatTypes
<1>2. \A i \in 1 .. Len(log') : i \in 1 .. Len(log) \/ i = Len(log) + 1
    BY <1>1
<1> QED
    BY <1>1, <1>2 DEF LogNumbers, Unsaid

LEMMA PageNumbersGrow ==
    ASSUME PageNumbers, NEW m \in LogEntry, log \in Seq(LogEntry), log' = Append(log, m),
           UNCHANGED <<draft, waiting, said>>,
           \A q \in Pages : draft[q].said # waiting[q] => draft[q].said # m.said
    PROVE  PageNumbers'
BY UnsaidGrows DEF PageNumbers, Holds

LEMMA InboxNumbersGrow ==
    ASSUME InboxNumbers, NEW m \in LogEntry, log \in Seq(LogEntry), log' = Append(log, m),
           UNCHANGED <<draft, waiting, inbox, said>>,
           NEW p \in Pages, Holds(p, m.said)
    PROVE  InboxNumbers'
BY UnsaidGrows DEF InboxNumbers, Holds

\* The panel p is not disturbed by what else is published, or told to it, by
\* a nickname, or by what another page does.
LEMMA OnceFrame ==
    ASSUME ChatTypes, NEW p \in Pages, AsksOnce(p), AnsweredOnce(p),
           waiting'[p] = waiting[p], shown'[p] = shown[p],
           (\E i : Asks(p, i) \/ Answered(p, i)) /\ Unsaid(waiting[p]) => Unsaid(waiting[p])',
           toServer'[p] = toServer[p] \/ toServer'[p] = Append(toServer[p], Nickname),
           \/ toPage'[p] = toPage[p]
           \/ \E x \in LogEntry \cup Answers :
                 x.type \notin {"sent", "refused"} /\ toPage'[p] = Append(toPage[p], x)
           \/ toPage'[p] = <<[type |-> "session"]>>
    PROVE  AsksOnce(p)' /\ AnsweredOnce(p)'
<1>1. toServer[p] \in Seq(Requests) /\ toPage[p] \in Seq(LogEntry \cup Answers)
    BY DEF ChatTypes
<1>2. \A i : Asks(p, i)' => Asks(p, i) /\ toServer'[p][i] = toServer[p][i]
  <2>1. CASE toServer'[p] = toServer[p]
      BY <2>1 DEF Asks
  <2>2. CASE toServer'[p] = Append(toServer[p], Nickname)
    <3>1. Nickname \in Requests
        BY DEF Nickname, Requests
    <3>2. /\ Len(toServer'[p]) = Len(toServer[p]) + 1 /\ Len(toServer[p]) \in Nat
          /\ toServer'[p][Len(toServer[p]) + 1] = Nickname
          /\ \A i \in 1 .. Len(toServer[p]) : toServer'[p][i] = toServer[p][i]
        BY <1>1, <2>2, <3>1, AppendProperties
    <3>3. Nickname.type # "chat"
        BY DEF Nickname
    <3> QED
        BY <3>2, <3>3 DEF Asks
  <2> QED
      BY <2>1, <2>2
<1> DEFINE Stays(i) == /\ Answered(p, i) /\ toPage'[p][i] = toPage[p][i]
                       /\ \A j \in 1 .. i - 1 : toPage'[p][j] = toPage[p][j]
<1>3. \A i : Answered(p, i)' => Stays(i)
  <2>1. CASE toPage'[p] = toPage[p]
      BY <2>1 DEF Answered
  <2>2. ASSUME NEW x \in LogEntry \cup Answers, x.type \notin {"sent", "refused"},
               toPage'[p] = Append(toPage[p], x)
        PROVE  \A i : Answered(p, i)' => Stays(i)
    <3>1. /\ Len(toPage'[p]) = Len(toPage[p]) + 1 /\ Len(toPage[p]) \in Nat
          /\ toPage'[p][Len(toPage[p]) + 1] = x
          /\ \A i \in 1 .. Len(toPage[p]) : toPage'[p][i] = toPage[p][i]
        BY <1>1, <2>2, AppendProperties
    <3> QED
        BY <2>2, <3>1 DEF Answered
  <2>3. CASE toPage'[p] = <<[type |-> "session"]>>
      BY <2>3 DEF Answered
  <2> QED
      BY <2>1, <2>2, <2>3
<1>4. AsksOnce(p)'
  <2> SUFFICES ASSUME NEW i, Asks(p, i)'
               PROVE  /\ toServer'[p][i].draft.said = waiting[p] /\ waiting[p] # 0
                      /\ Unsaid(waiting[p])'
                      /\ \A j : Asks(p, j)' => i = j
                      /\ \A j : ~Answered(p, j)'
      BY DEF AsksOnce
  <2>1. Asks(p, i) /\ toServer'[p][i] = toServer[p][i] /\ i \in 1 .. Len(toServer[p])
      BY <1>2 DEF Asks
  <2>2. /\ toServer[p][i].draft.said = waiting[p] /\ waiting[p] # 0
        /\ Unsaid(waiting[p])
        /\ \A j : Asks(p, j) => i = j
        /\ \A j : ~Answered(p, j)
      BY <2>1 DEF AsksOnce, Asks, Answered
  <2> QED
      BY <1>2, <1>3, <2>1, <2>2
<1>5. AnsweredOnce(p)'
  <2> SUFFICES ASSUME NEW i, Answered(p, i)'
               PROVE  /\ waiting[p] # 0
                      /\ \A j : Answered(p, j)' => i = j
                      /\ toPage'[p][i].type = "refused" => Unsaid(waiting[p])'
                      /\ toPage'[p][i].type = "sent" => ComesBefore(p, i)'
      BY DEF AnsweredOnce
  <2>1. Answered(p, i) /\ toPage'[p][i] = toPage[p][i]
        /\ \A j \in 1 .. i - 1 : toPage'[p][j] = toPage[p][j]
      BY <1>3
  <2>2. i \in 1 .. Len(toPage[p])
      BY <2>1 DEF Answered
  <2>3. i # 1 => i - 1 \in 1 .. i - 1
      BY <2>2
  <2>4. ComesBefore(p, i) => ComesBefore(p, i)'
      BY <2>1, <2>3 DEF ComesBefore, LastShown
  <2> QED
      BY <1>3, <2>1, <2>2, <2>4 DEF AnsweredOnce, Answered
<1> QED
    BY <1>4, <1>5

\* What the server takes from a page that is not published again.
LEMMA TakeRequest ==
    ASSUME ChatTypes, NumbersInv, NEW p \in Pages, ServerReceives(p)
    PROVE  /\ Head(toServer[p]) = toServer[p][1] /\ 1 \in 1 .. Len(toServer[p])
           /\ Head(toServer[p]) \in Requests
           /\ \A i : Asks(p, i)' => Asks(p, i + 1) /\ i # 0 /\ toServer'[p][i] = toServer[p][i + 1]
           /\ \A q \in Pages : q # p => toServer'[q] = toServer[q]
<1>1. toServer[p] \in Seq(Requests) /\ toServer[p] # <<>> /\ toServer'[p] = Tail(toServer[p])
    BY DEF ServerReceives, ChatTypes
<1>2. /\ Head(toServer[p]) = toServer[p][1] /\ 1 \in 1 .. Len(toServer[p])
      /\ Head(toServer[p]) \in Requests
      /\ Len(toServer'[p]) = Len(toServer[p]) - 1 /\ Len(toServer[p]) \in Nat
      /\ \A i \in 1 .. Len(toServer'[p]) : toServer'[p][i] = toServer[p][i + 1]
    BY <1>1
<1>3. \A i : Asks(p, i)' => Asks(p, i + 1) /\ i # 0 /\ toServer'[p][i] = toServer[p][i + 1]
  <2> SUFFICES ASSUME NEW i, Asks(p, i)'
               PROVE  Asks(p, i + 1) /\ i # 0 /\ toServer'[p][i] = toServer[p][i + 1]
      OBVIOUS
  <2>1. i \in 1 .. Len(toServer'[p]) /\ toServer'[p][i].type = "chat"
      BY DEF Asks
  <2>2. i + 1 \in 1 .. Len(toServer[p]) /\ i # 0 /\ toServer'[p][i] = toServer[p][i + 1]
      BY <1>2, <2>1
  <2> QED
      BY <2>1, <2>2 DEF Asks
<1>4. \A q \in Pages : q # p => toServer'[q] = toServer[q]
    BY DEF ServerReceives, ChatTypes
<1> QED
    BY <1>2, <1>3, <1>4

\* Not published: a nickname, or what was refused.
LEMMA AnswerNumbers ==
    ASSUME ChatTypes, ChatTypes', NumbersInv, NEW p \in Pages, ServerReceives(p),
           UNCHANGED <<log, inbox>>, NEW type \in {"named", "refused"}, Answer(p, type),
           type = "refused" <=> Head(toServer[p]).type = "chat"
    PROVE  NumbersInv'
<1>1. UNCHANGED <<draft, waiting, shown, panel, said, log, inbox>>
    BY DEF ServerReceives, pageVars
<1>2. LogNumbers' /\ PageNumbers' /\ InboxNumbers'
    BY <1>1 DEF NumbersInv, LogNumbers, PageNumbers, InboxNumbers, Holds, Unsaid
<1>3. ASSUME NEW q \in Pages, q # p PROVE AsksOnce(q)' /\ AnsweredOnce(q)'
  <2>1. toServer'[q] = toServer[q] /\ toPage'[q] = toPage[q]
      BY <1>3, TakeRequest DEF Answer, ChatTypes
  <2> QED
      BY <1>1, <2>1, OnceFrame, UnsaidSame DEF NumbersInv
<1> DEFINE t == toPage[p]
<1>4. /\ t \in Seq(LogEntry \cup Answers) /\ [type |-> type] \in LogEntry \cup Answers
      /\ toPage'[p] = Append(t, [type |-> type])
    BY DEF Answer, ChatTypes, Answers
<1>5. /\ Len(toPage'[p]) = Len(t) + 1 /\ Len(t) \in Nat
      /\ toPage'[p][Len(t) + 1] = [type |-> type]
      /\ \A i \in 1 .. Len(t) : toPage'[p][i] = t[i]
    BY <1>4, AppendProperties
<1>6. \A i : Answered(p, i)' => \/ /\ Answered(p, i) /\ toPage'[p][i] = toPage[p][i]
                                   /\ \A j \in 1 .. i - 1 : toPage'[p][j] = toPage[p][j]
                                \/ i = Len(t) + 1 /\ type = "refused"
    BY <1>5 DEF Answered
<1>7. CASE type = "named"
  <2>1. \A i : Answered(p, i)' => Answered(p, i)
      BY <1>6, <1>7
  <2>2. AsksOnce(p)'
    <3> SUFFICES ASSUME NEW i, Asks(p, i)'
                 PROVE  /\ toServer'[p][i].draft.said = waiting[p] /\ waiting[p] # 0
                        /\ Unsaid(waiting[p])
                        /\ \A j : Asks(p, j)' => i = j
                        /\ \A j : ~Answered(p, j)'
        BY <1>1, UnsaidSame DEF AsksOnce
    <3>1. Asks(p, i + 1) /\ i + 1 \in 1 .. Len(toServer[p])
          /\ toServer'[p][i] = toServer[p][i + 1]
        BY TakeRequest DEF Asks
    <3>2. /\ toServer[p][i + 1].draft.said = waiting[p] /\ waiting[p] # 0
          /\ Unsaid(waiting[p])
          /\ \A j : Asks(p, j) => i + 1 = j
          /\ \A j : ~Answered(p, j)
        BY <3>1 DEF NumbersInv, AsksOnce, Asks, Answered
    <3>3. i \in Nat /\ \A j : Asks(p, j)' => j \in Nat
      <4>1. toServer'[p] \in Seq(Requests)
          BY DEF ChatTypes
      <4> QED
          BY <4>1 DEF Asks
    <3> QED
        BY <2>1, <3>1, <3>2, <3>3, TakeRequest
  <2>3. AnsweredOnce(p)'
    <3> SUFFICES ASSUME NEW i, Answered(p, i)'
                 PROVE  /\ waiting[p] # 0
                        /\ \A j : Answered(p, j)' => i = j
                        /\ toPage'[p][i].type = "refused" => Unsaid(waiting[p])
                        /\ toPage'[p][i].type = "sent" => ComesBefore(p, i)'
        BY <1>1, UnsaidSame DEF AnsweredOnce
    <3>1. Answered(p, i) /\ toPage'[p][i] = toPage[p][i] /\ i \in 1 .. Len(toPage[p])
          /\ \A j \in 1 .. i - 1 : toPage'[p][j] = toPage[p][j]
        BY <1>6, <1>7 DEF Answered
    <3>2. i # 1 => i - 1 \in 1 .. i - 1
        BY <3>1
    <3>3. ComesBefore(p, i) => ComesBefore(p, i)'
        BY <1>1, <3>1, <3>2 DEF ComesBefore, LastShown
    <3> QED
        BY <2>1, <3>1, <3>3 DEF NumbersInv, AnsweredOnce, Answered
  <2> QED
      BY <1>2, <1>3, <2>2, <2>3 DEF NumbersInv
<1>8. CASE type = "refused"
  <2>1. Asks(p, 1) /\ 1 \in 1 .. Len(toServer[p])
      BY <1>8, TakeRequest DEF Asks
  <2>2. /\ waiting[p] # 0 /\ Unsaid(waiting[p])
        /\ \A j : Asks(p, j) => 1 = j
        /\ \A j : ~Answered(p, j)
      BY <2>1 DEF NumbersInv, AsksOnce, Asks, Answered
  <2>3. \A i : ~Asks(p, i)'
    <3> SUFFICES ASSUME NEW i, Asks(p, i)' PROVE FALSE
        OBVIOUS
    <3>1. i + 1 = 1 /\ i # 0
        BY <2>2, TakeRequest
    <3>2. i \in 1 .. Len(toServer'[p])
        BY DEF Asks
    <3> QED
        BY <3>1, <3>2
  <2>4. AsksOnce(p)'
      BY <2>3 DEF AsksOnce
  <2>5. \A i : Answered(p, i)' => i = Len(t) + 1
      BY <1>6, <2>2
  <2>6. Unsaid(waiting[p])' /\ waiting'[p] # 0
      BY <1>1, <2>2, UnsaidSame
  <2>7. AnsweredOnce(p)'
      BY <1>5, <1>8, <2>5, <2>6 DEF AnsweredOnce
  <2> QED
      BY <1>2, <1>3, <2>4, <2>7 DEF NumbersInv
<1> QED
    BY <1>7, <1>8

LEMMA PublishNumbers ==
    ASSUME ChatTypes, ChatTypes', NumbersInv, NEW p \in Pages, ServerReceives(p),
           NEW m \in LogEntry, Head(toServer[p]).type = "chat",
           m.said = Head(toServer[p]).draft.said,
           log' = Append(log, m), UNCHANGED inbox,
           Emit(m, p, <<[type |-> "sent"]>>)
    PROVE  NumbersInv' /\ Unsaid(m.said)
<1>1. UNCHANGED <<draft, waiting, shown, panel, said, inbox>> /\ p \in online
    BY DEF ServerReceives, pageVars
<1>2. Asks(p, 1) /\ 1 \in 1 .. Len(toServer[p]) /\ m.said = toServer[p][1].draft.said
    BY TakeRequest DEF Asks
<1>3. /\ m.said = waiting[p] /\ waiting[p] # 0 /\ Unsaid(waiting[p])
      /\ \A j : Asks(p, j) => 1 = j
      /\ \A j : ~Answered(p, j)
    BY <1>2 DEF NumbersInv, AsksOnce, Asks, Answered
<1>4. waiting[p] \in 1 .. said
  <2>1. waiting[p] \in Nat /\ said \in Nat /\ waiting[p] <= said
      BY DEF NumbersInv, PageNumbers, ChatTypes
  <2> QED
      BY <1>3, <2>1
<1>5. Holds(p, m.said) /\ \A q \in Pages : Holds(q, m.said) => q = p
    BY <1>3, <1>4 DEF NumbersInv, PageNumbers, Holds
<1>6. log \in Seq(LogEntry) /\ \A n : Unsaid(n)' <=> Unsaid(n) /\ n # m.said
    BY UnsaidGrows DEF ChatTypes
<1>7. LogNumbers' /\ PageNumbers' /\ InboxNumbers'
  <2>1. LogNumbers'
      BY <1>1, <1>3, <1>4, LogNumbersGrow DEF NumbersInv
  <2>2. \A q \in Pages : draft[q].said # waiting[q] => draft[q].said # m.said
      BY <1>3, <1>5 DEF Holds
  <2>3. PageNumbers'
      BY <1>1, <1>6, <2>2, PageNumbersGrow DEF NumbersInv
  <2>4. InboxNumbers'
      BY <1>1, <1>5, <1>6, InboxNumbersGrow DEF NumbersInv
  <2> QED
      BY <2>1, <2>3, <2>4
<1>8. [type |-> "sent"] \in Answers /\ <<[type |-> "sent"]>> \in Seq(Answers)
    BY DEF Answers
<1>9. ASSUME NEW q \in Pages, q # p PROVE AsksOnce(q)' /\ AnsweredOnce(q)'
  <2>1. toServer'[q] = toServer[q]
      BY <1>9, TakeRequest
  <2>2. toPage'[q] = toPage[q] \/ toPage'[q] = Append(toPage[q], m)
    <3> DEFINE answer == <<[type |-> "sent"]>>
    <3>1. answer \in Seq(Answers) /\ Emit(m, p, answer)
        BY <1>8
    <3> HIDE DEF answer
    <3>2. toPage'[q] = IF q \in online THEN Append(toPage[q], m) ELSE toPage[q]
        BY <1>9, <3>1, EmitTo
    <3> QED
        BY <3>2
  <2>3. m \in LogEntry \cup Answers /\ m.type \notin {"sent", "refused"}
      BY DEF LogEntry
  <2>4. (\E i : Asks(q, i) \/ Answered(q, i)) => waiting[q] # m.said
    <3>1. (\E i : Asks(q, i) \/ Answered(q, i)) => waiting[q] # 0
        BY DEF NumbersInv, AsksOnce, AnsweredOnce, Asks, Answered
    <3> QED
        BY <1>5, <1>9, <3>1 DEF Holds
  <2>5. (\E i : Asks(q, i) \/ Answered(q, i)) /\ Unsaid(waiting[q]) => Unsaid(waiting[q])'
      BY <1>1, <1>6, <2>4
  <2>6. waiting'[q] = waiting[q] /\ shown'[q] = shown[q] /\ AsksOnce(q) /\ AnsweredOnce(q)
      BY <1>1 DEF NumbersInv
  <2> QED
      BY <2>1, <2>2, <2>3, <2>5, <2>6, OnceFrame
<1>10. \A i : ~Asks(p, i)'
  <2> SUFFICES ASSUME NEW i, Asks(p, i)' PROVE FALSE
      OBVIOUS
  <2>1. i + 1 = 1 /\ i # 0
      BY <1>3, TakeRequest
  <2>2. i \in 1 .. Len(toServer'[p])
      BY DEF Asks
  <2> QED
      BY <2>1, <2>2
<1> DEFINE t == toPage[p]
           a == [type |-> "sent"]
<1>11. /\ Len(toPage'[p]) = Len(t) + 2 /\ Len(t) \in Nat
       /\ toPage'[p][Len(t) + 1] = m /\ toPage'[p][Len(t) + 2] = a
       /\ \A i \in 1 .. Len(t) : toPage'[p][i] = t[i]
  <2>1. /\ t \in Seq(LogEntry \cup Answers)
        /\ m \in LogEntry \cup Answers /\ a \in LogEntry \cup Answers
      BY <1>8 DEF ChatTypes
  <2>2. toPage'[p] = Append(Append(t, m), a)
      BY <1>1, <1>8, EmitTo
  <2> HIDE DEF t, a
  <2>3. /\ Append(t, m) \in Seq(LogEntry \cup Answers) /\ Len(Append(t, m)) = Len(t) + 1
        /\ Append(t, m)[Len(t) + 1] = m /\ Len(t) \in Nat
        /\ \A i \in 1 .. Len(t) : Append(t, m)[i] = t[i]
      BY <2>1, AppendProperties
  <2> QED
      BY <2>1, <2>2, <2>3, AppendProperties
<1>12. \A i : Answered(p, i)' => i = Len(t) + 2
  <2> SUFFICES ASSUME NEW i, Answered(p, i)' PROVE i = Len(t) + 2
      OBVIOUS
  <2>1. i \in 1 .. Len(t) + 2 /\ toPage'[p][i].type \in {"sent", "refused"}
      BY <1>11 DEF Answered
  <2>2. i # Len(t) + 1
      BY <1>11, <2>1 DEF LogEntry
  <2>3. ~(i \in 1 .. Len(t))
      BY <1>3, <1>11, <2>1 DEF Answered
  <2> QED
      BY <1>11, <2>1, <2>2, <2>3
<1>13. AsksOnce(p)'
    BY <1>10 DEF AsksOnce
<1>14. AnsweredOnce(p)'
  <2> SUFFICES ASSUME NEW i, Answered(p, i)'
               PROVE  /\ waiting[p] # 0
                      /\ \A j : Answered(p, j)' => i = j
                      /\ toPage'[p][i].type # "refused"
                      /\ i # 1 /\ toPage'[p][i - 1].type = "chat"
                      /\ toPage'[p][i - 1].said = waiting[p]
      BY <1>1 DEF AnsweredOnce, ComesBefore
  <2>1. i = Len(t) + 2
      BY <1>12
  <2>2. i # 1 /\ i - 1 = Len(t) + 1
      BY <1>11, <2>1
  <2>3. m.type = "chat"
      BY DEF LogEntry
  <2> QED
      BY <1>3, <1>11, <1>12, <2>1, <2>2, <2>3
<1> QED
    BY <1>3, <1>7, <1>9, <1>13, <1>14 DEF NumbersInv

LEMMA ServerReceivesNumbers ==
    ASSUME ChatTypes, ChatTypes', NumbersInv, NEW p \in Pages, ServerReceives(p)
    PROVE  NumbersInv'
<1> DEFINE r == Head(toServer[p])
<1>1. r \in Requests
    BY TakeRequest
<1>2. CASE r.type = "nickname"
  <2>1. Answer(p, "named") /\ UNCHANGED <<log, inbox>>
      BY <1>2 DEF ServerReceives, setNickname
  <2> QED
      BY <1>2, <2>1, AnswerNumbers
<1>3. CASE r.type # "nickname"
  <2>1. r.type = "chat" /\ r.draft \in Drafts /\ handleIncoming(p, r.draft)
      BY <1>1, <1>3 DEF ServerReceives, Requests
  <2>2. CASE withinRateLimit(p) /\ r.draft.text = "fine"
    <3> DEFINE m == [type |-> "chat", said |-> r.draft.said, from |-> "page"]
    <3>1. m \in LogEntry /\ m.said = r.draft.said
        BY <2>1 DEF LogEntry, Drafts
    <3>2. /\ log' = Append(log, m) /\ UNCHANGED inbox
          /\ Emit(m, p, <<[type |-> "sent"]>>)
        BY <2>1, <2>2 DEF handleIncoming, broadcastMessage
    <3> QED
        BY <2>1, <3>1, <3>2, PublishNumbers
  <2>3. CASE ~(withinRateLimit(p) /\ r.draft.text = "fine")
    <3>1. Answer(p, "refused") /\ UNCHANGED <<log, inbox>>
        BY <2>1, <2>3 DEF handleIncoming
    <3> QED
        BY <2>1, <3>1, AnswerNumbers
  <2> QED
      BY <2>2, <2>3
<1> QED
    BY <1>2, <1>3

\* What stays in the inbox when its first message is taken.
LEMMA TakePost ==
    ASSUME ChatTypes, MessageCreate
    PROVE  /\ Head(inbox) = inbox[1] /\ 1 \in 1 .. Len(inbox) /\ Head(inbox) \in Posts
           /\ \A i \in 1 .. Len(inbox') : i + 1 \in 1 .. Len(inbox) /\ inbox'[i] = inbox[i + 1]
<1>1. inbox \in Seq(Posts) /\ inbox # <<>> /\ inbox' = Tail(inbox)
    BY DEF MessageCreate, ChatTypes
<1> QED
    BY <1>1

LEMMA MessageCreateNumbers ==
    ASSUME ChatTypes, ChatTypes', NumbersInv, MessageCreate PROVE NumbersInv'
<1> DEFINE m == Head(inbox)
<1>1. UNCHANGED <<draft, waiting, shown, said, toServer>>
    BY DEF MessageCreate, pageVars
<1>2. inbox' \in Seq(Posts) /\ Len(inbox') \in Nat
    BY DEF ChatTypes
<1>3. CASE Bridged(m)
  <2> DEFINE e == [type |-> "chat", said |-> m.said, from |-> "discord"]
  <2>1. sendExternalMessage(e)
      BY <1>3 DEF MessageCreate
  <2>2. e \in LogEntry /\ e.said = m.said /\ <<>> \in Seq(Answers) /\ m.author = "person"
      BY <1>3, TakePost DEF Posts, LogEntry, Bridged
  <2>3. log' = Append(log, e) /\ Emit(e, "none", <<>>)
      BY <2>1 DEF sendExternalMessage
  <2> HIDE DEF e
  <2>4. /\ m.said \in 1 .. said /\ Unsaid(m.said) /\ \A p \in Pages : ~Holds(p, m.said)
      BY <2>2, TakePost DEF NumbersInv, InboxNumbers
  <2>5. log \in Seq(LogEntry) /\ \A n : Unsaid(n)' <=> Unsaid(n) /\ n # m.said
      BY <2>2, <2>3, UnsaidGrows DEF ChatTypes
  <2>6. LogNumbers'
      BY <1>1, <2>2, <2>3, <2>4, LogNumbersGrow DEF NumbersInv
  <2>7. PageNumbers'
    <3>1. \A q \in Pages : draft[q].said # waiting[q] => draft[q].said # e.said
        BY <2>2, <2>4 DEF Holds
    <3> QED
        BY <1>1, <2>2, <2>3, <2>5, <3>1, PageNumbersGrow DEF NumbersInv
  <2>8. InboxNumbers'
    <3>1. \A i \in 1 .. Len(inbox') : inbox'[i].author = "person" => inbox'[i].said # m.said
      <4> SUFFICES ASSUME NEW i \in 1 .. Len(inbox'), inbox'[i].author = "person",
                          inbox'[i].said = m.said
                   PROVE  FALSE
          OBVIOUS
      <4>1. i + 1 \in 1 .. Len(inbox) /\ inbox'[i] = inbox[i + 1]
            /\ m = inbox[1] /\ 1 \in 1 .. Len(inbox)
          BY TakePost
      <4>2. i + 1 = 1
          BY <2>2, <4>1 DEF NumbersInv, InboxNumbers
      <4> QED
          BY <1>2, <4>2
    <3>2. \A i \in 1 .. Len(inbox') : inbox'[i].author = "person" =>
              /\ inbox'[i].said \in 1 .. said
              /\ \A k \in 1 .. Len(log') : log'[k].said # inbox'[i].said
              /\ \A p \in Pages : ~Holds(p, inbox'[i].said)
      <4>1. \A n : Unsaid(n) /\ n # m.said => \A k \in 1 .. Len(log') : log'[k].said # n
          BY <2>5 DEF Unsaid
      <4> QED
          BY <3>1, <4>1, TakePost DEF NumbersInv, InboxNumbers
    <3>3. \A i, j \in 1 .. Len(inbox') :
              inbox'[i].author = "person" /\ inbox'[j].author = "person"
                  /\ inbox'[i].said = inbox'[j].said => i + 1 = j + 1
        BY TakePost DEF NumbersInv, InboxNumbers
    <3>4. \A i, j \in 1 .. Len(inbox') : i + 1 = j + 1 => i = j
        BY <1>2
    <3> QED
        BY <1>1, <3>2, <3>3, <3>4 DEF InboxNumbers, Holds, Unsaid
  <2>9. ASSUME NEW q \in Pages PROVE AsksOnce(q)' /\ AnsweredOnce(q)'
    <3>1. toPage'[q] = toPage[q] \/ toPage'[q] = Append(toPage[q], e)
      <4>1. toPage'[q] = IF q \in online THEN Append(toPage[q], e) ELSE toPage[q]
          BY <2>2, <2>3, EmitTo
      <4> QED
          BY <4>1
    <3>2. e \in LogEntry \cup Answers /\ e.type \notin {"sent", "refused"}
        BY <2>2 DEF LogEntry
    <3>3. (\E i : Asks(q, i) \/ Answered(q, i)) => waiting[q] # m.said
      <4>1. (\E i : Asks(q, i) \/ Answered(q, i)) => waiting[q] # 0
          BY DEF NumbersInv, AsksOnce, AnsweredOnce, Asks, Answered
      <4> QED
          BY <2>4, <4>1 DEF Holds
    <3>4. (\E i : Asks(q, i) \/ Answered(q, i)) /\ Unsaid(waiting[q]) => Unsaid(waiting[q])'
        BY <1>1, <2>5, <3>3
    <3>5. waiting'[q] = waiting[q] /\ shown'[q] = shown[q] /\ toServer'[q] = toServer[q]
          /\ AsksOnce(q) /\ AnsweredOnce(q)
        BY <1>1 DEF NumbersInv
    <3> QED
        BY <3>1, <3>2, <3>4, <3>5, OnceFrame
  <2> QED
      BY <2>6, <2>7, <2>8, <2>9 DEF NumbersInv
<1>4. CASE ~Bridged(m)
  <2>1. UNCHANGED <<log, toPage>>
      BY <1>4 DEF MessageCreate
  <2>2. LogNumbers' /\ PageNumbers'
      BY <1>1, <2>1 DEF NumbersInv, LogNumbers, PageNumbers, Holds, Unsaid
  <2>3. InboxNumbers'
    <3>1. /\ \A i \in 1 .. Len(inbox') : inbox'[i].author = "person" =>
                /\ inbox'[i].said \in 1 .. said /\ Unsaid(inbox'[i].said)
                /\ \A p \in Pages : ~Holds(p, inbox'[i].said)
        BY TakePost DEF NumbersInv, InboxNumbers
    <3>2. \A i, j \in 1 .. Len(inbox') :
              inbox'[i].author = "person" /\ inbox'[j].author = "person"
                  /\ inbox'[i].said = inbox'[j].said => i + 1 = j + 1
        BY TakePost DEF NumbersInv, InboxNumbers
    <3>3. \A i, j \in 1 .. Len(inbox') : i + 1 = j + 1 => i = j
        BY <1>2
    <3> QED
        BY <1>1, <2>1, <3>1, <3>2, <3>3 DEF InboxNumbers, Holds, Unsaid
  <2>4. ASSUME NEW q \in Pages PROVE AsksOnce(q)' /\ AnsweredOnce(q)'
    <3>1. waiting'[q] = waiting[q] /\ shown'[q] = shown[q] /\ toServer'[q] = toServer[q]
          /\ toPage'[q] = toPage[q] /\ AsksOnce(q) /\ AnsweredOnce(q)
        BY <1>1, <2>1 DEF NumbersInv
    <3> QED
        BY <1>1, <2>1, <3>1, OnceFrame, UnsaidSame
  <2> QED
      BY <2>2, <2>3, <2>4 DEF NumbersInv
<1> QED
    BY <1>3, <1>4

\* The posts of the bot have numbers that may have been said.
LEMMA PostNumbers ==
    ASSUME ChatTypes, NumbersInv, Bot \/ Server PROVE NumbersInv'
<1>1. UNCHANGED <<draft, waiting, shown, said, toServer, toPage, log>>
    BY DEF Bot, Server, pageVars, serverVars
<1>2. LogNumbers' /\ PageNumbers' /\ \A p \in Pages : AsksOnce(p)' /\ AnsweredOnce(p)'
    BY <1>1 DEF NumbersInv, LogNumbers, PageNumbers, Holds, Unsaid,
                AsksOnce, AnsweredOnce, Asks, Answered, ComesBefore, LastShown
<1>3. InboxNumbers'
  <2>1. CASE UNCHANGED inbox
      BY <1>1, <2>1 DEF NumbersInv, InboxNumbers, Holds, Unsaid
  <2>2. CASE inbox' # inbox
    <3>1. SendEnds
        BY <2>2 DEF Bot, Server, BotStep, ServerStep
    <3> DEFINE b == [author |-> "bot", text |-> "fine", said |-> Head(sending)]
    <3>2. inbox' = Append(inbox, b)
        BY <2>2, <3>1 DEF SendEnds
    <3>3. inbox \in Seq(Posts) /\ b \in Posts /\ b.author # "person"
      <4>1. Head(sending) \in Nat
          BY <3>1 DEF SendEnds, ChatTypes
      <4> QED
          BY <4>1 DEF ChatTypes, Posts, DiscordTexts
    <3>4. /\ Len(inbox') = Len(inbox) + 1 /\ Len(inbox) \in Nat
          /\ inbox'[Len(inbox) + 1] = b
          /\ \A i \in 1 .. Len(inbox) : inbox'[i] = inbox[i]
        BY <3>2, <3>3, AppendProperties
    <3>5. \A i \in 1 .. Len(inbox') : inbox'[i].author = "person" =>
              i \in 1 .. Len(inbox) /\ inbox'[i] = inbox[i]
        BY <3>3, <3>4
    <3> QED
        BY <1>1, <3>5 DEF NumbersInv, InboxNumbers, Holds, Unsaid
  <2> QED
      BY <2>1, <2>2
<1> QED
    BY <1>2, <1>3 DEF NumbersInv

LEMMA WriteNumbers ==
    ASSUME ChatTypes, ChatTypes', NumbersInv, NEW text \in DiscordTexts, DiscordWrites(text)
    PROVE  NumbersInv'
<1> DEFINE b == [author |-> "person", text |-> text, said |-> said + 1]
<1>1. UNCHANGED <<draft, waiting, shown, toServer, toPage, log>>
    BY DEF DiscordWrites, pageVars, serverVars
<1>2. said \in Nat /\ said' = said + 1 /\ inbox' = Append(inbox, b)
    BY DEF DiscordWrites, ChatTypes
<1>3. inbox \in Seq(Posts) /\ b \in Posts
    BY <1>2 DEF ChatTypes, Posts
<1>4. /\ Len(inbox') = Len(inbox) + 1 /\ Len(inbox) \in Nat
      /\ inbox'[Len(inbox) + 1] = b
      /\ \A i \in 1 .. Len(inbox) : inbox'[i] = inbox[i]
    BY <1>2, <1>3, AppendProperties
<1>5. /\ \A n \in 1 .. said : n \in 1 .. said' /\ n # said + 1
      /\ \A n \in Nat : n <= said => n <= said'
      /\ \A n \in 1 .. said' : n \in 1 .. said \/ n = said + 1
      /\ said + 1 \in 1 .. said' /\ ~(said + 1 <= said)
    BY <1>2
<1>6. \A p \in Pages : draft[p].said \in Nat /\ waiting[p] \in Nat
    BY DEF ChatTypes, Drafts
<1>7. \A p \in Pages : draft[p].said <= said /\ waiting[p] <= said /\ ~Holds(p, said + 1)
    BY <1>5 DEF NumbersInv, PageNumbers, Holds
<1>8. LogNumbers'
    BY <1>1, <1>5 DEF NumbersInv, LogNumbers
<1>9. PageNumbers'
  <2>1. \A p \in Pages : draft[p].said <= said' /\ waiting[p] <= said'
      BY <1>5, <1>6, <1>7
  <2>2. \A p, q \in Pages, n \in 1 .. said' : Holds(p, n) /\ Holds(q, n) => p = q
      BY <1>5, <1>7 DEF NumbersInv, PageNumbers
  <2> QED
      BY <1>1, <2>1, <2>2 DEF NumbersInv, PageNumbers, Holds, Unsaid
<1>10. InboxNumbers'
  <2>1. \A i \in 1 .. Len(inbox') : i \in 1 .. Len(inbox) \/ i = Len(inbox) + 1
      BY <1>4
  <2>2. b.said = said + 1 /\ Unsaid(said + 1)
      BY <1>5 DEF NumbersInv, LogNumbers, Unsaid
  <2>3. \A i \in 1 .. Len(inbox') : inbox'[i].author = "person" =>
            /\ inbox'[i].said \in 1 .. said' /\ Unsaid(inbox'[i].said)
            /\ \A p \in Pages : ~Holds(p, inbox'[i].said)
      BY <1>4, <1>5, <1>7, <2>1, <2>2 DEF NumbersInv, InboxNumbers
  <2>4. \A i \in 1 .. Len(inbox) : inbox[i].author = "person" => inbox[i].said # said + 1
      BY <1>5 DEF NumbersInv, InboxNumbers
  <2>5. \A i, j \in 1 .. Len(inbox') :
            inbox'[i].author = "person" /\ inbox'[j].author = "person"
                /\ inbox'[i].said = inbox'[j].said => i = j
      BY <1>4, <2>1, <2>2, <2>4 DEF NumbersInv, InboxNumbers
  <2> QED
      BY <1>1, <2>3, <2>5 DEF InboxNumbers, Holds, Unsaid
<1> QED
    BY <1>1, <1>8, <1>9, <1>10
    DEF NumbersInv, AsksOnce, AnsweredOnce, Asks, Answered, ComesBefore, LastShown, Unsaid

LEMMA TypeNumbers ==
    ASSUME ChatTypes, ChatTypes', NumbersInv, NEW p \in Pages, NEW text \in PageTexts,
           Type(p, text)
    PROVE  NumbersInv'
<1> DEFINE d == [said |-> said + 1, text |-> text]
<1>1. UNCHANGED <<waiting, shown, toServer, toPage, log, inbox>>
    BY DEF Type, serverVars
<1>2. /\ said \in Nat /\ said' = said + 1
      /\ draft'[p] = d /\ \A q \in Pages : q # p => draft'[q] = draft[q]
    BY DEF Type, ChatTypes
<1>3. /\ \A n \in 1 .. said : n \in 1 .. said' /\ n # said + 1
      /\ \A n \in Nat : n <= said => n <= said'
      /\ \A n \in 1 .. said' : n \in 1 .. said \/ n = said + 1
      /\ said + 1 \in 1 .. said' /\ ~(said + 1 <= said) /\ said + 1 # 0
    BY <1>2
<1>4. \A q \in Pages : draft[q].said \in Nat /\ waiting[q] \in Nat
    BY DEF ChatTypes, Drafts
<1>5. \A q \in Pages : draft[q].said <= said /\ waiting[q] <= said /\ ~Holds(q, said + 1)
    BY <1>3 DEF NumbersInv, PageNumbers, Holds
<1>6. LogNumbers'
    BY <1>1, <1>3 DEF NumbersInv, LogNumbers
<1>7. \A q \in Pages, n \in 1 .. said' :
          Holds(q, n)' => (Holds(q, n) /\ n \in 1 .. said) \/ (q = p /\ n = said + 1)
  <2> SUFFICES ASSUME NEW q \in Pages, NEW n \in 1 .. said', Holds(q, n)'
               PROVE  (Holds(q, n) /\ n \in 1 .. said) \/ (q = p /\ n = said + 1)
      OBVIOUS
  <2>1. n # 0 /\ (draft'[q].said = n \/ waiting[q] = n)
      BY <1>1 DEF Holds
  <2>2. CASE q = p /\ n = said + 1
      BY <2>2
  <2>3. CASE ~(q = p /\ n = said + 1)
    <3>1. Holds(q, n)
        BY <1>2, <2>1, <2>3 DEF Holds
    <3>2. n # said + 1
        BY <1>5, <3>1
    <3>3. n \in 1 .. said
        BY <1>3, <3>2
    <3> QED
        BY <3>1, <3>3
  <2> QED
      BY <2>2, <2>3
<1>8. PageNumbers'
  <2>1. \A q \in Pages : draft'[q].said <= said' /\ waiting'[q] <= said'
      BY <1>1, <1>2, <1>3, <1>4, <1>5
  <2>2. \A q \in Pages : draft'[q].text # "blank" => draft'[q].said # 0
      BY <1>2, <1>3 DEF NumbersInv, PageNumbers
  <2>3. \A q, r \in Pages, n \in 1 .. said' : Holds(q, n)' /\ Holds(r, n)' => q = r
      BY <1>3, <1>7 DEF NumbersInv, PageNumbers
  <2>4. Unsaid(said + 1)
      BY <1>3 DEF NumbersInv, LogNumbers, Unsaid
  <2>5. \A q \in Pages : draft'[q].said # waiting'[q] => Unsaid(draft'[q].said)
      BY <1>1, <1>2, <2>4 DEF NumbersInv, PageNumbers
  <2> QED
      BY <1>1, <2>1, <2>2, <2>3, <2>5 DEF PageNumbers, Unsaid
<1>9. InboxNumbers'
  <2>1. \A i \in 1 .. Len(inbox) : inbox[i].author = "person" =>
            inbox[i].said \in 1 .. said' /\ \A q \in Pages : ~Holds(q, inbox[i].said)'
    <3> SUFFICES ASSUME NEW i \in 1 .. Len(inbox), inbox[i].author = "person", NEW q \in Pages
                 PROVE  inbox[i].said \in 1 .. said' /\ ~Holds(q, inbox[i].said)'
        BY <1>3 DEF NumbersInv, InboxNumbers
    <3>1. /\ inbox[i].said \in 1 .. said /\ ~Holds(q, inbox[i].said)
          /\ inbox[i].said \in 1 .. said' /\ inbox[i].said # said + 1
        BY <1>3 DEF NumbersInv, InboxNumbers
    <3> QED
        BY <1>1, <1>2, <3>1 DEF Holds
  <2> QED
      BY <1>1, <2>1 DEF NumbersInv, InboxNumbers, Unsaid
<1> QED
    BY <1>1, <1>6, <1>8, <1>9
    DEF NumbersInv, AsksOnce, AnsweredOnce, Asks, Answered, ComesBefore, LastShown, Unsaid

LEMMA SendNumbers ==
    ASSUME ChatTypes, ChatTypes', NumbersInv, NEW p \in Pages, handleSend(p)
    PROVE  NumbersInv'
<1> DEFINE r == [type |-> "chat", draft |-> draft[p]]
<1>1. UNCHANGED <<draft, shown, toPage, log, inbox, said>>
    BY DEF handleSend, serverVars
<1>2. /\ draft[p].text # "blank" /\ waiting[p] = 0
      /\ waiting'[p] = draft[p].said /\ toServer'[p] = Append(toServer[p], r)
      /\ \A q \in Pages : q # p => waiting'[q] = waiting[q] /\ toServer'[q] = toServer[q]
    BY DEF handleSend, ChatTypes
<1>3. draft[p].said # 0 /\ Unsaid(draft[p].said)
    BY <1>2 DEF NumbersInv, PageNumbers
<1>4. \A n : \A q \in Pages : Holds(q, n)' => Holds(q, n)
    BY <1>1, <1>2 DEF Holds
<1>5. PageNumbers'
  <2>1. \A q \in Pages : draft'[q].said # waiting'[q] => Unsaid(draft'[q].said)
      BY <1>1, <1>2 DEF NumbersInv, PageNumbers
  <2>2. \A q \in Pages : draft'[q].said <= said /\ waiting'[q] <= said
      BY <1>1, <1>2 DEF NumbersInv, PageNumbers
  <2> QED
      BY <1>1, <1>4, <2>1, <2>2 DEF NumbersInv, PageNumbers, Unsaid
<1>6. LogNumbers' /\ InboxNumbers'
  <2>1. \A i \in 1 .. Len(inbox) : inbox[i].author = "person" =>
            \A q \in Pages : ~Holds(q, inbox[i].said)'
    <3> SUFFICES ASSUME NEW i \in 1 .. Len(inbox), inbox[i].author = "person", NEW q \in Pages
                 PROVE  ~Holds(q, inbox[i].said)'
        OBVIOUS
    <3>1. ~Holds(q, inbox[i].said)
        BY DEF NumbersInv, InboxNumbers
    <3> QED
        BY <1>1, <1>2, <3>1 DEF Holds
  <2> QED
      BY <1>1, <2>1 DEF NumbersInv, LogNumbers, InboxNumbers, Unsaid
<1>7. (\A i : ~Asks(p, i)) /\ (\A i : ~Answered(p, i))
    BY <1>2 DEF NumbersInv, AsksOnce, AnsweredOnce, Asks, Answered
<1>8. /\ Len(toServer'[p]) = Len(toServer[p]) + 1 /\ Len(toServer[p]) \in Nat
      /\ toServer'[p][Len(toServer[p]) + 1] = r
      /\ \A i \in 1 .. Len(toServer[p]) : toServer'[p][i] = toServer[p][i]
  <2>1. toServer[p] \in Seq(Requests) /\ r \in Requests
      BY DEF ChatTypes, Requests
  <2> QED
      BY <1>2, <2>1, AppendProperties
<1>9. \A i : Asks(p, i)' => i = Len(toServer[p]) + 1
    BY <1>7, <1>8 DEF Asks
<1>10. AsksOnce(p)' /\ AnsweredOnce(p)'
  <2>1. (\A i : ~Answered(p, i))'
      BY <1>1, <1>7 DEF Answered
  <2>2. Unsaid(waiting[p])' /\ waiting'[p] # 0
      BY <1>1, <1>2, <1>3 DEF Unsaid
  <2>3. AnsweredOnce(p)'
      BY <2>1 DEF AnsweredOnce
  <2>4. toServer'[p][Len(toServer[p]) + 1].draft.said = waiting'[p]
      BY <1>2, <1>8
  <2>5. AsksOnce(p)'
      BY <1>9, <2>1, <2>2, <2>4 DEF AsksOnce
  <2> QED
      BY <2>3, <2>5
<1>11. ASSUME NEW q \in Pages, q # p PROVE AsksOnce(q)' /\ AnsweredOnce(q)'
  <2>1. AsksOnce(q) /\ AnsweredOnce(q)
      BY DEF NumbersInv
  <2>2. /\ waiting'[q] = waiting[q] /\ toServer'[q] = toServer[q]
        /\ toPage'[q] = toPage[q] /\ shown'[q] = shown[q]
      BY <1>1, <1>2, <1>11
  <2>3. AsksOnce(q)'
      BY <1>1, <2>1, <2>2 DEF AsksOnce, Asks, Answered, Unsaid
  <2>4. AnsweredOnce(q)'
      BY <1>1, <2>1, <2>2 DEF AnsweredOnce, Answered, ComesBefore, LastShown, Unsaid
  <2> QED
      BY <2>3, <2>4
<1> QED
    BY <1>5, <1>6, <1>10, <1>11 DEF NumbersInv

LEMMA LinkNumbers ==
    ASSUME ChatTypes, NumbersInv, NEW p \in Pages, Connect(p) \/ ConnectionLost(p)
    PROVE  NumbersInv'
<1>1. UNCHANGED <<draft, waiting, shown, said, log, inbox>>
    BY DEF Connect, ConnectionLost, pageVars, serverVars
<1>2. LogNumbers' /\ PageNumbers' /\ InboxNumbers'
    BY <1>1 DEF NumbersInv, LogNumbers, PageNumbers, InboxNumbers, Holds, Unsaid
<1>3. ASSUME NEW q \in Pages, q # p PROVE AsksOnce(q)' /\ AnsweredOnce(q)'
  <2>1. toServer'[q] = toServer[q] /\ toPage'[q] = toPage[q]
      BY <1>3 DEF Connect, ConnectionLost, ChatTypes
  <2> QED
      BY <1>1, <2>1
      DEF NumbersInv, AsksOnce, AnsweredOnce, Asks, Answered, ComesBefore, LastShown, Unsaid
<1>4. CASE Connect(p)
  <2>1. toServer[p] \in Seq(Requests) /\ Nickname \in Requests
      BY DEF ChatTypes, Nickname, Requests
  <2>2. toServer'[p] = toServer[p] \o (IF panel[p] THEN <<Nickname>> ELSE <<>>)
      BY <1>4 DEF Connect, ChatTypes
  <2>3. toServer'[p] = toServer[p] \/ toServer'[p] = Append(toServer[p], Nickname)
      BY <2>1, <2>2, ConcatEmptySeq, AppendIsConcat
  <2>4. toPage'[p] = <<[type |-> "session"]>>
      BY <1>4 DEF Connect, ChatTypes
  <2>5. /\ waiting'[p] = waiting[p] /\ shown'[p] = shown[p]
        /\ Unsaid(waiting[p]) => Unsaid(waiting[p])'
        /\ AsksOnce(p) /\ AnsweredOnce(p)
      BY <1>1 DEF NumbersInv, Unsaid
  <2>6. AsksOnce(p)' /\ AnsweredOnce(p)'
      BY <2>3, <2>4, <2>5, OnceFrame
  <2> QED
      BY <1>2, <1>3, <2>6 DEF NumbersInv
<1>5. CASE ConnectionLost(p)
  <2>1. toServer'[p] = <<>> /\ toPage'[p] = <<>>
      BY <1>5 DEF ConnectionLost, ChatTypes
  <2>2. AsksOnce(p)' /\ AnsweredOnce(p)'
      BY <2>1 DEF AsksOnce, AnsweredOnce
  <2> QED
      BY <1>2, <1>3, <2>2 DEF NumbersInv
<1> QED
    BY <1>4, <1>5

LEMMA PageReceivesNumbers ==
    ASSUME ChatTypes, ChatTypes', NumbersInv, NEW p \in Pages, PageReceives(p)
    PROVE  NumbersInv'
<1> DEFINE m == Head(toPage[p])
<1>1. UNCHANGED <<log, inbox, said>>
    BY DEF PageReceives, serverVars
<1>2. \A q \in Pages : q # p =>
          /\ shown'[q] = shown[q] /\ waiting'[q] = waiting[q] /\ draft'[q] = draft[q]
          /\ toServer'[q] = toServer[q] /\ toPage'[q] = toPage[q]
    BY DEF PageReceives, handleMessage, ChatTypes
<1>3. /\ waiting'[p] = IF m.type \in {"sent", "refused"} THEN 0 ELSE waiting[p]
      /\ draft'[p] = IF m.type = "sent" THEN NoDraft ELSE draft[p]
      /\ shown'[p] = IF m.type = "chat" THEN Append(Latest(shown[p], MaxShown - 1), m)
                     ELSE shown[p]
      /\ toServer'[p] = toServer[p] \/ toServer'[p] = Append(toServer[p], Nickname)
    BY DEF PageReceives, handleMessage, ChatTypes
<1>4. /\ toPage[p] \in Seq(LogEntry \cup Answers) /\ toPage[p] # <<>>
      /\ toPage'[p] = Tail(toPage[p])
    BY DEF PageReceives, ChatTypes
<1>5. /\ m = toPage[p][1] /\ 1 \in 1 .. Len(toPage[p]) /\ m \in LogEntry \cup Answers
      /\ Len(toPage'[p]) = Len(toPage[p]) - 1 /\ Len(toPage[p]) \in Nat
      /\ \A i \in 1 .. Len(toPage'[p]) : /\ i + 1 \in 1 .. Len(toPage[p])
                                         /\ toPage'[p][i] = toPage[p][i + 1]
    BY <1>4
<1>6. NoDraft.said = 0 /\ NoDraft.text = "blank"
    BY DEF NoDraft
<1>7. /\ m.type \in {"sent", "refused"} => Answered(p, 1)
      /\ \A i : Answered(p, i)' => /\ Answered(p, i + 1) /\ i \in Nat \ {0}
                                   /\ i \in 1 .. Len(toPage'[p])
    BY <1>5 DEF Answered
<1>8. AsksOnce(p) /\ AnsweredOnce(p) /\ LogNumbers /\ PageNumbers /\ InboxNumbers
    BY DEF NumbersInv
<1>9. m.type \in {"sent", "refused"} =>
          /\ \A i : ~Asks(p, i)
          /\ \A i : ~Answered(p, i)'
          /\ m.type = "refused" => Unsaid(waiting[p])
  <2> SUFFICES ASSUME m.type \in {"sent", "refused"}
               PROVE  /\ \A i : ~Asks(p, i)
                      /\ \A i : ~Answered(p, i)'
                      /\ m.type = "refused" => Unsaid(waiting[p])
      OBVIOUS
  <2>1. Answered(p, 1)
      BY <1>7
  <2>2. \A i : ~Asks(p, i)
      BY <1>8, <2>1 DEF AsksOnce, Asks, Answered
  <2>3. \A j : Answered(p, j) => 1 = j
      BY <1>5, <1>8, <2>1 DEF AnsweredOnce, Answered
  <2>4. \A i : ~Answered(p, i)'
      BY <1>7, <2>3
  <2>5. m.type = "refused" => Unsaid(waiting[p])
      BY <1>5, <1>8, <2>1 DEF AnsweredOnce
  <2> QED
      BY <2>2, <2>4, <2>5
<1>10. PageNumbers'
  <2>1. \A n : \A q \in Pages : Holds(q, n)' => Holds(q, n)
      BY <1>2, <1>3, <1>6 DEF Holds
  <2>2. \A q \in Pages : /\ draft'[q].said <= said /\ waiting'[q] <= said
                         /\ draft'[q].text # "blank" => draft'[q].said # 0
    <3>1. said \in Nat
        BY DEF ChatTypes
    <3> QED
        BY <1>2, <1>3, <1>6, <1>8, <3>1 DEF PageNumbers
  <2>3. \A q \in Pages : draft'[q].said # waiting'[q] => Unsaid(draft'[q].said)
    <3>1. ASSUME NEW q \in Pages, q # p
          PROVE  draft'[q].said # waiting'[q] => Unsaid(draft'[q].said)
        BY <1>2, <1>8, <3>1 DEF PageNumbers
    <3>2. draft'[p].said # waiting'[p] => Unsaid(draft'[p].said)
      <4>1. CASE m.type = "sent"
          BY <1>3, <1>6, <4>1
      <4>2. CASE m.type = "refused"
        <5>1. draft'[p] = draft[p] /\ Unsaid(waiting[p])
            BY <1>3, <1>9, <4>2
        <5> QED
            BY <1>8, <5>1 DEF PageNumbers
      <4>3. CASE m.type \notin {"sent", "refused"}
          BY <1>3, <1>8, <4>3 DEF PageNumbers
      <4> QED
          BY <4>1, <4>2, <4>3
    <3> QED
        BY <3>1, <3>2
  <2> QED
      BY <1>1, <1>8, <2>1, <2>2, <2>3 DEF PageNumbers, Unsaid
<1>11. LogNumbers' /\ InboxNumbers'
  <2>1. \A i \in 1 .. Len(inbox), q \in Pages :
            Holds(q, inbox[i].said)' => Holds(q, inbox[i].said)
      BY <1>1, <1>2, <1>3, <1>6 DEF Holds
  <2> QED
      BY <1>1, <1>8, <2>1 DEF LogNumbers, InboxNumbers, Unsaid
<1>12. ASSUME NEW q \in Pages, q # p PROVE AsksOnce(q)' /\ AnsweredOnce(q)'
    BY <1>1, <1>2, <1>12
    DEF NumbersInv, AsksOnce, AnsweredOnce, Asks, Answered, ComesBefore, LastShown, Unsaid
<1>13. \A i : Asks(p, i)' => Asks(p, i) /\ toServer'[p][i] = toServer[p][i]
  <2>1. CASE toServer'[p] = toServer[p]
      BY <2>1 DEF Asks
  <2>2. CASE toServer'[p] = Append(toServer[p], Nickname)
    <3>1. Nickname \in Requests /\ Nickname.type # "chat" /\ toServer[p] \in Seq(Requests)
        BY DEF Nickname, Requests, ChatTypes
    <3>2. /\ Len(toServer'[p]) = Len(toServer[p]) + 1 /\ Len(toServer[p]) \in Nat
          /\ toServer'[p][Len(toServer[p]) + 1] = Nickname
          /\ \A i \in 1 .. Len(toServer[p]) : toServer'[p][i] = toServer[p][i]
        BY <2>2, <3>1, AppendProperties
    <3> QED
        BY <3>1, <3>2 DEF Asks
  <2> QED
      BY <1>3, <2>1, <2>2
<1>14. CASE m.type \in {"sent", "refused"}
    BY <1>9, <1>10, <1>11, <1>12, <1>13, <1>14 DEF NumbersInv, AsksOnce, AnsweredOnce
<1>15. CASE m.type \notin {"sent", "refused"}
  <2>1. waiting'[p] = waiting[p] /\ (Unsaid(waiting[p]) => Unsaid(waiting[p])')
      BY <1>1, <1>3, <1>15 DEF Unsaid
  <2>2. AsksOnce(p)'
    <3> SUFFICES ASSUME NEW i, Asks(p, i)'
                 PROVE  /\ toServer'[p][i].draft.said = waiting[p] /\ waiting[p] # 0
                        /\ Unsaid(waiting[p])
                        /\ \A j : Asks(p, j)' => i = j
                        /\ \A j : ~Answered(p, j)'
        BY <2>1 DEF AsksOnce
    <3>1. Asks(p, i) /\ toServer'[p][i] = toServer[p][i] /\ i \in 1 .. Len(toServer[p])
        BY <1>13 DEF Asks
    <3>2. /\ toServer[p][i].draft.said = waiting[p] /\ waiting[p] # 0
          /\ Unsaid(waiting[p])
          /\ \A j : Asks(p, j) => i = j
          /\ \A j : ~Answered(p, j)
        BY <1>8, <3>1 DEF AsksOnce, Asks, Answered
    <3> QED
        BY <1>7, <1>13, <3>1, <3>2
  <2>3. AnsweredOnce(p)'
    <3> SUFFICES ASSUME NEW i, Answered(p, i)'
                 PROVE  /\ waiting[p] # 0
                        /\ \A j : Answered(p, j)' => i = j
                        /\ toPage'[p][i].type = "refused" => Unsaid(waiting[p])
                        /\ toPage'[p][i].type = "sent" => ComesBefore(p, i)'
        BY <2>1 DEF AnsweredOnce
    <3>1. /\ Answered(p, i + 1) /\ i \in Nat \ {0} /\ i \in 1 .. Len(toPage'[p])
          /\ i + 1 \in 1 .. Len(toPage[p]) /\ toPage'[p][i] = toPage[p][i + 1]
        BY <1>5, <1>7
    <3>2. /\ waiting[p] # 0
          /\ \A j : Answered(p, j) => i + 1 = j
          /\ toPage[p][i + 1].type = "refused" => Unsaid(waiting[p])
          /\ toPage[p][i + 1].type = "sent" =>
                 toPage[p][i].type = "chat" /\ toPage[p][i].said = waiting[p]
      <4>1. (i + 1) - 1 = i /\ i + 1 # 1
          BY <3>1
      <4> QED
          BY <1>8, <3>1, <4>1 DEF AnsweredOnce, Answered, ComesBefore
    <3>3. \A j : Answered(p, j)' => i = j
        BY <1>7, <3>1, <3>2
    <3>4. ASSUME m.type = "chat"
          PROVE  shown'[p] # <<>> /\ shown'[p][Len(shown'[p])].said = m.said
      <4> DEFINE rest == Latest(shown[p], MaxShown - 1)
      <4>1. m \in LogEntry
          BY <1>5, <3>4 DEF Answers
      <4>2. rest \in Seq(LogEntry)
        <5>1. MaxShown - 1 \in Nat /\ shown[p] \in Seq(LogEntry)
            BY ChatConstants DEF ChatTypes
        <5> QED
            BY <5>1, LatestProperties
      <4>3. shown'[p] = Append(rest, m)
          BY <1>3, <3>4
      <4> HIDE DEF rest
      <4>4. shown'[p] # <<>> /\ shown'[p][Len(shown'[p])] = m
          BY <4>1, <4>2, <4>3, AppendProperties, LenProperties
      <4> QED
          BY <4>4
    <3>5. ASSUME toPage[p][i].type = "chat", toPage[p][i].said = waiting[p]
          PROVE  ComesBefore(p, i)'
      <4>1. CASE i = 1
        <5>1. m = toPage[p][i] /\ m.type = "chat" /\ m.said = waiting[p]
            BY <1>5, <3>5, <4>1
        <5>2. shown'[p] # <<>> /\ shown'[p][Len(shown'[p])].said = waiting'[p]
            BY <2>1, <3>4, <5>1
        <5> QED
            BY <4>1, <5>2 DEF ComesBefore, LastShown
      <4>2. CASE i # 1
        <5>1. i - 1 \in 1 .. Len(toPage'[p]) /\ (i - 1) + 1 = i
            BY <1>5, <3>1, <4>2
        <5>2. toPage'[p][i - 1] = toPage[p][i]
            BY <1>5, <5>1
        <5> QED
            BY <2>1, <3>5, <4>2, <5>2 DEF ComesBefore
      <4> QED
          BY <4>1, <4>2
    <3> QED
        BY <3>1, <3>2, <3>3, <3>5
  <2> QED
      BY <1>10, <1>11, <1>12, <2>2, <2>3 DEF NumbersInv
<1> QED
    BY <1>14, <1>15

LEMMA InitNumbers == Init => NumbersInv
BY DEF Init, BotInit, NumbersInv, LogNumbers, PageNumbers, InboxNumbers, Holds, Unsaid,
       AsksOnce, AnsweredOnce, NoDraft

LEMMA StepNumbers ==
    ASSUME ChatTypes, ChatTypes', NumbersInv, [Next]_vars PROVE NumbersInv'
<1>1. CASE Tick \/ UNCHANGED vars
  <2>1. UNCHANGED <<draft, waiting, shown, said, toServer, toPage, log, inbox>>
      BY <1>1 DEF Tick, vars, pageVars, serverVars
  <2> QED
      BY <2>1 DEF NumbersInv, LogNumbers, PageNumbers, InboxNumbers, Holds, Unsaid,
                  AsksOnce, AnsweredOnce, Asks, Answered, ComesBefore, LastShown
<1> QED
    BY <1>1, ServerReceivesNumbers, MessageCreateNumbers, PostNumbers, WriteNumbers,
       TypeNumbers, SendNumbers, LinkNumbers, PageReceivesNumbers DEF Next

-----------------------------------------------------------------------------
LEMMA HasAppend ==
    ASSUME NEW s \in Seq(Nat), NEW x \in Nat
    PROVE  /\ \A n : Has(Append(s, x), n) <=> Has(s, n) \/ n = x
           /\ IsInjective(s) /\ ~Has(s, x) => IsInjective(Append(s, x))
<1> DEFINE t == Append(s, x)
<1>1. /\ t \in Seq(Nat) /\ Len(t) = Len(s) + 1 /\ t[Len(s) + 1] = x
      /\ \A i \in 1 .. Len(s) : t[i] = s[i]
    BY AppendProperties
<1>2. Len(s) \in Nat /\ DOMAIN s = 1 .. Len(s) /\ DOMAIN t = 1 .. Len(t)
    BY <1>1, LenProperties
<1> HIDE DEF t
<1>3. \A i \in 1 .. Len(t) : i \in 1 .. Len(s) \/ i = Len(s) + 1
    BY <1>1, <1>2
<1>4. \A i \in 1 .. Len(s) : i \in 1 .. Len(t)
    BY <1>1, <1>2
<1>5. Len(s) + 1 \in 1 .. Len(t)
    BY <1>1, <1>2
<1>6. \A n : Has(t, n) <=> Has(s, n) \/ n = x
    BY <1>1, <1>3, <1>4, <1>5 DEF Has
<1>7. IsInjective(s) /\ ~Has(s, x) => IsInjective(t)
    BY <1>1, <1>2, <1>3 DEF IsInjective, Has
<1> QED
    BY <1>6, <1>7 DEF t

LEMMA HasTail ==
    ASSUME NEW s \in Seq(Nat), s # <<>>, IsInjective(s)
    PROVE  /\ Head(s) \in Nat /\ Has(s, Head(s)) /\ ~Has(Tail(s), Head(s))
           /\ IsInjective(Tail(s))
           /\ \A n : Has(Tail(s), n) => Has(s, n)
<1> DEFINE t == Tail(s)
<1>1. /\ t \in Seq(Nat) /\ Len(t) = Len(s) - 1 /\ Len(s) \in Nat \ {0} /\ Head(s) = s[1]
      /\ \A i \in 1 .. Len(t) : t[i] = s[i + 1]
      /\ Head(s) \in Nat
    OBVIOUS
<1>2. DOMAIN s = 1 .. Len(s) /\ DOMAIN t = 1 .. Len(t)
    BY <1>1, LenProperties
<1> HIDE DEF t
<1>3. 1 \in 1 .. Len(s) /\ \A i \in 1 .. Len(t) : i + 1 \in 1 .. Len(s) /\ i + 1 # 1
    BY <1>1
<1>4. \A i, j \in 1 .. Len(t) : i + 1 = j + 1 => i = j
    BY <1>1
<1>5. \A i, j \in 1 .. Len(s) : s[i] = s[j] => i = j
    BY <1>2 DEF IsInjective
<1>6. ~Has(t, Head(s))
  <2> SUFFICES ASSUME NEW i \in 1 .. Len(t), t[i] = s[1]
               PROVE  FALSE
      BY <1>1 DEF Has
  <2>1. s[i + 1] = s[1] /\ i + 1 \in 1 .. Len(s) /\ i + 1 # 1
      BY <1>1, <1>3
  <2> QED
      BY <1>3, <1>5, <2>1
<1>7. Has(s, Head(s)) /\ \A n : Has(t, n) => Has(s, n)
    BY <1>1, <1>3 DEF Has
<1>8. \A i, j \in 1 .. Len(t) : t[i] = t[j] => i = j
  <2> SUFFICES ASSUME NEW i \in 1 .. Len(t), NEW j \in 1 .. Len(t), t[i] = t[j]
               PROVE  i = j
      OBVIOUS
  <2>1. s[i + 1] = s[j + 1] /\ i + 1 \in 1 .. Len(s) /\ j + 1 \in 1 .. Len(s)
      BY <1>1, <1>3
  <2>2. i + 1 = j + 1
      BY <1>5, <2>1
  <2> QED
      BY <1>4, <2>2
<1>9. IsInjective(t)
    BY <1>2, <1>8 DEF IsInjective
<1> QED
    BY <1>1, <1>6, <1>7, <1>9 DEF t

LEMMA HasRemoveAt ==
    ASSUME NEW s \in Seq(Nat), NEW i \in 1 .. Len(s), IsInjective(s)
    PROVE  /\ s[i] \in Nat /\ Has(s, s[i]) /\ ~Has(RemoveAt(s, i), s[i])
           /\ IsInjective(RemoveAt(s, i)) /\ RemoveAt(s, i) \in Seq(Nat)
           /\ \A n : Has(RemoveAt(s, i), n) => Has(s, n)
<1> DEFINE a == SubSeq(s, 1, i - 1)
           b == SubSeq(s, i + 1, Len(s))
           t == a \o b
           old(k) == IF k < i THEN k ELSE k + 1
<1>1. Len(s) \in Nat /\ i \in Nat \ {0} /\ i <= Len(s) /\ s[i] \in Nat
    OBVIOUS
<1>2. a \in Seq(Nat) /\ Len(a) = i - 1 /\ \A k \in 1 .. i - 1 : a[k] = s[k]
    BY <1>1
<1>3. b \in Seq(Nat) /\ Len(b) = Len(s) - i /\ \A k \in 1 .. Len(s) - i : b[k] = s[k + i]
    BY <1>1
<1>4. /\ t \in Seq(Nat) /\ Len(t) = Len(s) - 1
      /\ \A k \in 1 .. Len(t) : t[k] = IF k <= i - 1 THEN a[k] ELSE b[k - (i - 1)]
  <2> HIDE DEF a, b
  <2>1. /\ t \in Seq(Nat) /\ Len(t) = Len(a) + Len(b)
        /\ \A k \in 1 .. Len(a) + Len(b) : t[k] = IF k <= Len(a) THEN a[k] ELSE b[k - Len(a)]
      BY <1>2, <1>3, ConcatProperties
  <2>2. Len(a) + Len(b) = Len(s) - 1
      BY <1>1, <1>2, <1>3
  <2> QED
      BY <1>2, <2>1, <2>2
<1>5. \A k \in 1 .. Len(t) : old(k) \in 1 .. Len(s) /\ old(k) # i /\ t[k] = s[old(k)]
  <2> SUFFICES ASSUME NEW k \in 1 .. Len(t)
               PROVE  old(k) \in 1 .. Len(s) /\ old(k) # i /\ t[k] = s[old(k)]
      OBVIOUS
  <2> HIDE DEF a, b, t, old
  <2>1. k \in Nat /\ 1 <= k /\ k <= Len(s) - 1
      BY <1>1, <1>4
  <2>2. CASE k < i
    <3>1. old(k) = k
        BY <2>2 DEF old
    <3>2. k <= i - 1 /\ k \in 1 .. i - 1 /\ k \in 1 .. Len(s) /\ k # i
        BY <1>1, <2>1, <2>2
    <3>3. t[k] = a[k]
        BY <1>4, <3>2
    <3> QED
        BY <1>2, <3>1, <3>2, <3>3
  <2>3. CASE ~(k < i)
    <3>1. k - (i - 1) \in 1 .. Len(s) - i /\ (k - (i - 1)) + i = k + 1
        BY <1>1, <2>1, <2>3
    <3>2. k + 1 \in 1 .. Len(s) /\ k + 1 # i /\ ~(k <= i - 1)
        BY <1>1, <2>1, <2>3
    <3>3. t[k] = b[k - (i - 1)]
        BY <1>4, <3>2
    <3>4. old(k) = k + 1
        BY <2>3 DEF old
    <3> QED
        BY <1>3, <3>1, <3>2, <3>3, <3>4
  <2> QED
      BY <2>2, <2>3
<1>6. \A k, n \in 1 .. Len(t) : old(k) = old(n) => k = n
    BY <1>1, <1>4
<1>7. DOMAIN s = 1 .. Len(s) /\ DOMAIN t = 1 .. Len(t)
    BY <1>4, LenProperties
<1>8. RemoveAt(s, i) = t
    BY DEF RemoveAt
<1> HIDE DEF t, old
<1> HIDE DEF a, b
<1>9. \A j, k \in 1 .. Len(s) : s[j] = s[k] => j = k
    BY <1>7 DEF IsInjective
<1>10. \A k, n \in 1 .. Len(t) : t[k] = t[n] => k = n
  <2> SUFFICES ASSUME NEW k \in 1 .. Len(t), NEW n \in 1 .. Len(t), t[k] = t[n]
               PROVE  k = n
      OBVIOUS
  <2>1. s[old(k)] = s[old(n)] /\ old(k) \in 1 .. Len(s) /\ old(n) \in 1 .. Len(s)
      BY <1>5
  <2>2. old(k) = old(n)
      BY <1>9, <2>1
  <2> QED
      BY <1>6, <2>2
<1>11. IsInjective(t)
    BY <1>7, <1>10 DEF IsInjective
<1>12. ~Has(t, s[i])
  <2> SUFFICES ASSUME NEW k \in 1 .. Len(t), t[k] = s[i]
               PROVE  FALSE
      BY DEF Has
  <2>1. s[old(k)] = s[i] /\ old(k) \in 1 .. Len(s) /\ old(k) # i
      BY <1>5
  <2> QED
      BY <1>9, <2>1
<1>13. Has(s, s[i]) /\ \A n : Has(t, n) => Has(s, n)
    BY <1>5 DEF Has
<1> QED
    BY <1>1, <1>4, <1>8, <1>11, <1>12, <1>13

LEMMA FromPageGrows ==
    ASSUME log \in Seq(LogEntry), NEW m \in LogEntry, log' = Append(log, m)
    PROVE  /\ \A n : FromPage(n) => FromPage(n)'
           /\ m.from = "page" => FromPage(m.said)'
<1>1. /\ Len(log') = Len(log) + 1 /\ Len(log) \in Nat /\ log'[Len(log) + 1] = m
      /\ \A i \in 1 .. Len(log) : log'[i] = log[i]
    BY AppendProperties
<1>2. Len(log) + 1 \in 1 .. Len(log') /\ \A i \in 1 .. Len(log) : i \in 1 .. Len(log')
    BY <1>1
<1>3. \A n : FromPage(n) => FromPage(n)'
    BY <1>1, <1>2 DEF FromPage
<1>4. \A n : m.from = "page" /\ n = m.said =>
          \E j \in 1 .. Len(log') : log'[j].said = n /\ log'[j].from = "page"
    BY <1>1, <1>2
<1> QED
    BY <1>3, <1>4 DEF FromPage

LEMMA BridgeFrame ==
    ASSUME BridgeInv, UNCHANGED <<fetching, sending, bridge>>,
           \A n : FromPage(n) => FromPage(n)'
    PROVE  BridgeInv'
BY DEF BridgeInv, Has

\* A page's message goes to one place, an other's to none.
LEMMA PublishBridge ==
    ASSUME ChatTypes, BridgeInv, SpokenInv, NEW m \in LogEntry, log' = Append(log, m),
           Unsaid(m.said), handleChatBridgeOutbound(m), UNCHANGED bridge,
           m.from = "discord" => UNCHANGED spoken,
           spoken' = spoken \/ spoken' = Append(spoken, m.said)
    PROVE  BridgeInv' /\ SpokenInv'
<1>1. log \in Seq(LogEntry) /\ m.said \in Nat
      /\ fetching \in Seq(Nat) /\ sending \in Seq(Nat) /\ bridge \in Seq(Nat) /\ spoken \in Seq(Nat)
    BY DEF ChatTypes, LogEntry
<1>2. /\ \A n : FromPage(n) => FromPage(n)'
      /\ m.from = "page" => FromPage(m.said)'
      /\ \A n : Unsaid(n)' <=> Unsaid(n) /\ n # m.said
    BY <1>1, FromPageGrows, UnsaidGrows
<1>3. ~FromPage(m.said)
    BY DEF FromPage, Unsaid
<1>4. ~Has(fetching, m.said) /\ ~Has(sending, m.said) /\ ~Has(bridge, m.said)
    BY <1>1, <1>3 DEF BridgeInv
<1>5. BridgeInv'
  <2>1. CASE m.from = "discord"
    <3>1. UNCHANGED <<fetching, sending>>
        BY <2>1 DEF handleChatBridgeOutbound
    <3> QED
        BY <1>2, <3>1, BridgeFrame
  <2>2. CASE m.from = "page" /\ channelCache
    <3>1. sending' = Append(sending, m.said) /\ UNCHANGED fetching
        BY <2>2 DEF handleChatBridgeOutbound, sendToChannel
    <3>2. /\ \A n : Has(sending, n)' <=> Has(sending, n) \/ n = m.said
          /\ IsInjective(sending')
      <4>1. /\ \A n : Has(Append(sending, m.said), n) <=> Has(sending, n) \/ n = m.said
            /\ IsInjective(Append(sending, m.said))
          BY <1>1, <1>4, HasAppend DEF BridgeInv
      <4> QED
          BY <3>1, <4>1 DEF Has
    <3>3. \A n : (Has(fetching, n)' <=> Has(fetching, n)) /\ (Has(bridge, n)' <=> Has(bridge, n))
        BY <3>1 DEF Has
    <3> QED
        BY <1>2, <1>4, <2>2, <3>1, <3>2, <3>3 DEF BridgeInv
  <2>3. CASE m.from = "page" /\ ~channelCache
    <3>1. fetching' = Append(fetching, m.said) /\ UNCHANGED sending
        BY <2>3 DEF handleChatBridgeOutbound, sendToChannel
    <3>2. /\ \A n : Has(fetching, n)' <=> Has(fetching, n) \/ n = m.said
          /\ IsInjective(fetching')
      <4>1. /\ \A n : Has(Append(fetching, m.said), n) <=> Has(fetching, n) \/ n = m.said
            /\ IsInjective(Append(fetching, m.said))
          BY <1>1, <1>4, HasAppend DEF BridgeInv
      <4> QED
          BY <3>1, <4>1 DEF Has
    <3>3. \A n : (Has(sending, n)' <=> Has(sending, n)) /\ (Has(bridge, n)' <=> Has(bridge, n))
        BY <3>1 DEF Has
    <3> QED
        BY <1>2, <1>4, <2>3, <3>1, <3>2, <3>3 DEF BridgeInv
  <2> QED
      BY <2>1, <2>2, <2>3 DEF LogEntry
<1>6. SpokenInv'
  <2>1. CASE spoken' = spoken
      BY <1>2, <2>1 DEF SpokenInv, Has
  <2>2. CASE spoken' = Append(spoken, m.said)
    <3>1. ~Has(spoken, m.said)
        BY <1>1 DEF SpokenInv
    <3>2. /\ \A n : Has(Append(spoken, m.said), n) <=> Has(spoken, n) \/ n = m.said
          /\ IsInjective(Append(spoken, m.said))
        BY <1>1, <3>1, HasAppend DEF SpokenInv
    <3>3. \A n : Has(spoken, n)' <=> Has(spoken, n) \/ n = m.said
        BY <2>2, <3>2 DEF Has
    <3> QED
        BY <1>2, <2>2, <3>2, <3>3 DEF SpokenInv
  <2> QED
      BY <2>1, <2>2
<1> QED
    BY <1>5, <1>6

LEMMA BotBridge ==
    ASSUME ChatTypes, BridgeInv, Bot \/ Server PROVE BridgeInv'
<1>1. \A n : FromPage(n) <=> FromPage(n)'
    BY DEF Bot, Server, serverVars, FromPage
<1>2. fetching \in Seq(Nat) /\ sending \in Seq(Nat) /\ bridge \in Seq(Nat)
    BY DEF ChatTypes
<1>3. ASSUME NEW i \in 1 .. Len(fetching), FetchEnds(i), UNCHANGED bridge PROVE BridgeInv'
  <2> DEFINE x == fetching[i]
             t == RemoveAt(fetching, i)
  <2>1. /\ x \in Nat /\ Has(fetching, x) /\ ~Has(t, x) /\ IsInjective(t)
        /\ \A n : Has(t, n) => Has(fetching, n)
      BY <1>2, HasRemoveAt DEF BridgeInv
  <2>2. fetching' = t /\ (sending' = Append(sending, x) \/ UNCHANGED sending)
      BY <1>3 DEF FetchEnds
  <2>3. ~Has(sending, x) /\ ~Has(bridge, x) /\ FromPage(x)
      BY <2>1 DEF BridgeInv
  <2> HIDE DEF t, x
  <2>4. /\ \A n : Has(Append(sending, x), n) <=> Has(sending, n) \/ n = x
        /\ IsInjective(Append(sending, x))
      BY <1>2, <2>1, <2>3, HasAppend DEF BridgeInv
  <2>5. \A n : /\ (Has(fetching, n)' <=> Has(t, n)) /\ (Has(bridge, n)' <=> Has(bridge, n))
               /\ (Has(sending, n)' => Has(sending, n) \/ n = x)
      BY <1>3, <2>2, <2>4 DEF Has
  <2>6. IsInjective(fetching') /\ IsInjective(sending') /\ IsInjective(bridge')
      BY <1>3, <2>1, <2>2, <2>4 DEF BridgeInv
  <2> QED
      BY <1>1, <2>1, <2>3, <2>5, <2>6 DEF BridgeInv
<1>4. ASSUME SendEnds, UNCHANGED fetching PROVE BridgeInv'
  <2> DEFINE x == Head(sending)
             t == Tail(sending)
  <2>1. /\ x \in Nat /\ Has(sending, x) /\ ~Has(t, x) /\ IsInjective(t)
        /\ \A n : Has(t, n) => Has(sending, n)
      BY <1>2, <1>4, HasTail DEF BridgeInv, SendEnds
  <2>2. sending' = t /\ (bridge' = Append(bridge, x) \/ UNCHANGED bridge)
      BY <1>4 DEF SendEnds
  <2>3. ~Has(fetching, x) /\ ~Has(bridge, x) /\ FromPage(x)
      BY <2>1 DEF BridgeInv
  <2> HIDE DEF t, x
  <2>4. /\ \A n : Has(Append(bridge, x), n) <=> Has(bridge, n) \/ n = x
        /\ IsInjective(Append(bridge, x))
      BY <1>2, <2>1, <2>3, HasAppend DEF BridgeInv
  <2>5. \A n : /\ (Has(sending, n)' <=> Has(t, n)) /\ (Has(fetching, n)' <=> Has(fetching, n))
               /\ (Has(bridge, n)' => Has(bridge, n) \/ n = x)
      BY <1>4, <2>2, <2>4 DEF Has
  <2>6. IsInjective(fetching') /\ IsInjective(sending') /\ IsInjective(bridge')
      BY <1>4, <2>1, <2>2, <2>4 DEF BridgeInv
  <2> QED
      BY <1>1, <2>1, <2>3, <2>5, <2>6 DEF BridgeInv
<1>5. CASE UNCHANGED <<fetching, sending, bridge>>
    BY <1>1, <1>5, BridgeFrame
<1> QED
    BY <1>3, <1>4, <1>5 DEF Bot, BotStep, Ready, PresenceShows, Server, ServerStep,
       RoverComes, RoverGoes, lockRover, ModeChanges, handleBusEvent

\* The server publishes what a page says, if the rate and the text allow.
LEMMA ServerReceivesBridge ==
    ASSUME ChatTypes, NumbersInv, NumbersInv', BridgeInv, SpokenInv,
           NEW p \in Pages, ServerReceives(p)
    PROVE  BridgeInv' /\ SpokenInv'
<1> DEFINE r == Head(toServer[p])
<1>1. CASE UNCHANGED <<log, botVars, spoken>>
    BY <1>1, BridgeFrame DEF botVars, FromPage, SpokenInv, Unsaid, Has
<1>2. CASE ~UNCHANGED <<log, botVars, spoken>>
  <2>1. r.type # "nickname" /\ handleIncoming(p, r.draft)
      BY <1>2 DEF ServerReceives, setNickname
  <2>2. withinRateLimit(p) /\ r.draft.text = "fine"
      BY <1>2, <2>1 DEF handleIncoming
  <2> DEFINE m == [type |-> "chat", said |-> r.draft.said, from |-> "page"]
  <2>3. r \in Requests /\ Head(toServer[p]) = toServer[p][1] /\ 1 \in 1 .. Len(toServer[p])
      BY TakeRequest
  <2>4. m \in LogEntry /\ Asks(p, 1)
      BY <2>1, <2>3 DEF Requests, Drafts, LogEntry, Asks
  <2>5. Unsaid(m.said)
      BY <2>3, <2>4 DEF NumbersInv, AsksOnce
  <2>6. broadcastMessage(m, p, <<[type |-> "sent"]>>) /\ maybeSpeak(p, m)
      BY <2>1, <2>2 DEF handleIncoming
  <2>7. m.from = "page"
      OBVIOUS
  <2> HIDE DEF m
  <2>8. /\ log' = Append(log, m) /\ handleChatBridgeOutbound(m) /\ UNCHANGED bridge
        /\ (spoken' = spoken \/ spoken' = Append(spoken, m.said))
      BY <2>6 DEF broadcastMessage, maybeSpeak
  <2> QED
      BY <2>4, <2>5, <2>7, <2>8, PublishBridge
<1> QED
    BY <1>1, <1>2

LEMMA MessageCreateBridge ==
    ASSUME ChatTypes, NumbersInv, BridgeInv, SpokenInv, MessageCreate
    PROVE  BridgeInv' /\ SpokenInv'
<1> DEFINE m == Head(inbox)
<1>1. UNCHANGED spoken
    BY DEF MessageCreate
<1>2. CASE Bridged(m)
  <2> DEFINE e == [type |-> "chat", said |-> m.said, from |-> "discord"]
  <2>1. sendExternalMessage(e)
      BY <1>2 DEF MessageCreate
  <2>2. e \in LogEntry /\ e.said = m.said /\ e.from = "discord" /\ m.author = "person"
      BY <1>2, TakePost DEF Posts, LogEntry, Bridged
  <2> HIDE DEF e
  <2>3. Unsaid(e.said)
      BY <2>2, TakePost DEF NumbersInv, InboxNumbers
  <2>4. log' = Append(log, e) /\ handleChatBridgeOutbound(e) /\ UNCHANGED bridge
      BY <2>1 DEF sendExternalMessage
  <2> QED
      BY <1>1, <2>2, <2>3, <2>4, PublishBridge
<1>3. CASE ~Bridged(m)
  <2>1. UNCHANGED <<fetching, sending, bridge, log>>
      BY <1>3 DEF MessageCreate, handleCommand, lockRover, ModeChanges, handleBusEvent,
                  botVars, Commands
  <2>2. BridgeInv'
      BY <2>1, BridgeFrame DEF FromPage
  <2> QED
      BY <1>1, <2>1, <2>2 DEF SpokenInv, Unsaid, Has
<1> QED
    BY <1>2, <1>3

LEMMA InitBridge == Init => BridgeInv /\ SpokenInv
BY DEF Init, BotInit, BridgeInv, SpokenInv, Has, IsInjective

LEMMA StepBridge ==
    ASSUME ChatTypes, NumbersInv, NumbersInv', BridgeInv, SpokenInv, [Next]_vars
    PROVE  BridgeInv' /\ SpokenInv'
<1>1. CASE UNCHANGED <<log, spoken, fetching, sending, bridge>>
    BY <1>1, BridgeFrame DEF FromPage, SpokenInv, Unsaid, Has
<1>2. CASE Bot \/ Server
  <2>1. SpokenInv'
      BY <1>2 DEF Bot, Server, serverVars, SpokenInv, Unsaid, Has
  <2> QED
      BY <1>2, <2>1, BotBridge
<1>3. ASSUME NEW p \in Pages,
             \/ Connect(p) \/ ConnectionLost(p) \/ handleSend(p) \/ PageReceives(p)
             \/ \E text \in PageTexts : Type(p, text)
      PROVE  UNCHANGED <<log, spoken, fetching, sending, bridge>>
    BY <1>3 DEF Connect, ConnectionLost, handleSend, PageReceives, Type, botVars, serverVars
<1>4. ASSUME NEW text \in DiscordTexts, DiscordWrites(text)
      PROVE  UNCHANGED <<log, spoken, fetching, sending, bridge>>
    BY <1>4 DEF DiscordWrites, botVars, serverVars
<1>5. Tick \/ UNCHANGED vars => UNCHANGED <<log, spoken, fetching, sending, bridge>>
    BY DEF Tick, vars, botVars, serverVars
<1> QED
    BY <1>1, <1>2, <1>3, <1>4, <1>5, ServerReceivesBridge, MessageCreateBridge DEF Next

-----------------------------------------------------------------------------
\* Sequences of messages that follow the log l: what they lead to do so too.
Messages == LogEntry \cup Answers

LEMMA ConcatAt ==
    ASSUME NEW s \in Seq(Messages), NEW t \in Seq(Messages)
    PROVE  /\ s \o t \in Seq(Messages) /\ Len(s \o t) = Len(s) + Len(t)
           /\ Len(s) \in Nat /\ Len(t) \in Nat
           /\ \A i \in 1 .. Len(s) : (s \o t)[i] = s[i]
           /\ \A i \in 1 .. Len(t) : (s \o t)[Len(s) + i] = t[i]
<1>1. /\ s \o t \in Seq(Messages) /\ Len(s \o t) = Len(s) + Len(t)
      /\ \A i \in 1 .. Len(s) + Len(t) : (s \o t)[i] = IF i <= Len(s) THEN s[i] ELSE t[i - Len(s)]
    BY ConcatProperties
<1>2. Len(s) \in Nat /\ Len(t) \in Nat
    BY LenProperties
<1>3. \A i \in 1 .. Len(s) : i \in 1 .. Len(s) + Len(t) /\ i <= Len(s)
    BY <1>2
<1>4. \A i \in 1 .. Len(t) : /\ Len(s) + i \in 1 .. Len(s) + Len(t) /\ ~(Len(s) + i <= Len(s))
                             /\ (Len(s) + i) - Len(s) = i
    BY <1>2
<1> QED
    BY <1>1, <1>2, <1>3, <1>4

LEMMA InOrderPair ==
    ASSUME NEW s, NEW l, InOrder(s, l), NEW i \in 1 .. Len(s), NEW j \in 1 .. Len(s), i < j,
           s[i].type = "chat", s[j].type = "chat"
    PROVE  \E a, b \in 1 .. Len(l) : a < b /\ s[i] = l[a] /\ s[j] = l[b]
BY DEF InOrder

\* Something else than a message of the chat comes after s.
LEMMA OtherComes ==
    ASSUME NEW s \in Seq(Messages), NEW l, InOrder(s, l), NEW x \in Messages, x.type # "chat"
    PROVE  /\ InOrder(Append(s, x), l)
           /\ \A n : HasAllSince(s, l, n) => HasAllSince(Append(s, x), l, n)
<1> DEFINE t == Append(s, x)
<1>1. /\ Len(t) = Len(s) + 1 /\ Len(s) \in Nat /\ t[Len(s) + 1] = x
      /\ \A i \in 1 .. Len(s) : t[i] = s[i]
    BY AppendProperties, LenProperties
<1> HIDE DEF t
<1>2. /\ \A i \in 1 .. Len(t) : t[i].type = "chat" => i \in 1 .. Len(s) /\ t[i] = s[i]
      /\ \A i \in 1 .. Len(s) : i \in 1 .. Len(t)
    BY <1>1
<1>3. InOrder(t, l)
  <2>1. ASSUME NEW k \in 1 .. Len(t), t[k].type = "chat"
        PROVE  \E i \in 1 .. Len(l) : t[k] = l[i]
      BY <1>2, <2>1 DEF InOrder
  <2>2. ASSUME NEW k \in 1 .. Len(t), NEW n \in 1 .. Len(t),
               k < n, t[k].type = "chat", t[n].type = "chat"
        PROVE  \E i, j \in 1 .. Len(l) : i < j /\ t[k] = l[i] /\ t[n] = l[j]
    <3>1. k \in 1 .. Len(s) /\ n \in 1 .. Len(s) /\ t[k] = s[k] /\ t[n] = s[n]
        BY <1>2, <2>2
    <3> QED
        BY <2>2, <3>1, InOrderPair
  <2> QED
      BY <2>1, <2>2 DEF InOrder
<1>4. \A n : HasAllSince(s, l, n) => HasAllSince(t, l, n)
    BY <1>1, <1>2 DEF HasAllSince
<1> QED
    BY <1>3, <1>4 DEF t

\* The log grows, while s does not.
LEMMA LogLeads ==
    ASSUME NEW s, NEW l \in Seq(LogEntry), InOrder(s, l), NEW m \in LogEntry
    PROVE  InOrder(s, Append(l, m))
<1> DEFINE k == Append(l, m)
<1>1. /\ Len(k) = Len(l) + 1 /\ Len(l) \in Nat /\ \A i \in 1 .. Len(l) : k[i] = l[i]
    BY AppendProperties, LenProperties
<1> HIDE DEF k
<1>2. \A i \in 1 .. Len(l) : i \in 1 .. Len(k)
    BY <1>1
<1>3. \A i \in 1 .. Len(s) : s[i].type = "chat" => \E a \in 1 .. Len(k) : s[i] = k[a]
    BY <1>1, <1>2 DEF InOrder
<1>4. ASSUME NEW i \in 1 .. Len(s), NEW j \in 1 .. Len(s), i < j,
             s[i].type = "chat", s[j].type = "chat"
      PROVE  \E a, b \in 1 .. Len(k) : a < b /\ s[i] = k[a] /\ s[j] = k[b]
  <2>1. PICK a \in 1 .. Len(l), b \in 1 .. Len(l) : a < b /\ s[i] = l[a] /\ s[j] = l[b]
      BY <1>4, InOrderPair
  <2> QED
      BY <1>1, <1>2, <2>1
<1>5. InOrder(s, k)
    BY <1>3, <1>4 DEF InOrder
<1> QED
    BY <1>5 DEF k

\* What is published comes to s.
LEMMA MessageComes ==
    ASSUME NEW s \in Seq(Messages), NEW l \in Seq(LogEntry), InOrder(s, l), NEW m \in LogEntry
    PROVE  /\ InOrder(Append(s, m), Append(l, m))
           /\ \A n \in Nat : HasAllSince(s, l, n) => HasAllSince(Append(s, m), Append(l, m), n)
<1> DEFINE t == Append(s, m)
           k == Append(l, m)
<1>1. m \in Messages
    BY DEF Messages
<1>2. /\ Len(t) = Len(s) + 1 /\ Len(s) \in Nat /\ t[Len(s) + 1] = m
      /\ \A i \in 1 .. Len(s) : t[i] = s[i]
    BY <1>1, AppendProperties, LenProperties
<1>3. /\ Len(k) = Len(l) + 1 /\ Len(l) \in Nat /\ k[Len(l) + 1] = m
      /\ \A i \in 1 .. Len(l) : k[i] = l[i]
    BY AppendProperties, LenProperties
<1> HIDE DEF t, k
<1>4. /\ \A i \in 1 .. Len(t) : i \in 1 .. Len(s) \/ i = Len(s) + 1
      /\ \A i \in 1 .. Len(s) : i \in 1 .. Len(t) /\ ~(Len(s) + 1 < i)
      /\ Len(s) + 1 \in 1 .. Len(t) /\ ~(Len(s) + 1 < Len(s) + 1)
    BY <1>2
<1>5. /\ \A i \in 1 .. Len(k) : i \in 1 .. Len(l) \/ i = Len(l) + 1
      /\ \A i \in 1 .. Len(l) : i \in 1 .. Len(k) /\ i < Len(l) + 1
      /\ Len(l) + 1 \in 1 .. Len(k)
    BY <1>3
<1>6. \A i \in 1 .. Len(t) : t[i].type = "chat" => \E j \in 1 .. Len(k) : t[i] = k[j]
    BY <1>2, <1>3, <1>4, <1>5 DEF InOrder
<1>7. ASSUME NEW i \in 1 .. Len(t), NEW j \in 1 .. Len(t), i < j,
             t[i].type = "chat", t[j].type = "chat"
      PROVE  \E a, b \in 1 .. Len(k) : a < b /\ t[i] = k[a] /\ t[j] = k[b]
  <2>1. CASE j \in 1 .. Len(s)
    <3>1. i \in 1 .. Len(s)
        BY <1>4, <1>7, <2>1
    <3>2. t[i] = s[i] /\ t[j] = s[j]
        BY <1>2, <2>1, <3>1
    <3>3. PICK a \in 1 .. Len(l), b \in 1 .. Len(l) : a < b /\ s[i] = l[a] /\ s[j] = l[b]
        BY <1>7, <2>1, <3>1, <3>2, InOrderPair
    <3>4. a \in 1 .. Len(k) /\ b \in 1 .. Len(k) /\ k[a] = l[a] /\ k[b] = l[b]
        BY <1>3, <1>5
    <3> QED
        BY <3>2, <3>3, <3>4
  <2>2. CASE j = Len(s) + 1
    <3>1. i \in 1 .. Len(s)
        BY <1>4, <1>7, <2>2
    <3>2. PICK a \in 1 .. Len(l) : s[i] = l[a]
        BY <1>2, <1>7, <3>1 DEF InOrder
    <3>3. a < Len(l) + 1 /\ t[i] = k[a] /\ t[j] = k[Len(l) + 1]
        BY <1>2, <1>3, <1>5, <2>2, <3>1, <3>2
    <3> QED
        BY <1>5, <3>3
  <2> QED
      BY <1>4, <2>1, <2>2
<1>8. InOrder(t, k)
    BY <1>6, <1>7 DEF InOrder
<1>9. ASSUME NEW n \in Nat, HasAllSince(s, l, n) PROVE HasAllSince(t, k, n)
  <2> SUFFICES ASSUME NEW i \in n + 1 .. Len(k) PROVE \E j \in 1 .. Len(t) : t[j] = k[i]
      BY DEF HasAllSince
  <2>1. CASE i = Len(l) + 1
      BY <1>2, <1>3, <1>4, <2>1
  <2>2. CASE i # Len(l) + 1
    <3>1. i \in n + 1 .. Len(l) /\ i \in 1 .. Len(l)
        BY <1>3, <2>2
    <3> QED
        BY <1>2, <1>3, <1>4, <1>9, <3>1 DEF HasAllSince
  <2> QED
      BY <2>1, <2>2
<1> QED
    BY <1>8, <1>9 DEF t, k

\* Something else than a message of the chat is taken from between s and t.
LEMMA OtherIsTaken ==
    ASSUME NEW s \in Seq(Messages), NEW t \in Seq(Messages), t # <<>>,
           Head(t).type # "chat", NEW l \in Seq(LogEntry), InOrder(s \o t, l)
    PROVE  /\ InOrder(s \o Tail(t), l)
           /\ (\A i \in 1 .. Len(l) : l[i].type = "chat") =>
                  \A n \in Nat : HasAllSince(s \o t, l, n) => HasAllSince(s \o Tail(t), l, n)
<1> DEFINE u == s \o t
           v == s \o Tail(t)
           old(i) == IF i <= Len(s) THEN i ELSE i + 1
<1>1. /\ Tail(t) \in Seq(Messages) /\ Len(Tail(t)) = Len(t) - 1 /\ Head(t) = t[1]
      /\ Len(t) \in Nat \ {0} /\ Len(s) \in Nat
      /\ \A i \in 1 .. Len(Tail(t)) : Tail(t)[i] = t[i + 1]
    BY HeadTailProperties, EmptySeq
<1>2. /\ Len(u) = Len(s) + Len(t)
      /\ \A i \in 1 .. Len(s) : u[i] = s[i]
      /\ \A i \in 1 .. Len(t) : u[Len(s) + i] = t[i]
    BY ConcatAt
<1>3. /\ Len(v) = Len(s) + Len(Tail(t))
      /\ \A i \in 1 .. Len(s) : v[i] = s[i]
      /\ \A i \in 1 .. Len(Tail(t)) : v[Len(s) + i] = Tail(t)[i]
    BY <1>1, ConcatAt
<1> HIDE DEF u, v
<1>4. Len(v) = Len(u) - 1
    BY <1>1, <1>2, <1>3
<1>5. ASSUME NEW i \in 1 .. Len(v) PROVE old(i) \in 1 .. Len(u) /\ v[i] = u[old(i)]
  <2>1. CASE i <= Len(s)
      BY <1>1, <1>2, <1>3, <1>4, <2>1
  <2>2. CASE ~(i <= Len(s))
    <3>1. /\ i - Len(s) \in 1 .. Len(Tail(t)) /\ Len(s) + (i - Len(s)) = i
          /\ (i - Len(s)) + 1 \in 1 .. Len(t) /\ Len(s) + ((i - Len(s)) + 1) = i + 1
          /\ i + 1 \in 1 .. Len(u)
        BY <1>1, <1>2, <1>3, <1>4, <2>2
    <3>2. v[i] = Tail(t)[i - Len(s)]
        BY <1>3, <3>1
    <3>3. v[i] = t[(i - Len(s)) + 1]
        BY <1>1, <3>1, <3>2
    <3>4. v[i] = u[i + 1]
        BY <1>2, <3>1, <3>3
    <3> QED
        BY <2>2, <3>1, <3>4
  <2> QED
      BY <2>1, <2>2
<1>6. \A i, j \in 1 .. Len(v) : i < j => old(i) < old(j)
    BY <1>1, <1>3
<1>7. ASSUME NEW j \in 1 .. Len(u), u[j].type = "chat"
      PROVE  \E i \in 1 .. Len(v) : v[i] = u[j]
  <2>1. j # Len(s) + 1
    <3>1. u[Len(s) + 1] = Head(t)
        BY <1>1, <1>2
    <3> QED
        BY <1>7, <3>1
  <2>2. CASE j <= Len(s)
    <3>1. j \in 1 .. Len(v) /\ old(j) = j
        BY <1>1, <1>3, <2>2
    <3> QED
        BY <1>5, <3>1
  <2>3. CASE ~(j <= Len(s))
    <3>1. j - 1 \in 1 .. Len(v) /\ old(j - 1) = j
        BY <1>1, <1>2, <1>3, <2>1, <2>3
    <3> QED
        BY <1>5, <3>1
  <2> QED
      BY <2>2, <2>3
<1>8. InOrder(v, l)
  <2>1. InOrder(u, l)
      BY DEF u
  <2>2. \A i \in 1 .. Len(v) : v[i].type = "chat" => \E a \in 1 .. Len(l) : v[i] = l[a]
    <3>1. \A i \in 1 .. Len(u) : u[i].type = "chat" => \E a \in 1 .. Len(l) : u[i] = l[a]
        BY <2>1 DEF InOrder
    <3> QED
        BY <1>5, <3>1
  <2>3. ASSUME NEW i \in 1 .. Len(v), NEW j \in 1 .. Len(v), i < j,
               v[i].type = "chat", v[j].type = "chat"
        PROVE  \E a, b \in 1 .. Len(l) : a < b /\ v[i] = l[a] /\ v[j] = l[b]
    <3>1. /\ old(i) \in 1 .. Len(u) /\ old(j) \in 1 .. Len(u) /\ old(i) < old(j)
          /\ v[i] = u[old(i)] /\ v[j] = u[old(j)]
        BY <1>5, <1>6, <2>3
    <3> HIDE DEF old
    <3> QED
        BY <2>1, <2>3, <3>1, InOrderPair
  <2> QED
      BY <2>2, <2>3 DEF InOrder
<1>9. ASSUME \A i \in 1 .. Len(l) : l[i].type = "chat", NEW n \in Nat, HasAllSince(u, l, n)
      PROVE  HasAllSince(v, l, n)
  <2> SUFFICES ASSUME NEW i \in n + 1 .. Len(l) PROVE \E k \in 1 .. Len(v) : v[k] = l[i]
      BY DEF HasAllSince
  <2>1. PICK k \in 1 .. Len(u) : u[k] = l[i]
      BY <1>9 DEF HasAllSince
  <2>2. l[i].type = "chat"
      BY <1>9
  <2> QED
      BY <1>7, <2>1, <2>2
<1> QED
    BY <1>8, <1>9 DEF u, v

\* A message of the chat is taken.
LEMMA MessageIsTaken ==
    ASSUME NEW s \in Seq(Messages), NEW t \in Seq(Messages), t # <<>>
    PROVE  Append(s, Head(t)) \o Tail(t) = s \o t
<1>1. Head(t) \in Messages /\ Tail(t) \in Seq(Messages)
    BY HeadTailProperties
<1>2. <<Head(t)>> \in Seq(Messages) /\ Append(s, Head(t)) = s \o <<Head(t)>>
    BY <1>1, AppendIsConcat
<1>3. <<Head(t)>> \o Tail(t) = t
  <2>1. <<Head(t)>> \o Tail(t) \in Seq(Messages)
      BY <1>1, <1>2, ConcatProperties
  <2>2. Len(<<Head(t)>> \o Tail(t)) = Len(t)
      BY <1>1, <1>2, ConcatProperties, HeadTailProperties, LenProperties
  <2>3. ASSUME NEW i \in 1 .. Len(t) PROVE (<<Head(t)>> \o Tail(t))[i] = t[i]
      BY <1>1, <1>2
  <2> QED
      BY <2>1, <2>2, <2>3, SeqEqual
<1> QED
    BY <1>1, <1>2, <1>3, ConcatAssociative

\* What comes at the end of t comes at the end of both.
LEMMA ComesAtEnd ==
    ASSUME NEW s \in Seq(Messages), NEW t \in Seq(Messages), NEW x \in Messages
    PROVE  s \o Append(t, x) = Append(s \o t, x)
<1>1. <<x>> \in Seq(Messages) /\ s \o t \in Seq(Messages)
    BY ConcatProperties
<1>2. Append(t, x) = t \o <<x>> /\ Append(s \o t, x) = (s \o t) \o <<x>>
    BY <1>1, AppendIsConcat
<1> QED
    BY <1>1, <1>2, ConcatAssociative

\* The rest is lost.
LEMMA RestIsLost ==
    ASSUME NEW s \in Seq(Messages), NEW t \in Seq(Messages), NEW l, InOrder(s \o t, l)
    PROVE  InOrder(s, l)
<1>1. /\ Len(s \o t) = Len(s) + Len(t) /\ Len(s) \in Nat /\ Len(t) \in Nat
      /\ \A i \in 1 .. Len(s) : (s \o t)[i] = s[i]
    BY ConcatAt
<1>2. \A i \in 1 .. Len(s) : i \in 1 .. Len(s \o t)
    BY <1>1
<1> DEFINE u == s \o t
<1>3. /\ \A i \in 1 .. Len(s) : i \in 1 .. Len(u) /\ u[i] = s[i]
      /\ InOrder(u, l)
    BY <1>1, <1>2
<1> HIDE DEF u
<1>4. \A i \in 1 .. Len(s) : s[i].type = "chat" => \E a \in 1 .. Len(l) : s[i] = l[a]
    BY <1>3 DEF InOrder
<1>5. ASSUME NEW i \in 1 .. Len(s), NEW j \in 1 .. Len(s), i < j,
             s[i].type = "chat", s[j].type = "chat"
      PROVE  \E a, b \in 1 .. Len(l) : a < b /\ s[i] = l[a] /\ s[j] = l[b]
  <2>1. i \in 1 .. Len(u) /\ j \in 1 .. Len(u) /\ u[i] = s[i] /\ u[j] = s[j]
      BY <1>3
  <2> QED
      BY <1>3, <1>5, <2>1, InOrderPair
<1> QED
    BY <1>4, <1>5 DEF InOrder

Follows(p) ==
    /\ InOrder(Coming(p), log)
    /\ p \in online => HasAllSince(Coming(p), log, joined[p])

LEMMA FollowsSame ==
    ASSUME NEW p \in Pages, Follows(p), log' = log, joined'[p] = joined[p],
           received'[p] = received[p], toPage'[p] = toPage[p], p \in online' => p \in online
    PROVE  Follows(p)'
<1>1. Coming(p)' = Coming(p)
    BY DEF Coming
<1> QED
    BY <1>1 DEF Follows

\* Something else than a message is told to the page.
LEMMA FollowsAnswer ==
    ASSUME ChatTypes, NEW p \in Pages, Follows(p), log' = log, joined'[p] = joined[p],
           received'[p] = received[p], p \in online' => p \in online,
           NEW x \in Answers, toPage'[p] = Append(toPage[p], x)
    PROVE  Follows(p)'
<1>1. /\ received[p] \in Seq(Messages) /\ toPage[p] \in Seq(Messages)
      /\ x \in Messages /\ x.type # "chat"
  <2>1. received[p] \in Seq(LogEntry) /\ toPage[p] \in Seq(Messages)
      BY DEF ChatTypes, Messages
  <2> QED
      BY <2>1, SeqMonotonic DEF Messages, Answers
<1>2. Coming(p)' = Append(Coming(p), x) /\ Coming(p) \in Seq(Messages)
    BY <1>1, ComesAtEnd, ConcatProperties DEF Coming
<1>3. /\ InOrder(Append(Coming(p), x), log)
      /\ \A n : HasAllSince(Coming(p), log, n) => HasAllSince(Append(Coming(p), x), log, n)
    BY <1>1, <1>2, OtherComes DEF Follows
<1> QED
    BY <1>2, <1>3 DEF Follows

\* A message is published.
LEMMA FollowsMessage ==
    ASSUME ChatTypes, NEW p \in Pages, Follows(p), NEW m \in LogEntry, log' = Append(log, m),
           joined'[p] = joined[p], received'[p] = received[p], UNCHANGED online,
           \/ p \notin online /\ toPage'[p] = toPage[p]
           \/ toPage'[p] = Append(toPage[p], m)
           \/ \E x \in Answers : toPage'[p] = Append(Append(toPage[p], m), x)
    PROVE  Follows(p)'
<1>1. /\ received[p] \in Seq(Messages) /\ toPage[p] \in Seq(Messages) /\ m \in Messages
      /\ log \in Seq(LogEntry) /\ joined[p] \in Nat
  <2>1. received[p] \in Seq(LogEntry) /\ toPage[p] \in Seq(Messages)
      BY DEF ChatTypes, Messages
  <2> QED
      BY <2>1, SeqMonotonic DEF ChatTypes, Messages
<1> DEFINE c == Coming(p)
           cm == Append(c, m)
<1>2. c \in Seq(Messages) /\ cm \in Seq(Messages)
    BY <1>1, ConcatProperties, AppendProperties DEF Coming
<1>3. CASE p \notin online /\ toPage'[p] = toPage[p]
  <2>1. Coming(p)' = c
      BY <1>3 DEF Coming
  <2>2. InOrder(c, Append(log, m))
      BY <1>1, LogLeads DEF Follows
  <2> QED
      BY <1>3, <2>1, <2>2 DEF Follows
<1>4. /\ InOrder(cm, log')
      /\ p \in online => HasAllSince(cm, log', joined[p])
  <2>1. InOrder(c, log) /\ (p \in online => HasAllSince(c, log, joined[p]))
      BY DEF Follows
  <2> HIDE DEF c
  <2> QED
      BY <1>1, <1>2, <2>1, MessageComes
<1>5. CASE toPage'[p] = Append(toPage[p], m)
  <2>1. Coming(p)' = cm
      BY <1>1, <1>5, ComesAtEnd DEF Coming
  <2> QED
      BY <1>4, <2>1 DEF Follows
<1>6. ASSUME NEW x \in Answers, toPage'[p] = Append(Append(toPage[p], m), x) PROVE Follows(p)'
  <2>1. x \in Messages /\ x.type # "chat"
      BY DEF Messages, Answers
  <2>2. Append(toPage[p], m) \in Seq(Messages)
      BY <1>1, AppendProperties
  <2>3. received[p] \o Append(Append(toPage[p], m), x) =
            Append(received[p] \o Append(toPage[p], m), x)
      BY <1>1, <2>1, <2>2, ComesAtEnd
  <2>4. received[p] \o Append(toPage[p], m) = cm
      BY <1>1, ComesAtEnd DEF Coming
  <2>5. Coming(p)' = Append(cm, x)
      BY <1>6, <2>3, <2>4 DEF Coming
  <2> HIDE DEF cm, c
  <2>6. /\ InOrder(Append(cm, x), log')
        /\ p \in online => HasAllSince(Append(cm, x), log', joined[p])
      BY <1>2, <1>4, <2>1, OtherComes
  <2> QED
      BY <2>5, <2>6 DEF Follows
<1> QED
    BY <1>3, <1>5, <1>6

LEMMA FollowsConnect ==
    ASSUME ChatTypes, NEW p \in Pages, Follows(p), Connect(p) PROVE Follows(p)'
<1> DEFINE x == [type |-> "session"]
<1>1. /\ received[p] \in Seq(Messages) /\ toPage[p] \in Seq(Messages)
      /\ x \in Messages /\ log \in Seq(LogEntry)
  <2>1. received[p] \in Seq(LogEntry) /\ toPage[p] \in Seq(Messages)
      BY DEF ChatTypes, Messages
  <2> QED
      BY <2>1, SeqMonotonic DEF ChatTypes, Messages, Answers
<1>2. /\ toPage'[p] = <<x>> /\ joined'[p] = Len(log) /\ UNCHANGED <<log, received>>
    BY DEF Connect, ChatTypes, serverVars, pageVars
<1>3. x.type # "chat"
    OBVIOUS
<1> HIDE DEF x
<1>4. Coming(p)' = Append(received[p], x)
    BY <1>1, <1>2, AppendIsConcat DEF Coming
<1>5. InOrder(received[p], log)
    BY <1>1, RestIsLost DEF Follows, Coming
<1>6. InOrder(Append(received[p], x), log)
    BY <1>1, <1>3, <1>5, OtherComes
<1>7. HasAllSince(Append(received[p], x), log, Len(log))
  <2>1. Len(log) \in Nat
      BY <1>1, LenProperties
  <2>2. \A i \in Len(log) + 1 .. Len(log) : FALSE
      BY <2>1
  <2> QED
      BY <2>2 DEF HasAllSince
<1> QED
    BY <1>2, <1>4, <1>6, <1>7 DEF Follows

LEMMA FollowsLost ==
    ASSUME ChatTypes, NEW p \in Pages, Follows(p), ConnectionLost(p) PROVE Follows(p)'
<1>1. received[p] \in Seq(Messages) /\ toPage[p] \in Seq(Messages)
  <2>1. received[p] \in Seq(LogEntry) /\ toPage[p] \in Seq(Messages)
      BY DEF ChatTypes, Messages
  <2> QED
      BY <2>1, SeqMonotonic DEF Messages
<1>2. toPage'[p] = <<>> /\ p \notin online' /\ UNCHANGED <<log, received>>
    BY DEF ConnectionLost, ChatTypes, pageVars
<1>3. Coming(p)' = received[p]
    BY <1>1, <1>2, ConcatEmptySeq DEF Coming
<1>4. InOrder(received[p], log)
    BY <1>1, RestIsLost DEF Follows, Coming
<1> QED
    BY <1>2, <1>3, <1>4 DEF Follows

LEMMA FollowsReceived ==
    ASSUME ChatTypes, NEW p \in Pages, Follows(p), PageReceives(p) PROVE Follows(p)'
<1> DEFINE m == Head(toPage[p])
<1>1. /\ received[p] \in Seq(Messages) /\ toPage[p] \in Seq(Messages)
      /\ log \in Seq(LogEntry) /\ joined[p] \in Nat
  <2>1. received[p] \in Seq(LogEntry) /\ toPage[p] \in Seq(Messages)
      BY DEF ChatTypes, Messages
  <2> QED
      BY <2>1, SeqMonotonic DEF ChatTypes, Messages
<1>2. /\ toPage[p] # <<>> /\ toPage'[p] = Tail(toPage[p])
      /\ received'[p] = IF m.type = "chat" THEN Append(received[p], m) ELSE received[p]
      /\ UNCHANGED <<log, online, joined>>
    BY DEF PageReceives, handleMessage, ChatTypes, serverVars, linkVars
<1>3. CASE m.type = "chat"
  <2>1. Coming(p)' = Coming(p)
      BY <1>1, <1>2, <1>3, MessageIsTaken DEF Coming
  <2> QED
      BY <1>2, <2>1 DEF Follows
<1>4. CASE m.type # "chat"
  <2>1. Coming(p)' = received[p] \o Tail(toPage[p]) /\ Coming(p) = received[p] \o toPage[p]
      BY <1>2, <1>4 DEF Coming
  <2>2. \A i \in 1 .. Len(log) : log[i].type = "chat"
    <3>1. \A i \in 1 .. Len(log) : log[i] \in LogEntry
        BY <1>1, ElementOfSeq
    <3> QED
        BY <3>1 DEF LogEntry
  <2>3. /\ InOrder(received[p] \o Tail(toPage[p]), log)
        /\ \A n \in Nat : HasAllSince(received[p] \o toPage[p], log, n) =>
                              HasAllSince(received[p] \o Tail(toPage[p]), log, n)
    <3>1. InOrder(received[p] \o toPage[p], log)
        BY <2>1 DEF Follows
    <3> QED
        BY <1>1, <1>2, <1>4, <2>2, <3>1, OtherIsTaken
  <2> QED
      BY <1>1, <1>2, <2>1, <2>3 DEF Follows
<1> QED
    BY <1>3, <1>4

LEMMA FollowsServer ==
    ASSUME ChatTypes, NEW p \in Pages, NEW q \in Pages, Follows(q), ServerReceives(p)
    PROVE  Follows(q)'
<1> DEFINE r == Head(toServer[p])
<1>1. UNCHANGED <<received, online, joined>> /\ p \in online
    BY DEF ServerReceives, pageVars, linkVars
<1>2. ASSUME NEW type \in {"named", "refused"}, Answer(p, type), UNCHANGED log
      PROVE  Follows(q)'
  <2>1. [type |-> type] \in Answers
      BY DEF Answers
  <2>2. toPage'[q] = toPage[q] \/ toPage'[q] = Append(toPage[q], [type |-> type])
      BY <1>2 DEF Answer, ChatTypes
  <2> QED
      BY <1>1, <1>2, <2>1, <2>2, FollowsSame, FollowsAnswer
<1>3. CASE r.type = "nickname"
    BY <1>2, <1>3 DEF ServerReceives, setNickname
<1>4. CASE r.type # "nickname"
  <2>1. r \in Requests /\ handleIncoming(p, r.draft)
    <3>1. toServer[p] \in Seq(Requests) /\ toServer[p] # <<>>
        BY DEF ServerReceives, ChatTypes
    <3> QED
        BY <1>4, <3>1 DEF ServerReceives
  <2>2. CASE ~(withinRateLimit(p) /\ r.draft.text = "fine")
      BY <1>2, <2>1, <2>2 DEF handleIncoming
  <2>3. CASE withinRateLimit(p) /\ r.draft.text = "fine"
    <3> DEFINE m == [type |-> "chat", said |-> r.draft.said, from |-> "page"]
               answer == <<[type |-> "sent"]>>
    <3>1. m \in LogEntry
        BY <1>4, <2>1 DEF Requests, Drafts, LogEntry
    <3>2. [type |-> "sent"] \in Answers /\ answer \in Seq(Answers)
        BY DEF Answers
    <3>3. log' = Append(log, m) /\ Emit(m, p, answer)
        BY <2>1, <2>3 DEF handleIncoming, broadcastMessage
    <3> HIDE DEF m
    <3>4. CASE q = p
      <4>1. toPage'[q] = Append(Append(toPage[q], m), [type |-> "sent"])
          BY <1>1, <3>1, <3>2, <3>3, <3>4, EmitTo
      <4> QED
          BY <1>1, <3>1, <3>2, <3>3, <4>1, FollowsMessage
    <3>5. CASE q # p
      <4> HIDE DEF answer
      <4>1. toPage'[q] = IF q \in online THEN Append(toPage[q], m) ELSE toPage[q]
          BY <3>1, <3>2, <3>3, <3>5, EmitTo
      <4> QED
          BY <1>1, <3>1, <3>3, <4>1, FollowsMessage
    <3> QED
        BY <3>4, <3>5
  <2> QED
      BY <2>2, <2>3
<1> QED
    BY <1>3, <1>4

LEMMA FollowsDiscord ==
    ASSUME ChatTypes, NEW q \in Pages, Follows(q), MessageCreate PROVE Follows(q)'
<1> DEFINE m == Head(inbox)
<1>1. UNCHANGED <<received, online, joined>>
    BY DEF MessageCreate, pageVars, linkVars
<1>2. CASE Bridged(m)
  <2> DEFINE e == [type |-> "chat", said |-> m.said, from |-> "discord"]
  <2>1. sendExternalMessage(e)
      BY <1>2 DEF MessageCreate
  <2>2. e \in LogEntry /\ <<>> \in Seq(Answers)
      BY <1>2, TakePost DEF Posts, LogEntry
  <2> HIDE DEF e
  <2>3. log' = Append(log, e) /\ Emit(e, "none", <<>>)
      BY <2>1 DEF sendExternalMessage
  <2>4. toPage'[q] = IF q \in online THEN Append(toPage[q], e) ELSE toPage[q]
      BY <2>2, <2>3, EmitTo
  <2> QED
      BY <1>1, <2>2, <2>3, <2>4, FollowsMessage
<1>3. CASE ~Bridged(m)
  <2>1. UNCHANGED <<log, toPage>>
      BY <1>3 DEF MessageCreate
  <2> QED
      BY <1>1, <2>1, FollowsSame
<1> QED
    BY <1>2, <1>3

LEMMA InitFollows == Init => PagesFollow
<1> SUFFICES ASSUME Init PROVE PagesFollow
    OBVIOUS
<1>1. log = <<>> /\ online = {} /\ \A p \in Pages : received[p] = <<>> /\ toPage[p] = <<>>
    BY DEF Init
<1>2. \A p \in Pages : Coming(p) = <<>>
    BY <1>1 DEF Coming
<1>3. InOrder(<<>>, <<>>)
    BY DEF InOrder
<1> QED
    BY <1>1, <1>2, <1>3 DEF PagesFollow

LEMMA StepFollows ==
    ASSUME ChatTypes, PagesFollow, [Next]_vars PROVE PagesFollow'
<1> SUFFICES ASSUME NEW q \in Pages PROVE Follows(q)'
  <2>1. (\A q \in Pages : Follows(q)') => (\A q \in Pages : InOrder(Coming(q), log)')
      BY DEF Follows
  <2>2. (\A q \in Pages : Follows(q)') =>
            (\A q \in Pages : (q \in online)' => HasAllSince(Coming(q), log, joined[q])')
      BY DEF Follows
  <2>3. (\A q \in Pages : (q \in online)' => HasAllSince(Coming(q), log, joined[q])') =>
            (\A q \in online : HasAllSince(Coming(q), log, joined[q]))'
    <3>1. online' \subseteq Pages
        BY StepTypes DEF ChatTypes
    <3> QED
        BY <3>1
  <2> QED
      BY <2>1, <2>2, <2>3 DEF PagesFollow
<1>1. Follows(q)
    BY DEF PagesFollow, Follows
<1>2. CASE UNCHANGED <<log, joined, online, received, toPage>>
    BY <1>1, <1>2, FollowsSame
<1>3. ASSUME NEW p \in Pages, Connect(p) \/ ConnectionLost(p) \/ PageReceives(p) PROVE Follows(q)'
  <2>1. CASE q = p
      BY <1>1, <1>3, <2>1, FollowsConnect, FollowsLost, FollowsReceived
  <2>2. CASE q # p
    <3>1. /\ toPage'[q] = toPage[q] /\ received'[q] = received[q] /\ joined'[q] = joined[q]
          /\ log' = log /\ (q \in online' => q \in online)
        BY <1>3, <2>2 DEF Connect, ConnectionLost, PageReceives, handleMessage, ChatTypes,
                          pageVars, serverVars, linkVars
    <3> QED
        BY <1>1, <3>1, FollowsSame
  <2> QED
      BY <2>1, <2>2
<1>4. ASSUME NEW p \in Pages, handleSend(p) \/ \E text \in PageTexts : Type(p, text)
      PROVE  UNCHANGED <<log, joined, online, received, toPage>>
    BY <1>4 DEF handleSend, Type, serverVars, linkVars
<1>5. ASSUME NEW text \in DiscordTexts, DiscordWrites(text)
      PROVE  UNCHANGED <<log, joined, online, received, toPage>>
    BY <1>5 DEF DiscordWrites, serverVars, linkVars, pageVars
<1>6. Tick \/ Bot \/ Server \/ UNCHANGED vars => UNCHANGED <<log, joined, online, received, toPage>>
    BY DEF Tick, Bot, Server, vars, serverVars, linkVars, pageVars
<1> QED
    BY <1>1, <1>2, <1>3, <1>4, <1>5, <1>6, FollowsServer, FollowsDiscord DEF Next

-----------------------------------------------------------------------------
\* The last K of a sequence that grows are the last of those, and the new one.
LEMMA LatestGrows ==
    ASSUME NEW S, NEW s \in Seq(S), NEW x \in S, NEW K \in Nat \ {0}
    PROVE  Append(Latest(Latest(s, K), K - 1), x) = Latest(Append(s, x), K)
<1> DEFINE t == Append(s, x)
           u == Latest(s, K)
           v == Latest(u, K - 1)
<1>1. /\ t \in Seq(S) /\ Len(t) = Len(s) + 1 /\ t[Len(s) + 1] = x /\ Len(s) \in Nat
      /\ \A i \in 1 .. Len(s) : t[i] = s[i]
    BY AppendProperties, LenProperties
<1>2. K - 1 \in Nat /\ u \in Seq(S)
    BY LatestProperties
<1>3. v \in Seq(S) /\ Latest(t, K) \in Seq(S)
    BY <1>1, <1>2, LatestProperties
<1>4. CASE Len(s) + 1 <= K
  <2>1. u = s /\ Len(s) <= K - 1
      BY <1>1, <1>4, LatestProperties
  <2>2. v = s
    <3>1. Len(u) <= K - 1
        BY <2>1
    <3> HIDE DEF u
    <3>2. v = u
        BY <1>2, <3>1, LatestProperties
    <3> QED
        BY <2>1, <3>2
  <2>3. Latest(t, K) = t
      BY <1>1, <1>4, LatestProperties
  <2> QED
      BY <2>2, <2>3
<1>5. CASE Len(s) + 1 > K
  <2>1. Len(u) = K /\ \A i \in 1 .. K : u[i] = s[Len(s) - K + i]
    <3>1. CASE Len(s) = K
      <4>1. u = s
          BY <3>1, LatestProperties
      <4> QED
          BY <3>1, <4>1
    <3>2. CASE Len(s) > K
        BY <3>2, LatestProperties
    <3> QED
        BY <1>1, <1>5, <3>1, <3>2
  <2>2. Len(v) = K - 1 /\ \A i \in 1 .. K - 1 : v[i] = u[Len(u) - (K - 1) + i]
    <3>1. Len(u) > K - 1
        BY <2>1
    <3> HIDE DEF u
    <3> QED
        BY <1>2, <3>1, LatestProperties
  <2>3. Len(Latest(t, K)) = K /\ \A i \in 1 .. K : Latest(t, K)[i] = t[Len(t) - K + i]
      BY <1>1, <1>5, LatestProperties
  <2> DEFINE w == Append(v, x)
             l == Latest(t, K)
  <2>4. /\ w \in Seq(S) /\ Len(w) = K /\ w[K] = x
        /\ \A i \in 1 .. K - 1 : w[i] = v[i]
    <3> HIDE DEF v
    <3>1. /\ w \in Seq(S) /\ Len(w) = Len(v) + 1 /\ w[Len(v) + 1] = x
          /\ \A i \in 1 .. Len(v) : w[i] = v[i]
        BY <1>3, AppendProperties
    <3> QED
        BY <2>2, <3>1
  <2> HIDE DEF t, u, v, w, l
  <2>5. ASSUME NEW i \in 1 .. Len(w) PROVE w[i] = l[i]
    <3>1. i \in 1 .. K /\ l[i] = t[Len(s) + 1 - K + i]
        BY <1>1, <2>3, <2>4 DEF l
    <3>2. CASE i = K
      <4>1. Len(s) + 1 - K + i = Len(s) + 1
          BY <1>1, <3>2
      <4> QED
          BY <1>1, <2>4, <3>1, <3>2, <4>1
    <3>3. CASE i # K
      <4>1. i \in 1 .. K - 1 /\ i + 1 \in 1 .. K /\ Len(u) - (K - 1) + i = i + 1
          BY <2>1, <3>1, <3>3
      <4>2. /\ Len(s) - K + (i + 1) = Len(s) + 1 - K + i
            /\ Len(s) + 1 - K + i \in 1 .. Len(s)
          BY <1>1, <1>5, <4>1
      <4>3. w[i] = s[Len(s) + 1 - K + i]
          BY <2>1, <2>2, <2>4, <4>1, <4>2
      <4> QED
          BY <1>1, <3>1, <4>2, <4>3
    <3> QED
        BY <3>2, <3>3
  <2>6. w \in Seq(S) /\ l \in Seq(S) /\ Len(w) = Len(l)
      BY <1>3, <2>3, <2>4 DEF l
  <2>7. w = l
      BY <2>5, <2>6, SeqEqual
  <2> QED
      BY <2>7 DEF w, l, v, u, t
<1> QED
    BY <1>1, <1>4, <1>5

LEMMA InitShows == Init => ShowsLatest
<1>1. Latest(<<>>, MaxShown) = <<>>
    BY ChatConstants DEF Latest
<1> QED
    BY <1>1 DEF Init, ShowsLatest

LEMMA StepShows == ASSUME ChatTypes, ShowsLatest, [Next]_vars PROVE ShowsLatest'
<1>1. CASE UNCHANGED <<shown, received>>
    BY <1>1 DEF ShowsLatest
<1>2. ASSUME NEW p \in Pages, PageReceives(p) PROVE ShowsLatest'
  <2> DEFINE m == Head(toPage[p])
  <2>1. \A q \in Pages : q # p => shown'[q] = shown[q] /\ received'[q] = received[q]
      BY <1>2 DEF PageReceives, handleMessage, ChatTypes
  <2>2. CASE m.type = "chat"
    <3>1. /\ received[p] \in Seq(LogEntry) /\ m \in LogEntry
      <4>1. toPage[p] \in Seq(LogEntry \cup Answers) /\ toPage[p] # <<>>
          BY <1>2 DEF PageReceives, ChatTypes
      <4>2. m \in LogEntry \cup Answers
          BY <4>1
      <4> QED
          BY <2>2, <4>2 DEF ChatTypes, Answers
    <3>2. /\ shown'[p] = Append(Latest(shown[p], MaxShown - 1), m)
          /\ received'[p] = Append(received[p], m)
        BY <1>2, <2>2 DEF PageReceives, handleMessage, ChatTypes
    <3>3. shown[p] = Latest(received[p], MaxShown)
        BY DEF ShowsLatest
    <3> HIDE DEF m
    <3>4. Append(Latest(Latest(received[p], MaxShown), MaxShown - 1), m) =
              Latest(Append(received[p], m), MaxShown)
        BY <3>1, ChatConstants, LatestGrows
    <3>5. shown'[p] = Latest(received'[p], MaxShown)
        BY <3>2, <3>3, <3>4
    <3>6. \A q \in Pages : shown'[q] = Latest(received'[q], MaxShown)
        BY <2>1, <3>5 DEF ShowsLatest
    <3> QED
        BY <3>6 DEF ShowsLatest, Latest
  <2>3. CASE m.type # "chat"
      BY <1>1, <1>2, <2>3 DEF PageReceives
  <2> QED
      BY <2>2, <2>3
<1>3. ASSUME NEW p \in Pages,
             \/ ServerReceives(p) \/ Connect(p) \/ ConnectionLost(p) \/ handleSend(p)
             \/ \E text \in PageTexts : Type(p, text)
      PROVE  UNCHANGED <<shown, received>>
    BY <1>3 DEF ServerReceives, Connect, ConnectionLost, handleSend, Type, pageVars
<1>4. ASSUME NEW text \in DiscordTexts, DiscordWrites(text) PROVE UNCHANGED <<shown, received>>
    BY <1>4 DEF DiscordWrites, pageVars
<1>5. MessageCreate \/ Tick \/ Bot \/ Server \/ UNCHANGED vars => UNCHANGED <<shown, received>>
    BY DEF MessageCreate, Tick, Bot, Server, vars, pageVars
<1> QED
    BY <1>1, <1>2, <1>3, <1>4, <1>5 DEF Next

-----------------------------------------------------------------------------
\* What is recent are the last ages of a bucket.
LEMMA RecentIsLast ==
    ASSUME NEW b \in Seq(Ages), Sorted(b)
    PROVE  \E n \in 0 .. Len(b) :
               /\ \A i \in 1 .. Len(b) : b[i] > RATE_LIMIT_WINDOW <=> i <= n
               /\ Recent(b) \in Seq(Ages) /\ Len(Recent(b)) = Len(b) - n
               /\ \A i \in 1 .. Len(b) - n : Recent(b)[i] = b[n + i]
<1>1. PICK n \in 0 .. Len(b) : \A i \in 1 .. Len(b) : b[i] > RATE_LIMIT_WINDOW <=> i <= n
  <2>1. RATE_LIMIT_WINDOW \in 0 .. RATE_LIMIT_WINDOW
      BY ChatConstants
  <2> QED
      BY <2>1 DEF Sorted
<1>2. Len(b) \in Nat /\ n \in Nat /\ n <= Len(b)
    BY LenProperties
<1>3. {i \in 1 .. Len(b) : b[i] > RATE_LIMIT_WINDOW} = 1 .. n
    BY <1>1, <1>2
<1>4. Cardinality(1 .. n) = n
    BY <1>2, FS_Interval
<1>5. Recent(b) = SubSeq(b, n + 1, Len(b))
    BY <1>3, <1>4 DEF Recent
<1>6. \A i \in n + 1 .. Len(b) : b[i] \in Ages
    BY <1>2
<1>7. /\ Recent(b) \in Seq(Ages)
      /\ Len(Recent(b)) = IF n + 1 <= Len(b) THEN Len(b) - (n + 1) + 1 ELSE 0
      /\ \A i \in 1 .. Len(b) - (n + 1) + 1 : Recent(b)[i] = b[(n + 1) + i - 1]
  <2>1. n + 1 \in Int /\ Len(b) \in Int
      BY <1>2
  <2> QED
      BY <1>5, <1>6, <2>1, SubSeqProperties
<1>8. Len(Recent(b)) = Len(b) - n
    BY <1>2, <1>7
<1>9. \A i \in 1 .. Len(b) - n : Recent(b)[i] = b[n + i]
  <2>1. \A i \in 1 .. Len(b) - n : i \in 1 .. Len(b) - (n + 1) + 1 /\ (n + 1) + i - 1 = n + i
      BY <1>2
  <2> QED
      BY <1>7, <2>1
<1> QED
    BY <1>1, <1>7, <1>8, <1>9

LEMMA RecentSorted ==
    ASSUME NEW b \in Seq(Ages), Sorted(b)
    PROVE  /\ Sorted(Recent(b)) /\ Recent(b) \in Seq(Ages)
           /\ \A i \in 1 .. Len(Recent(b)) : Recent(b)[i] <= RATE_LIMIT_WINDOW
<1> DEFINE t == Recent(b)
<1>1. PICK n \in 0 .. Len(b) :
          /\ \A i \in 1 .. Len(b) : b[i] > RATE_LIMIT_WINDOW <=> i <= n
          /\ t \in Seq(Ages) /\ Len(t) = Len(b) - n
          /\ \A i \in 1 .. Len(b) - n : t[i] = b[n + i]
    BY RecentIsLast
<1>2. Len(b) \in Nat /\ \A i \in 1 .. Len(b) : b[i] \in Ages
    BY LenProperties
<1> HIDE DEF t
<1>3. \A i \in 1 .. Len(t) : n + i \in 1 .. Len(b) /\ ~(n + i <= n) /\ t[i] = b[n + i]
    BY <1>1, <1>2
<1>4. \A i \in 1 .. Len(t) : t[i] <= RATE_LIMIT_WINDOW
  <2> SUFFICES ASSUME NEW i \in 1 .. Len(t) PROVE t[i] <= RATE_LIMIT_WINDOW
      OBVIOUS
  <2>1. ~(t[i] > RATE_LIMIT_WINDOW) /\ t[i] \in Ages
      BY <1>1, <1>2, <1>3
  <2> QED
      BY <2>1, ChatConstants DEF Ages
<1>5. Sorted(t)
  <2> SUFFICES ASSUME NEW a \in 0 .. RATE_LIMIT_WINDOW
               PROVE  \E c \in 0 .. Len(t) : \A i \in 1 .. Len(t) : t[i] > a <=> i <= c
      BY DEF Sorted
  <2>1. PICK c \in 0 .. Len(b) : \A i \in 1 .. Len(b) : b[i] > a <=> i <= c
      BY DEF Sorted
  <2>2. \A i \in 1 .. Len(t) : t[i] > a <=> n + i <= c
      BY <1>3, <2>1
  <2>3. CASE c >= n
    <3>1. c - n \in 0 .. Len(t) /\ \A i \in 1 .. Len(t) : n + i <= c <=> i <= c - n
        BY <1>1, <1>2, <2>3
    <3> QED
        BY <2>2, <3>1
  <2>4. CASE c < n
    <3>1. 0 \in 0 .. Len(t) /\ \A i \in 1 .. Len(t) : n + i <= c <=> i <= 0
        BY <1>1, <1>2, <2>4
    <3> QED
        BY <2>2, <3>1
  <2>5. c \in Int /\ n \in Int
      OBVIOUS
  <2> QED
      BY <2>3, <2>4, <2>5
<1> QED
    BY <1>1, <1>4, <1>5 DEF t

LEMMA AppendSorted ==
    ASSUME NEW b \in Seq(Ages), Sorted(b)
    PROVE  Sorted(Append(b, 0)) /\ Append(b, 0) \in Seq(Ages)
<1> DEFINE t == Append(b, 0)
<1>1. 0 \in Ages
    BY ChatConstants DEF Ages
<1>2. /\ t \in Seq(Ages) /\ Len(t) = Len(b) + 1 /\ Len(b) \in Nat
      /\ t[Len(b) + 1] = 0 /\ \A i \in 1 .. Len(b) : t[i] = b[i]
    BY <1>1, AppendProperties, LenProperties
<1> HIDE DEF t
<1>3. Sorted(t)
  <2> SUFFICES ASSUME NEW a \in 0 .. RATE_LIMIT_WINDOW
               PROVE  \E c \in 0 .. Len(t) : \A i \in 1 .. Len(t) : t[i] > a <=> i <= c
      BY DEF Sorted
  <2>1. PICK c \in 0 .. Len(b) : \A i \in 1 .. Len(b) : b[i] > a <=> i <= c
      BY DEF Sorted
  <2>2. c \in 0 .. Len(t) /\ ~(Len(b) + 1 <= c) /\ ~(0 > a)
      BY <1>2
  <2>3. \A i \in 1 .. Len(t) : i \in 1 .. Len(b) \/ i = Len(b) + 1
      BY <1>2
  <2>4. \A i \in 1 .. Len(t) : t[i] > a <=> i <= c
    <3> SUFFICES ASSUME NEW i \in 1 .. Len(t) PROVE t[i] > a <=> i <= c
        OBVIOUS
    <3>1. CASE i = Len(b) + 1
        BY <1>2, <2>2, <3>1
    <3>2. CASE i \in 1 .. Len(b)
        BY <1>2, <2>1, <3>2
    <3> QED
        BY <2>3, <3>1, <3>2
  <2> QED
      BY <2>2, <2>4
<1> QED
    BY <1>2, <1>3 DEF t

LEMMA OlderSorted ==
    ASSUME NEW b \in Seq(Ages), Sorted(b)
    PROVE  Sorted(Older(b)) /\ Older(b) \in Seq(Ages) /\ Len(Older(b)) = Len(b)
<1> DEFINE t == Older(b)
<1>1. Len(b) \in Nat /\ \A i \in 1 .. Len(b) : b[i] \in Ages
    BY LenProperties
<1>2. t \in Seq(Ages) /\ Len(t) = Len(b)
    BY <1>1, ChatConstants DEF Older, Ages
<1>3. \A i \in 1 .. Len(b) : t[i] = IF b[i] > RATE_LIMIT_WINDOW THEN b[i] ELSE b[i] + 1
    BY DEF Older
<1> HIDE DEF t
<1>4. Sorted(t)
  <2> SUFFICES ASSUME NEW a \in 0 .. RATE_LIMIT_WINDOW
               PROVE  \E c \in 0 .. Len(b) : \A i \in 1 .. Len(b) : t[i] > a <=> i <= c
      BY <1>2 DEF Sorted
  <2>1. CASE a = 0
    <3>1. \A i \in 1 .. Len(b) : t[i] > 0 /\ i <= Len(b)
        BY <1>1, <1>3, ChatConstants DEF Ages
    <3>2. Len(b) \in 0 .. Len(b)
        BY <1>1
    <3> QED
        BY <2>1, <3>1, <3>2
  <2>2. CASE a # 0
    <3>1. a - 1 \in 0 .. RATE_LIMIT_WINDOW
        BY <2>2, ChatConstants
    <3>2. PICK c \in 0 .. Len(b) : \A i \in 1 .. Len(b) : b[i] > a - 1 <=> i <= c
        BY <3>1 DEF Sorted
    <3>3. \A i \in 1 .. Len(b) : t[i] > a <=> b[i] > a - 1
      <4> SUFFICES ASSUME NEW i \in 1 .. Len(b) PROVE t[i] > a <=> b[i] > a - 1
          OBVIOUS
      <4>1. b[i] \in 0 .. RATE_LIMIT_WINDOW + 1
            /\ t[i] = IF b[i] > RATE_LIMIT_WINDOW THEN b[i] ELSE b[i] + 1
          BY <1>1, <1>3 DEF Ages
      <4> QED
          BY <4>1, ChatConstants
    <3> QED
        BY <3>2, <3>3
  <2> QED
      BY <2>1, <2>2
<1> QED
    BY <1>2, <1>4 DEF t

\* What got through and is recent is among what was asked and is recent.
LEMMA WithinRecent ==
    ASSUME NEW a \in Seq(Ages), NEW b \in Seq(Ages), Sorted(b), Within(a, b),
           \A i \in 1 .. Len(a) : a[i] <= RATE_LIMIT_WINDOW
    PROVE  Within(a, Recent(b))
<1> DEFINE t == Recent(b)
<1>1. PICK n \in 0 .. Len(b) :
          /\ \A i \in 1 .. Len(b) : b[i] > RATE_LIMIT_WINDOW <=> i <= n
          /\ t \in Seq(Ages) /\ Len(t) = Len(b) - n
          /\ \A i \in 1 .. Len(b) - n : t[i] = b[n + i]
    BY RecentIsLast
<1>2. /\ Len(b) \in Nat /\ Len(a) \in Nat /\ Len(a) <= Len(b)
      /\ \A i \in 1 .. Len(b) : b[i] \in Ages
      /\ \A i \in 1 .. Len(a) : a[i] \in Ages
    BY LenProperties DEF Within
<1> HIDE DEF t
<1>3. ASSUME NEW k \in 0 .. Len(a) - 1
      PROVE  ~(Len(b) - k <= n) /\ a[Len(a) - k] >= b[Len(b) - k]
  <2>1. Len(a) - k \in 1 .. Len(a) /\ Len(b) - k \in 1 .. Len(b)
      BY <1>2
  <2>2. a[Len(a) - k] >= b[Len(b) - k]
      BY DEF Within
  <2>3. ~(b[Len(b) - k] > RATE_LIMIT_WINDOW)
    <3>1. a[Len(a) - k] <= RATE_LIMIT_WINDOW
        BY <2>1
    <3>2. a[Len(a) - k] \in Ages /\ b[Len(b) - k] \in Ages
        BY <1>2, <2>1
    <3> QED
        BY <2>2, <3>1, <3>2, ChatConstants DEF Ages
  <2> QED
      BY <1>1, <2>1, <2>2, <2>3
<1>4. Len(a) <= Len(t)
  <2>1. CASE Len(a) = 0
      BY <1>1, <1>2, <2>1
  <2>2. CASE Len(a) # 0
    <3>1. Len(a) - 1 \in 0 .. Len(a) - 1
        BY <1>2, <2>2
    <3>2. ~(Len(b) - (Len(a) - 1) <= n)
        BY <1>3, <3>1
    <3> QED
        BY <1>1, <1>2, <3>2
  <2> QED
      BY <2>1, <2>2
<1>5. ASSUME NEW k \in 0 .. Len(a) - 1 PROVE a[Len(a) - k] >= t[Len(t) - k]
  <2>1. Len(t) - k \in 1 .. Len(b) - n /\ n + (Len(t) - k) = Len(b) - k
      BY <1>1, <1>2, <1>4
  <2>2. t[Len(t) - k] = b[Len(b) - k]
      BY <1>1, <2>1
  <2> QED
      BY <1>3, <2>2
<1> QED
    BY <1>4, <1>5 DEF Within, t

LEMMA WithinBoth ==
    ASSUME NEW a \in Seq(Ages), NEW b \in Seq(Ages), Within(a, b)
    PROVE  Within(Append(a, 0), Append(b, 0))
<1> DEFINE c == Append(a, 0)
           d == Append(b, 0)
<1>1. 0 \in Ages
    BY ChatConstants DEF Ages
<1>2. /\ Len(c) = Len(a) + 1 /\ Len(a) \in Nat
      /\ c[Len(a) + 1] = 0 /\ \A i \in 1 .. Len(a) : c[i] = a[i]
    BY <1>1, AppendProperties, LenProperties
<1>3. /\ Len(d) = Len(b) + 1 /\ Len(b) \in Nat
      /\ d[Len(b) + 1] = 0 /\ \A i \in 1 .. Len(b) : d[i] = b[i]
    BY <1>1, AppendProperties, LenProperties
<1> HIDE DEF c, d
<1>4. Len(a) <= Len(b)
    BY DEF Within
<1>5. ASSUME NEW k \in 0 .. Len(c) - 1 PROVE c[Len(c) - k] >= d[Len(d) - k]
  <2>1. CASE k = 0
      BY <1>2, <1>3, <2>1
  <2>2. CASE k # 0
    <3>1. /\ k - 1 \in 0 .. Len(a) - 1
          /\ Len(c) - k = Len(a) - (k - 1) /\ Len(d) - k = Len(b) - (k - 1)
          /\ Len(a) - (k - 1) \in 1 .. Len(a) /\ Len(b) - (k - 1) \in 1 .. Len(b)
        BY <1>2, <1>3, <1>4, <2>2
    <3>2. a[Len(a) - (k - 1)] >= b[Len(b) - (k - 1)]
        BY <3>1 DEF Within
    <3> QED
        BY <1>2, <1>3, <3>1, <3>2
  <2> QED
      BY <2>1, <2>2
<1> QED
    BY <1>2, <1>3, <1>4, <1>5 DEF Within, c, d

\* What is refused is counted too.
LEMMA WithinRefused ==
    ASSUME NEW a \in Seq(Ages), NEW b \in Seq(Ages), Sorted(b), Within(a, b),
           \A i \in 1 .. Len(a) : a[i] <= RATE_LIMIT_WINDOW
    PROVE  Within(a, Append(b, 0))
<1> DEFINE d == Append(b, 0)
<1>1. 0 \in Ages
    BY ChatConstants DEF Ages
<1>2. /\ Len(d) = Len(b) + 1 /\ Len(b) \in Nat
      /\ d[Len(b) + 1] = 0 /\ \A i \in 1 .. Len(b) : d[i] = b[i] /\ b[i] \in Ages
    BY <1>1, AppendProperties, LenProperties
<1> HIDE DEF d
<1>3. /\ Len(a) \in Nat /\ Len(a) <= Len(b)
      /\ \A i \in 1 .. Len(a) : a[i] \in Ages
    BY LenProperties DEF Within
<1>4. ASSUME NEW k \in 0 .. Len(a) - 1 PROVE a[Len(a) - k] >= d[Len(d) - k]
  <2> DEFINE x == a[Len(a) - k]
  <2>1. Len(a) - k \in 1 .. Len(a) /\ Len(b) - k \in 1 .. Len(b)
      BY <1>2, <1>3
  <2>2. x >= b[Len(b) - k]
      BY DEF Within
  <2>3. x \in 0 .. RATE_LIMIT_WINDOW
    <3>1. x <= RATE_LIMIT_WINDOW /\ x \in Ages
        BY <1>3, <2>1
    <3> QED
        BY <3>1, ChatConstants DEF Ages
  <2> HIDE DEF x
  <2>4. CASE k = 0
    <3>1. d[Len(d) - k] = 0
        BY <1>2, <2>4
    <3> QED
        BY <2>3, <3>1 DEF x
  <2>5. CASE k # 0
    <3>1. /\ Len(d) - k \in 1 .. Len(b) /\ Len(d) - k = (Len(b) - k) + 1
        BY <1>2, <1>3, <2>5
    <3>2. PICK n \in 0 .. Len(b) : \A i \in 1 .. Len(b) : b[i] > x <=> i <= n
        BY <2>3 DEF Sorted
    <3>3. b[Len(b) - k] \in Ages /\ b[Len(d) - k] \in Ages
        BY <1>2, <2>1, <3>1
    <3>4. ~(b[Len(b) - k] > x)
        BY <2>2, <2>3, <3>3, ChatConstants DEF Ages
    <3>5. ~(Len(b) - k <= n)
        BY <2>1, <3>2, <3>4
    <3>6. ~(Len(d) - k <= n)
        BY <1>2, <3>1, <3>5
    <3>7. ~(b[Len(d) - k] > x)
        BY <3>1, <3>2, <3>6
    <3>8. x >= b[Len(d) - k]
        BY <2>3, <3>3, <3>7, ChatConstants DEF Ages
    <3> QED
        BY <1>2, <3>1, <3>8 DEF x
  <2> QED
      BY <2>4, <2>5
<1>5. Len(a) <= Len(d)
    BY <1>2, <1>3
<1> QED
    BY <1>4, <1>5 DEF Within, d

LEMMA WithinOlder ==
    ASSUME NEW a \in Seq(Ages), NEW b \in Seq(Ages), Within(a, b)
    PROVE  Within(Older(a), Older(b))
<1>1. /\ Len(a) \in Nat /\ Len(b) \in Nat /\ Len(a) <= Len(b)
      /\ \A i \in 1 .. Len(a) : a[i] \in Ages
      /\ \A i \in 1 .. Len(b) : b[i] \in Ages
    BY LenProperties DEF Within
<1>2. Len(Older(a)) = Len(a) /\ Len(Older(b)) = Len(b)
    BY <1>1 DEF Older
<1>3. ASSUME NEW k \in 0 .. Len(a) - 1
      PROVE  Older(a)[Len(a) - k] >= Older(b)[Len(b) - k]
  <2> DEFINE x == a[Len(a) - k]
             y == b[Len(b) - k]
  <2>1. Len(a) - k \in 1 .. Len(a) /\ Len(b) - k \in 1 .. Len(b)
      BY <1>1
  <2>2. /\ Older(a)[Len(a) - k] = IF x > RATE_LIMIT_WINDOW THEN x ELSE x + 1
        /\ Older(b)[Len(b) - k] = IF y > RATE_LIMIT_WINDOW THEN y ELSE y + 1
      BY <2>1 DEF Older
  <2>3. x >= y /\ x \in 0 .. RATE_LIMIT_WINDOW + 1 /\ y \in 0 .. RATE_LIMIT_WINDOW + 1
      BY <1>1, <2>1 DEF Within, Ages
  <2> HIDE DEF x, y
  <2> QED
      BY <2>2, <2>3, ChatConstants
<1> QED
    BY <1>1, <1>2, <1>3 DEF Within

LEMMA RecentWithin ==
    ASSUME NEW a \in Seq(Ages), NEW b \in Seq(Ages), Sorted(a), Within(a, b)
    PROVE  Within(Recent(a), b) /\ Len(Recent(a)) <= Len(a)
<1> DEFINE t == Recent(a)
<1>1. PICK n \in 0 .. Len(a) :
          /\ Len(t) = Len(a) - n
          /\ \A i \in 1 .. Len(a) - n : t[i] = a[n + i]
    BY RecentIsLast
<1>2. Len(a) \in Nat /\ Len(b) \in Nat /\ Len(a) <= Len(b)
    BY LenProperties DEF Within
<1> HIDE DEF t
<1>3. Len(t) <= Len(a) /\ Len(t) <= Len(b)
    BY <1>1, <1>2
<1>4. ASSUME NEW k \in 0 .. Len(t) - 1 PROVE t[Len(t) - k] >= b[Len(b) - k]
  <2>1. /\ Len(t) - k \in 1 .. Len(a) - n /\ n + (Len(t) - k) = Len(a) - k
        /\ k \in 0 .. Len(a) - 1
      BY <1>1, <1>2
  <2>2. t[Len(t) - k] = a[Len(a) - k]
      BY <1>1, <2>1
  <2> QED
      BY <2>1, <2>2 DEF Within
<1> QED
    BY <1>3, <1>4 DEF Within, t

LEMMA RateFrame ==
    ASSUME RateInv, UNCHANGED <<rateBuckets, accepted>> PROVE RateInv'
BY DEF RateInv, Sorted, Within

LEMMA ServerReceivesRate ==
    ASSUME ChatTypes, RateInv, NEW p \in Pages, ServerReceives(p) PROVE RateInv'
<1> DEFINE r == Head(toServer[p])
           a == accepted[p]
           b == rateBuckets[p]
           t == Recent(b)
<1>1. CASE r.type = "nickname"
    BY <1>1, RateFrame DEF ServerReceives, setNickname
<1>2. CASE r.type # "nickname"
  <2>1. handleIncoming(p, r.draft)
      BY <1>2 DEF ServerReceives
  <2>2. /\ a \in Seq(Ages) /\ b \in Seq(Ages) /\ Sorted(a) /\ Sorted(b) /\ Within(a, b)
        /\ Len(a) <= RATE_LIMIT_MAX
        /\ \A i \in 1 .. Len(a) : a[i] <= RATE_LIMIT_WINDOW
      BY DEF ChatTypes, RateInv
  <2> HIDE DEF a, b
  <2>3. t \in Seq(Ages) /\ Sorted(t) /\ Within(a, t)
      BY <2>2, RecentSorted, WithinRecent
  <2> HIDE DEF t
  <2>4. Append(t, 0) \in Seq(Ages) /\ Sorted(Append(t, 0))
      BY <2>3, AppendSorted
  <2>5. /\ rateBuckets'[p] = Append(t, 0)
        /\ \A q \in Pages : q # p => rateBuckets'[q] = rateBuckets[q]
      BY <2>1 DEF handleIncoming, ChatTypes, t, b
  <2>6. CASE withinRateLimit(p) /\ r.draft.text = "fine"
    <3>1. /\ accepted'[p] = Append(a, 0)
          /\ \A q \in Pages : q # p => accepted'[q] = accepted[q]
        BY <2>1, <2>6 DEF handleIncoming, ChatTypes, a
    <3>2. Len(t) < RATE_LIMIT_MAX /\ Len(a) <= Len(t) /\ Len(t) \in Nat /\ Len(a) \in Nat
        BY <2>2, <2>3, <2>6, LenProperties DEF withinRateLimit, Within, t, b
    <3>3. 0 \in Ages /\ 0 <= RATE_LIMIT_WINDOW
        BY ChatConstants DEF Ages
    <3>4. /\ Len(Append(a, 0)) = Len(a) + 1 /\ Append(a, 0)[Len(a) + 1] = 0
          /\ \A i \in 1 .. Len(a) : Append(a, 0)[i] = a[i]
        BY <2>2, <3>3, AppendProperties
    <3>5. Len(Append(a, 0)) <= RATE_LIMIT_MAX
        BY <3>2, <3>4, ChatConstants
    <3>6. \A i \in 1 .. Len(Append(a, 0)) : Append(a, 0)[i] <= RATE_LIMIT_WINDOW
        BY <2>2, <3>2, <3>3, <3>4
    <3>7. Sorted(Append(a, 0)) /\ Within(Append(a, 0), Append(t, 0))
        BY <2>2, <2>3, AppendSorted, WithinBoth
    <3> QED
        BY <2>4, <2>5, <3>1, <3>5, <3>6, <3>7 DEF RateInv
  <2>7. CASE ~(withinRateLimit(p) /\ r.draft.text = "fine")
    <3>1. UNCHANGED accepted
        BY <2>1, <2>7 DEF handleIncoming
    <3>2. Within(a, Append(t, 0))
        BY <2>2, <2>3, WithinRefused
    <3> QED
        BY <2>2, <2>4, <2>5, <3>1, <3>2 DEF RateInv, a
  <2> QED
      BY <2>6, <2>7
<1> QED
    BY <1>1, <1>2

LEMMA TickRate == ASSUME ChatTypes, RateInv, Tick PROVE RateInv'
<1>1. ASSUME NEW p \in Pages
      PROVE  /\ rateBuckets'[p] = Older(rateBuckets[p])
             /\ accepted'[p] = Recent(Older(accepted[p]))
    BY DEF Tick, Older
<1>2. ASSUME NEW a \in Seq(Ages), NEW b \in Seq(Ages), Sorted(a), Sorted(b), Within(a, b),
             Len(a) <= RATE_LIMIT_MAX
      PROVE  /\ Sorted(Older(b)) /\ Sorted(Recent(Older(a))) /\ Within(Recent(Older(a)), Older(b))
             /\ Len(Recent(Older(a))) <= RATE_LIMIT_MAX
             /\ \A i \in 1 .. Len(Recent(Older(a))) : Recent(Older(a))[i] <= RATE_LIMIT_WINDOW
  <2>1. /\ Sorted(Older(a)) /\ Older(a) \in Seq(Ages) /\ Len(Older(a)) = Len(a)
        /\ Sorted(Older(b)) /\ Older(b) \in Seq(Ages)
      BY <1>2, OlderSorted
  <2>2. Within(Older(a), Older(b))
      BY <1>2, WithinOlder
  <2>3. /\ Sorted(Recent(Older(a))) /\ Recent(Older(a)) \in Seq(Ages)
        /\ \A i \in 1 .. Len(Recent(Older(a))) : Recent(Older(a))[i] <= RATE_LIMIT_WINDOW
      BY <2>1, RecentSorted
  <2>4. Within(Recent(Older(a)), Older(b)) /\ Len(Recent(Older(a))) <= Len(a)
      BY <2>1, <2>2, RecentWithin
  <2>5. Len(Recent(Older(a))) \in Nat /\ Len(a) \in Nat
      BY <2>3, LenProperties
  <2> QED
      BY <1>2, <2>1, <2>3, <2>4, <2>5, ChatConstants
<1>3. ASSUME NEW p \in Pages
      PROVE  /\ accepted[p] \in Seq(Ages) /\ rateBuckets[p] \in Seq(Ages)
             /\ Sorted(accepted[p]) /\ Sorted(rateBuckets[p])
             /\ Within(accepted[p], rateBuckets[p]) /\ Len(accepted[p]) <= RATE_LIMIT_MAX
    BY DEF ChatTypes, RateInv
<1> QED
    BY <1>1, <1>2, <1>3 DEF RateInv

LEMMA LostRate == ASSUME ChatTypes, RateInv, NEW p \in Pages, ConnectionLost(p) PROVE RateInv'
<1>1. /\ accepted'[p] = <<>> /\ rateBuckets'[p] = <<>>
      /\ \A q \in Pages : q # p => accepted'[q] = accepted[q] /\ rateBuckets'[q] = rateBuckets[q]
    BY DEF ConnectionLost, ChatTypes
<1>2. Sorted(<<>>) /\ Within(<<>>, <<>>) /\ Len(<<>>) <= RATE_LIMIT_MAX
    BY ChatConstants DEF Sorted, Within
<1> QED
    BY <1>1, <1>2 DEF RateInv

LEMMA InitRate == Init => RateInv
BY ChatConstants DEF Init, RateInv, Sorted, Within

LEMMA StepRate == ASSUME ChatTypes, RateInv, [Next]_vars PROVE RateInv'
<1>1. ASSUME NEW p \in Pages,
             \/ Connect(p) \/ handleSend(p) \/ PageReceives(p)
             \/ \E text \in PageTexts : Type(p, text)
      PROVE  UNCHANGED <<rateBuckets, accepted>>
    BY <1>1 DEF Connect, handleSend, PageReceives, Type, serverVars
<1>2. ASSUME NEW text \in DiscordTexts, DiscordWrites(text)
      PROVE  UNCHANGED <<rateBuckets, accepted>>
    BY <1>2 DEF DiscordWrites, serverVars
<1>3. MessageCreate \/ Bot \/ Server \/ UNCHANGED vars => UNCHANGED <<rateBuckets, accepted>>
    BY DEF MessageCreate, Bot, Server, vars, serverVars
<1> QED
    BY <1>1, <1>2, <1>3, RateFrame, ServerReceivesRate, TickRate, LostRate DEF Next

-----------------------------------------------------------------------------
LEMMA InitSaid == Init => SaidInv
BY InitTypes, InitNumbers, InitBridge, InitFollows, InitShows, InitRate DEF SaidInv

LEMMA StepSaid == SaidInv /\ [Next]_vars => SaidInv'
<1> SUFFICES ASSUME SaidInv, [Next]_vars PROVE SaidInv'
    OBVIOUS
<1>1. ChatTypes'
    BY StepTypes DEF SaidInv
<1>2. NumbersInv'
    BY <1>1, StepNumbers DEF SaidInv
<1>3. BridgeInv' /\ SpokenInv'
    BY <1>2, StepBridge DEF SaidInv
<1>4. PagesFollow' /\ ShowsLatest' /\ RateInv'
    BY StepFollows, StepShows, StepRate DEF SaidInv
<1> QED
    BY <1>1, <1>2, <1>3, <1>4 DEF SaidInv

LEMMA SaidInvIsStrong == SaidInv => /\ NothingTwice /\ NothingGoesRound /\ PagesFollow
                                    /\ ShowsLatest /\ SentIsShown /\ RateIsKept
<1> SUFFICES ASSUME SaidInv
             PROVE  /\ NothingTwice /\ NothingGoesRound /\ PagesFollow
                    /\ ShowsLatest /\ SentIsShown /\ RateIsKept
    OBVIOUS
<1>1. IsInjective(Said(log))
    BY DEF SaidInv, NumbersInv, LogNumbers, IsInjective, Said
<1>2. NothingTwice
    BY <1>1 DEF SaidInv, BridgeInv, SpokenInv, NothingTwice
<1>3. NothingGoesRound
  <2>1. \A i \in 1 .. Len(bridge) : bridge[i] \in Nat /\ Has(bridge, bridge[i])
      BY DEF SaidInv, ChatTypes, Has
  <2> QED
      BY <2>1 DEF SaidInv, BridgeInv, FromPage, NothingGoesRound
<1>4. SentIsShown
  <2> SUFFICES ASSUME NEW p \in Pages, toPage[p] # <<>>, Head(toPage[p]).type = "sent"
               PROVE  LastShown(p, waiting[p])
      BY DEF SentIsShown, LastShown, SaidInv, ChatTypes
  <2>1. toPage[p] \in Seq(LogEntry \cup Answers)
      BY DEF SaidInv, ChatTypes
  <2>2. Head(toPage[p]) = toPage[p][1] /\ 1 \in 1 .. Len(toPage[p])
      BY <2>1
  <2>3. Answered(p, 1)
      BY <2>2 DEF Answered
  <2> QED
      BY <2>2, <2>3 DEF SaidInv, NumbersInv, AnsweredOnce, ComesBefore
<1>5. RateIsKept
    BY DEF SaidInv, RateInv, RateIsKept
<1> QED
    BY <1>2, <1>3, <1>4, <1>5 DEF SaidInv

-----------------------------------------------------------------------------
\* Every number that is said is in one place on its way, and the pages follow
\* the log (ChatPanel.jsx handleSend, chatService.js handleIncoming,
\* discordBotService.js handleBridgeInbound and handleChatBridgeOutbound).
THEOREM EachNumberIsSaidOnce == Spec => []SaidInv
BY InitSaid, StepSaid, PTL DEF Spec

\* So nothing is published, spoken or posted twice or goes round the bridge, a
\* connected page is sent all of it in order and shows the last MaxShown of
\* that (ChatContext.jsx:41), an answer finds its message shown last, and the
\* rate limit is kept.
THEOREM SaidOnceAlways == Spec => []SaidOnce
<1>1. PresenceInv /\ SaidInv => SaidOnce
  <2>1. PresenceInv /\ SaidInv => TypeOK
      BY DEF PresenceInv, SaidInv, ChatTypes, TypeOK
  <2> QED
      BY <2>1, SaidInvIsStrong DEF SaidOnce
<1> QED
    BY <1>1, LastPresenceIsTrue, EachNumberIsSaidOnce, PTL
=============================================================================
