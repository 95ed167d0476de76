-------------------------------- MODULE Roverd --------------------------------
(***************************************************************************)
(* The daemon on a rover (pi/roverd): main's loop around WSClient.Run, the *)
(* timer that seeks the dock a minute after the server is lost, the auto   *)
(* charge controller that seeks it when the rover stands there without     *)
(* charging, and the text to speech queue.  They share the serial port and *)
(* the state of the connection; each is a goroutine of its own.            *)
(*                                                                         *)
(* What goes over the websocket is RoverLink's.  A step of a goroutine is  *)
(* what it does under one lock or on one channel.  Time passes             *)
(* (DaemonTick) only when the disconnect timer is not due and its callback *)
(* is not running; they may still be overtaken by a reconnection.          *)
(***************************************************************************)
EXTENDS Integers, Sequences

CONSTANTS
    SeekDelay,      \* disconnectSeekDelay, in ticks
    ChargeTimeout,  \* autoChargeTimeout, in ticks
    RetryCap,       \* retryDelay doubles while below it
    MaxSamples,     \* capacity of sensorSamples
    TtsSlots,       \* capacity of ttsQueue
    MaxRuns         \* bound: connections that get as far as their goroutines

ASSUME RoverdConstants ==
    /\ SeekDelay \in Nat \ {0} /\ ChargeTimeout \in Nat \ {0} /\ RetryCap \in Nat \ {0}
    /\ MaxSamples \in Nat \ {0} /\ TtsSlots \in Nat \ {0} /\ MaxRuns \in Nat

NoTimer == -1   \* no timer: disconnectT is nil, timerStart is zero
Fired == -2     \* disconnectT is a timer that has fired

\* What a sample says: off the dock, on it but not charging, charging.
Docks == {"away", "idle", "charging"}

VARIABLES
    run,    \* main and Run: where they are, the retry delay and its wait
    seek,   \* connected, disconnectT, seekIssued, and the timer's callback
    held,   \* history: time since `connected' changed, up to SeekDelay
    tts,    \* what waits in ttsQueue, the workers, and those that speak
    dock,   \* the robot: what its frames say of the charger
    charge  \* sensorSamples, and the time since timerStart

daemonVars == <<run, seek, held, tts, dock, charge>>

RunState == [phase : {"dial", "hello", "loop", "sleep"},
             delay : 1 .. 2 * RetryCap,
             wait  : 0 .. 2 * RetryCap]

SeekState == [connected : BOOLEAN,
              timer     : {NoTimer, Fired} \cup 0 .. SeekDelay,
              issued    : BOOLEAN,
              callback  : {"none", "called", "seeking"}]

TtsState == [queue : 0 .. TtsSlots, workers : 0 .. MaxRuns, speaking : 0 .. MaxRuns]

ChargeState == [samples : Seq(Docks), since : {NoTimer} \cup 0 .. ChargeTimeout]

DaemonInit ==
    /\ run = [phase |-> "dial", delay |-> 1, wait |-> 0]
    /\ seek = [connected |-> FALSE, timer |-> NoTimer, issued |-> FALSE, callback |-> "none"]
    /\ held = 0
    /\ tts = [queue |-> 0, workers |-> 0, speaking |-> 0]
    /\ dock = "away"
    /\ charge = [samples |-> <<>>, since |-> NoTimer]

-----------------------------------------------------------------------------
(* The connection, as the rest of the daemon sees it.                      *)

\* Mutants: the timer of the last outage is left running; it is left in
\* disconnectT after it was stopped.
MarkConnected_LeavesTimer ==
    /\ seek' = [seek EXCEPT !.connected = TRUE, !.issued = FALSE]
    /\ held' = IF seek.connected THEN held ELSE 0
MarkConnected_KeepsStopped ==
    /\ seek' = [seek EXCEPT !.connected = TRUE, !.issued = FALSE,
                            !.timer = IF @ = NoTimer THEN NoTimer ELSE Fired]
    /\ held' = IF seek.connected THEN held ELSE 0

MarkConnected ==
    /\ seek' = [seek EXCEPT !.connected = TRUE, !.issued = FALSE, !.timer = NoTimer]
    /\ held' = IF seek.connected THEN held ELSE 0

MarkDisconnected ==
    /\ seek' = [seek EXCEPT !.connected = FALSE,
                            !.timer = IF @ = NoTimer THEN SeekDelay ELSE @]
    /\ held' = IF seek.connected THEN 0 ELSE held

DialSucceeds ==
    /\ run.phase = "dial" /\ tts.workers < MaxRuns
    /\ run' = [run EXCEPT !.phase = "hello"]
    /\ MarkConnected
    /\ UNCHANGED <<tts, dock, charge>>

\* The hello is sent and a worker for text to speech is started, in addition
\* to those of earlier connections, which never end.
HelloSent ==
    /\ run.phase = "hello"
    /\ run' = [run EXCEPT !.phase = "loop"]
    /\ tts' = [tts EXCEPT !.workers = @ + 1]
    /\ UNCHANGED <<seek, held, dock, charge>>

\* Mutant: the worker goes with its connection.
RunReturns_EndsWorker ==
    /\ run.phase \in {"dial", "hello", "loop"}
    /\ run' = [run EXCEPT !.phase = "sleep", !.wait = run.delay]
    /\ MarkDisconnected
    /\ tts' = IF run.phase = "loop" /\ tts.speaking < tts.workers
              THEN [tts EXCEPT !.workers = @ - 1] ELSE tts
    /\ UNCHANGED <<dock, charge>>

\* The dial or the hello fails, or the reader ends.
RunReturns ==
    /\ run.phase \in {"dial", "hello", "loop"}
    /\ run' = [run EXCEPT !.phase = "sleep", !.wait = run.delay]
    /\ MarkDisconnected
    /\ UNCHANGED <<tts, dock, charge>>

\* The delay is never reset.
Retry ==
    /\ run.phase = "sleep" /\ run.wait = 0
    /\ run' = [run EXCEPT !.phase = "dial",
                          !.delay = IF @ < RetryCap THEN 2 * @ ELSE @]
    /\ UNCHANGED <<seek, held, tts, dock, charge>>

-----------------------------------------------------------------------------
(* The dock, sought after a disconnection.                                 *)

TimerFires ==
    /\ seek.timer = 0 /\ seek.callback = "none"
    /\ seek' = [seek EXCEPT !.timer = Fired, !.callback = "called"]
    /\ UNCHANGED <<run, held, tts, dock, charge>>

\* handleDisconnectTimeout up to its unlock.
CheckTimeout ==
    /\ seek.callback = "called"
    /\ seek' = IF seek.connected \/ seek.issued
               THEN [seek EXCEPT !.callback = "none"]
               ELSE [seek EXCEPT !.issued = TRUE, !.callback = "seeking"]
    /\ UNCHANGED <<run, held, tts, dock, charge>>

\* Its write to the serial port, after the unlock: the server may be back by
\* then.  It may fail, and is not repeated.
SeekDock ==
    /\ seek.callback = "seeking"
    /\ seek' = [seek EXCEPT !.callback = "none"]
    /\ UNCHANGED <<run, held, tts, dock, charge>>

-----------------------------------------------------------------------------
(* The auto charge controller.                                             *)

\* A frame that is complete, in time and parsed; a sample that finds the
\* channel full is dropped.
StreamSample ==
    /\ Len(charge.samples) < MaxSamples
    /\ charge' = [charge EXCEPT !.samples = Append(@, dock)]
    /\ UNCHANGED <<run, seek, held, tts, dock>>

\* Mutant: every sample on the dock starts the timer anew.
ChargeTimer_Restarts(sample) == IF sample # "idle" THEN NoTimer ELSE 0

\* timerStart after a sample.  The cooldown is zero and never holds.
ChargeTimer(sample) ==
    IF sample # "idle" \/ charge.since = ChargeTimeout THEN NoTimer
    ELSE IF charge.since = NoTimer THEN 0
    ELSE charge.since

ProcessSample ==
    /\ charge.samples # <<>>
    /\ charge' = [samples |-> Tail(charge.samples),
                  since   |-> ChargeTimer(Head(charge.samples))]
    /\ UNCHANGED <<run, seek, held, tts, dock>>

\* The sample upon which the controller seeks the dock.
AutoSeek ==
    /\ ProcessSample
    /\ Head(charge.samples) = "idle" /\ charge.since = ChargeTimeout

-----------------------------------------------------------------------------
(* Text to speech.                                                         *)

\* A command; with a full queue it is refused ("tts busy").
EnqueueTTS ==
    /\ run.phase = "loop" /\ tts.queue < TtsSlots
    /\ tts' = [tts EXCEPT !.queue = @ + 1]
    /\ UNCHANGED <<run, seek, held, dock, charge>>

TakeTTS ==
    /\ tts.queue > 0 /\ tts.speaking < tts.workers
    /\ tts' = [tts EXCEPT !.queue = @ - 1, !.speaking = @ + 1]
    /\ UNCHANGED <<run, seek, held, dock, charge>>

\* The engine is done, fails, or is stopped after 12 seconds.
SpeechEnds ==
    /\ tts.speaking > 0
    /\ tts' = [tts EXCEPT !.speaking = @ - 1]
    /\ UNCHANGED <<run, seek, held, dock, charge>>

-----------------------------------------------------------------------------
(* The robot, time, and the whole.                                         *)

RobotMoves ==
    /\ dock' \in Docks
    /\ UNCHANGED <<run, seek, held, tts, charge>>

DaemonTick ==
    /\ seek.timer # 0 /\ seek.callback = "none"
    /\ run' = [run EXCEPT !.wait = IF @ > 0 THEN @ - 1 ELSE @]
    /\ seek' = [seek EXCEPT !.timer = IF @ > 0 THEN @ - 1 ELSE @]
    /\ held' = IF held < SeekDelay THEN held + 1 ELSE held
    /\ charge' = [charge EXCEPT !.since =
                     IF @ \in 0 .. ChargeTimeout - 1 THEN @ + 1 ELSE @]
    /\ UNCHANGED <<tts, dock>>

DaemonNext ==
    \/ DialSucceeds \/ HelloSent \/ RunReturns \/ Retry
    \/ TimerFires \/ CheckTimeout \/ SeekDock
    \/ StreamSample \/ ProcessSample
    \/ EnqueueTTS \/ TakeTTS \/ SpeechEnds
    \/ RobotMoves
    \/ DaemonTick

\* Goroutines run, a dial ends one way or the other, speech is cut off after
\* 12 seconds, frames keep coming, and time passes.
DaemonFairness ==
    /\ WF_daemonVars(run.phase = "dial" /\ (DialSucceeds \/ RunReturns))
    /\ WF_daemonVars(run.phase = "hello" /\ (HelloSent \/ RunReturns)) /\ WF_daemonVars(Retry)
    /\ WF_daemonVars(TimerFires) /\ WF_daemonVars(CheckTimeout) /\ WF_daemonVars(SeekDock)
    /\ WF_daemonVars(StreamSample) /\ WF_daemonVars(ProcessSample)
    /\ WF_daemonVars(TakeTTS) /\ WF_daemonVars(SpeechEnds)
    /\ WF_daemonVars(DaemonTick)

DaemonSpec == DaemonInit /\ [][DaemonNext]_daemonVars /\ DaemonFairness

-----------------------------------------------------------------------------
\* The types; the retry delay stays below twice its cap.
DaemonTypeOK ==
    /\ run \in RunState
    /\ seek \in SeekState
    /\ held \in 0 .. SeekDelay
    /\ tts \in TtsState
    /\ dock \in Docks
    /\ charge \in ChargeState /\ Len(charge.samples) <= MaxSamples
    /\ seek.connected <=> run.phase \in {"hello", "loop"}
    /\ tts.speaking <= tts.workers
    /\ run.phase = "hello" => tts.workers < MaxRuns

\* The disconnect timer runs only while the server is lost, and never comes
\* due before it has been lost for the whole delay: neither the dials that
\* fail meanwhile nor earlier outages shorten it.
NeverEarly ==
    /\ seek.timer # NoTimer => ~seek.connected
    /\ seek.timer \in 0 .. SeekDelay => seek.timer + held >= SeekDelay
    /\ seek.timer = Fired => held = SeekDelay

\* With the types, the inductive invariant that RoverProofs proves.
RoverdInv == DaemonTypeOK /\ NeverEarly

\* A rover that has lost the server for good seeks its dock.
OutageSeeks ==
    <>[](~seek.connected) => <>[](seek.issued /\ seek.callback = "none")

\* A rover that stays on its dock without charging seeks it again and again.
IdleIsSought == <>[](dock = "idle") => []<><<AutoSeek>>_daemonVars

\* A full queue of texts does not stay full, connected or not.
TtsBusyEnds == tts.queue = TtsSlots ~> tts.queue < TtsSlots
=============================================================================
