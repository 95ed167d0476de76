# Multi Roomba Rover: a verification development

The repository lets people drive Roomba robots over the web. A Go daemon on each
robot (`pi/roverd`) keeps a websocket to a Node server (`server/src`), which decides
who may drive what and passes commands down and sensor frames up; browsers
(`webui/src`) talk to the server over socket.io and to a media server for video.

These modules are TLA+ models of the parts of that system whose state can go wrong,
translated from the code at function level, with the TLC configurations that check
them on small instances and TLAPS proofs of the most important safety properties for
every instance. Paths below are relative to the repository root; `services/` stands
for `server/src/services/`.

## The system: parts, state, interaction

| Part | State it keeps | Interacts through | What is hard |
| --- | --- | --- | --- |
| Turn service, `services/turnService.js` | per rover: queue, current and active driver, turn and idle timeout, their deadlines, idle skips, "acted this turn" (seven Maps) | called by roverManager and commandService; listens to the mode; timeouts | two timeouts per turn against departures, requests, takeovers and mode changes |
| Access modes, `services/modeManager.js`, `lockdownGuard.js` | the mode | emits `change` to the guard, the turn service and assignments, in that order | listeners act in the middle of one another's work |
| Roles and login, `services/roleService.js`, `authService.js` | role of each socket | emits role changes; the login awaits bcrypt | the client is gone or changed when the await returns |
| Rover manager, `services/roverManager.js` | rover records (drivers, lock, battery state, websocket), rovers of each socket | called by every other service; emits rover, lock and sensor events | one fact (who drives) in three services; rovers that go and come back |
| Assignment, `services/assignmentService.js` | assignments, waiting list, socketRefs | listens to connections, roles, modes, rovers and locks | reassignment inside iteration, nobody forgotten |
| Battery manager, `services/batteryManager.js` | per rover: warned, locked for battery, waiting since | listens to sensor frames and locks; calls lockRover, whose event it hears itself | re-entrance; its state outlives the rover's record |
| Commands, `services/commandService.js` | pending commands | sends to the rover's websocket; hears acknowledgements | lost connections between command and acknowledgement |
| Rover connection, `services/roverConnectionService.js` | the rover's name per websocket | hello, sensor, ack, event, close | the close of an old websocket after the hello of a new one |
| roverd, `pi/roverd/wsclient.go`, `cmd/roverd/main.go` | connected, disconnect timer, retry delay, forwarders, speech workers | goroutines on shared channels | goroutines that outlive their connection; a timer against a reconnection |
| Auto charge, `pi/roverd/auto_charge.go`, `sensor_stream.go` | timer since idle on the dock; bounded channels | samples in, seek-dock command out | dropped and delayed samples |
| Video sessions, `services/video*.js`, `webui` tiles | sessions per socket and rover, retry loop | token issue, authorisation by the media server | authorisation asked later than granted |
| Room cameras, `services/roomCamera*.js`, `webui` hook and panel | camera states, fetches in flight, subscriptions in two Maps, rate limit | polling; socket.io | cleanups and subscriptions that cross reconnections; fetches that hang |
| Session snapshots, `services/sessionService.js` | the delayed activity update | broadcasts to the pages what the services know | the last state must reach every page |
| Home Assistant, `services/homeAssistantService.js`, `webui` buttons | the connection, its retry timer, entity states | Home Assistant's websocket API; session snapshots | one timer shared by every failure; states that are stale |
| Chat and nicknames, `services/chatService.js`, `nicknameService.js`, `webui` panel | rate limits and nicknames per socket; draft and waiting answer of a page | socket.io, the event bus, text to speech | answers lost with a connection; the order of the shown messages |
| Discord bot, `services/discordBotService.js` | login, channel cache, presence | the event bus, Discord's gateway and requests | echoes; posts that wait or fail; a stale presence |
| Web client controls, `webui/src/controls/`, `MobileControls.jsx`, `DriveDockAction.jsx`, `KeymapSettings.jsx`, `GamepadMappingSettings.jsx` | reducer, keymap and mapping, macros at a pause, refs of the input managers, timers | commands to the server | several inputs at once; closures of a rover that is no longer the page's |
| Devices, `pi/roverd` servo, night vision, media, BRC | pulse width, light, systemd units | GPIO, systemd | little state |

`PROJECT.json` lists each of these with its status, and the hazards of the code at
the line where each bites.

## Modules

| Module | Models | Used by |
| --- | --- | --- |
| `TurnOps` | every function of the turn service on one rover's state, as operators | `TurnService` |
| `TurnService` | the calls, listeners and timeouts of the turn service as actions; its invariants | `TurnRefinement` |
| `TurnRotation` | abstract: a line of clients and a holder, no timers or modes | `TurnRefinement`, and by its content `RoverServer` |
| `TurnRefinement` | the refinement mapping from the service to the rotation | `TurnWatch`, proofs |
| `TurnWatch` | `TurnService` with history variables that time the turns; fairness | `MCTurns` |
| `MCTurns` | the instance for TLC | `MCTurns.cfg` |
| `RoverServer` | modes, roles, login, guard, rover manager, assignments and lines, composed | `MCRoverServer` |
| `BatteryManager` | the battery manager with the rover manager's lock | `BatteryManager.cfg` |
| `RoverLink` | the websockets between a rover and the server, old and new; commands in flight | `RoverLink.cfg`, `LinkStaleClose.cfg` |
| `Roverd` | the daemon: retry loop, disconnect timer, auto charge, speech queue | `Roverd.cfg` |
| `VideoSessions` | the video of one rover on one page: requests, tokens, authorisation, the tile's player | `VideoSessions.cfg` |
| `RoomCameras` | polling, subscriptions, and one page that looks at the cameras | `RoomCameras.cfg` |
| `HomeAssistant` | the connection to Home Assistant, its reports and calls, and the house | `SessionSync` |
| `SessionSync` | what makes the server send snapshots to which pages, and the pages' buttons for the lights | `SessionSync.cfg` |
| `DiscordBot` | the bot's login, presence and posts, and Discord | `Chat` |
| `Chat` | chat and nicknames of the pages, the bridge to Discord and the bot's commands | `Chat.cfg` |
| `ControlOps` | pure: key bindings, vectors, speeds, motor powers, macros | `Controls` |
| `Controls` | the inputs, timers and buttons of one page, across changes of rover | `MCControls` |
| `MCControls` | small keyboards, gamepads and rovers | `ControlsDrive.cfg`, `ControlsMacros.cfg` |
| `TurnProofs` | theorems about `TurnService`, `TurnRefinement` and `TurnWatch` | |
| `RoverServerProofs` | theorems about `RoverServer` | |
| `RoverProofs` | theorems about `RoverLink`, `Roverd` and `BatteryManager`, whose definitions carry the prefixes Daemon and Battery where two of them would share a name | |
| `VideoProofs`, `CameraProofs`, `SessionSyncProofs`, `ChatProofs`, `ControlsProofs` | theorems about `VideoSessions`, `RoomCameras`, `SessionSync`, `Chat`, `Controls` | |

Definitions named `X_Something` beside a definition `X` are mutants: what `X` would be
with a plausible bug. `PROJECT.json` pairs each checked property with the mutant that
breaks it, so that no property holds merely by the shape of the model.

### TurnOps, TurnService, TurnWatch

The seven Maps keyed by rover are one record `t`. Rovers do not interact in the turn
service, so one is enough. A function of the service is an operator from the mode and
the record to the record; Node runs it to completion, so a call is one action.

| Action | Code |
| --- | --- |
| `SetMode` | `modeManager.setMode`, and `modeEvents.on('change')` which calls `syncState` |
| `RequestControl` | `roverManager.requestControl` to `driverAdded`; only an admin's `force` is passed on |
| `ReleaseControl` | `roverManager.releaseControl` (or a disconnect) to `driverRemoved` |
| `CleanupRover` | `roverManager.removeRover` to `cleanupRover` |
| `Command` | `commandService.handleCommand`: `canDrive`, then `recordActivity` |
| `TurnTimeout`, `IdleTimeoutFires` | the callbacks of the two `setTimeout`s |
| `Tick` | time; a timeout that is due fires before time goes on |

A pending timeout is the time left, 0 when due, `Off` when there is none; the deadline
Maps that are sent to the clients are separate fields, so that a branch that clears one
and not the other shows. Which of two due timeouts fires first is open. The queue and
`activeDriver` events to `sessionService` are left out, and `stopRover` is the field
`moving` becoming false.

### RoverServer

`srv` is one record and every function of the services an operator on it, because the
listeners call one another's functions in the middle of a handler. Each handler with all
its listeners is one action: nothing in them awaits, except the password check, which
is `LoginStart` and `LoginEnd` or `LoginFails` with anything in between. At most one
check per client is under way at a time. JavaScript Maps and Sets keep insertion order,
so they are sequences where the order decides something (`online`, `joined`,
`assigned`, `waiting`). A mode change runs the guard, the turn service and the
assignment service in the order of their registration.

The turns of a rover are what `TurnRotation` promises, a line and a holder, and may pass
at any time; that the real service delivers that is proved in `TurnProofs`.
Who may change the mode or lock a rover is left open (admins' clients, the Discord bot
and the battery manager all may), so the properties hold whoever does. Whether a rover
stands charging in its dock, which `canSwitchRover` asks, is open for the rovers in
`Dockable`.

`room` is who socket.io sends a rover's frames: drivers join when they are granted the
rover and leave when they release it; spectators join all rooms when they become
spectators, when a rover comes and when they ask to (`SubscribeAll`, the page's
`useSpectatorMode`). `Join` does nothing for a socket that is gone, and a room is not
emptied when its rover goes. `Watchers` bounds who may become a spectator.

A client that has gone is `"down"` if it disconnected, and `"refused"` if the guard turned
it away as it connected (`lockdownGuard.js:25`). The listeners
registered after the guard's still run, and their disconnect handlers come too late to be
called: the assignment service keeps the socket in `socketRefs`, its initial role
(`authService.js:38`) puts it in the waiting list, and it may be granted a rover when the
lockdown is over (`assignmentService.js:121`).
`GoneMeansForgotten` promises of a refused client only that it hears no rover, and of one
that disconnected that no Map or Set of any service has it.

The model also shows, and no property forbids, that in admin mode a user may still
request control explicitly (`requestControl` is called with `allowUser: true`).

### BatteryManager

One rover as the server sees it (`b`), and its charger and charge as they are
(`reading`, `level`), which change at any time. `LockRover` runs the manager's own
listener, `HandleLock`, inside the handling of the frame, as the emitter does. The
record is deleted with the connection (`NewRecord`), the manager's own state is not; see
Known behaviours for what comes of it. A frame that does not parse leaves
the last battery state. Flags that decide only which event is published are left out.

### RoverLink

Every connection is a pair of FIFO channels, numbered as it is dialled. `Run` in
`wsclient.go` is the phases of `roverd`; `ReadCommand` is one round of `readLoop`: a
message that cannot be parsed or has no id is passed over without a word
(`wsclient.go:106`), any other is dispatched and acknowledged with what that came to,
"ok" or "error" (`:114`). `outcome` is the history of what became of a command on the
rover, `told` what the server told its clients of it (`commandAck`). `ForwardFrame(c)`
one frame taken by the forwarder of connection `c`, which is still there when `c` has
ended, takes a frame and fails with it. `Receive` and `Closed` are the handlers in
`roverConnectionService.js`. `IssueCommand` is `commandService`'s; who may command is
`TurnService`'s matter.

The network may cut a connection (`Cut`), which loses what is on its way to the server
and tells nobody. The server sends no pings, so it notices a close only after everything
that came before it, or when what it has sent is never acknowledged (`SeesClose`).
Either process may end and start again at any time (`RoverdRestarts`, `ServerRestarts`).
`forwardEvents` is like `forwardSensors` and left out. `clashed` is a history of the
connections that the server knew together with another one.

### Roverd

A step is what a goroutine does under one lock or on one channel. `handleDisconnectTimeout`
is therefore two steps, the check under `connMu` and the write to the serial port after
it. The sample channel holds at most `MaxSamples`, and samples are handled later than
they are taken. Every connection adds a worker for speech which never ends. The cooldown
of the auto charge controller is zero in the code and never holds. The watchdog that
restarts a silent sensor stream (`recoverSensorStream`) keeps no state that another part
reads and is left out.

### VideoSessions

One rover on one page, which is a spectator's or a driver's (`view`). `Render` is one
round of React's effects for everything that changed since the last: `WantsRole`
is the condition of `useSpectatorMode`, `MustRequest` the dependencies of the effect of
`useVideoRequests`, `Requested` its body, `TileFor` the effect of `VideoTile` with its
cleanup. Rendering is asynchronous, so messages may arrive before or after it. `Start`
is the WHEP request, upon which the media server asks `/mediamtx/auth`; it asks only
then, so a stream that plays goes on when the permission ends. `Restart` is the timer of
two seconds, which may come due after the tile has another token.

Packets that the page emits while it is disconnected are kept by socket.io and sent on
the next connection, packets in flight when it is lost are lost (`Lost`). A token is
known by the request it answers. What `RoverServer` decides (modes, assignments, who
drives) is open, within what that module allows; each change ends in a `session:sync`.

### RoomCameras

One page with one socket after another, which is a driver's, a spectator's or the mini
summary. The cameras are read once, when the server starts, so the polling is never
stopped. `FetchSnapshot` is the end of a fetch, which comes in time because of
its timeout; `Render` is one round of React's effects: the cleanup of the last run, then
the next, and the page's request for its role before or after them as in the code.
`answered` remembers what the socket's last request was told, as a page whose request
was refused shows the cameras' status and does not ask again. What `RoverServer` decides
is open; in lockdown the guard closes the socket and the page does not return. One
camera is enough, as no two of them interact. Only whether a camera has a frame or an
error is kept, not the count of its failures.

### HomeAssistant, SessionSync

`HomeAssistant` has both ends: `connection` is what the service believes, `open` what is
so. `ConnectSucceeds` and `ConnectFails` are the two ends of the awaited
`createConnection`, `Disconnected` the listener that hears of a loss, if the library
ever notices it: the service sends no pings (`homeAssistantService.js:186`), so
`Disconnected` is what may happen and is not assumed to. `SessionSync` EXTENDS it: a
step of the service that changes what it tells (`Lights`) sends a snapshot to everybody,
as `sessionService` listens to its events.

`buildSession` builds the whole state at the time of sending, and messages to a page
come in order, so of the snapshots on their way to a page only the last is kept. Of the
contents there is what the throttles and listeners treat differently: mode, turn, each
user's role and nickname, and the lights. A role or a nickname is sent only to its own
page at once; other pages learn it from the next snapshot for all, if need be the one
every 20 seconds (`PeriodicSync`).

### DiscordBot, Chat

`Chat` EXTENDS `DiscordBot`. What is said is a number, so that echoes and repetitions
show; of a text there is whether it is fine, blocked or a command. `sendToChannel` runs
up to its first await: a fetch of the channel, of which several may be under way and end
in any order, or the request. Discord hands the bot every message of its channels, its
own included (`inbox`). A page is the draft of its text field, the answer it waits for
(`waiting`), the messages it shows and whether its list of users has been rendered,
which is what sends the nickname. A page keeps the last 100 messages
(`ChatContext.jsx:41`), in the model the last `MaxShown`; `received` is the history of
all it was sent.

The times of a bucket are in order, so what `withinRateLimit` filters out is the oldest
of them (`Recent`). Setting the presence is assumed not to fail, and the rovers that are
there before the bot logs in are in its first count. The bot's announcements in other
channels change nothing and are left out, as are the wording and length of texts.

### ControlOps, Controls

The keyboard and the gamepad are there in every layout (`App.jsx:190`); a phone's layouts
add the joystick and the buttons of the motors, the desktop's the settings. The layout
follows the window (`Rotate`): another one mounts its own panels, which start afresh,
and those that go send nothing. `user` is a bound: which of the keys, pads, thumbs and
buttons this user has, so that an instance need not multiply all of them.

Each input keeps the vector it sent last and sends only another one; the rover obeys
whoever spoke last (`driven`, `brushes`, of each rover). The rover of the page is three
variables, as a change reaches the page in three steps: `assigned` (the session),
`wired` (the closures that the effects give to the handlers) and `settled`
(`state.roverId`, whose change resets the keyboard). Handlers may run between them.
React ends the renderings of one change before the next session is rendered, so
`AssignRover` waits for `Settled`. Timers keep the closures they were armed with, as do
macros: `macros` are those that wait at a pause, each with the rover it began on.

The server passes a command on when `canDrive` says so (`commandService.js:46`,
`turnService.js:64`): whichever rover the session names, anybody may command a rover,
except in the turn of another. `granted` are the rovers that the page may command, and
changes at any time for those in `Contested` (`Permission`); on these other drivers, or
the server that stops the motors, may speak too (`OthersSpeak`, with `Leftovers` what
they leave the rover doing). The page learns of no refusal. Three histories say where it
did not have the last word: `wheelsLoose` and `brushesLoose` are the rovers to which
something else was said since, or was refused, or whose joystick or button was taken
away under the finger by the docked view or another layout; `oiRefused` those that the
server refused the last step of a macro. Every command of the page to the session's
rover that is passed on clears them.

Delays are not counted: a timer may fire any time after it is armed. `ControlOps` has
the real bindings, limits and speeds. The servo's and the song's limits are small in the
instances. A camera servo panel that no page imports (`CameraServoPanel`) is left out, as
are a phone's camera slider, the second pair of drive and dock buttons that the portrait
layout shows, and the tabs of the desktop, which may hide the settings.

The settings pages change the bindings (`keymap`) and the pad's mapping (`mapped`) while
keys are held and the pad is used. A binding that waits for its key (`capture`) takes it
in a listener of the capture phase, and React renders before the keyboard's own listener
runs, so `KeyDown` handles the event with the new keymap; the armed loops keep the old
one (`keymap` in `servoLoop` and `songLoop`). Which axis or button a control is mapped
to shows in what the pad then reads; "Clear all", inverting an axis and the speeds are
left out. `rebound` is history: the keys of a loop were changed while some key was held,
when a loop may outlast its key or miss it until all are released.

## Runs

| Run | Instance | Distinct states | Shows |
| --- | --- | --- | --- |
| `turns` | 3 clients, one an admin; turn 3 ticks, idle 2, 2 skips, 2 requests while turns are taken | 29,600 | below |
| `assignments` | 2 clients, one of them with both admin logins; 2 rovers, one of which may dock | 568,000 | below |
| `battery` | wait 3 ticks, 3 manual locks | 10,500 | below |
| `rover_link` | 2 connections, 2 commands, 2 messages in flight each way, 1 frame queued | 98,000 | below |
| `rover_stale_close` | the same | | a counterexample; see Findings |
| `roverd` | seek delay 3, charge timeout 2, retry cap 3, 2 samples, 2 texts, 2 connections | 209,000 | below |
| `video` | 2 connections, 4 requests, 4 changes of server or stream, 2 messages in flight each way | 461,000 | below |
| `controls` | 1 rover, contested; desktop and portrait; 3 users: a drive key with pad, joystick and a button, the vacuum's key with pad and 3 buttons, both keys with pad and settings; 1 key at a time, 1 mapping to change | 681,000 | below |
| `macros` | 2 rovers with different servos, one contested; desktop and portrait; 4 users: the macro's key with the buttons, the servo's key with a pad, and two with shift and a key it renames; 2 keys at a time, 1 binding to change, 1 macro at a pause | 1,444,000 | below |
| `cameras` | 1 camera, 3 views, 2 connections, 2 changes, limit of 2 subscriptions | 469,000 | below |
| `house` | 2 pages, 1 light, 3 events, 1 button pressed, 2 changes of the house or network | 1,191,000 | below |
| `chat` | 1 rover, 1 page that drives it and shows 1 message, 2 connections, 2 messages, 1 event, limit of 1 in a tick | 1,269,000 | below |

`turns`. `HolderIsQueued`: whoever may drive is in the queue and is the driver shown.
`TurnAlwaysEnds`: while somebody waits, the turn's timeout is pending and the driver has
acted or has an idle timeout. `TurnLength`: a turn lasts TURN_DURATION and as much again
per request made in it. `TurnsComeInOrder`: a timeout stops the motors and brings
everybody who waits one turn nearer (`Ahead` counts the turns before theirs), and nobody
is set back, but by one turn when a client joins, or when an admin seizes the turn or
the driver leaves. `OnlyIdlersAreSkipped`: a driver that acted is skipped as idle only
after somebody requested or released control, a timeout removes from the queue only a
driver that used up its skips, and a driver that used them up is out.
`ImplementsRotation`: the refinement. `NobodyStarves`: whoever queues gets the turn or
stops waiting.

`assignments`. The rover manager's drivers, the turn service's line, the assignment
service's assignments and the rooms of socket.io agree, and nobody waits and drives
(`DriversArePlaced`); nobody waits while a rover is free (`NobodyWaitsInVain`); a client
that disconnected is forgotten and one that was refused hears nothing
(`GoneMeansForgotten`); spectators hear every rover (`SpectatorsHear`); and no user is
dropped from both the assignments and the waiting list (`UsersStayPlaced`).

`battery`. A battery lock is always known to the manager, which alone can lift it
(`LockKnown`); an admin's lock is not lifted or taken over (`ManualLockStands`); a rover
unlocked after its charge is not locked again before it is low (`RelockNeedsLow`); and a
rover that has charged is unlocked (`ChargedIsUnlocked`).

`rover_link`. What clients are told of a command, ok or error, is what it came to on the
rover (`ToldIsTrue`); a rover known by one websocket only is listed until that closes
(`AloneIsListed`); a rover that closes its connection leaves the list
(`ClosedIsUnlisted`); a command on a connection that lasts is taken, and its clients are
told unless it made no sense (`CommandsAreAnswered`); and on a connection that lasts,
forwarders of earlier ones end (`OldForwardersEnd`). Deadlock is not checked here, as
the bound on connections brings the model to a stop that the system does not have. The
same is true of the bounds of `controls`, `macros`, `cameras`, `house` and `chat`, or of
their users.

`roverd`. The disconnect timer runs only while the server is lost and is never early
(`NeverEarly`); a rover that has lost the server for good has sought its dock
(`OutageSeeks`); one that stays idle on its dock seeks it again and again
(`IdleIsSought`); a full speech queue does not stay full, connected or not
(`TtsBusyEnds`).

`video`. A connected page that wants the rover has the answer to its latest request or
will get it (`NoRequestLost`), and a tile whose token stays good plays in the end,
however often its player was refused or broken off before (`GrantedPlays`).

`controls`. When every input is at rest the rover stands, whatever the inputs did to one
another, and though the mapping, the rover and the layout change in the middle of it
(`ControlsInvariant`); and a user that has let go of everything for good has a rover that
stands (`StopsInTheEnd`). Both speak of a rover about which the page had the last word.

`macros`. A rover is told only angles within its own limits, even by the loop armed for
another (`ControlsInvariant`, which here has servos); no key is taken for held that was
released, whatever shift, focus and window did, and servo and song loops run just while
their keys are held, though keys are given other bindings in the middle of it
(`KeysInvariant`); no rover is left in the middle of the drive sequence, unless the
server refused the rest of it (`NobodyLeftSeeking`).

`cameras`. When nothing is in flight, the socket is subscribed just when the page shows
the panel and was not refused, and the two Maps of subscriptions agree
(`SubscriptionsFollow`); a camera that recovers is seen again by a page that stays
subscribed (`RecoveredPlays`).

`house`. A page to which nothing is on its way shows the mode, the lights and its own
role as they are, and the turn unless a delayed snapshot is pending, and there is always
just one way to the house: a connection, an attempt or a timer (`ShownIsCurrent`). A
page that stays comes to show all users, and the lights as they are in the house unless
a loss of the connection goes unnoticed for good (`EverybodyComesToSee`).

`chat`. What is said is published once, spoken once and posted in Discord once, nothing
that came from Discord goes back there, a page is sent everything while it is connected,
in the order it was published in, and shows the last of it, an answer finds its message
shown, and no more than the limit passes within any window (`SaidOnce`). The bot's presence
counts the rovers as they are (`PresenceIsTrue`). A page that stays connected gets its
nickname, and its panel stops waiting unless the answer was lost (`PageSettles`).

### Why the bounds are enough

Durations matter only by their order: with a turn of 3 and an idle timeout of 2 the
idle timeout comes before, with and (restarted by a departure) after the turn timeout.
Two skips make the first and the last skip different. Three drivers are the fewest for
which "the next of the queue" is neither the only other nor the first. Two clients and
two rovers give switches, contested turns, a locked rover beside a free one, and a
waiting client beside a driving one. Two connections are an old and a new one;
`RoverLink` was also checked once with three (safety with two commands, 1.07 million
states; liveness with one command, 159,000). The waits of `BatteryManager` and `Roverd`
are long enough to be interrupted at the start, in the middle and when due. Four
requests in `VideoSessions` are the first, one per reconnection and per change of mode
or roster, and one more; four changes allow a rover or a permission to come, go, come
back, and the stream to break.

The users of `controls` have, two or three at a time, everything that drives or turns
brushes: a drive key and one for the vacuum whose character changes with shift, a pad
that pulls the stick and a trigger, the joystick, and buttons that start, start another
and stop. Pairs are enough to overwrite one another, and one of each kind to be
forgotten. One rover is lost and given again; a second would differ only for what is sent
by closures, which is in `macros`. Two layouts, as the two of a phone have the same
panels. In `macros` a key or a pad starts each loop and each macro, the two servos have
limits of which one excludes the other's angles, and of the keys that shift renames one
has an alias and one has none; any of them may become the key that plays notes, while it
is held. The thumb moves so little that its smoothed position is one value: how far the
joystick is pulled changes nothing but the speed.

In `cameras` two changes take a camera away and bring it back, close and open a tab, or
enter and leave a mode; a limit of two is reached by a page that renders three times. In
`house` three events are a connection and two changes within the cooldown, or two
connections and a change; two changes of the network are a loss and a return. In `chat`
two messages fill the bucket and overflow it, or cross the bridge in both directions,
and the second takes the place of the first on a page that shows one; two connections
are an old and a new socket.

`MaxRestarts`, `MaxManual`, `MaxConns`, `MaxRuns`, `MaxFlight`, `MaxFrames`,
`MaxSamples`, `MaxSockets`, `MaxRequests`, `MaxChanges`, `MaxMacros`, `MaxEvents`,
`MaxCalls`, `MaxPresses`, `MaxSaid`, `MaxConnects` and `MaxHeld`, with `Users`,
`Contested`, `Layouts`, `Rebindable`, `NewKeys`, `Remappable` and `OneSetting` of
`Controls`, bound what the environment does and what is in flight, and `MaxShown` is the
100 of the code; the theorems below hold for every value of them.

### Fairness

Safety is checked for every behaviour. Liveness assumes only what runs by itself:
timeouts and time (`TurnWatch`: Node's event loop does not block), sensor frames of a
connected rover and time (`BatteryManager`), the goroutines of roverd, the event loop of
the server, and frames (`RoverLink`, `Roverd`), reconnection attempts, rendering, timers
and requests of the page, and the server's periodic sync (`VideoSessions`), the polling
with its fetches, which have a timeout, and the page's messages and renderings
(`RoomCameras`), the server's timers, the ends of attempts to connect, the reports of a
connection that stands and the service calls of the house (`SessionSync`; not that a
lost connection is noticed), messages on a connection that lasts (`Chat`), and the
page's animation frames, effects and timers (`Controls`). Clients, admins, users' hands,
the network, Discord and restarts are never assumed to do anything. Strong fairness
appears in `RoverLink` for the steps `ReadCommand` and `ForwardFrame`, where several
goroutines wait on one channel or one connection's write lock: Go serves the waiting in
order.

## Findings

`rover_stale_close`: the close of a rover's old websocket, when it comes after the
hello of the new one, takes the live rover off the list with its drivers
(`roverConnectionService.js:58`), against `docs/pi-deployment.md:112`.

### Known behaviours

What the models also show, and what the properties therefore say with care. None has a
run of its own.

* Turns. Every request for control restarts the turn of whoever drives
  (`turnService.js:26`, `:99`), so a turn may exceed the minute of
  `plans/authentication_and_access_control.md:9`; hence the form of `TurnLength`. A
  driver who has acted may be skipped as idle after another leaves or asks for control
  (`turnService.js:40`, against the comment at `:153`). An admin's forced takeover does
  not stop the motors (`turnService.js:23`, against
  `plans/authentication_and_access_control.md:11`). When the driver leaves, its place is
  forgotten first, so the head of the queue is next and not the one after it
  (`turnService.js:32`, `:206`), and whoever was queued after it waits longer.
* Battery. A rover locked for charging that reconnects is unlocked and stays so while it
  charges (`batteryManager.js:141`, against `plans/battery_manager_outline.md:17`).
* Rooms. A driver that becomes a spectator joins all rooms, then leaves its rover's,
  until the page asks for all (`useSpectatorMode.js:19`). Drivers of a rover that goes
  stay in its room and hear it when it returns.
* Video and cameras. A spectator's page that reconnects asks for video before it is a
  spectator again, is refused, and does not repeat the request (`useVideoRequests.js:102`,
  against `plans/spectate_mode_overhaul_outline.md:20`); likewise for the room cameras
  (`useRoomCameraSnapshots.js:96`).
* Server. A client that is refused in lockdown stays in `socketRefs` and in the waiting
  list, and may be granted a rover when the lockdown is over (`lockdownGuard.js:25`,
  `authService.js:38`, `assignmentService.js:121`).
* Controls. The character that a key has with shift is brought back only for letters and
  the punctuation of `KEY_ALIASES` (`keymapUtils.js:1`); of another key that is pressed
  with shift and released without it, or the other way round, a token stays held. The
  digits are such keys, and the settings let them be bound (`keymapUtils.js:40`); hence
  the exception in `NoPhantomKey`. The docked view (`MobileControls.jsx:208`) and a phone
  that is turned (`App.jsx:28`) take the joystick or a button away under the finger and
  leave the last command standing. Outside contested turns commands in flight still reach
  a rover that the session has just lost; in the turn of another everything is refused
  (`commandService.js:46`), the stop and the end of the drive sequence included, so the
  rover moves on, or seeks its dock, until somebody says otherwise.
* Lights. A toggle is computed from the last report (`homeAssistantService.js:217`), so
  two pages that press "Turn on" at the same time may turn a light on and off. A websocket
  to Home Assistant that is half open is not noticed (`homeAssistantService.js:186`), and
  the lights stay as they were.
* Chat. Text typed while a message is being sent is erased by its answer
  (`ChatPanel.jsx:97`); an answer lost with the connection leaves the button disabled
  until the page is loaded again; a page shows the last 100 messages
  (`ChatContext.jsx:41`); a message written offline goes out before the
  nickname; a new connection has a new rate limit; posts before the bot's login are
  dropped, and posts that wait for the channel may change their order.
* Discord. The first change of mode is not announced (`discordBotService.js:39`, `:279`).
* Commands. A command that roverd cannot parse, or that has no id, is skipped without an
  acknowledgement (`wsclient.go:106`), and its client is never told; one whose dispatch
  fails is acknowledged with "error". A command whose rover goes before the
  acknowledgement stays in `pendingCommands` (`commandService.js:16`).
* roverd. `seekIssued` is set before the write that may fail (`wsclient.go:384`); frames
  that wait while the server is lost are sent later with a new timestamp (`:281`).

## Proofs

The theorems hold for all values of the constants that satisfy the named assumptions in
the modules, and nothing else is assumed. Most say that durations and bounds are
naturals, positive where the module says so, and that null values are not among what
they stand beside. Two say more:

* `ServerConstants` and `RoomConstants`: the clients and the cameras are finitely many.
  A driver is placed on the rover with the fewest drivers, and the cameras are walked
  through one after another.
* `ControlsConstants`: a servo's limits are in order, which `pi/roverd/config.go:262`
  requires before roverd announces them.

What is proved of each component, and along which argument:

* Turns (`TurnProofs`). `TurnInvariant`: `IInv` is inductive. The checked invariants are
  not inductive alone: that the holder is queued after a departure needs that nobody is
  queued twice (`NoDuplicates`); that a turn always has a timeout needs that timeouts
  exist only in contested turns (`TimeoutsOnlyInTurns`) and that outside them the first
  drives (`FirstDrives`); the bound on skips needs that only queued clients have any
  (`SkipsOfQueued`). Lemmas per operator of `TurnOps` say what each preserves, and the
  step proof has a case per action. From it `TypeCorrect`, `HolderCorrect`, `TurnsEnd`
  and `TimeoutsCorrect` (the deadlines on screen are those of the pending timeouts).
  `TurnServiceRotates`: each call of the service is a `Join`, `Seize`, `Leave`, `Pass`,
  `Restart` or `Disband` of the rotation or a stutter; the invariant gives that the
  holder is in the line. `WatchInvariant` is inductive over the history variables: it
  adds to `IInv` that a driver who has acted undisturbed has no idle timeout, and the
  bound on the time held. From it `TurnsAreBounded`, `TimeoutsStop` and
  `OnlyIdlersSkipped`. `EverybodyComesNearer` is the safety part of `NobodyStarves`, for
  every number of clients: lemmas on the arithmetic of a place in a line that wraps round
  (`PassIsNearer`, `JoinIsBehind`, `LeaveIsNoFurther`), on where a join and a departure
  put each client (`PlaceAfterJoin`, `PlaceAfterLeave`), and on each operator
  (`PassesInOrder`, `OthersKeepOrder`); the step proof has a case per action.
* The server's bookkeeping (`RoverServerProofs`). `Bookkeeping`: `ServerInv` is
  inductive. `DriversArePlaced` compares the services between steps only, while a
  handler runs one service ahead of the others, so `Consistent(w, known, placing)` says
  of any state `w` in the middle of one what still agrees: `placing` are the clients that
  have a rover and no entry in `assignments` yet, `known` those that `socketRefs` has or
  is about to have. Each function of the services keeps `Consistent`, and each handler
  returns it with `placing` empty. To the checked properties it adds that queue and
  drivers of a rover are the same clients and the holder is one of them (`Queued`), that
  no Map or Set has an entry twice (`Entries`), that unknown clients are nowhere
  (`Known`), and that only users wait (`RoleFits`). From it `DriversArePlacedAlways`,
  `NobodyWaitsInVainEver`, `GoneAreForgotten`, and the action properties
  `UsersAlwaysStayPlaced` and `SpectatorsAlwaysHear`. The loops over waiting clients,
  assignments and rovers are folds. Induction is out of the prover's reach, so a loop is
  cut into the states between its rounds, and a lemma takes the first round after which
  the invariant would fail, which a well-founded order has, to a contradiction.
* A rover's websockets (`RoverProofs`). `LinkInv` adds to the three properties that
  connections are numbered in the order they are dialled (a new one is not known yet),
  that a command is in flight at most once and not after the rover took it (`TakenOnce`),
  that an acknowledgement in flight says what its command came to, and that clashes are
  noted on both sides. From it `RecordStaysOpen`, `AcksAreTrue` and `AloneStaysListed`.
* roverd (`RoverProofs`). `RoverdInv`, the types and `NeverEarly`, is inductive; that the
  timer and the outage cannot part is a matter of `MarkConnected` and `MarkDisconnected`,
  each a lemma. From it `TimerNeverEarly`.
* The battery's lock (`RoverProofs`). `LockInv` is inductive: `LockKnown` needs
  `ManualKnown`, as an admin's lock must have cleared what the manager believes it holds.
  From it `LockIsKnown` and the action property `ManualLockIsKept`. `RelockIsEarned`
  needs `WarnedInv`: while the manager has warned, the rover has been low since it was
  last unlocked after a charge.
* Video (`VideoProofs`). `NoRequestLost` is inductive together with its types, since it
  speaks of what is in flight both ways: each step either keeps the request or its answer
  where it is, moves it on, or leaves a page that has still to render.
* Room cameras (`CameraProofs`). `SubscriptionsFollow` speaks of quiet states only.
  `RequestsLead` says of every state that there is a way through the requests in flight,
  a function that begins with what the server holds of the socket, follows each request
  in its order and ends with what the page has rendered; no request to subscribe finds
  the socket subscribed. A new request extends the way, one that arrives shortens it, a
  reconnection starts another. That a new subscriber's frames are messages of the right
  type needs that `FlattenSeq` is what its recursive definition says, by least
  counterexample as above. From it `SubscriptionsAlwaysFollow`.
* Snapshots (`SessionSyncProofs`). What a page shows says little of what is on its way to
  it, so `ShownIsCurrent` is not inductive: `LastSnapshotIsCurrent` says of every page
  that the last snapshot it was sent, on its way or arrived, agrees with the server up to
  a pending delayed sync; each action then either sends another or changes nothing that
  the page is promised. From it `PagesShowTheState`.
* Discord (`ChatProofs`). `LastPresenceIsTrue`: the last presence asked for, on its way or
  shown, counts the rovers as they are; every change of them asks for another. From it
  `PresenceStaysTrue`.
* The chat (`ChatProofs`). `EachNumberIsSaidOnce`: `SaidInv` is inductive. That nothing is
  published twice needs to know of each number where it is: in the text field of one page
  or waited for by it, or posted by a person in Discord, and then not in the log
  (`NumbersInv`); of a panel that waits at most one request or one answer is on its way,
  and before the answer "sent" its message (`AsksOnce`, `AnsweredOnce`). On the bridge a
  post is in one of `fetching`, `sending` and `bridge`, and was said on a page
  (`BridgeInv`). `PagesFollow` is inductive alone, by lemmas about a sequence of which
  some elements are messages (`MessageComes`, `OtherIsTaken`, `MessageIsShown`,
  `RestIsLost`). `RateInv` compares the requests that got through with what the bucket
  counts, from the newest: each of the first is no younger than its counterpart
  (`Within`), so what passes in a window is no more than the bucket lets through. From it
  `SaidOnceAlways`.
* The page's controls (`ControlsProofs`). `ControlsHold`: `ControlsInv` is inductive.
  That the rover stands when all is at rest needs, of the drive and of the brushes
  (`DriveInv`, `BrushInv`), what holds while a change of rover is half way, for which
  the effects of one change end before the next begins (`HandoverInv`), and what each
  input still asks for unless the rover is in `wheelsLoose` or `brushesLoose`. That angles
  fit needs `CameraInv`, which only a rover with a servo's clamp can satisfy. That loops
  run just while their keys are held needs that an armed loop, which keeps the keymap it
  was armed with, agrees with the page on its own keys while `rebound` is false
  (`LoopInv`). `NobodyEverLeftSeeking` needs `MacroInv`: a macro that waits is the drive
  sequence before one of its last two commands, and a rover that is not in `oiRefused`
  did what the macro said last. `NoKeyIsPhantom` adds to `LoopInv` that the tokens are
  those of held keys, which is inductive alone.

Only model-checked: the liveness properties, which the prover does not reach
(`NobodyStarves`, `ChargedIsUnlocked`, `ClosedIsUnlisted`, `CommandsAreAnswered`,
`OldForwardersEnd`, `OutageSeeks`, `IdleIsSought`, `TtsBusyEnds`, `GrantedPlays`,
`StopsInTheEnd`, `RecoveredPlays`, `EverybodyComesToSee`,
`PageSettles`). Every invariant and action property that a passing run checks is a
theorem. The values that pure operators compute (`ControlOps`' arithmetic of speeds, for
one) are bounded by lemmas where an invariant needs it, and not otherwise.

## Not modelled, and the plan

Left out for good: rendering, logging, alerts, the wording of messages, the byte layout
of sensor frames, GPIO, systemd, and the configuration of the media server: they keep no
state that another part acts on, or are third-party programs.

In order:

1. The sensor watchdog and `forwardEvents` in `Roverd`, and the servo and night vision of
   a rover.
2. The audio stream and admins in `VideoSessions`.
