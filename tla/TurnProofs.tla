----------------------------- MODULE TurnProofs -----------------------------
(***************************************************************************)
(* What the turn service guarantees for every set of clients and every     *)
(* choice of durations, in three parts: TurnService's inductive invariant, *)
(* with the queue, the holder and the timers; that it implements           *)
(* TurnRotation; and what its timeouts do to a turn over time (TurnWatch). *)
(* The lemmas are about one rover's record under a mode; the theorems      *)
(* apply them to the steps of the specification.                           *)
(***************************************************************************)
EXTENDS TurnRefinement, TurnWatch, TLAPS

USE TurnConstants, AdminsAssumption

-----------------------------------------------------------------------------
(* The queue.                                                              *)

Distinct(q) == \A i, j \in DOMAIN q : q[i] = q[j] => i = j

\* Leaving the queue takes out that client only and keeps the order.
LEMMA WithoutQueue ==
    ASSUME NEW q \in Seq(Sockets), NEW s \in Sockets, Distinct(q)
    PROVE  /\ Without(q, s) \in Seq(Sockets)
           /\ Distinct(Without(q, s))
           /\ Range(Without(q, s)) = Range(q) \ {s}
           /\ s \in Range(q) => Len(Without(q, s)) = Len(q) - 1
           /\ s \notin Range(q) => Without(q, s) = q
           /\ q # <<>> /\ q[1] # s => Without(q, s) # <<>> /\ Without(q, s)[1] = q[1]
<1> DEFINE p == Position(q, s)
           w == [i \in 1 .. Len(q) - 1 |-> IF i < p THEN q[i] ELSE q[i + 1]]
<1>1. CASE s \notin Range(q)
  <2>1. p = 0  BY <1>1 DEF Position, Range
  <2>2. Without(q, s) = q  BY <2>1 DEF Without
  <2>. QED  BY <1>1, <2>2
<1>2. CASE s \in Range(q)
  <2>1. p \in 1 .. Len(q) /\ q[p] = s  BY <1>2 DEF Position, Range
  <2>2. Without(q, s) = w  BY <2>1 DEF Without
  <2>3. Len(q) - 1 \in Nat  BY <2>1
  <2> HIDE DEF p
  <2>4. \A i \in 1 .. Len(q) - 1 : w[i] = q[IF i < p THEN i ELSE i + 1]
    OBVIOUS
  <2>5. w \in Seq(Sockets) /\ Len(w) = Len(q) - 1 /\ DOMAIN w = 1 .. Len(q) - 1
    <3>1. w \in [1 .. Len(q) - 1 -> Sockets]  BY <2>1
    <3>. QED  BY <3>1, <2>3
  <2> HIDE DEF w
  <2>6. Distinct(w)
    <3> SUFFICES ASSUME NEW i \in 1 .. Len(q) - 1, NEW j \in 1 .. Len(q) - 1, w[i] = w[j]
                 PROVE  i = j
        BY <2>5 DEF Distinct
    <3>. QED  BY <2>1, <2>4 DEF Distinct
  <2>7. Range(w) = Range(q) \ {s}
    <3>1. ASSUME NEW i \in 1 .. Len(q) - 1 PROVE w[i] \in Range(q) \ {s}
      BY <2>1, <2>4 DEF Distinct, Range
    <3>2. ASSUME NEW k \in 1 .. Len(q), q[k] # s PROVE q[k] \in Range(w)
      <4>1. k < p => w[k] = q[k]  BY <2>1, <2>4
      <4>2. k > p => w[k - 1] = q[k]  BY <2>1, <2>4
      <4>3. k # p  BY <2>1, <3>2
      <4>. QED  BY <2>1, <2>5, <4>1, <4>2, <4>3 DEF Range
    <3>. QED  BY <2>5, <3>1, <3>2 DEF Range
  <2>8. q # <<>> /\ q[1] # s => w # <<>> /\ w[1] = q[1]
    BY <2>1, <2>4, <2>5
  <2>. QED  BY <1>2, <2>2, <2>5, <2>6, <2>7, <2>8
<1>. QED  BY <1>1, <1>2

\* Joining the queue puts a new client at its end.
LEMMA JoinQueue ==
    ASSUME NEW q \in Seq(Sockets), NEW s \in Sockets, Distinct(q)
    PROVE  LET e == IF s \in Range(q) THEN q ELSE Append(q, s)
           IN  /\ e \in Seq(Sockets) /\ e # <<>>
               /\ Distinct(e)
               /\ Range(e) = Range(q) \cup {s}
               /\ q # <<>> => e[1] = q[1]
               /\ Len(e) \in {Len(q), Len(q) + 1}
<1>1. CASE s \in Range(q)  BY <1>1 DEF Range
<1>2. CASE s \notin Range(q)
  <2> DEFINE e == Append(q, s)
  <2>1. /\ e \in Seq(Sockets) /\ Len(e) = Len(q) + 1
        /\ \A i \in 1 .. Len(q) : e[i] = q[i]
        /\ e[Len(q) + 1] = s
    OBVIOUS
  <2> HIDE DEF e
  <2>2. Distinct(e)  BY <2>1, <1>2 DEF Distinct, Range
  <2>3. Range(e) = Range(q) \cup {s}
    <3>1. Range(e) \subseteq Range(q) \cup {s}  BY <2>1 DEF Range
    <3>2. Range(q) \subseteq Range(e)
      <4> SUFFICES ASSUME NEW i \in 1 .. Len(q) PROVE q[i] \in Range(e)
          BY DEF Range
      <4>. QED  BY <2>1 DEF Range
    <3>3. s \in Range(e)  BY <2>1 DEF Range
    <3>. QED  BY <3>1, <3>2, <3>3
  <2>. QED  BY <1>2, <2>1, <2>2, <2>3 DEF e
<1>. QED  BY <1>1, <1>2

-----------------------------------------------------------------------------
(* One rover's record.                                                     *)

SkipsOK(u) == \A c \in Sockets : u.skips[c] > 0 => /\ c \in Range(u.queue)
                                                  /\ u.skips[c] < MaxIdleSkips

\* The inductive invariant, as a predicate of a mode and a record.
Sound(m, u) ==
    /\ u \in TurnState
    /\ Distinct(u.queue)
    /\ SkipsOK(u)
    /\ IF u.queue = <<>> THEN u.active = NoOne
       ELSE u.active = u.current /\ u.current \in Range(u.queue)
    /\ Contested(m, u) => u.timer # Off /\ (u.idleTimer # Off \/ u.disarmed)
    /\ u.deadline = u.timer /\ u.idleDeadline = u.idleTimer
    /\ u.idleTimer # Off => Contested(m, u) /\ ~u.disarmed
    /\ u.timer # Off => m = "turns"
    /\ m # "turns" /\ u.queue # <<>> => u.current = u.queue[1]
    /\ ~u.known => u.queue = <<>> /\ u.timer = Off /\ u.current = NoOne

\* What the operations rely on while they work on the record.
Workable(u) == /\ u \in TurnState /\ u.known
               /\ Distinct(u.queue) /\ SkipsOK(u)

LEMMA SettleSound ==
    ASSUME NEW m \in Modes, NEW u, Workable(u), ~Contested(m, u)
    PROVE  Sound(m, Settle(u))
<1> DEFINE v == Settle(u)
<1>1. /\ v = [u EXCEPT !.timer = Off, !.deadline = Off, !.idleTimer = Off,
                       !.idleDeadline = Off, !.disarmed = FALSE,
                       !.current = First(u), !.active = First(u)]
  BY DEF Settle, TimersOff, First, Workable, TurnState
<1>2. First(u) \in Sockets \cup {NoOne}
      /\ (u.queue # <<>> => First(u) = u.queue[1] /\ u.queue[1] \in Range(u.queue))
      /\ (u.queue = <<>> => First(u) = NoOne)
  BY DEF First, Workable, TurnState, Range
<1>3. v \in TurnState /\ v.queue = u.queue /\ v.known /\ v.skips = u.skips
      /\ v.current = First(u) /\ v.active = First(u)
      /\ v.timer = Off /\ v.deadline = Off /\ v.idleTimer = Off /\ v.idleDeadline = Off
  BY <1>1, <1>2 DEF Workable, TurnState, Countdown, Off
<1>. HIDE DEF v
<1>4. ~Contested(m, v)  BY <1>3 DEF Contested
<1>. QED  BY <1>2, <1>3, <1>4 DEF Sound, SkipsOK, Workable, v

LEMMA BeginTurnSound ==
    ASSUME NEW m \in Modes, NEW u, Workable(u), Contested(m, u),
           NEW s \in Range(u.queue)
    PROVE  /\ Sound(m, BeginTurn(m, u, s))
           /\ BeginTurn(m, u, s).queue = u.queue
           /\ BeginTurn(m, u, s).active = s
<1> DEFINE v == BeginTurn(m, u, s)
<1>0. s \in Sockets /\ s # NoOne /\ u.queue # <<>>
  BY DEF Range, Workable, TurnState
<1>1. v = [u EXCEPT !.current = s, !.active = s, !.disarmed = FALSE,
                    !.timer = TurnDuration, !.deadline = TurnDuration,
                    !.idleTimer = IdleTimeout, !.idleDeadline = IdleTimeout]
  BY <1>0 DEF BeginTurn, ScheduleIdleTimer, ScheduleNextTurn, Contested, Workable, TurnState
<1>2. v \in TurnState /\ v.queue = u.queue /\ v.known /\ v.skips = u.skips
      /\ v.current = s /\ v.active = s /\ v.disarmed = FALSE
      /\ v.timer = TurnDuration /\ v.deadline = TurnDuration
      /\ v.idleTimer = IdleTimeout /\ v.idleDeadline = IdleTimeout
  <2>1. TurnDuration \in Countdown(TurnDuration) /\ IdleTimeout \in Countdown(IdleTimeout)
    BY DEF Countdown
  <2>2. u \in TurnState /\ u.known  BY DEF Workable
  <2>. HIDE DEF v
  <2>3. v \in TurnState  BY <1>0, <1>1, <2>1, <2>2 DEF TurnState
  <2>. QED  BY <1>1, <2>2, <2>3 DEF TurnState
<1>. HIDE DEF v
<1>3. Contested(m, v) /\ m = "turns"  BY <1>2 DEF Contested
<1>. QED  BY <1>0, <1>2, <1>3 DEF Sound, SkipsOK, Workable, Off, v

LEMMA SyncStateSound ==
    ASSUME NEW m \in Modes, NEW u, Workable(u),
           Contested(m, u) => u.current \in Range(u.queue) \cup {NoOne}
    PROVE  Sound(m, SyncState(m, u))
<1>1. CASE Contested(m, u)
  <2>1. First(u) \in Range(u.queue)
    BY <1>1 DEF Contested, First, Range, Workable, TurnState
  <2>. QED  BY <1>1, <2>1, BeginTurnSound DEF SyncState
<1>2. CASE ~Contested(m, u)  BY <1>2, SettleSound DEF SyncState
<1>. QED  BY <1>1, <1>2

LEMMA NextInTurnQueued ==
    ASSUME NEW m \in Modes, NEW u, Workable(u), Contested(m, u)
    PROVE  NextInTurn(u) \in Range(u.queue)
<1>1. Position(u.queue, u.current) \in 0 .. Len(u.queue)
  BY DEF Position, Workable, TurnState
<1>2. (Position(u.queue, u.current) % Len(u.queue)) + 1 \in 1 .. Len(u.queue)
  <2> DEFINE n == Len(u.queue)
             p == Position(u.queue, u.current)
  <2>1. n \in Nat \ {0} /\ p \in Nat  BY <1>1 DEF Contested, Workable, TurnState
  <2> HIDE DEF n, p
  <2>2. p % n \in 0 .. n - 1  BY <2>1
  <2>. QED  BY <2>1, <2>2 DEF n, p
<1>. QED  BY <1>2 DEF NextInTurn, Range, Workable, TurnState

LEMMA StopRoverSound ==
    ASSUME NEW m \in Modes, NEW u, Sound(m, u)
    PROVE  Sound(m, StopRover(u))
  BY DEF StopRover, Sound, TurnState, SkipsOK, Contested

LEMMA AdvanceTurnSound ==
    ASSUME NEW m \in Modes, NEW u, Workable(u)
    PROVE  Sound(m, AdvanceTurn(m, u))
<1>1. CASE u.queue = <<>>
  <2> DEFINE v == StopRover([TimersOff(u) EXCEPT !.active = NoOne])
  <2>1. AdvanceTurn(m, u) = v
    BY <1>1 DEF AdvanceTurn, Workable, Contested
  <2>2. v = [u EXCEPT !.timer = Off, !.deadline = Off, !.idleTimer = Off,
                      !.idleDeadline = Off, !.disarmed = FALSE,
                      !.active = NoOne, !.moving = FALSE]
    BY DEF TimersOff, StopRover, Workable, TurnState
  <2>3. v \in TurnState /\ v.queue = <<>> /\ v.known /\ v.skips = u.skips
        /\ v.active = NoOne /\ v.timer = Off /\ v.deadline = Off
        /\ v.idleTimer = Off /\ v.idleDeadline = Off
    <3>. HIDE DEF v
    <3>1. u \in TurnState /\ u.known /\ u.queue = <<>>
      BY <1>1 DEF Workable
    <3>2. v \in TurnState
      BY <2>2, <3>1 DEF TurnState, Countdown
    <3>. QED  BY <2>2, <3>1, <3>2 DEF TurnState
  <2>. HIDE DEF v
  <2>4. ~Contested(m, v)  BY <2>3 DEF Contested
  <2>5. Distinct(v.queue) /\ SkipsOK(v)  BY <1>1, <2>3 DEF Workable, SkipsOK
  <2>. QED  BY <2>1, <2>3, <2>4, <2>5 DEF Sound
<1>2. CASE u.queue # <<>> /\ ~Contested(m, u)
  BY <1>2, SettleSound DEF AdvanceTurn, Workable
<1>3. CASE Contested(m, u)
  <2>1. u.queue # <<>>  BY <1>3 DEF Contested
  <2>2. AdvanceTurn(m, u) = StopRover(BeginTurn(m, u, NextInTurn(u)))
    BY <1>3, <2>1 DEF AdvanceTurn, Workable
  <2>. QED  BY <1>3, <2>2, NextInTurnQueued, BeginTurnSound, StopRoverSound
<1>. QED  BY <1>1, <1>2, <1>3

LEMMA DriverAddedSound ==
    ASSUME NEW m \in Modes, NEW u, Sound(m, u), NEW s \in Sockets, NEW force \in BOOLEAN
    PROVE  Sound(m, DriverAdded(m, u, s, force))
<1> DEFINE e == IF s \in Range(u.queue) THEN u.queue ELSE Append(u.queue, s)
           v == [u EXCEPT !.known = TRUE, !.queue = e,
                          !.current = IF @ = NoOne \/ force THEN s ELSE @]
<1>1. /\ e \in Seq(Sockets) /\ Distinct(e) /\ Range(e) = Range(u.queue) \cup {s}
      /\ Len(e) \in {Len(u.queue), Len(u.queue) + 1}
  BY JoinQueue DEF Sound, TurnState
<1>2. DriverAdded(m, u, s, force) = SyncState(m, v)
  BY DEF DriverAdded
<1>. HIDE DEF e
<1>3. v \in TurnState /\ v.known /\ v.queue = e /\ v.skips = u.skips
      /\ v.current \in {u.current, s}
  BY <1>1 DEF Sound, TurnState
<1>. HIDE DEF v
<1>4. Workable(v)  BY <1>1, <1>3 DEF Workable, SkipsOK, Sound
<1>5. Contested(m, v) => v.current \in Range(v.queue)
  <2>1. Contested(m, v) => Len(u.queue) > 0
    BY <1>1, <1>3 DEF Contested, Sound, TurnState
  <2>2. Contested(m, v) => u.current \in Range(u.queue)
    BY <2>1 DEF Sound, TurnState
  <2>. QED  BY <1>1, <1>3, <2>2
<1>. QED  BY <1>2, <1>4, <1>5, SyncStateSound

\* The driver whose turn it is leaves, or is removed for its idle skips: its
\* own count is the one that may have reached the limit.
LEMMA RemoveCurrentSound ==
    ASSUME NEW m \in Modes, NEW u, u \in TurnState, u.known, Distinct(u.queue),
           NEW s \in Sockets, u.current = s,
           \A c \in Sockets \ {s} : u.skips[c] > 0 =>
                /\ c \in Range(u.queue) /\ u.skips[c] < MaxIdleSkips
    PROVE  Sound(m, DriverRemoved(m, u, s))
<1> DEFINE w == Without(u.queue, s)
           k == [u.skips EXCEPT ![s] = 0]
           v == StopRover([u EXCEPT !.queue = w, !.skips[s] = 0, !.disarmed = FALSE])
<1>0. k \in [Sockets -> 0 .. MaxIdleSkips] /\ k[s] = 0
      /\ \A c \in Sockets \ {s} : k[c] = u.skips[c]
  BY DEF TurnState
<1>1. w \in Seq(Sockets) /\ Distinct(w) /\ Range(w) = Range(u.queue) \ {s}
  BY WithoutQueue DEF TurnState
<1>2. DriverRemoved(m, u, s) = AdvanceTurn(m, v)
  BY DEF DriverRemoved
<1>. HIDE DEF w
<1>3. v = [u EXCEPT !.queue = w, !.skips = k, !.disarmed = FALSE, !.moving = FALSE]
  BY DEF StopRover, TurnState
<1>. HIDE DEF k, v
<1>4. v \in TurnState /\ v.known /\ v.queue = w /\ v.skips = k
  BY <1>0, <1>1, <1>3 DEF TurnState
<1>5. SkipsOK(v)  BY <1>0, <1>1, <1>4 DEF SkipsOK
<1>. QED  BY <1>1, <1>2, <1>4, <1>5, AdvanceTurnSound DEF Workable

LEMMA RemoveOtherSound ==
    ASSUME NEW m \in Modes, NEW u, Sound(m, u), u.known,
           NEW s \in Sockets, u.current # s
    PROVE  Sound(m, DriverRemoved(m, u, s))
<1> DEFINE w    == Without(u.queue, s)
           k    == [u.skips EXCEPT ![s] = 0]
           left == [u EXCEPT !.queue = w, !.skips[s] = 0, !.disarmed = FALSE]
           idle == IF Contested(m, left) THEN IdleTimeout ELSE Off
           v    == [left EXCEPT !.idleTimer = idle, !.idleDeadline = idle]
<1>1. /\ w \in Seq(Sockets) /\ Distinct(w) /\ Range(w) = Range(u.queue) \ {s}
      /\ Len(w) <= Len(u.queue)
      /\ u.queue = <<>> => w = <<>>
      /\ u.queue # <<>> => /\ w # <<>> /\ u.current \in Range(w)
                           /\ u.queue[1] # s => w[1] = u.queue[1]
  <2>1. u.queue \in Seq(Sockets) /\ Distinct(u.queue)
    BY DEF Sound, TurnState
  <2>2. w \in Seq(Sockets) /\ Distinct(w) /\ Range(w) = Range(u.queue) \ {s}
        /\ (s \in Range(u.queue) => Len(w) = Len(u.queue) - 1)
        /\ (s \notin Range(u.queue) => w = u.queue)
        /\ (u.queue # <<>> /\ u.queue[1] # s => w # <<>> /\ w[1] = u.queue[1])
    BY <2>1, WithoutQueue
  <2>. HIDE DEF w
  <2>3. u.queue # <<>> => u.current \in Range(w)  BY <2>2 DEF Sound
  <2>4. u.queue # <<>> => w # <<>>  BY <2>3 DEF Range
  <2>5. u.queue = <<>> => w = <<>>  BY <2>2 DEF Range
  <2>. QED  BY <2>1, <2>2, <2>3, <2>4, <2>5
<1>. HIDE DEF w
<1>2. left \in TurnState /\ left.known /\ left.queue = w
      /\ left.skips = k /\ left.disarmed = FALSE
      /\ left.current = u.current /\ left.active = u.active
      /\ left.timer = u.timer /\ left.deadline = u.deadline
      /\ k[s] = 0 /\ \A c \in Sockets \ {s} : k[c] = u.skips[c]
  <2>1. u \in TurnState  BY DEF Sound
  <2>2. k \in [Sockets -> 0 .. MaxIdleSkips] /\ k[s] = 0
        /\ \A c \in Sockets \ {s} : k[c] = u.skips[c]
    BY <2>1 DEF TurnState
  <2>3. left = [u EXCEPT !.queue = w, !.skips = k, !.disarmed = FALSE]
    BY <2>1 DEF TurnState
  <2>. HIDE DEF k, left
  <2>4. left \in TurnState  BY <1>1, <2>1, <2>2, <2>3 DEF TurnState
  <2>. QED  BY <2>1, <2>2, <2>3, <2>4 DEF TurnState
<1>. HIDE DEF left, k
<1>3. Contested(m, left) => Contested(m, u) /\ left.current # NoOne
  <2>1. Contested(m, left) => u.queue # <<>>  BY <1>1, <1>2 DEF Contested
  <2>2. Contested(m, left) => Contested(m, u)
    BY <1>1, <1>2 DEF Contested, Sound, TurnState
  <2>3. u.queue # <<>> => u.current \in Sockets  BY DEF Sound, TurnState, Range
  <2>. QED  BY <1>2, <2>1, <2>2, <2>3
<1>4. DriverRemoved(m, u, s) = v
  <2>1. DriverRemoved(m, u, s) = ScheduleIdleTimer(m, left)
    BY DEF DriverRemoved, left, w
  <2>2. ScheduleIdleTimer(m, left) = v
    BY <1>2, <1>3 DEF ScheduleIdleTimer
  <2>. QED  BY <2>1, <2>2
<1>5. idle \in Countdown(IdleTimeout)  BY DEF Countdown
<1>. HIDE DEF idle
<1>6. v \in TurnState /\ v.known /\ v.queue = w /\ v.skips = left.skips
      /\ v.disarmed = FALSE /\ v.current = u.current /\ v.active = u.active
      /\ v.timer = u.timer /\ v.deadline = u.deadline
      /\ v.idleTimer = idle /\ v.idleDeadline = idle
  BY <1>2, <1>5 DEF TurnState
<1>. HIDE DEF v
<1>7. Contested(m, v) <=> Contested(m, left)  BY <1>2, <1>6 DEF Contested
<1>8. SkipsOK(v)
  <2>1. SkipsOK(u)  BY DEF Sound
  <2>2. v.skips = k /\ Range(v.queue) = Range(u.queue) \ {s}  BY <1>1, <1>2, <1>6
  <2>. QED  BY <1>2, <2>1, <2>2 DEF SkipsOK
<1>9. IF v.queue = <<>> THEN v.active = NoOne
      ELSE v.active = v.current /\ v.current \in Range(v.queue)
  BY <1>1, <1>6 DEF Sound
<1>10. m # "turns" /\ v.queue # <<>> => v.current = v.queue[1]
  BY <1>1, <1>6 DEF Sound
<1>11. idle # Off <=> Contested(m, left)  BY DEF idle, Off
<1>12. /\ Contested(m, v) => v.timer # Off /\ v.idleTimer # Off
       /\ v.idleTimer # Off => Contested(m, v)
       /\ v.timer # Off => m = "turns"
       /\ v.deadline = v.timer /\ v.idleDeadline = v.idleTimer
  BY <1>3, <1>6, <1>7, <1>11 DEF Sound
<1>. QED  BY <1>1, <1>4, <1>6, <1>8, <1>9, <1>10, <1>12 DEF Sound

LEMMA DriverRemovedSound ==
    ASSUME NEW m \in Modes, NEW u, Sound(m, u), NEW s \in Sockets
    PROVE  Sound(m, DriverRemoved(m, u, s))
<1>1. CASE ~u.known  BY <1>1 DEF DriverRemoved
<1>2. CASE u.known /\ u.current = s
  BY <1>2, RemoveCurrentSound DEF Sound, SkipsOK
<1>3. CASE u.known /\ u.current # s  BY <1>3, RemoveOtherSound
<1>. QED  BY <1>1, <1>2, <1>3 DEF Sound, TurnState

LEMMA RecordActivitySound ==
    ASSUME NEW m \in Modes, NEW u, Sound(m, u), NEW s \in Sockets, NEW motion \in BOOLEAN
    PROVE  Sound(m, RecordActivity([u EXCEPT !.moving = motion], s))
<1> DEFINE d == [u EXCEPT !.moving = motion]
           v == [d EXCEPT !.disarmed = TRUE, !.idleTimer = Off, !.idleDeadline = Off]
<1>1. Sound(m, d)  BY DEF Sound, TurnState, SkipsOK, Contested
<1>2. Sound(m, v)
  <2>. HIDE DEF d
  <2>1. v \in TurnState /\ v.queue = d.queue /\ v.known = d.known
        /\ v.skips = d.skips /\ v.current = d.current /\ v.active = d.active
        /\ v.timer = d.timer /\ v.deadline = d.deadline /\ v.disarmed = TRUE
        /\ v.idleTimer = Off /\ v.idleDeadline = Off
    BY <1>1 DEF Sound, TurnState, Countdown
  <2>. HIDE DEF v
  <2>2. Contested(m, v) => Contested(m, d)  BY <2>1 DEF Contested
  <2>. QED  BY <1>1, <2>1, <2>2 DEF Sound, SkipsOK
<1>. QED  BY <1>1, <1>2 DEF RecordActivity

LEMMA ModeChangedSound ==
    ASSUME NEW m \in Modes, NEW n \in Modes, NEW u, Sound(m, u)
    PROVE  Sound(n, ModeChanged(n, u))
<1>1. CASE u.known
  <2>1. Workable(u)  BY <1>1 DEF Sound, Workable
  <2>2. Contested(n, u) => u.current \in Range(u.queue)
    BY DEF Contested, Sound
  <2>. QED  BY <1>1, <2>1, <2>2, SyncStateSound DEF ModeChanged
<1>2. CASE ~u.known
  <2>1. ModeChanged(n, u) = u  BY <1>2 DEF ModeChanged
  <2>2. u.queue = <<>> /\ u.timer = Off  BY <1>2 DEF Sound
  <2>3. ~Contested(n, u) /\ ~Contested(m, u)  BY <2>2 DEF Contested
  <2>. QED  BY <2>1, <2>2, <2>3 DEF Sound
<1>. QED  BY <1>1, <1>2

LEMMA TurnExpiredSound ==
    ASSUME NEW m \in Modes, NEW u, Sound(m, u), u.timer = 0
    PROVE  Sound(m, TurnExpired(m, u))
<1> DEFINE v == [u EXCEPT !.timer = Off]
<1>1. u.known  BY DEF Sound, Off, TurnState
<1>2. v \in TurnState /\ v.known /\ v.queue = u.queue /\ v.skips = u.skips
  BY <1>1 DEF Sound, TurnState, Countdown
<1>3. Workable(v)  BY <1>2 DEF Workable, Sound, SkipsOK
<1>. QED  BY <1>3, AdvanceTurnSound DEF TurnExpired

LEMMA IdleExpiredSound ==
    ASSUME NEW m \in Modes, NEW u, Sound(m, u), u.idleTimer = 0
    PROVE  Sound(m, IdleExpired(m, u))
<1> DEFINE c == u.current
           k == [u.skips EXCEPT ![c] = @ + 1]
           skipped == StopRover([[u EXCEPT !.idleTimer = Off] EXCEPT !.skips[u.current] = @ + 1])
<1>1. Contested(m, u) /\ ~u.disarmed  BY DEF Sound, Off
<1>2. u.queue # <<>> /\ u.known /\ c \in Range(u.queue) /\ c \in Sockets
  <2>1. u.queue # <<>>  BY <1>1 DEF Contested
  <2>. QED  BY <2>1 DEF Sound, TurnState, Range
<1>3. k \in [Sockets -> 0 .. MaxIdleSkips] /\ k[c] = u.skips[c] + 1
      /\ \A d \in Sockets \ {c} : k[d] = u.skips[d]
  <2>1. u.skips \in [Sockets -> 0 .. MaxIdleSkips]  BY DEF Sound, TurnState
  <2>2. u.skips[c] < MaxIdleSkips
    BY <1>2, <2>1 DEF Sound, SkipsOK
  <2>. QED  BY <1>2, <2>1, <2>2
<1>4. skipped = [u EXCEPT !.idleTimer = Off, !.skips = k, !.moving = FALSE]
  BY DEF StopRover, Sound, TurnState
<1>. HIDE DEF k, skipped
<1>5. skipped \in TurnState /\ skipped.known /\ skipped.queue = u.queue
      /\ skipped.skips = k /\ skipped.current = c
  BY <1>2, <1>3, <1>4 DEF Sound, TurnState, Countdown
<1>6. \A d \in Sockets \ {c} : k[d] > 0 => d \in Range(u.queue) /\ k[d] < MaxIdleSkips
  BY <1>3 DEF Sound, SkipsOK
<1>7. IdleExpired(m, u) = IF k[c] >= MaxIdleSkips THEN DriverRemoved(m, skipped, c)
                                                 ELSE AdvanceTurn(m, skipped)
  <2>1. IdleExpired(m, u) = IF skipped.skips[c] >= MaxIdleSkips
                            THEN DriverRemoved(m, skipped, c)
                            ELSE AdvanceTurn(m, skipped)
    BY <1>1, Zenon DEF IdleExpired, skipped
  <2>. QED  BY <1>5, <2>1
<1>8. CASE k[c] >= MaxIdleSkips
  <2>1. Distinct(skipped.queue)  BY <1>5 DEF Sound
  <2>. QED  BY <1>2, <1>5, <1>6, <1>7, <1>8, <2>1, RemoveCurrentSound
<1>9. CASE ~(k[c] >= MaxIdleSkips)
  <2>1. k[c] < MaxIdleSkips  BY <1>2, <1>3, <1>9
  <2>2. Workable(skipped)  BY <1>2, <1>5, <1>6, <2>1 DEF Workable, SkipsOK, Sound
  <2>. QED  BY <1>7, <1>9, <2>2, AdvanceTurnSound
<1>. QED  BY <1>8, <1>9

LEMMA ElapseSound ==
    ASSUME NEW m \in Modes, NEW u, Sound(m, u), ~Due(u)
    PROVE  Sound(m, Elapse(u))
<1> DEFINE v == Elapse(u)
<1>1. \A d \in Nat \ {0} : \A n \in Countdown(d) :
          CountDown(n) \in Countdown(d) /\ (n # 0 => (CountDown(n) = Off <=> n = Off))
  BY DEF Countdown, CountDown, Off
<1>2. v = [u EXCEPT !.timer = CountDown(@), !.deadline = CountDown(@),
                    !.idleTimer = CountDown(@), !.idleDeadline = CountDown(@)]
  BY DEF Elapse
<1>. HIDE DEF v
<1>3. v \in TurnState /\ v.known = u.known /\ v.queue = u.queue /\ v.skips = u.skips
      /\ v.current = u.current /\ v.active = u.active /\ v.disarmed = u.disarmed
      /\ v.timer = CountDown(u.timer) /\ v.deadline = CountDown(u.deadline)
      /\ v.idleTimer = CountDown(u.idleTimer)
      /\ v.idleDeadline = CountDown(u.idleDeadline)
  BY <1>1, <1>2 DEF Sound, TurnState
<1>4. (v.timer = Off <=> u.timer = Off) /\ (v.idleTimer = Off <=> u.idleTimer = Off)
  BY <1>1, <1>3 DEF Sound, TurnState, Due
<1>5. Contested(m, v) <=> Contested(m, u)  BY <1>3 DEF Contested
<1>. QED  BY <1>3, <1>4, <1>5 DEF Sound, SkipsOK, v

-----------------------------------------------------------------------------
(* The specification.                                                      *)

\* The inductive invariant is the conjunction of the properties of
\* TurnService, with what a rover without a queue looks like.
LEMMA InvariantIsSound == IInv <=> mode \in Modes /\ Sound(mode, t)
BY DEF IInv, TypeOK, NoDuplicates, HolderIsQueued, TurnAlwaysEnds, DeadlinesAreReal,
       TimeoutsOnlyInTurns, FirstDrives, SkipsOfQueued, NothingUnknown,
       Sound, Distinct, SkipsOK

LEMMA InitSound == Init => IInv
<1>1. Sound("admin", NoQueue(FALSE))
  BY DEF Sound, NoQueue, TurnState, Countdown, Off, Contested, Distinct, SkipsOK
<1>. QED  BY <1>1, InvariantIsSound DEF Init, Modes

LEMMA StepSound == IInv /\ [Next]_vars => IInv'
<1> SUFFICES ASSUME mode \in Modes, Sound(mode, t), [Next]_vars
             PROVE  mode' \in Modes /\ Sound(mode', t')
  <2>1. IInv' <=> mode' \in Modes /\ Sound(mode', t')
    BY DEF IInv, TypeOK, NoDuplicates, HolderIsQueued, TurnAlwaysEnds,
           DeadlinesAreReal, TimeoutsOnlyInTurns, FirstDrives, SkipsOfQueued,
           NothingUnknown, Sound, Distinct, SkipsOK, Contested
  <2>. QED  BY InvariantIsSound, <2>1
<1>1. ASSUME NEW m \in Modes, SetMode(m) PROVE mode' \in Modes /\ Sound(mode', t')
  BY <1>1, ModeChangedSound DEF SetMode
<1>2. ASSUME NEW s \in Sockets, NEW force \in BOOLEAN, RequestControl(s, force)
      PROVE  mode' \in Modes /\ Sound(mode', t')
  BY <1>2, DriverAddedSound DEF RequestControl
<1>3. ASSUME NEW s \in Sockets, ReleaseControl(s)
      PROVE  mode' \in Modes /\ Sound(mode', t')
  BY <1>3, DriverRemovedSound DEF ReleaseControl
<1>4. CASE CleanupRover
  <2>1. t.moving \in BOOLEAN  BY DEF Sound, TurnState
  <2>2. Sound(mode, NoQueue(t.moving))
    BY <2>1 DEF Sound, NoQueue, TurnState, Countdown, Off, Contested, Distinct, SkipsOK
  <2>. QED  BY <1>4, <2>2 DEF CleanupRover
<1>5. ASSUME NEW s \in Sockets, NEW motion \in BOOLEAN, Command(s, motion)
      PROVE  mode' \in Modes /\ Sound(mode', t')
  BY <1>5, RecordActivitySound DEF Command
<1>6. CASE TurnTimeout  BY <1>6, TurnExpiredSound DEF TurnTimeout
<1>7. CASE IdleTimeoutFires  BY <1>7, IdleExpiredSound DEF IdleTimeoutFires
<1>8. CASE Tick  BY <1>8, ElapseSound DEF Tick
<1>9. CASE UNCHANGED vars  BY <1>9 DEF vars
<1>. QED  BY <1>1, <1>2, <1>3, <1>4, <1>5, <1>6, <1>7, <1>8, <1>9 DEF Next

\* The invariant of the turn service: every property below is a conjunct.
THEOREM TurnInvariant == Spec => []IInv
BY InitSound, StepSound, PTL DEF Spec

\* The state of turnService's Maps stays well formed.
THEOREM TypeCorrect == Spec => []TypeOK
BY TurnInvariant, PTL DEF IInv

\* Whoever may drive is in the queue, in it once, and is the one shown.
THEOREM HolderCorrect == Spec => [](NoDuplicates /\ HolderIsQueued)
BY TurnInvariant, PTL DEF IInv

\* A turn that others wait for has its end pending: no order of requests,
\* releases, mode changes and timeouts leaves a rover with a stuck turn.
THEOREM TurnsEnd == Spec => []TurnAlwaysEnds
BY TurnInvariant, PTL DEF IInv

\* The deadlines sent to clients are those of the timeouts that are pending,
\* and timeouts are pending only where turns are taken.
THEOREM TimeoutsCorrect == Spec => [](DeadlinesAreReal /\ TimeoutsOnlyInTurns)
BY TurnInvariant, PTL DEF IInv

-----------------------------------------------------------------------------
(***************************************************************************)
(* The turn service implements TurnRotation: under the invariant above,    *)
(* every step of every operation maps to a step of the rotation, or        *)
(* changes neither the line nor the holder.                                *)
(***************************************************************************)

LEMMA QueuedClient ==
    ASSUME NEW q \in Seq(Sockets), NEW s \in Range(q)
    PROVE  s \in Sockets /\ s # NoOne /\ q # <<>>
BY DEF Range

\* The rotation's line has its members by the same definition of Range.
LEMMA SameMembers == \A q : Rotation!Range(q) = Range(q)
BY DEF Range, Rotation!Range

\* Leaving closes the ranks.
LEMMA WithoutCloses ==
    ASSUME NEW q \in Seq(Sockets), NEW s \in Range(q)
    PROVE  \E i \in DOMAIN q :
               /\ q[i] = s
               /\ Without(q, s) = [j \in 1 .. Len(q) - 1 |-> IF j < i THEN q[j] ELSE q[j + 1]]
<1>. DEFINE p == Position(q, s)
<1>1. p \in DOMAIN q /\ q[p] = s /\ p # 0  BY DEF Position, Range
<1>2. Without(q, s) = [j \in 1 .. Len(q) - 1 |-> IF j < p THEN q[j] ELSE q[j + 1]]
  BY <1>1 DEF Without
<1>. QED  BY <1>1, <1>2

\* What an operation does to the queue and to the driver on record.
LEMMA SettleHolder ==
    ASSUME NEW u \in TurnState
    PROVE  Settle(u).queue = u.queue /\ Settle(u).active = First(u)
BY DEF Settle, TimersOff, TurnState, First

LEMMA AdvanceHolder ==
    ASSUME NEW m \in Modes, NEW u, Workable(u)
    PROVE  /\ AdvanceTurn(m, u).queue = u.queue
           /\ u.queue = <<>> => AdvanceTurn(m, u).active = NoOne
           /\ u.queue # <<>> /\ ~Contested(m, u) => AdvanceTurn(m, u).active = First(u)
           /\ Contested(m, u) => AdvanceTurn(m, u).active = NextInTurn(u)
<1>1. CASE u.queue = <<>>
  <2>1. AdvanceTurn(m, u) = StopRover([TimersOff(u) EXCEPT !.active = NoOne])
    BY <1>1 DEF AdvanceTurn, Workable, Contested
  <2>. QED  BY <1>1, <2>1 DEF TimersOff, StopRover, Workable, TurnState, Contested
<1>2. CASE u.queue # <<>> /\ ~Contested(m, u)
  BY <1>2, SettleHolder DEF AdvanceTurn, Workable
<1>3. CASE Contested(m, u)
  <2>1. u.queue # <<>>  BY <1>3 DEF Contested
  <2>2. AdvanceTurn(m, u) = StopRover(BeginTurn(m, u, NextInTurn(u)))
    BY <1>3, <2>1 DEF AdvanceTurn, Workable
  <2>. DEFINE v == BeginTurn(m, u, NextInTurn(u))
  <2>3. v \in TurnState /\ v.queue = u.queue /\ v.active = NextInTurn(u)
    BY <1>3, NextInTurnQueued, BeginTurnSound DEF Sound
  <2>. HIDE DEF v
  <2>4. StopRover(v).queue = u.queue /\ StopRover(v).active = NextInTurn(u)
    BY <2>3 DEF StopRover, TurnState
  <2>. QED  BY <1>3, <2>1, <2>2, <2>4 DEF v
<1>. QED  BY <1>1, <1>2, <1>3

LEMMA SyncHolder ==
    ASSUME NEW m \in Modes, NEW u, Workable(u),
           Contested(m, u) => u.current \in Range(u.queue)
    PROVE  /\ SyncState(m, u).queue = u.queue
           /\ SyncState(m, u).active = IF Contested(m, u) THEN u.current ELSE First(u)
<1>1. CASE Contested(m, u)
  <2>1. u.current # NoOne  BY <1>1, QueuedClient DEF Workable, TurnState
  <2>. QED  BY <1>1, <2>1, BeginTurnSound DEF SyncState
<1>2. CASE ~Contested(m, u)  BY <1>2, SettleHolder DEF SyncState, Workable
<1>. QED  BY <1>1, <1>2

-----------------------------------------------------------------------------
(* The steps.                                                              *)

RotationStep == Rotation!RotationNext \/ UNCHANGED <<t.queue, t.active>>

LEMMA SetModeRotates ==
    ASSUME mode \in Modes, Sound(mode, t), NEW m \in Modes, SetMode(m)
    PROVE  RotationStep
<1>1. CASE ~t.known  BY <1>1 DEF SetMode, ModeChanged, RotationStep
<1>2. CASE t.known
  <2>1. Workable(t)  BY <1>2 DEF Sound, Workable
  <2>2. Contested(m, t) => t.current \in Range(t.queue) /\ t.queue # <<>>
    BY DEF Contested, Sound
  <2>3. t'.queue = t.queue
        /\ t'.active = IF Contested(m, t) THEN t.current ELSE First(t)
    BY <1>2, <2>1, <2>2, SyncHolder DEF SetMode, ModeChanged
  <2>4. CASE t.queue = <<>> \/ Contested(m, t)
    BY <2>2, <2>3, <2>4 DEF RotationStep, Sound, First, Contested
  <2>5. CASE t.queue # <<>> /\ ~Contested(m, t)
    <3>1. Rotation!Restart
      BY <2>3, <2>5 DEF Rotation!Restart, Rotation!AtHead, First
    <3>. QED  BY <3>1 DEF RotationStep, Rotation!RotationNext
  <2>. QED  BY <2>4, <2>5
<1>. QED  BY <1>1, <1>2

LEMMA RequestRotates ==
    ASSUME mode \in Modes, Sound(mode, t),
           NEW s \in Sockets, NEW force \in BOOLEAN, RequestControl(s, force)
    PROVE  RotationStep
<1> DEFINE q == t.queue
           c == IF t.current = NoOne \/ force THEN s ELSE t.current
           e == IF s \in Range(q) THEN q ELSE Append(q, s)
           v == [t EXCEPT !.known = TRUE, !.queue = e,
                          !.current = IF @ = NoOne \/ force THEN s ELSE @]
<1>1. /\ e \in Seq(Sockets) /\ Distinct(e) /\ e # <<>>
      /\ Range(e) = Range(q) \cup {s}
      /\ q # <<>> => e[1] = q[1]
      /\ Len(e) \in {Len(q), Len(q) + 1}
      /\ q = <<>> => e[1] = s
  <2>1. q \in Seq(Sockets) /\ Distinct(q)  BY DEF Sound, TurnState
  <2>2. q = <<>> => e = <<s>>  BY DEF Range
  <2>. HIDE DEF q
  <2>3. /\ e \in Seq(Sockets) /\ Distinct(e) /\ e # <<>>
        /\ Range(e) = Range(q) \cup {s}
        /\ q # <<>> => e[1] = q[1]
        /\ Len(e) \in {Len(q), Len(q) + 1}
    BY <2>1, JoinQueue
  <2>. QED  BY <2>2, <2>3
<1>2. t' = SyncState(mode, v)  BY DEF RequestControl, DriverAdded
<1>3. q = <<>> \/ (q # <<>> /\ t.current \in Range(q) /\ t.current # NoOne /\ t.active = t.current)
  BY QueuedClient DEF Sound, TurnState
<1>4. e = q \/ (s \notin Range(q) /\ e = Append(q, s))  OBVIOUS
<1>. HIDE DEF e
<1>5. v \in TurnState /\ v.known /\ v.queue = e /\ v.skips = t.skips
      /\ v.current = c
  <2>1. t \in TurnState /\ c \in Sockets \cup {NoOne}  BY DEF Sound, TurnState
  <2>2. v = [t EXCEPT !.known = TRUE, !.queue = e, !.current = c]
    BY <2>1 DEF TurnState
  <2>. HIDE DEF c, v
  <2>3. v \in TurnState  BY <1>1, <2>1, <2>2 DEF TurnState
  <2>. QED  BY <2>1, <2>2, <2>3 DEF TurnState
<1>. HIDE DEF v
<1>6. Workable(v)  BY <1>1, <1>5 DEF Workable, SkipsOK, Sound
<1>7. Contested(mode, v) => q # <<>>  BY <1>1, <1>5 DEF Contested
<1>8. Contested(mode, v) => v.current = (IF force THEN s ELSE t.active)
                            /\ v.current \in Range(e)
  BY <1>1, <1>3, <1>5, <1>7
<1>9. t'.queue = e
      /\ t'.active = IF Contested(mode, v) THEN v.current ELSE e[1]
  BY <1>1, <1>2, <1>5, <1>6, <1>8, SyncHolder DEF First
<1>10. CASE Contested(mode, v) /\ force
  <2>1. s \in Admins  BY <1>10 DEF RequestControl
  <2>2. Rotation!Seize(s)
    BY <1>4, <1>8, <1>9, <1>10, <2>1, SameMembers DEF Rotation!Seize, e
  <2>. QED  BY <2>2 DEF RotationStep, Rotation!RotationNext
<1>11. CASE Contested(mode, v) /\ ~force
  <2>1. t'.active = t.active  BY <1>8, <1>9, <1>11
  <2>2. CASE e = q  BY <1>9, <2>1, <2>2 DEF RotationStep
  <2>3. CASE s \notin Range(q) /\ e = Append(q, s)
    <3>1. Rotation!Join(s)
      BY <1>7, <1>9, <1>11, <2>1, <2>3, SameMembers DEF Rotation!Join
    <3>. QED  BY <3>1 DEF RotationStep, Rotation!RotationNext
  <2>. QED  BY <1>4, <2>2, <2>3
<1>12. CASE ~Contested(mode, v)
  <2>1. CASE e = q
    <3>1. Rotation!Restart
      BY <1>1, <1>9, <1>12, <2>1 DEF Rotation!Restart, Rotation!AtHead
    <3>. QED  BY <3>1 DEF RotationStep, Rotation!RotationNext
  <2>2. CASE s \notin Range(q) /\ e = Append(q, s)
    <3>1. CASE q = <<>>
      <4>1. Rotation!Join(s)
        BY <1>1, <1>9, <1>12, <2>2, <3>1, SameMembers DEF Rotation!Join
      <4>. QED  BY <4>1 DEF RotationStep, Rotation!RotationNext
    <3>2. CASE q # <<>>
      <4>1. Len(e) > 1  BY <2>2, <3>2 DEF Sound, TurnState
      <4>2. mode # "turns"  BY <1>5, <1>12, <4>1 DEF Contested
      <4>3. t.active = q[1]  BY <3>2, <4>2 DEF Sound
      <4>4. Rotation!Join(s)
        BY <1>1, <1>9, <1>12, <2>2, <3>2, <4>3, SameMembers DEF Rotation!Join
      <4>. QED  BY <4>4 DEF RotationStep, Rotation!RotationNext
    <3>. QED  BY <3>1, <3>2
  <2>. QED  BY <1>4, <2>1, <2>2
<1>. QED  BY <1>10, <1>11, <1>12

LEMMA RemovalRotates ==
    ASSUME mode \in Modes, Sound(mode, t), NEW s \in Sockets, NEW u,
           \* u is t, but for the counts of skips and the motors
           u \in TurnState, u.known = t.known, u.queue = t.queue, u.current = t.current,
           u.active = t.active,
           \A c \in Sockets \ {s} : u.skips[c] = t.skips[c],
           t' = DriverRemoved(mode, u, s)
    PROVE  RotationStep
<1> DEFINE w    == Without(u.queue, s)
           k    == [u.skips EXCEPT ![s] = 0]
           left == [u EXCEPT !.queue = w, !.skips[s] = 0, !.disarmed = FALSE]
<1>1. u.queue \in Seq(Sockets) /\ Distinct(u.queue)  BY DEF Sound, TurnState
<1>2. /\ w \in Seq(Sockets) /\ Distinct(w) /\ Range(w) = Range(t.queue) \ {s}
      /\ s \in Range(t.queue) => Len(w) = Len(t.queue) - 1
      /\ s \notin Range(t.queue) => w = t.queue
  BY <1>1, WithoutQueue
<1>2a. ASSUME s \in Range(t.queue)
       PROVE  \E i \in DOMAIN t.queue :
                  /\ t.queue[i] = s
                  /\ w = [j \in 1 .. Len(t.queue) - 1 |->
                             IF j < i THEN t.queue[j] ELSE t.queue[j + 1]]
  <2>. DEFINE q == t.queue
  <2>1. q \in Seq(Sockets) /\ s \in Range(q) /\ w = Without(q, s)  BY <1>1, <1>2a
  <2>. HIDE DEF q, w
  <2>2. \E i \in DOMAIN q :
            /\ q[i] = s
            /\ Without(q, s) = [j \in 1 .. Len(q) - 1 |->
                                   IF j < i THEN q[j] ELSE q[j + 1]]
    BY <2>1, WithoutCloses
  <2>. QED  BY <2>1, <2>2 DEF q
<1>3. k \in [Sockets -> 0 .. MaxIdleSkips] /\ k[s] = 0
      /\ \A c \in Sockets \ {s} : k[c] = t.skips[c]
  BY DEF TurnState
<1>4. left = [u EXCEPT !.queue = w, !.skips = k, !.disarmed = FALSE]
  BY DEF TurnState
<1>. HIDE DEF w, k, left
<1>5. left \in TurnState /\ left.known = t.known /\ left.queue = w /\ left.skips = k
      /\ left.current = t.current /\ left.active = t.active
  <2>1. left \in TurnState  BY <1>2, <1>3, <1>4 DEF TurnState
  <2>. QED  BY <1>4, <2>1 DEF TurnState
<1>6. CASE ~t.known
  <2>1. t' = u  BY <1>6 DEF DriverRemoved
  <2>. QED  BY <2>1 DEF RotationStep
<1>7. CASE t.known /\ t.current # s
  <2>1. t' = ScheduleIdleTimer(mode, left)
    BY <1>7 DEF DriverRemoved, left, w
  <2>2. t'.queue = w /\ t'.active = t.active
    BY <1>5, <2>1 DEF ScheduleIdleTimer, TurnState
  <2>3. CASE s \in Range(t.queue)
    <3>1. t.active # s  BY <1>7, <2>3 DEF Sound, Range
    <3>2. Rotation!Leave(s)
      BY <1>2a, <2>2, <2>3, <3>1 DEF Rotation!Leave
    <3>. QED  BY <3>2 DEF RotationStep, Rotation!RotationNext
  <2>4. CASE s \notin Range(t.queue)
    BY <1>2, <2>2, <2>4 DEF RotationStep
  <2>. QED  BY <2>3, <2>4
<1>8. CASE t.known /\ t.current = s
  <2>. DEFINE v == StopRover(left)
  <2>1. t' = AdvanceTurn(mode, v)
    BY <1>8 DEF DriverRemoved, left, w
  <2>2. v \in TurnState /\ v.known /\ v.queue = w /\ v.skips = k /\ v.current = s
    BY <1>5, <1>8 DEF StopRover, TurnState
  <2>. HIDE DEF v
  <2>3. SkipsOK(v)
    <3>1. SkipsOK(t)  BY DEF Sound
    <3>. QED  BY <1>2, <1>3, <2>2, <3>1 DEF SkipsOK
  <2>4. Workable(v)  BY <1>2, <2>2, <2>3 DEF Workable
  <2>5. NextInTurn(v) = (IF w = <<>> THEN NextInTurn(v) ELSE w[1])
    <3>1. Position(w, s) = 0  BY <1>2 DEF Position, Range
    <3>2. w # <<>> => Len(w) \in Nat \ {0} /\ 0 % Len(w) = 0
      <4>1. \A n \in Nat \ {0} : 0 % n = 0  OBVIOUS
      <4>2. w # <<>> => Len(w) \in Nat \ {0}  BY <1>2
      <4>. QED  BY <4>1, <4>2
    <3>. QED  BY <2>2, <3>1, <3>2 DEF NextInTurn
  <2>6. t'.queue = w /\ t'.active = IF w = <<>> THEN NoOne ELSE w[1]
    <3>1. Contested(mode, v) => w # <<>>  BY <2>2 DEF Contested
    <3>. QED  BY <2>1, <2>2, <2>4, <2>5, <3>1, AdvanceHolder DEF First
  <2>7. CASE s \in Range(t.queue)
    <3>1. t.active = s  BY <1>8, <2>7 DEF Sound, Range
    <3>2. Rotation!Leave(s)
      BY <1>2a, <2>6, <2>7, <3>1 DEF Rotation!Leave, Rotation!AtHead
    <3>. QED  BY <3>2 DEF RotationStep, Rotation!RotationNext
  <2>8. CASE s \notin Range(t.queue)
    <3>1. t.queue = <<>> /\ t.active = NoOne  BY <1>8, <2>8 DEF Sound
    <3>. QED  BY <1>2, <2>6, <2>8, <3>1 DEF RotationStep
  <2>. QED  BY <2>7, <2>8
<1>. QED  BY <1>6, <1>7, <1>8 DEF Sound, TurnState

\* The turn is advanced, on a record whose queue and driver are t's.
LEMMA AdvanceRotates ==
    ASSUME mode \in Modes, Sound(mode, t), NEW u, Workable(u),
           u.queue = t.queue, u.current = t.current,
           t' = AdvanceTurn(mode, u)
    PROVE  RotationStep
<1>1. t'.queue = t.queue  BY AdvanceHolder
<1>2. CASE t.queue = <<>>
  BY <1>1, <1>2, AdvanceHolder DEF Sound, RotationStep
<1>3. CASE t.queue # <<>> /\ ~Contested(mode, t)
  <2>1. t'.active = First(t)
    BY <1>3, AdvanceHolder DEF Contested, First
  <2>2. Rotation!Restart
    BY <1>1, <1>3, <2>1 DEF Rotation!Restart, Rotation!AtHead, First
  <2>. QED  BY <2>2 DEF RotationStep, Rotation!RotationNext
<1>4. CASE Contested(mode, t)
  <2>1. t'.active = NextInTurn(t)
    <3>1. Contested(mode, u)  BY <1>4 DEF Contested
    <3>2. t'.active = NextInTurn(u)  BY <3>1, AdvanceHolder
    <3>. QED  BY <3>2 DEF NextInTurn
  <2>2. Len(t.queue) > 1 /\ t.queue # <<>>  BY <1>4 DEF Contested
  <2>3. t.active = t.current /\ t.current \in Range(t.queue)  BY <2>2 DEF Sound
  <2>4. NextInTurn(t) = Rotation!Successor
    BY <2>3 DEF NextInTurn, Position, Rotation!Successor, Range
  <2>5. Rotation!Pass  BY <1>1, <2>1, <2>2, <2>4 DEF Rotation!Pass
  <2>. QED  BY <2>5 DEF RotationStep, Rotation!RotationNext
<1>. QED  BY <1>2, <1>3, <1>4

\* The record, once an idle driver has had another skip counted.
Skipped(u) ==
    /\ u \in TurnState
    /\ u.known = t.known /\ u.queue = t.queue /\ u.current = t.current /\ u.active = t.active
    /\ \A c \in Sockets \ {t.current} : u.skips[c] = t.skips[c]

\* The driver is removed, or the turn passes.
LEMMA IdleCases ==
    ASSUME mode \in Modes, Sound(mode, t), IdleTimeoutFires
    PROVE  /\ Contested(mode, t) /\ t.known /\ t.current \in Sockets
           /\ \E u : /\ Skipped(u)
                     /\ \/ t' = DriverRemoved(mode, u, t.current)
                        \/ Workable(u) /\ t' = AdvanceTurn(mode, u)
<1> DEFINE c == t.current
           k == [t.skips EXCEPT ![c] = @ + 1]
           skipped == StopRover([[t EXCEPT !.idleTimer = Off] EXCEPT !.skips[t.current] = @ + 1])
<1>0. t.idleTimer = 0 /\ t' = IdleExpired(mode, t)  BY DEF IdleTimeoutFires
<1>1. Contested(mode, t) /\ ~t.disarmed  BY <1>0 DEF Sound, Off
<1>2. t.queue # <<>> /\ t.known /\ c \in Range(t.queue) /\ c \in Sockets
  <2>1. t.queue # <<>>  BY <1>1 DEF Contested
  <2>. QED  BY <2>1, QueuedClient DEF Sound, TurnState
<1>3. k \in [Sockets -> 0 .. MaxIdleSkips] /\ k[c] = t.skips[c] + 1
      /\ \A d \in Sockets \ {c} : k[d] = t.skips[d]
  <2>1. t.skips \in [Sockets -> 0 .. MaxIdleSkips]  BY DEF Sound, TurnState
  <2>2. t.skips[c] < MaxIdleSkips  BY <1>2, <2>1 DEF Sound, SkipsOK
  <2>. QED  BY <1>2, <2>1, <2>2
<1>4. skipped = [t EXCEPT !.idleTimer = Off, !.skips = k, !.moving = FALSE]
  BY DEF StopRover, Sound, TurnState
<1>. HIDE DEF k, skipped
<1>5. skipped \in TurnState /\ skipped.known = t.known /\ skipped.queue = t.queue
      /\ skipped.skips = k /\ skipped.current = c /\ skipped.active = t.active
  BY <1>2, <1>3, <1>4 DEF Sound, TurnState, Countdown
<1>7. t' = IF k[c] >= MaxIdleSkips THEN DriverRemoved(mode, skipped, c)
                                   ELSE AdvanceTurn(mode, skipped)
  <2>1. IdleExpired(mode, t) = IF skipped.skips[c] >= MaxIdleSkips
                               THEN DriverRemoved(mode, skipped, c)
                               ELSE AdvanceTurn(mode, skipped)
    BY <1>1, Zenon DEF IdleExpired, skipped
  <2>. QED  BY <1>0, <1>5, <2>1
<1>8. Skipped(skipped)
  BY <1>2, <1>3, <1>5 DEF Skipped, c
<1>9. CASE k[c] >= MaxIdleSkips
  BY <1>1, <1>2, <1>7, <1>8, <1>9
<1>10. CASE ~(k[c] >= MaxIdleSkips)
  <2>1. k[c] < MaxIdleSkips  BY <1>2, <1>3, <1>10
  <2>2. Workable(skipped)
    BY <1>2, <1>3, <1>5, <2>1 DEF Workable, SkipsOK, Sound
  <2>. QED  BY <1>1, <1>2, <1>7, <1>8, <1>10, <2>2
<1>. QED  BY <1>9, <1>10

LEMMA IdleRotates ==
    ASSUME mode \in Modes, Sound(mode, t), IdleTimeoutFires
    PROVE  RotationStep
<1>1. PICK u : /\ Skipped(u) /\ t.current \in Sockets
               /\ \/ t' = DriverRemoved(mode, u, t.current)
                  \/ Workable(u) /\ t' = AdvanceTurn(mode, u)
  BY IdleCases
<1>2. CASE t' = DriverRemoved(mode, u, t.current)
  BY <1>1, <1>2, RemovalRotates DEF Skipped
<1>3. CASE Workable(u) /\ t' = AdvanceTurn(mode, u)
  BY <1>1, <1>3, AdvanceRotates DEF Skipped
<1>. QED  BY <1>1, <1>2, <1>3

LEMMA TurnTimeoutRotates ==
    ASSUME mode \in Modes, Sound(mode, t), TurnTimeout
    PROVE  RotationStep
<1> DEFINE v == [t EXCEPT !.timer = Off]
<1>1. t.known  BY DEF TurnTimeout, Sound, Off, TurnState
<1>2. v \in TurnState /\ v.known /\ v.queue = t.queue /\ v.skips = t.skips
      /\ v.current = t.current
  BY <1>1 DEF Sound, TurnState, Countdown
<1>3. Workable(v)  BY <1>2 DEF Workable, Sound, SkipsOK
<1>4. t' = AdvanceTurn(mode, v)  BY DEF TurnTimeout, TurnExpired
<1>. QED  BY <1>2, <1>3, <1>4, AdvanceRotates

LEMMA StepRotates == IInv /\ [Next]_vars => [Rotation!RotationNext]_<<t.queue, t.active>>
<1> SUFFICES ASSUME mode \in Modes, Sound(mode, t), [Next]_vars
             PROVE  RotationStep
    BY InvariantIsSound DEF RotationStep
<1>1. ASSUME NEW m \in Modes, SetMode(m) PROVE RotationStep
  BY <1>1, SetModeRotates
<1>2. ASSUME NEW s \in Sockets, NEW force \in BOOLEAN, RequestControl(s, force)
      PROVE  RotationStep
  BY <1>2, RequestRotates
<1>3. ASSUME NEW s \in Sockets, ReleaseControl(s) PROVE RotationStep
  BY <1>3, RemovalRotates DEF ReleaseControl, Sound
<1>4. CASE CleanupRover
  <2>1. Rotation!Disband  BY <1>4 DEF CleanupRover, NoQueue, Rotation!Disband
  <2>. QED  BY <2>1 DEF RotationStep, Rotation!RotationNext
<1>5. ASSUME NEW s \in Sockets, NEW motion \in BOOLEAN, Command(s, motion)
      PROVE  RotationStep
  BY <1>5 DEF Command, RecordActivity, RotationStep, Sound, TurnState
<1>6. CASE TurnTimeout  BY <1>6, TurnTimeoutRotates
<1>7. CASE IdleTimeoutFires  BY <1>7, IdleRotates
<1>8. CASE Tick  BY <1>8 DEF Tick, Elapse, RotationStep, Sound, TurnState
<1>9. CASE UNCHANGED vars  BY <1>9 DEF vars, RotationStep
<1>. QED  BY <1>1, <1>2, <1>3, <1>4, <1>5, <1>6, <1>7, <1>8, <1>9 DEF Next

\* The turn service implements the rotation of turns, for any number of
\* clients and any durations.
THEOREM TurnServiceRotates == Spec => ImplementsRotation
<1>1. Init => Rotation!RotationInit
  BY DEF Init, NoQueue, Rotation!RotationInit
<1>. QED
  BY <1>1, TurnInvariant, StepRotates, PTL
  DEF Spec, ImplementsRotation, Rotation!RotationSpec, Rotation!rvars

-----------------------------------------------------------------------------
(***************************************************************************)
(* What the timeouts do to a turn: how long it lasts (TurnLength), that    *)
(* the motors stop when it passes (TimeoutStops), and who may be skipped   *)
(* or put out of the queue (OnlyIdlersAreSkipped).  The lemmas say of each *)
(* call what becomes of the turn's timeout and of its holder; that the     *)
(* record stays sound is proved above.                                     *)
(***************************************************************************)

-----------------------------------------------------------------------------
(* What the operations do.                                                 *)

\* Where two wait for the turn, the next one is another.
LEMMA NextIsAnother ==
    ASSUME NEW u, u.queue \in Seq(Sockets), Distinct(u.queue), Len(u.queue) > 1,
           u.current \in Range(u.queue)
    PROVE  NextInTurn(u) # u.current
<1> DEFINE q == u.queue
           n == Len(q)
           p == Position(q, u.current)
<1>1. p \in 1 .. n /\ q[p] = u.current
    BY DEF Position, Range
<1>2. NextInTurn(u) = q[(p % n) + 1]
    BY DEF NextInTurn
<1>3. n \in Nat /\ n > 1 /\ DOMAIN q = 1 .. n
    OBVIOUS
<1>4. \A i, j \in 1 .. n : q[i] = q[j] => i = j
    BY <1>3 DEF Distinct
<1> HIDE DEF p, n, q
<1>5. (p % n) + 1 \in 1 .. n /\ (p % n) + 1 # p
    BY <1>1, <1>3
<1> QED
    BY <1>1, <1>2, <1>4, <1>5

\* The record when a turn of s begins, the idle timeout set to i.
Begun(u, s, i) ==
    [u EXCEPT !.current = s, !.active = s, !.disarmed = FALSE,
              !.timer = TurnDuration, !.deadline = TurnDuration,
              !.idleTimer = i, !.idleDeadline = i]

\* A turn begins with its whole duration.
LEMMA BeginTurnShape ==
    ASSUME NEW m \in Modes, NEW u, u \in TurnState, NEW s
    PROVE  \E i : BeginTurn(m, u, s) = Begun(u, s, i)
<1> DEFINE b == ScheduleNextTurn([u EXCEPT !.current = s, !.active = s, !.disarmed = FALSE])
           i == IF Contested(m, b) /\ b.current # NoOne /\ ~b.disarmed THEN IdleTimeout ELSE Off
<1>1. BeginTurn(m, u, s) = [b EXCEPT !.idleTimer = i, !.idleDeadline = i]
    BY DEF BeginTurn, ScheduleIdleTimer
<1>2. b = [u EXCEPT !.current = s, !.active = s, !.disarmed = FALSE,
                    !.timer = TurnDuration, !.deadline = TurnDuration]
    BY DEF ScheduleNextTurn, TurnState
<1> HIDE DEF b, i
<1> QED
    BY <1>1, <1>2 DEF Begun, TurnState

LEMMA BeginTurnKeeps ==
    ASSUME NEW m \in Modes, NEW u, u \in TurnState, NEW s
    PROVE  LET v == BeginTurn(m, u, s)
           IN  /\ v.queue = u.queue /\ v.current = s /\ v.timer = TurnDuration
               /\ StopRover(v).queue = u.queue /\ StopRover(v).current = s
               /\ ~StopRover(v).moving
<1>1. PICK i : BeginTurn(m, u, s) = Begun(u, s, i)
    BY BeginTurnShape
<1> QED
    BY <1>1 DEF Begun, StopRover, TurnState

\* The turn passes without anybody leaving the queue.
LEMMA AdvanceTurnPasses ==
    ASSUME NEW m \in Modes, NEW u, u \in TurnState
    PROVE  LET v == AdvanceTurn(m, u)
           IN  /\ v.queue = u.queue
               /\ ~u.moving => ~v.moving
               /\ ~u.known => v = u
               /\ u.known /\ u.queue = <<>> => ~v.moving
               /\ u.known /\ u.queue # <<>> /\ ~Contested(m, u) => v.active = u.queue[1]
               /\ u.known /\ u.queue # <<>> /\ Contested(m, u) =>
                      ~v.moving /\ v.current = NextInTurn(u)
<1>1. CASE ~u.known
    BY <1>1 DEF AdvanceTurn
<1>2. CASE u.known /\ u.queue = <<>>
  <2>0. ~Contested(m, u)
      BY <1>2 DEF Contested
  <2>1. AdvanceTurn(m, u) = StopRover([TimersOff(u) EXCEPT !.active = NoOne])
      BY <1>2, <2>0 DEF AdvanceTurn
  <2> QED
      BY <1>2, <2>1 DEF StopRover, TimersOff, TurnState
<1>3. CASE u.known /\ u.queue # <<>> /\ ~Contested(m, u)
  <2>1. AdvanceTurn(m, u) = Settle(u)
      BY <1>3 DEF AdvanceTurn
  <2> QED
      BY <1>3, <2>1 DEF Settle, TimersOff, First, TurnState
<1>4. CASE u.known /\ u.queue # <<>> /\ Contested(m, u)
  <2>1. AdvanceTurn(m, u) = StopRover(BeginTurn(m, u, NextInTurn(u)))
      BY <1>4 DEF AdvanceTurn
  <2> QED
      BY <1>4, <2>1, BeginTurnKeeps DEF StopRover
<1> QED
    BY <1>1, <1>2, <1>3, <1>4

\* Whoever leaves takes only itself from the queue; unless it was the driver,
\* the turn and its timeout stand, and if it was, the motors stop.
LEMMA DriverRemovedPasses ==
    ASSUME NEW m \in Modes, NEW u, u \in TurnState, u.known, Distinct(u.queue),
           NEW s \in Sockets
    PROVE  LET v == DriverRemoved(m, u, s)
           IN  /\ v.queue = Without(u.queue, s)
               /\ u.current = s => ~v.moving
               /\ u.current # s => v.current = u.current /\ v.timer = u.timer
<1> DEFINE left == [u EXCEPT !.queue = Without(@, s), !.skips[s] = 0, !.disarmed = FALSE]
<1>1. /\ left.queue = Without(u.queue, s) /\ left.known
      /\ left.current = u.current /\ left.timer = u.timer
    BY DEF TurnState
<1>2. left \in TurnState
  <2>1. Without(u.queue, s) \in Seq(Sockets)
      BY WithoutQueue DEF TurnState
  <2>2. [u.skips EXCEPT ![s] = 0] \in [Sockets -> 0 .. MaxIdleSkips]
      BY DEF TurnState
  <2> QED
      BY <2>1, <2>2 DEF TurnState
<1> HIDE DEF left
<1>3. CASE u.current = s
  <2> DEFINE w == StopRover(left)
  <2>1. DriverRemoved(m, u, s) = AdvanceTurn(m, w)
      BY <1>3 DEF DriverRemoved, left
  <2>2. w \in TurnState /\ w.queue = left.queue /\ ~w.moving
      BY <1>2 DEF StopRover, TurnState
  <2> HIDE DEF w
  <2> QED
      BY <1>1, <1>3, <2>1, <2>2, AdvanceTurnPasses
<1>4. CASE u.current # s
  <2>1. DriverRemoved(m, u, s) = ScheduleIdleTimer(m, left)
      BY <1>4 DEF DriverRemoved, left
  <2> QED
      BY <1>1, <1>2, <1>4, <2>1 DEF ScheduleIdleTimer, TurnState
<1> QED
    BY <1>3, <1>4

\* A request gives whoever drives the whole duration again.
LEMMA DriverAddedRestarts ==
    ASSUME NEW m \in Modes, NEW u, u \in TurnState, NEW s \in Sockets, NEW force \in BOOLEAN,
           Contested(m, DriverAdded(m, u, s, force))
    PROVE  DriverAdded(m, u, s, force).timer = TurnDuration
<1> DEFINE a == [u EXCEPT !.known = TRUE,
                          !.queue = IF s \in Range(@) THEN @ ELSE Append(@, s),
                          !.current = IF @ = NoOne \/ force THEN s ELSE @]
<1>1. DriverAdded(m, u, s, force) = SyncState(m, a)
    BY DEF DriverAdded
<1>2. Contested(m, a)
    BY <1>1 DEF SyncState, Settle, TimersOff, Contested, TurnState
<1> QED
    BY <1>1, <1>2 DEF SyncState, BeginTurn, ScheduleIdleTimer, ScheduleNextTurn, TurnState

-----------------------------------------------------------------------------
(* The two timeouts.                                                       *)

\* A turn that runs out passes to another if anybody waits, with the motors
\* stopped, and nobody leaves the queue.
LEMMA TurnExpiredPasses ==
    ASSUME NEW m \in Modes, NEW u, Sound(m, u), u.timer = 0
    PROVE  LET v == TurnExpired(m, u)
           IN  /\ v.queue = u.queue
               /\ Contested(m, u) => v.current # u.current
               /\ v.active # u.active => ~v.moving
<1> DEFINE w == [u EXCEPT !.timer = Off]
<1>1. u.known /\ m = "turns"
    BY DEF Sound, Off
<1>2. /\ w \in TurnState /\ w.known /\ w.queue = u.queue /\ w.current = u.current
      /\ w.active = u.active
    BY <1>1 DEF Sound, TurnState, Countdown
<1>3. TurnExpired(m, u) = AdvanceTurn(m, w)
    BY DEF TurnExpired
<1> HIDE DEF w
<1>4. Contested(m, w) <=> Contested(m, u)
    BY <1>2 DEF Contested
<1>5. CASE u.queue = <<>>
  <2>1. ~Contested(m, u)
      BY <1>5 DEF Contested
  <2> QED
      BY <1>2, <1>3, <1>5, <2>1, AdvanceTurnPasses
<1>6. CASE u.queue # <<>> /\ Contested(m, u)
  <2>1. NextInTurn(w) # w.current
      BY <1>2, <1>6, NextIsAnother DEF Sound, Contested, TurnState
  <2> QED
      BY <1>2, <1>3, <1>4, <1>6, <2>1, AdvanceTurnPasses
<1>7. CASE u.queue # <<>> /\ ~Contested(m, u)
  <2>0. u.queue \in Seq(Sockets)
      BY DEF Sound, TurnState
  <2>1. Len(u.queue) = 1
    <3> DEFINE n == Len(u.queue)
    <3>1. n \in Nat /\ n # 0
        BY <1>7, <2>0
    <3>2. ~(n > 1)
        BY <1>1, <1>7 DEF Contested
    <3> HIDE DEF n
    <3>3. n = 1
        BY <3>1, <3>2
    <3> QED
        BY <3>3 DEF n
  <2>2. u.active \in Range(u.queue)
      BY <1>7 DEF Sound
  <2>3. u.active = u.queue[1]
      BY <2>0, <2>1, <2>2 DEF Range
  <2> QED
      BY <1>2, <1>3, <1>4, <1>7, <2>3, AdvanceTurnPasses
<1> QED
    BY <1>5, <1>6, <1>7

\* An idle driver loses the turn with the motors stopped; the last skip takes
\* it, and nobody else, out of the queue.
LEMMA IdleExpiredPasses ==
    ASSUME NEW m \in Modes, NEW u, Sound(m, u), u.idleTimer = 0
    PROVE  LET v == IdleExpired(m, u)
           IN  /\ ~v.moving
               /\ v.queue # <<>> => v.current # u.current
               /\ \A s \in Range(u.queue) \ Range(v.queue) :
                      s = u.current /\ u.skips[s] = MaxIdleSkips - 1
<1> DEFINE c == u.current
           k == [u.skips EXCEPT ![c] = @ + 1]
           skipped == StopRover([[u EXCEPT !.idleTimer = Off] EXCEPT !.skips[u.current] = @ + 1])
<1>1. Contested(m, u) /\ ~u.disarmed
    BY DEF Sound, Off
<1>2. u.known /\ c \in Range(u.queue) /\ c \in Sockets
  <2>1. u.queue # <<>>
      BY <1>1 DEF Contested
  <2> QED
      BY <2>1 DEF Sound, TurnState, Range
<1>3. /\ u.skips[c] \in 0 .. MaxIdleSkips - 1 /\ k[c] = u.skips[c] + 1
      /\ k \in [Sockets -> 0 .. MaxIdleSkips]
  <2>1. u.skips \in [Sockets -> 0 .. MaxIdleSkips]
      BY DEF Sound, TurnState
  <2>2. u.skips[c] < MaxIdleSkips
      BY <1>2, <2>1 DEF Sound, SkipsOK
  <2> QED
      BY <1>2, <2>1, <2>2
<1>4. skipped = [u EXCEPT !.idleTimer = Off, !.skips = k, !.moving = FALSE]
    BY DEF StopRover, Sound, TurnState
<1>5. IdleExpired(m, u) = IF skipped.skips[c] >= MaxIdleSkips THEN DriverRemoved(m, skipped, c)
                                                          ELSE AdvanceTurn(m, skipped)
    BY <1>1, Zenon DEF IdleExpired, skipped
<1> HIDE DEF k, skipped
<1>6. /\ skipped \in TurnState /\ skipped.known /\ skipped.queue = u.queue
      /\ skipped.skips = k /\ skipped.current = c /\ ~skipped.moving
    BY <1>2, <1>3, <1>4 DEF Sound, TurnState, Countdown
<1>7. Distinct(u.queue) /\ u.queue \in Seq(Sockets)
    BY DEF Sound, TurnState
<1> HIDE DEF c
<1>8. CASE k[c] >= MaxIdleSkips
  <2>1. IdleExpired(m, u) = DriverRemoved(m, skipped, c)
      BY <1>5, <1>6, <1>8
  <2>2. /\ IdleExpired(m, u).queue = Without(u.queue, c)
        /\ ~IdleExpired(m, u).moving
      BY <1>2, <1>6, <1>7, <2>1, DriverRemovedPasses
  <2>3. Range(IdleExpired(m, u).queue) = Range(u.queue) \ {c}
    <3>1. Range(Without(u.queue, c)) = Range(u.queue) \ {c}
        BY <1>2, <1>7, WithoutQueue
    <3> QED
        BY <2>2, <3>1
  <2>4. Sound(m, IdleExpired(m, u))
      BY IdleExpiredSound
  <2>5. IdleExpired(m, u).queue # <<>> => IdleExpired(m, u).current # c
      BY <2>3, <2>4 DEF Sound
  <2>6. u.skips[c] = MaxIdleSkips - 1
      BY <1>3, <1>8
  <2> QED
      BY <2>2, <2>3, <2>5, <2>6 DEF c
<1>9. CASE ~(k[c] >= MaxIdleSkips)
  <2>1. IdleExpired(m, u) = AdvanceTurn(m, skipped)
      BY <1>5, <1>6, <1>9
  <2>2. Contested(m, skipped) /\ skipped.queue # <<>> /\ Len(skipped.queue) > 1
      BY <1>1, <1>6 DEF Contested
  <2>3. NextInTurn(skipped) # c
      BY <1>2, <1>6, <1>7, <2>2, NextIsAnother
  <2> QED
      BY <1>6, <2>1, <2>2, <2>3, AdvanceTurnPasses DEF c
<1> QED
    BY <1>8, <1>9

-----------------------------------------------------------------------------
(* The specification.                                                      *)

\* Besides the length of the turn: a driver that has acted, and whom nobody
\* disturbed since, has no idle timeout.
WatchInv ==
    /\ IInv
    /\ held \in Nat /\ restarts \in Nat
    /\ acted \in BOOLEAN /\ disturbed \in BOOLEAN
    /\ TurnLength
    /\ acted /\ ~disturbed => t.disarmed /\ t.idleTimer = Off

LEMMA WatchSteps == WatchNext => Next
BY DEF WatchNext, Next, Timeouts

LEMMA WatchInitHolds == WatchInit => WatchInv
<1> SUFFICES ASSUME WatchInit PROVE WatchInv
    OBVIOUS
<1>1. IInv
    BY InitSound DEF WatchInit
<1>2. TurnLength
    BY DEF WatchInit, Init, TurnLength, Contested
<1>3. held \in Nat /\ restarts \in Nat
    BY DEF WatchInit
<1>4. acted = FALSE /\ disturbed = FALSE
    BY DEF WatchInit
<1> QED
    BY <1>1, <1>2, <1>3, <1>4, Zenon DEF WatchInv

\* A turn that ends takes its history with it.
LEMMA NewTurn ==
    ASSUME IInv', NEW n \in Nat, NEW a \in Nat, NEW acts \in BOOLEAN, NEW disturbs \in BOOLEAN,
           Watch(n, a, acts, disturbs), ~SameTurn
    PROVE  WatchInv'
<1>1. held' = 0 /\ restarts' = 0 /\ acted' = FALSE /\ disturbed' = FALSE
    BY DEF Watch
<1>2. t'.timer \in Countdown(TurnDuration)
    BY DEF IInv, TypeOK, TurnState
<1>3. TurnLength'
    BY <1>1, <1>2 DEF TurnLength, Countdown, Off
<1> QED
    BY <1>1, <1>3 DEF WatchInv

\* In the same turn it is enough that the timeout is not put off but by a
\* request, and that whoever has acted keeps its idle timeout off.
LEMMA SameTurnGoesOn ==
    ASSUME WatchInv, IInv', SameTurn, NEW n \in Nat, NEW a \in Nat,
           NEW acts \in BOOLEAN, NEW disturbs \in BOOLEAN, Watch(n, a, acts, disturbs),
           \/ t'.timer + n <= t.timer
           \/ a = 1 /\ n = 0 /\ t'.timer = TurnDuration,
           \/ disturbs /\ ~acts
           \/ t'.disarmed /\ t'.idleTimer = Off
           \/ ~acts /\ t'.disarmed = t.disarmed /\ (t.idleTimer = Off => t'.idleTimer = Off)
    PROVE  WatchInv'
<1>1. /\ held' = held + n /\ restarts' = restarts + a
      /\ acted' = (acted \/ acts) /\ disturbed' = (~acts /\ (disturbed \/ disturbs))
    BY DEF Watch
<1>2. /\ held \in Nat /\ restarts \in Nat
      /\ acted \in BOOLEAN /\ disturbed \in BOOLEAN
    BY DEF WatchInv
<1>3. /\ t.timer \in 0 .. TurnDuration /\ t'.timer \in 0 .. TurnDuration
    BY DEF WatchInv, IInv, TypeOK, TurnState, TurnAlwaysEnds, SameTurn, Countdown
<1>4. held + t.timer <= TurnDuration * (1 + restarts)
  <2>1. Contested(mode, t) /\ t.timer # Off /\ TurnLength
      BY <1>3 DEF WatchInv, SameTurn, Off
  <2> QED
      BY <2>1 DEF TurnLength
<1>5. TurnDuration * (1 + (restarts + 1)) = TurnDuration * (1 + restarts) + TurnDuration
    BY <1>2
<1>6. held' + t'.timer <= TurnDuration * (1 + restarts')
  <2>1. TurnDuration * (1 + restarts) \in Nat
      BY <1>2
  <2>2. CASE t'.timer + n <= t.timer
    <3>1. held' + t'.timer <= TurnDuration * (1 + restarts)
        BY <1>1, <1>2, <1>3, <1>4, <2>1, <2>2
    <3>2. TurnDuration * (1 + restarts) <= TurnDuration * (1 + restarts')
        BY <1>1, <1>2
    <3> QED
        BY <1>1, <1>2, <1>3, <2>1, <3>1, <3>2
  <2>3. CASE a = 1 /\ n = 0 /\ t'.timer = TurnDuration
      BY <1>1, <1>2, <1>3, <1>4, <1>5, <2>1, <2>3
  <2> QED
      BY <2>2, <2>3
<1>7. TurnLength'
    BY <1>3, <1>6 DEF TurnLength, Off
<1>8. acted' /\ ~disturbed' => t'.disarmed /\ t'.idleTimer = Off
    BY <1>1, <1>2 DEF WatchInv
<1> QED
    BY <1>1, <1>2, <1>7, <1>8 DEF WatchInv

\* The holder after a step is in the queue after it, so it has not left.
LEMMA HolderStays ==
    ASSUME IInv', SameTurn
    PROVE  t.current \in Range(t'.queue)
<1>1. t'.queue # <<>> /\ t'.current = t.current
    BY DEF SameTurn, Contested
<1> QED
    BY <1>1 DEF IInv, HolderIsQueued

LEMMA WatchKeeps == WatchInv /\ [WatchNext]_<<vars, history>> => WatchInv'
<1> SUFFICES ASSUME WatchInv, [WatchNext]_<<vars, history>> PROVE WatchInv'
    OBVIOUS
<1>1. mode \in Modes /\ Sound(mode, t) /\ t \in TurnState
    BY InvariantIsSound DEF WatchInv, Sound
<1>2. IInv'
    BY WatchSteps, StepSound DEF WatchInv, vars
<1>3. SameTurn => t.known /\ t.current \in Range(t.queue) /\ t.timer \in Int
    BY <1>1 DEF SameTurn, Contested, Sound, TurnState, Countdown, Off
<1>4. CASE Tick /\ Watch(1, 0, FALSE, FALSE)
  <2>1. CASE SameTurn
    <3>1. t.timer # Off /\ t.timer # 0 /\ t.timer \in Countdown(TurnDuration)
        BY <1>1, <1>4, <2>1 DEF SameTurn, Sound, Tick, Due, TurnState
    <3>2. /\ t'.timer = CountDown(t.timer) /\ t'.disarmed = t.disarmed
          /\ t'.idleTimer = CountDown(t.idleTimer)
        BY <1>1, <1>4 DEF Tick, Elapse, TurnState
    <3>3. t'.timer + 1 <= t.timer
        BY <3>1, <3>2 DEF CountDown, Countdown, Off
    <3>4. t.idleTimer = Off => t'.idleTimer = Off
        BY <3>2 DEF CountDown, Off
    <3> QED
        BY <1>2, <1>4, <2>1, <3>2, <3>3, <3>4, SameTurnGoesOn
  <2> QED
      BY <1>2, <1>4, <2>1, NewTurn
<1>5. ASSUME NEW s \in Sockets, NEW force \in BOOLEAN,
             RequestControl(s, force), Watch(0, 1, FALSE, TRUE)
      PROVE  WatchInv'
  <2>1. SameTurn => t'.timer = TurnDuration
      BY <1>1, <1>5, DriverAddedRestarts DEF RequestControl, SameTurn
  <2> QED
      BY <1>2, <1>5, <2>1, NewTurn, SameTurnGoesOn
<1>6. ASSUME NEW m \in Modes, SetMode(m), Watch(0, 1, FALSE, FALSE) PROVE WatchInv'
  <2>1. ~SameTurn
      BY <1>6 DEF SetMode, SameTurn, Contested
  <2> QED
      BY <1>2, <1>6, <2>1, NewTurn
<1>7. ASSUME NEW s \in Sockets, ReleaseControl(s), Watch(0, 0, FALSE, TRUE) PROVE WatchInv'
  <2>1. SameTurn => t'.timer + 0 <= t.timer
    <3> SUFFICES ASSUME SameTurn PROVE t'.timer + 0 <= t.timer
        OBVIOUS
    <3>1. Distinct(t.queue) /\ t.queue \in Seq(Sockets)
        BY <1>1 DEF Sound, TurnState
    <3>2. t'.queue = Without(t.queue, s)
          /\ (t.current # s => t'.timer = t.timer)
        BY <1>1, <1>3, <1>7, <3>1, DriverRemovedPasses DEF ReleaseControl
    <3>3. s \notin Range(t'.queue)
        BY <3>1, <3>2, WithoutQueue
    <3> QED
        BY <1>2, <1>3, <3>2, <3>3, HolderStays
  <2> QED
      BY <1>2, <1>7, <2>1, NewTurn, SameTurnGoesOn
<1>8. ASSUME NEW s \in Sockets, NEW motion \in BOOLEAN,
             Command(s, motion), Watch(0, 0, s = t.current, FALSE)
      PROVE  WatchInv'
  <2> DEFINE d == [t EXCEPT !.moving = motion]
  <2>1. /\ d.known = t.known /\ d.current = t.current /\ d.timer = t.timer
        /\ d.disarmed = t.disarmed /\ d.idleTimer = t.idleTimer /\ d \in TurnState
      BY <1>1 DEF TurnState
  <2>2. t' = IF d.known /\ d.current = s
             THEN [d EXCEPT !.disarmed = TRUE, !.idleTimer = Off, !.idleDeadline = Off]
             ELSE d
      BY <1>8 DEF Command, RecordActivity
  <2> HIDE DEF d
  <2>3. t'.timer = t.timer
      BY <2>1, <2>2 DEF TurnState
  <2>4. t.known /\ t.current = s => t'.disarmed /\ t'.idleTimer = Off
      BY <2>1, <2>2 DEF TurnState
  <2>5. t.current # s => t'.disarmed = t.disarmed /\ t'.idleTimer = t.idleTimer
      BY <2>1, <2>2
  <2>6. SameTurn => t'.timer + 0 <= t.timer
      BY <1>3, <2>3
  <2>7. CASE s = t.current
      BY <1>2, <1>3, <1>8, <2>4, <2>6, <2>7, NewTurn, SameTurnGoesOn
  <2>8. CASE s # t.current
      BY <1>2, <1>3, <1>8, <2>5, <2>6, <2>8, NewTurn, SameTurnGoesOn
  <2> QED
      BY <2>7, <2>8
<1>9. CASE (CleanupRover \/ Timeouts) /\ Watch(0, 0, FALSE, FALSE)
  <2>1. CASE CleanupRover
    <3>1. ~SameTurn
        BY <2>1 DEF CleanupRover, NoQueue, SameTurn, Contested
    <3> QED
        BY <1>2, <1>9, <3>1, NewTurn
  <2>2. CASE TurnTimeout
    <3>1. ~SameTurn
        BY <1>1, <2>2, TurnExpiredPasses DEF TurnTimeout, SameTurn
    <3> QED
        BY <1>2, <1>9, <3>1, NewTurn
  <2>3. CASE IdleTimeoutFires
    <3>1. ~SameTurn
        BY <1>1, <2>3, IdleExpiredPasses DEF IdleTimeoutFires, SameTurn, Contested
    <3> QED
        BY <1>2, <1>9, <3>1, NewTurn
  <2> QED
      BY <1>9, <2>1, <2>2, <2>3 DEF Timeouts
<1>10. CASE UNCHANGED <<vars, history>>
    BY <1>2, <1>10 DEF WatchInv, TurnLength, vars, history
<1> QED
    BY <1>4, <1>5, <1>6, <1>7, <1>8, <1>9, <1>10 DEF WatchNext

THEOREM WatchInvariant == WatchSpec => []WatchInv
BY WatchInitHolds, WatchKeeps, PTL DEF WatchSpec

\* However departures, commands, skips and mode changes fall, a turn that
\* others wait for lasts at most TURN_DURATION_MS, and as much again for every
\* request made during it (turnService.js syncState, scheduleNextTurn).
THEOREM TurnsAreBounded == FairWatchSpec => []TurnLength
<1>1. WatchInv => TurnLength
    BY DEF WatchInv
<1> QED
    BY <1>1, WatchInvariant, PTL DEF FairWatchSpec

LEMMA TimeoutStopsStep ==
    ASSUME IInv, TurnTimeout \/ IdleTimeoutFires, t'.active # t.active
    PROVE  ~t'.moving
<1>1. mode \in Modes /\ Sound(mode, t)
    BY InvariantIsSound
<1>2. CASE TurnTimeout
    BY <1>1, <1>2, TurnExpiredPasses DEF TurnTimeout
<1>3. CASE IdleTimeoutFires
    BY <1>1, <1>3, IdleExpiredPasses DEF IdleTimeoutFires
<1> QED
    BY <1>2, <1>3

\* When a timeout passes the turn the motors stop in the same step
\* (turnService.js advanceTurn, handleIdleTimeout).
THEOREM TimeoutsStop == FairWatchSpec => TimeoutStops
<1>1. IInv => ((TurnTimeout \/ IdleTimeoutFires) /\ t'.active # t.active => ~t'.moving)
    BY TimeoutStopsStep
<1>2. WatchInv => IInv
    BY DEF WatchInv
<1> QED
    BY <1>1, <1>2, WatchInvariant, PTL DEF FairWatchSpec, TimeoutStops

LEMMA IdleSkipsStep == WatchInv => (IdleTimeoutFires /\ acted => disturbed)
<1>1. IdleTimeoutFires => t.idleTimer # Off
    BY DEF IdleTimeoutFires, Off
<1> QED
    BY <1>1, Zenon DEF WatchInv

LEMMA RemovalStep ==
    ASSUME IInv, Tick \/ TurnTimeout \/ IdleTimeoutFires,
           NEW s \in Range(t.queue) \ Range(t'.queue)
    PROVE  s = t.current /\ t.skips[s] = MaxIdleSkips - 1
<1>1. mode \in Modes /\ Sound(mode, t) /\ t \in TurnState
    BY InvariantIsSound DEF Sound
<1>2. CASE Tick
  <2>1. t'.queue = t.queue
      BY <1>1, <1>2 DEF Tick, Elapse, TurnState
  <2> QED
      BY <2>1
<1>3. CASE TurnTimeout
    BY <1>1, <1>3, TurnExpiredPasses DEF TurnTimeout
<1>4. CASE IdleTimeoutFires
    BY <1>1, <1>4, IdleExpiredPasses DEF IdleTimeoutFires
<1> QED
    BY <1>2, <1>3, <1>4

\* No driver that has acted is skipped as idle unless somebody requested or
\* released control since, no timeout takes anybody out of the queue but the
\* driver that used up its skips, and that driver is out (turnService.js
\* recordActivity, handleIdleTimeout).
THEOREM OnlyIdlersSkipped == FairWatchSpec => OnlyIdlersAreSkipped
<1>1. IInv => (Tick \/ TurnTimeout \/ IdleTimeoutFires =>
                  \A s \in Range(t.queue) \ Range(t'.queue) :
                      /\ s = t.current
                      /\ t.skips[s] = MaxIdleSkips - 1)
    BY RemovalStep
<1>2. WatchInv => IInv /\ SkipsOfQueued
    BY DEF WatchInv, IInv
<1> QED
    BY <1>1, <1>2, IdleSkipsStep, WatchInvariant, PTL
       DEF FairWatchSpec, OnlyIdlersAreSkipped, OnlyIdlersAreRemoved

-----------------------------------------------------------------------------
(***************************************************************************)
(* The order of turns (TurnsComeInOrder).  Who waits is as many turns away *)
(* from its own as there are places in the queue from the driver's to its, *)
(* past the end and on from the head (TurnsAway).  What becomes of that is *)
(* arithmetic once it is known what a call does to the queue, to the       *)
(* driver and to the places of the others.                                 *)
(***************************************************************************)
TurnsAway(n, driver, place) ==
    IF place >= driver THEN place - driver ELSE n - driver + place

LEMMA PassIsNearer ==
    ASSUME NEW n \in Nat, n > 1, NEW driver \in 1 .. n, NEW place \in 1 .. n, place # driver
    PROVE  TurnsAway(n, (driver % n) + 1, place) = TurnsAway(n, driver, place) - 1
<1>1. CASE driver = n
  <2>1. driver % n = 0
      BY <1>1
  <2> QED
      BY <1>1, <2>1 DEF TurnsAway
<1>2. CASE driver # n
  <2>1. driver % n = driver
      BY <1>2
  <2> QED
      BY <1>2, <2>1 DEF TurnsAway
<1> QED
    BY <1>1, <1>2

LEMMA JoinIsBehind ==
    ASSUME NEW n \in Nat, NEW driver \in 1 .. n, NEW place \in 1 .. n
    PROVE  \/ TurnsAway(n + 1, driver, place) = TurnsAway(n, driver, place)
           \/ TurnsAway(n + 1, driver, place) = TurnsAway(n, driver, place) + 1
BY DEF TurnsAway

\* The place of a client when the one at the place `gone' has left.
Closed(place, gone) == IF place < gone THEN place ELSE place - 1

LEMMA LeaveIsNoFurther ==
    ASSUME NEW n \in Nat, NEW driver \in 1 .. n, NEW place \in 1 .. n, NEW gone \in 1 .. n,
           gone # driver, gone # place
    PROVE  TurnsAway(n - 1, Closed(driver, gone), Closed(place, gone))
               <= TurnsAway(n, driver, place)
BY DEF TurnsAway, Closed

LEMMA PlaceOf ==
    ASSUME NEW q \in Seq(Sockets), Distinct(q), NEW i \in 1 .. Len(q)
    PROVE  Position(q, q[i]) = i
BY DEF Position, Distinct

LEMMA PlaceInQueue ==
    ASSUME NEW q \in Seq(Sockets), NEW s \in Range(q)
    PROVE  Position(q, s) \in 1 .. Len(q) /\ q[Position(q, s)] = s
BY DEF Position, Range

\* A new client changes nobody's place, and one that leaves closes the ranks.
LEMMA PlaceAfterJoin ==
    ASSUME NEW q \in Seq(Sockets), Distinct(q), NEW s \in Sockets \ Range(q), NEW c \in Range(q)
    PROVE  Position(Append(q, s), c) = Position(q, c)
<1> DEFINE e == Append(q, s)
<1>1. Position(q, c) \in 1 .. Len(q) /\ q[Position(q, c)] = c
    BY PlaceInQueue
<1>2. e \in Seq(Sockets) /\ Distinct(e)
    BY JoinQueue
<1>3. Position(q, c) \in 1 .. Len(e) /\ e[Position(q, c)] = c
    BY <1>1
<1> HIDE DEF e
<1>4. Position(e, e[Position(q, c)]) = Position(q, c)
    BY <1>2, <1>3, PlaceOf
<1> QED
    BY <1>3, <1>4 DEF e

LEMMA PlaceAfterLeave ==
    ASSUME NEW q \in Seq(Sockets), Distinct(q), NEW s \in Range(q), NEW c \in Range(q) \ {s}
    PROVE  /\ Position(q, c) # Position(q, s)
           /\ Position(Without(q, s), c) = Closed(Position(q, c), Position(q, s))
<1> DEFINE w == Without(q, s)
           p == Position(q, s)
           k == Position(q, c)
<1>1. p \in 1 .. Len(q) /\ q[p] = s /\ k \in 1 .. Len(q) /\ q[k] = c /\ s \in Sockets
    BY PlaceInQueue DEF Range
<1>2. w \in Seq(Sockets) /\ Distinct(w) /\ Len(w) = Len(q) - 1
    BY <1>1, WithoutQueue
<1>3. \A i \in 1 .. Len(q) - 1 : w[i] = IF i < p THEN q[i] ELSE q[i + 1]
    BY <1>1 DEF Without
<1> HIDE DEF w, p, k
<1>4. k # p
    BY <1>1
<1>5. Closed(k, p) \in 1 .. Len(w)
    BY <1>1, <1>2, <1>4 DEF Closed
<1>6. w[Closed(k, p)] = c
  <2>1. CASE k < p
      BY <1>1, <1>2, <1>3, <1>5, <2>1 DEF Closed
  <2>2. CASE ~(k < p)
    <3>1. Closed(k, p) = k - 1 /\ ~(k - 1 < p) /\ (k - 1) + 1 = k
        BY <1>1, <1>4, <2>2 DEF Closed
    <3> QED
        BY <1>1, <1>2, <1>3, <1>5, <3>1
  <2> QED
      BY <2>1, <2>2
<1>7. Position(w, w[Closed(k, p)]) = Closed(k, p)
    BY <1>2, <1>5, PlaceOf
<1> QED
    BY <1>4, <1>6, <1>7 DEF w, p, k

\* What holds of a record in which somebody waits.
LEMMA WaitingInQueue ==
    ASSUME mode \in Modes, Sound(mode, t), Contested(mode, t)
    PROVE  /\ t.queue \in Seq(Sockets) /\ Distinct(t.queue) /\ Len(t.queue) > 1
           /\ t.active = t.current /\ t.active \in Range(t.queue) /\ t.known
           /\ mode = "turns"
  BY DEF Sound, TurnState, Contested

\* The driver is passed over to the next.
LEMMA PassesInOrder ==
    ASSUME mode \in Modes, Sound(mode, t), Contested(mode, t),
           t'.queue = t.queue, t'.active = NextInTurn(t),
           NEW s \in Range(t.queue) \ {t.active}
    PROVE  Ahead(t', s) = Ahead(t, s) - 1
<1> DEFINE q == t.queue
           n == Len(q)
           d == Position(q, t.active)
           p == Position(q, s)
<1>1. q \in Seq(Sockets) /\ Distinct(q) /\ n \in Nat /\ n > 1 /\ t.active \in Range(q)
    BY WaitingInQueue
<1>2. d \in 1 .. n /\ q[d] = t.active /\ p \in 1 .. n /\ q[p] = s
    BY <1>1, PlaceInQueue
<1>3. t'.active = q[(d % n) + 1]
    BY WaitingInQueue DEF NextInTurn
<1>4. Ahead(t, s) = TurnsAway(n, d, p)
    BY DEF Ahead, TurnsAway
<1>5. Ahead(t', s) = TurnsAway(n, Position(q, t'.active), p)
    BY DEF Ahead, TurnsAway
<1> HIDE DEF q, n, d, p
<1>6. (d % n) + 1 \in 1 .. n
    BY <1>1, <1>2
<1>7. Position(q, t'.active) = (d % n) + 1
    BY <1>1, <1>3, <1>6, PlaceOf DEF n
<1>8. p # d
    BY <1>2
<1> QED
    BY <1>1, <1>2, <1>4, <1>5, <1>7, <1>8, PassIsNearer

\* The queue and the driver stay, or somebody joins, or another leaves.
LEMMA OthersKeepOrder ==
    ASSUME mode \in Modes, Sound(mode, t), Contested(mode, t), t'.active = t.active,
           NEW r \in Sockets, r # t.active,
           \/ t'.queue = t.queue
           \/ r \notin Range(t.queue) /\ t'.queue = Append(t.queue, r)
           \/ t'.queue = Without(t.queue, r),
           NEW s \in (Range(t.queue) \cap Range(t'.queue)) \ {t.active}
    PROVE  \/ Ahead(t', s) <= Ahead(t, s)
           \/ Len(t'.queue) > Len(t.queue) /\ Ahead(t', s) = Ahead(t, s) + 1
<1> DEFINE q == t.queue
           n == Len(q)
           d == Position(q, t.active)
           p == Position(q, s)
<1>1. q \in Seq(Sockets) /\ Distinct(q) /\ n \in Nat /\ n > 1 /\ t.active \in Range(q)
    BY WaitingInQueue
<1>2. d \in 1 .. n /\ q[d] = t.active /\ p \in 1 .. n /\ q[p] = s
    BY <1>1, PlaceInQueue
<1>3. Ahead(t, s) = TurnsAway(n, d, p)
    BY DEF Ahead, TurnsAway
<1>4. Ahead(t', s) = TurnsAway(Len(t'.queue), Position(t'.queue, t.active), Position(t'.queue, s))
    BY DEF Ahead, TurnsAway
<1> HIDE DEF n, d, p
<1>5. TurnsAway(n, d, p) \in Int
    BY <1>1, <1>2 DEF TurnsAway
<1>6. CASE t'.queue = q
    BY <1>3, <1>4, <1>5, <1>6 DEF n, d, p
<1>7. CASE r \notin Range(q) /\ t'.queue = Append(q, r)
  <2>1. Len(t'.queue) = n + 1
      BY <1>1, <1>7 DEF n
  <2>2. Position(t'.queue, t.active) = d /\ Position(t'.queue, s) = p
      BY <1>1, <1>7, PlaceAfterJoin DEF d, p
  <2>3. \/ Ahead(t', s) = Ahead(t, s)
        \/ Ahead(t', s) = Ahead(t, s) + 1
      BY <1>1, <1>2, <1>3, <1>4, <2>1, <2>2, JoinIsBehind
  <2>4. Len(t'.queue) > Len(t.queue)
      BY <1>1, <2>1 DEF n
  <2> QED
      BY <1>3, <1>5, <2>3, <2>4
<1>8. CASE r \in Range(q) /\ t'.queue = Without(q, r)
  <2> DEFINE g == Position(q, r)
  <2>1. g \in 1 .. n /\ Len(t'.queue) = n - 1
      BY <1>1, <1>8, PlaceInQueue, WithoutQueue DEF n
  <2>2. s # r
    <3>1. Range(t'.queue) = Range(q) \ {r}
        BY <1>1, <1>8, WithoutQueue
    <3> QED
        BY <3>1
  <2>3. /\ d # g /\ Position(t'.queue, t.active) = Closed(d, g)
        /\ p # g /\ Position(t'.queue, s) = Closed(p, g)
      BY <1>1, <1>8, <2>2, PlaceAfterLeave DEF d, p
  <2> HIDE DEF g
  <2>4. Ahead(t', s) <= Ahead(t, s)
      BY <1>1, <1>2, <1>3, <1>4, <2>1, <2>3, LeaveIsNoFurther
  <2> QED
      BY <2>4
<1>9. CASE r \notin Range(q) /\ t'.queue = Without(q, r)
    BY <1>1, <1>6, <1>9, WithoutQueue
<1> QED
    BY <1>6, <1>7, <1>8, <1>9

\* A request that does not seize the turn leaves it where it is.
LEMMA DriverAddedJoins ==
    ASSUME NEW m \in Modes, NEW u \in TurnState, NEW s \in Sockets, u.current # NoOne,
           Contested(m, DriverAdded(m, u, s, FALSE))
    PROVE  LET v == DriverAdded(m, u, s, FALSE)
           IN  /\ v.queue = IF s \in Range(u.queue) THEN u.queue ELSE Append(u.queue, s)
               /\ v.current = u.current
<1> DEFINE e == IF s \in Range(u.queue) THEN u.queue ELSE Append(u.queue, s)
           a == [u EXCEPT !.known = TRUE, !.queue = e]
<1>1. DriverAdded(m, u, s, FALSE) = SyncState(m, a)
  <2>1. a = [u EXCEPT !.known = TRUE, !.queue = e, !.current = u.current]
      BY DEF TurnState
  <2> QED
      BY <2>1 DEF DriverAdded
<1>2. a \in TurnState /\ a.queue = e /\ a.current = u.current
  <2>1. e \in Seq(Sockets)
      BY DEF TurnState
  <2> QED
      BY <2>1 DEF TurnState
<1> HIDE DEF a, e
<1>3. Contested(m, a)
    BY <1>1, <1>2 DEF SyncState, Settle, TimersOff, Contested, TurnState
<1>4. SyncState(m, a) = BeginTurn(m, a, u.current)
    BY <1>2, <1>3 DEF SyncState
<1>5. /\ BeginTurn(m, a, u.current).queue = a.queue
      /\ BeginTurn(m, a, u.current).current = u.current
    BY <1>2, BeginTurnKeeps
<1> QED
    BY <1>1, <1>2, <1>4, <1>5 DEF e

LEMMA RequestKeepsOrder ==
    ASSUME IInv, IInv', NEW r \in Sockets, NEW force \in BOOLEAN, RequestControl(r, force),
           Contested(mode, t), Contested(mode', t'),
           NEW s \in (Range(t.queue) \cap Range(t'.queue)) \ {t.active}
    PROVE  \/ Ahead(t', s) <= Ahead(t, s)
           \/ Len(t'.queue) > Len(t.queue) /\ Ahead(t', s) = Ahead(t, s) + 1
           \/ \E a \in Admins : RequestControl(a, TRUE)
<1>1. mode \in Modes /\ Sound(mode, t) /\ t \in TurnState
    BY InvariantIsSound DEF Sound
<1>2. CASE force
  <2>1. r \in Admins /\ RequestControl(r, TRUE)
      BY <1>2 DEF RequestControl
  <2> QED
      BY <2>1
<1>3. CASE ~force
  <2>1. t' = DriverAdded(mode, t, r, FALSE) /\ mode' = mode
      BY <1>3 DEF RequestControl
  <2>2. /\ t.active = t.current /\ t.active \in Range(t.queue) /\ t.current # NoOne
        /\ t.queue \in Seq(Sockets)
      BY <1>1, WaitingInQueue, QueuedClient
  <2>3. /\ t'.queue = IF r \in Range(t.queue) THEN t.queue ELSE Append(t.queue, r)
        /\ t'.current = t.current
      BY <1>1, <2>1, <2>2, DriverAddedJoins
  <2>4. t'.active = t'.current
      BY DEF IInv, HolderIsQueued, Contested
  <2>5. PICK c \in Sockets : c # t.active /\ (r \notin Range(t.queue) => c = r)
    <3>1. CASE r # t.active
        BY <3>1
    <3>2. CASE r = t.active
        BY <2>2, <3>2 DEF Range
    <3> QED
        BY <3>1, <3>2
  <2> QED
      BY <1>1, <2>2, <2>3, <2>4, <2>5, OthersKeepOrder
<1> QED
    BY <1>2, <1>3

LEMMA ReleaseKeepsOrder ==
    ASSUME IInv, IInv', NEW r \in Sockets, ReleaseControl(r),
           Contested(mode, t), Contested(mode', t'), t.active \in Range(t'.queue),
           NEW s \in (Range(t.queue) \cap Range(t'.queue)) \ {t.active}
    PROVE  \/ Ahead(t', s) <= Ahead(t, s)
           \/ Len(t'.queue) > Len(t.queue) /\ Ahead(t', s) = Ahead(t, s) + 1
<1>1. mode \in Modes /\ Sound(mode, t) /\ t \in TurnState
    BY InvariantIsSound DEF Sound
<1>2. /\ t.active = t.current /\ t.known /\ t.queue \in Seq(Sockets) /\ Distinct(t.queue)
    BY <1>1, WaitingInQueue
<1>3. /\ t'.queue = Without(t.queue, r)
      /\ t.current # r => t'.current = t.current
    BY <1>1, <1>2, DriverRemovedPasses DEF ReleaseControl
<1>4. r # t.active
    BY <1>2, <1>3, WithoutQueue
<1>5. t'.active = t.active
    BY <1>2, <1>3, <1>4 DEF IInv, HolderIsQueued, Contested
<1> QED
    BY <1>1, <1>3, <1>4, <1>5, OthersKeepOrder

LEMMA TurnTimeoutInOrder ==
    ASSUME IInv, TurnTimeout, Contested(mode, t),
           NEW s \in (Range(t.queue) \cap Range(t'.queue)) \ {t.active}
    PROVE  Ahead(t', s) = Ahead(t, s) - 1
<1> DEFINE w == [t EXCEPT !.timer = Off]
<1>1. mode \in Modes /\ Sound(mode, t) /\ t.known
    BY InvariantIsSound, WaitingInQueue
<1>2. /\ w \in TurnState /\ w.known /\ w.queue = t.queue /\ w.current = t.current
      /\ w.skips = t.skips
    BY <1>1 DEF Sound, TurnState, Countdown
<1>3. Workable(w) /\ Contested(mode, w)
    BY <1>1, <1>2 DEF Workable, Sound, SkipsOK, Contested
<1>4. t' = AdvanceTurn(mode, w) /\ NextInTurn(w) = NextInTurn(t)
    BY <1>2 DEF TurnTimeout, TurnExpired, NextInTurn
<1> HIDE DEF w
<1>5. t'.queue = t.queue /\ t'.active = NextInTurn(t)
    BY <1>1, <1>2, <1>3, <1>4, AdvanceHolder
<1> QED
    BY <1>1, <1>5, PassesInOrder


LEMMA IdleTimeoutInOrder ==
    ASSUME IInv, IdleTimeoutFires, Contested(mode, t), t.active \in Range(t'.queue),
           NEW s \in (Range(t.queue) \cap Range(t'.queue)) \ {t.active}
    PROVE  Ahead(t', s) = Ahead(t, s) - 1
<1>1. mode \in Modes /\ Sound(mode, t) /\ t.queue \in Seq(Sockets) /\ Distinct(t.queue)
      /\ t.active = t.current
    BY InvariantIsSound, WaitingInQueue
<1>2. PICK u : /\ Skipped(u) /\ t.known /\ t.current \in Sockets
               /\ \/ t' = DriverRemoved(mode, u, t.current)
                  \/ Workable(u) /\ t' = AdvanceTurn(mode, u)
    BY <1>1, IdleCases
<1>3. CASE t' = DriverRemoved(mode, u, t.current)
  <2>1. u \in TurnState /\ u.known /\ u.queue = t.queue
      BY <1>2 DEF Skipped
  <2>2. DriverRemoved(mode, u, t.current).queue = Without(u.queue, t.current)
      BY <1>1, <1>2, <2>1, DriverRemovedPasses
  <2>3. t'.queue = Without(t.queue, t.current)
      BY <1>3, <2>1, <2>2
  <2> QED
      BY <1>1, <1>2, <2>3, WithoutQueue
<1>4. CASE Workable(u) /\ t' = AdvanceTurn(mode, u)
  <2>1. Contested(mode, u) /\ NextInTurn(u) = NextInTurn(t)
      BY <1>2 DEF Skipped, Contested, NextInTurn
  <2>2. t'.queue = t.queue /\ t'.active = NextInTurn(t)
      BY <1>1, <1>2, <1>4, <2>1, AdvanceHolder DEF Skipped
  <2> QED
      BY <1>1, <2>2, PassesInOrder
<1> QED
    BY <1>2, <1>3, <1>4

LEMMA AheadIsNumber ==
    ASSUME IInv, Contested(mode, t), NEW s \in Range(t.queue)
    PROVE  Ahead(t, s) \in Int
<1>1. mode \in Modes /\ Sound(mode, t)
    BY InvariantIsSound
<1>2. t.queue \in Seq(Sockets) /\ t.active \in Range(t.queue)
    BY <1>1, WaitingInQueue
<1>3. Position(t.queue, s) \in Int /\ Position(t.queue, t.active) \in Int /\ Len(t.queue) \in Int
    BY <1>2, PlaceInQueue
<1> QED
    BY <1>3 DEF Ahead

LEMMA StepInOrder == IInv /\ IInv' /\ [Next]_vars => NobodyIsSetBack
<1> SUFFICES ASSUME IInv, IInv', [Next]_vars,
                    Contested(mode, t), Contested(mode', t'), t.active \in Range(t'.queue),
                    NEW s \in (Range(t.queue) \cap Range(t'.queue)) \ {t.active}
             PROVE  /\ TurnTimeout \/ IdleTimeoutFires => Ahead(t', s) = Ahead(t, s) - 1
                    /\ \/ Ahead(t', s) <= Ahead(t, s)
                       \/ Len(t'.queue) > Len(t.queue) /\ Ahead(t', s) = Ahead(t, s) + 1
                       \/ \E a \in Admins : RequestControl(a, TRUE)
    BY DEF NobodyIsSetBack
<1>0. Ahead(t, s) \in Int /\ t \in TurnState
    BY AheadIsNumber DEF IInv, TypeOK
<1>1. TurnTimeout \/ IdleTimeoutFires => Ahead(t', s) = Ahead(t, s) - 1
    BY TurnTimeoutInOrder, IdleTimeoutInOrder
<1>2. TurnTimeout \/ IdleTimeoutFires => Ahead(t', s) <= Ahead(t, s)
  <2>1. \A i \in Int : i - 1 <= i
      OBVIOUS
  <2> QED
      BY <1>0, <1>1, <2>1
<1>3. t'.queue = t.queue /\ t'.active = t.active => Ahead(t', s) <= Ahead(t, s)
  <2>1. t'.queue = t.queue /\ t'.active = t.active => Ahead(t', s) = Ahead(t, s)
      BY DEF Ahead
  <2>2. \A i \in Int : i <= i
      OBVIOUS
  <2> QED
      BY <1>0, <2>1, <2>2
<1>4. ASSUME NEW m \in Modes, SetMode(m) PROVE FALSE
    BY <1>4 DEF SetMode, Contested
<1>5. ASSUME NEW r \in Sockets, NEW force \in BOOLEAN, RequestControl(r, force)
      PROVE  \/ Ahead(t', s) <= Ahead(t, s)
             \/ Len(t'.queue) > Len(t.queue) /\ Ahead(t', s) = Ahead(t, s) + 1
             \/ \E a \in Admins : RequestControl(a, TRUE)
    BY <1>5, RequestKeepsOrder
<1>6. ASSUME NEW r \in Sockets, ReleaseControl(r)
      PROVE  \/ Ahead(t', s) <= Ahead(t, s)
             \/ Len(t'.queue) > Len(t.queue) /\ Ahead(t', s) = Ahead(t, s) + 1
    BY <1>6, ReleaseKeepsOrder
<1>7. ~CleanupRover
    BY DEF CleanupRover, NoQueue, Contested
<1>8. (\E r \in Sockets, motion \in BOOLEAN : Command(r, motion)) \/ Tick \/ UNCHANGED vars
          => t'.queue = t.queue /\ t'.active = t.active
    BY <1>0 DEF Command, RecordActivity, Tick, Elapse, vars, TurnState
<1> QED
    BY <1>1, <1>2, <1>3, <1>4, <1>5, <1>6, <1>7, <1>8 DEF Next

\* A timeout brings everybody who waits one turn nearer and stops the motors,
\* and nobody is set back but by a new client, by one turn, or by an admin
\* who seizes the turn or a driver that leaves (turnService.js advanceTurn,
\* driverAdded, driverRemoved).
THEOREM EverybodyComesNearer == FairWatchSpec => TurnsComeInOrder
<1>1. WatchInv => IInv
    BY DEF WatchInv
<1>2. WatchInv' => IInv'
    BY DEF WatchInv
<1>3. [WatchNext]_<<vars, history>> => [Next]_vars
    BY WatchSteps DEF vars
<1>4. WatchInv /\ WatchInv' /\ [WatchNext]_<<vars, history>> => NobodyIsSetBack
    BY <1>1, <1>2, <1>3, StepInOrder
<1> QED
    BY <1>4, TimeoutsStop, WatchInvariant, PTL DEF FairWatchSpec, WatchSpec, TurnsComeInOrder
=============================================================================
