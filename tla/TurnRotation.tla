---------------------------- MODULE TurnRotation ----------------------------
(***************************************************************************)
(* What the turns of a rover promise, without timers, modes or counters: a *)
(* line of clients and one of them, the holder, who may drive.  The turn   *)
(* is passed along the line; it comes to a new client only at its head, by *)
(* passing, or when a privileged client seizes it.                         *)
(***************************************************************************)
EXTENDS Integers, Sequences, SequencesExt

CONSTANTS Clients, Nobody, Privileged

VARIABLES order, holder

rvars == <<order, holder>>

Successor ==
    LET i == CHOOSE j \in DOMAIN order : order[j] = holder
    IN  order[(i % Len(order)) + 1]

AtHead(line) == IF line = <<>> THEN Nobody ELSE line[1]

RotationInit == order = <<>> /\ holder = Nobody

\* A client takes its place at the end of the line.
Join(c) ==
    /\ c \notin Range(order)
    /\ order' = Append(order, c)
    /\ holder' = IF order = <<>> THEN c ELSE holder

\* A privileged client, in the line or new to it, takes the turn at once.
Seize(c) ==
    /\ c \in Privileged
    /\ order' = IF c \in Range(order) THEN order ELSE Append(order, c)
    /\ holder' = c

\* A client leaves and the others keep their order; if it held the turn, the
\* head of the line gets it.
Leave(c) ==
    /\ \E i \in DOMAIN order :
           /\ order[i] = c
           /\ order' = [j \in 1 .. Len(order) - 1 |->
                           IF j < i THEN order[j] ELSE order[j + 1]]
    /\ holder' = IF holder = c THEN AtHead(order') ELSE holder

Pass ==
    /\ Len(order) > 1
    /\ holder' = Successor
    /\ UNCHANGED order

\* Turns are no longer taken: the head of the line drives.
Restart ==
    /\ order # <<>>
    /\ holder' = AtHead(order)
    /\ UNCHANGED order

\* The rover is gone.
Disband == order' = <<>> /\ holder' = Nobody

RotationNext ==
    \/ \E c \in Clients : Join(c) \/ Seize(c) \/ Leave(c)
    \/ Pass
    \/ Restart
    \/ Disband

RotationSpec == RotationInit /\ [][RotationNext]_rvars
=============================================================================
