--------------------------- MODULE TurnRefinement ---------------------------
(* The turn service implements the rotation of turns. *)
EXTENDS TurnService

Rotation == INSTANCE TurnRotation WITH
                Clients <- Sockets, Nobody <- NoOne, Privileged <- Admins,
                order <- t.queue, holder <- t.active

\* Every step of the turn service, whichever of its branches it takes, is a
\* step of the rotation or leaves the line and the holder as they are: the
\* turn goes to nobody by any way the rotation does not name.
ImplementsRotation == Rotation!RotationSpec
=============================================================================
