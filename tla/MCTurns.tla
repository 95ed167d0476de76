------------------------------ MODULE MCTurns ------------------------------
(* TurnWatch with three clients, one of them an admin. *)
EXTENDS TurnWatch

CONSTANTS c1, c2, c3

Clients == {c1, c2, c3}
AdminClients == {c3}
=============================================================================
