---------------------------- MODULE MCRoverServer ----------------------------
(* RoverServer with two clients, one of whom can log in as an admin or as a *)
(* lockdown admin, and two rovers, one of which may stand in its dock.      *)
EXTENDS RoverServer

CONSTANTS c1, c2, r1, r2

Clients == {c1, c2}
AllRovers == {r1, r2}
Docks == {r1}
Logins == {<<c2, "admin">>, <<c2, "lockdown">>}
=============================================================================
