--------------------------- MODULE MCPlaySession ---------------------------
(***************************************************************************)
(* Behaviours of a session, each about one of the copies the two ends keep *)
(* of the player, with the deaths and respawns that replace it.            *)
(***************************************************************************)
EXTENDS PlaySession

MCStill ==
  [keys |-> {}, slots |-> {}, packets |-> {}, moves |-> {},
   grounds |-> {TRUE}, collides |-> {FALSE}]

MCSneaks  == [MCStill EXCEPT !.keys = {"sneak"}, !.packets = {"health", "respawn"}]
MCSprints == [MCStill EXCEPT !.keys = {"sneak", "sprint", "forward"},
                             !.packets = {"respawn"}, !.collides = BOOLEAN]
MCWalks   == [MCStill EXCEPT !.packets = {"position", "respawn"}, !.moves = {0, 1, 3}]
MCFlies   == [MCStill EXCEPT !.keys = {"jump"}, !.packets = {"abilities", "respawn"},
                             !.grounds = BOOLEAN]
MCSelects == [MCStill EXCEPT !.slots = {0, 1}, !.packets = {"health", "slot"}]
MCRejoins == [MCStill EXCEPT !.keys = {"sneak"}, !.packets = {"join"}]

MCScenarios == {MCSneaks, MCSprints, MCWalks, MCFlies, MCSelects, MCRejoins}
MCAgain     == {MCRejoins}
=============================================================================
