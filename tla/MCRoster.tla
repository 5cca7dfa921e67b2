------------------------------- MODULE MCRoster -------------------------------
(***************************************************************************)
(* The player list and the scoreboard with a few names.                    *)
(***************************************************************************)
EXTENDS Roster, TLC

CONSTANTS p1, p2, look1, look2, kills, red, blue

MCPlayers    == {p1, p2}
MCLooks      == {look1, look2}
MCObjectives == {kills}
MCTeams      == {red, blue}
MCSlots      == {0, 1}

\* The names of players and of teams mean nothing.
Names == Permutations({p1, p2}) \cup Permutations({red, blue})
=============================================================================
