----------------------------- MODULE Scoreboard -----------------------------
(***************************************************************************)
(* Abstract: the scoreboard the server's packets speak of.  An entry has a *)
(* score in an objective or has none, a slot shows an objective that       *)
(* exists or nothing, and an entry is in at most one team, which exists.   *)
(* There is one relation for each, so nothing can disagree; the client's   *)
(* own tables (module Roster) implement it.                                *)
(***************************************************************************)
CONSTANTS Entries, Objectives, Teams, Slots, Nothing

VARIABLES objectives, \* the objectives
          scored,     \* <<entry, objective>>: the entry has a score
          display,    \* slot -> the objective it shows, or Nothing
          teams,      \* the teams
          team        \* entry -> its team, or Nothing

board == <<objectives, scored, display, teams, team>>

Init ==
  /\ objectives = {} /\ scored = {} /\ display = [s \in Slots |-> Nothing]
  /\ teams = {} /\ team = [e \in Entries |-> Nothing]

ScoresOnly == UNCHANGED <<teams, team>>
TeamsOnly  == UNCHANGED <<objectives, scored, display>>

WriteObjective(o) ==
  /\ objectives' = objectives \cup {o}
  /\ ScoresOnly /\ UNCHANGED <<scored, display>>

RemoveObjective(o) ==
  /\ objectives' = objectives \ {o}
  /\ scored' = {s \in scored : s[2] # o}
  /\ display' = [s \in Slots |-> IF display[s] = o THEN Nothing ELSE display[s]]
  /\ ScoresOnly

SetScores(now) ==
  /\ scored' = now /\ scored' \subseteq Entries \X objectives
  /\ ScoresOnly /\ UNCHANGED <<objectives, display>>

Show(s, o) ==
  /\ display' = [display EXCEPT ![s] = o]
  /\ ScoresOnly /\ UNCHANGED <<objectives, scored>>

\* A team that is created starts over with the entries it names.
CreateTeam(t, members) ==
  /\ teams' = teams \cup {t}
  /\ team' = [e \in Entries |-> IF e \in members THEN t
                                ELSE IF team[e] = t THEN Nothing ELSE team[e]]
  /\ TeamsOnly

\* Who joins a team leaves the one they were in.
JoinTeam(t, members) ==
  /\ t \in teams
  /\ team' = [e \in Entries |-> IF e \in members THEN t ELSE team[e]]
  /\ TeamsOnly /\ UNCHANGED teams

LeaveTeam(t, members) ==
  /\ team' = [e \in Entries |-> IF e \in members /\ team[e] = t THEN Nothing ELSE team[e]]
  /\ TeamsOnly /\ UNCHANGED teams

RemoveTeam(t) ==
  /\ teams' = teams \ {t}
  /\ team' = [e \in Entries |-> IF team[e] = t THEN Nothing ELSE team[e]]
  /\ TeamsOnly

\* A server is joined, or the world is replaced by another server's.
StartOver == Init'

Next ==
  \/ \E o \in Objectives : WriteObjective(o) \/ RemoveObjective(o)
  \/ \E now \in SUBSET (Entries \X Objectives) : SetScores(now)
  \/ \E s \in Slots, o \in objectives \cup {Nothing} : Show(s, o)
  \/ \E t \in Teams, members \in SUBSET Entries :
         CreateTeam(t, members) \/ JoinTeam(t, members) \/ LeaveTeam(t, members)
  \/ \E t \in Teams : RemoveTeam(t)
  \/ StartOver

Spec == Init /\ [][Next]_board
=============================================================================
