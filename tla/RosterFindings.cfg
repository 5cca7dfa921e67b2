\* Two players, two teams, one objective in two slots; two servers joined one
\* after the other, three packets of each.
SPECIFICATION Spec
CONSTANTS
  p1 = p1
  p2 = p2
  look1 = look1
  look2 = look2
  kills = kills
  red = red
  blue = blue
  Players <- MCPlayers
  Looks <- MCLooks
  Objectives <- MCObjectives
  Teams <- MCTeams
  Slots <- MCSlots
  Nothing = Nothing
  MaxSessions = 2
  MaxPackets = 3
SYMMETRY Names
INVARIANTS TablesOfThisSession
CHECK_DEADLOCK FALSE
