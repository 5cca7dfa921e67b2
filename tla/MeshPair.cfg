\* Two neighbouring columns and three packets after Join Game: the invariants
\* again, with one change more than the listed runs have.
SPECIFICATION Spec
CONSTANTS
  Columns <- MCPair
  Nowhere = Nowhere
  Orthogonal <- MCOrthogonal
  Diagonal <- MCDiagonal
  PumpCap = 1
  BulkColumns = {}
  MaxChanges = 3
  MaxRejoins = 0
INVARIANTS TypeOK DirtyListExact RunningHasJob AcceptedIsCurrent NoChangeLost CleanStopReportsAll
CHECK_DEADLOCK FALSE
