\* Two neighbouring columns; two packets after Join Game, and Join Game again.
SPECIFICATION Spec
CONSTANTS
  Columns <- MCPair
  Nowhere = Nowhere
  Orthogonal <- MCOrthogonal
  Diagonal <- MCDiagonal
  PumpCap = 1
  BulkColumns = {}
  MaxChanges = 2
  MaxRejoins = 1
INVARIANTS AcceptedIsCurrent
CHECK_DEADLOCK FALSE
PROPERTIES WindowCatchesUp ViewHolds
