\* Three columns in an L, one pair of them diagonal; two packets after Join
\* Game, bulk packets over any two columns among them.
SPECIFICATION Spec
CONSTANTS
  Columns <- MCCorner
  Nowhere = Nowhere
  Orthogonal <- MCOrthogonal
  Diagonal <- MCDiagonal
  PumpCap = 2
  BulkColumns <- MCCorner
  MaxChanges = 2
  MaxRejoins = 0
INVARIANTS NoChangeLost CleanStopReportsAll
CHECK_DEADLOCK FALSE
