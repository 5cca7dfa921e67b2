\* Statements the pipeline does not keep (README, section 5).  One is checked at
\* a time: uncomment another in its place.
SPECIFICATION Spec
CONSTANTS
  Columns <- MCPair
  Nowhere = Nowhere
  Orthogonal <- MCOrthogonal
  Diagonal <- MCDiagonal
  PumpCap = 2
  BulkColumns = {}
  MaxChanges = 3
  MaxRejoins = 1
CHECK_DEADLOCK FALSE
INVARIANT NoGhostMesh
\* INVARIANT GenerationNamesOneJob
\* With Columns <- MCLine, MaxChanges = 4 and MaxRejoins = 0:
\* INVARIANT NoLightLost
