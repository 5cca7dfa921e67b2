\* Statements of the code's comments that its steps do not keep (README, section 5).
\* One is checked at a time: uncomment another in its place.
SPECIFICATION Spec
CONSTANTS
  Length = 2
  Reach <- MCReach
  Worlds <- MCWorlds
  Hardness = 2
  HitDelay = 1
  MaxInputs = 3
  MaxPackets = 1
  MaxInFlight = 2
CHECK_DEADLOCK FALSE
INVARIANT FinishWasStarted
\* INVARIANT CracksAreOwn
