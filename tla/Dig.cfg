\* Two cells, of which a survival hand reaches both.
SPECIFICATION Spec
CONSTANTS
  Length = 2
  Reach <- MCReach
  Worlds <- MCWorlds
  Hardness = 2
  HitDelay = 1
  MaxInputs = 3
  MaxPackets = 1
  MaxInFlight = 2
INVARIANTS DigsClose CrackIsOfDig WorldsSettle
PROPERTIES HoldingBreaks
CHECK_DEADLOCK FALSE
