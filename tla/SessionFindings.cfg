\* Statements of the code's comments that its steps do not keep (README, section 5).
\* One is checked at a time: uncomment another in its place.
SPECIFICATION Spec
CONSTANTS
  MaxSessions = 2
  MaxPackets = 3
  SleepFull = 1
  SleepGone = 2
CHECK_DEADLOCK FALSE
PROPERTY ServerReasonShown
\* PROPERTY LeftSessionsEnd
\* PROPERTY CoverDrops
\* INVARIANT SleepAgrees
\* INVARIANT MeshesOfThisSession
\* INVARIANT BoardsOfThisSession
