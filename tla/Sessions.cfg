\* Two servers joined one after the other, two packets of play in all, and a
\* wake after each bed.
SPECIFICATION Spec
CONSTANTS
  MaxSessions = 2
  MaxPackets = 2
  SleepFull = 1
  SleepGone = 2
INVARIANTS
  CopiesAgree
  ScreensMatchLink
PROPERTIES
  DeathIsShown
  EndIsShown
CHECK_DEADLOCK FALSE
