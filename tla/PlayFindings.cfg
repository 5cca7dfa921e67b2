\* Statements of the code's comments that its steps do not keep (README, section 5).
\* One is checked at a time: uncomment another in its place.
SPECIFICATION PlaySpec
CONSTANTS
  Scenarios <- MCScenarios
  Positions = {0, 1, 2, 3}
  Epsilon = 1
  Spawn = 0
  SprintWindow = 3
  FlyWindow = 3
  MaxInputs = 3
  MaxDecisions = 2
  MaxInFlight = 2
CHECK_DEADLOCK FALSE
INVARIANT LastWordStands
\* PROPERTY ReleaseIsTold
\* With Scenarios <- MCAgain:
\* INVARIANT FlagsTold
