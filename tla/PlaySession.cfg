SPECIFICATION PlaySpec
CONSTANTS
  Scenarios <- MCScenarios
  Positions = {0, 1, 2, 3}
  Epsilon = 1
  Spawn = 0
  SprintWindow = 3
  FlyWindow = 3
  MaxInputs = 4
  MaxDecisions = 2
  MaxInFlight = 2
CHECK_DEADLOCK FALSE
INVARIANTS FlagsAgree PoseAgrees DecisionsAgree
PROPERTIES KeyIsTold CorrectionSettles
