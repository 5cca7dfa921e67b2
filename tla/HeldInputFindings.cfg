\* Statements of the code's comments that its steps do not keep (README, section 5).
\* One is checked at a time: uncomment another in its place.
SPECIFICATION Spec
CONSTANTS
  Keys = {Space}
  Jump = Space
  Space = Space
  MaxGestures = 5
  MaxPackets = 3
CHECK_DEADLOCK FALSE
INVARIANT AttackIsDown
\* INVARIANT PauseFreesThePointer
\* INVARIANT RequestsAreAsked
\* INVARIANT ScreensFreeThePointer
