\* One key, the jump, and the attack button; five gestures, three packets.
SPECIFICATION Spec
CONSTANTS
  Keys = {Space}
  Jump = Space
  Space = Space
  MaxGestures = 5
  MaxPackets = 3
INVARIANTS
  KeysAreDown
CHECK_DEADLOCK FALSE
