\* A chest opened twice and clicked in its own slots.
SPECIFICATION WindowSpec
CONSTANTS
  Kinds = {"dirt", "gem"}
  MaxStack = 3
  Layout = 3
  Declared = 2
  Reach <- MCOwn
  Chest <- MCChest
  Changes <- MCChanges
  MaxGestures = 2
  MaxUses = 2
  MaxChanges = 1
INVARIANTS
  SettledAgrees
PROPERTIES
  ClicksCreateNothing
  LockLifts
CHECK_DEADLOCK FALSE
