\* Statements the exchange does not keep (README, section 5).  One is checked at
\* a time: uncomment the other in its place, with the clicks it is about.
SPECIFICATION WindowSpec
CONSTANTS
  Kinds = {"dirt", "gem"}
  MaxStack = 3
  Layout = 3
  Declared = 2
  Reach <- MCOwn
  Chest <- MCChest
  Changes <- MCChanges
  MaxGestures = 2
  MaxUses = 1
  MaxChanges = 1
\* Drags over slots the server changes.
INVARIANT DragsSettle
\* The player clicks its own slots below the chest too, with Reach <- MCAll:
\* INVARIANT EverySlotSettles
CHECK_DEADLOCK FALSE
