\* Statements of the code's comments that its steps do not keep (README, section 5).
\* One is checked at a time: uncomment another in its place.
SPECIFICATION Spec
CONSTANTS
  Servers = {"s1", "s2"}
  StoredLists <- MCStored
  Players <- MCPlayers
  Me = "me"
  Properties = {"a", "b"}
  HasAccount = TRUE
  Budget <- MCBudget
PROPERTY RowsFillIn
\* INVARIANT RowShowsItsServer
\* INVARIANT FlagStaysOut
\* INVARIANT DirtyIsArmed
\* INVARIANT PlainShowsDefault
\* PROPERTY OwnSkinStands
