SPECIFICATION Spec
CONSTANTS
  Servers = {"s1", "s2"}
  StoredLists <- MCStored
  Players <- MCPlayers
  Me = "me"
  Properties = {"a", "b"}
  HasAccount = TRUE
  Budget <- MCBudget
PROPERTY ButtonIsSaved
