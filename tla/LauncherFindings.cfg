\* Statements of the code's comments that its steps do not keep (README, section 5).
\* One is checked at a time: uncomment another in its place.
SPECIFICATION Spec
CONSTANTS
  Runs = {"p", "q"}
  Revisions = {"r1", "r2"}
  Pinned = "r1"
  Index <- MCIndex
  Entries <- MCEntries
  MaxEvents = 3
  Processes = {"p", "q"}
  Commands <- MCCommands
  Ids = {"a", "b"}
  Intervals = {2}
  Bump = 1
  Window = 3
  MaxFaults = 1
INVARIANT HalvesTogether
\* INVARIANT BackupIsBad
\* PROPERTY SignedOutIsGone
