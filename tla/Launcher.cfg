\* Two processes: two revisions of a version, or two accounts; three events or one
\* fault.
SPECIFICATION Spec
CONSTANTS
  Runs = {"p", "q"}
  Revisions = {"r1", "r2"}
  Pinned = "r1"
  Index <- MCIndex
  Entries <- MCEntries
  MaxEvents = 3
  Processes = {"p", "q"}
  Commands <- MCCommands
  Ids = {"a", "b"}
  Intervals = {2}
  Bump = 1
  Window = 3
  MaxFaults = 1
INVARIANTS ManifestIsTrue CompletedIsComplete StandsAsSaid
PROPERTIES KeptAsIs RunsRepair PollsEnd
