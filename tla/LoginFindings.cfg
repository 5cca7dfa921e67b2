\* Statements of the code's comments that its steps do not keep (README, section 5).
\* One is checked at a time: uncomment another in its place.
SPECIFICATION FairSpec
CONSTANTS
  MaxPlay = 2
CHECK_DEADLOCK FALSE
INVARIANT ClosedEndsQuietly
\* INVARIANT CipheredFromThen
