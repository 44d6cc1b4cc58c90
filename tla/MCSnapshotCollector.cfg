SPECIFICATION Spec
CONSTANTS
  Providers = {"github", "forgejo"}
  PageSize = 2
  Pages = 2
  InlineLimit = 4
  Budget = 10
  Openings <- MCOpenings
  Base = 10
  MaxChanges = 2
  MaxFaults = 1
INVARIANTS PublishedIsOneInstant ChecksAreOneInstant CollectedIffWithinLimits
CHECK_DEADLOCK FALSE
