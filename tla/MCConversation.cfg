CONSTANTS
  Tools <- MCTools
  Canonical <- MCCanonical
  Folded <- MCFolded
  Usages <- MCUsages
  Routes <- MCRoutes
  Causes <- MCCauses
  MaxSends = 3
  MaxBlocks = 3
  MaxAsides = 1
SPECIFICATION AdaptersSpec
INVARIANTS
  TellsTheAnswer RoundTrip CallsAreAnswered ReasoningReturns
PROPERTIES
  CacheIsReused
CHECK_DEADLOCK FALSE
