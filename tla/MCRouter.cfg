SPECIFICATION MCSpec
CONSTANTS
  prov1 = prov1
  prov2 = prov2
  r1 = r1
  r2 = r2
  s1 = s1
  s2 = s2
  Providers = {prov1, prov2}
  Requests = {r1, r2}
  Sessions = {s1, s2}
  Entries <- MCEntries
  Weight <- MCWeight
  Loads = {0, 1}
  Remaining = {0, 1}
  IdleTTL = 1
  MaxSessions = 1
  MaxRequests = 3
  MaxTime = 1
  ProviderIds = {1, 2}
  ConfigIds = {1, 2}
  Names <- MCNames
  Offered <- MCOffered
  Admins = {admin1, admin2}
  Boot = boot
  Rows <- MCRows
  Configs <- MCConfigs
  MaxWrites = 2
  MaxFaults = 1
SYMMETRY MCSymmetry
INVARIANTS
  QuietIsCurrent
  LoadedAreWatched
PROPERTIES
  NoWorseThanNeeded
  PinMovesForCause
CHECK_DEADLOCK FALSE
