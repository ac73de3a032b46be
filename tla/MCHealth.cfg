CONSTANTS
  Providers = {prov1}
  Emitters = {e1, e2}
  Window = 1
  Retention = 2
  BaseBackoff = 1
  MaxBackoff = 2
  DefaultWait = 1
  DegradedFrom = 2
  UnhealthyFrom = 3
  Waits = {2}
  Resets = {2}
  MaxFailures = 3
  MaxReports = 1
  MaxTime = 3
  Sources = {s1, s2}
  Viewers = {v1}
  Hosts = {h1}
  Named = {m1, m2}
  Unnamed = unnamed
  Kinds = {"success", "failure", "ttft", "load"}
  Values = {1}
  Capacity = 1
  MaxEvents = 2
  MaxSnapshots = 2
  Recent = 2
  HistoryAge = 2
  MaxEmitted = 3
  MaxDate = 5
  MaxFaults = 1
SYMMETRY MCSymmetry
CHECK_DEADLOCK FALSE
SPECIFICATION MCSpec
INVARIANTS
  PruningIsUnseen
  SilenceHeals
  FeedMissesAreTold
  PageAddsUp
  HistorySurvives
