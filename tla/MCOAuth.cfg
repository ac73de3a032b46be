SPECIFICATION Spec
CONSTANTS
  Calls = {c1, c2}
  Logins = {l1}
  Life = 2
  Skew = 1
  TTL = 1
  MaxTime = 1
  MaxSessions = 2
  MaxTokens = 3
  MaxFaults = 1
INVARIANTS
  RowIsGood
PROPERTY
  CallsReturn
CHECK_DEADLOCK FALSE
