SPECIFICATION MCSpec
CONSTANTS
  Accounts = {"alice"}
  Invoices = {"open1", "topup1"}
  Readers = {"r1", "r2"}
  Owner <- MCOwner
  Opening <- MCOpening
  MaxFaults = 0
  Arrivals <- MCArrivals
  Prompts <- MCPrompts
  Sizes <- MCSizes
  WriteQueue = 2
  WriteBatch = 2
  SessionsPerKey = 2
  MaxPacket = 2
  MaxBodyBytes = 2
  MaxMishaps = 2
INVARIANTS
  PrunesOnlyUnpaid
CHECK_DEADLOCK FALSE
