SPECIFICATION MCSpec
CONSTANTS
  Accounts = {"alice"}
  Invoices = {"open1", "topup1"}
  Readers = {"r1", "r2"}
  Owner <- MCOwner
  Opening <- MCOpening
  MaxFaults = 1
  Arrivals <- MCArrivals
  Prompts <- MCPrompts
  Sizes <- MCSizes
  WriteQueue = 2
  WriteBatch = 2
  SessionsPerKey = 2
  MaxPacket = 2
  MaxBodyBytes = 2
  MaxMishaps = 2
INVARIANTS
  CreditedOnlyIfSettled
  CreditsBounded
  CapKeepsNewest
PROPERTIES
  AnnouncedIsCredited
  EventuallyLogged
CHECK_DEADLOCK FALSE
