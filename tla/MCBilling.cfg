SPECIFICATION Spec
CONSTANTS
  u1 = u1
  Users = {u1}
  Requests = {r1}
  Refunds = {f1, f2}
  UserOf <- MCUserOf
  Fees = {0, 1}
  Usages = {0, 2}
  Amounts = {1, 2}
  RoutingFees = {1}
  MaxAmount = 3
  MaxDeposits = 1
  MaxPrices = 1
  MaxFaults = 1
SYMMETRY Interchangeable
INVARIANTS
  BalanceMatchesBook
  ChargedAsAdmitted
  TappedIsSettled
PROPERTIES
  ImplementsWallet
CHECK_DEADLOCK FALSE
