SPECIFICATION MCSpec
CONSTANTS
  Keys = {"short", "long"}
  Lookups = {l1, l2}
  Writers = {w1, w2}
  Expires <- MCExpires
  Second = 2
  TTL = 1
  MaxEntries = 1
  MaxWrites = 2
  MaxTime = 4
  Users = {"u"}
  Routes = {"m"}
  Offers = {"slug/m"}
  Bare <- MCBare
  Star = "*"
  Checkers = {"checker"}
  Listers = {"lister"}
  MaxRules = 1
  MaxMisses = 1
  Names = {"a", "nostr"}
  Pubkeys = {"p"}
  Short <- MCShort
  Calls = {"c1", "c2"}
  MaxUsers = 2
  MaxLogins = 1
  Day = 1
  MaxDays = 1
SYMMETRY Interchangeable
INVARIANTS
  AnsweredWritesAreSeen
  ListingAgrees
  AnswerOfOneMoment
  ActsForItself
CHECK_DEADLOCK FALSE
