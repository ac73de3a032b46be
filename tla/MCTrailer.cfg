SPECIFICATION MCSpec
CONSTANTS
  Providers = {"p", "q", "s"}
  Requests = {"r1"}
  Ops = {"chat", "stream", "responses", "capability"}
  Lists <- MCLists
  MaxRetries = 2
  MaxChunks = 2
  MaxDrops = 1
  Calls = {"keyed", "too", "keyless"}
  NoKey = "none"
  KeyOf <- MCKeyOf
  ModelOf <- MCModelOf
  Kinds = {"chat", "chat_stream", "responses", "decisions", "transcriptions", "speech", "generations", "uploads"}
  Declarations <- MCDeclarations
  Ledgers <- MCLedgers
  Fee = 1
  Rate = 1
  MaxTokens = 1
  MaxHours = 1
  MaxCallFaults = 1
  ApiKeys = {"key"}
  OldRequests = {"old"}
  Reasons = {"admin_credit", "usage"}
  Limit = 3
  Hours = 1
  Scopes = {"key", "user"}
  UserScope = "user"
  MaxAdminRows = 1
  MaxKeyWrites = 1
CHECK_DEADLOCK FALSE
INVARIANT
  TokensAreBilled
