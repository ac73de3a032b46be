SPECIFICATION Spec
CONSTANTS
  Clients = {c1}
  Admins = {a1}
  Kinds = {"openrouter", "llamacpp", "vllm", "anthropic_oauth", "openai_oauth"}
  TTL = 2
  ShortTTL = 1
  Models = {m1}
  Prices = {1}
  Editors = {e1}
  Relays = {r1, r2}
  Pages = {p1}
  Partial = 1
  PartialMax = 2
  Refresh = 3
  MaxAttempts = 2
  MaxEdits = 1
  MaxMishaps = 2
  s1 = s1
  s2 = s2
  Searches = {s1, s2}
  Nodes = {1, 2, 3, 4}
  Own = 3
  Announcements <- Handed
  Concurrency = 1
  CacheTTL = 2
INVARIANTS
  AnswersAreRecent
  OnceListedStaysListed
  OneIdentity
PROPERTIES
  AnswersReturn
  AnnouncedInTheEnd
CHECK_DEADLOCK FALSE
