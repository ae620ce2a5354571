SPECIFICATION Spec
CONSTANTS
  MaxClients = 2
  Broadcasters = {"b1", "b2"}
  QueueCapacity = 1
  MaxMessages = 2
  Servers = {"s1", "s2"}
  Closers = {"k1"}
  Workers <- WorkersInOrder
  MaxRequests = 2
  MaxJobs = 2
  ReadinessTTL = 1
  SessionTTL = 1
  MaxTime = 2
  MaxTicks = 3
  MaxLogins = 3
  Addresses = {"a1", "a2", "a3"}
  Limit = 1
  Window = 1
  MaxEntries = 2
  TokenTTL = 1
  NoContent = none
  Contents = {none, a, b}
  NoFile = nofile
  Programs = {"reader", "other"}
  Reader = "reader"
  Links <- UpstreamLinks
  Configured = {"media"}
  Scopes <- InstituteLists
  MaxRedirects = 2
  MaxTokens = 2
  MaxUcTroubles = 1
INVARIANTS
  ServerSafe
  RenamedIsWhole
  RollbackPointHeld
PROPERTIES
  ServerAnswers
  ImplementsAtomicFile
CHECK_DEADLOCK FALSE
