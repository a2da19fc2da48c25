SPECIFICATION Spec
CONSTANTS
  Lists = {dev}
  Addresses = {alice, bob}
  Tokens = {t1, t2}
  Server = server
  Admins = {admin}
  TTL = 1
  MaxTime = 2
  MaxTokens = 2
  MaxRequests = 3
  MaxCommands = 2
  MaxCrashes = 0
SYMMETRY Symmetric
INVARIANTS RemovedStaysRemoved
CHECK_DEADLOCK FALSE
