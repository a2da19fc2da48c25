SPECIFICATION Spec
CONSTANTS
  Lists = {dev, news}
  Addresses = {alice, bob}
  Tokens = {t1, t2}
  Server = server
  Admins = {admin}
  TTL = 0
  MaxTime = 1
  MaxTokens = 2
  MaxRequests = 3
  MaxCommands = 1
  MaxCrashes = 1
SYMMETRY Symmetric
INVARIANTS TypeOK SubscribedByConsent OnlyLatestTokenPending FileIsWhatWasReported
PROPERTIES ImplementsMembership
CHECK_DEADLOCK FALSE
