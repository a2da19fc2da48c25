SPECIFICATION Spec
CONSTANTS
  host = host
  Hosts <- OneHost
  Senders = {alice}
  HostOf <- AllOfOneHost
  Keys = {k1, k2}
  Slots = {m1, m2}
  TTL = 1
  Delay = 1
  MaxTime = 3
  MaxMessages = 2
  MaxRotations = 1
  MaxClears = 1
  MaxCrashes = 1
SYMMETRY Symmetric
INVARIANTS TypeOK PassedKeyIsRecent RequiredMeansChecked
PROPERTIES PinIsKept
CHECK_DEADLOCK FALSE
