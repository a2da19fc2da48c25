SPECIFICATION Spec
CONSTANTS
  Addresses = {alice, bob}
  Shells = {sh1, sh2}
  Server = server
  Makers = {sh1, sh2, server}
  Names = {0, 1}
  Workloads <- MCWorkloads
SYMMETRY Symmetric
INVARIANTS TypeOK VerdictsKept IndexMeansWhatWasSeen IdentityIsAPair
PROPERTIES BlockListIsObeyed ImplementsMailStore
CHECK_DEADLOCK FALSE
