SPECIFICATION Spec
CONSTANTS
  Addresses = {alice, bob}
  Shells = {sh1, sh2}
  Server = server
  Makers = {sh1, sh2, server}
  Names = {0, 1}
  Workloads <- BlockWork
SYMMETRY Symmetric
INVARIANTS BlockedStaysBlocked
CHECK_DEADLOCK FALSE
