SPECIFICATION Spec
CONSTANTS
  MaxLength = 2
  MaxExcess = 1
INVARIANTS HandledOnce
CHECK_DEADLOCK FALSE
