SPECIFICATION FairSpec
CONSTANTS
  MaxLength = 2
  MaxExcess = 2
INVARIANTS TypeOK NoTimeoutWhileProcessing NeverHangsUpSilently RequestIsNotDropped
PROPERTIES ImplementsService ConnectionEnds
CHECK_DEADLOCK FALSE
