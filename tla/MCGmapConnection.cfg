SPECIFICATION FairSpec
CONSTANTS
  MaxExcess = 3
INVARIANTS TypeOK
PROPERTIES ImplementsService ConnectionEnds CompleteRequestIsHandled
CHECK_DEADLOCK FALSE
