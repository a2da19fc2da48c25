SPECIFICATION FairSpec
CONSTANTS
  Hosts = {h1, h2}
  max_retries = 2
  MAX_REDIRECTS = 2
INVARIANTS TypeOK AttemptsBounded
PROPERTIES ImplementsOneSend StepsRunOut SendEnds
CHECK_DEADLOCK FALSE
