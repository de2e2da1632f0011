SPECIFICATION FairSpec
CONSTANTS
  TRIES = 30
  LOGIN_TRIES = 300
  MaxChanges = 3
CHECK_DEADLOCK FALSE
INVARIANTS
  GivesUpLate
PROPERTIES
  SuccessMeansMounted
  NoEarlyMount
  Ends
