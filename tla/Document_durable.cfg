SPECIFICATION DocumentSpec
CONSTANTS
  Levels = 1
  MaxDocs = 2
INVARIANTS
  DurableOnceReturned
CHECK_DEADLOCK FALSE
