SPECIFICATION Spec
CONSTANTS
  FenceId = 3
  MaxPuts = 4
  MaxCompact = 2
  MaxCrash = 2
  MaxRot = 0
INVARIANTS
  ReturnedIsDurable
CHECK_DEADLOCK FALSE
