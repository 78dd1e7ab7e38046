SPECIFICATION Spec
CONSTANTS
  N = 3
  Key = {k}
  Value = {v1}
  NoVal = NoVal
  None = None
  MaxTerm = 3
  MaxLog = 2
INVARIANTS
  MajorityServes
CHECK_DEADLOCK FALSE
