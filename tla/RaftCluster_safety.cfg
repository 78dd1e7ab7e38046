SPECIFICATION Spec
CONSTANTS
  N = 3
  Key = {k}
  Value = {v1}
  NoVal = NoVal
  None = None
  MaxTerm = 4
  MaxLog = 2
INVARIANTS
  LogMatching
  NoLostUpdate
  AppliedIsAcked
  NeverPanics
CHECK_DEADLOCK FALSE
