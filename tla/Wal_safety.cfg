SPECIFICATION Spec
CONSTANTS
  MaxSeg = 3
  MaxLen = 3
  MaxGroup = 2
  MaxRec = 4
  MaxCrash = 5
  Settings = {{"exit", "power"}}
INVARIANTS
  CrashIsNotCorruption
  CleanBoundary
PROPERTIES
  ImplementsDurableLog
CHECK_DEADLOCK FALSE
