SPECIFICATION Spec
CONSTANTS
  FenceId = 3
  MaxPuts = 4
  MaxCompact = 2
  MaxCrash = 2
  MaxRot = 1
INVARIANTS
  HandleReadsItsBlob
  HandleSurvives
CHECK_DEADLOCK FALSE
