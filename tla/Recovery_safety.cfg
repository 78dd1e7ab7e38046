SPECIFICATION Spec
CONSTANTS
  MaxSeg = 5
  MaxRec = 3
  MaxCrash = 2
  MaxDamage = 1
INVARIANTS
  RecoversEverything
  RefusesOnlyLoneDamage
  FallBackHasLog
CHECK_DEADLOCK FALSE
