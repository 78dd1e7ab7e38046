SPECIFICATION Spec
CONSTANTS
  Call = {c1, c2, c3}
  Unframeable = {}
  Ckpt = {k1}
  None = None
  MaxCrash = 2
SYMMETRY CallSymmetry
INVARIANTS
  FlushExclusive
  NoLostWakeup
  
  LogInOrder
  AckedIsVisible
  CheckpointCut
PROPERTIES
  
  ImplementsDurableStore
CHECK_DEADLOCK FALSE
