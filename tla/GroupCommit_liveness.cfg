SPECIFICATION FairSpec
CONSTANTS
  Call = {c1, c2, c3}
  Unframeable = {c3}
  Ckpt = {k1, k2}
  None = None
  MaxCrash = 0
PROPERTIES
  CallsReturn
CHECK_DEADLOCK FALSE
