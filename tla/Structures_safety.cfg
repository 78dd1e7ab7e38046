SPECIFICATION MCSpec
CONSTANTS
  ORDER = 3
  MaxKey = 7
  Value = {1, 2}
  None = 0
  Levels = 2
  MaxDocs = 4
  Reader = {r1, r2}
  Writer = {w1, w2}
  Reclaimer = {c1, c2}
  First = First
SYMMETRY ProcSymmetry
INVARIANTS
  Balanced
  ReadsMatch
  CommittedSurvives
  HeldIsTaggedAbove
  FreedOnce
  
CHECK_DEADLOCK FALSE
