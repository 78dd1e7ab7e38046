SPECIFICATION MCSpec
CONSTANTS
  MaxByte = 1
  MaxLen = 2
  Key <- SomeKeys
  Value <- SomeValues
  MaxOps = 2
  MaxIndex = 3
  None = None
  W32 = 1
  W64 = 1
  Radix = 24
  Term = 0
  Process = {p, q}
  Nobody = Nobody
  Batches <- SomeBatches
  MaxCommits = 2
INVARIANTS
  ScansAreExact
  VersionIdentifiesValue
  CheckIsExact
  KilledStoreRecovers
  DamageIsDetected
  CheckpointIsExact
  ChecksumIsRemainder
