SPECIFICATION MCSpec
CONSTANTS
  Worlds <- SomeWorlds
  Stream = {a, b}
  Timeouts = {1}
  MaxTokens = 2
  MaxBytes = 1
  ReadMax = 1
INVARIANTS
  StaleWakersAreHarmless
  NoLostWake
  DriverIsDriven
  EndsForAReason
PROPERTIES
  WakesAreServed
  
