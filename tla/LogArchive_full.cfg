SPECIFICATION Spec
CONSTANTS
  MaxDay = 2
  After = 1
  Lag = 0
  MaxLines = 1
  MaxTroubles = 1
  MaxCrashes = 0
  MaxBacks = 0
INVARIANTS PackedNotDropped
