SPECIFICATION Spec
CONSTANTS
  Threads <- TwoThreads
  MaxLines = 2
  MaxPanics = 1
  NOBODY = NOBODY
INVARIANTS LoggingOutlivesPanics
