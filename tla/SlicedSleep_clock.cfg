SPECIFICATION FairSpec
CONSTANTS
  Interval = 4
  Second = 2
  Late = 1
  Starts <- OddAndEven
  Step = 3
  MaxForward = 1
  MaxSleeps = 2
  BackCap = 8
INVARIANTS TypeOK EarlyOnlyByClock SleepBounded StopsAfterASlice
PROPERTIES SleepEnds
