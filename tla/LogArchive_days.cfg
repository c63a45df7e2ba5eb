SPECIFICATION FairSpec
CONSTANTS
  MaxDay = 4
  After = 2
  Lag = 1
  MaxLines = 2
  MaxTroubles = 1
  MaxCrashes = 1
  MaxBacks = 1
INVARIANTS TypeOK NothingLost PackageIsWhole OneTmpAtMost
PROPERTIES KeepsLines DueDaysPacked
