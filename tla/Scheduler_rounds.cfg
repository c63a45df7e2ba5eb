SPECIFICATION Spec
CONSTANTS
  Sources <- TwoSources
  Cards <- TwoCards
  Minute = 2
  Interval = 2
  RetentionInterval = 3
  Retain = 5
  StartTimes <- EdgeAndMiddle
  MaxTime = 6
  MaxBoots = 2
INVARIANTS TypeOK RoundIsWhole GracefulExitIsWhole TableInOrder
PROPERTIES KeepsLog
