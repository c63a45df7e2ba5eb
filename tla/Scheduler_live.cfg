SPECIFICATION FairSpec
CONSTANTS
  Sources <- TwoSources
  Cards <- OneCard
  Minute = 4
  Interval = 3
  RetentionInterval = 4
  Retain = 8
  StartTimes <- EdgeAndMiddle
  MaxTime = 13
  MaxBoots = 1
INVARIANTS CopiesBounded
PROPERTIES RoundEnds StopsEventually
