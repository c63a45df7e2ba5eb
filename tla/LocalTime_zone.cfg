SPECIFICATION Spec
CONSTANTS
  Zones <- SomeZones
  Minute = 2
  Interval = 4
  Retain = 10
  ServerOffset = 0
  NamedZone = NamedZone
  StartTime = 7
  MaxLate = 3
  MaxTime = 34
  MaxBoots = 2
PROPERTIES QueriesTheRecentPast RoundsAdvance DeletesByAge
