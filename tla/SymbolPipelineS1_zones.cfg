SPECIFICATION Spec
CONSTANTS
  Feed <- MCFeed
  Sizes <- MCSizes
  MaxSeries = 2
  Ratio = 3
  StackedMin = 2
  AbsorptionVolume = 40
  MaxTicks = 4
  MaxSessions = 1
  MaxChanges = 1
INVARIANT
  ZonesOutliveTheirBar
CHECK_DEADLOCK FALSE
