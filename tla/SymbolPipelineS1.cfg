SPECIFICATION Spec
CONSTANTS
  Feed <- MCFeed
  Sizes <- MCSizes
  MaxSeries = 2
  Ratio = 3
  StackedMin = 2
  AbsorptionVolume = 40
  MaxTicks = 4
  MaxSessions = 1
  MaxChanges = 2
INVARIANTS
  BarsMatchTrades
  BarsCloseWhenDue
  DeltaMatchesTrades
  SurgeStandsOut
  StackSignalsExact
PROPERTIES
  ClassificationSticks
CHECK_DEADLOCK FALSE
