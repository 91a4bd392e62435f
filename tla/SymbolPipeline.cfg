SPECIFICATION Spec
CONSTANTS
  Feed <- MCFeed
  Kinds <- MCKinds
  Levels <- MCLevels
  Threshold = 3
  MaxTicks = 4
  MaxSeries = 1
  MaxUpkeep = 2
INVARIANTS
  BarsMatchTicks
  BarsCloseOnThreshold
  DeltaMatchesBars
  VarianceExact
  ValueAreaSound
  ClassifiersDifferInside
  SignalFitsSession
CHECK_DEADLOCK FALSE
