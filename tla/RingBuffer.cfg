\* A destroyed buffer takes no further step.
CHECK_DEADLOCK FALSE
CONSTANTS
  v1 = v1
  v2 = v2
  Capacity = 4
  IndexModulus = 16
  Values <- MCValues
  NoObject = NoObject
  MovedFrom = MovedFrom
SPECIFICATION FairSpec
INVARIANTS
  NoSlotRace
  LifetimesExact
  OwnerObservationsHold
PROPERTIES
  ImplementsBoundedQueue
  EveryElementLeaves
  RetriedPushAccepted
