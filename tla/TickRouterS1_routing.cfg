\* Bounded ticks and registry changes: the system stops when they are used up.
CHECK_DEADLOCK FALSE
CONSTANTS
  ringA = ringA
  ringB = ringB
  ringC = ringC
  ringD = ringD
  adapter1 = adapter1
  adapter2 = adapter2
  es = es
  nq = nq
  cl = cl
  NoTick = NoTick
  NoBuffer = NoBuffer
  Buffers <- AllBuffers
  Producers <- MCProducers
  Symbols <- ThreeSymbols
  Feeds <- Disjoint
  RingsOf <- MCRings
  Overloads <- BothOverloads
  Slots = 4
  MaxTicks = 5
  MaxSymbols = 2
  UnknownPeriod = 3
  DropPeriod = 2
  MaxChanges = 3
SPECIFICATION Spec
INVARIANTS
  ReleasedRingUntouched
  StatsAccount
  WarningsRare
  NoSlotConflict
  DeliveryExact
