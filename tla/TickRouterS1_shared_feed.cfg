\* Bounded ticks and registry changes: the system stops when they are used up.
CHECK_DEADLOCK FALSE
CONSTANTS
  ringA = ringA
  ringB = ringB
  ringC = ringC
  ringD = ringD
  adapter1 = adapter1
  adapter2 = adapter2
  es = es
  nq = nq
  cl = cl
  NoTick = NoTick
  NoBuffer = NoBuffer
  Buffers <- OneBuffer
  Producers <- MCProducers
  Symbols <- MCSymbols
  Feeds <- Shared
  RingsOf <- OneRing
  Overloads <- CopyOnly
  Slots = 4
  MaxTicks = 3
  MaxSymbols = 2
  UnknownPeriod = 2
  DropPeriod = 2
  MaxChanges = 1
SPECIFICATION Spec
INVARIANTS
  RoutedTicksAreQueued
