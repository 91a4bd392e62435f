CONSTANTS
  Free = Free
  feed1 = feed1
  feed2 = feed2
  SymbolIds <- MCSymbolIds
  RequestedShards = 2
  Feeds <- MCFeeds
  MaxPerFeed = 2
SPECIFICATION FairSpec
INVARIANTS
  TicksKept
PROPERTY
  EveryTickIsPopped
