SYMMETRY MCSymmetry
CONSTANTS
  bronze = bronze
  gold = gold
  router_shards = router_shards
  t1 = t1
  t2 = t2
  t3 = t3
  Missing = Missing
  Null = Null
  Malformed = Malformed
  Idle = Idle
  Keys <- MCKeys
  Tiers <- MCTiers
  Threads <- MCThreads
  Defaults <- MCDefaults
  Files <- MCFiles
SPECIFICATION Spec
INVARIANTS
  OvershootBounded
