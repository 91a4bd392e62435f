\* Nobody is obliged to submit, start or stop: the system may come to rest.
CHECK_DEADLOCK FALSE
CONSTANTS
  c1 = c1
  c2 = c2
  Callers <- MCCallers
  Capacity = 2
  StageCount = 2
  MaxTicks = 3
  MaxThreads = 2
  ThreadsMayFail = TRUE
SPECIFICATION FairSpec
INVARIANTS
  AtMostOneLoop
  FlagMatchesLoop
  NeverTerminates
  TicksConserved
PROPERTIES
  PublishedComplete
  AcceptedIsProcessed
  StopCompletes
