\* Records, days and sessions are bounded: the logger comes to rest.
CHECK_DEADLOCK FALSE
CONSTANTS
  impl1 = impl1
  impl2 = impl2
  Impls <- MCImpls
  NoImpl = NoImpl
  QueueLimit = 2
  MaxBytes = 1
  MaxFiles = 1
  OpenMayFail = TRUE
  MaxRecords = 4
  MaxDays = 2
  MaxSessions = 2
SPECIFICATION FairSpec
INVARIANTS
  RecordsConserved
  CurrentFileKept
PROPERTIES
  EveryRecordSettled
  ShutdownCompletes
