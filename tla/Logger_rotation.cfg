\* Records, days and sessions are bounded: the logger comes to rest.
CHECK_DEADLOCK FALSE
CONSTANTS
  impl1 = impl1
  impl2 = impl2
  Impls <- MCImpls
  NoImpl = NoImpl
  QueueLimit = 2
  MaxBytes = 2
  MaxFiles = 1
  OpenMayFail = FALSE
  MaxRecords = 5
  MaxDays = 1
  MaxSessions = 1
SPECIFICATION Spec
INVARIANTS
  RecentDaysKept
