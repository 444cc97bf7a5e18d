CONSTANTS
  p1 = p1
  p2 = p2
  p3 = p3
  Process <- MCProcess
  Patient = {p1}
  MaxAttempts <- MCMaxAttempts
  MaxCrashes = 2
  MaxFaults = 2

SPECIFICATION FairSpec

\* No process tries again.
CHECK_DEADLOCK FALSE

INVARIANT OwnDirectoryStays
PROPERTY ImplementsLock
PROPERTY AttemptsEnd
PROPERTY PatientAcquire
