CONSTANTS
  N = 3
  dependencyIds <- MCDependencyIds
  Width = 2
  Permits = 1
  MaxCalls = 2
  MaxFaults = 2
  MaxCrashes = 1

SPECIFICATION FairSpec

\* No call is made any more.
CHECK_DEADLOCK FALSE

INVARIANT PassedIsEarned
INVARIANT FaultlessIsClean
PROPERTY OutcomeOfItsRun
PROPERTY RunsOnlyDue
PROPERTY CallEnds
