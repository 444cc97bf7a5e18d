CONSTANTS
  Resource <- MCResource
  Overlap <- MCOverlap
  Planned <- MCPlanned
  Rewritten <- MCRewritten
  Plannable <- MCPlannable
  OwnResults <- MCOwnResults
  Refusals = {"blocked"}
  N = 3
  maxToolConcurrency = 2

SPECIFICATION Spec

CHECK_DEADLOCK FALSE

INVARIANT TypeOK
INVARIANT NoConflictingOverlap
INVARIANT ConflictsRunInSourceOrder
INVARIANT OneResultPerCall
INVARIANT LateAuditsCommittedResult
INVARIANT ContinuesOnlyWhenQuiet
PROPERTY StartsBehindBarrier
