CONSTANTS
  Resource <- MCResource
  Overlap <- MCOverlap
  Planned <- MCPlanned
  Rewritten <- MCRewritten
  Plannable <- MCPlannable
  OwnResults <- MCAllOwnResults
  Refusals = {"blocked", "failed"}
  N = 2
  maxToolConcurrency = 2

SPECIFICATION FairSpec

CHECK_DEADLOCK FALSE

PROPERTY AbortEndsRun
PROPERTY BatchEnds
