CONSTANTS
  Resource <- MCResource
  Overlap <- MCOverlap
  Resolutions <- MCResolutions
  N = 4
  Caps = {0, 1, 2}

SPECIFICATION Spec

\* The scheduler is a function: it ends when the plan is complete.
CHECK_DEADLOCK FALSE

INVARIANT TypeOK
INVARIANT ConflictAdvancesLevel
INVARIANT NoNeedlessBarrier
INVARIANT PlanMatchesSchedule
INVARIANT ChunkWithinCap
INVARIANT ChunksKeepConflictOrder
INVARIANT PlanComplete
