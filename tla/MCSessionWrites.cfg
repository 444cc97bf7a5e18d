CONSTANTS
  Write = {w1, w2, w3}
  Boundary = {b1, b2, b3}
  NoWrite = NoWrite

SPECIFICATION FairSpec

\* Every boundary has settled and nobody calls again.
CHECK_DEADLOCK FALSE

INVARIANT ResolvedIsDurable
PROPERTY ImplementsOrder
PROPERTY BoundariesSettle
