CONSTANTS
  p1 = p1
  n1 = n1
  c1 = c1
  c2 = c2
  Operation = {p1, n1}
  NoOperation = NoOperation
  Command = {c1, c2}
  Kind <- MCKind
  Starts <- MCStarts
  AutoCompacts = TRUE
  MaxWrites = 1
  MaxFaults = 2
  MaxTurns = 2

SPECIFICATION FairSpec

\* Every operation has settled and nobody calls again.
CHECK_DEADLOCK FALSE

INVARIANT OwnCommandsAccepted
INVARIANT RecoveryKeepsLeaf
INVARIANT CompletedIsEarned
PROPERTY TakesTurns
PROPERTY ComesToRest
