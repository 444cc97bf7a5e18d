CONSTANTS
  l1 = l1
  l2 = l2
  h1 = h1
  h2 = h2
  Request <- MCRequest
  Heavy <- MCHeavy
  Capacities = {0, 1, 2, 3}
  maxQueue = 2
  MaxDouble = 1

SPECIFICATION Spec

INVARIANT HeadDoesNotFit
