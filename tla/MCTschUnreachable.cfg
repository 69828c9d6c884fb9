SPECIFICATION Spec
CONSTANTS
  Nodes = {n1, n2}
  MaxTurns = 2
  MaxReboots = 0
INVARIANTS
  UnreachableCounted
CHECK_DEADLOCK FALSE
