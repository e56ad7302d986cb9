CONSTANTS
  Nodes = {n1, n2}
  StartNode = n1
  MaxUnitsPerPlayer = 2
  MaxRounds = 2
  MaxOrders = 2
  MaxPushes = 1
  MaxWaiting = 1
  None = None
SPECIFICATION Spec
INVARIANTS
  SelectionWithinRemaining
  NothingHalfSent
  SeenWhenQuiet
CHECK_DEADLOCK FALSE
