CONSTANTS
  Servers = {v1, v2}
  Capacity = 2
  PromptClose = TRUE
  MaxSockets = 2
  MaxEvents = 2
SPECIFICATION Spec
INVARIANT NothingMissed
CHECK_DEADLOCK FALSE
