CONSTANTS
  Servers = {v1, v2}
  Capacity = 2
  PromptClose = TRUE
  MaxSockets = 2
  MaxEvents = 2
SPECIFICATION FairSpec
INVARIANTS
  OneLink
  NoGapSinceAsked
 
CHECK_DEADLOCK FALSE
