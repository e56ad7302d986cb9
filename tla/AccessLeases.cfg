SPECIFICATION Spec
CONSTANTS
  Calls = {c1, c2}
  Free = Free
  LeaseMayExpire = TRUE
  SaveMayFail = TRUE
PROPERTY
  OnlyHolderUnlocks
CHECK_DEADLOCK FALSE
