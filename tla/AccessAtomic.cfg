SPECIFICATION Spec
CONSTANTS
  Calls = {c1, c2, c3}
  Free = Free
  LeaseMayExpire = FALSE
  SaveMayFail = FALSE
INVARIANTS
  TypeOK
  OneInside
  AcknowledgedIsStored
  AnnouncedTwiceOnlyByCrash
PROPERTIES
  NothingIsUndone
  LockIsFreed
  AtomicRoomSpec
CHECK_DEADLOCK FALSE
