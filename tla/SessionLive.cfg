SPECIFICATION ApartSpec
CONSTANTS
  A = A  B = B
  s1 = s1  s2 = s2
  Servers = {s1, s2}
  Sides = {A, B}
  None = None
  Creator = s1
  MaxRounds = 3
  MayRefuse = FALSE
  MayReorder = FALSE
  MaxFailures = 0
INVARIANTS
  TimersAreNotAhead
  RoundIsTimed
PROPERTIES
  TimersRunOut
CHECK_DEADLOCK FALSE
