SPECIFICATION Spec
CONSTANTS
  A = A  B = B
  s1 = s1  s2 = s2
  Servers = {s1, s2}
  Sides = {A, B}
  None = None
  Creator = s1
  MaxRounds = 2
  MayRefuse = TRUE
  MayReorder = FALSE
  MaxFailures = 1
SYMMETRY SideSymmetry
INVARIANTS
  TypeOK
  OnePrimary
PROPERTY OverIsFinal
CHECK_DEADLOCK FALSE
