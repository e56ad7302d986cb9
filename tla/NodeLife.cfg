\* One node of any type, up to four units a side.
CONSTANT MaxUnits = 4
SPECIFICATION Spec
INVARIANTS
  TypeOK
  GarrisonIffSupplyOwner
  OwnerHasMajority
  ContestedMargin
PROPERTY DepartureNeverCaptures
