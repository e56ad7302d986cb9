CONSTANTS
  NodeIds <- DuelIds
  NodeType <- DuelTypes
  EdgeMap <- DuelRoads
  StartNode <- Starts
  InitialUnits = 2
  MaxUnitsPerPlayer = 2
  MaxRounds = 3
SPECIFICATION Spec
INVARIANTS
  TypeOK
  NodesAreConsistent
  ConquestNeedsUnits
  NoDoubleSpending
  NoUnitFromNothing
  EncountersAreCurrent
  RoundsWithinLimit
PROPERTIES
  StartedGameEndsForGood
\* A game that is over stops.
CHECK_DEADLOCK FALSE
