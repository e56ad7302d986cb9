CONSTANTS
  NodeIds <- SouthIds
  NodeType <- SouthTypes
  EdgeMap <- SouthRoads
  StartNode <- Starts
  InitialUnits = 2
  MaxUnitsPerPlayer = 2
  MaxRounds = 4
SPECIFICATION Spec
PROPERTIES
  RoundKeepsUnits
\* A game that is over stops.
CHECK_DEADLOCK FALSE
