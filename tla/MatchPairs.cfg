SPECIFICATION Spec
CONSTANTS
  ann = ann  bob = bob  eve = eve
  join1 = join1  join2 = join2  join3 = join3  leave1 = leave1
  s1 = s1  s2 = s2
  Servers = {s1}
  Players = {ann, bob, eve}
  Joins = {join1, join2, join3}
  Leaves = {}
  Caller <- OneCallEach
  Host <- OneHost
  None = None
  RedisMayFail = FALSE
SYMMETRY AnyPlayers
INVARIANTS TypeOK MissingIsBeingMatched MatchedOnce EndedIsSwept
PROPERTIES NobodyOvertakes
CHECK_DEADLOCK FALSE
