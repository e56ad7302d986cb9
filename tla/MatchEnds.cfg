SPECIFICATION Spec
CONSTANTS
  ann = ann  bob = bob  eve = eve
  join1 = join1  join2 = join2  join3 = join3  leave1 = leave1
  s1 = s1  s2 = s2
  Servers = {s1, s2}
  Players = {ann, bob}
  Joins = {join1, join2}
  Leaves = {leave1}
  Caller <- AnnLeaves
  Host <- TwoHosts
  None = None
  RedisMayFail = TRUE
PROPERTIES MissingCallsEnd
CHECK_DEADLOCK FALSE
