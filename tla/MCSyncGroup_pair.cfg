CONSTANTS
  Device = {1, 2, 3}
  Incarnation = {0, 1}
  Hash = {1, 2, 3, 4}
  MAX_MEMBERS = 3
  KEPT_ROSTERS = 3
  MAX_EPOCH = 9
  SavesMayFail = TRUE
  SignerRank <- MCSignerRank
  HashRank <- MCHashRank
  Founders = 2
  Concurrent = {}
  Admitters = {}
  Changers = {1, 2}
  Unsteady = {2}
SPECIFICATION FoundedSpec
ACTION_CONSTRAINTS OnlyChangersChange OthersAreSteady
INVARIANTS SavedGroupValidates KeysOnlyForMembers
CHECK_DEADLOCK FALSE
