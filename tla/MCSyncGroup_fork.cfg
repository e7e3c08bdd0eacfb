CONSTANTS
  Device = {1, 2, 3, 4, 5}
  Incarnation = {0}
  Hash = {1, 2, 3, 4, 5, 6, 7, 8}
  MAX_MEMBERS = 5
  KEPT_ROSTERS = 3
  MAX_EPOCH = 9
  SavesMayFail = FALSE
  SignerRank <- MCSignerRank
  HashRank <- MCHashRank
  Founders = 4
  Concurrent = {1, 2, 3}
  Admitters = {3}
  Changers = {}
  Unsteady = {}
SPECIFICATION FoundedSpec
ACTION_CONSTRAINTS NoKeyShares NoPairing OnlyChangersChange
INVARIANT SplitOnlyWhenNamed
PROPERTY RemovalSticks
CHECK_DEADLOCK FALSE
