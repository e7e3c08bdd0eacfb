CONSTANTS
  Device = {1, 2}
  Content = {"a", "s"}
  Secret = {"s"}
  Image = {}
  Refused <- NoneAtTwo
  Oversized = {}
  LAMPORT_CEILING = 20
  LAMPORT_OBSERVE_LIMIT = 10
  Apart = {}
  PAGE = 2
  MAX_BATCHES = 2
  MAX_CLOCK = 2
  MAX_STORES = 2
  MAX_SEQ = 0
  Happens = {"copy", "delete", "import", "clear", "private", "evict", "forget", "rejoin", "wipe"}
SPECIFICATION Spec
INVARIANTS SecretsStay SameStampSameState
VIEW Ranked
CHECK_DEADLOCK FALSE
