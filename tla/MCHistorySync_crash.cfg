CONSTANTS
  Device = {1, 2}
  Content = {"a"}
  Secret = {}
  Image = {"a"}
  Refused = {}
  Oversized = {}
  LAMPORT_CEILING = 20
  LAMPORT_OBSERVE_LIMIT = 10
  Apart = {}
  PAGE = 1
  MAX_BATCHES = 2
  MAX_CLOCK = 2
  MAX_STORES = 2
  MAX_SEQ = 4
  Happens = {"copy", "delete", "drop", "crash"}
SPECIFICATION Spec
INVARIANTS FeedMissesNothing
CHECK_DEADLOCK FALSE
