CONSTANTS
  Device = {1, 2, 3}
  Content = {"a"}
  Secret = {}
  Image = {}
  Refused = {}
  Oversized = {}
  LAMPORT_CEILING = 20
  LAMPORT_OBSERVE_LIMIT = 10
  Apart = {}
  PAGE = 1
  MAX_BATCHES = 1
  MAX_CLOCK = 2
  MAX_STORES = 4
  MAX_SEQ = 0
  Happens = {"copy", "pin", "delete"}
SPECIFICATION Spec
INVARIANTS AgreeWhenQuiet Everywhere PeerHasItsOwn
VIEW Ranked
CHECK_DEADLOCK FALSE
