CONSTANTS
  Nothing = Nothing
  Device = {1, 2}
  Content = {"a"}
  Secret = {}
  Image = {"a"}
  Refused = {}
  Oversized = {}
  LAMPORT_CEILING = 20
  LAMPORT_OBSERVE_LIMIT = 10
  Apart = {}
  PAGE = 1
  MAX_BATCHES = 2
  MAX_CLOCK = 2
  MAX_STORES = 4
  MAX_SEQ = 0
  Happens = {"copy", "pin", "delete"}
SPECIFICATION MCSpec
PROPERTIES Settles MembersFound
CHECK_DEADLOCK FALSE
