SPECIFICATION MCSpec
CONSTANTS
  None = None
  Content <- MCContent
  BlobsOf <- MCBlobsOf
  ThumbOf <- MCThumbOf
  Task = {1, 2}
  MAX_ROWS = 2
  MAX_KEYS = 3
  Old = 2
  SCHEMA_VERSION = 5
  MaxId = 3
  MaxFaults = 2
  Setups <- CrashSetups
INVARIANT Restartable
CHECK_DEADLOCK FALSE
