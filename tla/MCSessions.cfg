SPECIFICATION Spec
CONSTANTS
  Device = {1, 2, 3}
  Conn = {1, 2}
  None = None
  Setups <- MCSetups
INVARIANTS
  StrangersHearNothing
  KeysStayInside
  OneLiveSession
PROPERTY InStep
CHECK_DEADLOCK FALSE
