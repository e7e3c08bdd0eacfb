CONSTANTS
  Client = {c1, c2}
  Conn = {k1, k2}
  None = None
  MAX_CODE_ATTEMPTS = 1
  MAX_INVITATION_ATTEMPTS = 2
SPECIFICATION Spec
SYMMETRY Interchangeable
INVARIANTS CancelledNeverAdmits AdmitsOnce MutexGoesOn
CHECK_DEADLOCK FALSE
