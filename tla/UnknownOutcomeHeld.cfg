CONSTANTS
  Refs = {r1}
  Amounts = {1}
  Limit = 1
  Window = 2
  Expiry = 1
  QuoteBurst = 1
  MaxTime = 1
SPECIFICATION Spec
CHECK_DEADLOCK FALSE
INVARIANT UnknownOutcomeHeld
