CONSTANTS
  Refs = {r1, r2}
  Amounts = {1, 2}
  Limit = 2
  Window = 2
  Expiry = 1
  QuoteBurst = 2
  MaxTime = 3
SPECIFICATION FairSpec
CHECK_DEADLOCK FALSE
INVARIANTS
  TypeOK
  RollingLimitKept
  ReservationsFit
  ReceiptDecidesIntent
PROPERTY
  PaymentIsRecorded
