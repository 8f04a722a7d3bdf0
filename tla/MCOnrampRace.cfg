CONSTANTS
  OnRamp = {on, old}
  OffRamp = {}
  Legacy = {old}
  OperatorKeys = {k1}
  NoTx = NoTx
  Workers = {w1, w2}
  MaxFaults = 1
SPECIFICATION SettlementSpec
CHECK_DEADLOCK FALSE
INVARIANTS
  ReleaseAuthorised
  ShownReleased
PROPERTY
  ImplementsLedger
