CONSTANTS
  OnRamp = {on, old}
  OffRamp = {}
  Legacy = {old}
  OperatorKeys = {}
  NoTx = NoTx
  Workers = {w1}
  MaxFaults = 0
SPECIFICATION FairSettlement
CHECK_DEADLOCK FALSE
INVARIANT
  FailureIsReal
PROPERTY
  PaidIsSettled
