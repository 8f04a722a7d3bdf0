CONSTANTS
  OnRamp = {on}
  OffRamp = {}
  Legacy = {}
  OperatorKeys = {k1}
  NoTx = NoTx
  Workers = {w1}
  MaxFaults = 0
SPECIFICATION FairSettlement
CHECK_DEADLOCK FALSE
PROPERTY RetryIsExecuted
