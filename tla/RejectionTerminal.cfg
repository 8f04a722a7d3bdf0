CONSTANTS
  OnRamp = {on}
  OffRamp = {off}
  Legacy = {}
  OperatorKeys = {k1}
  NoTx = NoTx
SPECIFICATION Spec
CHECK_DEADLOCK FALSE
PROPERTY RejectionTerminal
