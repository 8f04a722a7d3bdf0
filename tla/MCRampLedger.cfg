CONSTANTS
  OnRamp = {on, old}
  OffRamp = {off}
  Legacy = {old}
  OperatorKeys = {k1}
  NoTx = NoTx
SPECIFICATION Spec
CHECK_DEADLOCK FALSE
INVARIANTS
  TypeOK
  ExecutionCleared
  OneLiveAttempt
  CompletedOnce
  OnrampLogComplete
PROPERTIES
  DecisionFinal
  KeepsPromise
