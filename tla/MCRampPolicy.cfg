CONSTANTS
  OnRamp = {on, on2}
  OffRamp = {}
  Legacy = {}
  OperatorKeys = {k1}
  NoTx = NoTx
  Amounts = {1, 2}
  Rules <- RuleChoices
  SeededRule <- Seeded
  MaxVersion = 3
  MaxTime = 1
SPECIFICATION PolicySpec
CHECK_DEADLOCK FALSE
INVARIANTS
  DecisionExplained
  LargeNeedsOperator
PROPERTY
  DecidedByPolicyInForce
