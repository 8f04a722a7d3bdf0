CONSTANTS
  OnRamp = {on, on2}
  OffRamp = {}
  Legacy = {}
  OperatorKeys = {}
  NoTx = NoTx
  Amounts = {1, 2}
  Rules <- RuleChoices
  SeededRule <- Seeded
  MaxVersion = 2
  MaxTime = 1
SPECIFICATION PolicySpec
CHECK_DEADLOCK FALSE
INVARIANT CumulativeEnforced
