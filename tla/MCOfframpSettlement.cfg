CONSTANTS
  OnRamp = {}
  OffRamp = {off}
  Legacy = {}
  OperatorKeys = {k1}
  NoTx = NoTx
  Workers = {w1, w2}
  MaxFaults = 2
SPECIFICATION FairSettlement
CHECK_DEADLOCK FALSE
INVARIANTS
  PayoutAuthorised
  EscrowFollowsPayout
  ShownSettled
PROPERTIES
  FundedIsSettled
  ImplementsLedger
