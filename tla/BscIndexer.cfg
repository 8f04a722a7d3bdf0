CONSTANTS
  Inflows = {a}
  Outflows = {a}
  Scanners = {sync, script}
  Timed = {sync}
  StartBlock = 1
  Depth = 1
  Rewind = 1
  InitialChunk = 3
  MinChunk = 2
  MaxChunk = 3
  GrowthStep = 1
  GrowthAfter = 1
  RpcLimit = 2
  MaxTip = 4
  MaxMishaps = 2
SPECIFICATION FairSpec
CHECK_DEADLOCK FALSE
INVARIANTS
  CursorCovers
  StoredIsCanonical
PROPERTY EveryTransferStored
