SPECIFICATION FairSpec
CONSTANTS
  p1 = p1
  p2 = p2
  None = None
  Proc <- TwoTasks
  NrBuffers = 2
  NrRequest = 2
  Block <- ThreeBlocks
  DevOf <- TwoDevices
  Val <- Bit
  Ops <- DeviceOps
  ReadAhead = 1
  Faults = TRUE
  IOErrors <- OnlyReads
  MaxCalls = 3
INVARIANTS
  LockHasOneOwner
  CountIsReferences
PROPERTIES
  EveryCallReturns
CHECK_DEADLOCK FALSE
