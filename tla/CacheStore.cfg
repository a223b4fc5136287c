SPECIFICATION Spec
CONSTANTS
  p1 = p1
  p2 = p2
  None = None
  Proc <- TwoTasks
  NrBuffers = 2
  NrRequest = 3
  Block <- ThreeBlocks
  DevOf <- OneDevice
  Val <- Bit
  Ops <- FileOps
  ReadAhead = 0
  Faults = FALSE
  IOErrors <- Nothing
  MaxCalls = 0
INVARIANTS
  CleanMatchesDisk
  OneBufferPerBlock
  IdentityStable
PROPERTY ImplementsBlockStore
SYMMETRY Symmetric
CHECK_DEADLOCK TRUE
