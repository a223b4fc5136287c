SPECIFICATION Spec
CONSTANTS
  NrTasks = 4
  MaxPid = 4
  Signal <- ThreeSignals
  Handler <- OneHandler
  Mask <- TwoMasks
  Number <- Numbers
  MaxCalls = 4
  None = None
INVARIANTS
  TypeOK
  FamilyIntact
  WaiterIsTold
PROPERTIES
  
  KillIsFinal
CHECK_DEADLOCK FALSE
