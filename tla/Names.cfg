SPECIFICATION Spec
CONSTANTS
  t1 = t1
  t2 = t2
  s1 = s1
  s2 = s2
  s3 = s3
  s4 = s4
  Task <- Tasks
  Slot <- Slots
  None = None
  NrInodes = 4
  NrBlocks = 5
  Paths <- ThePaths
  PerBlock = 4
  Disks <- TheDisks
  MaxCalls = 2
SYMMETRY Symmetric
INVARIANTS
  CountsExact
  IdleIsClean
  OneSlotPerInode
  
CHECK_DEADLOCK FALSE
