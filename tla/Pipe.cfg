SPECIFICATION Spec
CONSTANTS
  t1 = t1
  t2 = t2
  t3 = t3
  Task <- Tasks
  First = t1
  NrOpen = 2
  NrFile = 3
  PageSize = 3
  Counts = {1, 3}
  MaxCalls = 3
SYMMETRY Children
INVARIANTS
  FilesCounted
  BytesInOrder
  NobodyLeftAsleep
CHECK_DEADLOCK FALSE
