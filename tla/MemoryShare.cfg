SPECIFICATION Spec
CONSTANTS
  init = init
  t2 = t2
  t3 = t3
  sh = sh
  Zero = Zero
  None = None
  Unloaded = Unloaded
  Task <- ThreeTasks
  First = init
  Exe <- OneProgram
  Addr <- TwoAddr
  Text <- FirstAddr
  Stack = 2
  NrTables = 2
  TableOf <- Tables
  NrPages = 8
PROPERTY LoadedIsProgram
SYMMETRY Symmetric
VIEW View
CHECK_DEADLOCK FALSE
