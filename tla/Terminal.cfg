SPECIFICATION TtyFairSpec
CONSTANTS
  Proc = {t1, t2}
  None = None
  Queue = {"secondary", "write_q"}
  Interruptible = {"secondary", "write_q"}
  Size = 3
  CanonLeft = 1
  RoomWanted = 2
  Startup = 0
  Keys = {"^D", "^U", "^C"}
  Control = {"nl", "^C", "^D", "^U"}
  Modes <- TheModes
  INIT_C_CC <- Usual
  Ccs <- TheCcs
  Texts <- TheTexts
  MaxCount = 2
  MaxTyped = 3
  MaxCalls = 2
INVARIANTS
  LinesCounted
  NoSleeperForgotten
PROPERTIES
  WritesEnd
CHECK_DEADLOCK FALSE
