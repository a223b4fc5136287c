SPECIFICATION FdFairSpec
CONSTANTS
  Drive = {0, 1}
  Caller = {t1}
  Beyond = 2
  MaxErrors = 1
  MotorUp = 3
  MotorOff = 4
  CommandTicks = 1
  MaxFaults = 1
  MaxRequests = 2
  MaxChanges = 1
INVARIANTS
  TransferIsSetUp
  TimersNeverEarly
PROPERTIES
  RequestsEnd
  ChangesEnd
\* once CURRENT is looked into when there is none (lost) nothing is followed
CHECK_DEADLOCK FALSE
