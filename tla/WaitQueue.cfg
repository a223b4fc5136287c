SPECIFICATION FairSpec
CONSTANTS
  a = a
  b = b
  c = c
  q1 = q1
  q2 = q2
  None = None
  Proc <- ThreeTasks
  Queue <- TwoQueues
  Interruptible <- OnlySecond
INVARIANTS
  NoLostSleeper
  NoStaleInterruptibleHead
PROPERTY WakeUpReachesAll
