SPECIFICATION SchedFairSpec
CONSTANTS
  NrTasks = 4
  MaxPriority = 2
INVARIANTS
  CountersBounded
PROPERTIES
  SchedulePicks
  StarvedOnlyByForks
