SPECIFICATION HdFairSpec
CONSTANTS
  NrRequest = 4
  Sector <- Sectors
  Handle = {0}
  DevOf <- TwoMinors
  MaxErrors = 3
  NrSects <- Partitions
INVARIANTS
  TwoSweeps
  DriveAtWork
PROPERTIES
  DoneIsMoved
  RequestsEnd
