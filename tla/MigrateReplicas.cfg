SPECIFICATION FairSpec
CONSTANTS
  Replica = {r1, r2}
  Files = 3
  Blank <- MCBlank
  MaxFaults = 2
INVARIANTS RecordedImpliesExecuted ExecutedInOrder UpImpliesComplete
PROPERTY EventuallyUp
CHECK_DEADLOCK FALSE
