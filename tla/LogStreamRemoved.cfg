SPECIFICATION FairSpec
CONSTANTS
  m1 = m1
  m2 = m2
  m3 = m3
  Replica = {r1}
  Msg = {m1}
  Line <- MCLine
  Lines <- MCLines
  LogBatch = 2
  LogInsertRows = 2
  MaxAckPending = 1
  MaxFaults = 1
PROPERTY AbsentStreamAwaited
CHECK_DEADLOCK FALSE
