SPECIFICATION FairSpec
CONSTANTS
  m1 = m1
  m2 = m2
  m3 = m3
  Replica = {r1, r2}
  Msg = {m2, m3}
  Line <- MCLine
  Lines <- MCLines
  LogBatch = 2
  LogInsertRows = 3
  MaxAckPending = 1
  MaxFaults = 2
INVARIANTS AckedLogged OneRowPerDelivery EndsClean IInv
PROPERTY SettledWhileConsuming
CHECK_DEADLOCK FALSE
