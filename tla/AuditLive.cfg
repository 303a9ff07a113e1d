SPECIFICATION FairSpec
CONSTANTS
  m1 = m1
  m2 = m2
  m3 = m3
  m4 = m4
  Replica = {r1}
  Msg = {m1, m2, m4}
  Item <- MCItem
  Anchors <- MCTwoAnchors
  Findings <- MCFindings
  Unstamped <- NoItems
  Batch = 1
  Pipeline = 1
  InsertRows = 3
  MaxAckPending = 2
  MaxFaults = 2
PROPERTIES Settled ShutdownCompletes
