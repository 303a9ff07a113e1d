SPECIFICATION Spec
CONSTANTS
  m1 = m1
  m2 = m2
  m3 = m3
  m4 = m4
  m5 = m5
  Replica = {r1}
  Msg = {m1, m2, m3, m4, m5}
  Item <- OneRowItem
  Anchors <- OneRowAnchors
  Findings <- OneRowFindings
  Unstamped <- NoItems
  Batch = 1
  Pipeline = 1
  InsertRows = 2
  MaxAckPending = 5
  MaxFaults = 1
SYMMETRY MessageSymmetry
INVARIANTS Conserved MemoryBounded
