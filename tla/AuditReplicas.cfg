SPECIFICATION Spec
CONSTANTS
  m1 = m1
  m2 = m2
  m3 = m3
  m4 = m4
  Replica = {r1, r2}
  Msg = {m1, m3}
  Item <- MCItem
  Anchors <- MCAnchors
  Findings <- MCFindings
  Unstamped <- NoItems
  Batch = 2
  Pipeline = 1
  InsertRows = 2
  MaxAckPending = 2
  MaxFaults = 2
SYMMETRY ReplicaSymmetry
INVARIANTS AckedStored FindingsAfterAnchors IInv
PROPERTY ImplementsPromise
