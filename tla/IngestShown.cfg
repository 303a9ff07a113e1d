SPECIFICATION Spec
CONSTANTS
  Payloads <- MCPayloads
  Message <- MCMessage
  LogMessage <- MCLogMessage
  Name = {0, 1, 2}
  MaxFindings = 2
  MaxText = 4
  MaxDepth = 2
  MaxDeliveries = 4
  MaxClock = 3
INVARIANTS NeighboursKept RowPerTime ShownAsSent FindingsMeetRecords FacetsDrillDown
CHECK_DEADLOCK FALSE
