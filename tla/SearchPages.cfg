SPECIFICATION FairSpec
CONSTANTS
  V6Bits = 4
  V4Bits = 2
  MaxCIDRs = 2
  MaxList = 2
  MaxVars = 1
  MaxName = 5
  Row <- MCRow
  Attr <- MCAttr
  Start = 2
  Window = 1
  DefaultLimit = 1
  MaxLimit = 2
  Requests <- MCRequests
  MaxCopies = 2
  MaxChanges = 2
INVARIANTS PagesComplete TotalAgrees FailureTold  NetworksKept PagesInv
PROPERTY EndsEarly
