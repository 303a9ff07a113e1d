SPECIFICATION Spec
CONSTANTS
  Replica = {r1, r2}
  Files = 2
  Blank <- NoBlank
  MaxFaults = 0
INVARIANT MutualExclusion
CHECK_DEADLOCK FALSE
