CHECK_DEADLOCK FALSE
SPECIFICATION Spec
CONSTANTS
  Object <- MCObject
  HeaderLists <- MCHeaderLists
  Envs <- MCEnvs
  CodeDigits = 2
  Sentinel = {1, 2, 5, 30, 31}
  Asked <- MCAsked
  Chunk = 3
  MaxBytes = 5
  Half = 32
INVARIANTS NoneMissed TextStaysText HeadersShown ParamsShown DisabledOnlyUnnamed ContentInv
