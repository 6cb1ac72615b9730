CONSTANTS
  None = None
  Sizes <- TwoVersions
  ChunkSizes = {1, 2}
  ErrorLimit = 1
  MaxFaults = 2
  LateRuns = FALSE
SPECIFICATION Spec
INVARIANT MoveIsComplete
CHECK_DEADLOCK FALSE
