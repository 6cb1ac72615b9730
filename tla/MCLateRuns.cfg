CONSTANTS
  None = None
  Sizes <- TwoVersions
  ChunkSizes = {1, 2}
  ErrorLimit = 1
  MaxFaults = 2
  LateRuns = TRUE
SPECIFICATION Spec
INVARIANT BelievedIsStored
CHECK_DEADLOCK FALSE
