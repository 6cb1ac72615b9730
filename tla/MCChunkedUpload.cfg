CONSTANTS
  None = None
  Sizes <- TwoVersions
  ChunkSizes = {1, 2}
  ErrorLimit = 1
  MaxFaults = 2
  LateRuns = FALSE
SPECIFICATION FairSpec
INVARIANTS TypeOK BelievedIsStored
PROPERTIES OwnUploadIsNoConflict ChangesArrive
CHECK_DEADLOCK FALSE
