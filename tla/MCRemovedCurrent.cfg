CONSTANTS
  Folders = {f1, f2}
  None = None
  RetryLimit = 2
  MaxForced = 0
  MaxDelayed = 2
  MaxEtagJobs = 0
  Troubles = {"removed in a gap"}
SPECIFICATION Spec
INVARIANT MarkerIsReleased
