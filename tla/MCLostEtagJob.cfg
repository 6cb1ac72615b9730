CONSTANTS
  Folders = {f1, f2}
  None = None
  RetryLimit = 2
  MaxForced = 0
  MaxDelayed = 1
  MaxEtagJobs = 1
  Troubles = {"lost etag job"}
SPECIFICATION FairSpec
PROPERTY FailedIsRetried
