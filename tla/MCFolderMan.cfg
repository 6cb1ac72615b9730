CONSTANTS
  Folders = {f1, f2}
  None = None
  RetryLimit = 2
  MaxForced = 1
  MaxDelayed = 1
  MaxEtagJobs = 1
  Troubles = {}
SPECIFICATION FairSpec
INVARIANTS TypeOK AtMostOneRun MarkerIsReleased QueueIsWatched OfflineQueueIsEmpty QuestionHoldsRun
PROPERTIES QueueMoves FailedIsRetried
