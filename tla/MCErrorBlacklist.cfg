CONSTANTS
  None = None
  Tags = {1, 2}
  MinTime = 1
  MaxTime = 6
  Hour = 2
  MaxRetries = 2
SPECIFICATION FairSpec
INVARIANT TypeOK
PROPERTIES BackoffGrows SkippedHasFailed NotHiddenForever
