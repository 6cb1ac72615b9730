CONSTANTS
  Requests = {r1}
  MaxRetryCount = 1
  MaxRefreshes = 2
  MaxAsks = 1
  MaxUnblocks = 1
  Troubles = {"lost refresh"}
SPECIFICATION FairSpec
PROPERTY NobodyWaitsForever
CHECK_DEADLOCK FALSE
