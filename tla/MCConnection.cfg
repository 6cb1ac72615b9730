CONSTANTS
  Requests = {r1}
  MaxRetryCount = 1
  MaxRefreshes = 2
  MaxAsks = 1
  MaxUnblocks = 1
  Troubles = {}
SPECIFICATION FairSpec
INVARIANTS TypeOK BlockedIsHeld HoldIsEnded AskingGoesOn
PROPERTIES SignedOutStays NobodyWaitsForever
