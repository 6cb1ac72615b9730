CONSTANTS
  Requests = {r1}
  MaxRetryCount = 1
  MaxRefreshes = 2
  MaxAsks = 1
  MaxUnblocks = 1
  Troubles = {"refused refresh"}
SPECIFICATION Spec
INVARIANT AskingIsAsked
CHECK_DEADLOCK FALSE
