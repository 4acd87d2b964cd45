SPECIFICATION Spec
CONSTANTS
  Orders = {o1, o2}
  Window = 2
  FeedLimit = 2
  MaxVisible = 1
  MaxPolls = 1
  MaxTime = 2
INVARIANTS
  NewestIsOnTop
CHECK_DEADLOCK FALSE
