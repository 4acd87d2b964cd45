\* An edit of an order in an alert status raises an alert that had faded.
SPECIFICATION Spec
CONSTANTS
  Orders = {o1}
  Window = 1
  FeedLimit = 2
  MaxVisible = 1
  MaxPolls = 1
  MaxTime = 4
PROPERTIES
  AlertFades
CHECK_DEADLOCK FALSE
