\* One order and two clicks on its train's button.
SPECIFICATION Spec
CONSTANTS
  Orders = {o1}
  OrderClicks = {}
  RunClicks = {n1, n2}
  Onward = {"ACCEPTED", "PREPARED", "CANCELLED"}
PROPERTIES
  OnlyMovedArePrinted
CHECK_DEADLOCK FALSE
