\* One order and one click on its train's button.
SPECIFICATION Spec
CONSTANTS
  Orders = {o1}
  OrderClicks = {}
  RunClicks = {n1}
  Onward = {"ACCEPTED", "PREPARED", "CANCELLED"}
INVARIANTS
  PrintedHasTicket
CHECK_DEADLOCK FALSE
