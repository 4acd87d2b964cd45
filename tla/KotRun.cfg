\* Two orders; one click on an order's own button and two on the train's.
SPECIFICATION Spec
CONSTANTS
  Orders = {o1, o2}
  OrderClicks = {k1}
  RunClicks = {n1, n2}
  Onward = {"ACCEPTED", "PREPARED", "CANCELLED"}
SYMMETRY Alike
INVARIANTS
  TicketsHaveAMove
  CopiesExplained
  SeenAndMovedHasTicket
\* Every click is pressed once and every order ends: the instance stops.
CHECK_DEADLOCK FALSE
