\* Two runs of a train on one row, a refresh and a lookup that may overlap, one order to be moved.
SPECIFICATION Spec
CONSTANTS
  Runs = {r1, r2}
  NoRun = NoRun
  Refreshes = {f1}
  Lookups = {l1}
  Orders = {o1}
INVARIANTS
  AdminTimeStands
PROPERTIES
  RowStaysOneTrains
  KnownIsKept
  ArrivalIsSeen
