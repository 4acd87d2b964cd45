CONSTANTS
  r1 = r1
  r2 = r2
  k1 = k1
  k2 = k2
  zoop = zoop
  NoOne = NoOne
  NoOutlet = NoOutlet
  Orders = {o1}
  Riders = {r1}
  Outlets = {k1}
  WorksAt <- OneOutlet
  Sources = {zoop}
  SourceOf <- FromZoop
  Window = 1
  OverrideTargets = {"CANCELLED"}
  MaxTime = 2
  MaxAssigned = 1
SPECIFICATION Spec
PROPERTIES
  ReturnNeverSlipsPast
\* The clock is bounded and a deleted order is gone: the instance may stop.
CHECK_DEADLOCK FALSE
