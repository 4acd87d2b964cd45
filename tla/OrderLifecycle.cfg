CONSTANTS
  r1 = r1
  r2 = r2
  k1 = k1
  k2 = k2
  zoop = zoop
  NoOne = NoOne
  NoOutlet = NoOutlet
  Orders = {o1}
  Riders = {r1, r2}
  Outlets = {k1, k2}
  WorksAt <- Attached
  Sources = {zoop}
  SourceOf <- FromZoop
  Window = 2
  OverrideTargets = {"CANCELLED", "DELIVERED", "CUSTOM"}
  MaxTime = 2
  MaxAssigned = 2
SPECIFICATION Spec
INVARIANTS
  TypeOK
  ReturnMatchesOutcome
  SettledStaysDelivered
  CashFollowsDelivery
  ClosedOnce
  UnassignedHasOneRider
PROPERTIES
  OutcomeIsFinal
  CashLeavesWalletExplained
  CustodySpec
\* The clock is bounded and a deleted order is gone: the instance may stop.
CHECK_DEADLOCK FALSE
