\* One order and two taps; the tap's own flush and one of the periodic sync.
SPECIFICATION Spec
CONSTANTS
  Orders = {o1}
  Taps = {t1, t2}
  Kinds = {"DISPATCH_ORDER", "DELIVER_ORDER", "FAIL_ORDER"}
  NoTap = NoTap
  TapFlow = TapFlow
  TickFlows = {k1}
INVARIANTS
  DeliveryRecordedOnce
  SentInTapOrder
PROPERTIES
  QueueDrains
  KeptIsSettled
