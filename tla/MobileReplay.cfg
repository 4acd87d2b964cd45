SPECIFICATION Spec
CONSTANTS
  Orders = {o1}
  Taps = {t1, t2}
  Kinds = {"CORRECT_ORDER"}
  NoTap = NoTap
  TapFlow = TapFlow
  TickFlows = {k1}
INVARIANTS
  RecordedOnce
