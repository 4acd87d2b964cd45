\* A tap stored while the periodic sync is between its read of the stored
\* queue and its write-back is overwritten, and never sent.
SPECIFICATION Spec
CONSTANTS
  Orders = {o1}
  Taps = {t1, t2}
  Kinds = {"DISPATCH_ORDER", "DELIVER_ORDER", "FAIL_ORDER"}
  NoTap = NoTap
  TapFlow = TapFlow
  TickFlows = {k1}
PROPERTIES
  TapIsKept
