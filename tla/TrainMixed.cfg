SPECIFICATION Spec
CONSTANTS
  Runs = {r1, r2}
  NoRun = NoRun
  Refreshes = {f1}
  Lookups = {}
  Orders = {o1}
INVARIANTS
  NeverTwoTrains
