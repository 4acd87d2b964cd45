SPECIFICATION Spec
CONSTANTS
  Runs = {r1, r2}
  NoRun = NoRun
  Refreshes = {f1}
  Lookups = {l1}
  Orders = {o1}
INVARIANTS
  LiveIsFresh
