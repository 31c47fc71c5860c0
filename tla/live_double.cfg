\* Two phones claim the same order.
SPECIFICATION LiveSpec
CONSTANTS
  Symbols = {s1}
  Orders = {o1}
  CeleryWorkers = {celery}
  ApiThreads = {}
  BuySizes = {1}
  MaxOpen = 1
  Holdings = {0}
  Expiring = {}
  NoPlan = NoPlan
  Devices = {d1, d2}
  NoOrder = NoOrder
  MaxFailures = 0
SYMMETRY LiveSymmetry
INVARIANTS NoDoubleExecution
