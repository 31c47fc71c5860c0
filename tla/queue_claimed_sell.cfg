\* The exit sweep while the phone is selling.
SPECIFICATION QueueSpec
CONSTANTS
  Symbols = {s1}
  Orders = {o1, o2}
  CeleryWorkers = {celery}
  ApiThreads = {}
  BuySizes = {1}
  MaxOpen = 1
  Holdings = {0, 1}
  Expiring = {o1, o2}
  NoPlan = NoPlan
SYMMETRY QueueSymmetry
INVARIANTS NoOverlappingSell
