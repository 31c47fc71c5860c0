\* Two Celery worker processes: ticks may overlap.
SPECIFICATION QueueSpec
CONSTANTS
  Symbols = {s1}
  Orders = {o1, o2}
  CeleryWorkers = {celery1, celery2}
  ApiThreads = {}
  BuySizes = {1}
  MaxOpen = 1
  Holdings = {0}
  Expiring = {o1, o2}
  NoPlan = NoPlan
SYMMETRY QueueSymmetry
INVARIANTS OneBuyInFlight
