\* One Celery worker process beside close-all requests: three rows.
SPECIFICATION QueueSpec
CONSTANTS
  Symbols = {s1}
  Orders = {o1, o2, o3}
  CeleryWorkers = {celery}
  ApiThreads = {api}
  BuySizes = {1}
  MaxOpen = 1
  Holdings = {0, 1}
  Expiring = {o1, o2, o3}
  NoPlan = NoPlan
SYMMETRY QueueSymmetry
INVARIANTS QueueTypeOK OneBuyInFlight
