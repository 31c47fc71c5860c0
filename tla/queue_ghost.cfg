\* A row the phone never claimed.
SPECIFICATION QueueFairSpec
CONSTANTS
  Symbols = {s1}
  Orders = {o1}
  CeleryWorkers = {celery}
  ApiThreads = {}
  BuySizes = {1}
  MaxOpen = 1
  Holdings = {0, 1}
  Expiring = {o1}
  NoPlan = NoPlan
PROPERTIES StaleRowHeals
