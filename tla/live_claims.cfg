\* Two phones poll one account; the user may press the kill switch.
SPECIFICATION LiveSpec
CONSTANTS
  Symbols = {s1}
  Orders = {o1}
  CeleryWorkers = {celery}
  ApiThreads = {}
  BuySizes = {1}
  MaxOpen = 1
  Holdings = {1}
  Expiring = {o1}
  NoPlan = NoPlan
  Devices = {d1, d2}
  NoOrder = NoOrder
  MaxFailures = 1
SYMMETRY LiveSymmetry
INVARIANTS LiveTypeOK NoSecondSwap ExecutedMeansMined
PROPERTIES MissedForGood ImplementsAtMostOnce
