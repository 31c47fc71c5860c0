\* A protective sell queued while AI trading is off.
SPECIFICATION UnattendedSpec
CONSTANTS
  Symbols = {s1}
  Orders = {o1}
  CeleryWorkers = {celery}
  ApiThreads = {}
  BuySizes = {1}
  MaxOpen = 1
  Holdings = {1}
  Expiring = {}
  NoPlan = NoPlan
  Devices = {d1}
  NoOrder = NoOrder
  MaxFailures = 0
PROPERTIES ProtectiveSellsPickedUp
