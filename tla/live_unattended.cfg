\* One phone, three rows, nobody touches the switch; one crash, timeout or failed balance report.
SPECIFICATION UnattendedSpec
CONSTANTS
  Symbols = {s1}
  Orders = {o1, o2, o3}
  CeleryWorkers = {celery}
  ApiThreads = {}
  BuySizes = {1}
  MaxOpen = 1
  Holdings = {0, 1}
  Expiring = {}
  NoPlan = NoPlan
  Devices = {d1}
  NoOrder = NoOrder
  MaxFailures = 1
INVARIANTS LedgerCovered OneSellOffered
PROPERTIES SellsPickedUp HoldingsAdopted
