\* Two coins, one whose price may not load, a tick worker, a close-all, resets and the switch.
SPECIFICATION SimFairSpec
CONSTANTS
  Coins = {c1, c2}
  TickWorkers = {celery}
  CloseThreads = {api}
  Amounts = {1, 2}
  Sizes = {1}
  Flaky = {c2}
  MaxFailures = 1
  NoBalances = NoBalances
  NoOne = NoOne
INVARIANTS SimTypeOK NoLostUpdate
PROPERTIES OffMeansNoBuys CloseAllServed HaltEnds
