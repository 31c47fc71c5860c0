\* Every price loads; a reset may fall into a tick.
SPECIFICATION SimSpec
CONSTANTS
  Coins = {c1}
  TickWorkers = {celery}
  CloseThreads = {}
  Amounts = {1, 2}
  Sizes = {1}
  Flaky = {}
  MaxFailures = 0
  NoBalances = NoBalances
  NoOne = NoOne
INVARIANTS NoPhantomDrawdown
