\* One simulation account over five beats: entries, exits, stops, a failed job, the switch.
SPECIFICATION EntryFairSpec
CONSTANTS
  Coins = {c1, c2}
  Start = 20
  Floors = {19}
  Stakes = {40}
  Marks = {80, 140}
  MaxTradeRisk = 2
  MaxPositionSize = 25
  MaxExposure = 45
  MaxDailyLoss = 4
  MaxDrawdown = 10
  MaxOpenPositions = 2
  MaxTradesPerHour = 2
  Hour = 2
  Day = 3
  Candle = 3
  Cooldown = 2
  MinGap = 1
  TakeProfit = 1
  MaxTime = 4
  MaxFailures = 1
INVARIANTS EntryTypeOK HourlyCap EntriesSpaced CreditedToOpener
PROPERTIES NoFlipFlop WithinLimits NoEntryPastALimit HardStopFlattens
