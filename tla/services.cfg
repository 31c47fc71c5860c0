\* Alerts, session, rate limit, position ledger and drawdown stop, one part at a time.
CONSTANTS
  Equities = {0, 6, 10, 16}
  Threshold = 5
  MaxAlerts = 4
  Callers = {loop, screen}
  AccessLife = 3
  RefreshLife = 13
  MaxGap = 2
  MaxLost = 1
  MaxFailures = 2
  Servers = {s1, s2, s3}
  MaxRequests = 3
  MaxHiccups = 1
  Decisions = {d1, d2}
  Strategies = {trend, momentum}
  Prices = {216, 432}
  Sizes = {1, 2}
  MaxQuantity = 3
  MaxFills = 5
  None = none
  Wallets = {0, 3, 7, 9, 10, 12}
  StartBalance = 10
  HaltFloor = 3
  HaltPercent = 10
  HaltBeats = 3
SPECIFICATION ServiceSpec
INVARIANTS OnlyRealMoves ShownOnce ShownInOrder
INVARIANTS SessionTypeOK NeverLoggedOut
INVARIANTS WindowCapped
INVARIANTS OneOpenPosition ProfitIsCash RecordMatchesHistory
PROPERTIES MovesNoted AlertsShown AnsweredAgain LetInAgain StopEnds StopOnlyForNewLoss PeaksAgree
CHECK_DEADLOCK FALSE
