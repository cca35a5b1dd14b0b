SPECIFICATION LiveSpec
CONSTANTS
  Users = {u1, u2}
  u2 = u2
  u1 = u1
  Admin = Admin
  Treasury = Treasury
  Contract = Contract
  NoUser = NoUser
  SessionIds = {s1}
  PathPay = PathPay
  Amounts = {100}
  SessionCounts = {2}
  EndTimes = {0, 1}
  Percentages = {50}
  FeeRates = {1000}
  Schedules = {}
  NoSchedule = NoSchedule
  Prices = {0, 500000}
  Outages = {{"token"}}
  InitialBalance = 150
  AutoReleaseDelay = 1
  GracePeriod = 2
  MaxDrift = 1
  MinInteraction = 2
  LowFeeThreshold = 101
  MaxLowFee = 1
  BackoffInitial = 1
  BackoffMax = 3
  MaxAttempts = 4
  ManualThreshold = 2
  MaxEscrows = 1
  MaxTime = 20
PROPERTY StuckEscrowsEscalate
CHECK_DEADLOCK FALSE
