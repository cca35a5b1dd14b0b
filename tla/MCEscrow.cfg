SPECIFICATION MCSpec
CONSTANTS
  Users = {u1, u2}
  u1 = u1
  u2 = u2
  Admin = Admin
  Treasury = Treasury
  Contract = Contract
  NoUser = NoUser
  SessionIds = {s1}
  PathPay = PathPay
  Amounts = {100}
  SessionCounts = {1, 2, 3}
  EndTimes = {0, 2}
  Percentages = {33}
  FeeRates = {0, 1000, 1001}
  Schedules <- MCSchedules
  NoSchedule = NoSchedule
  Prices = {0, 500000}
  Outages = {{"token", "checks"}, {"staking"}}
  InitialBalance = 150
  AutoReleaseDelay = 1
  GracePeriod = 1
  MaxDrift = 1
  MinInteraction = 2
  LowFeeThreshold = 60
  MaxLowFee = 1
  BackoffInitial = 1
  BackoffMax = 1
  MaxAttempts = 2
  ManualThreshold = 1
  MaxEscrows = 2
  MaxTime = 3
SYMMETRY UserSymmetry
INVARIANTS TypeOK FundConservation SessionArithmetic EscrowBooks AdminOverride
INVARIANTS OneEscrowPerSession Solvency
PROPERTIES AutoReleaseWaits SettledIsFinal ImplementsDeposits
CHECK_DEADLOCK FALSE
