SPECIFICATION MilestoneSpec
CONSTANTS
  Users = {u1, u2}
  u1 = u1
  u2 = u2
  Admin = Admin
  Treasury = Treasury
  Contract = Contract
  NoUser = NoUser
  SessionIds = {s1}
  s1 = s1
  PathPay = PathPay
  Amounts = {50}
  SessionCounts = {2}
  EndTimes = {0}
  Percentages = {40}
  FeeRates = {0, 1000}
  Schedules = {}
  NoSchedule = NoSchedule
  Prices = {0}
  Outages = {}
  InitialBalance = 150
  AutoReleaseDelay = 1
  GracePeriod = 5
  MaxDrift = 1
  MinInteraction = 2
  LowFeeThreshold = 0
  MaxLowFee = 1
  BackoffInitial = 1
  BackoffMax = 1
  MaxAttempts = 2
  ManualThreshold = 1
  MaxEscrows = 1
  MaxTime = 0
  Plans <- SmallPlans
  MaxMilestoneEscrows = 1
CHECK_DEADLOCK FALSE
INVARIANT DisputedMilestonesAreResolved
