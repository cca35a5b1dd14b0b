SPECIFICATION BusinessSpec
CONSTANTS
  Users = {u1}
  u1 = u1
  Admin = Admin
  Treasury = Treasury
  Contract = Contract
  NoUser = NoUser
  SessionIds = {}
  PathPay = PathPay
  Amounts = {4}
  SessionCounts = {2}
  EndTimes = {0}
  Percentages = {50}
  FeeRates = {1000}
  Schedules = {}
  NoSchedule = NoSchedule
  Prices = {0}
  Outages = {}
  InitialBalance = 4
  AutoReleaseDelay = 9
  GracePeriod = 5
  MaxDrift = 1
  MinInteraction = 2
  LowFeeThreshold = 0
  MaxLowFee = 1
  BackoffInitial = 1
  BackoffMax = 1
  MaxAttempts = 2
  ManualThreshold = 1
  MaxEscrows = 1
  MaxTime = 3
  SnapshotIds = {1}
  NoSnapshot = NoSnapshot
  MaxSnapshots = 2
  Signers = {g1, g2, g3}
  g1 = g1
  g2 = g2
  g3 = g3
  SignerCount = 2
  Threshold = 2
  RollbackWindow = 1
  ReviewPeriod = 2
  GovernanceIds = {p1}
  p1 = p1
  NoProposal = NoProposal
  MaxRollbacks = 1
SYMMETRY SignerSymmetry
CHECK_DEADLOCK FALSE
INVARIANT FundConservation
