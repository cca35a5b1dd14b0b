SPECIFICATION MCSpec
CONSTANTS
  Users = {u1, u2}
  u1 = u1
  u2 = u2
  Admin = Admin
  Treasury = Treasury
  Contract = Contract
  NoUser = NoUser
  SessionIds = {s1}
  s1 = s1
  PathPay = PathPay
  Amounts = {50}
  SessionCounts = {2}
  EndTimes = {0}
  Percentages = {40}
  FeeRates = {0, 1000}
  Schedules = {}
  NoSchedule = NoSchedule
  Prices = {0}
  Outages = {{"checks"}}
  InitialBalance = 150
  AutoReleaseDelay = 0
  GracePeriod = 1
  MaxDrift = 1
  MinInteraction = 1
  LowFeeThreshold = 0
  MaxLowFee = 1
  BackoffInitial = 1
  BackoffMax = 0
  MaxAttempts = 2
  ManualThreshold = 1
  MaxEscrows = 4
  MaxTime = 4
  Signers = {g1, g2, g3}
  g1 = g1
  g2 = g2
  g3 = g3
  SignerCount = 2
  Threshold = 2
  Responders = {d1}
  d1 = d1
  NoRole = NoRole
  Reasons = {r1}
  r1 = r1
  EmergencyTimelock = 1
  RoleTTL = 1
  CircuitWindow = 2
  MaxActions = 2
  Plans <- SmallPlans
  MaxMilestoneEscrows = 1
  SnapshotIds = {1}
  NoSnapshot = NoSnapshot
  MaxSnapshots = 2
  RollbackWindow = 1
  ReviewPeriod = 2
  GovernanceIds = {p1}
  p1 = p1
  NoProposal = NoProposal
  MaxRollbacks = 1
SYMMETRY Symmetry
INVARIANTS EmergencyIsContained BooksUntilRollback RollbackIsFaithful
PROPERTIES FailureIsPermanent DisputeStopsPayments MilestonesImplementDeposits RollbackIsAuthorised
CHECK_DEADLOCK FALSE
