SPECIFICATION MCSpec
CONSTANTS
  Explored = {"delegations"}
  v1 = v1
  v2 = v2
  \* Governance
  GovAdmins = {a1, a2}
  NoGovAdmin = NoGovAdmin
  Proposers = {p1}
  Voters = {v1, v2}
  Power <- MCPower
  Supply = 10
  Quorums <- MCQuorums
  MaxActiveProposals = 1
  ProposalDeposit = 1
  VotingPeriod = 3
  CallTimelock = 1
  TimelockDelay = 1
  CancelCooldown = 1
  EscalationWindow = 2
  EscalationThreshold = 1
  MaxProposals = 2
  MaxMandates = 1
  MaxVotes = 2
  MaxCreation = 1
  Kinds = {"ExecuteCall"}
  MaxGovTime = 4
  \* Arbitrators
  ArbitratorSet = {a1, a2, a3}
  AppealIds = {1}
  MaxCases = 2
  \* SessionSchedule
  StartTimes = {0, 4, 6}
  Lengths = {1, 4}
  MaxBookings = 3
  MaxCancels = 2
  QuotaMaxSessions = 3
  AbuseAfter = 2
  \* Reputation
  Sessions = {s1, s2}
  Ratings = {1, 5}
  AdjustedRatings = {9}
  DisputeWindow = 1
  MaxUpdates = 1
  ReviewClock = 1
  \* UpgradeRegistry
  Approvers = {{a1}}
  SignerSets = {{a1}, {a2}}
  Versions = {1, 2}
  BreakingLayouts = {2}
  CacheExpiry = 2
  UpgradeDelays = {1}
  MigrationRecords = {2}
  MaxUpgrades = 2
  UpgradeClock = 2
  \* DisputeEvidence
  DisputeParties = {learner}
  Judges = {j1, j2}
  ContentHashes = {h1, h2}
  EvidenceWindow = 1
  SubmissionCooldown = 1
  ResolutionDelay = 1
  AppealPeriod = 1
  MaxEvidence = 2
  DisputeClock = 2
  \* EscrowFactory
  FactorySessions = {s1, s2}
  FactoryLearners = {l1}
  FactoryAmounts = {100, 300}
  HighValue = 200
  ApprovalWindow = 1
  FactoryFee = 100
  DeviationLimit = 8000
  RelayTolerance = 0
  RelayMaxDeadline = 2
  MaxDeployments = 2
  MaxRelays = 2
  MaxFactoryTime = 2
  \* VotingPower
  Holders = {"h1", "h2", "h3"}
  TokenAmounts = {1, 2}
  SupplyCap = 3
  MaxTokenCalls = 4
  Holdings <- VotingHoldings
  DelegationDepths = {3, 4}
  PowerCaps = {5000}
  DefaultPowerCap = 10000
  MaxDelegationCalls = 5
  MaxRedelegations = 2
  StakeAmounts = {0, 2}
  VoteSnapshotIds = {1}
  MaxSnapshotCalls = 2
  ProxyOwners = {"o1", "o2"}
  ProxyDeposits = {1, 2}
  ProxyRewards = {1, 3}
  Precision = 12
  ProxyLock = 1
  MaxProxyCalls = 5
  MaxProxyTime = 2
  \* Recovery
  Depositors = {ann, bob}
  Packages = {pkg1, pkg2}
  Rescuers = {g1, g2, g3}
  RescueSigners = 2
  RescueThreshold = 2
  RollingSnapshots = 2
  SnapshotIds = {1, 2}
  MaxRescueWrites = 2
  MaxRescues = 1
  MaxSnapshotsTaken = 2
INVARIANT PowerIsSubtree
CHECK_DEADLOCK FALSE
