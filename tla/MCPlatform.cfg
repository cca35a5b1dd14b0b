SPECIFICATION MCSpec
CONSTANTS
  Explored = {"prices", "validators", "calendar", "attested", "certificates", "learning",
              "kyc", "privacy", "verification", "expertise", "bundles", "merits",
              "reconciliation", "dispute_stats", "metrics", "stats", "analytics", "renewals",
              "subscribers", "reports", "detector", "credit", "templates", "forum", "rbac",
              "velocity", "limiter", "breaker", "registry", "rotation", "keys", "consensus",
              "guard", "intents", "assessments", "market", "community", "outcomes",
              "baseline", "conduct", "ratings", "care", "load", "access", "recordings",
              "descriptions", "availability", "wellness", "specialties", "pricing",
              "prices_set"}
  \* Oracles
  Feeders = {f1, f2}
  FeedPrices = {4, 6}
  FeedTimes = {0, 1}
  BreakerLevels = {50, 2000}
  MinFeeders = 2
  MaxPoints = 2
  TwapWindow = 2
  MaxStaleness = 1
  ReorgDepth = 1
  FeedIsolation = 1
  EjectionCooldown = 2
  CalendarProofs = {h1, h2}
  CalendarSlots = {t1, t2}
  MaxSubmissions = 3
  Violations = {"MissedEpoch", "Equivocation"}
  MaxSlashes = 2
  MaxOracleTime = 2
  OracleSessions = {s1, s2}
  EndTimes = {0, 1}
  ConfirmGrace = 1
  OracleDispute = 1
  MaxSessionTime = 4
  \* Credentials
  Learners = {"l1", "l2"}
  Mentors = {"m1"}
  Skills = {"k1", "k2"}
  CertRatings = {399, 400}
  MinCertRating = 400
  SessionCounts = {2, 3}
  MinSessionsCompleted = 3
  Validations <- CredValidations
  MaxCerts = 2
  MaxCorrections = 1
  CompletionTimes = {0, 1}
  MaxCompletions = 5
  RapidSpan = 1
  KycLevels = {2}
  KycExpiries = {1, 2}
  MaxKycTime = 2
  AlertWindow = 1
  Accessors = {"x"}
  Purposes = {"billing"}
  AccessWindow = 1
  MaxAccessesPerWindow = 1
  AccessLogCap = 3
  LeakWindow = 1
  LeakSessions = 2
  MaxAccesses = 4
  Hashes = {"h1", "h2"}
  GracePeriods = {0, 2}
  Expiries = {1, 2}
  MaxVerifyTime = 4
  OutcomeScores = {3999, 4000}
  MaxOutcomes = 3
  MaxAssessed = 5
  BundleSessions <- CredBundleSessions
  MaxBundles = 2
  BadgeTypes = {"b1", "b2"}
  Nullifiers = {"n1"}
  HalfLife = 1
  MaxEndorseTime = 1
  \* Monitors
  LedgerEntries <- MonitorEntries
  TreasuryBalances = {0, 5}
  PoolBalances = {0, 2}
  ReferralCaps <- MonitorCaps
  MaxEntries = 2
  MaxMismatches = 1
  MaxReconciliations = 1
  ResolutionTimes = {1, 4}
  MaxDisputes = 3
  Metrics = {"critical", "info"}
  MetricPageSize = 2
  MaxMetrics = 5
  EscrowTotals = {0, 1}
  MaxDashboardTime = 2
  Revenues = {1, 2}
  MaxRevenues = 3
  MaxAnalyticsTime = 3
  RenewalAmounts = {1, 2}
  RevenueDays = 2
  StaleDays = 4
  MaxRenewals = 3
  MaxRenewalTime = 6
  LargeTx = 2
  TxAmounts = {1, 2, 3}
  MaxFilings = 3
  PageLimit = 2
  DetectorConfigs <- MonitorConfigs
  DetectorDay = 3
  Watched = {"w"}
  DetectorHour = 1
  TransferAmounts = {2}
  MaxChecks = 5
  MaxDetectorTime = 3
  CreditEscrows <- MonitorEscrows
  StakeLevels = {0, 3000}
  AdminScores = {0, 1000}
  CreditDay = 1
  MaxScores = 2
  MaxCreditTime = 3
  TemplateParams = {0, 1, 10001}
  MaxProposed = 2
  Posters = {"p1", "p2"}
  PostStakes = {3}
  MaxPosts = 2
  MaxForumCalls = 5
  \* Guards
  Officers = {"a1", "a2", "a3"}
  Roles = {"SUPER_ADMIN", "KYC_OPERATOR"}
  AdminDelay = 2
  MaxRoleCalls = 4
  MaxRoleTime = 3
  Spenders = {"u1"}
  Spendings = {2, 3}
  BasicLimits <- LowLimits
  EnhancedLimits <- HighLimits
  VelocityDay = 1
  VelocityMonth = 2
  MaxSpendings = 3
  MaxVelocityTime = 2
  LimitedCallers = {"c1"}
  MaxCalls = 2
  WindowSeconds = 2
  MaxLimitedCalls = 6
  MaxLimiterTime = 5
  CircuitThreshold = 3
  HealthInterval = 1
  YieldContracts = {"y1", "y2"}
  MaxBreakerCalls = 7
  MaxBreakerTime = 2
  InterfaceIds = {"yield_v1", "escrow_v1"}
  Implementations = {"i1", "i2"}
  InterfaceVersions = {1, 2}
  MaxRegistrations = 3
  KeyOwners = {"k1", "k2"}
  KeyGuardians = {"g1", "g2", "g3"}
  Commitments = {"c", "d"}
  MaxGuardians = 3
  RecoveryQuorum = 2
  RecoveryTime = 1
  RevocationCooldown = 1
  RotationPeriod = 1
  ShareCounts = {2}
  MaxKeyCalls = 6
  MaxRotationCalls = 4
  RecoveryKeys = {"c"}
  MaxKeyTime = 2
  BlockHashes = {"b1", "b2"}
  RoundQuorum = 2
  RoundTimeout = 1
  MaxTimeouts = 1
  MaxVotes = 7
  MaxRoundTime = 1
  GuardLocks = {"create", "release", "dispute", "resolve"}
  GuardCallers = {"p", "q", "r"}
  MaxCallerDepth = 4
  MaxFrames = 4
  MaxGuardSteps = 7
  OpsPerWindow = 2
  IntentWindow = 1
  HighAmount = 1
  IntentAmounts = {1, 2}
  CoolingOff = 1
  ApprovalCounts = {1, 2}
  MaxIntents = 4
  MaxIntentTime = 2
  \* Assessments
  Scores = {20, 60, 79, 95}
  Levels = {0, 2, 6}
  MaxReported = 5
  \* Oversight
  Cooldown = 1
  TightWindow = 2
  BurstWindow = 1
  ReviewLogCap = 4
  Reviewers = {rev1, rev2}
  Ratings = {1, 5}
  NetworkSplits <- Splits
  PriceMoves <- Moves
  MaxReviews = 4
  MaxConduct = 4
  MaxProposals = 2
  MinGrades = 4
  InflationWindow = 4
  MaxGrades = 5
  MaxReports = 3
  MaxWatchTime = 2
  \* SessionCare
  LogCap = 6
  SuspensionCooldown = 2
  Prices = {10, 40}
  LowFee = 20
  MaxLowFee = 2
  RateLimit = 4
  MaxBooked = 2
  MaxCareTime = 1
  MaxReads = 4
  Outsiders = {out1}
  Tutor = tutor
  c1 = c1
  c2 = c2
  ChunkLists <- Chunks
  Year = 9
  MaxGrants = 1
  Slots = {2, 3}
  Lead = 2
  MaxPlanTime = 3
  MaxPlanned = 3
  ProofAge = 1
  MinFigures = 2
INVARIANTS BooksAreTrue LimitsHold VerdictsAreGrounded
PROPERTIES ProtectionStands
CHECK_DEADLOCK FALSE
