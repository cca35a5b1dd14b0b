SPECIFICATION MCSpec
CONSTANTS
  Explored = {"treasury", "inflows", "buyback", "staking", "founders", "lending", "collateral", "vesting",
              "insurance", "bounty", "subscription", "bridge", "xchain", "referral", "bonds",
              "isas", "markets", "streaks", "allowances", "upkeep"}
  b1 = b1
  \* Treasury
  Treasurers = {t1, t2}
  NoTreasurer = NoTreasurer
  TimelockContract = TimelockContract
  DepositAmounts = {16}
  AllocAmounts = {4, 12}
  Thresholds = {8}
  ExpectedAverage = 16
  MaxInteractions = 2
  TreasuryTimelock = 1
  TreasuryCooling = 1
  MinInterval = 1
  DistributionBuffer = 2
  MaxDeposits = 1
  MaxAllocations = 2
  MaxPending = 1
  MaxDistributions = 2
  MaxSurplus = 4
  MaxTreasuryTime = 2
  \* Buyback
  XlmAmounts = {1, 3}
  MntOutputs = {1, 2}
  MinOut = 1
  InitialXlm = 12
  VelocityWindow = 2
  VelocityWarn = 2500
  ConcentrationWarn = 3000
  ResponseThreshold = 70
  MaxBuybacks = 3
  MaxDeferrals = 1
  MaxBuybackTime = 3
  \* Staking
  Stakers = {s1, s2}
  Founders = {s1}
  StakeAmounts = {2}
  LockPeriods = {2}
  Revenues = {2}
  DistributionIds = {1}
  MinStaking = 1
  MaxScaling = 2
  RewardLockup = 1
  MaxEpochsPerSettle = 2
  MaxLockupsPerClaim = 2
  MaxEpochs = 3
  MaxPenalties = 1
  MaxBatches = 1
  MaxStakes = 2
  MaxRestorations = 1
  MaxStakingTime = 2
  \* Pools: lending_pool
  PoolLenders = {l1}
  PoolBorrowers = {b1}
  PoolAmounts = {3}
  PoolYields = {2}
  InterestRates = {2000, 5000}
  BlockBorrowCap = 7000
  LoanTerm = 0
  AuctionDuration = 2
  MaxAuctionDiscount = 5000
  MaxLoans = 2
  MaxPoolLiquidity = 6
  MaxPoolTime = 2
  \* Pools: collateral_loan
  Debtors = {d1, d2}
  Collaterals = {15}
  Debts = {10}
  Prices = {1, 2}
  Staleness = {1}
  MinRatio = 15000
  LiquidationThreshold = 12000
  AtRiskThreshold = 14000
  LiquidationFee = 1000
  DailyInterest = 2000
  KeptSnapshots = 3
  InitialUsdc = 30
  MaxOpenings = 3
  MaxCollateral = 30
  MaxLoanDays = 2
  \* Vesting
  Beneficiaries = {b1, b2}
  GrantTotals = {4}
  Cliffs = {0, 2}
  Durations = {3}
  MaxStartSkew = 1
  CliffTolerance = 1
  Leaves <- MCLeaves
  VestingFunds = 8
  MaxGrants = 2
  MaxVestingTime = 5
  \* Pools: insurance
  Providers = {p1, p2}
  PremiumAmounts = {1, 2}
  WithdrawLock = 1
  MaxInsurance = 3
  MaxInsuranceTime = 1
  \* Bounty
  BountyLearners = {k1, k2}
  BountyRewards = {3}
  MilestoneShares <- MCShares
  BountyDeadlines = {1}
  BountyDisputeWindow = 1
  MaxBounties = 2
  MaxBountyTime = 2
  \* Subscription
  Price = 2
  SessionsPerMonth = 1
  Month = 2
  RenewalGrace = 1
  ExpiryGrace = 1
  SubFee = 5000
  Allowances = {0, 4}
  GamingAfter = 1
  GamingVolume = 10
  StreamRate = 1
  StreamDeposits = {2}
  Wallet = 8
  MaxSubs = 1
  MaxStreams = 1
  MaxAuthorizations = 2
  MaxSubTime = 5
  \* CrossChain
  Stellar = Stellar
  BridgeChains = {c1}
  Vaas = {v1, v2}
  BridgeAmounts = {3}
  Relayers = {r1}
  MessageNonces = {1, 2}
  EscrowContracts = {e1, e2}
  RouterFees = {5000}
  RouterDelay = 1
  L2Delay = 1
  IsolationPeriod = 1
  XChainTimeout = 1
  MaxBridgeTime = 1
  MaxXOps = 1
  MaxXTime = 2
  MaxScheduled = 1
  \* Rewards
  Users = {"u1", "u2"}
  Referees <- RewardReferees
  MentorReward = 5
  LearnerReward = 2
  FeeRewards = {0, 1}
  EpochSecs = 1
  WindowSecs = 1
  BoardSize = 1
  SuspiciousAbove = 1
  BonusCount = 1
  BonusAmount = 1
  RankingSize = 1
  ReferralConfigs <- RewardConfigs
  DefaultReferralConfig <- RewardConfig
  MaxReferralTime = 1
  BondAmounts = {1, 3}
  MinBond = 2
  CooldownChoices = {1}
  MaxBonds = 2
  MaxBondTime = 2
  IsaTerms <- RewardIsaTerms
  Incomes = {1, 4}
  Periods = {1}
  MaxMissedPayments = 1
  MaxIsas = 2
  MaxIsaTime = 2
  FixedPointScale = 100
  Liquidity = 2
  HugeValue = 1000000
  BetAmounts = {1}
  Bettors = {"b1", "b2"}
  ResolutionDates = {1}
  MaxMarkets = 2
  MaxBets = 3
  MaxMarketTime = 1
  StreakWeeks = 5
  StreakBoard = 2
  AllowanceTerms <- RewardAllowances
  PullAmounts = {1, 2, 3}
  MaxPulls = 4
  MaxAllowanceTime = 4
  RentAmounts = {1, 3}
  RentThresholds = {2, 6}
  MonthlyRent = 2
  MaxRent = 12
INVARIANTS LendingIsSound CollateralIsSound TokensAreAccountedFor ListsAndPoolsAgree PaymentsAreDue
PROPERTIES PromisesStand
CHECK_DEADLOCK FALSE
