SPECIFICATION MCSpec
CONSTANTS
  Explored = {"handover", "multisig", "timelock", "council"}
  a1 = a1
  a2 = a2
  a3 = a3
  \* AdminHandover
  Admins = {a1, a2, a3}
  NoAdmin = NoAdmin
  AdminTimelock = 2
  CoolingOff = 1
  MaxHandoverTime = 8
  \* Multisig
  Members = {a1, a2, a3}
  TransferAdmin = TransferAdmin
  InitialSigners <- MCSigners
  TransferAmounts = {2}
  Locks = {0, 1}
  MultisigFunds = 3
  MaxTransactions = 2
  MaxMultisigTime = 1
  \* Timelock
  Proposers = {a1, a2}
  Guardians = {g1, g2, g3}
  g1 = g1
  g2 = g2
  g3 = g3
  Strong = {g1, g2}
  NoGuardian = NoGuardian
  MinDelay = 1
  MaxDelay = 2
  Tolerance = 1
  Expiry = 2
  Delays = {0, 1, 2, 3}
  MaxOverrides = 2
  OverridePeriod = 2
  MaxOperations = 3
  MaxTimelockTime = 3
  \* MultisigAdmin
  Council = {a1, a2}
  InitialCouncils = {{a1, a2}}
  CouncilActions <- MCCouncilActions
  ActionExpiry = 0
  EmergencyAddresses = {a1, a2}
  EmergencySeats = 2
  EmergencyThreshold = 2
  GovSnapshotIds = {s1, s2}
  s1 = s1
  s2 = s2
  NoGovSnapshot = NoGovSnapshot
  MaxGovSnapshots = 1
  MaxActions = 2
  MaxGovRollbacks = 1
  MaxCouncilTime = 1
INVARIANTS
  NoStaleProposal
  QuorumIsReal
  OperationsAreOrderly
  CountsOwnSignatures CountersAreExact
PROPERTIES HandoverWaits TransfersAreApproved ActionsAreApproved
SYMMETRY AuthoritySymmetry
CHECK_DEADLOCK FALSE
