------------------------------ MODULE MCServices ------------------------------
(***************************************************************************)
(* Small instances, for TLC, of the contracts that decide and record: the  *)
(* votes, the cases, the calendar, the reviews, the releases, the deployed *)
(* escrows, the snapshots. They share no state but the clock, so each is   *)
(* explored while the others are at rest in one of their initial states.   *)
(***************************************************************************)
EXTENDS Governance, SessionSchedule, Reputation, UpgradeRegistry, DisputeEvidence,
        EscrowFactory, VotingPower, Recovery

CONSTANTS
    Explored,   \* the contracts to explore
    v1, v2      \* two voters

VARIABLE contract   \* the one explored in this behaviour

\* Neither voter reaches the highest quorum alone; the second reaches the others.
MCPower == [v \in Voters |-> IF v = v1 THEN 4 ELSE 6]
MCQuorums == [plain |-> 4000, custom |-> 6000, rollback |-> 8000]

\* What the three holders of the voting token start with.
VotingHoldings == [h1 |-> 1, h2 |-> 2, h3 |-> 4]

\* The first admin is any of them: they are interchangeable.
AtRest ==
    /\ gov_admin = CHOOSE a \in GovAdmins : TRUE
    /\ contract # "disputes" => registered = Judges

MCInit ==
    /\ contract \in Explored
    /\ GovernanceInit /\ ArbitratorsInit /\ ScheduleInit /\ ReputationInit /\ UpgradeInit
    /\ DisputeInit /\ FactoryInit
    /\ TokenInit /\ DelegationsInit /\ SnapshotsInit /\ ProxyInit
    /\ StakeRecoveryInit /\ RegistryRecoveryInit
    /\ AtRest

resting(names, state) == IF contract \in names THEN TRUE ELSE UNCHANGED state

MCNext ==
    /\ \/ contract = "governance" /\ GovernanceNext
       \/ contract = "arbitrators" /\ ArbitratorsNext
       \/ contract = "schedule" /\ ScheduleNext
       \/ contract = "reputation" /\ ReputationNext
       \/ contract = "upgrades" /\ UpgradeNext
       \/ contract = "disputes" /\ DisputeNext
       \/ contract = "factory" /\ FactoryNext
       \/ contract = "token" /\ TokenNext
       \/ contract = "delegations" /\ DelegationsNext
       \/ contract = "snapshots" /\ SnapshotsNext
       \/ contract = "proxy" /\ ProxyNext
       \/ contract = "stake_recovery" /\ StakeRecoveryNext
       \/ contract = "registry_recovery" /\ RegistryRecoveryNext
    /\ resting({"governance"}, gov_vars) /\ resting({"arbitrators"}, arbitrator_vars)
    /\ resting({"schedule"}, schedule_vars) /\ resting({"reputation"}, reputation_vars)
    /\ resting({"upgrades"}, upgrade_vars) /\ resting({"disputes"}, dispute_vars)
    /\ resting({"factory"}, factory_vars)
    /\ resting({"token", "delegations", "snapshots", "proxy"}, voting_vars)
    /\ resting({"stake_recovery", "registry_recovery"}, recovery_vars)
    /\ UNCHANGED contract

services_vars ==
    <<contract, now, gov_vars, arbitrator_vars, schedule_vars, reputation_vars, upgrade_vars,
      dispute_vars, factory_vars, voting_vars, recovery_vars>>

MCSpec == MCInit /\ [][MCNext]_services_vars

-----------------------------------------------------------------------------
(* What the contracts that decide and record promise together. Each part   *)
(* is stated and explained in the module of its contract.                  *)


\* Decisions are made by those entitled to, in their time: proposals are carried by the votes
\* cast while they were open and wait for their timelock, repeated cancellations escalate,
\* cached approvals expire, an appeal has another judge, evidence is spaced, a signed payload
\* is used once, a high-value session is approved in time and a rollback has its approvals.
DecisionsAreLegitimate ==
    /\ CarriedByVotes /\ CallsWait /\ CancelsEscalate /\ ApprovalsAreRecent
    /\ AppealHasAnotherJudge /\ SubmissionsAreSpaced /\ PayloadsAreUsedOnce /\ ApprovedInTime
    /\ RollbacksAreApproved

\* What was decided or earned stands: the layout changes at the end of its migration only, a
\* ruling is final after the appeal period, and rewards leave only by being paid.
DecisionsStand ==
    LayoutChangesWhenMigrated /\ RulingIsFinal /\ EarnedStays
===============================================================================
