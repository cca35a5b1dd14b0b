------------------------------- MODULE MCFunds -------------------------------
(***************************************************************************)
(* Small instances, for TLC, of the contracts that hold tokens of their    *)
(* own. They share no state but the clock, so each is explored while the   *)
(* others are at rest in one of their initial states.                      *)
(***************************************************************************)
EXTENDS Treasury, Staking, Pools, Awards,
        Subscription, CrossChain, Rewards

CONSTANTS
    Explored,   \* the contracts to explore
    b1          \* a beneficiary

VARIABLE contract   \* the one explored in this behaviour

\* Two grants of one address in the published list, one with a cliff.
MCLeaves ==
    {[beneficiary |-> b1, total |-> 4, cliff |-> 0, duration |-> 3, start |-> 0],
     [beneficiary |-> b1, total |-> 4, cliff |-> 2, duration |-> 2, start |-> 1]}

\* Shares in basis points that make up the reward, and shares that do not.
MCShares == {<<5000, 5000>>, <<5000, 6000>>}

\* Limits and terms of the contracts that reward.
RewardConfig == [max_bps |-> 20000, max_lifetime |-> 12, global_cap |-> 40]
RewardConfigs == {[max_bps |-> 10000, max_lifetime |-> 12, global_cap |-> 40]}
RewardIsaTerms ==
    {[funded |-> 2, share_pct |-> 5000, cap_multiple |-> 150, duration |-> 2],
     [funded |-> 1, share_pct |-> 10000, cap_multiple |-> 100, duration |-> 1]}
RewardAllowances == {[amount |-> 2, periods |-> 2, secs |-> 1], [amount |-> 1, periods |-> 3, secs |-> 2]}
RewardReferees == {<<"u2", TRUE>>, <<"u3", FALSE>>, <<"u4", TRUE>>}

\* In a new contract a page is credited while the epochs are few; the stakes of founders are
\* explored with fewer epochs yet and no page, which their restoration does not meet.
BatchEpochs == 2
FounderEpochs == 1
StakingAnew == StakingNext /\ (batches' = 0 \/ Len(epochs') <= BatchEpochs)
StakingFounders == StakingNext /\ batches' = 0 /\ Len(epochs') <= FounderEpochs

\* Tokens that arrive without a deposit are explored over a shorter time than the rest of the
\* treasury, and the router's token stays approved once it is.
LastInflowTime == 1
TreasuryDeposits == TreasuryNext /\ surplus' = 0
TreasuryInflows == TreasuryNext /\ now' <= LastInflowTime /\ schedule'.at <= LastInflowTime
BridgeRoutes == BridgeNext /\ (router.approved => router'.approved)

\* The first admin is any of them: they are interchangeable.
AtRest ==
    /\ steward = CHOOSE t \in Treasurers : TRUE
    /\ contract # "collateral" => quote.price = CHOOSE p \in Prices : TRUE
    /\ legacy = IF contract = "founders" THEN Founders ELSE {}

MCInit ==
    /\ contract \in Explored
    /\ TreasuryInit /\ BuybackInit /\ StakingInit /\ LendingInit /\ CollateralInit
    /\ VestingInit /\ InsuranceInit /\ BountyInit /\ SubscriptionInit
    /\ BridgeInit /\ RouterInit /\ XChainInit /\ RewardsInit
    /\ AtRest

resting(names, state) == IF contract \in names THEN TRUE ELSE UNCHANGED state
CrossChainParts == {"bridge", "xchain"}
RewardParts == {"referral", "bonds", "isas", "markets", "streaks", "allowances", "upkeep"}

MCNext ==
    /\ \/ contract = "treasury" /\ TreasuryDeposits
       \/ contract = "inflows" /\ TreasuryInflows
       \/ contract = "buyback" /\ BuybackNext
       \/ contract = "staking" /\ StakingAnew
       \/ contract = "founders" /\ StakingFounders
       \/ contract = "lending" /\ LendingNext
       \/ contract = "collateral" /\ CollateralNext
       \/ contract = "vesting" /\ VestingNext
       \/ contract = "insurance" /\ InsuranceNext
       \/ contract = "bounty" /\ BountyNext
       \/ contract = "subscription" /\ SubscriptionNext
       \/ contract = "bridge" /\ BridgeRoutes
       \/ contract = "xchain" /\ XChainNext
       \/ contract = "referral" /\ ReferralNext
       \/ contract = "bonds" /\ BondsNext
       \/ contract = "isas" /\ IsasNext
       \/ contract = "markets" /\ MarketsNext
       \/ contract = "streaks" /\ StreaksNext
       \/ contract = "allowances" /\ AllowancesNext
       \/ contract = "upkeep" /\ UpkeepNext
    /\ resting({"treasury", "inflows"}, treasury_vars) /\ resting({"buyback"}, buyback_vars)
    /\ resting({"staking", "founders"}, staking_vars) /\ resting({"lending"}, lending_vars)
    /\ resting({"collateral"}, collateral_vars) /\ resting({"vesting"}, vesting_vars)
    /\ resting({"insurance"}, insurance_vars) /\ resting({"bounty"}, bounty_vars)
    /\ resting({"subscription"}, subscription_vars)
    /\ resting(CrossChainParts, <<bridge_vars, router_vars, xchain_vars>>)
    /\ resting(RewardParts, reward_vars)
    /\ UNCHANGED contract

\* The state of all of them.
funds_vars ==
    <<contract, now, treasury_vars, buyback_vars, staking_vars, lending_vars, collateral_vars,
      vesting_vars, insurance_vars, bounty_vars, subscription_vars, bridge_vars, router_vars,
      xchain_vars, reward_vars>>

MCSpec == MCInit /\ [][MCNext]_funds_vars

-----------------------------------------------------------------------------
(* What the contracts that hold tokens promise together; what the pools    *)
(* promise is stated in Pools. Each part is stated and explained in the    *)
(* module of its contract.                                                 *)

\* The books agree with the tokens: what a contract says it holds, owes, has paid, locked,
\* vested, bridged or kept as a penalty adds up to what was paid in, rounding included, in every
\* order of deposits, claims, refunds and revocations. The list of stakers names exactly those
\* with a stake, also when a staker leaves and the last one is moved into its place.
TokensAreAccountedFor ==
    /\ TreasuryBooks /\ WindowsAddUp /\ PenaltiesReachEpochs /\ RosterIsExact
    /\ GrantsAreBounded /\ SharesAreTheCover
    /\ BountiesAreSeparate /\ OnlyDustIsLeft /\ StreamsPayTheirDeposit
    /\ BridgedTokensAreConserved /\ BondsAreHeld

\* The lists that stand in for an iteration over storage name exactly the pending rewards, the
\* schedules and the leading referrers they should, however entries come and go; and what the
\* rewards' limits, a share of income and the pools of a market promise is there.
ListsAndPoolsAgree ==
    /\ PendingIsExact /\ OwnSchedulesAreListed /\ LeadersLead
    /\ BookedIsBounded /\ SharesAreCapped /\ MarketsAreSolvent

\* Payments are due: a queued allocation, an epoch's reward, a month, a session, a week's
\* streak and a transfer from another chain are settled once, no disputed bounty is paid,
\* distributions are spaced, bursts of buybacks wait for a new window, and nothing is claimed
\* before it vested.
PaymentsAreDue ==
    /\ QueuedPaidOnce /\ RewardPaidOnce
    /\ DisputedIsUnpaid /\ AllowanceIsTheLimit /\ MonthsAreChargedOnce /\ SessionsArePaid
    /\ RoutedOnce /\ MessagesFundOnce /\ StreaksAreWeeks
    /\ DistributionsAreSpaced /\ BurstsAreDeferred /\ RetryFindsNewWindow
    /\ ClaimsFollowTime /\ CommitsAreInTime /\ PullsAreSpaced

\* What was promised stands: revoking a grant leaves what has vested, a finished operation
\* across chains keeps its outcome, a bond leaves only after its cooldown, a step of the
\* onboarding is not undone and a top-up covers the rent it was asked for.
PromisesStand ==
    /\ RevocationSparesVested
    /\ TerminalIsImmutable /\ BondsCool /\ OnboardingIsComplete /\ TopupsSuffice
==============================================================================
