---- MODULE Awards ----
(* Tokens given for time and for work.                                     *)
(*                                                                         *)
(* contracts/vesting: grants of tokens released linearly after a cliff,    *)
(* created by the admin or claimed with a Merkle proof, and revocable.     *)
(*                                                                         *)
(* contracts/bounty: a poster deposits a reward split over milestones,     *)
(* learners claim with a submission, verified mentors release the rewards  *)
(* of single milestones or of all that are left, the poster disputes a     *)
(* claim or takes the rest back after the deadline.                        *)
EXTENDS Host, Integers, Sequences, FiniteSets, Functions, SequencesExt

CONSTANTS
    Beneficiaries,        \* addresses
    GrantTotals,          \* amounts
    Cliffs, Durations,    \* cliff_seconds and vesting_seconds
    MaxStartSkew,         \* MAX_PAST_START_SECS
    CliffTolerance,       \* TIMESTAMP_TOLERANCE_SECS
    Leaves,               \* leaves of the Merkle tree: [beneficiary, total, cliff, duration, start]
    VestingFunds,         \* tokens sent to the contract beforehand
    MaxGrants, MaxVestingTime   \* bounds

\* Times are unsigned and amounts positive; the list the admin published grants no negative ones.
ASSUME VestingAssumption ==
    /\ GrantTotals \subseteq Nat /\ Cliffs \subseteq Nat /\ Durations \subseteq Nat
    /\ CliffTolerance \in Nat /\ VestingFunds \in Nat /\ MaxVestingTime \in Nat
    /\ Leaves \subseteq [beneficiary : Beneficiaries, total : Nat, cliff : Nat, duration : Nat, start : Nat]

VARIABLES
    vesting_funds,   \* the contract's balance of the token
    next_schedule,   \* NextScheduleId
    schedules,       \* Schedule(id), a partial function
    schedule_ids,    \* BeneficiarySchedules(b): the listed ids
    claimed_leaves,  \* ClaimedMerkleLeaf
    grants           \* history: per grant its beneficiary, total, amount paid and returned

vesting_vars == <<vesting_funds, next_schedule, schedules, schedule_ids, claimed_leaves, grants>>

VestingInit ==
    /\ now = 0
    /\ vesting_funds = VestingFunds
    /\ next_schedule = 0 /\ schedules = NothingStored
    /\ schedule_ids = [b \in Beneficiaries |-> << >>]
    /\ claimed_leaves = {} /\ grants = << >>

\* A schedule stored under id; the record also names the grant it stems from.
granted(id, b, total, cliff_end, vesting_end) ==
    /\ Len(grants) < MaxGrants
    /\ grants' = Append(grants, [beneficiary |-> b, total |-> total, paid |-> 0, returned |-> 0])
    /\ schedules' = put(schedules, id,
         [beneficiary |-> b, total |-> total, claimed |-> 0, cliff_end |-> cliff_end,
          vesting_end |-> vesting_end, grant |-> Len(grants) + 1])
    /\ schedule_ids' = [schedule_ids EXCEPT ![b] = Append(@, id)]

\* By the admin. A start of 0 means now, another one must be close to now; no tokens move.
create_schedule(b, total, cliff, duration, start) ==
    LET begin == IF start = 0 THEN now ELSE start IN
    /\ cliff <= duration
    /\ begin + MaxStartSkew >= now /\ begin <= now + MaxStartSkew
    /\ next_schedule' = next_schedule + 1
    /\ granted(next_schedule + 1, b, total, begin + cliff, begin + cliff + duration)
    /\ UNCHANGED <<now, vesting_funds, claimed_leaves>>

\* Ids are counted from the current counter here, which is the id of the schedule that
\* create_schedule made last: that schedule is replaced.
claim_vesting_merkle(leaf) ==
    LET begin == IF leaf.start = 0 THEN now ELSE leaf.start IN
    /\ leaf \notin claimed_leaves
    /\ claimed_leaves' = claimed_leaves \cup {leaf}
    /\ next_schedule' = next_schedule + 1
    /\ granted(next_schedule, leaf.beneficiary, leaf.total, begin + leaf.cliff, begin + leaf.duration)
    /\ UNCHANGED <<now, vesting_funds>>

\* Mutant: time counts from the cliff without the tolerance, in units of what is left after it.
vested_eagerly(s) ==
    IF now < s.cliff_end + CliffTolerance THEN 0
    ELSE IF now >= s.vesting_end THEN s.total
    ELSE (s.total * (now - s.cliff_end)) \div (s.vesting_end - s.cliff_end - CliffTolerance)

\* Nothing before the cliff, all of it at the end, in between a share rounded down.
vested(s) ==
    IF now < s.cliff_end + CliffTolerance THEN 0
    ELSE IF now >= s.vesting_end THEN s.total
    ELSE (s.total * (now - s.cliff_end - CliffTolerance)) \div (s.vesting_end - s.cliff_end)

claimable_amount(s) == vested(s) - s.claimed

claim(id) ==
    LET s == schedules[id] IN
    /\ id \in DOMAIN schedules
    /\ claimable_amount(s) > 0 /\ claimable_amount(s) <= vesting_funds
    /\ schedules' = [schedules EXCEPT ![id].claimed = @ + claimable_amount(s)]
    /\ vesting_funds' = vesting_funds - claimable_amount(s)
    /\ grants' = [grants EXCEPT ![s.grant].paid = @ + claimable_amount(s)]
    /\ UNCHANGED <<now, next_schedule, schedule_ids, claimed_leaves>>

\* Mutant: what has not been claimed goes back.
unvested_unclaimed(s) == s.total - s.claimed

\* Mutant: all of it goes back.
unvested_all(s) == s.total

unvested(s) == s.total - vested(s)

\* Mutant: the latest one leaves the list.
ids_without_latest(ids, id) == Front(ids)

ids_without(ids, id) == SelectSeq(ids, LAMBDA i : i # id)

\* By the admin, to whom the unvested part goes. What is vested and not claimed stays in the
\* contract, out of the beneficiary's reach.
revoke(id) ==
    LET s == schedules[id] IN
    /\ id \in DOMAIN schedules
    /\ unvested(s) <= vesting_funds
    /\ vesting_funds' = vesting_funds - unvested(s)
    /\ schedules' = del(schedules, id)
    /\ schedule_ids' = [schedule_ids EXCEPT ![s.beneficiary] = ids_without(@, id)]
    /\ grants' = [grants EXCEPT ![s.grant].returned = unvested(s)]
    /\ UNCHANGED <<now, next_schedule, claimed_leaves>>

VestingTick == CloseLedger(MaxVestingTime) /\ UNCHANGED vesting_vars

VestingNext ==
    \/ \E b \in Beneficiaries, t \in GrantTotals, c \in Cliffs, d \in Durations, s \in 0 .. MaxVestingTime :
         create_schedule(b, t, c, d, s)
    \/ \E leaf \in Leaves : claim_vesting_merkle(leaf)
    \/ \E id \in DOMAIN schedules : claim(id) \/ revoke(id)
    \/ VestingTick

VestingSpec == VestingInit /\ [][VestingNext]_<<now, vesting_vars>>

-----------------------------------------------------------------------------
\* Nobody is ahead of the schedule, however the claims are timed: nothing before the cliff, and
\* until the end at most the share of the time since the cliff.
ClaimsFollowTime ==
    \A id \in DOMAIN schedules :
        LET s == schedules[id] IN
        /\ now < s.cliff_end => s.claimed = 0
        /\ (s.cliff_end <= now /\ now < s.vesting_end) =>
               s.claimed * (s.vesting_end - s.cliff_end) <= s.total * (now - s.cliff_end)

\* A grant costs at most its total: what the beneficiary claimed over time and what a
\* revocation returned, in either order and whatever schedule replaced it, add up to no more.
\* A revocation takes away only what was not vested.
GrantsAreBounded ==
    \A i \in DOMAIN grants : grants[i].paid + grants[i].returned <= grants[i].total

\* What is vested at a revocation is never returned: the last moment counts for the beneficiary.
RevocationSparesVested ==
    [][\A id \in DOMAIN schedules \ DOMAIN schedules' :
          LET s == schedules[id]
              over == now >= s.cliff_end + CliffTolerance /\ now >= s.vesting_end
              share == IF over THEN s.total ELSE s.claimed
          IN  vesting_funds - vesting_funds' <= s.total - share]_<<now, vesting_vars>>

\* A beneficiary finds the own schedules in the list, also after ids were used twice.
OwnSchedulesAreListed ==
    \A id \in DOMAIN schedules : Contains(schedule_ids[schedules[id].beneficiary], id)

\* Every schedule but a revoked one can still be claimed from: the grants that are neither
\* revoked nor paid in full each have their schedule.
GrantsKeepTheirSchedule ==
    \A i \in DOMAIN grants : grants[i].returned = 0 /\ grants[i].paid < grants[i].total
        => \E id \in DOMAIN schedules : schedules[id].grant = i

-----------------------------------------------------------------------------
(* Bounties. *)

CONSTANTS
    BountyLearners,     \* addresses
    BountyRewards,      \* amounts
    MilestoneShares,    \* reward_bps of the milestones, each a sequence with the sum 10000
    BountyDeadlines,    \* seconds from posting to the deadline
    BountyDisputeWindow, \* DISPUTE_WINDOW
    MaxBounties, MaxBountyTime   \* bounds

\* Rewards, shares and times are not negative.
ASSUME BountyAssumption ==
    /\ IsFiniteSet(BountyLearners) /\ BountyRewards \subseteq Nat /\ MilestoneShares \subseteq Seq(Nat)
    /\ BountyDeadlines \subseteq Nat /\ BountyDisputeWindow \in Nat

VARIABLES
    bounty_funds,    \* the contract's balance of the token
    bounties,        \* DataKey::Bounty(1 .. BountyCount)
    bounty_claims,   \* DataKey::Claim(id, learner): claimed_at and status, a partial function
    bounty_paid      \* history: id |-> learner |-> amount paid, and what went back to the poster

bounty_vars == <<bounty_funds, bounties, bounty_claims, bounty_paid>>

BountyInit ==
    /\ now = 0
    /\ bounty_funds = 0 /\ bounties = << >> /\ bounty_claims = NothingStored
    /\ bounty_paid = << >>

post_bounty(reward, shares, period) ==
    /\ Len(bounties) < MaxBounties
    /\ SumFunctionOnSet(shares, DOMAIN shares) = 10000
    /\ bounty_funds' = bounty_funds + reward
    /\ bounties' = Append(bounties, [reward |-> reward, shares |-> shares, deadline |-> now + period,
                                     completed |-> {}, status |-> "Open"])
    /\ bounty_paid' = Append(bounty_paid, [learners |-> [l \in BountyLearners |-> 0], returned |-> 0])
    /\ UNCHANGED <<now, bounty_claims>>

bounty_active(id) == bounties[id].status \notin {"Verified", "Refunded"}

claim_bounty(l, id) ==
    /\ bounty_active(id) /\ now <= bounties[id].deadline
    /\ <<id, l>> \notin DOMAIN bounty_claims
    /\ bounty_claims' = put(bounty_claims, <<id, l>>, [claimed_at |-> now, status |-> "Pending"])
    /\ bounties' = [bounties EXCEPT ![id].status = IF @ = "Open" THEN "Claimed" ELSE @]
    /\ UNCHANGED <<now, bounty_funds, bounty_paid>>

milestone_reward(b, i) == (b.reward * b.shares[i]) \div 10000

\* What the milestones that are not completed are worth, each rounded down.
remaining(b) ==
    SumFunctionOnSet([i \in DOMAIN b.shares |-> milestone_reward(b, i)], DOMAIN b.shares \ b.completed)

\* The contract can be told a pause guardian but has no way to pause, so the check for it never
\* fails. Neither verification looks at the deadline or at the status Disputed of the bounty.
verifiable(l, id) ==
    /\ bounty_active(id)
    /\ <<id, l>> \in DOMAIN bounty_claims /\ bounty_claims[<<id, l>>].status # "Disputed"

pay_learner(l, id, amount) ==
    /\ amount <= bounty_funds
    /\ bounty_funds' = bounty_funds - amount
    /\ bounty_paid' = [bounty_paid EXCEPT ![id].learners[l] = @ + amount]

\* By a verified mentor.
verify_completion(l, id) ==
    LET b == bounties[id] IN
    /\ verifiable(l, id)
    /\ remaining(b) > 0
    /\ pay_learner(l, id, remaining(b))
    /\ bounties' = [bounties EXCEPT ![id].status = "Verified", ![id].completed = DOMAIN b.shares]
    /\ bounty_claims' = [bounty_claims EXCEPT ![<<id, l>>].status = "Verified"]
    /\ UNCHANGED now

\* Mutant: the claim is verified with the last milestone.
claim_after_milestone_last(b, status) == IF b.completed = DOMAIN b.shares THEN "Verified" ELSE status

claim_after_milestone(b, status) == "Verified"

\* By a verified mentor; the bounty leaves the status Disputed, too.
verify_milestone(l, id, i) ==
    LET b == [bounties[id] EXCEPT !.completed = @ \cup {i}] IN
    /\ verifiable(l, id)
    /\ i \in DOMAIN b.shares \ bounties[id].completed
    /\ pay_learner(l, id, milestone_reward(b, i))
    /\ bounties' = [bounties EXCEPT ![id] = [b EXCEPT !.status =
         IF b.completed = DOMAIN b.shares THEN "Verified" ELSE "PartiallyVerified"]]
    /\ bounty_claims' = [bounty_claims EXCEPT ![<<id, l>>].status = claim_after_milestone(b, @)]
    /\ UNCHANGED now

\* By the poster. Nothing ever takes a claim out of this status.
dispute_completion(l, id) ==
    /\ bounty_active(id)
    /\ <<id, l>> \in DOMAIN bounty_claims /\ bounty_claims[<<id, l>>].status = "Pending"
    /\ now <= bounty_claims[<<id, l>>].claimed_at + BountyDisputeWindow
    /\ bounty_claims' = [bounty_claims EXCEPT ![<<id, l>>].status = "Disputed"]
    /\ bounties' = [bounties EXCEPT ![id].status = "Disputed"]
    /\ UNCHANGED <<now, bounty_funds, bounty_paid>>

\* Mutant: the reward goes back, whatever has been paid of it.
bounty_refund_whole(b) == b.reward

\* Mutant: the condition on the milestones is inverted.
bounty_refund_completed(b) == remaining([b EXCEPT !.completed = DOMAIN b.shares \ @])

bounty_refund(b) == remaining(b)

\* By the poster, also while claims are pending or disputed.
refund_bounty(id) ==
    /\ bounty_active(id) /\ now > bounties[id].deadline
    /\ bounty_refund(bounties[id]) <= bounty_funds
    /\ bounty_funds' = bounty_funds - bounty_refund(bounties[id])
    /\ bounties' = [bounties EXCEPT ![id].status = "Refunded"]
    /\ bounty_paid' = [bounty_paid EXCEPT ![id].returned = bounty_refund(bounties[id])]
    /\ UNCHANGED <<now, bounty_claims>>

BountyTick == CloseLedger(MaxBountyTime) /\ UNCHANGED bounty_vars

BountyNext ==
    \/ \E r \in BountyRewards, s \in MilestoneShares, p \in BountyDeadlines : post_bounty(r, s, p)
    \/ \E id \in DOMAIN bounties :
         \/ \E l \in BountyLearners :
              \/ claim_bounty(l, id)
              \/ verify_completion(l, id)
              \/ \E i \in DOMAIN bounties[id].shares : verify_milestone(l, id, i)
              \/ dispute_completion(l, id)
         \/ refund_bounty(id)
    \/ BountyTick

BountySpec == BountyInit /\ [][BountyNext]_<<now, bounty_vars>>

-----------------------------------------------------------------------------
bounty_payments(id) ==
    SumFunctionOnSet(bounty_paid[id].learners, BountyLearners) + bounty_paid[id].returned

\* The bounties share one balance, and none is paid from another's reward: through milestones,
\* completions and refunds a bounty pays at most its reward, and the contract still holds what
\* every active bounty has not paid.
BountiesAreSeparate ==
    /\ \A id \in DOMAIN bounties : bounty_payments(id) <= bounties[id].reward
    /\ bounty_funds = SumFunctionOnSet([id \in DOMAIN bounties |-> bounties[id].reward - bounty_payments(id)],
                                       DOMAIN bounties)

\* A finished bounty has paid all but what rounding takes, less than one unit per milestone,
\* however its milestones were spread over learners, mentors and the poster's refund.
OnlyDustIsLeft ==
    \A id \in DOMAIN bounties :
        ~bounty_active(id) => bounties[id].reward - bounty_payments(id) < Len(bounties[id].shares)

\* A learner whose claim is disputed has received nothing on it and never will.
DisputedIsUnpaid ==
    \A c \in DOMAIN bounty_claims :
        bounty_claims[c].status = "Disputed" => bounty_paid[c[1]].learners[c[2]] = 0
====
