---- MODULE Staking ----
(* contracts/staking: stakes and their early exit, reward epochs with the  *)
(* snapshot of the stakes, lockups settled per staker and epoch, claims.   *)
(* The treasury's tokens arrive with receive_treasury_distribution. The    *)
(* stakes of a version before the indexed list, their migration and the    *)
(* rollback of stakes to a snapshot are there too. Tiers, the action log   *)
(* and the analytics reports influence none of this and are left out.      *)
EXTENDS Host, Sequences, FiniteSets, SequencesExt, FiniteSetsExt

CONSTANTS
    Stakers,             \* addresses
    Founders,            \* those who staked before the list was indexed, if any did
    StakeAmounts,        \* amounts of stakes
    LockPeriods,         \* lock_period_days
    Revenues,            \* amounts distributed
    DistributionIds,     \* ids the treasury gives its distributions
    MinStaking,          \* MIN_STAKING_DURATION_SECS
    MaxScaling,          \* MAX_SCALING_DURATION_SECS
    RewardLockup,        \* REWARD_LOCKUP_SECS
    MaxEpochsPerSettle,  \* MAX_EPOCHS_PER_SETTLE
    MaxLockupsPerClaim,  \* MAX_LOCKUPS_PER_CLAIM
    MaxStakes, MaxEpochs, MaxPenalties, MaxBatches, MaxRestorations, MaxStakingTime   \* bounds

\* Amounts and durations are unsigned or checked to be positive.
ASSUME StakingAssumption ==
    /\ StakeAmounts \subseteq Nat /\ LockPeriods \subseteq Nat /\ Revenues \subseteq Nat
    /\ MinStaking \in Nat \ {0} /\ RewardLockup \in Nat /\ MaxEpochsPerSettle \in Nat
    /\ IsFiniteSet(Founders) /\ Founders \subseteq Stakers

VARIABLES
    stakes,         \* the Stake(mentor) records, a partial function
    roster,         \* StakerAt(0 .. StakerCount - 1), counted from 1 here
    place,          \* StakerIndex(mentor), a partial function
    legacy,         \* Stakers, the list of the version before, {} when it is gone
    captured,       \* StakeSnapshot, the records of the last snapshot, a partial function
    rewritten,       \* history: those whose record a rollback wrote
    written_back,   \* history: what rollbacks added to the stakes
    restorations,   \* history: rollbacks
    total_staked,   \* TotalStaked
    epochs,         \* the closed epochs 0 .. EpochId - 1, counted from 1 here
    joined,         \* history: stakes made
    entry_epoch,    \* StakerEpochEntry, a partial function
    next_claim,     \* StakerNextClaimEpoch, a partial function
    settled_until,  \* StakerLockupSettledUntil, a partial function
    lockups,        \* StakerRewardLockup(staker, epoch), a partial function
    pending_list,   \* PendingDistributionIndex(0 .. count - 1), counted from 1 here
    pending_place,  \* PendingDistributionPosition(staker, epoch), a partial function
    penalty_pool,   \* PenaltyRedistributionPool
    penalties,      \* history: penalties charged
    revenues,       \* history: amounts given to epochs
    processed,      \* ProcessedDistribution
    staked_tokens,  \* the contract's token balance
    credited,       \* PendingRewards(staker), 0 if absent
    batches,        \* history: pages credited
    payments        \* history: how often and when last <<staker, epoch>> was paid

list_state == <<roster, place, legacy>>
rescue_state == <<captured, rewritten, written_back, restorations>>
stake_state == <<stakes, list_state, rescue_state, total_staked, joined, entry_epoch>>
epoch_state == <<epochs, penalty_pool, penalties, revenues, processed>>
reward_state == <<next_claim, settled_until, lockups, pending_list, pending_place, credited, batches, payments>>
staking_vars == <<stake_state, epoch_state, reward_state, staked_tokens>>

\* What the records s stake together.
stake_sum(s) == SumFunctionOnSet([m \in DOMAIN s |-> s[m].amount], DOMAIN s)

\* A contract without stakes, or one upgraded with the stakes of its founders.
StakingInit ==
    /\ now = 0
    /\ legacy \in {{}, Founders} /\ roster = << >> /\ place = NothingStored
    /\ \E amount \in StakeAmounts, period \in LockPeriods :
         stakes = [m \in legacy |-> [amount |-> amount, staked_at |-> 0, unlock_at |-> period]]
    /\ total_staked = stake_sum(stakes) /\ staked_tokens = total_staked
    /\ captured = NothingStored /\ rewritten = {} /\ written_back = 0 /\ restorations = 0
    /\ joined = 0 /\ entry_epoch = NothingStored
    /\ epochs = << >> /\ penalty_pool = 0 /\ penalties = 0 /\ revenues = 0 /\ processed = {}
    /\ next_claim = NothingStored /\ settled_until = NothingStored /\ lockups = NothingStored
    /\ pending_list = << >> /\ pending_place = NothingStored /\ payments = NothingStored
    /\ credited = [m \in Stakers |-> 0] /\ batches = 0

-----------------------------------------------------------------------------
\* compute_reward_multiplier_bps
multiplier_bps(duration) ==
    IF duration < MinStaking THEN 0
    ELSE IF duration >= MaxScaling THEN 30000
    ELSE 10000 + ((duration - MinStaking) * 20000) \div (MaxScaling - MinStaking)

\* compute_early_unstake_penalty: from half of the principal down to a tenth of it.
penalty_amount(record) ==
    LET held == now - record.staked_at
        bps == IF held >= MinStaking THEN 1000
               ELSE 1000 + ((MinStaking - held) * 4000) \div MinStaking
    IN  IF now >= record.unlock_at THEN 0 ELSE (record.amount * bps) \div 10000

\* A staker joins at the end of the list, unless it names him.
listed(m) ==
    \/ m \notin DOMAIN place /\ roster' = Append(roster, m) /\ place' = put(place, m, Len(roster) + 1)
    \/ m \in DOMAIN place /\ UNCHANGED <<roster, place>>

\* The entry epoch is the one after the current: stakes opened now miss the open epoch.
stake(m, amount, period) ==
    /\ joined < MaxStakes
    /\ joined' = joined + 1
    /\ period >= MinStaking
    /\ m \notin DOMAIN stakes
    /\ stakes' = put(stakes, m, [amount |-> amount, staked_at |-> now, unlock_at |-> now + period])
    /\ listed(m)
    /\ total_staked' = total_staked + amount
    /\ entry_epoch' = put(entry_epoch, m, Len(epochs) + 1)
    /\ next_claim' = put(next_claim, m, Len(epochs) + 1)
    /\ staked_tokens' = staked_tokens + amount
    /\ UNCHANGED <<now, legacy, rescue_state, epoch_state, settled_until, lockups, pending_list, pending_place,
                   credited, batches, payments>>

\* Mutant: the moved entry keeps its old position.
moved_into_keeps_position(list, pos, i) ==
    LET last == Len(list) IN
    [list |-> SubSeq(IF i # last THEN [list EXCEPT ![i] = list[last]] ELSE list, 1, last - 1),
     pos  |-> del(pos, list[i])]

\* The swap-remove shared by the list of stakers and the list of pending distributions:
\* the last entry takes the place of the removed one.
moved_into(list, pos, i) ==
    LET last == Len(list) IN
    [list |-> SubSeq(IF i # last THEN [list EXCEPT ![i] = list[last]] ELSE list, 1, last - 1),
     pos  |-> del(IF i # last THEN [pos EXCEPT ![list[last]] = i] ELSE pos, list[i])]

-----------------------------------------------------------------------------
Larger(a, b) == IF a > b THEN a ELSE b
Smaller(a, b) == IF a < b THEN a ELSE b

\* The epochs settle_epoch_rewards has behind it, by its two counters (epochs count from 0).
entry_of(m) == stored(entry_epoch, m, Len(epochs))
claimed_before(m) == Larger(stored(next_claim, m, entry_of(m)), entry_of(m))
settled_before(m) == Larger(stored(settled_until, m, entry_of(m)), entry_of(m))

settle_start(m) == Larger(claimed_before(m), settled_before(m))

\* The first epoch the call leaves alone.
settle_end(m) ==
    Larger(settle_start(m), Smaller(Len(epochs), settle_start(m) + MaxEpochsPerSettle))

base_share(m, e) ==
    LET c == epochs[e + 1] IN
    IF m \in DOMAIN c.snapshot /\ c.eligible > 0 THEN (c.snapshot[m] * c.reward) \div c.eligible ELSE 0

\* The lockups the call creates: epoch |-> record.
settlement(m) ==
    LET bps == IF m \in DOMAIN stakes THEN multiplier_bps(now - stakes[m].staked_at) ELSE 10000
        earned == {e \in settle_start(m) .. settle_end(m) - 1 : base_share(m, e) > 0 /\ bps > 0}
    IN  [e \in earned |-> [scaled |-> (base_share(m, e) * bps) \div 10000, claimed |-> FALSE,
                           unlocks_at |-> now + RewardLockup, settled_at |-> now]]

\* The lockups of staker m after settling, and the pending list with the new ones added.
settled_lockups(m) ==
    LET s == settlement(m)
        new == {<<m, e>> : e \in DOMAIN s}
    IN  [k \in DOMAIN lockups \cup new |-> IF k \in new THEN s[k[2]] ELSE lockups[k]]

settled_pending(m) ==
    LET fresh == {e \in DOMAIN settlement(m) : <<m, e>> \notin DOMAIN lockups}
        added == SetToSortSeq(fresh, <)
        n == Len(pending_list)
    IN  [list |-> pending_list \o [i \in DOMAIN added |-> <<m, added[i]>>],
         pos  |-> [k \in DOMAIN pending_place \cup {<<m, e>> : e \in fresh} |->
                     IF k \in DOMAIN pending_place THEN pending_place[k]
                     ELSE n + CHOOSE i \in DOMAIN added : added[i] = k[2]]]

\* What settling m writes, besides StakerNextClaimEpoch.
settle_epoch_rewards(m, pending) ==
    /\ pending_list' = pending.list /\ pending_place' = pending.pos
    /\ settled_until' =
         IF settle_end(m) > settled_before(m) THEN put(settled_until, m, settle_end(m)) ELSE settled_until

-----------------------------------------------------------------------------
\* The index is cleared by moving the last staker into the hole; a stake that was never
\* listed, or was written back by a rollback, has none.
unlisted(m) ==
    LET r == moved_into(roster, place, place[m]) IN
    \/ m \in DOMAIN place /\ roster' = r.list /\ place' = r.pos
    \/ m \notin DOMAIN place /\ UNCHANGED <<roster, place>>

\* Leaving is possible at any time, at a price before unlock_at; rewards are settled first.
unstake(m) ==
    LET penalty == penalty_amount(stakes[m])
    IN  /\ m \in DOMAIN stakes
        /\ penalties + penalty <= MaxPenalties
        /\ staked_tokens >= stakes[m].amount - penalty
        /\ lockups' = settled_lockups(m)
        /\ settle_epoch_rewards(m, settled_pending(m))
        /\ penalty_pool' = penalty_pool + penalty
        /\ penalties' = penalties + penalty
        /\ staked_tokens' = staked_tokens - (stakes[m].amount - penalty)
        /\ stakes' = del(stakes, m)
        /\ entry_epoch' = del(entry_epoch, m)
        /\ next_claim' = del(next_claim, m)
        /\ unlisted(m)
        /\ total_staked' = total_staked - stakes[m].amount
        /\ UNCHANGED <<now, joined, legacy, rescue_state, epochs, revenues, processed, credited, batches,
                       payments>>

\* Open to everybody: those of the old list that are not in the indexed one are appended to
\* it in the order of the old one, with or without a stake, and the old list is removed.
migrate_stakers ==
    /\ legacy # {}
    /\ \E new \in SetToSeqs(legacy \ DOMAIN place) :
         /\ roster' = roster \o new
         /\ place' = [m \in DOMAIN place \cup legacy |->
                        IF m \in DOMAIN place THEN place[m]
                        ELSE Len(roster) + CHOOSE i \in DOMAIN new : new[i] = m]
    /\ legacy' = {}
    /\ UNCHANGED <<now, stakes, rescue_state, total_staked, joined, entry_epoch, epoch_state, reward_state,
                   staked_tokens>>

\* By the admin: the records of those in the old list, the only one this call reads.
snapshot_state ==
    /\ captured' = [m \in legacy \cap DOMAIN stakes |-> stakes[m]]
    /\ UNCHANGED <<now, stakes, list_state, rewritten, written_back, restorations, total_staked, joined,
                   entry_epoch, epoch_state, reward_state, staked_tokens>>

\* Once the council has approved it: the captured records are written back; the lists, the
\* total and the entry epochs stay as they are. A snapshot of nobody writes nothing.
rollback_to_snapshot ==
    /\ restorations < MaxRestorations /\ DOMAIN captured # {}
    /\ restorations' = restorations + 1
    /\ stakes' = [m \in DOMAIN stakes \cup DOMAIN captured |->
                    IF m \in DOMAIN captured THEN captured[m] ELSE stakes[m]]
    /\ rewritten' = rewritten \cup DOMAIN captured
    /\ written_back' = written_back + (stake_sum(stakes') - stake_sum(stakes))
    /\ UNCHANGED <<now, list_state, captured, total_staked, joined, entry_epoch, epoch_state, reward_state,
                   staked_tokens>>

-----------------------------------------------------------------------------
eligible(m) == now - stakes[m].staked_at >= MinStaking
listed_stakers == {m \in Range(roster) : m \in DOMAIN stakes}
eligible_stakes == MapThenSumSet(LAMBDA m : stakes[m].amount, {m \in listed_stakers : eligible(m)})

\* Mutant: the pool is added to the reward and kept.
emptied_pool_kept == penalty_pool

emptied_pool == 0

\* internal_distribute_revenue: every stake of the list is in the snapshot, the denominator
\* counts the eligible ones only, and the penalties of the early leavers join the reward.
close_epoch(amount) ==
    /\ Len(epochs) < MaxEpochs
    /\ epochs' = Append(epochs,
         [snapshot |-> [m \in listed_stakers |-> stakes[m].amount],
          counted  |-> {m \in listed_stakers : eligible(m)},
          eligible |-> eligible_stakes,
          reward   |-> amount + penalty_pool])
    /\ penalty_pool' = emptied_pool
    /\ revenues' = revenues + amount

\* Open to everybody; no tokens come with it.
distribute_revenue(amount) ==
    /\ close_epoch(amount)
    /\ UNCHANGED <<now, stake_state, penalties, processed, reward_state, staked_tokens>>

\* By the treasury contract, once per distribution, after it transferred the tokens.
receive_treasury_distribution(id, amount) ==
    /\ id \notin processed
    /\ processed' = processed \cup {id}
    /\ close_epoch(amount)
    /\ staked_tokens' = staked_tokens + amount
    /\ UNCHANGED <<now, stake_state, penalties, reward_state>>

\* One page of the list is credited at once, by the stakes of now, without snapshot, lockup
\* or tokens; open to everybody. Without a total, or with a negative one, nobody is.
distribute_revenue_batch(amount, first, last) ==
    LET share(m) == (stakes[m].amount * amount) \div total_staked
        page == {roster[i] : i \in first .. last} \cap DOMAIN stakes
    IN  /\ batches < MaxBatches
        /\ total_staked > 0
        /\ batches' = batches + 1
        /\ credited' = [m \in Stakers |-> IF m \in page THEN credited[m] + share(m) ELSE credited[m]]
        /\ UNCHANGED <<now, stake_state, epoch_state, next_claim, settled_until, lockups, pending_list,
                       pending_place, payments, staked_tokens>>

-----------------------------------------------------------------------------
\* Mutant: a claimed lockup may be claimed again.
claimable_again(l) == l.unlocks_at <= now

claimable(l) == ~l.claimed /\ l.unlocks_at <= now

\* The loop of claim_rewards looks at the first MAX_LOCKUPS_PER_CLAIM lockups, claimed or not.
looked_at(m, ls) ==
    LET own == {k \in DOMAIN ls : k[1] = m} IN
    {k \in own : Cardinality({j \in own : j[2] < k[2]}) < MaxLockupsPerClaim}

\* Mutant: one entry is removed per claim.
unpended_first(p, paid) ==
    LET k == CHOOSE k \in paid : TRUE IN
    IF paid # {} /\ k \in DOMAIN p.pos THEN moved_into(p.list, p.pos, p.pos[k]) ELSE p

\* remove_pending_distribution for each paid lockup, in the order of the epochs.
unpended(p, paid) ==
    FoldSeq(LAMBDA k, q : IF k \in DOMAIN q.pos THEN moved_into(q.list, q.pos, q.pos[k]) ELSE q,
            p, Reverse(SetToSortSeq(paid, LAMBDA a, b : a[2] < b[2])))

\* Settles, then pays what is unlocked and what was credited; a claim that would pay nothing
\* is refused, and what it settled is undone with it.
claim_rewards(m) ==
    LET ls == settled_lockups(m)
        paid == {k \in looked_at(m, ls) : claimable(ls[k])}
        sum == MapThenSumSet(LAMBDA k : ls[k].scaled, paid) + credited[m]
    IN  /\ sum > 0 /\ staked_tokens >= sum
        /\ lockups' = [k \in DOMAIN ls |-> IF k \in paid THEN [ls[k] EXCEPT !.claimed = TRUE] ELSE ls[k]]
        /\ settle_epoch_rewards(m, unpended(settled_pending(m), paid))
        /\ next_claim' =
             IF settle_end(m) > claimed_before(m) THEN put(next_claim, m, settle_end(m)) ELSE next_claim
        /\ credited' = [credited EXCEPT ![m] = 0]
        /\ staked_tokens' = staked_tokens - sum
        /\ payments' = [k \in DOMAIN payments \cup paid |->
             [times |-> stored(payments, k, [times |-> 0]).times + (IF k \in paid THEN 1 ELSE 0),
              last  |-> IF k \in paid THEN now ELSE payments[k].last]]
        /\ UNCHANGED <<now, stake_state, epoch_state, batches>>

-----------------------------------------------------------------------------
StakingTick == CloseLedger(MaxStakingTime) /\ UNCHANGED staking_vars

StakingNext ==
    \/ \E m \in Stakers :
         \/ \E a \in StakeAmounts, p \in LockPeriods : stake(m, a, p)
         \/ unstake(m)
         \/ claim_rewards(m)
    \/ migrate_stakers \/ snapshot_state \/ rollback_to_snapshot
    \/ \E r \in Revenues :
         \/ distribute_revenue(r)
         \/ \E id \in DistributionIds : receive_treasury_distribution(id, r)
         \/ \E i, j \in DOMAIN roster : i <= j /\ distribute_revenue_batch(r, i, j)
    \/ StakingTick

-----------------------------------------------------------------------------
\* The list of stakers and the positions stored beside it are each other's inverse, in
\* whatever order stakers left the middle of it, came back, were migrated or rolled back. It
\* names every stake but those not migrated yet and those a rollback wrote back, and nobody
\* without one but a founder who left before the migration. The total is what the stakes
\* amount to, apart from what rollbacks wrote without correcting it.
RosterIsExact ==
    /\ Range(roster) = DOMAIN place /\ Len(roster) = Cardinality(DOMAIN place)
    /\ \A m \in DOMAIN place : place[m] \in DOMAIN roster /\ roster[place[m]] = m
    /\ DOMAIN place \subseteq DOMAIN stakes \cup Founders
    /\ DOMAIN stakes \subseteq DOMAIN place \cup legacy \cup rewritten
    /\ total_staked + written_back = stake_sum(stakes)

\* The list of pending distributions names every lockup that is not claimed, once, and
\* nothing else, however settling and claiming of several stakers interleave.
PendingIsExact ==
    /\ Range(pending_list) = {k \in DOMAIN lockups : ~lockups[k].claimed}
    /\ DOMAIN pending_place = Range(pending_list)
    /\ \A i \in DOMAIN pending_list : pending_place[pending_list[i]] = i

\* A staker is paid once for an epoch, after the lockup counted from settlement has passed
\* and never for an epoch that closed before the stake or while it missed its entry, also
\* after leaving and staking again.
RewardPaidOnce ==
    \A k \in DOMAIN payments :
        /\ payments[k].times = 1
        /\ lockups[k].claimed
        /\ payments[k].last >= lockups[k].settled_at + RewardLockup

\* Every penalty is in the pool or was given to exactly one epoch.
PenaltiesReachEpochs ==
    SumFunctionOnSet([i \in DOMAIN epochs |-> epochs[i].reward], DOMAIN epochs) + penalty_pool
        = revenues + penalties
====
