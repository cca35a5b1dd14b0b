---- MODULE Treasury ----
(* contracts/treasury: deposits, allocations (large ones wait for a second *)
(* approval), scheduled distributions to the staking contract, and the     *)
(* admin who may do all this. The treasury holds one token; what happens   *)
(* to tokens after they left is the business of the recipients.            *)
(* An error returned to the host undoes the whole call, the log entries    *)
(* of failed operations included, so a failing call is a disabled step.    *)
EXTENDS Host, Sequences, FiniteSets, SequencesExt

CONSTANTS
    Treasurers,         \* addresses that may be admin, caller or approver
    NoTreasurer,        \* no pending transfer
    TimelockContract,   \* the address under DataKey::Timelock
    DepositAmounts,     \* amounts of deposits
    AllocAmounts,       \* amounts of allocations and distributions
    Thresholds,         \* values of MultisigThreshold
    ExpectedAverage,    \* expected_avg of the fee evasion audit
    MaxInteractions,    \* interactions of one caller in a ledger that are refused
    TreasuryTimelock,   \* MIN_ADMIN_TIMELOCK_SECS
    TreasuryCooling,    \* ADMIN_COOLING_OFF_SECS
    MinInterval,        \* DISTRIBUTION_MIN_INTERVAL_SECS
    DistributionBuffer, \* DISTRIBUTION_BUFFER_SECS
    MaxDeposits, MaxAllocations, MaxPending, MaxDistributions, MaxSurplus, MaxTreasuryTime  \* bounds

VARIABLES
    steward,        \* DataKey::Admin
    transfer,       \* DataKey::PendingAdminTransfer
    steward_since,  \* DataKey::LastAdminChange
    callers,        \* DataKey::AuthorizedCallers
    alloc_limit,    \* DataKey::MultisigThreshold
    reserve,        \* the contract's token balance
    depositor,      \* DepositCount and TotalDeposits of the one depositor
    surplus,        \* history: tokens sent without a deposit, or booked as paid yet kept
    allocations,    \* the Allocation(i) history; `via' is the pending id, or 0
    queue,          \* the PendingAllocation(id) records with their approvers
    revenue,        \* history: tokens moved by distribute_fee_revenue
    receipts,       \* the DistributionReceipt(id) records
    schedule,       \* ScheduledNextDistributionAt (0: none) and when it was written
    must_schedule,  \* RequireScheduledDistribution
    rewards,        \* what the staking contract received, for LPs and for stakers
    interactions    \* MevInteractionCount of the admin in this ledger

\* Amounts are checked to be positive, limits and intervals are unsigned.
ASSUME TreasuryAssumption ==
    /\ DepositAmounts \subseteq Nat /\ AllocAmounts \subseteq Nat /\ Thresholds \subseteq Nat
    /\ MinInterval \in Nat /\ TreasuryTimelock \in Nat /\ MaxTreasuryTime \in Nat

income      == <<depositor, surplus>>
admin_state == <<steward, transfer, steward_since, callers>>
alloc_state == <<alloc_limit, allocations, queue, revenue>>
dist_state  == <<receipts, schedule, must_schedule, rewards>>

NoTransferPending == [new_admin |-> NoTreasurer, effective_at |-> 0]

TreasuryInit ==
    /\ now = 0
    /\ steward \in Treasurers
    /\ transfer = NoTransferPending /\ steward_since = 0
    /\ callers = {steward, TimelockContract}
    /\ alloc_limit \in Thresholds
    /\ reserve = 0 /\ surplus = 0
    /\ depositor = [count |-> 0, total |-> 0]
    /\ allocations = << >> /\ queue = << >> /\ revenue = 0
    /\ receipts = << >> /\ schedule = [at |-> 0, written |-> 0] /\ must_schedule = FALSE
    /\ rewards = [lp |-> 0, stakers |-> 0]
    /\ interactions = 0

\* require_admin: configuration is suspended while a transfer of the office is pending.
require_admin(a) == a = steward /\ transfer = NoTransferPending

\* detect_fee_evasion: the depositor's average must not fall below half of the expected one.
fair_average(d) ==
    LET average == d.total \div d.count IN
    average < ExpectedAverage =>
        ((ExpectedAverage - average) * 10000) \div ExpectedAverage <= 5000

deposit(amount) ==
    LET d == [count |-> depositor.count + 1, total |-> depositor.total + amount] IN
    /\ d.count <= MaxDeposits
    /\ amount > 0
    /\ fair_average(d)
    /\ depositor' = d
    /\ reserve' = reserve + amount
    /\ UNCHANGED <<now, admin_state, surplus, alloc_state, dist_state, interactions>>

\* Escrow fees and penalties are transferred to the treasury; no call of it tells it of them.
receive(amount) ==
    /\ surplus + amount <= MaxSurplus
    /\ surplus' = surplus + amount
    /\ reserve' = reserve + amount
    /\ UNCHANGED <<now, admin_state, depositor, alloc_state, dist_state, interactions>>

\* _track_mev_interaction, detect_atomic_arbitrage and enforce_protocol_isolation.
interact ==
    /\ interactions + 1 < MaxInteractions
    /\ interactions' = interactions + 1

paid_out(amount, via) == Append(allocations, [amount |-> amount, via |-> via])

\* The queue with one more entry, approved by the admin.
enqueued(amount, own) ==
    Append(queue, [amount |-> amount, own |-> own, by |-> {steward}, approvals_count |-> 1,
                   executed |-> FALSE])

\* An allocation above the threshold is queued with the admin's approval, any other is paid: not
\* to the treasury itself (`own'), whose balance would not have gone down by the amount.
allocate(amount, own) ==
    /\ steward \in callers
    /\ amount <= reserve
    /\ interact
    /\ IF amount > alloc_limit
         THEN /\ Len(queue) < MaxPending
              /\ queue' = enqueued(amount, own)
              /\ UNCHANGED <<allocations, reserve>>
         ELSE /\ ~own
              /\ Len(allocations) < MaxAllocations
              /\ allocations' = paid_out(amount, 0)
              /\ reserve' = reserve - amount
              /\ UNCHANGED queue
    /\ UNCHANGED <<now, admin_state, income, alloc_limit, revenue, dist_state>>

\* Mutant: the last request is not added.
batch_total_short(requests) == FoldSeq(LAMBDA a, s : a + s, 0, Front(requests))

batch_total(requests) == SumFunctionOnSet(requests, DOMAIN requests)

\* Every request is checked, and the total against the balance, before any is paid. Nothing is
\* compared afterwards: the requests in `own' name the treasury, which books them and keeps them.
batch_allocate(requests, own) ==
    LET total == batch_total(requests)
        kept  == SumFunctionOnSet(requests, own)
    IN  /\ requests # << >>
        /\ \A i \in DOMAIN requests : requests[i] <= alloc_limit
        /\ total <= reserve
        /\ Len(allocations) + Len(requests) <= MaxAllocations /\ surplus + kept <= MaxSurplus
        /\ allocations' = allocations \o [i \in DOMAIN requests |-> [amount |-> requests[i], via |-> 0]]
        /\ reserve' = reserve - total + kept
        /\ surplus' = surplus + kept
        /\ UNCHANGED <<now, admin_state, depositor, alloc_limit, queue, revenue, dist_state,
                       interactions>>

\* Mutant: an approver may come back.
new_approver_counts_again(p, who) == TRUE

new_approver(p, who) == who \notin p.by

\* Any address but those that already approved; the second approval pays, but never the treasury.
approve_pending_allocation(who, id) ==
    LET p == queue[id]
        n == p.approvals_count + 1
    IN  /\ ~p.executed
        /\ new_approver(p, who)
        /\ queue' = [queue EXCEPT ![id] =
                [p EXCEPT !.by = @ \cup {who}, !.approvals_count = n, !.executed = n >= 2]]
        /\ IF n >= 2
             THEN /\ p.amount <= reserve /\ ~p.own
                  /\ Len(allocations) < MaxAllocations
                  /\ reserve' = reserve - p.amount
                  /\ allocations' = paid_out(p.amount, id)
             ELSE UNCHANGED <<reserve, allocations>>
        /\ UNCHANGED <<now, admin_state, income, alloc_limit, revenue, dist_state, interactions>>

set_multisig_threshold(t) ==
    /\ alloc_limit' = t
    /\ UNCHANGED <<now, admin_state, reserve, income, allocations, queue, revenue, dist_state,
                   interactions>>

\* Any authorised caller moves tokens to a destination; no record is kept. Named as destination,
\* the treasury keeps what it has: such a call changes nothing.
distribute_fee_revenue(who, amount) ==
    /\ who \in callers
    /\ amount <= reserve
    /\ reserve' = reserve - amount
    /\ revenue' = revenue + amount
    /\ UNCHANGED <<now, admin_state, income, alloc_limit, allocations, queue, dist_state,
                   interactions>>

schedule_staker_distribution(who, at) ==
    /\ require_admin(who)
    /\ at > now
    /\ schedule' = [at |-> at, written |-> now]
    /\ UNCHANGED <<now, admin_state, reserve, income, alloc_state, receipts, must_schedule,
                   rewards, interactions>>

set_require_sched_distrib(who, require) ==
    /\ require_admin(who)
    /\ must_schedule' = require
    /\ UNCHANGED <<now, admin_state, reserve, income, alloc_state, receipts, schedule, rewards,
                   interactions>>

\* Mutant: a schedule may be used again.
used_schedule_kept == schedule

\* ScheduledNextDistributionAt is removed by the distribution it announced.
used_schedule == [at |-> 0, written |-> 0]

\* LastDistributionAt: the time of the last receipt.
spaced == receipts # << >> => now >= Last(receipts).at + MinInterval

distribution_due ==
    /\ steward \in callers
    /\ spaced
    /\ must_schedule => schedule.at # 0
    /\ now >= schedule.at

\* A tenth goes to the pool of the liquidity providers, the rest to the stakers.
distribute_to_stakers(amount) ==
    LET lp == amount \div 10 IN
    /\ Len(receipts) < MaxDistributions
    /\ amount > 0
    /\ interact
    /\ distribution_due
    /\ amount <= reserve
    /\ reserve' = reserve - amount
    /\ receipts' = Append(receipts, [amount |-> amount, at |-> now, announced |-> schedule])
    /\ schedule' = used_schedule
    /\ rewards' = [lp |-> rewards.lp + lp, stakers |-> rewards.stakers + (amount - lp)]
    /\ UNCHANGED <<now, admin_state, income, alloc_state, must_schedule>>

treasury_books == <<reserve, income, alloc_state, dist_state, interactions>>

treasury_propose_admin_change(who, new) ==
    /\ require_admin(who)
    /\ now >= steward_since + TreasuryCooling
    /\ transfer' = [new_admin |-> new, effective_at |-> now + TreasuryTimelock]
    /\ UNCHANGED <<now, steward, steward_since, callers, treasury_books>>

accept_admin_change(new) ==
    /\ transfer # NoTransferPending /\ transfer.new_admin = new
    /\ now >= transfer.effective_at
    /\ steward' = new /\ steward_since' = now /\ transfer' = NoTransferPending
    /\ UNCHANGED <<now, callers, treasury_books>>

\* The address that cancels is an argument of the call; it only has to sign.
cancel_admin_change ==
    /\ transfer # NoTransferPending
    /\ transfer' = NoTransferPending
    /\ UNCHANGED <<now, steward, steward_since, callers, treasury_books>>

\* By the timelock contract; LastAdminChange keeps its value.
treasury_revoke_admin_emergency(new) ==
    /\ steward' = new /\ transfer' = NoTransferPending
    /\ UNCHANGED <<now, steward_since, callers, treasury_books>>

add_authorized_caller(who, new) ==
    /\ require_admin(who)
    /\ callers' = callers \cup {new}
    /\ UNCHANGED <<now, steward, transfer, steward_since, treasury_books>>

TreasuryTick ==
    /\ CloseLedger(MaxTreasuryTime)
    /\ interactions' = 0
    /\ UNCHANGED <<admin_state, reserve, income, alloc_state, dist_state>>

Requests == {<<a>> : a \in AllocAmounts} \cup {<<a, b>> : a \in AllocAmounts, b \in AllocAmounts}

TreasuryNext ==
    \/ \E a \in DepositAmounts : deposit(a)
    \/ \E a \in AllocAmounts : receive(a) \/ distribute_to_stakers(a)
    \/ \E a \in AllocAmounts, own \in BOOLEAN : allocate(a, own)
    \/ \E r \in Requests : \E own \in SUBSET DOMAIN r : batch_allocate(r, own)
    \/ \E w \in Treasurers \cup {TimelockContract}, a \in AllocAmounts : distribute_fee_revenue(w, a)
    \/ \E t \in Thresholds : set_multisig_threshold(t)
    \/ \E w \in Treasurers :
         \/ \E id \in DOMAIN queue : approve_pending_allocation(w, id)
         \/ \E t \in 1 .. MaxTreasuryTime : schedule_staker_distribution(w, t)
         \/ \E b \in BOOLEAN : set_require_sched_distrib(w, b)
         \/ \E n \in Treasurers : treasury_propose_admin_change(w, n) \/ add_authorized_caller(w, n)
         \/ accept_admin_change(w)
         \/ treasury_revoke_admin_emergency(w)
    \/ cancel_admin_change
    \/ TreasuryTick

treasury_vars == <<admin_state, treasury_books>>

-----------------------------------------------------------------------------
amounts(s) == SumFunctionOnSet([i \in DOMAIN s |-> s[i].amount], DOMAIN s)

\* The treasury's books: what it holds and what its allocation history, its distribution
\* receipts and the revenue payments say has left add up to what was deposited, sent to it
\* directly, and booked as paid to itself; and the staking contract was told of exactly the
\* tokens it received, rounding included.
TreasuryBooks ==
    /\ reserve + amounts(allocations) + amounts(receipts) + revenue = depositor.total + surplus
    /\ rewards.lp + rewards.stakers = amounts(receipts)

\* A queued allocation is paid once, and only after two different addresses approved it,
\* however often the admin, the threshold and the balance changed while it waited.
QueuedPaidOnce ==
    \A id \in DOMAIN queue :
        LET paid == {i \in DOMAIN allocations : allocations[i].via = id} IN
        /\ Cardinality(paid) = (IF queue[id].executed THEN 1 ELSE 0)
        /\ queue[id].executed => Cardinality(queue[id].by) >= 2
        /\ \A i \in paid : allocations[i].amount = queue[id].amount

\* Two distributions are at least the minimum interval apart, and an announced time is used
\* by one distribution, at or after that time.
DistributionsAreSpaced ==
    \A i, j \in DOMAIN receipts :
        /\ receipts[i].at >= receipts[i].announced.at
        /\ i < j => /\ receipts[j].at >= receipts[i].at + MinInterval
                    /\ receipts[j].announced.at = 0 \/ receipts[j].announced.at > receipts[i].announced.at

\* The comment in distribute_to_stakers says that an announced distribution happens at least
\* DISTRIBUTION_BUFFER_SECS after its schedule was written.
BufferIsServed ==
    \A i \in DOMAIN receipts :
        receipts[i].announced.at # 0 =>
            receipts[i].at >= receipts[i].announced.written + DistributionBuffer

-----------------------------------------------------------------------------
(* contracts/treasury, buyback_and_burn: the timelock lets the treasury    *)
(* swap XLM for MNT at an exchange and burn what it gets. A swap that is   *)
(* too large for the reserve and too concentrated in its window is not an  *)
(* error: it is deferred, and the call commits the deferral.               *)
CONSTANTS
    XlmAmounts,         \* amounts the timelock asks to swap
    MntOutputs,         \* amounts of MNT the exchange reports and delivers
    MinOut,             \* min_mnt_out
    InitialXlm,         \* reserve at the start
    VelocityWindow,     \* BUYBACK_VELOCITY_WINDOW_SECS
    VelocityWarn,       \* ECONOMIC_VELOCITY_WARN_BPS
    ConcentrationWarn,  \* GOVERNANCE_CONCENTRATION_WARN_BPS
    ResponseThreshold,  \* MULTI_VECTOR_RESPONSE_THRESHOLD
    MaxBuybacks, MaxDeferrals, MaxBuybackTime   \* bounds

VARIABLES
    xlm,            \* the treasury's XLM
    mnt,            \* the treasury's MNT, left over after burning
    window,         \* BuybackWindowStart (-1: never set) and BuybackWindowVolume
    lifetime,       \* BuybackLifetimeVolume
    deferred,       \* LastDeferredBuyback
    deferrals,      \* the operation log's number of deferrals
    auto_burn,      \* whether AutoBurnRateBps is set
    burn_queue,     \* BurnQueue
    swaps           \* history: the executed buybacks

\* Amounts to swap are checked to be positive, and two of the three signs of risk are enough.
ASSUME BuybackAssumption ==
    /\ XlmAmounts \subseteq Nat \ {0} /\ MntOutputs \subseteq Nat /\ InitialXlm \in Nat
    /\ VelocityWindow \in Nat \ {0}
    /\ VelocityWarn \in Nat /\ ConcentrationWarn \in Nat /\ ResponseThreshold \in 0 .. 70

buyback_vars == <<xlm, mnt, window, lifetime, deferred, deferrals, auto_burn, burn_queue, swaps>>

NeverDeferred == [deferred_at |-> 0, retry_after |-> 0, after |-> 0]

BuybackInit ==
    /\ now = 0
    /\ xlm = InitialXlm /\ mnt = 0
    /\ window = [start |-> -1, volume |-> 0] /\ lifetime = 0
    /\ deferred = NeverDeferred /\ deferrals = 0
    /\ auto_burn = FALSE /\ burn_queue = 0
    /\ swaps = << >>

window_is_open == window.start # -1 /\ now < window.start + VelocityWindow

\* _current_buyback_window_volume
current_volume == IF window_is_open THEN window.volume ELSE 0

\* assess_token_velocity
risk(velocity, concentration) ==
    (IF velocity > VelocityWarn THEN 35 ELSE 0) +
    (IF concentration > ConcentrationWarn THEN 35 ELSE 0) +
    (IF velocity > 2 * VelocityWarn THEN 20 ELSE 0)

\* Mutant: the volume already swapped in the window is forgotten.
stabilization_required_alone(amount) ==
    risk((amount * 10000) \div xlm, (amount * 10000) \div (lifetime + amount)) >= ResponseThreshold

\* _assess_buyback_velocity: window volume against the reserve and against the lifetime volume.
stabilization_required(amount) ==
    LET v == current_volume + amount
    IN  risk((v * 10000) \div xlm, (v * 10000) \div (lifetime + amount)) >= ResponseThreshold

\* Mutant: the window is never rolled over.
recorded_in_first_window(amount) ==
    [start  |-> IF window.start = -1 THEN now ELSE window.start,
     volume |-> window.volume + amount]

\* _record_buyback_volume
recorded(amount) ==
    IF window_is_open
      THEN [window EXCEPT !.volume = @ + amount]
      ELSE [start |-> now, volume |-> amount]

\* Mutant: the next ledger will do.
retry_time_soon == now + 1

\* The end of the open window, or of one that would start now.
retry_time == (IF window_is_open THEN window.start ELSE now) + VelocityWindow

defer_buyback(amount) ==
    /\ amount <= xlm
    /\ stabilization_required(amount)
    /\ deferrals < MaxDeferrals
    /\ deferrals' = deferrals + 1
    /\ deferred' = [deferred_at |-> now, retry_after |-> retry_time, after |-> Len(swaps)]
    /\ UNCHANGED <<now, xlm, mnt, window, lifetime, auto_burn, burn_queue, swaps>>

\* The exchange may take less than it was allowed to and deliver more MNT than it reports; the
\* reported amount is burned, a surplus is queued for burning unless it is burned by rate.
settle_swap(amount, spent, reported, delivered) ==
    /\ spent <= amount
    /\ reported >= MinOut
    /\ reported <= mnt + delivered
    /\ xlm' = xlm - spent
    /\ mnt' = mnt + delivered - reported
    /\ burn_queue' = IF delivered > reported /\ ~auto_burn
                       THEN burn_queue + (delivered - reported) ELSE burn_queue
    /\ window' = recorded(amount)
    /\ lifetime' = lifetime + amount

buyback_and_burn(amount, spent, reported, delivered) ==
    /\ amount <= xlm
    /\ ~stabilization_required(amount)
    /\ Len(swaps) < MaxBuybacks
    /\ settle_swap(amount, spent, reported, delivered)
    /\ swaps' = Append(swaps, [amount |-> amount, at |-> now, reserve |-> xlm])
    /\ UNCHANGED <<now, deferred, deferrals, auto_burn>>

\* The queue is emptied; burning is left to whoever sees the event.
execute_burn_queue ==
    /\ burn_queue > 0
    /\ burn_queue' = 0
    /\ UNCHANGED <<now, xlm, mnt, window, lifetime, deferred, deferrals, auto_burn, swaps>>

set_auto_burn_rate ==
    /\ auto_burn' = TRUE
    /\ UNCHANGED <<now, xlm, mnt, window, lifetime, deferred, deferrals, burn_queue, swaps>>

BuybackTick == CloseLedger(MaxBuybackTime) /\ UNCHANGED buyback_vars

BuybackNext ==
    \/ \E a \in XlmAmounts :
         \/ defer_buyback(a)
         \/ \E s \in {0, a}, r \in MntOutputs, d \in MntOutputs : buyback_and_burn(a, s, r, d)
    \/ execute_burn_queue
    \/ set_auto_burn_rate
    \/ BuybackTick

-----------------------------------------------------------------------------
\* The sum of the swaps with an index in S.
swapped(S) == SumFunctionOnSet([i \in DOMAIN swaps |-> swaps[i].amount], S)

\* The window counts what was swapped in it: the stored volume is the sum of the buybacks since
\* the window's start, none of them later than its length allows, and the lifetime volume is
\* the sum of all.
WindowsAddUp ==
    LET inside == {i \in DOMAIN swaps : swaps[i].at >= window.start} IN
    /\ lifetime = swapped(DOMAIN swaps)
    /\ window.volume = swapped(inside)
    /\ \A i \in inside : swaps[i].at < window.start + VelocityWindow

\* A burst is bounded: swaps within one window length that together exceed a quarter of the
\* reserve of the last of them, with no larger earlier volume to set against them, do not
\* happen, whatever mixture of executed and deferred requests preceded them.
BurstsAreDeferred ==
    window.start # -1 =>
        LET inside == {i \in DOMAIN swaps : swaps[i].at >= window.start}
            last   == swaps[Len(swaps)]
        IN  \/ window.volume * 10000 < (VelocityWarn + 1) * last.reserve
            \/ window.volume * 10000 < (ConcentrationWarn + 1) * lifetime

\* A deferred request may be repeated at retry_after: unless another buyback was executed in
\* between, the window that held it back is over by then.
RetryFindsNewWindow ==
    (deferred # NeverDeferred /\ now >= deferred.retry_after /\ Len(swaps) = deferred.after)
        => current_volume = 0
====
