------------------------------- MODULE Escrow -------------------------------
(***************************************************************************)
(* The standard session escrow of escrow/src/lib.rs: a learner deposits    *)
(* tokens, and the contract pays them out to the mentor and the treasury,  *)
(* back to the learner, or split between the two after a dispute.          *)
(*                                                                         *)
(* A contract call is one atomic step: when it panics the ledger discards  *)
(* everything it did, so a call that panics is a step that is not enabled. *)
(* That holds of the contracts it calls as well: a token, a staking        *)
(* contract or a check that traps takes the whole call with it, unless the *)
(* call was a `try'. Calls of different users interleave in any order, and *)
(* `now', the ledger timestamp, may advance between any two of them.       *)
(***************************************************************************)
EXTENDS Integers, Sequences, FiniteSets, Functions

-----------------------------------------------------------------------------
(* Platform fees: the graduated fee schedule, the MNT/USDC price           *)
(* multiplier, the volume discount and the floor division that turns a     *)
(* rate into an amount. Amounts are in token units, rates in basis points. *)

MAX_FEE_BPS == 1000
BPS         == 10000

\* Price of one MNT in 10^-7 USDC at which the multiplier changes.
Price010 == 1000000
Price050 == 5000000
Price100 == 10000000

AtMost(a, cap) == IF a <= cap THEN a ELSE cap

\* saturating_sub of an unsigned integer.
SatSub(a, b) == IF a <= b THEN 0 ELSE a - b

FeeSchedule == [tier0_bps : Nat, tier1_bps : Nat, tier2_bps : Nat, tier3_bps : Nat,
                volume_discount_threshold : Int, volume_discount_bps : Nat]

\* A schedule the contract accepts.
validate_fee_schedule(s) ==
    /\ s.tier0_bps <= MAX_FEE_BPS
    /\ s.tier1_bps <= MAX_FEE_BPS
    /\ s.tier2_bps <= MAX_FEE_BPS
    /\ s.tier3_bps <= MAX_FEE_BPS
    /\ s.volume_discount_bps <= MAX_FEE_BPS
    /\ s.volume_discount_threshold >= 0

tier_bps(s, tier) ==
    CASE tier = 1 -> s.tier1_bps
      [] tier = 2 -> s.tier2_bps
      [] tier = 3 -> s.tier3_bps
      [] OTHER    -> s.tier0_bps

\* A cheap token raises the rate, an expensive one lowers it; 0 is "no price".
price_multiplier_bps(price) ==
    IF price <= 0 THEN 10000
    ELSE IF price < Price010 THEN 12500
    ELSE IF price < Price050 THEN 11000
    ELSE IF price < Price100 THEN 10000
    ELSE 9000

\* Mutant: the price multiplier may lift the rate above the cap.
effective_bps_uncapped(s, tier, price, amount) ==
    LET base == (tier_bps(s, tier) * price_multiplier_bps(price)) \div BPS
    IN  IF amount > s.volume_discount_threshold
          THEN SatSub(base, s.volume_discount_bps)
          ELSE base

\* The rate a mentor of the given tier pays on a release of the given amount.
effective_bps(s, tier, price, amount) ==
    LET scaled == (tier_bps(s, tier) * price_multiplier_bps(price)) \div BPS
        base   == AtMost(scaled, MAX_FEE_BPS)
    IN  AtMost(IF amount > s.volume_discount_threshold
                 THEN SatSub(base, s.volume_discount_bps)
                 ELSE base,
               MAX_FEE_BPS)

\* amount * bps / 10000, rounded down.
fee_of(amount, bps) == (amount * bps) \div BPS

-----------------------------------------------------------------------------
CONSTANTS
    Users,               \* addresses that may act as mentor or learner
    Admin,               \* the address stored under DataKey::Admin
    Treasury,            \* the address stored under DataKey::Treasury
    Contract,            \* the escrow contract's own address
    NoUser,              \* the mentor and learner of an id not yet created
    SessionIds,          \* session identifiers a learner may submit
    PathPay,             \* the fixed session identifier of path payments
    Amounts,             \* deposits a learner may make
    SessionCounts,       \* values of total_sessions
    EndTimes,            \* values of session_end_time (0: none given)
    Percentages,         \* values of mentor_pct an admin may rule
    FeeRates,            \* flat rates the admin may set
    Schedules,           \* fee schedules the admin may set
    NoSchedule,          \* no schedule configured
    Prices,              \* MNT/USDC prices the liquidity pool may report
    InitialBalance,      \* tokens of every user at the start
    Outages,             \* bound: the sets of called contracts that may trap together
    AutoReleaseDelay,    \* DataKey::AutoRelDelay, fixed by initialize
    GracePeriod,         \* GRACE_PERIOD_SECS
    MaxDrift,            \* MAX_SESSION_TIME_DRIFT_SECS
    MinInteraction,      \* REQUIRED_INTERACTION_MINUTES, in time units
    LowFeeThreshold,     \* LOW_FEE_THRESHOLD
    MaxLowFee,           \* MAX_LOW_FEE_SESSIONS_PER_PAIR
    BackoffInitial,      \* EXPONENTIAL_BACKOFF_INITIAL_SECS
    BackoffMax,          \* EXPONENTIAL_BACKOFF_MAX_SECS
    MaxAttempts,         \* MAX_AUTO_RELEASE_ATTEMPTS
    ManualThreshold,     \* MANUAL_RECOVERY_THRESHOLD
    MaxEscrows,          \* bound: escrows created in a behaviour
    MaxTime              \* bound: last value of the clock

\* The contracts an escrow call depends on: the session's token, the staking contract the
\* mentor's tier is read from, and the reputation and insurance contracts an automatic
\* release checks with.
Peers == {"token", "staking", "checks"}

ASSUME OutagesAssumption == Outages \subseteq SUBSET Peers
ASSUME AmountsAssumption == Amounts \subseteq (Nat \ {0})
ASSUME SessionsAssumption == SessionCounts \subseteq (Nat \ {0})
ASSUME PercentAssumption == Percentages \subseteq 0 .. 100
ASSUME RatesAssumption == FeeRates \subseteq Nat
ASSUME SchedulesAssumption == Schedules \subseteq FeeSchedule
ASSUME PricesAssumption == Prices \subseteq Int
ASSUME TimesAssumption ==
    /\ EndTimes \subseteq Nat
    /\ AutoReleaseDelay \in Nat /\ GracePeriod \in Nat /\ MaxDrift \in Nat
    /\ MinInteraction \in Nat /\ MaxTime \in Nat
    /\ BackoffInitial \in Nat \ {0} /\ BackoffMax \in Nat
ASSUME LimitsAssumption ==
    /\ MaxLowFee \in Nat /\ LowFeeThreshold \in Nat /\ InitialBalance \in Nat
    /\ MaxAttempts \in Nat \ {0} /\ ManualThreshold \in Nat \ {0}
    /\ ManualThreshold < MaxAttempts /\ MaxEscrows \in Nat
ASSUME AddressAssumption ==
    /\ Contract \notin Users /\ Treasury \notin Users /\ Contract # Treasury
    /\ NoUser \notin Users \cup {Contract, Treasury}
    /\ Admin # Contract

VARIABLES
    now,                \* ledger timestamp
    escrow_count,       \* DataKey::EscrowCount
    escrows,            \* the ("ESCROW", id) records
    log,                \* DataKey::TransitionLog(id)
    balance,            \* token balance of every address
    used_nonces,        \* DataKey::UsedSessionNonce
    session_keys,       \* the (SESSION_KEY, session_id) entries
    failures,           \* DataKey::FailureRecord(id); attempt 0 when absent
    watchlist,          \* DataKey::StuckEscrows
    isolated,           \* ids whose DataKey::IsolatedEscrow is true
    low_fee,            \* DataKey::LowFeeSessionCount(mentor, learner)
    token_approved,     \* DataKey::ApprovedToken of the session token
    fee_bps,            \* DataKey::FeeBps
    fee_schedule,       \* DataKey::FeeSchedule
    failing,            \* the peers whose calls trap at present
    paid                \* history: what each escrow has paid to whom

vars == <<now, escrow_count, escrows, log, balance, used_nonces, session_keys, failures,
          watchlist, isolated, low_fee, token_approved, fee_bps, fee_schedule, failing, paid>>

\* Groups of variables that most actions leave alone.
config   == <<token_approved, fee_bps, fee_schedule, failing>>
sessions == <<escrow_count, used_nonces, session_keys>>
retry    == <<failures, watchlist>>

EscrowIds == 1 .. MaxEscrows
Statuses  == {"None", "Pending", "Active", "Released", "Disputed", "Refunded", "Resolved"}
Live      == {"Active", "Disputed"}
Terminal  == {"Released", "Refunded", "Resolved"}

\* The transitions EscrowStatus::is_valid_transition allows.
valid_transition ==
    { <<"Pending", "Active">>, <<"Active", "Released">>, <<"Active", "Disputed">>,
      <<"Disputed", "Resolved">>, <<"Disputed", "Refunded">>, <<"Active", "Refunded">>,
      <<"Pending", "Refunded">> }

Blank == [mentor |-> NoUser, learner |-> NoUser, amount |-> 0, session_id |-> PathPay,
          status |-> "None", created_at |-> 0, platform_fee |-> 0, net_amount |-> 0,
          session_end_time |-> 0, quoted_token_amount |-> 0,
          total_sessions |-> 1, sessions_completed |-> 0]

NoFailure == [attempt_number |-> 0, next_retry_time |-> 0, recovery_state |-> "Retrying"]

NoPayout == [mentor |-> 0, treasury |-> 0, learner |-> 0]

Init ==
    /\ now = 0
    /\ escrow_count = 0
    /\ escrows = [i \in EscrowIds |-> Blank]
    /\ log = [i \in EscrowIds |-> << >>]
    /\ balance = [a \in Users \cup {Contract, Treasury} |->
                    IF a \in Users THEN InitialBalance ELSE 0]
    /\ used_nonces = {} /\ session_keys = {}
    /\ failures = [i \in EscrowIds |-> NoFailure]
    /\ watchlist = {} /\ isolated = {}
    /\ low_fee = [p \in Users \X Users |-> 0]
    /\ token_approved = TRUE
    /\ fee_bps \in {r \in FeeRates : r <= MAX_FEE_BPS}
    /\ fee_schedule = NoSchedule
    /\ failing = {}
    /\ paid = [i \in EscrowIds |-> NoPayout]

-----------------------------------------------------------------------------
(* Shared steps of the handlers.                                           *)

\* transition_status: the table is checked, then the step is logged.
transition_status(id, from, to, actor) ==
    /\ <<from, to>> \in valid_transition
    /\ log' = [log EXCEPT ![id] = Append(@, [from |-> from, to |-> to, actor |-> actor])]

\* One side of a token transfer: the balances after `a' received n (n < 0: paid).
credit(b, a, n) == [b EXCEPT ![a] = @ + n]

\* Whether the calls of a peer return.
answers(p) == p \notin failing

\* Token transfers out of the contract on behalf of one escrow.
payout(id, toTreasury, toMentor, toLearner) ==
    LET e     == escrows[id]
        total == toTreasury + toMentor + toLearner
        debited == credit(balance, Contract, -total)
    IN
    /\ answers("token")
    /\ balance[Contract] >= total
    /\ balance' = credit(credit(credit(debited, Treasury, toTreasury),
                                e.mentor, toMentor), e.learner, toLearner)
    /\ paid' = [paid EXCEPT ![id] = [mentor   |-> @.mentor + toMentor,
                                     treasury |-> @.treasury + toTreasury,
                                     learner  |-> @.learner + toLearner]]

\* With a fee schedule the mentor's tier is read from the staking contract.
tier_readable == fee_schedule # NoSchedule => answers("staking")

\* The rates _compute_fee_unified may apply: the tier is read from the staking contract and
\* the price from the liquidity pool at the moment of the release. There is none, and the
\* release panics, when the staking contract traps.
release_rates(amount) ==
    IF fee_schedule = NoSchedule
    THEN {fee_bps}
    ELSE {bps \in {effective_bps(fee_schedule, t, p, amount) : t \in 0 .. 3, p \in Prices} :
            tier_readable}

\* Mutant: the totals of earlier partial releases are overwritten.
released_record_overwrites(e, fee) ==
    [e EXCEPT !.status = "Released", !.platform_fee = fee,
              !.net_amount = e.amount - fee, !.amount = 0]

\* The record after a full release: fee and net are added to earlier partial ones.
released_record(e, fee) ==
    [e EXCEPT !.amount = 0, !.platform_fee = e.platform_fee + fee,
              !.net_amount = e.net_amount + (e.amount - fee), !.status = "Released"]

\* _do_release and _do_release_simple: pay everything that is left at one rate.
do_release(id, bps, actor) ==
    LET e   == escrows[id]
        fee == fee_of(e.amount, bps)
    IN  /\ transition_status(id, e.status, "Released", actor)
        /\ payout(id, fee, e.amount - fee, 0)
        /\ escrows' = [escrows EXCEPT ![id] = released_record(e, fee)]

\* Mutant: the remainder of the division stays in the contract.
session_amount_no_dust(e, k) == (e.quoted_token_amount \div e.total_sessions) * k

\* Mutant: the share of a session is rounded up.
session_amount_rounds_up(e, k) ==
    IF e.sessions_completed + k = e.total_sessions
      THEN e.amount
      ELSE ((e.quoted_token_amount + e.total_sessions - 1) \div e.total_sessions) * k

\* Gross amount of the next k sessions; the last one takes what rounding left.
session_amount(e, k) ==
    IF e.sessions_completed + k = e.total_sessions
      THEN e.amount
      ELSE (e.quoted_token_amount \div e.total_sessions) * k

\* Mutant: the remaining amount is not reduced.
sessions_record_keeps_amount(e, k, gross, fee) ==
    [e EXCEPT !.sessions_completed = @ + k,
              !.platform_fee = @ + fee, !.net_amount = @ + (gross - fee),
              !.status = IF e.sessions_completed + k = e.total_sessions THEN "Released" ELSE @]

\* The record after k sessions were paid; the last session releases the escrow.
sessions_record(e, k, gross, fee) ==
    [e EXCEPT !.sessions_completed = e.sessions_completed + k,
              !.amount = e.amount - gross,
              !.platform_fee = e.platform_fee + fee,
              !.net_amount = e.net_amount + (gross - fee),
              !.status = IF e.sessions_completed + k = e.total_sessions
                           THEN "Released" ELSE e.status]

\* Pay for k of the sessions, and close the escrow and its session with the last.
release_sessions(id, k, bps, actor) ==
    LET e     == escrows[id]
        gross == session_amount(e, k)
        fee   == fee_of(gross, bps)
    IN  /\ payout(id, fee, gross - fee, 0)
        /\ escrows' = [escrows EXCEPT ![id] = sessions_record(e, k, gross, fee)]
        /\ IF e.sessions_completed + k = e.total_sessions
             THEN /\ transition_status(id, e.status, "Released", actor)
                  /\ session_keys' = session_keys \ {e.session_id}
             ELSE UNCHANGED <<log, session_keys>>

\* Mutant: the delay does not grow.
backoff_constant(attempt) == BackoffInitial

\* The loop of calculate_backoff_delay, n times EXPONENTIAL_BACKOFF_MULTIPLIER. It leaves
\* early, or saturates, only where the cap on the delay decides anyway.
factor[n \in Nat] == IF n = 0 THEN 1 ELSE factor[n - 1] * 2

\* calculate_backoff_delay: the delay doubles with every failure up to a cap.
backoff(attempt) == AtMost(BackoffInitial * factor[attempt - 1], BackoffMax)

-----------------------------------------------------------------------------
(* Creation.                                                               *)

\* Mutant: only the session key, which a completed escrow removes, guards a session.
session_is_new_by_key(sid) == sid \notin session_keys

\* Replay protection: the nonce of a session is never given back.
session_is_new(sid) == sid \notin used_nonces /\ sid \notin session_keys

\* _create_escrow_internal: validation, replay protection, deposit, record.
create_escrow_internal(mentor, learner, amount, sid, end, n) ==
    LET id == escrow_count + 1 IN
    /\ id \in EscrowIds
    /\ amount >= n
    /\ token_approved
    /\ answers("token")
    /\ balance[learner] >= amount
    /\ session_is_new(sid)
    /\ end = 0 \/ now <= end + MaxDrift
    /\ used_nonces' = used_nonces \cup {sid}
    /\ session_keys' = session_keys \cup {sid}
    /\ escrow_count' = id
    /\ balance' = credit(credit(balance, learner, -amount), Contract, amount)
    /\ transition_status(id, "Pending", "Active", learner)
    /\ escrows' = [escrows EXCEPT ![id] =
            [mentor |-> mentor, learner |-> learner, amount |-> amount, session_id |-> sid,
             status |-> "Active", created_at |-> now, platform_fee |-> 0, net_amount |-> 0,
             session_end_time |-> end, quoted_token_amount |-> amount,
             total_sessions |-> n, sessions_completed |-> 0]]
    /\ UNCHANGED <<now, retry, isolated, low_fee, config, paid>>

create_escrow(mentor, learner, amount, sid, end, n) ==
    create_escrow_internal(mentor, learner, amount, sid, end, n)

\* Path payments carry a fixed session identifier and no session end.
create_escrow_with_path_payment(mentor, learner, amount, n) ==
    create_escrow_internal(mentor, learner, amount, PathPay, 0, n)

-----------------------------------------------------------------------------
(* Release paths.                                                          *)

\* verify_session_authenticity: a session announced as shorter than the minimum
\* cannot be released by hand.
is_authentic(e) ==
    e.session_end_time > e.created_at => e.session_end_time - e.created_at >= MinInteraction

\* detect_platform_bypass: the pair's count of low-value releases after this one.
low_fee_count(e) ==
    low_fee[<<e.mentor, e.learner>>] + (IF e.amount < LowFeeThreshold THEN 1 ELSE 0)

release_authorised(e, caller) == caller \in {e.learner, Admin}

\* Mutant: the status is not looked at.
partially_releasable_any_status(e) == e.sessions_completed < e.total_sessions

partially_releasable(e) == e.status = "Active" /\ e.sessions_completed < e.total_sessions

release_funds(caller, id) ==
    LET e == escrows[id] IN
    /\ e.status = "Active"
    /\ id \notin isolated
    /\ release_authorised(e, caller)
    /\ is_authentic(e)
    /\ low_fee_count(e) <= MaxLowFee
    /\ low_fee' = [low_fee EXCEPT ![<<e.mentor, e.learner>>] = low_fee_count(e)]
    /\ \E bps \in release_rates(e.amount) : do_release(id, bps, caller)
    /\ UNCHANGED <<now, sessions, retry, isolated, config>>

release_partial(caller, id) ==
    LET e == escrows[id] IN
    /\ partially_releasable(e)
    /\ release_authorised(e, caller)
    /\ \E bps \in release_rates(session_amount(e, 1)) : release_sessions(id, 1, bps, caller)
    /\ UNCHANGED <<now, escrow_count, used_nonces, retry, isolated, low_fee, config>>

batch_release(caller, id, k) ==
    LET e == escrows[id] IN
    /\ caller = Admin
    /\ e.status = "Active"
    /\ k > 0
    /\ k <= e.total_sessions - e.sessions_completed
    /\ \E bps \in release_rates(session_amount(e, k)) : release_sessions(id, k, bps, caller)
    /\ UNCHANGED <<now, escrow_count, used_nonces, retry, isolated, low_fee, config>>

admin_release(id) ==
    LET e == escrows[id] IN
    /\ e.status = "Active"
    /\ \E bps \in release_rates(e.amount) : do_release(id, bps, Admin)
    /\ UNCHANGED <<now, sessions, retry, isolated, low_fee, config>>

\* Mutant: the release delay is forgotten.
auto_release_due_at_end(id) ==
    LET e == escrows[id] IN
    /\ e.status = "Active"
    /\ now >= e.session_end_time
    /\ failures[id].attempt_number < MaxAttempts
    /\ now >= failures[id].next_retry_time

\* The gates every auto-release attempt passes before the cross-contract checks.
auto_release_due(id) ==
    LET e == escrows[id] IN
    /\ e.status = "Active"
    /\ now >= e.session_end_time + AutoReleaseDelay
    /\ failures[id].attempt_number < MaxAttempts
    /\ now >= failures[id].next_retry_time

\* _try_run_auto_release_prechecks: reputation, insurance, and the tier lookup.
prechecks_pass == answers("checks") /\ tier_readable

\* try_auto_release when the prechecks pass. The release that follows is no `try': when the
\* token traps, the call panics and counts no attempt.
try_auto_release_ok(id) ==
    /\ auto_release_due(id)
    /\ prechecks_pass
    /\ \E bps \in release_rates(escrows[id].amount) : do_release(id, bps, Contract)
    /\ failures' = [failures EXCEPT ![id] = NoFailure]
    /\ UNCHANGED <<now, sessions, watchlist, isolated, low_fee, config>>

\* Mutant: the failed attempt is not counted.
after_failure_uncounted(f) ==
    [attempt_number |-> f.attempt_number, next_retry_time |-> now + backoff(f.attempt_number + 1),
     recovery_state |-> "Retrying"]

\* The failure record after one more failed attempt.
after_failure(f) ==
    LET n == f.attempt_number + 1 IN
    [attempt_number  |-> n,
     next_retry_time |-> now + backoff(n),
     recovery_state  |-> IF n >= MaxAttempts THEN "AwaitingManualRecovery" ELSE "Retrying"]

\* try_auto_release when a precheck fails: the failure is recorded, not raised.
try_auto_release_failed(id) ==
    /\ auto_release_due(id)
    /\ ~prechecks_pass
    /\ failures' = [failures EXCEPT ![id] = after_failure(@)]
    /\ UNCHANGED <<now, escrow_count, escrows, log, balance, used_nonces, session_keys,
                   watchlist, isolated, low_fee, config, paid>>

\* Admin bypass of the checks, open while the retries are neither few nor exhausted.
manual_recovery_release(id) ==
    /\ failures[id].attempt_number >= ManualThreshold
    /\ failures[id].attempt_number < MaxAttempts
    /\ escrows[id].status = "Active"
    /\ do_release(id, fee_bps, Admin)
    /\ failures' = [failures EXCEPT ![id].recovery_state = "Recovered"]
    /\ UNCHANGED <<now, sessions, watchlist, isolated, low_fee, config>>

-----------------------------------------------------------------------------
(* Disputes, refunds, stuck reports and isolation.                         *)

dispute(caller, id) ==
    LET e == escrows[id] IN
    /\ e.status = "Active"
    /\ caller \in {e.mentor, e.learner}
    /\ transition_status(id, e.status, "Disputed", caller)
    /\ escrows' = [escrows EXCEPT ![id].status = "Disputed"]
    /\ UNCHANGED <<now, sessions, balance, retry, isolated, low_fee, config, paid>>

\* The remaining amount is split without a fee; the record's payout fields are
\* overwritten with the two shares and `amount' keeps its value.
resolve_dispute(id, pct) ==
    LET e     == escrows[id]
        share == (e.amount * pct) \div 100
    IN  /\ id \notin isolated
        /\ e.status = "Disputed"
        /\ payout(id, 0, share, e.amount - share)
        /\ transition_status(id, e.status, "Resolved", Admin)
        /\ escrows' = [escrows EXCEPT ![id] =
                        [@ EXCEPT !.platform_fee = e.amount - share,
                                  !.net_amount = share,
                                  !.status = "Resolved"]]
        /\ UNCHANGED <<now, sessions, retry, isolated, low_fee, config>>

refund(id) ==
    LET e == escrows[id] IN
    /\ e.status \in {"Pending", "Active", "Disputed"}
    /\ payout(id, 0, 0, e.amount)
    /\ transition_status(id, e.status, "Refunded", Admin)
    /\ escrows' = [escrows EXCEPT ![id].status = "Refunded"]
    /\ UNCHANGED <<now, sessions, retry, isolated, low_fee, config>>

report_stuck_escrow(id) ==
    LET e == escrows[id] IN
    /\ e.status = "Active"
    /\ now >= e.session_end_time + AutoReleaseDelay + GracePeriod
    /\ watchlist' = watchlist \cup {id}
    /\ UNCHANGED <<now, sessions, escrows, log, balance, failures, isolated, low_fee, config, paid>>

\* Isolation does not check that the escrow exists.
emergency_isolate_escrow(id) ==
    /\ isolated' = isolated \cup {id}
    /\ UNCHANGED <<now, sessions, escrows, log, balance, retry, low_fee, config, paid>>

recover_isolated_escrow(id) ==
    /\ isolated' = isolated \ {id}
    /\ UNCHANGED <<now, sessions, escrows, log, balance, retry, low_fee, config, paid>>

-----------------------------------------------------------------------------
(* Configuration, the called contracts and time.                           *)

state == <<now, sessions, escrows, log, balance, retry, isolated, low_fee, paid>>

\* Mutant: the cap is not checked.
update_fee_uncapped(bps) ==
    /\ fee_bps' = bps
    /\ UNCHANGED <<state, token_approved, fee_schedule, failing>>

update_fee(bps) ==
    /\ bps <= MAX_FEE_BPS
    /\ fee_bps' = bps
    /\ UNCHANGED <<state, token_approved, fee_schedule, failing>>

\* set_fee_schedule, and update_fee_schedule, which stores another valid schedule.
set_fee_schedule(s) ==
    /\ validate_fee_schedule(s)
    /\ fee_schedule' = s
    /\ UNCHANGED <<state, token_approved, fee_bps, failing>>

set_approved_token(approved) ==
    /\ token_approved' = approved
    /\ UNCHANGED <<state, fee_bps, fee_schedule, failing>>

\* The called contracts come to trap, and recover, on their own.
PeersChange ==
    \E F \in Outages \cup {{}} :
        /\ failing' = F
        /\ UNCHANGED <<state, token_approved, fee_bps, fee_schedule>>

\* The ledger closes and its timestamp grows.
Tick ==
    /\ now < MaxTime
    /\ now' = now + 1
    /\ UNCHANGED <<sessions, escrows, log, balance, retry, isolated, low_fee, config, paid>>

-----------------------------------------------------------------------------
Create ==
    \E m \in Users, l \in Users, a \in Amounts, n \in SessionCounts :
        \/ \E s \in SessionIds, t \in EndTimes : create_escrow(m, l, a, s, t, n)
        \/ create_escrow_with_path_payment(m, l, a, n)

Release(id) ==
    \/ \E c \in Users \cup {Admin} : release_funds(c, id)
    \/ \E c \in Users \cup {Admin} : release_partial(c, id)
    \/ \E c \in Users \cup {Admin}, k \in SessionCounts : batch_release(c, id, k)
    \/ admin_release(id)
    \/ manual_recovery_release(id)

AutoRelease(id) == try_auto_release_ok(id) \/ try_auto_release_failed(id)

Arbitrate(id) ==
    \/ \E c \in Users : dispute(c, id)
    \/ \E p \in Percentages : resolve_dispute(id, p)
    \/ refund(id)

Supervise(id) ==
    \/ report_stuck_escrow(id)
    \/ emergency_isolate_escrow(id)
    \/ recover_isolated_escrow(id)

Configure ==
    \/ \E r \in FeeRates : update_fee(r)
    \/ \E s \in Schedules : set_fee_schedule(s)
    \/ \E b \in BOOLEAN : set_approved_token(b)

Next ==
    \/ Create
    \/ \E id \in EscrowIds : Release(id) \/ AutoRelease(id) \/ Arbitrate(id) \/ Supervise(id)
    \/ Configure
    \/ PeersChange
    \/ Tick

Spec == Init /\ [][Next]_vars

-----------------------------------------------------------------------------
(* Properties.                                                             *)

Address == Users \cup {Contract, Treasury}
Actors  == Users \cup {Admin, Contract}

\* A record is stored as "Active" at once; "Pending" only appears in the log.
StoredStatuses == {"None", "Active", "Released", "Disputed", "Refunded", "Resolved"}

EscrowRecord ==
    [mentor : Users \cup {NoUser}, learner : Users \cup {NoUser}, amount : Nat,
     session_id : SessionIds \cup {PathPay}, status : StoredStatuses, created_at : Nat,
     platform_fee : Nat, net_amount : Nat, session_end_time : Nat,
     quoted_token_amount : Nat, total_sessions : Nat \ {0}, sessions_completed : Nat]

LogEntry == [from : Statuses, to : Statuses, actor : Actors]

FailureRecord == [attempt_number : 0 .. MaxAttempts, next_retry_time : Nat,
                  recovery_state : {"Retrying", "AwaitingManualRecovery", "Recovered"}]

\* The values the contract's storage entries and the token ledger may hold.
TypeOK ==
    /\ now \in Nat
    /\ escrow_count \in 0 .. MaxEscrows
    /\ escrows \in [EscrowIds -> EscrowRecord]
    /\ \A id \in EscrowIds : id > escrow_count => escrows[id] = Blank
    /\ log \in [EscrowIds -> Seq(LogEntry)]
    /\ balance \in [Address -> Nat]
    /\ used_nonces \subseteq SessionIds \cup {PathPay}
    /\ session_keys \subseteq SessionIds \cup {PathPay}
    /\ failures \in [EscrowIds -> FailureRecord]
    /\ watchlist \subseteq EscrowIds
    /\ isolated \subseteq EscrowIds
    /\ low_fee \in [Users \X Users -> 0 .. MaxLowFee]
    /\ token_approved \in BOOLEAN
    /\ fee_bps \in 0 .. MAX_FEE_BPS
    /\ fee_schedule \in Schedules \cup {NoSchedule}
    /\ failing \subseteq Peers
    /\ paid \in [EscrowIds -> [mentor : Nat, treasury : Nat, learner : Nat]]

\* What the contract still owes on an escrow, and what it has paid for it.
Held(id) == IF escrows[id].status \in Live THEN escrows[id].amount ELSE 0
PaidOut(id) == paid[id].mentor + paid[id].treasury + paid[id].learner

\* Fund conservation, escrow by escrow: whatever mixture of partial, batch, automatic
\* and manual releases, refunds and rulings an escrow goes through, what it has paid out
\* and what it still holds add up to the learner's deposit; a settled escrow has paid
\* out exactly its deposit, neither twice nor short of a rounding remainder.
FundConservation ==
    \A id \in EscrowIds : PaidOut(id) + Held(id) = escrows[id].quoted_token_amount

\* A step leaves the record, the payments and the log of settled escrows alone.
KeepsSettled ==
    \A id \in EscrowIds : escrows[id].status \in Terminal =>
        escrows'[id] = escrows[id] /\ paid'[id] = paid[id] /\ log'[id] = log[id]

\* A settled escrow is final: no later call changes its record or pays from it again.
SettledIsFinal == [][KeepsSettled]_vars

\* A session is paid for once: no two escrows are ever created for one session, also
\* when the session's first escrow is settled and its session key is gone.
OneEscrowPerSession ==
    \A i, j \in 1 .. escrow_count :
        escrows[i].session_id = escrows[j].session_id => i = j

\* What is left to pay, as a function of the sessions already paid.
SessionsAddUp(e) ==
    /\ e.sessions_completed < e.total_sessions
    /\ e.amount = e.quoted_token_amount
                    - e.sessions_completed * (e.quoted_token_amount \div e.total_sessions)

\* The remaining amount of a live escrow follows from the number of sessions paid, in
\* whatever mixture of single and batch releases they were paid: no session is ever
\* paid short, and the rounding remainder is still there for the last one.
SessionArithmetic ==
    \A id \in EscrowIds : escrows[id].status \in Live => SessionsAddUp(escrows[id])

\* The platform keeps at most a tenth of what it paid out for an escrow in releases,
\* however often the admin changed the rates between two partial releases.
FeeCap ==
    \A id \in EscrowIds :
        paid[id].treasury * BPS <= (paid[id].treasury + paid[id].mentor) * MAX_FEE_BPS

\* The record of a released escrow accounts for every token paid from it.
ReleaseRecordIsExact ==
    \A id \in EscrowIds :
        escrows[id].status = "Released" =>
            /\ escrows[id].platform_fee = paid[id].treasury
            /\ escrows[id].net_amount = paid[id].mentor
            /\ escrows[id].amount = 0

\* The books of an escrow are right: it pays no more than the fee cap, and once released it
\* accounts for every token, however rates, tiers and partial releases mix.
EscrowBooks == FeeCap /\ ReleaseRecordIsExact

\* An automatic release, which anyone may trigger, never happens before the session's end
\* and the release delay have passed, nor while the delay after an earlier failure runs, nor
\* once the attempts are used up.
AutoReleaseWaits ==
    [][\A id \in EscrowIds :
         (log'[id] # log[id] /\ log'[id][Len(log'[id])].actor = Contract) =>
             /\ now >= escrows[id].session_end_time + AutoReleaseDelay
             /\ now >= failures[id].next_retry_time
             /\ failures[id].attempt_number < MaxAttempts]_vars

\* The delay after k failures and one more: BackoffInitial, doubled until the cap is reached.
doubling[k \in Nat] == AtMost(IF k = 0 THEN BackoffInitial ELSE 2 * doubling[k - 1], BackoffMax)

\* Earliest time, counted from the release window's opening, of the retry after k failures.
retry_offset[k \in Nat] == IF k = 0 THEN 0 ELSE retry_offset[k - 1] + doubling[k - 1]

\* Retries are paced: k recorded failures mean that the window opened and all but the
\* last backoff delay have passed, and the next attempt waits for the last one too.
RetriesArePaced ==
    \A id \in EscrowIds :
        LET f     == failures[id]
            opens == escrows[id].session_end_time + AutoReleaseDelay
        IN  f.attempt_number > 0 =>
                /\ now >= opens + retry_offset[f.attempt_number - 1]
                /\ f.next_retry_time >= opens + retry_offset[f.attempt_number]

\* Only the called contracts stand in the admin's way: an active escrow can be released as
\* long as the token and, under a fee schedule, the staking contract answer, and a live one
\* refunded as long as the token does. No legal sequence of calls, neither isolation nor
\* retries nor partial releases, leaves the contract without the tokens or the right to do it.
AdminOverride ==
    \A id \in EscrowIds :
        /\ escrows[id].status = "Active" =>
               (ENABLED admin_release(id) <=> (answers("token") /\ tier_readable))
        /\ escrows[id].status \in Live => (ENABLED refund(id) <=> answers("token"))

\* Solvency: the contract's balance is the sum of what its live escrows hold, so every
\* one of them can be settled whatever happens to the others.
Solvency == balance[Contract] = SumFunctionOnSet([id \in EscrowIds |-> Held(id)], EscrowIds)

-----------------------------------------------------------------------------
(* The abstract view of an escrow: a deposit with a rest.                  *)

StageOf(id) ==
    IF escrows[id].status = "None" THEN "unused"
    ELSE IF escrows[id].status \in Live THEN "open" ELSE "closed"

Deposit == INSTANCE Deposits WITH
    Ids   <- EscrowIds,
    stage <- [id \in EscrowIds |-> StageOf(id)],
    left  <- [id \in EscrowIds |-> Held(id)],
    given <- [id \in EscrowIds |-> PaidOut(id)]

\* Every release path, refund, ruling and recovery of the escrow contract is, for the two
\* parties, a step of Deposits: part of what is left is paid and the rest stays, or all of it
\* is paid and the escrow is closed for good; no step touches two escrows.
ImplementsDeposits == Deposit!DepositsSpec
=============================================================================
