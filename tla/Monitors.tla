---- MODULE Monitors ----
(* The contracts that watch the others: contracts/reconciliation,          *)
(* contracts/health_dashboard, contracts/treasury_analytics,               *)
(* contracts/subscription_analytics, contracts/regulatory_reporting,       *)
(* contracts/anomaly_detector, contracts/credit_score, and the             *)
(* contracts/proposal_templates and contracts/forum beside them.           *)
EXTENDS Host, Integers, Sequences, FiniteSets, FiniteSetsExt, SequencesExt

CONSTANTS
    LedgerEntries,                  \* records that the admin appends
    TreasuryBalances, PoolBalances, \* what the token and the caller report
    ReferralCaps,                   \* the caps a report is asked for, per referrer and for all
    MaxEntries, MaxMismatches, MaxReconciliations,
    ResolutionTimes, MaxDisputes, Metrics, MetricPageSize, MaxMetrics,
    EscrowTotals, MaxDashboardTime, \* values of all active escrows
    Revenues, MaxRevenues, MaxAnalyticsTime,
    RenewalAmounts, RevenueDays, StaleDays, MaxRenewals, MaxRenewalTime,  \* 30 and 32 days
    LargeTx, TxAmounts, MaxFilings, PageLimit,
    Watched, DetectorConfigs, DetectorDay, DetectorHour, TransferAmounts, MaxChecks, MaxDetectorTime,
    CreditEscrows, StakeLevels, AdminScores, CreditDay, MaxScores, MaxCreditTime,
    TemplateParams, MaxProposed,
    Posters, PostStakes,            \* stakes of MIN_POST_STAKE and more
    MaxPosts, MaxForumCalls

VARIABLES reconciliation, dashboard, treasury_analytics, renewals, reports, detector, credit, templates, forum

monitor_vars ==
    <<reconciliation, dashboard, treasury_analytics, renewals, reports, detector, credit, templates, forum>>

-----------------------------------------------------------------------------
(* Reconciliation. *)

Sources == {"EscrowFee", "ReferralReward", "ReferralFeeDist", "InsuranceYield", "InsuranceClaim",
            "TreasuryDeposit", "TreasuryAlloc", "TreasuryDistrib", "BuybackBurn"}
Inflows == {"EscrowFee", "ReferralReward", "ReferralFeeDist", "InsuranceYield", "TreasuryDeposit"}
TreasuryIn == {"EscrowFee", "TreasuryDeposit"}
TreasuryOut == {"TreasuryAlloc", "TreasuryDistrib", "BuybackBurn"}

ReconciliationInit ==
    reconciliation = [records |-> << >>, totals |-> [s \in Sources |-> <<0, 0>>], index |-> [s \in Sources |-> << >>],
                      shares |-> NothingStored, mismatches |-> << >>, reports |-> << >>]

sum_of(s, value(_)) == FoldLeft(LAMBDA total, x : total + value(x), 0, s)

append_record(r) ==
    /\ Len(reconciliation.records) < MaxEntries
    /\ reconciliation' = [reconciliation EXCEPT
         !.records = Append(@, r),
         !.index[r.source] = Append(@, Len(reconciliation.records) + 1),
         !.totals[r.source] = IF r.amount >= 0 THEN <<@[1] + r.amount, @[2]>> ELSE <<@[1], @[2] - r.amount>>,
         !.shares = IF r.source \in {"InsuranceYield", "InsuranceClaim"}
                      THEN put(@, r.account, stored(@, r.account, 0) + r.amount) ELSE @]

in_range(from, to) ==
    LET last == Min({to, Len(reconciliation.records)})
    IN  SelectSeq([i \in 1..last |-> i], LAMBDA i : i >= from)
record(i) == reconciliation.records[i]

calc_platform_fee(gross, bps) == IF gross <= 0 \/ bps = 0 THEN 0 ELSE (gross * bps) \div 10000

fee_matches(r) == Max({r.amount, 0}) = calc_platform_fee(r.gross, r.bps)

\* One mismatch per fee that is not what the rate makes of the gross amount.
validate_fee_distributions(from, to) ==
    SelectSeq(in_range(from, to), LAMBDA i : record(i).source = "EscrowFee" /\ ~fee_matches(record(i)))

MentorReferral == 50
LearnerReferral == 20

base_reward(r) ==
    IF r.source = "ReferralFeeDist" THEN calc_platform_fee(r.gross, r.bps)
    ELSE IF r.bps = 0 THEN LearnerReferral ELSE MentorReferral

\* Mutant: the cap for all referrers is not applied.
expected_payout_per_referrer(seen, r, caps) ==
    LET raw == (base_reward(r) * Max({r.bps, 10000})) \div 10000
        before == stored(seen.lifetime, r.account, 0)
    IN  IF before + raw <= caps.lifetime THEN raw ELSE caps.lifetime - before

\* The rewards so far count in full against the referrer's cap, whatever was cut off.
expected_payout(seen, r, caps) ==
    LET raw == (base_reward(r) * Min({Max({r.bps, 10000}), caps.multiplier})) \div 10000
        before == stored(seen.lifetime, r.account, 0)
        capped == IF before + raw <= caps.lifetime THEN raw ELSE caps.lifetime - before
    IN  IF seen.global + capped <= caps.global THEN capped ELSE caps.global - seen.global

validate_referral_rewards(from, to, caps) ==
    LET step(seen, i) ==
          LET r == record(i)
              raw == (base_reward(r) * Min({Max({r.bps, 10000}), caps.multiplier})) \div 10000
              due == expected_payout(seen, r, caps)
          IN  [lifetime |-> put(seen.lifetime, r.account, stored(seen.lifetime, r.account, 0) + raw),
               global |-> seen.global + due,
               wrong |-> IF Max({r.amount, 0}) = due THEN seen.wrong ELSE Append(seen.wrong, i)]
        paid == SelectSeq(in_range(from, to), LAMBDA i : record(i).source \in {"ReferralReward", "ReferralFeeDist"})
    IN  FoldLeft(step, [lifetime |-> NothingStored, global |-> 0, wrong |-> << >>], paid)

\* Flows with the wrong sign do not count.
check_treasury_consistency(from, to, start_balance) ==
    LET counted(i) == \/ record(i).source \in TreasuryIn /\ record(i).amount >= 0
                      \/ record(i).source \in TreasuryOut /\ record(i).amount <= 0
    IN  start_balance + sum_of(SelectSeq(in_range(from, to), counted), LAMBDA i : record(i).amount)

check_insurance_pool_consistency(pool) ==
    MapThenSumSet(LAMBDA a : reconciliation.shares[a], DOMAIN reconciliation.shares) = pool

\* Mutant: a reference is a duplicate whatever the source of the record.
double_counts_by_reference(from, to) ==
    SelectSeq(in_range(from, to), LAMBDA i : \E j \in Range(in_range(from, to)) :
                                    j < i /\ record(j).ref = record(i).ref)

double_counts(from, to) ==
    SelectSeq(in_range(from, to),
              LAMBDA i : \E j \in Range(in_range(from, to)) :
                           j < i /\ record(j).ref = record(i).ref /\ record(j).source = record(i).source)

detect_mismatches(from, to) ==
    LET ids == in_range(from, to) IN
    FlattenSeq(<< SelectSeq(ids, LAMBDA i : record(i).bps > 10000),
                  SelectSeq(ids, LAMBDA i : record(i).gross = 0 /\ record(i).amount # 0),
                  SelectSeq(ids, LAMBDA i : IF record(i).source \in Inflows THEN record(i).amount < 0
                                            ELSE record(i).amount > 0),
                  double_counts(from, to) >>)

\* All mismatches are kept in one list, whichever check raised them.
raised(found) ==
    /\ Len(reconciliation.mismatches) < MaxMismatches
    /\ reconciliation' = [reconciliation EXCEPT !.mismatches = @ \o found]

\* Each of the checks may also be called by itself, by anyone, and adds to the list every time.
run_check(from, to, caps, balance, pool, actual) ==
    \/ raised(validate_fee_distributions(from, to))
    \/ raised(validate_referral_rewards(from, to, caps).wrong)
    \/ raised(IF check_treasury_consistency(from, to, balance) = actual THEN << >> ELSE <<0>>)
    \/ raised(IF check_insurance_pool_consistency(pool) THEN << >> ELSE <<0>>)
    \/ raised(detect_mismatches(from, to))

\* Mutant: mismatches raised before the report count as well.
mismatches_found_ever(before, after) == after

mismatches_found(before, after) == after - before

generate_report(from, to, caps, balance, pool, actual) ==
    LET fees == validate_fee_distributions(from, to)
        referrals == validate_referral_rewards(from, to, caps).wrong
        probe == IF check_treasury_consistency(from, to, balance) = actual THEN << >> ELSE <<0>>
        insured == IF check_insurance_pool_consistency(pool) THEN << >> ELSE <<0>>
        structural == detect_mismatches(from, to)
        after == reconciliation.mismatches \o fees \o referrals \o probe \o insured \o structural
        found == mismatches_found(Len(reconciliation.mismatches), Len(after))
        critical == Len(structural) + Len(fees) + Len(referrals) + Len(insured) + Len(probe)
        clean == fees = << >> /\ referrals = << >> /\ insured = << >> /\ probe = << >> /\ found = 0
        flow(sign) == sum_of(in_range(from, to), LAMBDA i : Max({sign * record(i).amount, 0}))
    IN  /\ from <= to /\ Len(reconciliation.reports) < MaxReconciliations
        /\ reconciliation' = [reconciliation EXCEPT !.mismatches = after, !.reports = Append(@,
             [from |-> from, last |-> Min({to, Len(reconciliation.records)}), caps |-> caps, ins |-> flow(1),
              outs |-> flow(-1), balance |-> balance, actual |-> actual, pool_matches |-> insured = << >>,
              found |-> found, tag |-> IF clean THEN "CLEAN" ELSE IF critical = 0 THEN "WARN" ELSE "FAIL"])]

ReconciliationNext ==
    /\ \/ \E r \in LedgerEntries : append_record(r)
       \/ \E from \in 1..MaxEntries, to \in 1..MaxEntries, caps \in ReferralCaps,
             pool \in PoolBalances, actual \in TreasuryBalances :
            from <= to /\ (run_check(from, to, caps, 0, pool, actual) \/ generate_report(from, to, caps, 0, pool, actual))
    /\ UNCHANGED <<now, dashboard, treasury_analytics, renewals, reports, detector, credit, templates, forum>>

\* A report's verdict is about the records of its range and nothing that other checks raised before: it
\* is clean exactly when each of them passes every check and the balances agree; then fees and payouts
\* add up within the caps. It is never a mere warning, since every mismatch is critical.
VerdictIsOfRange ==
    \A k \in DOMAIN reconciliation.reports :
      LET rep == reconciliation.reports[k]
          ids == {i \in rep.from..rep.last : i <= Len(reconciliation.records)}
          referred == {i \in ids : record(i).source \in {"ReferralReward", "ReferralFeeDist"}}
          treasury == {i \in ids : record(i).source \in TreasuryIn \cup TreasuryOut}
      IN  /\ rep.tag # "WARN" /\ (rep.tag = "CLEAN" <=> rep.found = 0)
          /\ rep.ins - rep.outs = MapThenSumSet(LAMBDA i : record(i).amount, ids)
          /\ rep.tag = "CLEAN" =>
               /\ rep.pool_matches
               /\ rep.actual = rep.balance + MapThenSumSet(LAMBDA i : record(i).amount, treasury)
               /\ MapThenSumSet(LAMBDA i : record(i).amount, referred) <= Max({rep.caps.global, 0})
               /\ \A i, j \in ids : i # j => <<record(i).source, record(i).ref>> # <<record(j).source, record(j).ref>>
          /\ rep.tag = "FAIL" /\ rep.pool_matches /\ referred = {}
               /\ rep.actual = rep.balance + MapThenSumSet(LAMBDA i : record(i).amount, treasury) =>
               \/ \E i \in ids : \/ record(i).source = "EscrowFee" /\ ~fee_matches(record(i))
                                 \/ record(i).bps > 10000
                                 \/ record(i).gross = 0 /\ record(i).amount # 0
                                 \/ record(i).source \in Inflows <=> record(i).amount < 0
               \/ \E i, j \in ids : i < j /\ record(i).source = record(j).source /\ record(i).ref = record(j).ref

\* Each record is in the index of its source, once and in order, and the running totals are theirs.
TotalsAreOfRecords ==
    \A s \in Sources :
      LET ids == SelectSeq([i \in DOMAIN reconciliation.records |-> i], LAMBDA i : record(i).source = s)
      IN  /\ reconciliation.index[s] = ids
          /\ reconciliation.totals[s][1] - reconciliation.totals[s][2] = sum_of(ids, LAMBDA i : record(i).amount)

-----------------------------------------------------------------------------
(* The health dashboard. *)

\* tvl is the escrow contract's, which the dashboard reads. Histories: the resolution times, the
\* metrics recorded, and the values that tvl had in this ledger.
DashboardInit ==
    dashboard = [opened |-> 0, resolved |-> 0, appealed |-> 0, avg |-> 0, times |-> << >>,
                 pages |-> NothingStored, current |-> 0, page_count |-> 0, recorded |-> 0,
                 health |-> NothingStored, cache |-> NothingStored, served |-> 0, tvl |-> 0, in_ledger |-> {0}]

record_dispute_opened ==
    dashboard.opened < MaxDisputes /\ dashboard' = [dashboard EXCEPT !.opened = @ + 1]
record_appeal ==
    dashboard.appealed < MaxDisputes /\ dashboard' = [dashboard EXCEPT !.appealed = @ + 1]

\* Mutant: the average is taken over the disputes opened.
averaged_over_opened(avg, n, t) == (avg * n + t) \div Max({dashboard.opened, 1})

averaged(avg, n, t) == (avg * n + t) \div (n + 1)

\* No dispute need have been opened.
record_resolution(t) ==
    /\ dashboard.resolved < MaxDisputes
    /\ dashboard' = [dashboard EXCEPT !.resolved = @ + 1, !.avg = averaged(@, dashboard.resolved, t),
                                      !.times = Append(@, t)]

\* Mutant: a full page is kept.
fresh_page_never(page) == page

fresh_page(page) == IF Len(page) >= MetricPageSize THEN << >> ELSE page

\* A full page makes room for the next one, and is overwritten by its first metric.
record_metric(m) ==
    LET page == stored(dashboard.pages, dashboard.current, << >>)
        full == Len(page) >= MetricPageSize
        written == Append(fresh_page(page), m)
    IN  /\ dashboard.recorded < MaxMetrics
        /\ dashboard' = [dashboard EXCEPT
             !.pages = put(@, dashboard.current, written), !.recorded = @ + 1,
             !.current = IF full THEN @ + 1 ELSE @,
             !.page_count = IF dashboard.current = 0 /\ Len(written) = 1 THEN 1
                            ELSE IF full THEN dashboard.current + 2 ELSE @]

\* The pages below the count, of which the last need not be there.
is_system_healthy(max_critical) ==
    LET seen == FlattenSeq([p \in 1..dashboard.page_count |-> stored(dashboard.pages, p - 1, << >>)])
        critical == Len(SelectSeq(seen, LAMBDA m : m = "critical"))
    IN  dashboard' = [dashboard EXCEPT
          !.health = [healthy |-> critical <= max_critical, total |-> Len(seen), critical |-> critical]]

\* Mutant: what was computed in the ledger before is served as well.
is_cached_still(entry) == entry.ledger + 1 >= now

is_cached(entry) == entry.ledger = now

\* Of the statistics, the value locked in active escrows.
compute_platform_stats == dashboard.tvl

get_platform_stats ==
    LET hit == DOMAIN dashboard.cache # {} /\ is_cached(dashboard.cache["page"]) IN
    dashboard' = [dashboard EXCEPT
      !.served = IF hit THEN dashboard.cache["page"].tvl ELSE compute_platform_stats,
      !.cache = IF hit THEN @ ELSE [page |-> [ledger |-> now, tvl |-> compute_platform_stats]]]

\* External: the escrows change.
escrows_change(tvl) ==
    tvl # dashboard.tvl /\ dashboard' = [dashboard EXCEPT !.tvl = tvl, !.in_ledger = @ \cup {tvl}]

DashboardTick ==
    CloseLedger(MaxDashboardTime) /\ dashboard' = [dashboard EXCEPT !.in_ledger = {dashboard.tvl}]

dashboard_unchanged == <<reconciliation, treasury_analytics, renewals, reports, detector, credit, templates, forum>>

\* Disputes, metrics and statistics share no key of the contract's storage.
DisputeStatsNext ==
    /\ record_dispute_opened \/ record_appeal \/ \E t \in ResolutionTimes : record_resolution(t)
    /\ UNCHANGED <<now, dashboard_unchanged>>
MetricsNext ==
    /\ \/ \E m \in Metrics : record_metric(m)
       \/ \E c \in 0..1 : is_system_healthy(c)
    /\ UNCHANGED <<now, dashboard_unchanged>>
StatsNext ==
    /\ \/ DashboardTick
       \/ (get_platform_stats \/ \E v \in EscrowTotals : escrows_change(v)) /\ UNCHANGED now
    /\ UNCHANGED dashboard_unchanged

\* The average resolution time, rounded down at each step, lies between the shortest and the longest.
AverageIsBetween ==
    dashboard.times # << >> => dashboard.avg \in Min(Range(dashboard.times))..Max(Range(dashboard.times))

\* The dashboard never counts a metric twice: no page is larger than the page size, and those it
\* reports on were recorded.
MetricsAreReal ==
    /\ \A p \in DOMAIN dashboard.pages : Len(dashboard.pages[p]) <= MetricPageSize
    /\ DOMAIN dashboard.health # {} => dashboard.health["total"] <= dashboard.recorded

\* The cached statistics were true at some moment of the ledger in which they are served.
StatsAreOfThisLedger ==
    [][get_platform_stats => dashboard'.served \in dashboard.in_ledger]_<<now, dashboard>>

\* contracts/health_dashboard/src/lib.rs:608 "Metrics are stored in paginated pages": none is lost. The
\* first metric of a new page overwrites the full one, so this does not hold.
MetricsAreKept ==
    MapThenSumSet(LAMBDA p : Len(dashboard.pages[p]), DOMAIN dashboard.pages) = dashboard.recorded

-----------------------------------------------------------------------------
(* Analytics of the treasury, by the time of the record. *)

AnalyticsInit == treasury_analytics = [fees |-> << >>, payouts |-> << >>, reserves |-> << >>]

AnalyticsBound == Len(treasury_analytics.fees) + Len(treasury_analytics.payouts) + Len(treasury_analytics.reserves) < MaxRevenues

record_fee_revenue(a) ==
    treasury_analytics' = [treasury_analytics EXCEPT !.fees = Append(@, [amount |-> a, at |-> now])]
record_referral_payout(a) ==
    treasury_analytics' = [treasury_analytics EXCEPT !.payouts = Append(@, [amount |-> a, at |-> now])]
record_insurance_reserve(a) ==
    treasury_analytics' = [treasury_analytics EXCEPT !.reserves = Append(@, [amount |-> a, at |-> now])]

\* Mutant: the end of the period is outside it.
in_period_open(s, from, to) == SelectSeq(s, LAMBDA r : r.at >= from /\ r.at < to)

in_period(s, from, to) == SelectSeq(s, LAMBDA r : r.at >= from /\ r.at <= to)

generate_analytics(from, to) ==
    LET total(s) == sum_of(in_period(s, from, to), LAMBDA r : r.amount)
        latest == in_period(treasury_analytics.reserves, from, to)
    IN  [fees |-> total(treasury_analytics.fees), payouts |-> total(treasury_analytics.payouts),
         growth |-> total(treasury_analytics.fees) - total(treasury_analytics.payouts),
         reserves |-> IF latest = << >> THEN 0 ELSE Last(latest).amount]

AnalyticsTick == CloseLedger(MaxAnalyticsTime) /\ UNCHANGED treasury_analytics

AnalyticsNext ==
    /\ \/ AnalyticsTick
       \/ /\ AnalyticsBound
          /\ \E a \in Revenues : record_fee_revenue(a) \/ record_referral_payout(a) \/ record_insurance_reserve(a)
          /\ UNCHANGED now
    /\ UNCHANGED <<reconciliation, dashboard, renewals, reports, detector, credit, templates, forum>>

\* Periods that follow each other add up: none counts a record twice or leaves one out, also one
\* recorded at their boundary, and the reserve reported is the latest.
PeriodsAddUp ==
    \A a, b, c \in 0..MaxAnalyticsTime : a < b /\ b < c - 1 =>
      LET first == generate_analytics(a, b)
          second == generate_analytics(b + 1, c)
          both == generate_analytics(a, c)
      IN  /\ both.fees = first.fees + second.fees /\ both.growth = first.growth + second.growth
          /\ both.reserves \in {first.reserves, second.reserves}

-----------------------------------------------------------------------------
(* Analytics of subscriptions; a day is a ledger. *)

\* history is a history variable: all renewals.
RenewalsInit ==
    renewals = [mrr |-> 0, subscribers |-> 0, month |-> [joined |-> 0, churned |-> 0, net_new |-> 0],
                bucket |-> NothingStored, rolling |-> NothingStored, mentors |-> << >>, history |-> << >>]

new_subscription(a) ==
    renewals' = [renewals EXCEPT !.mrr = @ + a, !.subscribers = @ + 1, !.month.joined = @ + 1, !.month.net_new = @ + 1]
cancellation(a) ==
    renewals' = [renewals EXCEPT !.mrr = @ - a, !.subscribers = Max({@ - 1, 0}),
                                 !.month.churned = @ + 1, !.month.net_new = @ - 1]
change_of_plan(a) == renewals' = [renewals EXCEPT !.mrr = @ + a]

sum_mentor_window(bucket, mentor) ==
    MapThenSumSet(LAMBDA d : stored(bucket, <<mentor, d>>, 0), {d \in 0..now : d > now - RevenueDays})

\* Mutant: a day of the window is removed.
without_stale_early(bucket, mentor) == del(bucket, <<mentor, now - (RevenueDays - 1)>>)

without_stale(bucket, mentor) == del(bucket, <<mentor, now - StaleDays>>)

record_renewal(mentor, a) ==
    LET key == <<mentor, now>>
        bucket == without_stale(put(renewals.bucket, key, stored(renewals.bucket, key, 0) + a), mentor)
    IN  /\ Len(renewals.history) < MaxRenewals
        /\ renewals' = [renewals EXCEPT
             !.bucket = bucket, !.rolling = put(@, mentor, sum_mentor_window(bucket, mentor)),
             !.mentors = IF mentor \in Range(@) THEN @ ELSE Append(@, mentor),
             !.history = Append(@, [mentor |-> mentor, amount |-> a, at |-> now])]

get_mentor_revenue_30d(mentor) == sum_mentor_window(renewals.bucket, mentor)

\* From what the last renewal of each mentor left.
get_protocol_revenue_30d == sum_of(renewals.mentors, LAMBDA mentor : renewals.rolling[mentor])

RenewalsTick == CloseLedger(MaxRenewalTime) /\ UNCHANGED renewals

renewals_unchanged == <<reconciliation, dashboard, treasury_analytics, reports, detector, credit, templates, forum>>

RenewalsNext ==
    /\ \/ RenewalsTick
       \/ (\E mentor \in Posters, a \in RenewalAmounts : record_renewal(mentor, a)) /\ UNCHANGED now
    /\ UNCHANGED renewals_unchanged

SubscribersNext ==
    /\ renewals.month.joined + renewals.month.churned < MaxRenewals
    /\ \E a \in RenewalAmounts : new_subscription(a) \/ cancellation(a) \/ (renewals.mrr < MaxRenewals /\ change_of_plan(a))
    /\ UNCHANGED <<now, renewals_unchanged>>

\* The revenue of a mentor's window is that of the renewals in it, whatever was removed, and the
\* protocol's revenue, which may count days that have left the window, is never less than all of them.
RollingIsWindow ==
    LET window(mentor) == SelectSeq(renewals.history, LAMBDA r : r.mentor = mentor /\ r.at > now - RevenueDays)
        true_revenue(mentor) == sum_of(window(mentor), LAMBDA r : r.amount)
    IN  /\ \A mentor \in Posters : get_mentor_revenue_30d(mentor) = true_revenue(mentor)
        /\ get_protocol_revenue_30d >= MapThenSumSet(true_revenue, Posters)

-----------------------------------------------------------------------------
(* Reports to the regulator. *)

ReportsInit == reports = [records |-> [p \in Posters |-> << >>], report |-> << >>, reviewed |-> NothingStored]

record_transaction(sender, receiver, a) ==
    /\ Len(reports.records[sender]) + Len(reports.records[receiver]) < MaxFilings
    /\ LET entered_once(records, user) == [records EXCEPT ![user] = Append(@, [amount |-> a, large |-> a > LargeTx])]
       IN  reports' = [reports EXCEPT !.records = entered_once(entered_once(@, sender), receiver)]

\* Mutant: a report number that was marked before is not shown to the reviewer.
unreviewed_if_new(reviewed, id) == IF id \in DOMAIN reviewed THEN reviewed ELSE put(reviewed, id, FALSE)

unreviewed(reviewed, id) == put(reviewed, id, FALSE)

record_large_tx(a) ==
    /\ Len(reports.report) < MaxFilings
    /\ reports' = IF a <= LargeTx THEN reports
                  ELSE [reports EXCEPT !.report = Append(@, a), !.reviewed = unreviewed(@, Len(reports.report) + 1)]

\* Also of a number that no report has yet.
mark_reviewed(id) == reports' = [reports EXCEPT !.reviewed = put(@, id, TRUE)]

is_reviewed(id) == stored(reports.reviewed, id, FALSE)

\* Mutant: the page ends before its last report.
get_pending_reports_short(offset) ==
    SelectSeq([i \in 1..Len(reports.report) |-> i], LAMBDA i : i > offset /\ i < offset + PageLimit /\ ~is_reviewed(i))

\* Pages are of report numbers: those reviewed leave gaps.
get_pending_reports(offset) ==
    SelectSeq([i \in 1..Len(reports.report) |-> i], LAMBDA i : i > offset /\ i <= offset + PageLimit /\ ~is_reviewed(i))

\* Pages are of the reports not reviewed.
get_unreviewed_reports_page(offset) ==
    LET all == SelectSeq([i \in 1..Len(reports.report) |-> i], LAMBDA i : ~is_reviewed(i))
    IN  SubSeq(all, offset + 1, Min({offset + PageLimit, Len(all)}))

ReportsNext ==
    /\ \/ \E p \in Posters, q \in Posters, a \in TxAmounts : record_transaction(p, q, a)
       \/ \E a \in TxAmounts : record_large_tx(a)
       \/ \E id \in 1..MaxFilings : ~is_reviewed(id) /\ mark_reviewed(id)
    /\ UNCHANGED <<now, reconciliation, dashboard, treasury_analytics, renewals, detector, credit, templates, forum>>

\* Reading page after page by number shows every report that awaits review, once and in order, as
\* does reading those not reviewed page after page.
PendingIsComplete ==
    LET offsets == [k \in 1..(MaxFilings + 1) |-> (k - 1) * PageLimit]
        pages(page(_)) == FlattenSeq([k \in DOMAIN offsets |-> page(offsets[k])])
        awaiting == SelectSeq([i \in 1..Len(reports.report) |-> i], LAMBDA i : ~is_reviewed(i))
    IN  pages(get_pending_reports) = awaiting /\ pages(get_unreviewed_reports_page) = awaiting

\* A report awaits review when it is made, also if its number was marked before there was a report.
NewReportsAwait ==
    [][\A id \in 1..Len(reports'.report) : id > Len(reports.report) => ~stored(reports'.reviewed, id, FALSE)]_reports

-----------------------------------------------------------------------------
(* The anomaly detector. *)

NoMetrics == [escrows |-> 0, escrow_start |-> now, disputes |-> 0, dispute_start |-> now, volume |-> 0, volume_start |-> now]

\* passed is a history variable: when disputes were let through.
DetectorInit ==
    detector = [config |-> CHOOSE c \in DetectorConfigs : \A d \in DetectorConfigs : c.disputes <= d.disputes,
                metrics |-> NothingStored, hold |-> {}, passed |-> NothingStored, checks |-> 0]

set_thresholds(c) == c # detector.config /\ detector' = [detector EXCEPT !.config = c]

\* Mutant: the count of disputes starts anew every hour.
day_over_hourly(m) == now >= m.dispute_start + DetectorHour

day_over(m) == now >= m.dispute_start + DetectorDay

\* The user's metrics after the action. A warning is only an event.
counted(u, action, amount) ==
    LET m == stored(detector.metrics, u, NoMetrics)
        escrows_over == now >= m.escrow_start + DetectorHour
        volume_over == now >= m.volume_start + DetectorHour
    IN  CASE action = "CreateEscrow" ->
               [m EXCEPT !.escrows = (IF escrows_over THEN 0 ELSE @) + 1, !.escrow_start = IF escrows_over THEN now ELSE @]
          [] action = "OpenDispute" ->
               [m EXCEPT !.disputes = (IF day_over(m) THEN 0 ELSE @) + 1, !.dispute_start = IF day_over(m) THEN now ELSE @]
          [] action = "LargeTransfer" ->
               [m EXCEPT !.volume = (IF volume_over THEN 0 ELSE @) + amount, !.volume_start = IF volume_over THEN now ELSE @]

\* Mutant: the limit itself calls for a hold.
calls_for_hold_at_limit(action, m) ==
    \/ action = "OpenDispute" /\ m.disputes >= detector.config.disputes
    \/ action = "LargeTransfer" /\ m.volume >= detector.config.volume

calls_for_hold(action, m) ==
    \/ action = "OpenDispute" /\ m.disputes > detector.config.disputes
    \/ action = "LargeTransfer" /\ m.volume > detector.config.volume

\* Mutant: a hold is lifted by the next check.
on_hold_once(u) == FALSE

on_hold(u) == u \in detector.hold

\* While a user is on hold nothing is counted.
check_anomaly(u, action, amount) ==
    LET m == counted(u, action, amount)
        holds == calls_for_hold(action, m)
    IN  /\ detector.checks < MaxChecks
        /\ IF on_hold(u) THEN UNCHANGED detector
           ELSE detector' = [detector EXCEPT
                  !.metrics = put(@, u, m), !.hold = IF holds THEN @ \cup {u} ELSE @ \ {u},
                  !.passed = IF action = "OpenDispute" /\ ~holds
                               THEN put(@, u, Append(stored(@, u, << >>), now)) ELSE @,
                  !.checks = @ + 1]

clear_hold(u) == u \in detector.hold /\ detector' = [detector EXCEPT !.hold = @ \ {u}]

DetectorTick == CloseLedger(MaxDetectorTime) /\ UNCHANGED detector

DetectorNext ==
    /\ \/ DetectorTick
       \/ /\ \/ \E u \in Watched :
                  \/ check_anomaly(u, "CreateEscrow", 0) \/ check_anomaly(u, "OpenDispute", 0) \/ clear_hold(u)
                  \/ \E a \in TransferAmounts : check_anomaly(u, "LargeTransfer", a)
             \/ \E c \in DetectorConfigs : set_thresholds(c)
          /\ UNCHANGED now
    /\ UNCHANGED <<reconciliation, dashboard, treasury_analytics, renewals, reports, credit, templates, forum>>

\* The windows do not slide, so a day may see twice the limit: never more disputes of a user are let
\* through in one day, also when the admin lifts holds, which does not reset the count.
DisputesAreBounded ==
    LET limit == Max({c.disputes : c \in DetectorConfigs}) IN
    \A u \in DOMAIN detector.passed : \A t \in 0..now :
      Cardinality({i \in DOMAIN detector.passed[u] : detector.passed[u][i] \in t..(t + DetectorDay - 1)}) <= 2 * limit

\* Only the admin lifts a hold, and a hold is placed only on a user over one of the limits.
HoldsStand ==
    [][/\ \A u \in detector.hold \ detector'.hold : clear_hold(u)
       /\ \A u \in detector'.hold \ detector.hold :
            \/ detector'.metrics[u].disputes > detector.config.disputes
            \/ detector'.metrics[u].volume > detector.config.volume]_detector

-----------------------------------------------------------------------------
(* Credit scores. *)

MinScore == 300     \* MIN_SCORE
MaxScore == 850     \* MAX_SCORE
NoBreakdown == <<0, 0, 0, 0, 0>>

\* escrows and stake are those of the user, which the escrow and staking contracts hold.
CreditInit ==
    credit = [escrows |-> << >>, stake |-> 0, score |-> MinScore, breakdown |-> NoBreakdown,
              updated |-> 0, history |-> << >>]

escrows_and_stake_change ==
    \/ \E e \in CreditEscrows : Len(credit.escrows) < 2 /\ credit' = [credit EXCEPT !.escrows = Append(@, e)]
    \/ \E s \in StakeLevels : s # credit.stake /\ credit' = [credit EXCEPT !.stake = s]

\* Mutant: a resolved dispute does not count as one.
disputed_open(e) == e.status = "Disputed"

disputed(e) == e.status \in {"Disputed", "Resolved"}

\* Tenths of points for payments, sessions, age, stake and disputes.
score_points ==
    LET n == Len(credit.escrows)
        num(is(_)) == Len(SelectSeq(credit.escrows, is))
        total == sum_of(credit.escrows, LAMBDA e : e.total)
        first == Min({e.at : e \in Range(credit.escrows)} \cup {now})
        days == (now - first) \div CreditDay
    IN  << IF n = 0 THEN 0 ELSE (num(LAMBDA e : e.status \in {"Released", "Resolved"}) * 1925) \div n,
           IF total = 0 THEN 0 ELSE (sum_of(credit.escrows, LAMBDA e : e.done) * 1650) \div total,
           IF n = 0 THEN 0 ELSE (Min({days, 365}) * 825) \div 365,
           (Min({credit.stake, 2000}) * 550) \div 2000,
           IF n = 0 THEN 0 ELSE ((n - num(disputed)) * 550) \div n >>

\* Mutant: each part is rounded to points first.
do_compute_rounded == MinScore + sum_of(score_points, LAMBDA p : p \div 10 + 1)

do_compute == Min({MinScore + sum_of(score_points, LAMBDA p : p) \div 10, MaxScore})

append_history(store, score, reason) ==
    [store EXCEPT !.score = score, !.history = Append(@, [score |-> score, at |-> now, reason |-> reason])]

\* The admin may give 0 to 1000, of which the range of scores is kept.
set_score(score) ==
    /\ Len(credit.history) < MaxScores
    /\ credit' = append_history(credit, Min({Max({score, MinScore}), MaxScore}), "admin")

\* Mutant: refreshes are not paced.
refresh_due_always == TRUE

refresh_due == now >= credit.updated + CreditDay

refresh_score ==
    /\ refresh_due /\ Len(credit.history) < MaxScores
    /\ credit' = append_history([credit EXCEPT !.breakdown = [i \in DOMAIN score_points |-> score_points[i] \div 10],
                                               !.updated = now], do_compute, "refresh")

CreditTick == CloseLedger(MaxCreditTime) /\ UNCHANGED credit

CreditNext ==
    /\ \/ CreditTick
       \/ (escrows_and_stake_change \/ refresh_score \/ \E s \in AdminScores : set_score(s)) /\ UNCHANGED now
    /\ UNCHANGED <<reconciliation, dashboard, treasury_analytics, renewals, reports, detector, templates, forum>>

\* The score is the latest entry of the history and in the range of scores; after a refresh it is at
\* most five points, for rounding, above the parts shown; and refreshes are a day apart.
ScoresAreExplained ==
    LET refreshed == {i \in DOMAIN credit.history : credit.history[i].reason = "refresh"}
        shown == MinScore + sum_of(credit.breakdown, LAMBDA p : p)
    IN  /\ credit.score \in MinScore..MaxScore
        /\ credit.history # << >> =>
             /\ Last(credit.history).score = credit.score
             /\ Last(credit.history).reason = "refresh" => credit.score \in shown..(shown + 4)
        /\ \A i, j \in refreshed : i < j => credit.history[j].at >= credit.history[i].at + CreditDay

-----------------------------------------------------------------------------
(* Templates of proposals. *)

TemplateTypes == {"UpdateFee", "UpdateAutoRelease", "UpdateVelocityLimit"}

\* A template's hash is that of its type, or another one.
TemplatesInit == templates = [registered |-> {}, proposals |-> << >>]

register_template(type, hash) ==
    /\ hash = type
    /\ templates' = [templates EXCEPT !.registered = @ \cup {type}]

\* Mutant: a delay or limit of zero passes.
validate_params_zero(type, value) == type = "UpdateFee" => value <= 10000

validate_params(type, value) == IF type = "UpdateFee" THEN value <= 10000 ELSE value > 0

create_from_template(type, value) ==
    /\ Len(templates.proposals) < MaxProposed
    /\ type \in templates.registered /\ validate_params(type, value)
    /\ templates' = [templates EXCEPT !.proposals = Append(@, [type |-> type, value |-> value])]

TemplatesNext ==
    /\ \E type \in TemplateTypes :
         \/ \E hash \in TemplateTypes : type \notin templates.registered /\ register_template(type, hash)
         \/ \E value \in TemplateParams : create_from_template(type, value)
    /\ UNCHANGED <<now, reconciliation, dashboard, treasury_analytics, renewals, reports, detector, credit, forum>>

\* Every proposal is of a registered template, and no delay or limit proposed is zero.
ProposalsFitTemplates ==
    \A i \in DOMAIN templates.proposals :
      LET p == templates.proposals[i] IN
      p.type \in templates.registered /\ (p.value = 0 => p.type = "UpdateFee") /\ (p.type = "UpdateFee" => p.value <= 10000)

-----------------------------------------------------------------------------
(* The forum. *)

BestAnswer == 50            \* reputation that a best answer earns
ReputationThreshold == 10   \* DEFAULT_REPUTATION_THRESHOLD
ModerationThreshold == 3    \* DEFAULT_MODERATION_THRESHOLD
DefaultCategories == 5

\* Histories: what was refunded, how often a user's reply was marked best, and the calls, for the bound.
ForumInit ==
    forum = [posts |-> << >>, reply |-> NothingStored, category |-> [c \in 1..DefaultCategories |-> 0],
             voted |-> {}, reputation |-> [u \in Posters |-> 0], up |-> [u \in Posters |-> 0],
             down |-> [u \in Posters |-> 0], active |-> 0, replies |-> 0, staked |-> 0, held |-> 0,
             refunded |-> 0, marked |-> [u \in Posters |-> 0], calls |-> 0]

forum_called(next) == forum.calls < MaxForumCalls /\ forum' = [next EXCEPT !.calls = @ + 1]

required_reputation(type) ==
    CASE type = "Announcement" -> ReputationThreshold * 10
      [] type = "Resource" -> ReputationThreshold * 5
      [] OTHER -> -1

create_post(u, type, c, stake) ==
    /\ Len(forum.posts) < MaxPosts /\ c \in DOMAIN forum.category
    /\ required_reputation(type) >= 0 => forum.reputation[u] >= required_reputation(type)
    /\ forum_called([forum EXCEPT
         !.posts = Append(@, [author |-> u, status |-> "Active", stake |-> stake, up |-> 0, down |-> 0,
                              replies |-> 0, category |-> c]),
         !.category[c] = @ + 1, !.active = @ + 1, !.staked = @ + stake, !.held = @ + stake])

\* Replies are numbered within their post and stored under that number alone.
create_reply(u, p, stake) ==
    LET id == forum.posts[p].replies + 1 IN
    /\ forum.posts[p].status = "Active"
    /\ forum_called([forum EXCEPT
         !.posts[p].replies = id, !.replies = @ + 1, !.staked = @ + stake, !.held = @ + stake,
         !.reply = put(@, id, [post |-> p, author |-> u, stake |-> stake, best |-> FALSE])])

vote_weight(u) == IF forum.reputation[u] > 0 THEN forum.reputation[u] ELSE 1

\* Mutant: the author loses nothing.
received_up_only(store, author, upvote, w) ==
    [store EXCEPT !.reputation[author] = IF upvote THEN @ + w ELSE @,
                  !.up[author] = @ + (IF upvote THEN w ELSE 0), !.down[author] = @ + (IF upvote THEN 0 ELSE w)]

received(store, author, upvote, w) ==
    [store EXCEPT !.reputation[author] = IF upvote THEN @ + w ELSE @ - w,
                  !.up[author] = @ + (IF upvote THEN w ELSE 0), !.down[author] = @ + (IF upvote THEN 0 ELSE w)]

\* Mutant: a hidden post is still voted on.
open_for_votes_unless_deleted(p) == forum.posts[p].status # "Deleted"

open_for_votes(p) == forum.posts[p].status = "Active"

\* Also the author's own vote counts.
vote_post(u, p, upvote) ==
    LET w == vote_weight(u)
        voted == [forum EXCEPT !.voted = @ \cup {<<"post", p, u>>},
                               !.posts[p].up = @ + (IF upvote THEN w ELSE 0), !.posts[p].down = @ + (IF upvote THEN 0 ELSE w)]
    IN  /\ open_for_votes(p) /\ <<"post", p, u>> \notin forum.voted
        /\ forum_called(received(voted, forum.posts[p].author, upvote, w))

vote_reply(u, id, upvote) ==
    /\ <<"reply", id, u>> \notin forum.voted
    /\ forum_called(received([forum EXCEPT !.voted = @ \cup {<<"reply", id, u>>}], forum.reply[id].author, upvote, vote_weight(u)))

\* The answers up to this one lose the mark; one after it keeps it. Marking again earns again.
mark_best_answer(id) ==
    LET p == forum.reply[id].post
        author == forum.reply[id].author
    IN  /\ forum.posts[p].status = "Active"
        /\ forum_called([forum EXCEPT
             !.reply = [k \in DOMAIN @ |-> IF @[k].post = p /\ k <= id THEN [@[k] EXCEPT !.best = (k = id)] ELSE @[k]],
             !.reputation[author] = @ + BestAnswer, !.marked[author] = @ + 1])

refund(store, amount) == [store EXCEPT !.held = @ - amount, !.refunded = @ + amount]

\* Half of the stake is returned each time a post is deleted, and only a post that was active is
\* taken off the count.
moderate_post(u, p, action) ==
    LET was_active == forum.posts[p].status = "Active"
        closed == [forum EXCEPT !.posts[p].status = action,
                                !.active = IF action = "Deleted" /\ was_active THEN Max({@ - 1, 0}) ELSE @]
        half == forum.posts[p].stake \div 2
    IN  /\ forum.reputation[u] >= ModerationThreshold
        /\ action = "Deleted" => forum.held >= half
        /\ forum_called(IF action = "Deleted" THEN refund(closed, half) ELSE closed)

\* Hiding a reply hides its post; deleting one leaves it in place.
moderate_reply(u, id, action) ==
    LET p == forum.reply[id].post
        half == forum.reply[id].stake \div 2
    IN  /\ forum.reputation[u] >= ModerationThreshold
        /\ action = "Deleted" => forum.held >= half
        /\ forum_called(CASE action = "Hidden" /\ forum.posts[p].status = "Active" -> [forum EXCEPT !.posts[p].status = "Hidden"]
                          [] action = "Deleted" -> refund(forum, half)
                          [] OTHER -> forum)

create_category == forum_called([forum EXCEPT !.category = Append(@, 0)])

ForumNext ==
    /\ \E u \in Posters :
         \/ \E type \in {"Question", "Resource", "Announcement"}, stake \in PostStakes, c \in {1, DefaultCategories + 1} :
              create_post(u, type, c, stake)
         \/ \E p \in DOMAIN forum.posts :
              \/ \E stake \in PostStakes : create_reply(u, p, stake)
              \/ \E b \in BOOLEAN : vote_post(u, p, b)
              \/ \E action \in {"Hidden", "Locked", "Deleted"} : moderate_post(u, p, action)
         \/ \E id \in DOMAIN forum.reply :
              \/ \E b \in BOOLEAN : vote_reply(u, id, b)
              \/ mark_best_answer(id)
              \/ \E action \in {"Hidden", "Locked", "Deleted"} : moderate_reply(u, id, action)
         \/ create_category
    /\ UNCHANGED <<now, reconciliation, dashboard, treasury_analytics, renewals, reports, detector, credit, templates>>

\* Reputation is what votes and best answers gave, whichever posts they were for; the stakes are held
\* but for what was refunded; the count of active posts covers those that are; and a category's
\* count is that of its posts.
ForumBooks ==
    /\ \A u \in Posters : forum.reputation[u] = forum.up[u] - forum.down[u] + BestAnswer * forum.marked[u]
    /\ forum.held = forum.staked - forum.refunded /\ forum.held >= 0
    /\ Cardinality({p \in DOMAIN forum.posts : forum.posts[p].status = "Active"}) <= forum.active
    /\ \A c \in DOMAIN forum.category :
         forum.category[c] = Cardinality({p \in DOMAIN forum.posts : forum.posts[p].category = c})

\* A post that was hidden, locked or deleted never becomes active again, and gets neither votes nor
\* replies, also through moderation of its replies.
PostsStayClosed ==
    [][\A p \in DOMAIN forum.posts : forum.posts[p].status # "Active" =>
         /\ forum'.posts[p].status # "Active"
         /\ forum'.posts[p] = [forum.posts[p] EXCEPT !.status = forum'.posts[p].status]]_forum

MonitorsInit ==
    /\ ReconciliationInit /\ DashboardInit /\ AnalyticsInit /\ RenewalsInit /\ ReportsInit /\ DetectorInit
    /\ CreditInit /\ TemplatesInit /\ ForumInit
====
