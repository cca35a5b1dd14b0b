---- MODULE Oversight ----
(* How the contracts watch their users. Governance, the reputation contract *)
(* and the treasury turn what they observe into risk scores with the        *)
(* functions of contracts/shared, keep the verdicts, and intervene; an      *)
(* intervention is lifted by a call of its own, after a cooldown. One       *)
(* variable per concern, a record with one field per storage key. Scores    *)
(* are the code's numbers; windows of time are in ledgers.                  *)
EXTENDS Host, Integers, Sequences, FiniteSets, FiniteSetsExt, SequencesExt

CONSTANTS Cooldown,         \* restoration cooldown of every intervention
          TightWindow,      \* COORDINATION_TIGHT_WINDOW_SECS and the assessment window
          BurstWindow,      \* SOCIAL_PROOF_BURST_WINDOW_SECS and OUTCOME_BURST_WINDOW_SECS
          ReviewLogCap,     \* entries kept of a review log (10)
          Reviewers,
          Ratings,
          NetworkSplits,    \* sessions per network, as the admin reports them
          PriceMoves,       \* reported price changes: sequences of <<time, bps>>
          MaxReviews,       \* bound on reviews
          MaxConduct,       \* bound on conduct reports
          MaxProposals,     \* bound on proposed criteria
          MinGrades,        \* MIN_SESSIONS_FOR_ANALYSIS (10)
          InflationWindow,  \* INFLATION_WINDOW (20)
          MaxGrades,        \* bound on recorded grades
          MaxReports,       \* bound on the admin's market reports
          MaxWatchTime

VARIABLES market,      \* governance: market concentration and competition
          community    \* reputation: what is observed of one mentor's reviews
watch_state == <<market, community>>

WatchTick == CloseLedger(MaxWatchTime)

least(a, b) == IF a < b THEN a ELSE b
capped(x) == least(x, 100)
when(condition, points) == IF condition THEN points ELSE 0
minus(a, b) == IF a > b THEN a - b ELSE 0
between(a, b) == IF a > b THEN a - b ELSE b - a

\* Neighbouring entries of a log of times that are closer than a window.
close_pairs(log, window) == Cardinality({i \in 2 .. Len(log) : minus(log[i], log[i - 1]) < window})
\* The share of distinct authors of a log, in basis points.
distinct_bps(log, authors) == IF log = <<>> THEN 10000 ELSE (authors * 10000) \div Len(log)
\* A log that keeps its last entries.
logged(log, entry, cap) == LET l == Append(log, entry) IN IF Len(l) > cap THEN Tail(l) ELSE l

NoRecord == [intervene |-> FALSE, score |-> 0, eligible_at |-> -1]
intervention(acts, score) == [intervene |-> acts, score |-> capped(score),
                              eligible_at |-> now + when(acts, Cooldown)]
\* Mutant: an intervention can be lifted at once.
may_restore_at_once(record) == record # NoRecord
\* is_restoration_eligible and its namesakes, for a record that exists.
may_restore(record) == record # NoRecord /\ (record.intervene => now >= record.eligible_at)

-----------------------------------------------------------------------------
(* Market concentration (governance, shared/market_control_protection).     *)

\* detect_network_concentration
detect_network_concentration(counts, total) ==
    LET share(i) == (counts[i] * 10000) \div total
        hhi == MapThenSumSet(LAMBDA i : (share(i) * share(i)) \div 10000, DOMAIN counts)
        top == Max({0} \cup {share(i) : i \in DOMAIN counts})
        risk == IF total = 0 \/ counts = <<>> THEN 0
                ELSE capped((IF hhi >= 5000 THEN 60 ELSE when(hhi >= 2500, 35)) + when(top > 4000, 30)
                            + when(Len(counts) < 3, 20))
    IN  [healthy |-> risk < 65, risk |-> risk, networks |-> Len(counts)]

\* assess_competition_barriers: independent mentors of all, and signals of barriers.
assess_competition_barriers(independent, active, signals) ==
    LET ratio == (independent * 10000) \div active
        barriers == signals > 0 \/ ratio < 3000
        risk == capped(when(ratio < 3000, least((3000 - ratio) \div 100, 50))
                       + (IF signals >= 3 THEN 40 ELSE when(signals >= 1, 20)))
    IN  IF active = 0 THEN [fair |-> TRUE, barriers |-> FALSE, risk |-> 0]
        ELSE [fair |-> risk < 65 /\ ~barriers, barriers |-> barriers, risk |-> risk]

\* detect_pricing_coordination: similar moves soon after one another.
detect_pricing_coordination(moves) ==
    LET n == Cardinality({i \in 2 .. Len(moves) : /\ minus(moves[i][1], moves[i - 1][1]) <= TightWindow
                                                  /\ between(moves[i][2], moves[i - 1][2]) <= 200})
        risk == IF n >= 5 THEN 70 ELSE IF n >= 3 THEN 45 ELSE when(n >= 1, 20)
    IN  [coordinated |-> risk >= 60, risk |-> risk]

\* Mutant: a combined risk of a third already triggers.
combined_threshold_low == 20
combined_threshold == 65   \* MARKET_PROTECTION_INTERVENTION_THRESHOLD

\* compute_market_protection_intervention
compute_market_protection_intervention(m, c, f) ==
    LET combined == (m.risk + c.risk + f.risk) \div 3 IN
    intervention(~m.healthy \/ ~c.fair \/ f.coordinated \/ combined >= combined_threshold, combined)

\* analyze_market_networks and audit_market_competition
audit_market_competition(m, c, f) ==
    LET signals == when(m.risk >= 65, 1) + when(c.barriers, 1) + when(f.coordinated, 1) + when(m.networks < 3, 1)
        violations == when(~m.healthy, 1) + when(~c.fair, 1) + when(f.coordinated, 1) + when(signals >= 2, 1)
        health == 100 - (m.risk + c.risk + f.risk) \div 3
    IN  [compliant |-> violations = 0, fairness |-> minus(health, violations * 10),
         controlled |-> signals >= 2 \/ ~m.healthy]

MarketInit ==
    market = [monitoring |-> [healthy |-> TRUE, risk |-> 0, networks |-> 0], signals |-> 0, independent |-> 0,
              active |-> 0, fairness |-> [coordinated |-> FALSE, risk |-> 0], protection |-> NoRecord,
              control |-> FALSE, audit |-> [compliant |-> TRUE, fairness |-> 100, controlled |-> FALSE],
              reports |-> 0]

\* Both reports end alike: the three assessments, the record, the flag, the audit.
assessed_market(s, m, c, f) ==
    LET p == compute_market_protection_intervention(m, c, f) IN
    [s EXCEPT !.monitoring = m, !.fairness = f, !.protection = p, !.control = @ \/ p.intervene,
              !.audit = audit_market_competition(m, c, f), !.reports = @ + 1]

regulate_market_concentration(counts, total, independent, active) ==
    /\ market.reports < MaxReports
    /\ market' = assessed_market([market EXCEPT !.independent = independent, !.active = active],
                                 detect_network_concentration(counts, total),
                                 assess_competition_barriers(independent, active, market.signals), market.fairness)

enforce_competition_policies(signals, moves) ==
    /\ market.reports < MaxReports
    /\ market' = assessed_market([market EXCEPT !.signals = signals], market.monitoring,
                                 assess_competition_barriers(market.independent, market.active, signals),
                                 detect_pricing_coordination(moves))

\* Mutant: the flag outlives the record.
released_flag_kept(s) == [s EXCEPT !.protection = NoRecord]
released_flag(s) == [s EXCEPT !.protection = NoRecord, !.control = FALSE]
restore_mkt_comp_balance ==
    /\ may_restore(market.protection)
    /\ market' = released_flag(market)

MarketNext ==
    /\ \/ WatchTick /\ UNCHANGED market
       \/ /\ \/ \E counts \in NetworkSplits, extra \in {0, 5}, part \in {<<0, 0>>, <<1, 5>>, <<3, 5>>} :
                    regulate_market_concentration(counts, FoldSeq(+, 0, counts) + extra, part[1], part[2])
             \/ \E signals \in {0, 1, 3}, moves \in PriceMoves : enforce_competition_policies(signals, moves)
             \/ restore_mkt_comp_balance
          /\ UNCHANGED now
    /\ UNCHANGED community

\* A market that passes its audit is left alone, and one that is left alone has no
\* concentration, barrier or coordination on record: the audit and the intervention are
\* computed from the same observations by different rules.
CompliantIsLeftAlone ==
    LET s == market IN
    s.protection # NoRecord => (s.audit.compliant <=> ~s.protection.intervene) \/ s.audit.controlled

\* While market control is switched on there is a record that says until when.
ControlIsRecorded == market.control => market.protection # NoRecord

-----------------------------------------------------------------------------
(* The community of a mentor (reputation, shared/community_protection).     *)

\* detect_coordination: of the interactions of one pair.
detect_coordination(log) ==
    LET risk == when(Len(log) >= 3, 30) + when(close_pairs(log, TightWindow) >= 2, 40) + when(Len(log) >= 6, 20) IN
    [suspicious |-> risk >= 60, risk |-> risk]

\* Few distinct authors, and bursts.
gaming_risk(log, authors, share) ==
    LET bursts == close_pairs(log, BurstWindow) IN
    when(distinct_bps(log, authors) < share, 50) + (IF bursts >= 3 THEN 40 ELSE when(bursts >= 1, 15))
\* verify_social_proof
verify_social_proof(log, authors) ==
    LET risk == gaming_risk(log, authors, 4000) IN [genuine |-> risk < 60, risk |-> risk]
\* authenticate_learning_outcomes
authenticate_learning_outcomes(log, authors) ==
    LET risk == gaming_risk(log, authors, 3000) IN [genuine |-> risk < 60, risk |-> risk]

\* analyze_review_pattern; the latest review is always less than a minute old.
analyze_review_pattern(ratings) ==
    LET n == Len(ratings)
        perfect == Cardinality({i \in 1 .. n : ratings[i] >= 5})
    IN  IF n < 3 THEN 0 ELSE capped(35 + when(n >= 5, 25) + when(perfect * 100 >= n * 80, 40))

\* assess_review_quality, for a review of a released session.
assess_review_quality(coordination, social, rating) ==
    coordination.risk \div 2 + social.risk \div 2 + when(rating <= 2 /\ coordination.risk > 0, 25)

\* compute_community_intervention; the network is always taken to be authentic.
compute_community_intervention(coordination, social) ==
    intervention(coordination.risk >= 70 \/ social.risk >= 70, (coordination.risk + social.risk) \div 2)

\* Mutant: a session of good quality does not end a series of bad ones.
low_streak_kept(streak, low) == IF low THEN streak + 1 ELSE streak
low_streak(streak, low) == IF low THEN streak + 1 ELSE 0

\* detect_predatory_behavior
detect_predatory_behavior(streak, complaints, sessions, price_bps) ==
    LET low == streak >= 3
        complained == sessions > 0 /\ (complaints * 10000) \div sessions >= 3000
        priced == price_bps > 5000
        risk == capped(when(low, 35) + when(complained, 30) + when(priced, 25) + when(low /\ complained /\ priced, 15))
    IN  [predatory |-> risk >= 65, risk |-> risk, low |-> low, complained |-> complained, priced |-> priced]

\* assess_vulnerability
assess_vulnerability(sessions, price, average) ==
    LET recurrent == sessions >= 4
        burdened == average > 0 /\ price > 0 /\ price > average + average \div 2
        risk == capped(when(sessions >= 5, 25) + when(recurrent, 40) + when(burdened, 35))
    IN  [at_risk |-> risk >= 60, risk |-> risk, recurrent |-> recurrent, burdened |-> burdened]
NotVulnerable == assess_vulnerability(0, 0, 0)
NoBehavior == detect_predatory_behavior(0, 0, 0, 0)

\* identify_exploitation_patterns: how many there are.
exploitation_patterns(v, b) ==
    when(v.recurrent /\ b.predatory, 1) + when(v.burdened /\ b.priced, 1) + when(b.low /\ v.at_risk, 1)
      + when(b.complained /\ v.recurrent, 1)

\* Mutant: one pattern is enough for a suspension.
emergency_patterns_one == 1
emergency_patterns == 2   \* EMERGENCY_PATTERN_THRESHOLD

\* compute_welfare_status and compute_learner_protection_intervention
learner_protection(v, b, patterns) ==
    LET welfare == capped(v.risk + 15 * patterns)
        record == intervention(b.predatory \/ (v.at_risk /\ welfare >= 60), (v.risk + b.risk + welfare) \div 3)
    IN  [record |-> record, emergency |-> b.predatory /\ v.at_risk /\ patterns >= emergency_patterns]
NoProtection == [record |-> NoRecord, emergency |-> FALSE]

CommunityInit ==
    community = [times |-> <<>>, ratings |-> <<>>, pairs |-> [l \in Reviewers |-> <<>>], seen |-> {},
                 sum |-> 0, count |-> 0, reviews |-> 0,
                 coordination |-> detect_coordination(<<>>), social |-> verify_social_proof(<<>>, 0),
                 intervention |-> NoRecord, outcome |-> authenticate_learning_outcomes(<<>>, 0), baseline |-> -1,
                 metric |-> [gaming |-> FALSE, risk |-> 0], proposals |-> <<>>, proposers |-> {},
                 criteria |-> [objective |-> TRUE, risk |-> 0], outcomes |-> NoRecord, streak |-> 0, complaints |-> 0,
                 behavior |-> NoBehavior, patterns |-> 0, protection |-> NoProtection,
                 penalty |-> 0, rehabilitated |-> FALSE, grades |-> <<>>,
                 conduct |-> <<>>, slashed |-> FALSE,   \* history: the reports, low or not; any slash
                 by |-> [l \in Reviewers |-> 0]]       \* history: reviews by each learner

\* track_mentor_conduct
with_conduct(s, low, complaint, price_bps) ==
    LET streak == low_streak(s.streak, low)
        complaints == s.complaints + when(complaint, 1)
    IN  [s EXCEPT !.streak = streak, !.complaints = complaints, !.conduct = Append(@, low),
                  !.behavior = detect_predatory_behavior(streak, complaints, s.count, price_bps)]

\* Mutant: the interactions of all learners count as those of one pair.
pair_log_of_all(s, l) == logged(s.times, now, ReviewLogCap)
pair_log(s, l) == logged(s.pairs[l], now, ReviewLogCap)

\* submit_review, of a released session that has none yet.
submit_review(l, rating) ==
    LET s == [community EXCEPT !.times = logged(@, now, ReviewLogCap), !.ratings = logged(@, rating, ReviewLogCap),
                               !.pairs[l] = pair_log(community, l), !.seen = @ \cup {l}, !.reviews = @ + 1,
                               !.by[l] = @ + 1]
        coordination == detect_coordination(s.pairs[l])
        social == verify_social_proof(s.times, Cardinality(s.seen))
        investigate == \/ analyze_review_pattern(s.ratings) >= 60 \/ coordination.suspicious \/ ~social.genuine
                       \/ assess_review_quality(coordination, social, rating) >= 60
        noted == [s EXCEPT !.coordination = coordination, !.social = social,
                           !.outcome = authenticate_learning_outcomes(s.times, Cardinality(s.seen))]
    IN  /\ community.reviews < MaxReviews
        /\ investigate => Len(community.conduct) < MaxConduct
        /\ community' = [(IF investigate THEN with_conduct(noted, rating <= 2, FALSE, 0) ELSE noted)
                           EXCEPT !.sum = @ + rating, !.count = @ + 1]

\* Anyone may have a pair looked at again.
validate_community_interactions(l) ==
    community' = [community EXCEPT !.coordination = detect_coordination(community.pairs[l])]

\* Asking for the status computes and stores it.
get_community_status ==
    community' = [community EXCEPT !.intervention = compute_community_intervention(community.coordination, community.social)]

\* Only the coordination is forgotten with the intervention.
restore_fair_participation ==
    /\ may_restore(community.intervention)
    /\ community' = [community EXCEPT !.intervention = NoRecord, !.coordination = detect_coordination(<<>>)]

\* get_mentor_rating: the average in hundredths, less the penalty.
raw_average(s) == IF s.count = 0 THEN 0 ELSE (s.sum * 100) \div s.count
\* Mutant: a penalty of more than everything is not cut off.
less_penalty_unlimited(average, bps) == (average * (10000 - bps)) \div 10000
less_penalty(average, bps) == IF bps >= 10000 THEN 0 ELSE (average * (10000 - bps)) \div 10000
get_mentor_rating(s) == less_penalty(raw_average(s), IF s.rehabilitated THEN s.penalty \div 2 ELSE s.penalty)

-----------------------------------------------------------------------------
(* Outcomes (reputation, shared/outcome_authenticity).                      *)

set_outcome_baseline(bps) ==
    community' = [community EXCEPT !.baseline = least(bps, 10000)]

\* Mutant: without a baseline everything is a deviation.
baseline_of_zero(s, reported) == IF s.baseline = -1 THEN 0 ELSE s.baseline
baseline_of(s, reported) == IF s.baseline = -1 THEN reported ELSE s.baseline
\* protect_success_metrics
protect_success_metrics ==
    LET reported == least(get_mentor_rating(community) * 20, 10000)
        baseline == baseline_of(community, reported)
        deviation == IF baseline = 0 THEN when(reported > 0, 10000)
                     ELSE (between(reported, baseline) * 10000) \div baseline
    IN  community' = [community EXCEPT !.metric = [gaming |-> deviation >= 2500, risk |-> capped(deviation \div 100)]]

record_assessment_proposal(p) ==
    /\ Len(community.proposals) < MaxProposals
    /\ community' = [community EXCEPT !.proposals = logged(@, now, 2 * ReviewLogCap), !.proposers = @ \cup {p}]

\* validate_assessment_criteria
validate_assessment_criteria ==
    LET log == community.proposals
        close == close_pairs(log, TightWindow)
        risk == (IF close >= 2 THEN 45 ELSE when(close >= 1, 20))
                  + when(Len(log) >= 2 /\ Cardinality(community.proposers) <= 1, 35)
    IN  community' = [community EXCEPT !.criteria = [objective |-> risk < 60, risk |-> risk]]

\* get_outcome_status
get_outcome_status ==
    LET o == community.outcome  m == community.metric  c == community.criteria IN
    community' = [community EXCEPT !.outcomes = intervention(~o.genuine \/ m.gaming \/ ~c.objective,
                                                             (o.risk + m.risk + c.risk) \div 3)]

restore_authentic_outcomes ==
    /\ may_restore(community.outcomes)
    /\ community' = [community EXCEPT !.outcomes = NoRecord, !.outcome = authenticate_learning_outcomes(<<>>, 0)]

-----------------------------------------------------------------------------
(* Conduct of the mentor towards learners (shared/learner_protection).      *)

\* track_mentor_conduct by itself; a dispute of a review reports a complaint in the same way.
track_mentor_conduct(low, complaint, price_bps) ==
    /\ Len(community.conduct) < MaxConduct
    /\ community' = with_conduct(community, low, complaint, price_bps)

identify_exploitation_patterns(v) ==
    community' = [community EXCEPT !.patterns = exploitation_patterns(v, community.behavior)]

\* The patterns are those of the last identification, whatever the conduct has been since.
track_learner_welfare(v) ==
    community' = [community EXCEPT !.protection = learner_protection(v, community.behavior, community.patterns)]

restore_learner_protection ==
    /\ may_restore(community.protection.record)
    /\ community' = [community EXCEPT !.protection = NoProtection, !.behavior = NoBehavior]

-----------------------------------------------------------------------------
(* Ratings and grades (reputation, shared/grade_inflation).                 *)

\* apply_slash_penalty overwrites whatever penalty there was.
apply_slash_penalty(slashes) ==
    community' = [community EXCEPT
      !.penalty = IF slashes <= 3 THEN <<0, 500, 1500, 3000>>[slashes + 1] ELSE slashes * 1500,
      !.rehabilitated = FALSE, !.slashed = TRUE]

rehabilitate_mentor == community' = [community EXCEPT !.rehabilitated = TRUE]

\* Mutant: the grades are not compared with their mean.
deviation_from_mean_none(y, mean) == y
deviation_from_mean(y, mean) == y - mean
\* detect_grade_inflation: the slope of the latest grades, rising or falling.
inflation_rate(grades) ==
    LET n == Len(grades)
        x_mean == ((n * (n - 1)) \div 2) \div n
        y_mean == FoldSeq(+, 0, grades) \div n
        numerator == MapThenSumSet(LAMBDA i : (i - 1 - x_mean) * deviation_from_mean(grades[i], y_mean), 1 .. n)
        denominator == MapThenSumSet(LAMBDA i : (i - 1 - x_mean) * (i - 1 - x_mean), 1 .. n)
    IN  (between(numerator, 0) * 100) \div denominator

\* apply_inflation_adjustment: what the detection adds to the penalty.
adjustment_bps(rate) == IF rate > 50 THEN least((rate * 200) \div 50, 2000) ELSE 0

record_grade_for_analysis(grade) ==
    LET grades == Append(community.grades, grade)
        recent == SubSeq(grades, minus(Len(grades), InflationWindow) + 1, Len(grades))
        bps == IF Len(grades) < MinGrades THEN 0 ELSE adjustment_bps(inflation_rate(recent))
    IN  /\ Len(community.grades) < MaxGrades
        /\ community' = [community EXCEPT !.grades = grades,
                           !.penalty = IF bps > 0 THEN least(@ + bps, 10000) ELSE @]

\* update_mentor_rating: a rating without a review, of any size.
update_mentor_rating(rating) ==
    /\ community.count < MaxReviews
    /\ community' = [community EXCEPT !.sum = @ + rating, !.count = @ + 1]

-----------------------------------------------------------------------------
InCommunity(step) == ((WatchTick /\ UNCHANGED community) \/ (step /\ UNCHANGED now)) /\ UNCHANGED market

CommunityNext == InCommunity(
    \/ \E l \in Reviewers : submit_review(l, 4) \/ validate_community_interactions(l)
    \/ get_community_status \/ restore_fair_participation)

OutcomesNext == InCommunity(
    \/ \E l \in Reviewers : record_assessment_proposal(l)
    \/ submit_review(CHOOSE l \in Reviewers : TRUE, 4)
    \/ validate_assessment_criteria \/ get_outcome_status \/ restore_authentic_outcomes)

BaselineNext == InCommunity(
    \/ \E r \in Ratings : update_mentor_rating(r)
    \/ \E bps \in {0, 4000, 12000} : set_outcome_baseline(bps)
    \/ protect_success_metrics \/ get_outcome_status \/ restore_authentic_outcomes)

Vulnerabilities == {assess_vulnerability(4, 200, 100), assess_vulnerability(5, 100, 100)}
ConductNext == InCommunity(
    \/ community.conduct = <<>> /\ update_mentor_rating(1)   \* the ratings come first here
    \/ \E c \in {<<FALSE, FALSE, 0>>, <<TRUE, FALSE, 0>>, <<TRUE, TRUE, 6000>>} :
           track_mentor_conduct(c[1], c[2], c[3])
    \/ \E v \in Vulnerabilities : identify_exploitation_patterns(v) \/ track_learner_welfare(v)
    \/ restore_learner_protection)

RatingsNext == InCommunity(
    \/ \E r \in Ratings : update_mentor_rating(r)
    \/ \E n \in {1, 7} : apply_slash_penalty(n)
    \/ rehabilitate_mentor
    \/ \E grade \in {80, 82} : record_grade_for_analysis(grade))

\* A mentor is suspected of coordination only over interactions with one learner: at least
\* three reviews of theirs, however busy the mentor is with others, and whichever pair was
\* looked at last.
SuspicionHasAPair == community.coordination.suspicious => \E l \in Reviewers : community.by[l] >= 3

\* Gaming of a metric is measured against a baseline: as long as none was set, no change of the
\* rating, up or down, is taken for it.
GamingNeedsABaseline == community.metric.gaming => community.baseline # -1

\* A mentor on record as predatory had a complaint, and the last three reports of their
\* conduct were all of low quality.
PredatoryIsASeries ==
    LET s == community  n == Len(s.conduct) IN
    s.behavior.predatory => n >= 3 /\ s.complaints > 0 /\ \A i \in n - 2 .. n : s.conduct[i]

\* An emergency suspension is grave by the combined score too: three quarters of the scale.
SuspensionIsGrave == community.protection.emergency => community.protection.record.score >= 75

\* A penalty lowers the rating and never below zero, whether the mentor was rehabilitated or not.
PenaltyOnlyLowers == get_mentor_rating(community) \in 0 .. raw_average(community)

\* Grades that never vary bring no penalty, in whatever number.
SteadyGradesAreFree ==
    (Cardinality({community.grades[i] : i \in DOMAIN community.grades}) <= 1 /\ ~community.slashed)
      => community.penalty = 0

\* An intervention on record is lifted only once it is as old as the cooldown, counted from the
\* last assessment that confirmed it.
Lifted(old, new) == old.intervene /\ new = NoRecord
ProtectionWaits ==
    [][/\ Lifted(market.protection, market'.protection) => now >= market.protection.eligible_at
       /\ Lifted(community.intervention, community'.intervention) => now >= community.intervention.eligible_at
       /\ Lifted(community.outcomes, community'.outcomes) => now >= community.outcomes.eligible_at
       /\ Lifted(community.protection.record, community'.protection.record)
            => now >= community.protection.record.eligible_at]_watch_state
====
