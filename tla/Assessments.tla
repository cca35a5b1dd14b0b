---- MODULE Assessments ----
(* The records with which contracts/shared assesses data access,           *)
(* certifications, learning paths, competencies, emergencies, benchmarks   *)
(* and networks (data_protection, certification_integrity,                 *)
(* learning_path_protection, competency_validation,                        *)
(* emergency_response_protection, benchmark_integrity,                     *)
(* network_authenticity). A record is created by new(..) and changed by    *)
(* the methods of its type, in any order; each operator below gives the    *)
(* records that one call of a method can leave. Names, addresses and       *)
(* times, which no method reads, are left out.                             *)
EXTENDS Host, Integers, FiniteSets, FiniteSetsExt, TLC

CONSTANTS
    Scores,         \* scores and percentages that callers report
    Levels,         \* levels, sizes and depths that they report
    MaxReported     \* calls of one record

VARIABLE assessed   \* a record, its type in the field kind, and reported, the number of calls so far

\* Mutant: a sum is not limited.
more_unlimited(x, n) == x + n

\* u32::min(100, x + n)
more(x, n) == Min({100, x + n})

\* Mutant: the subtraction does not stop at zero.
less_below_zero(x, n) == x - n

\* x.saturating_sub(n)
less(x, n) == Max({0, x - n})

new(kind, fields) == [kind |-> kind, reported |-> 0] @@ fields

-----------------------------------------------------------------------------
(* data_protection *)

NewDataAccessMonitoring == {new("DataAccessMonitoring",
    [queries |-> 0, indicators |-> 0, risk |-> 0, patterns |-> 0, extraction |-> FALSE, level |-> 0])}

risk_level_of(risk) == CASE risk > 75 -> 3 [] risk > 50 -> 2 [] risk > 25 -> 1 [] OTHER -> 0

\* update_risk_level goes by the score alone and may lower the level that an extraction set.
DataAccessMonitoring(r) ==
    LET patterned == [r EXCEPT !.patterns = @ + 1, !.risk = IF r.patterns > 0 THEN more(@, 20) ELSE @]
        indicated == [r EXCEPT !.indicators = @ + 1]
    IN  { [r EXCEPT !.queries = @ + 1],
          IF indicated.indicators > 2
            THEN [indicated EXCEPT !.extraction = TRUE, !.risk = more(@, 30), !.level = 3] ELSE indicated,
          patterned,
          [r EXCEPT !.level = risk_level_of(r.risk)] }

NewQueryPatternAnalysis == {new("QueryPatternAnalysis",
    [suspicion |-> 0, volume |-> 0, baseline |-> b, anomaly |-> 0, suspicious |-> FALSE, block |-> FALSE]) : b \in {0, 10}}

QueryPatternAnalysis(r) ==
    LET ratio(v) == IF r.baseline > 0 THEN (v * 100) \div r.baseline ELSE 0
        for_volume(v) == CASE ratio(v) > 300 -> 40 [] ratio(v) > 200 -> 25 [] ratio(v) > 150 -> 15 [] OTHER -> 0
        for_anomaly(a) == CASE a > 75 -> 30 [] a > 50 -> 20 [] OTHER -> 0
    IN  {[r EXCEPT !.volume = v, !.suspicion = more(@, for_volume(v)), !.block = @ \/ ratio(v) > 300] : v \in Scores}
        \cup {[r EXCEPT !.anomaly = a, !.suspicion = more(@, for_anomaly(a)), !.block = @ \/ a > 75] : a \in Scores}
        \cup {[r EXCEPT !.suspicious = r.suspicion > 60, !.block = @ \/ r.suspicion > 80]}

NewIPProtection == {new("IPProtection",
    [theft |-> 50, attempts |-> 0, level |-> 1, is_protected |-> FALSE, safeguards |-> 0])}

IPProtection(r) ==
    { [r EXCEPT !.attempts = @ + 1, !.theft = more(@, 15), !.level = IF r.attempts + 1 > 2 THEN 3 ELSE @],
      IF r.safeguards + 1 > 2
        THEN [r EXCEPT !.safeguards = @ + 1, !.is_protected = TRUE, !.theft = less(@, 10)]
        ELSE [r EXCEPT !.safeguards = @ + 1] }
    \cup {[r EXCEPT !.level = l, !.is_protected = l > 1] : l \in Levels}

NewCompetitiveProtection == {new("CompetitiveProtection",
    [sensitivity |-> s, anonymization |-> 50, indicators |-> 0, viewers |-> 0, attempts |-> 0, status |-> 1,
     is_protected |-> s > 1]) : s \in Levels}

CompetitiveProtection(r) ==
    {[r EXCEPT !.anonymization = more(@, i), !.is_protected = @ \/ more(r.anonymization, i) > 80] : i \in Scores}
    \cup { IF r.indicators + 1 > 1 THEN [r EXCEPT !.indicators = @ + 1, !.status = 2, !.is_protected = TRUE]
           ELSE [r EXCEPT !.indicators = @ + 1],
           [r EXCEPT !.attempts = @ + 1, !.status = IF r.attempts + 1 > 2 THEN 2 ELSE @],
           [r EXCEPT !.viewers = @ + 1] }

NewDataAudit == {new("DataAudit",
    [events |-> 0, authorized |-> 0, unauthorized |-> 0, incidents |-> 0, severity |-> 0, action |-> 0])}

\* complete_audit of each of the audits.
completed(r) == {[r EXCEPT !.severity = l, !.action = l] : l \in Levels}

DataAudit(r) ==
    { [r EXCEPT !.events = @ + 1, !.authorized = @ + 1],
      [r EXCEPT !.events = @ + 1, !.unauthorized = @ + 1],
      [r EXCEPT !.incidents = @ + 1] } \cup completed(r)

NewEmergencyDataProtection == {new("EmergencyDataProtection",
    [status |-> 0, restrictions |-> 0, isolated |-> 0, measures |-> 0, prevented |-> FALSE])}

EmergencyDataProtection(r) ==
    { [r EXCEPT !.restrictions = @ + 1, !.status = 1],
      [r EXCEPT !.isolated = @ + 1, !.status = 2],
      [r EXCEPT !.measures = @ + 1, !.prevented = @ \/ r.measures + 1 > 2],
      [r EXCEPT !.status = 3] }

-----------------------------------------------------------------------------
(* certification_integrity *)

NewCertificationValidation == {new("CertificationValidation",
    [rigor |-> s, mill_risk |-> 0, certified |-> 0, pass_rate |-> 0, standard |-> 50, rigorous |-> s > 75, level |-> 0]) :
      s \in Scores}

\* A pass rate within the standard leaves an earlier risk as it is.
CertificationValidation(r) ==
    LET rate(c, p) == IF c > 0 THEN (p * 100) \div c ELSE 0
        over(c, p) == rate(c, p) - r.standard
        deviation_level(d) == CASE d > 30 -> 3 [] d > 20 -> 2 [] d > 10 -> 1 [] OTHER -> 0
    IN  {IF over(c, p) > 0
           THEN [r EXCEPT !.certified = c, !.pass_rate = rate(c, p), !.mill_risk = more(2 * over(c, p), 20),
                          !.level = deviation_level(over(c, p))]
           ELSE [r EXCEPT !.certified = c, !.pass_rate = rate(c, p)] : c \in {0, 100}, p \in Scores}
        \cup {[r EXCEPT !.rigor = s, !.rigorous = s > 75, !.mill_risk = IF s < 50 THEN more(@, 30) ELSE @] : s \in Scores}

NewCredentialAuthenticity == {new("CredentialAuthenticity",
    [source |-> 50, inflation |-> 50, evidence |-> 0, issuers |-> 0, suspicious |-> 0, authentic |-> FALSE,
     inflated |-> FALSE])}

\* Mutant: evidence from one source is enough.
is_authentic_soon(r) == r.source > 55 /\ r.inflation < 30 /\ ~r.inflated

is_authentic(r) == r.source > 75 /\ r.inflation < 30 /\ ~r.inflated

\* finalize_authentication is the last of them; what is flagged after it leaves its verdict as it is.
CredentialAuthenticity(r) ==
    { [r EXCEPT !.evidence = @ + 1, !.source = more(@, 10)],
      [r EXCEPT !.issuers = @ + 1, !.inflation = less(@, 10)],
      [r EXCEPT !.suspicious = @ + 1, !.inflation = more(@, 20), !.inflated = TRUE],
      [r EXCEPT !.authentic = is_authentic(r)] }

NewQualityAssurance == {new("QualityAssurance",
    [standardization |-> 50, consistency |-> 50, compliance |-> 50, reviewed |-> 0, failed |-> 0, maintained |-> FALSE])}

compliance_pct(reviewed, failed) == ((reviewed - failed) * 100) \div reviewed

QualityAssurance(r) ==
    { [r EXCEPT !.reviewed = @ + 1, !.compliance = compliance_pct(r.reviewed + 1, r.failed)],
      [r EXCEPT !.reviewed = @ + 1, !.failed = @ + 1, !.compliance = compliance_pct(r.reviewed + 1, r.failed + 1)],
      [r EXCEPT !.maintained = r.standardization > 75 /\ r.consistency > 75 /\ r.compliance > 80] }
    \cup {[r EXCEPT !.standardization = s] : s \in Scores} \cup {[r EXCEPT !.consistency = s] : s \in Scores}

NewMentorNetworkAnalysis == {new("MentorNetworkAnalysis",
    [group |-> 0, indicators |-> 0, coordination |-> 0, patterns |-> 0, sharing |-> 0, suspected |-> FALSE,
     detected |-> FALSE])}

MentorNetworkAnalysis(r) ==
    { IF r.indicators + 1 > 2 THEN [r EXCEPT !.indicators = @ + 1, !.suspected = TRUE, !.coordination = more(@, 25)]
      ELSE [r EXCEPT !.indicators = @ + 1],
      [r EXCEPT !.patterns = @ + 1, !.suspected = @ \/ r.patterns + 1 > 1],
      [r EXCEPT !.sharing = @ + 1, !.detected = TRUE, !.coordination = more(@, 30)] }
    \cup {[r EXCEPT !.group = l] : l \in Levels}

NewCertificationAudit == {new("CertificationAudit",
    [score |-> 50, minor |-> 0, major |-> 0, under_review |-> 0, severity |-> 0, action |-> 0])}

CertificationAudit(r) ==
    { [r EXCEPT !.minor = @ + 1, !.score = less(@, 5)],
      [r EXCEPT !.major = @ + 1, !.score = less(@, 10)],
      [r EXCEPT !.under_review = @ + 1] } \cup completed(r)

NewCertificationProtection == {new("CertificationProtection",
    [status |-> 0, under_review |-> 0, revoked |-> 0, preserved |-> 0])}

CertificationProtection(r) ==
    {[r EXCEPT !.status = s] : s \in 1..4}
    \cup {[r EXCEPT !.under_review = @ + 1], [r EXCEPT !.revoked = @ + 1], [r EXCEPT !.preserved = @ + 1]}

-----------------------------------------------------------------------------
(* learning_path_protection *)

complexity_level(c) == CASE c < 25 -> 0 [] c < 50 -> 1 [] c < 75 -> 2 [] OTHER -> 3

NewLearningPathOptimization == {new("LearningPathOptimization",
    [efficiency |-> e, complexity |-> c, sessions |-> 0, optimal |-> 0, average |-> 50,
     validated |-> e > 70 /\ c < 30, level |-> complexity_level(c)]) : e \in Scores, c \in Scores}

\* The verdict of new(..) stays when more sessions than needed raise the complexity.
LearningPathOptimization(r) ==
    {[r EXCEPT !.sessions = a, !.optimal = o,
               !.complexity = IF a > o THEN more(@, ((a - o) * 100) \div Max({o, 1})) ELSE @] : a \in Levels, o \in Levels}
    \cup {[r EXCEPT !.average = s, !.level = IF s > 75 THEN 3 ELSE @] : s \in Scores}

NewDependencyAnalysis == {new("DependencyAnalysis",
    [total |-> 0, artificial |-> 0, legitimate |-> 0, risk |-> 0, all_legitimate |-> TRUE, depth |-> 0])}

DependencyAnalysis(r) ==
    { [r EXCEPT !.legitimate = @ + 1, !.total = @ + 1],
      [r EXCEPT !.artificial = @ + 1, !.total = @ + 1, !.all_legitimate = FALSE, !.risk = more(@, 20)] }
    \cup {[r EXCEPT !.depth = d, !.risk = IF d > 5 THEN more(@, 15) ELSE @] : d \in Levels}

NewLearnerMobilityProtection == {new("LearnerMobilityProtection",
    [alternatives |-> 0, portability |-> 100, restricted |-> FALSE, skills |-> 0, dependencies |-> 0, enabled |-> TRUE])}

LearnerMobilityProtection(r) ==
    { [r EXCEPT !.alternatives = @ + 1],
      [r EXCEPT !.restricted = TRUE, !.portability = less(@, 25), !.enabled = FALSE],
      [r EXCEPT !.skills = @ + 1], [r EXCEPT !.dependencies = @ + 1] }

NewOutcomeValidation == {new("OutcomeValidation",
    [effectiveness |-> e, expected |-> 80, actual |-> 0, efficiency |-> 50, gains |-> 0, time |-> 50, optimize |-> FALSE]) :
      e \in Scores}

OutcomeValidation(r) ==
    {[r EXCEPT !.actual = s, !.optimize = @ \/ s < r.expected] : s \in Scores}
    \cup {[r EXCEPT !.gains = s] : s \in Scores}
    \cup {[r EXCEPT !.time = s, !.efficiency = (r.effectiveness + s) \div 2] : s \in Scores}
    \cup {[r EXCEPT !.optimize = less(r.expected, r.actual) > 15 \/ r.efficiency < 60]}

NewPathMonitoring == {new("PathMonitoring",
    [additions |-> 0, unnecessary |-> 0, switching |-> 0, severity |-> 0, identified |-> FALSE])}

raised_to_3(severity) == Min({3, severity + 1})

\* A prevented switch sets the severity to 2, from 3 as well.
PathMonitoring(r) ==
    { IF r.additions + 1 > 2
        THEN [r EXCEPT !.additions = @ + 1, !.identified = TRUE, !.severity = raised_to_3(@)]
        ELSE [r EXCEPT !.additions = @ + 1],
      [r EXCEPT !.unnecessary = @ + 1, !.severity = IF r.unnecessary + 1 > 3 THEN raised_to_3(@) ELSE @],
      [r EXCEPT !.switching = @ + 1, !.identified = TRUE, !.severity = 2],
      [r EXCEPT !.severity = IF r.additions + r.unnecessary + r.switching > 5 THEN 3 ELSE @] }

NewEmergencyPathCorrection == {new("EmergencyPathCorrection",
    [dependencies |-> 0, sessions |-> 0, status |-> 0, preservation |-> 100, learner_protected |-> TRUE])}

EmergencyPathCorrection(r) ==
    { [r EXCEPT !.dependencies = @ + 1], [r EXCEPT !.sessions = @ + 1],
      [r EXCEPT !.status = 1], [r EXCEPT !.status = 2] }
    \cup {[r EXCEPT !.preservation = s, !.learner_protected = @ /\ s >= 80] : s \in Scores}

-----------------------------------------------------------------------------
(* competency_validation *)

NewCompetencyValidation == {new("CompetencyValidation",
    [mapping |-> m, fraud |-> f, skills |-> 0, claims |-> 0, verdict |-> m > 70 /\ f < 30]) : m \in Scores, f \in Scores}

\* A new fraud score takes back what a suspicious claim did to the verdict.
CompetencyValidation(r) ==
    { [r EXCEPT !.skills = @ + 1], [r EXCEPT !.claims = @ + 1, !.verdict = FALSE] }
    \cup {[r EXCEPT !.fraud = s, !.verdict = r.mapping > 70 /\ s < 30] : s \in Scores}

NewTransferAssessment == {new("TransferAssessment",
    [legitimacy |-> 50, risk |-> 50, met |-> 0, approval |-> 0, legitimate |-> FALSE])}

\* Mutant: four criteria of five are enough.
update_legitimacy_four(r) ==
    LET pct == (r.met * 100) \div 5
    IN  [r EXCEPT !.legitimacy = pct, !.legitimate = pct >= 80 /\ r.risk < 30]

update_legitimacy(r) ==
    LET pct == (r.met * 100) \div 5
    IN  [r EXCEPT !.legitimacy = pct, !.legitimate = pct > 80 /\ r.risk < 30]

\* An approval or a rejection stands only until the next criterion or risk is entered.
TransferAssessment(r) ==
    { update_legitimacy([r EXCEPT !.met = IF @ < 5 THEN @ + 1 ELSE @]),
      [r EXCEPT !.approval = 1, !.legitimate = TRUE],
      [r EXCEPT !.approval = 2, !.legitimate = FALSE] }
    \cup {update_legitimacy([r EXCEPT !.risk = s]) : s \in Scores}

NewSkillIntegrity == {new("SkillIntegrity", [resistance |-> 100, attempts |-> 0, failed |-> 0, maintained |-> TRUE])}

SkillIntegrity(r) ==
    { [r EXCEPT !.attempts = @ + 1],
      [r EXCEPT !.attempts = @ + 1, !.failed = @ + 1, !.resistance = less(@, 10), !.maintained = @ /\ r.failed + 1 <= 3] }
    \cup {[r EXCEPT !.resistance = Min({100, s})] : s \in Scores}

NewDomainMonitoring == {new("DomainMonitoring",
    [transfers |-> 0, indicators |-> 0, pattern |-> 0, confidence |-> 0, suspected |-> FALSE])}

DomainMonitoring(r) ==
    LET indicated == [r EXCEPT !.indicators = @ + 1, !.confidence = more(@, 10)]
    IN  { [r EXCEPT !.transfers = @ + 1],
          [indicated EXCEPT !.suspected = @ \/ indicated.indicators > 3 \/ indicated.confidence > 75] }
        \cup {IF l > 0 THEN [r EXCEPT !.pattern = l, !.suspected = TRUE, !.confidence = more(@, 20)]
              ELSE [r EXCEPT !.pattern = l] : l \in Levels}

NewCompetencyAudit == {new("CompetencyAudit",
    [score |-> 50, indicators |-> 0, skills |-> 0, questionable |-> 0, severity |-> 0, action |-> 0])}

CompetencyAudit(r) ==
    { [r EXCEPT !.skills = @ + 1, !.score = more(@, 5)],
      [r EXCEPT !.questionable = @ + 1, !.score = less(@, 10), !.indicators = @ + 1] } \cup completed(r)

NewSkillProtection == {new("SkillProtection", [status |-> 0, progress |-> 0, restored |-> FALSE])}

\* update_restoration_progress of the protections: 100 and more restores.
restored_to(r, s) ==
    IF s >= 100 THEN [r EXCEPT !.progress = 100, !.restored = TRUE, !.status = 3] ELSE [r EXCEPT !.progress = s]

SkillProtection(r) ==
    {restored_to(r, s) : s \in Scores \cup {100}} \cup {[r EXCEPT !.status = l] : l \in Levels}
    \cup {[r EXCEPT !.status = 3]}

-----------------------------------------------------------------------------
(* emergency_response_protection *)

NewEmergencyAuthenticity == {new("EmergencyAuthenticity",
    [validation |-> v, risk |-> f, sources |-> 0, verdict |-> v > 75 /\ f < 25, confidence |-> 50]) :
      v \in Scores, f \in Scores}

EmergencyAuthenticity(r) ==
    {[r EXCEPT !.sources = @ + 1, !.confidence = IF r.sources + 1 > 2 THEN less(@, 10) ELSE @]}
    \cup {[r EXCEPT !.validation = s, !.verdict = s > 75 /\ r.risk < 25] : s \in Scores}

NewResponseSecurity == {new("ResponseSecurity",
    [integrity |-> i, risk |-> f, steps |-> 0, deviations |-> 0, verdict |-> i > 80 /\ f < 20, confidence |-> 50]) :
      i \in Scores, f \in Scores}

ResponseSecurity(r) ==
    { [r EXCEPT !.steps = @ + 1],
      IF r.deviations + 1 > 1
        THEN [r EXCEPT !.deviations = @ + 1, !.verdict = FALSE, !.confidence = more(@, 15)]
        ELSE [r EXCEPT !.deviations = @ + 1] }
    \cup {[r EXCEPT !.integrity = s, !.verdict = s > 80 /\ r.risk < 20] : s \in Scores}

NewCrisisResilience == {new("CrisisResilience",
    [resistance |-> a, coordination |-> c, actors |-> 0, patterns |-> 0, verdict |-> a > 75 /\ c < 30]) :
      a \in Scores, c \in Scores}

\* Mutant: an attack lowers the resistance and leaves the verdict.
attacked_in_passing(r) == [r EXCEPT !.resistance = less(@, 15)]

attacked(r) == [r EXCEPT !.verdict = FALSE, !.resistance = less(@, 15)]

CrisisResilience(r) ==
    LET acted == [r EXCEPT !.actors = @ + 1]
        seen == [r EXCEPT !.patterns = @ + 1]
    IN  { IF acted.actors > 2 THEN [acted EXCEPT !.verdict = FALSE, !.coordination = more(@, 20)] ELSE acted,
          IF seen.patterns > 2 THEN attacked(seen) ELSE seen }
        \cup {[r EXCEPT !.resistance = s, !.verdict = s > 75 /\ r.coordination < 30] : s \in Scores}

NewEmergencyMonitoring == {new("EmergencyMonitoring",
    [incidents |-> 0, violations |-> 0, severity |-> 0, identified |-> FALSE])}

EmergencyMonitoring(r) ==
    { IF r.incidents + 1 > 1
        THEN [r EXCEPT !.incidents = @ + 1, !.identified = TRUE, !.severity = raised_to_3(@)]
        ELSE [r EXCEPT !.incidents = @ + 1],
      [r EXCEPT !.violations = @ + 1, !.severity = raised_to_3(@)],
      [r EXCEPT !.severity = IF r.incidents > 3 \/ r.violations > 5 THEN 3 ELSE @] }

NewCrisisAudit == {new("CrisisAudit", [score |-> 50, minor |-> 0, major |-> 0, severity |-> 0, action |-> 0])}

CrisisAudit(r) ==
    { [r EXCEPT !.minor = @ + 1, !.score = less(@, 5)],
      [r EXCEPT !.major = @ + 1, !.score = less(@, 10)] } \cup completed(r)

NewEmergencyProtection == {new("EmergencyProtection", [status |-> 0, progress |-> 0, restored |-> FALSE])}

EmergencyProtection(r) ==
    {restored_to(r, s) : s \in Scores \cup {100}}
    \cup { [r EXCEPT !.status = 1], [r EXCEPT !.status = 2], [r EXCEPT !.status = 3, !.restored = TRUE] }

-----------------------------------------------------------------------------
(* benchmark_integrity *)

NewBenchmarkIntegrity == {new("BenchmarkIntegrity",
    [protection |-> p, risk |-> f, attempts |-> 0, verdict |-> p > 75 /\ f < 25]) : p \in Scores, f \in Scores}

BenchmarkIntegrity(r) ==
    {IF r.attempts + 1 > 3
       THEN [r EXCEPT !.attempts = @ + 1, !.verdict = FALSE, !.protection = less(@, 10)]
       ELSE [r EXCEPT !.attempts = @ + 1]}
    \cup {[r EXCEPT !.protection = p, !.risk = f, !.verdict = p > 75 /\ f < 25] : p \in Scores, f \in Scores}

NewPerformanceValidation == {new("PerformanceValidation",
    [authenticity |-> a, risk |-> g, anomalies |-> 0, results |-> 0, verdict |-> a > 75 /\ g < 25, confidence |-> 50]) :
      a \in Scores, g \in Scores}

PerformanceValidation(r) ==
    { [r EXCEPT !.results = @ + 1],
      IF r.anomalies + 1 > 2
        THEN [r EXCEPT !.anomalies = @ + 1, !.verdict = FALSE, !.confidence = more(@, 20)]
        ELSE [r EXCEPT !.anomalies = @ + 1] }
    \cup {[r EXCEPT !.risk = s, !.verdict = r.authenticity > 75 /\ s < 25] : s \in Scores}

NewEvaluationFairness == {new("EvaluationFairness",
    [criteria |-> c, coordination |-> k, evaluators |-> 0, indicators |-> 0, verdict |-> c > 80 /\ k < 30]) :
      c \in Scores, k \in Scores}

EvaluationFairness(r) ==
    { [r EXCEPT !.evaluators = @ + 1],
      IF r.indicators + 1 > 2
        THEN [r EXCEPT !.indicators = @ + 1, !.verdict = FALSE, !.coordination = more(@, 15)]
        ELSE [r EXCEPT !.indicators = @ + 1] }
    \cup {[r EXCEPT !.criteria = s, !.verdict = s > 80 /\ r.coordination < 30] : s \in Scores}

NewStandardMonitoring == {new("StandardMonitoring",
    [incidents |-> 0, protections |-> 0, severity |-> 0, identified |-> FALSE])}

StandardMonitoring(r) ==
    { IF r.incidents + 1 > 1
        THEN [r EXCEPT !.incidents = @ + 1, !.identified = TRUE, !.severity = raised_to_3(@)]
        ELSE [r EXCEPT !.incidents = @ + 1],
      [r EXCEPT !.protections = @ + 1],
      IF r.incidents > 5 \/ r.protections > 3 THEN [r EXCEPT !.severity = 3, !.identified = TRUE] ELSE r }

NewPerformanceAudit == {new("PerformanceAudit",
    [score |-> 50, minor |-> 0, major |-> 0, final |-> FALSE, severity |-> 0, action |-> 0])}

\* final, a history: the last change was calculate_final_integrity.
PerformanceAudit(r) ==
    { [r EXCEPT !.minor = @ + 1, !.score = less(@, 5), !.final = FALSE],
      [r EXCEPT !.major = @ + 1, !.score = less(@, 10), !.final = FALSE],
      [r EXCEPT !.score = less(100, 3 * r.minor + 5 * r.major), !.final = TRUE] } \cup completed(r)

NewBenchmarkProtection == {new("BenchmarkProtection", [status |-> 1, progress |-> 0, restored |-> FALSE])}

BenchmarkProtection(r) ==
    {restored_to(r, s) : s \in Scores \cup {100}}
    \cup { [r EXCEPT !.status = 2], [r EXCEPT !.status = 3, !.restored = TRUE] }

-----------------------------------------------------------------------------
(* network_authenticity *)

NewNetworkAuthenticity == {new("NetworkAuthenticity",
    [growth |-> g, risk |-> m, indicators |-> 0, sources |-> 0, verdict |-> g > 70 /\ m < 30]) : g \in Scores, m \in Scores}

\* The verdict is the caller's from then on.
NetworkAuthenticity(r) ==
    {[r EXCEPT !.verdict = v] : v \in BOOLEAN} \cup {[r EXCEPT !.indicators = @ + 1], [r EXCEPT !.sources = @ + 1]}

NewEngagementValidation == {new("EngagementValidation",
    [verdict |-> g > 60 /\ f < 40, genuine |-> 0, suspicious |-> 0, confidence |-> 50]) : g \in Scores, f \in Scores}

EngagementValidation(r) ==
    {[r EXCEPT !.genuine = @ + 1], [r EXCEPT !.suspicious = @ + 1]} \cup {[r EXCEPT !.confidence = more(@, s)] : s \in Scores}

NewGrowthIntegrity == {new("GrowthIntegrity",
    [natural |-> n, anomalous |-> FALSE, consistency |-> 100, resistance |-> 100, deviation |-> 0]) : n \in Scores}

\* The rates are unsigned and divided before the sign is set: both halves round towards zero.
GrowthIntegrity(r) ==
    LET size(c) == (Max({c - r.natural, r.natural - c}) * 100) \div r.natural
    IN  {[r EXCEPT !.deviation = IF c > r.natural THEN size(c) ELSE 0 - size(c), !.anomalous = size(c) > 50,
                   !.resistance = IF size(c) > 50 THEN less(@, 20) ELSE @] : c \in Scores}
        \cup {[r EXCEPT !.consistency = Min({100, s})] : s \in Scores}

NewNetworkMonitoring == {new("NetworkMonitoring",
    [patterns |-> 0, coordination |-> 0, cluster |-> 0, confidence |-> 50, suspected |-> FALSE])}

\* Mutant: a small cluster clears the suspicion.
clustered_only(r, size) == [r EXCEPT !.cluster = size, !.suspected = size > 5]

clustered(r, size) == [r EXCEPT !.cluster = size, !.suspected = @ \/ size > 5]

NetworkMonitoring(r) ==
    {IF r.patterns + 1 > 3
       THEN [r EXCEPT !.patterns = @ + 1, !.suspected = TRUE, !.coordination = more(@, 15)]
       ELSE [r EXCEPT !.patterns = @ + 1]}
    \cup {clustered(r, l) : l \in Levels} \cup {[r EXCEPT !.confidence = more(@, s)] : s \in Scores}

NewGrowthAudit == {new("GrowthAudit",
    [score |-> 50, minor |-> 0, major |-> 0, diversity |-> 50, consistency |-> 50, severity |-> 0, action |-> 0])}

GrowthAudit(r) ==
    {[r EXCEPT !.minor = @ + 1, !.score = less(@, 5)]}
    \cup {[r EXCEPT !.diversity = Min({100, s})] : s \in Scores}
    \cup {[r EXCEPT !.consistency = Min({100, s})] : s \in Scores} \cup completed(r)

NewNetworkProtection == {new("NetworkProtection", [status |-> 1, progress |-> 0, restored |-> FALSE])}

\* Restoring leaves the intervention open until it is resolved.
NetworkProtection(r) ==
    {[r EXCEPT !.progress = Min({100, s}), !.restored = @ \/ s >= 100] : s \in Scores \cup {100}}
    \cup {[r EXCEPT !.status = 2]}

-----------------------------------------------------------------------------
(* All of them. *)

AssessmentsInit ==
    assessed \in UNION {
      NewDataAccessMonitoring, NewQueryPatternAnalysis, NewIPProtection, NewCompetitiveProtection, NewDataAudit,
      NewEmergencyDataProtection, NewCertificationValidation, NewCredentialAuthenticity, NewQualityAssurance,
      NewMentorNetworkAnalysis, NewCertificationAudit, NewCertificationProtection, NewLearningPathOptimization,
      NewDependencyAnalysis, NewLearnerMobilityProtection, NewOutcomeValidation, NewPathMonitoring,
      NewEmergencyPathCorrection, NewCompetencyValidation, NewTransferAssessment, NewSkillIntegrity,
      NewDomainMonitoring, NewCompetencyAudit, NewSkillProtection, NewEmergencyAuthenticity, NewResponseSecurity,
      NewCrisisResilience, NewEmergencyMonitoring, NewCrisisAudit, NewEmergencyProtection, NewBenchmarkIntegrity,
      NewPerformanceValidation, NewEvaluationFairness, NewStandardMonitoring, NewPerformanceAudit,
      NewBenchmarkProtection, NewNetworkAuthenticity, NewEngagementValidation, NewGrowthIntegrity,
      NewNetworkMonitoring, NewGrowthAudit, NewNetworkProtection }

called(r) ==
    CASE r.kind = "DataAccessMonitoring" -> DataAccessMonitoring(r)
      [] r.kind = "QueryPatternAnalysis" -> QueryPatternAnalysis(r)
      [] r.kind = "IPProtection" -> IPProtection(r)
      [] r.kind = "CompetitiveProtection" -> CompetitiveProtection(r)
      [] r.kind = "DataAudit" -> DataAudit(r)
      [] r.kind = "EmergencyDataProtection" -> EmergencyDataProtection(r)
      [] r.kind = "CertificationValidation" -> CertificationValidation(r)
      [] r.kind = "CredentialAuthenticity" -> CredentialAuthenticity(r)
      [] r.kind = "QualityAssurance" -> QualityAssurance(r)
      [] r.kind = "MentorNetworkAnalysis" -> MentorNetworkAnalysis(r)
      [] r.kind = "CertificationAudit" -> CertificationAudit(r)
      [] r.kind = "CertificationProtection" -> CertificationProtection(r)
      [] r.kind = "LearningPathOptimization" -> LearningPathOptimization(r)
      [] r.kind = "DependencyAnalysis" -> DependencyAnalysis(r)
      [] r.kind = "LearnerMobilityProtection" -> LearnerMobilityProtection(r)
      [] r.kind = "OutcomeValidation" -> OutcomeValidation(r)
      [] r.kind = "PathMonitoring" -> PathMonitoring(r)
      [] r.kind = "EmergencyPathCorrection" -> EmergencyPathCorrection(r)
      [] r.kind = "CompetencyValidation" -> CompetencyValidation(r)
      [] r.kind = "TransferAssessment" -> TransferAssessment(r)
      [] r.kind = "SkillIntegrity" -> SkillIntegrity(r)
      [] r.kind = "DomainMonitoring" -> DomainMonitoring(r)
      [] r.kind = "CompetencyAudit" -> CompetencyAudit(r)
      [] r.kind = "SkillProtection" -> SkillProtection(r)
      [] r.kind = "EmergencyAuthenticity" -> EmergencyAuthenticity(r)
      [] r.kind = "ResponseSecurity" -> ResponseSecurity(r)
      [] r.kind = "CrisisResilience" -> CrisisResilience(r)
      [] r.kind = "EmergencyMonitoring" -> EmergencyMonitoring(r)
      [] r.kind = "CrisisAudit" -> CrisisAudit(r)
      [] r.kind = "EmergencyProtection" -> EmergencyProtection(r)
      [] r.kind = "BenchmarkIntegrity" -> BenchmarkIntegrity(r)
      [] r.kind = "PerformanceValidation" -> PerformanceValidation(r)
      [] r.kind = "EvaluationFairness" -> EvaluationFairness(r)
      [] r.kind = "StandardMonitoring" -> StandardMonitoring(r)
      [] r.kind = "PerformanceAudit" -> PerformanceAudit(r)
      [] r.kind = "BenchmarkProtection" -> BenchmarkProtection(r)
      [] r.kind = "NetworkAuthenticity" -> NetworkAuthenticity(r)
      [] r.kind = "EngagementValidation" -> EngagementValidation(r)
      [] r.kind = "GrowthIntegrity" -> GrowthIntegrity(r)
      [] r.kind = "NetworkMonitoring" -> NetworkMonitoring(r)
      [] r.kind = "GrowthAudit" -> GrowthAudit(r)
      [] r.kind = "NetworkProtection" -> NetworkProtection(r)

AssessmentsNext ==
    /\ assessed.reported < MaxReported
    /\ \E r \in called(assessed) : assessed' = [r EXCEPT !.reported = @ + 1]
    /\ UNCHANGED now

is(kind) == assessed.kind = kind

\* A favourable verdict is backed by the scores and the counts of its record
\* whenever it is read, after any order of reports: where a report changes a
\* score it also changes the verdict, or the score can only have improved.
\* An authentic credential has three pieces of evidence and three legitimate
\* issuers; a transfer is legitimate by approval or with every criterion met.
VerdictsAreEarned ==
    /\ is("CredentialAuthenticity") /\ assessed.authentic => assessed.evidence >= 3 /\ assessed.issuers >= 3
    /\ is("TransferAssessment") /\ assessed.legitimate => assessed.approval = 1 \/ (assessed.met = 5 /\ assessed.risk < 30)
    /\ is("CompetencyValidation") /\ assessed.verdict => assessed.mapping > 70 /\ assessed.fraud < 30
    /\ is("EmergencyAuthenticity") /\ assessed.verdict => assessed.validation > 75 /\ assessed.risk < 25
    /\ is("ResponseSecurity") /\ assessed.verdict => assessed.integrity > 80 /\ assessed.risk < 20
    /\ is("CrisisResilience") /\ assessed.verdict => assessed.resistance > 75 /\ assessed.coordination < 30
    /\ is("BenchmarkIntegrity") /\ assessed.verdict => assessed.protection > 75 /\ assessed.risk < 25
    /\ is("PerformanceValidation") /\ assessed.verdict => assessed.authenticity > 75 /\ assessed.risk < 25
    /\ is("EvaluationFairness") /\ assessed.verdict => assessed.criteria > 80 /\ assessed.coordination < 30
    /\ is("SkillIntegrity") => (assessed.maintained <=> assessed.failed <= 3)
    /\ is("DependencyAnalysis") => (assessed.all_legitimate <=> assessed.artificial = 0)
    /\ is("QueryPatternAnalysis") /\ assessed.suspicious => assessed.suspicion > 60

ScoreFields ==
    {"risk", "suspicion", "theft", "anonymization", "mill_risk", "source", "inflation", "compliance", "coordination",
     "score", "complexity", "portability", "efficiency", "legitimacy", "resistance", "confidence", "progress",
     "consistency", "diversity"}

\* Saturation and limits keep every score between 0 and 100 at any number of
\* reports, and agree with the counts they are drawn from: clamping step by
\* step is clamping the sum.
ScoresAddUp ==
    /\ \A f \in ScoreFields \cap DOMAIN assessed : assessed[f] \in 0..100
    /\ is("DependencyAnalysis") => /\ assessed.total = assessed.artificial + assessed.legitimate
                                   /\ assessed.risk >= Min({100, 20 * assessed.artificial})
    /\ is("QualityAssurance") /\ assessed.reviewed > 0
         => assessed.compliance = compliance_pct(assessed.reviewed, assessed.failed)
    /\ assessed.kind \in {"CertificationAudit", "CrisisAudit", "GrowthAudit"}
         => assessed.score = less(50, 5 * assessed.minor + 10 * assessed.major)
    /\ is("PerformanceAudit") /\ assessed.final => assessed.score = less(100, 3 * assessed.minor + 5 * assessed.major)
    /\ is("DataAudit") => assessed.events = assessed.authorized + assessed.unauthorized
    /\ is("DataAccessMonitoring") => (assessed.extraction <=> assessed.indicators > 2)
    /\ is("DomainMonitoring") /\ (assessed.indicators > 3 \/ assessed.confidence > 75) => assessed.suspected

AlarmFields ==
    {"extraction", "block", "inflated", "suspected", "detected", "restricted", "identified", "prevented", "restored"}

\* No later report takes back an alarm, a restriction or a restoration, and
\* a learner who lost protection does not regain it.
AlarmsStand ==
    [][/\ \A f \in AlarmFields \cap DOMAIN assessed : assessed[f] => assessed'[f]
       /\ is("EmergencyPathCorrection") /\ ~assessed.learner_protected => ~assessed'.learner_protected]_assessed
====
