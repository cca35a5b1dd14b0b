---- MODULE Credentials ----
(* What the platform says about people: contracts/certificates,            *)
(* contracts/kyc_registry with the privacy rules of contracts/shared,      *)
(* contracts/verification, contracts/session_nft, contracts/cert_showcase, *)
(* contracts/badges and contracts/endorsements. The storage of a contract  *)
(* is one record with a field for each DataKey.                            *)
EXTENDS Host, Integers, Sequences, FiniteSets, FiniteSetsExt, SequencesExt

CONSTANTS
    Learners, Mentors, Skills,      \* addresses and symbols
    CertRatings,                    \* ratings and corrected grades, around MIN_CERT_RATING
    MinCertRating,                  \* MIN_CERT_RATING
    SessionCounts,                  \* lengths of get_sessions_by_learner
    MinSessionsCompleted,           \* MIN_SESSIONS_COMPLETED
    Validations,                    \* sets of validation results
    MaxCerts, MaxCorrections,       \* bounds
    CompletionTimes, MaxCompletions,    \* reported completion times, and a bound
    RapidSpan,                      \* seconds in which a completion counts as suspicious
    KycLevels, KycExpiries, MaxKycTime, AlertWindow,    \* EXPIRY_ALERT_WINDOW
    Accessors, Purposes, AccessWindow,  \* ACCESS_MONITORING_WINDOW_SECS
    MaxAccessesPerWindow,           \* MAX_ACCESSES_PER_WINDOW
    AccessLogCap,                   \* ACCESS_LOG_CAP
    LeakWindow, LeakSessions,       \* CROSS_SESSION_MONITORING_WINDOW_SECS, LEAK_DISTINCT_SESSION_THRESHOLD
    MaxAccesses,                    \* bound
    Hashes, GracePeriods, Expiries, MaxVerifyTime,
    OutcomeScores, MaxOutcomes,     \* MAX_OUTCOME_HISTORY
    MaxAssessed,                    \* bound
    BundleSessions, MaxBundles,     \* session ids, and a bound
    BadgeTypes, Nullifiers,
    HalfLife, MaxEndorseTime        \* DECAY_HALF_LIFE_SECS, and a bound

VARIABLES certificates, learning, kyc, privacy, verification, expertise, bundles, badges, endorsements

credential_vars ==
    <<certificates, learning, kyc, privacy, verification, expertise, bundles, badges, endorsements>>

-----------------------------------------------------------------------------
(* Certificates. *)

CertificatesInit ==
    certificates = [cert |-> << >>, learner_certs |-> [l \in Learners |-> << >>],
                    skill_certs |-> [s \in Skills |-> << >>], integrity |-> NothingStored,
                    assessment |-> [achieved |-> FALSE, confidence |-> 0],
                    has_learner |-> {}, distinct_learners |-> [k \in Mentors \X Skills |-> 0]]

\* With three required sources: enough different sources, and as many valid results, whichever
\* sources these come from.
verify_assessment_authenticity(results) ==
    LET valid == {v \in results : v.valid} IN
    [achieved |-> Cardinality({v.source : v \in results}) >= 3 /\ Cardinality(valid) >= 3,
     confidence |-> IF valid = {} THEN 0
                    ELSE MapThenSumSet(LAMBDA v : v.confidence, valid) \div Cardinality(valid)]

is_validated(a) == a.achieved /\ a.confidence >= 7000

\* It replaces an earlier verdict, also one that a certificate was issued on.
submit_assessment_validation(results) ==
    certificates' = [certificates EXCEPT !.assessment = verify_assessment_authenticity(results)]

\* The hash of a certificate's fields, of which only the rating changes, and of the corrections
\* chained to it.
integrity_hash(rating, corrections) == [sealed |-> TRUE, rating |-> rating, corrections |-> corrections]
NoHash == [sealed |-> FALSE, rating |-> 0, corrections |-> 0]

push_id(store, c) ==
    [store EXCEPT !.cert = Append(@, c),
                  !.learner_certs[c.learner] = Append(@, Len(store.cert) + 1),
                  !.skill_certs[c.skill] = Append(@, Len(store.cert) + 1)]

\* Mutant: every certificate counts another learner.
achievement_measured_each_time(store, c) ==
    [store EXCEPT !.has_learner = @ \cup {<<c.mentor, c.skill, c.learner>>},
                  !.distinct_learners[<<c.mentor, c.skill>>] = @ + 1]

record_achievement_measurement(store, c) ==
    IF <<c.mentor, c.skill, c.learner>> \in store.has_learner THEN store
    ELSE [store EXCEPT !.has_learner = @ \cup {<<c.mentor, c.skill, c.learner>>},
                       !.distinct_learners[<<c.mentor, c.skill>>] = @ + 1]

eligible(rating, sessions) ==
    /\ rating >= MinCertRating /\ sessions >= MinSessionsCompleted
    /\ Len(certificates.cert) < MaxCerts

\* By the backend, for a session whose escrow is released. The detection of gaming is given an
\* empty history and never objects. A session may be certified again.
issue_certificate(l, m, s, rating, sessions) ==
    LET c == [learner |-> l, mentor |-> m, skill |-> s, rating |-> rating, sessions |-> sessions,
              revoked |-> FALSE, assessed |-> FALSE, corrections |-> 0, hash |-> NoHash]
    IN  /\ eligible(rating, sessions)
        /\ certificates' = record_achievement_measurement(push_id(certificates, c), c)

issue_cert_with_assessment(l, m, s, rating, sessions, inflated) ==
    LET h == integrity_hash(rating, 0)
        c == [learner |-> l, mentor |-> m, skill |-> s, rating |-> rating, sessions |-> sessions,
              revoked |-> FALSE, assessed |-> TRUE, corrections |-> 0, hash |-> h]
    IN  /\ eligible(rating, sessions) /\ ~inflated
        /\ is_validated(certificates.assessment)
        /\ certificates' = [push_id(certificates, c) EXCEPT
                              !.integrity = put(@, Len(certificates.cert) + 1, h)]

\* Mutant: the correction is not chained to the hash.
chained_unchanged(h) == h

chained(h) == [h EXCEPT !.corrections = @ + 1]

apply_grade_correction(id, grade) ==
    LET c == certificates.cert[id] IN
    /\ c.corrections < MaxCorrections
    /\ certificates' = [certificates EXCEPT !.cert[id].corrections = @ + 1,
                                            !.cert[id].rating = grade,
                                            !.cert[id].hash = chained(@),
                                            !.integrity = put(@, id, chained(c.hash))]

\* A corrected certificate does not pass: its hash is compared with the hash of its fields.
verify_certificate_integrity(id) ==
    LET c == certificates.cert[id]
        stored_hash == stored(certificates.integrity, id, c.hash)
    IN  /\ stored_hash = integrity_hash(c.rating, 0) /\ stored_hash = c.hash
        /\ ~c.revoked
        /\ c.assessed => is_validated(certificates.assessment)

revoke_certificate(id) == certificates' = [certificates EXCEPT !.cert[id].revoked = TRUE]

revoke_cert_with_integrity(id) == verify_certificate_integrity(id) /\ revoke_certificate(id)

validate_outcome_measurement(c) ==
    ~c.revoked /\ c.rating >= MinCertRating /\ c.sessions >= MinSessionsCompleted

CertificatesNext ==
    /\ \/ \E l \in Learners, m \in Mentors, s \in Skills, r \in CertRatings, n \in SessionCounts :
            \/ issue_certificate(l, m, s, r, n)
            \/ \E inflated \in BOOLEAN : issue_cert_with_assessment(l, m, s, r, n, inflated)
       \/ \E v \in Validations : submit_assessment_validation(v)
       \/ \E id \in DOMAIN certificates.cert :
            \/ revoke_certificate(id) \/ revoke_cert_with_integrity(id)
            \/ \E g \in CertRatings : apply_grade_correction(id, g)
    /\ UNCHANGED <<now, learning, kyc, privacy, verification, expertise, bundles, badges, endorsements>>

\* The lists by learner and by skill and the count of distinct learners agree with the certificates.
CertificateBooks ==
    LET ids(P(_)) == SelectSeq([i \in DOMAIN certificates.cert |-> i], P)
        plain == {i \in DOMAIN certificates.cert : ~certificates.cert[i].assessed}
    IN  /\ \A l \in Learners :
              certificates.learner_certs[l] = ids(LAMBDA i : certificates.cert[i].learner = l)
        /\ \A s \in Skills : certificates.skill_certs[s] = ids(LAMBDA i : certificates.cert[i].skill = s)
        /\ \A m \in Mentors, s \in Skills :
              certificates.distinct_learners[<<m, s>>] =
                Cardinality({certificates.cert[i].learner :
                               i \in {j \in plain : /\ certificates.cert[j].mentor = m
                                                    /\ certificates.cert[j].skill = s}})

\* verify_certificate_integrity accepts only a certificate that was issued on an assessment, is
\* still validated, and whose grade nobody has touched since.
IntegrityIsEarned ==
    \A id \in DOMAIN certificates.cert :
        verify_certificate_integrity(id) =>
            /\ certificates.cert[id].assessed /\ certificates.cert[id].corrections = 0
            /\ validate_outcome_measurement(certificates.cert[id])

-----------------------------------------------------------------------------
(* The history of a learner's sessions. *)

LearningInit == learning = [log |-> [l \in Learners |-> << >>], report |-> NothingStored]

record_session_completion(l, t) ==
    /\ MapThenSumSet(LAMBDA k : Len(learning.log[k]), Learners) < MaxCompletions
    /\ learning' = [learning EXCEPT !.log[l] = Append(@, t)]

since(t) == IF now > t THEN now - t ELSE 0

\* Mutant: a suspicious session costs its whole share.
suspicious_penalty_full(suspicious, total) == (suspicious * 10000) \div total

suspicious_penalty(suspicious, total) == (suspicious * 2000) \div total

\* Every recorded session is verified; one completed just now is suspicious from the fourth on.
verify_individual_learning(l) ==
    LET log == learning.log[l]
        total == Len(log)
        suspicious == Cardinality({i \in DOMAIN log : since(log[i]) < RapidSpan /\ i > 3})
    IN  learning' = [learning EXCEPT !.report =
            put(@, l, [total |-> total, suspicious |-> suspicious,
                       score |-> IF total = 0 THEN 10000
                                 ELSE Max({0, 10000 - suspicious_penalty(suspicious, total)})])]

validate_assessment_integrity(l) == l \in DOMAIN learning.report => learning.report[l].score >= 7000

LearningTick == CloseLedger(MaxKycTime) /\ UNCHANGED learning

LearningNext ==
    /\ \/ LearningTick
       \/ /\ \E l \in Learners :
               \/ \E t \in CompletionTimes : record_session_completion(l, t)
               \/ verify_individual_learning(l)
          /\ UNCHANGED now
    /\ UNCHANGED <<certificates, kyc, privacy, verification, expertise, bundles, badges, endorsements>>

\* Whatever the history, a report stays above the threshold of validate_assessment_integrity: a
\* suspicious session costs a fifth of its share.
ReportsPass == \A l \in Learners : validate_assessment_integrity(l)

-----------------------------------------------------------------------------
(* The KYC registry. *)

\* A record also remembers, as history, the call that created it.
KycInit == kyc = [record |-> NothingStored, index |-> {}, registry |-> << >>, alert |-> {}]

unindexed(store, u) ==
    IF u \in DOMAIN store.record THEN store.index \ {<<store.record[u].expiry, u>>} ELSE store.index

\* Mutant: a new user is not listed.
registered_batch_unlisted(store, u) == store.registry

registered_batch(store, u) ==
    IF u \in DOMAIN store.record THEN store.registry ELSE Append(store.registry, u)

with_kyc(store, u, level, expiry) ==
    [store EXCEPT !.record = put(@, u, [level |-> level, expiry |-> expiry, began |-> IF u \in DOMAIN @ THEN @[u].began ELSE "set"]),
                  !.index = unindexed(store, u) \cup {<<expiry, u>>},
                  !.registry = registered_batch(store, u)]

set_kyc_level(u, level, expiry) ==
    /\ expiry > now /\ Len(kyc.registry) < 3
    /\ kyc' = with_kyc(kyc, u, level, expiry)

\* All expiries are checked first. Two entries, which may be for the same user.
batch_set_kyc_level(u, v, level, expiry, expiry2) ==
    /\ expiry > now /\ expiry2 > now /\ Len(kyc.registry) < 3
    /\ kyc' = with_kyc(with_kyc(kyc, u, level, expiry), v, level, expiry2)

\* Also without a record; it lists nobody.
renew_kyc(u, level, expiry) ==
    /\ expiry > now
    /\ kyc' = [kyc EXCEPT
                 !.record = put(@, u, [level |-> level, expiry |-> expiry,
                                       began |-> IF u \in DOMAIN @ THEN @[u].began ELSE "renewed"]),
                 !.index = unindexed(kyc, u) \cup {<<expiry, u>>},
                 !.alert = @ \ {u}]

check_expiry_alert(u) ==
    /\ u \in DOMAIN kyc.record
    /\ now <= kyc.record[u].expiry /\ kyc.record[u].expiry - now <= AlertWindow
    /\ kyc' = [kyc EXCEPT !.alert = @ \cup {u}]

\* The user stays listed: remove_user_from_registry does nothing.
revoke_kyc(u) ==
    kyc' = [kyc EXCEPT !.record = del(@, u), !.index = unindexed(kyc, u), !.alert = @ \ {u}]

\* It leaves the index of expiries as it is.
batch_revoke_kyc(us) ==
    kyc' = [kyc EXCEPT !.record = [u \in DOMAIN @ \ us |-> @[u]], !.alert = @ \ us]

KycTick == CloseLedger(MaxKycTime) /\ UNCHANGED kyc

KycNext ==
    /\ \/ KycTick
       \/ /\ \E u \in Learners :
               \/ \E level \in KycLevels, e \in KycExpiries :
                    \/ set_kyc_level(u, level, e) \/ renew_kyc(u, level, e)
                    \/ \E v \in Learners, e2 \in KycExpiries : batch_set_kyc_level(u, v, level, e, e2)
               \/ check_expiry_alert(u) \/ revoke_kyc(u) \/ batch_revoke_kyc({u})
          /\ UNCHANGED now
    /\ UNCHANGED <<certificates, learning, privacy, verification, expertise, bundles, badges, endorsements>>

\* Every record is found: under its expiry in the index, and, unless a renewal
\* created it, in the list that get_expiring_kyc walks; and only users with a record have an alert.
KycIsFound ==
    /\ \A u \in DOMAIN kyc.record :
         /\ <<kyc.record[u].expiry, u>> \in kyc.index
         /\ kyc.record[u].began = "set" => \E i \in DOMAIN kyc.registry : kyc.registry[i] = u
    /\ kyc.alert \subseteq DOMAIN kyc.record

-----------------------------------------------------------------------------
(* Consent and access of one learner's data. *)

PrivacyInit ==
    privacy = [consent |-> NothingStored, isolated |-> FALSE, contained |-> FALSE,
               access |-> [a \in Accessors |-> << >>], leak |-> << >>,
               allowed |-> [a \in Accessors |-> << >>]]    \* history: the accesses allowed

need == [session_delivery |-> {"identity"}, billing |-> {"identity", "payment"}]
minimize_to_need_to_know(purpose, fields) == fields \cap need[purpose]

check_access(purpose, fields) ==
    LET held == stored(privacy.consent, purpose, [fields |-> {}, expires |-> 0])
        granted == IF purpose \notin DOMAIN privacy.consent \/ now >= held.expires THEN {} ELSE held.fields
    IN  [allowed |-> fields \subseteq granted /\ purpose \in DOMAIN privacy.consent /\ now < held.expires,
         denied |-> fields \ granted]

\* Mutant: the log is cut to the limit of a window.
last_accesses_short(log) == SubSeq(log, Max({1, Len(log) - MaxAccessesPerWindow}), Len(log))

last_accesses(log) == SubSeq(log, Max({1, Len(log) - AccessLogCap + 1}), Len(log))

detect_exploitation(log) ==
    LET in_window == Len(SelectSeq(log, LAMBDA t : now - t <= AccessWindow)) IN
    in_window > MaxAccessesPerWindow /\ 40 + (in_window - MaxAccessesPerWindow) * 10 >= 60

\* What the store becomes and whether access is granted. Being isolated, exploiting, or asking
\* without consent denies it, and the latter two isolate the subject from everybody.
enforce_access_controls(a, purpose, requested) ==
    LET access == check_access(purpose, minimize_to_need_to_know(purpose, requested))
        log == last_accesses(Append(privacy.access[a], now))
        isolate == detect_exploitation(log) \/ (~access.allowed /\ access.denied # {})
    IN  [store |-> [privacy EXCEPT !.access[a] = log, !.isolated = @ \/ isolate],
         granted |-> access.allowed /\ ~privacy.isolated /\ ~isolate]

\* 15 for each report within the window, and 30 more when the log holds enough of them.
detect_cross_session_leak(log) ==
    LET recent == Len(SelectSeq(log, LAMBDA t : now - t <= LeakWindow)) IN
    Min({recent * 15, 100}) + (IF Len(log) >= LeakSessions THEN 30 ELSE 0) >= 60

enforce_data_protection(a, purpose, requested, out_of_scope) ==
    LET checked == enforce_access_controls(a, purpose, requested)
        leak == IF out_of_scope THEN last_accesses(Append(privacy.leak, now)) ELSE privacy.leak
        contain == out_of_scope /\ detect_cross_session_leak(leak)
    IN  /\ MapThenSumSet(LAMBDA b : Len(privacy.allowed[b]), Accessors) < MaxAccesses
        /\ privacy' = [checked.store EXCEPT
                         !.leak = leak, !.isolated = @ \/ contain, !.contained = @ \/ contain,
                         !.allowed[a] = IF checked.granted /\ ~contain THEN Append(@, now) ELSE @]

\* By the subject; it also ends an isolation, whatever caused it.
manage_data_privacy(purpose, fields, duration) ==
    privacy' = [privacy EXCEPT !.consent = put(@, purpose, [fields |-> fields, expires |-> now + duration]),
                               !.isolated = FALSE]

handle_consent(purpose) == privacy' = [privacy EXCEPT !.consent = del(@, purpose)]

restore_privacy_access == privacy' = [privacy EXCEPT !.isolated = FALSE, !.contained = FALSE]

PrivacyTick == CloseLedger(MaxKycTime) /\ UNCHANGED privacy

PrivacyNext ==
    /\ \/ PrivacyTick
       \/ /\ \/ \E p \in Purposes :
                  \/ \E f \in {{"identity"}, {"identity", "payment"}} :
                       \/ manage_data_privacy(p, f, MaxKycTime)
                       \/ \E a \in Accessors, out \in BOOLEAN : enforce_data_protection(a, p, f, out)
                  \/ handle_consent(p)
             \/ restore_privacy_access
          /\ UNCHANGED now
    /\ UNCHANGED <<certificates, learning, kyc, verification, expertise, bundles, badges, endorsements>>

\* However often the subject renews the consent or the admin lifts the isolation, nobody is
\* given the data more often within a window than the monitoring tolerates.
AccessIsPaced ==
    \A a \in Accessors :
        Len(SelectSeq(privacy.allowed[a], LAMBDA t : now - t <= AccessWindow)) <= MaxAccessesPerWindow + 1

-----------------------------------------------------------------------------
(* Verification of mentors. *)

VerificationInit ==
    verification = [record |-> NothingStored, grace |-> NothingStored, revoked |-> {},
                    platform |-> NothingStored]

grace_period == stored(verification.grace, "GracePeriod", 1)

verify_mentor(m, h, expiry) ==
    /\ h \notin verification.revoked
    /\ verification' = [verification EXCEPT
         !.record = put(@, m, [hash |-> h, expiry |-> expiry, active |-> TRUE, grace |-> grace_period])]

revoke_verification(m) == verification' = [verification EXCEPT !.record[m].active = FALSE]

\* Also for a mentor whose verification was revoked, which stays revoked.
renew_verification(m, expiry) == verification' = [verification EXCEPT !.record[m].expiry = expiry]

revoke_credential(h) == verification' = [verification EXCEPT !.revoked = @ \cup {h}]

set_grace_period(g) == verification' = [verification EXCEPT !.grace = put(@, "GracePeriod", g)]

\* is_verified reads the grace period of today, get_verification_status that of the record.
is_verified(m) ==
    /\ m \in DOMAIN verification.record /\ verification.record[m].active
    /\ now <= verification.record[m].expiry
       \/ now <= verification.record[m].expiry
                   + stored(verification.grace, "GracePeriod", verification.record[m].grace)

\* Mutant: the last second of the grace period does not count.
status_is_verified_early(r) == r.active /\ now < r.expiry + r.grace

status_is_verified(r) == r.active /\ now <= r.expiry + r.grace

authenticate_credentials(m, h) ==
    /\ h \notin verification.revoked
    /\ m \in DOMAIN verification.record
    /\ verification.record[m].active /\ verification.record[m].hash = h

\* Mutant: any active credential is enough.
identity_matches_any(m, h) == m \in DOMAIN verification.record /\ verification.record[m].active

identity_matches(m, h) == authenticate_credentials(m, h)

submit_verification(m, h) ==
    /\ identity_matches(m, h)
    /\ verification' = [verification EXCEPT !.platform = put(@, m, h)]

VerifyTick == CloseLedger(MaxVerifyTime) /\ UNCHANGED verification

VerificationNext ==
    /\ \/ VerifyTick
       \/ /\ \/ \E m \in Mentors, h \in Hashes, e \in Expiries : verify_mentor(m, h, e)
             \/ \E m \in DOMAIN verification.record :
                  \/ revoke_verification(m)
                  \/ \E e \in Expiries : renew_verification(m, e)
             \/ \E h \in Hashes : revoke_credential(h) \/ \E m \in Mentors : submit_verification(m, h)
             \/ \E g \in GracePeriods : set_grace_period(g)
          /\ UNCHANGED now
    /\ UNCHANGED <<certificates, learning, kyc, privacy, expertise, bundles, badges, endorsements>>

\* For a record made under the current grace period, the reader that other contracts call and
\* the status shown to people agree.
ReadersAgree ==
    \A m \in DOMAIN verification.record :
        verification.record[m].grace = grace_period =>
            (is_verified(m) <=> status_is_verified(verification.record[m]))

\* A cross-platform identity is accepted on a credential that is not revoked at that moment and
\* is the one the mentor was verified with.
IdentityIsBacked ==
    [][\A m \in Mentors : verification'.platform # verification.platform /\ m \in DOMAIN verification'.platform
            /\ (m \in DOMAIN verification.platform => verification'.platform[m] # verification.platform[m])
          => /\ verification'.platform[m] \notin verification.revoked
             /\ verification.record[m].hash = verification'.platform[m]]_verification

-----------------------------------------------------------------------------
(* Skills of one mentor in one specialization. *)

ExpertiseInit ==
    expertise = [certified_at |-> -1, passed |-> FALSE, credential |-> FALSE, outcomes |-> << >>,
                 flag |-> [suspected |-> FALSE, underperformance |-> 0],
                 sessions |-> << >>]   \* history: every outcome

score_practical_assessment(scores) ==
    scores # << >> /\ FoldSeq(+, 0, scores) \div Len(scores) >= 6000

validate_peer_consensus(votes) ==
    Len(votes) >= 2 /\ Len(SelectSeq(votes, LAMBDA v : v)) * 2 > Len(votes)

verify_mentor_skills(scores, votes) ==
    LET passed == score_practical_assessment(scores) IN
    expertise' = [expertise EXCEPT !.passed = passed,
                                   !.certified_at = IF passed /\ validate_peer_consensus(votes) THEN now ELSE @]

authenticate_specializations(valid, expiry) ==
    expertise' = [expertise EXCEPT !.credential = valid /\ expiry > now]

\* Mutant: the window keeps the oldest outcomes.
latest_outcomes_oldest(scores) == SubSeq(scores, 1, Min({Len(scores), MaxOutcomes}))

latest_outcomes(scores) == SubSeq(scores, Max({1, Len(scores) - MaxOutcomes + 1}), Len(scores))

underperforming(scores) == Len(SelectSeq(scores, LAMBDA s : s < 4000))

\* From three sessions on, up to 50 for bad outcomes, and 40 for a missing credential.
detect_skill_fraud(scores, credential) ==
    LET ratio == IF Len(scores) >= 3 THEN ((underperforming(scores) * 10000) \div Len(scores)) \div 200 ELSE 0
    IN  [suspected |-> Min({ratio + (IF credential THEN 0 ELSE 40), 100}) >= 60,
         underperformance |-> underperforming(scores)]

assess_expertise(score) ==
    LET scores == latest_outcomes(Append(expertise.outcomes, score)) IN
    /\ Len(expertise.sessions) < MaxAssessed
    /\ expertise' = [expertise EXCEPT !.outcomes = scores,
                                      !.flag = detect_skill_fraud(scores, expertise.credential),
                                      !.sessions = Append(@, score)]

ExpertiseNext ==
    /\ \/ \E a, b \in {5999, 6001}, v \in {<<TRUE>>, <<TRUE, FALSE>>, <<TRUE, TRUE>>} :
            verify_mentor_skills(<<a, b>>, v)
       \/ \E valid \in BOOLEAN, e \in {0, 1} : authenticate_specializations(valid, e)
       \/ \E s \in OutcomeScores : assess_expertise(s)
    /\ UNCHANGED <<now, certificates, learning, kyc, privacy, verification, bundles, badges, endorsements>>

\* The flag is about the latest outcomes, and a missing credential alone does not make a mentor
\* suspected.
FlagIsAboutTheLatest ==
    LET n == Len(expertise.sessions) IN
    /\ expertise.flag.underperformance =
         underperforming(SubSeq(expertise.sessions, Max({1, n - MaxOutcomes + 1}), n))
    /\ expertise.flag.suspected => expertise.flag.underperformance >= 1

-----------------------------------------------------------------------------
(* Bundles of completed sessions as tokens, and the showcase of certificates. *)

BundlesInit ==
    bundles = [bundle |-> NothingStored, counter |-> 0, metadata |-> {},
               owned |-> [p \in Learners |-> << >>],
               shown |-> [p \in Learners |-> << >>]]

\* Every session is completed and of this learner with one mentor; nothing keeps a session from
\* being bundled again.
mint_bundle(l, sessions, expiry) ==
    LET id == bundles.counter + 1 IN
    /\ sessions # << >> /\ id <= MaxBundles
    /\ bundles' = [bundles EXCEPT !.counter = id, !.metadata = @ \cup {id},
                                  !.bundle = put(@, id, [owner |-> l, total |-> Len(sessions),
                                                         remaining |-> Len(sessions), expiry |-> expiry]),
                                  !.owned[l] = Append(@, id)]

without(list, id) == SelectSeq(list, LAMBDA i : i # id)

\* Mutant: the receiver's list is read before the sender's is written.
handed_over_stale(owned, from, to, id) ==
    [owned EXCEPT ![from] = without(@, id), ![to] = Append(owned[to], id)]

handed_over(owned, from, to, id) ==
    LET sent == [owned EXCEPT ![from] = without(@, id)] IN [sent EXCEPT ![to] = Append(@, id)]

\* Also to oneself.
transfer_bundle(from, to, id) ==
    /\ bundles.bundle[id].owner = from
    /\ bundles' = [bundles EXCEPT !.owned = handed_over(@, from, to, id), !.bundle[id].owner = to]

redeem(id) ==
    /\ now <= bundles.bundle[id].expiry /\ bundles.bundle[id].remaining > 0
    /\ bundles' = [bundles EXCEPT !.bundle[id].remaining = @ - 1]

\* The metadata stay.
burn(id) ==
    LET b == bundles.bundle[id] IN
    /\ now > b.expiry \/ b.remaining = 0
    /\ bundles' = [bundles EXCEPT !.bundle = del(@, id), !.owned[b.owner] = without(@, id)]

showcase(l, id) ==
    /\ ~\E i \in DOMAIN bundles.shown[l] : bundles.shown[l][i] = id
    /\ bundles' = [bundles EXCEPT !.shown[l] = Append(@, id)]

\* For a certificate that is not revoked at the time; it may be somebody else's.
feature(l, id, valid) == valid /\ showcase(l, id)

hide(l, id) ==
    /\ \E i \in DOMAIN bundles.shown[l] : bundles.shown[l][i] = id
    /\ bundles' = [bundles EXCEPT !.shown[l] = without(@, id)]

BundleTick == CloseLedger(2) /\ UNCHANGED bundles

BundlesNext ==
    /\ \/ BundleTick
       \/ /\ \/ \E l \in Learners :
                  \/ \E s \in BundleSessions, e \in {0, 1} : mint_bundle(l, s, e)
                  \/ \E id \in DOMAIN bundles.bundle, to \in Learners : transfer_bundle(l, to, id)
                  \/ \E id \in 1 .. 2 : \E valid \in BOOLEAN : feature(l, id, valid)
                  \/ \E id \in 1 .. 2 : hide(l, id)
             \/ \E id \in DOMAIN bundles.bundle : redeem(id) \/ burn(id)
          /\ UNCHANGED now
    /\ UNCHANGED <<certificates, learning, kyc, privacy, verification, expertise, badges, endorsements>>

listed_once(list, ids) == IsInjective(list) /\ ToSet(list) = ids

\* The list of an owner holds that owner's bundles, each once, after any transfers and burns;
\* nothing is shown twice; a burnt token's number is not used again.
BundlesArePartitioned ==
    /\ \A p \in Learners :
         /\ listed_once(bundles.owned[p], {id \in DOMAIN bundles.bundle : bundles.bundle[id].owner = p})
         /\ IsInjective(bundles.shown[p])
    /\ DOMAIN bundles.bundle \subseteq bundles.metadata /\ bundles.metadata = 1 .. bundles.counter

-----------------------------------------------------------------------------
(* Badges and endorsements. *)

BadgesInit ==
    badges = [held |-> {}, list |-> [m \in Mentors |-> << >>], count |-> [t \in BadgeTypes |-> 0],
              nullifier |-> NothingStored]

award_badge(m, t) ==
    /\ <<m, t>> \notin badges.held
    /\ badges' = [badges EXCEPT !.held = @ \cup {<<m, t>>}, !.list[m] = Append(@, t), !.count[t] = @ + 1]

\* Mutant: the count of holders is not reduced.
badge_revoked_uncounted(m, t) ==
    [badges EXCEPT !.held = @ \ {<<m, t>>}, !.list[m] = without(@, t)]

badge_revoked(m, t) ==
    [badges EXCEPT !.held = @ \ {<<m, t>>}, !.list[m] = without(@, t),
                   !.count[t] = IF @ = 0 THEN 0 ELSE @ - 1]

revoke_badge(m, t) == <<m, t>> \in badges.held /\ badges' = badge_revoked(m, t)

\* By an administrator that the caller names; the badge of a nullifier does not change any more.
mint_badge_anonymous(n, t) ==
    /\ n \notin DOMAIN badges.nullifier
    /\ badges' = [badges EXCEPT !.nullifier = put(@, n, t)]

EndorsementsInit ==
    endorsements = [record |-> NothingStored, endorsers |-> NothingStored, count |-> NothingStored,
                    skills |-> [m \in Mentors |-> << >>]]

\* The two have completed a session together.
endorse(a, m, s) ==
    LET n == stored(endorsements.count, <<m, s>>, 0) IN
    /\ <<a, m, s>> \notin DOMAIN endorsements.record
    /\ endorsements' = [endorsements EXCEPT
         !.record = put(@, <<a, m, s>>, now),
         !.endorsers = put(@, <<m, s>>, Append(stored(@, <<m, s>>, << >>), a)),
         !.count = put(@, <<m, s>>, n + 1),
         !.skills[m] = IF n = 0 THEN Append(@, s) ELSE @]

\* Mutant: the skill of the last endorsement stays listed.
is_last_never(n) == FALSE

is_last(n) == n <= 1

remove_endorsement(a, m, s) ==
    LET rest == without(stored(endorsements.endorsers, <<m, s>>, << >>), a)
        n == stored(endorsements.count, <<m, s>>, 0)
    IN  /\ <<a, m, s>> \in DOMAIN endorsements.record
        /\ endorsements' = [endorsements EXCEPT
             !.record = del(@, <<a, m, s>>),
             !.endorsers = IF rest = << >> THEN del(@, <<m, s>>) ELSE put(@, <<m, s>>, rest),
             !.count = IF is_last(n) THEN del(@, <<m, s>>) ELSE put(@, <<m, s>>, n - 1),
             !.skills[m] = IF is_last(n) THEN without(@, s) ELSE @]

re_endorse(a, m, s) ==
    /\ <<a, m, s>> \in DOMAIN endorsements.record
    /\ endorsements' = [endorsements EXCEPT !.record[<<a, m, s>>] = now]

\* 1,000, halved with each half-life.
get_endorsement_weight(a, m, s) ==
    IF <<a, m, s>> \notin DOMAIN endorsements.record THEN 0
    ELSE 1000 \div 2 ^ Min({(now - endorsements.record[<<a, m, s>>]) \div HalfLife, 63})

get_effective_endorsement_score(m) ==
    MapThenSumSet(LAMBDA s : MapThenSumSet(LAMBDA a : get_endorsement_weight(a, m, s),
                                           ToSet(stored(endorsements.endorsers, <<m, s>>, << >>))),
                  ToSet(endorsements.skills[m]))

EndorseTick == CloseLedger(MaxEndorseTime) /\ UNCHANGED endorsements

MeritNext ==
    /\ \/ EndorseTick /\ UNCHANGED badges
       \/ /\ \E a \in Learners, m \in Mentors, s \in Skills :
               endorse(a, m, s) \/ remove_endorsement(a, m, s) \/ re_endorse(a, m, s)
          /\ UNCHANGED <<now, badges>>
       \/ /\ \/ \E m \in Mentors, t \in BadgeTypes : award_badge(m, t) \/ revoke_badge(m, t)
             \/ \E n \in Nullifiers, t \in BadgeTypes : mint_badge_anonymous(n, t)
          /\ UNCHANGED <<now, endorsements>>
    /\ UNCHANGED <<certificates, learning, kyc, privacy, verification, expertise, bundles>>

\* A mentor's badges are listed once each and every type counts its holders.
BadgesAreCounted ==
    /\ \A m \in Mentors : listed_once(badges.list[m], {t \in BadgeTypes : <<m, t>> \in badges.held})
    /\ \A t \in BadgeTypes : badges.count[t] = Cardinality({m \in Mentors : <<m, t>> \in badges.held})

\* Endorsers, counts and endorsed skills agree with the endorsements, and the effective score is
\* the sum of the weights of all of them.
EndorsementsAreCounted ==
    /\ \A m \in Mentors, s \in Skills :
         LET by == {a \in Learners : <<a, m, s>> \in DOMAIN endorsements.record} IN
         /\ listed_once(stored(endorsements.endorsers, <<m, s>>, << >>), by)
         /\ stored(endorsements.count, <<m, s>>, 0) = Cardinality(by)
         /\ by # {} <=> s \in ToSet(endorsements.skills[m])
    /\ \A m \in Mentors :
         /\ IsInjective(endorsements.skills[m])
         /\ get_effective_endorsement_score(m) =
              MapThenSumSet(LAMBDA k : IF k[2] = m THEN get_endorsement_weight(k[1], k[2], k[3]) ELSE 0,
                            DOMAIN endorsements.record)

CredentialsInit ==
    /\ CertificatesInit /\ LearningInit /\ KycInit /\ PrivacyInit /\ VerificationInit /\ ExpertiseInit
    /\ BundlesInit /\ BadgesInit /\ EndorsementsInit
====
