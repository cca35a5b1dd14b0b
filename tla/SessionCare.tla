---- MODULE SessionCare ----
(* What the session registry keeps around a booking: the care for learners *)
(* and mentors, who may read a session, its recording, its description and *)
(* its content, and when a mentor is available. The scores are those of    *)
(* Oversight. One variable per concern, a record with one field per        *)
(* storage key; the calendar itself is in SessionSchedule. Windows of time *)
(* are in ledgers.                                                         *)
EXTENDS Oversight

CONSTANTS LogCap,         \* MONITORING_LOG_CAP (20)
          SuspensionCooldown,  \* EMERGENCY_SUSPENSION_COOLDOWN_SECS, longer than Cooldown
          Prices,         \* what a session costs
          LowFee, MaxLowFee,   \* LOW_FEE_THRESHOLD, MAX_LOW_FEE_SESSIONS_PER_PAIR (5)
          RateLimit,      \* DEFAULT_MAX_REQUESTS_PER_MINUTE (30), counted per ledger
          MaxBooked,      \* bound on bookings
          Outsiders,      \* readers who take part in no session
          Tutor,          \* the mentor of the recorded sessions
          ChunkLists,     \* lists of chunk hashes
          Year,           \* how long a participant's own consent holds
          MaxGrants,      \* bound on consents, redactions and logged reads
          MaxReads,       \* bound on reads
          Slots, Lead,    \* times of sessions, MIN_COMMITMENT_LEAD_SECS
          ProofAge,       \* MAX_CONFLICT_PROOF_AGE_SECS
          MinFigures,     \* MIN_MARKET_DATA_POINTS (20)
          MaxPlanned, MaxPlanTime,  \* bounds on changes of plans and on their time
          MaxCareTime

VARIABLES care,       \* bookings of one mentor, as the monitoring sees them
          access,     \* reads of two learners' sessions by others
          recordings, \* recordings, consents and redactions
          plan,       \* the description of a session and the mentor's commitments
          wellness,   \* workloads of mentors, figures of a specialty
          pricing     \* bounds and recent prices of a token
care_state == <<care, access, recordings, plan, wellness, pricing>>
CareTick == CloseLedger(MaxCareTime)

-----------------------------------------------------------------------------
(* Bookings (register_session from the fee check on, with what it calls).   *)

NoEmergency == [suspend |-> FALSE, eligible_at |-> -1]
FairLoad == [fair |-> TRUE, risk |-> 0]
CareInit ==
    care = [pairs |-> [l \in Reviewers |-> <<>>], requests |-> <<>>, booked |-> {}, prices |-> <<>>,
            rate |-> <<0, 0>>, low |-> [l \in Reviewers |-> 0], count |-> [l \in Reviewers |-> 0],
            spend |-> [l \in Reviewers |-> 0], coordination |-> detect_coordination(<<>>),
            vulnerability |-> [l \in Reviewers |-> NotVulnerable], advice |-> [l \in Reviewers |-> 0],
            load |-> FairLoad, performance |-> NoRecord, behavior |-> NoBehavior, protection |-> NoProtection,
            emergency |-> NoEmergency, suspended |-> FALSE]

\* Mutant: more than the other rule asks for.
min_distinct_higher == 4000
min_distinct == 2000   \* RESOURCE_MIN_DISTINCT_BPS
\* detect_resource_competition
detect_resource_competition(log, authors) ==
    LET bursts == close_pairs(log, BurstWindow)
        risk == when(distinct_bps(log, authors) < min_distinct, 45) + (IF bursts >= 5 THEN 45 ELSE when(bursts >= 2, 20))
    IN  [fair |-> risk < 60, risk |-> risk]
\* verify_demand_authenticity; its bursts are of fifteen minutes, those above of one.
verify_demand_authenticity(log, authors) == gaming_risk(log, authors, 3000) < 60
\* validate_load_pattern: requests per minute of a window of five.
validate_load_pattern(n) ==
    LET rate == (n * 60) \div 300 IN IF rate >= 100 THEN 70 ELSE when(rate >= 50, 40)

\* record_monitoring_signals
record_monitoring_signals(s, l, at, price) ==
    [s EXCEPT !.pairs[l] = logged(@, at, LogCap), !.booked = @ \cup {l}, !.requests = logged(@, now, LogCap),
              !.prices = logged(@, price, LogCap)]

average(sum, n) == IF n = 0 THEN 0 ELSE sum \div n
\* Mutant: the cap replaces the price.
capped_price_always(price, cap) == cap
capped_price(price, cap) == least(price, cap)
\* enforce_learner_fair_pricing
enforce_learner_fair_pricing(price, own, platform, v) ==
    LET owned == IF v.burdened /\ own > 0 THEN capped_price(price, (own * 15000) \div 10000) ELSE price
    IN  IF price <= 0 \/ owned # price THEN owned
        ELSE IF v.at_risk /\ platform > 0 THEN capped_price(price, 2 * platform) ELSE price
\* enforce_fair_pricing: what the price should be, given what was known of the learner before
\* this booking. The caller only announces it.
enforce_fair_pricing(s, l, price) ==
    enforce_learner_fair_pricing(price, average(s.spend[l], s.count[l]), average(FoldSeq(+, 0, s.prices), Len(s.prices)),
                                 s.vulnerability[l])

\* Mutant: a suspended mentor is still booked.
may_be_booked_always(s) == TRUE
may_be_booked(s) == ~s.suspended
\* assess_learner_vulnerability, manage_system_load
assess_learner_vulnerability(s, l, price) == assess_vulnerability(s.count[l], price, average(s.spend[l], s.count[l]))
manage_system_load(s) == detect_resource_competition(s.requests, Cardinality(s.booked))
detect_mentor_coordination(s, l) == detect_coordination(s.pairs[l])
\* evaluate_fair_access: otherwise everything is undone.
evaluate_fair_access(flag) == flag.risk < 70
register_booking(l, at, price) ==
    LET recorded == record_monitoring_signals(care, l, at, price)
        flag == detect_mentor_coordination(recorded, l)
        s == [recorded EXCEPT !.count[l] = @ + 1, !.spend[l] = @ + price]
        asked == 1 + when(care.rate[1] = now, care.rate[2])
        low == care.low[l] + when(price < LowFee, 1)
    IN  /\ asked < RateLimit
        /\ low <= MaxLowFee
        /\ evaluate_fair_access(flag)
        /\ may_be_booked(care)
        /\ care' = [s EXCEPT !.rate = <<now, asked>>, !.low[l] = low, !.coordination = flag,
                             !.advice[l] = enforce_fair_pricing(s, l, price),
                             !.vulnerability[l] = assess_learner_vulnerability(s, l, price), !.load = manage_system_load(s)]

\* validate_usage_patterns: the load of the last window.
validate_usage_patterns(s) ==
    validate_load_pattern(Cardinality({i \in DOMAIN s.requests : now - s.requests[i] <= TightWindow}))
\* get_performance_status stores what it computes.
get_performance_status ==
    LET load == validate_usage_patterns(care) IN
    care' = [care EXCEPT !.performance = intervention(~care.load.fair \/ load >= 60, (care.load.risk + load) \div 2)]

restore_fair_performance ==
    /\ may_restore(care.performance)
    /\ care' = [care EXCEPT !.performance = NoRecord, !.load = FairLoad]

\* compute_emergency_intervention
suspension(protection) ==
    [suspend |-> protection.emergency, eligible_at |-> now + when(protection.emergency, SuspensionCooldown)]

\* monitor_mentor_behavior, by the backend, with the conduct it reports.
monitor_mentor_behavior(l, b) ==
    LET v == care.vulnerability[l]
        p == learner_protection(v, b, exploitation_patterns(v, b))
        s == [care EXCEPT !.behavior = b, !.protection = p]
    IN  care' = IF p.emergency THEN [s EXCEPT !.emergency = suspension(p), !.suspended = TRUE] ELSE s

\* By the backend; it asks for a record of protection, whatever that says.
trigger_emergency_protection ==
    /\ care.protection # NoProtection
    /\ care' = [care EXCEPT !.emergency = suspension(care.protection), !.suspended = TRUE]

\* Mutant: the suspension stays when its record goes.
unprotected_suspended(s) == [s EXCEPT !.protection = NoProtection, !.emergency = NoEmergency]
unprotected(s) == [s EXCEPT !.protection = NoProtection, !.emergency = NoEmergency, !.suspended = FALSE]
restore_protected_learner ==
    /\ may_restore(care.protection.record)
    /\ care' = unprotected(care)

Reports == {NoBehavior, detect_predatory_behavior(3, 1, 3, 0), detect_predatory_behavior(3, 1, 3, 6000)}
InCare(step) ==
    /\ (CareTick /\ UNCHANGED care) \/ (step /\ UNCHANGED now)
    /\ UNCHANGED <<watch_state, access, recordings, plan, wellness, pricing>>
CareNext == InCare(
    \/ /\ FoldFunctionOnSet(+, 0, care.count, Reviewers) < MaxBooked
       /\ \E l \in Reviewers, at \in {now, now + 2}, price \in Prices : register_booking(l, at, price)
    \/ \E l \in Reviewers, b \in Reports : monitor_mentor_behavior(l, b)
    \/ trigger_emergency_protection \/ restore_protected_learner)
\* One learner who books ahead, until the load is noticed.
LoadNext == InCare(
    \/ LET l == CHOOSE l \in Reviewers : TRUE IN
       care.count[l] < 3 * MaxBooked /\ register_booking(l, 2 * care.count[l], Max(Prices))
    \/ get_performance_status \/ restore_fair_performance)

\* A suspended mentor has an emergency record and the record of protection it came from, so
\* that the suspension can be ended: whatever assessments came in between.
SuspensionIsRecorded ==
    care.suspended => care.emergency # NoEmergency /\ care.protection # NoProtection

\* Nobody books a suspended mentor.
SuspendedIsNotBooked == [][care'.count # care.count => ~care.suspended]_care_state

\* The advised price never exceeds the one asked for and stays positive, whatever averages of
\* the learner and of the platform it is capped with.
AdviceIsFair == \A l \in Reviewers : care.count[l] > 0 => care.advice[l] \in 1 .. Max(Prices)

\* A load that is found unfair comes from demand that is artificial by the other rule, with its
\* longer bursts: the two verdicts on the same requests never contradict each other this way.
UnfairLoadIsArtificial ==
    ~care.load.fair => ~verify_demand_authenticity(care.requests, Cardinality(care.booked))

-----------------------------------------------------------------------------
(* Reads of sessions (enforce_privacy_boundaries and what it calls,         *)
(* shared/session_privacy). Every learner has one session, with the mentor. *)

Readers == Reviewers \cup Outsiders
AccessInit ==
    access = [log |-> [a \in Readers |-> <<>>], reached |-> [a \in Readers |-> {}],
              contained |-> {}, breached |-> {}, audit |-> [l \in Reviewers |-> <<>>], reads |-> 0,
              last |-> [l \in Reviewers |-> {}]]   \* history: who read a session out of scope

\* Mutant: one session read again and again counts as several.
distinct_sessions_repeated(s, a) == Len(s.log[a])
distinct_sessions(s, a) == Cardinality(s.reached[a])
\* detect_cross_session_leak
leak_risk(s, a) ==
    LET recent == Cardinality({i \in DOMAIN s.log[a] : now - s.log[a][i] <= TightWindow}) IN
    capped(15 * recent) + when(distinct_sessions(s, a) >= 2, 30)

\* Mutant: everyone's sessions are contained.
contained_learners_all(s, a) == Reviewers
contained_learners(s, a) == s.reached[a]
\* monitor_cross_session_leakage, which anyone may also call by itself.
with_containment(s, a) ==
    IF leak_risk(s, a) >= 60
    THEN [s EXCEPT !.contained = @ \cup {a}, !.breached = @ \cup contained_learners(s, a)] ELSE s
monitor_cross_session_leakage(a) == access' = with_containment(access, a)

\* A read of l's session by a. Reads by others are audited and noted, not refused.
enforce_privacy_boundaries(a, l) ==
    LET s == [access EXCEPT !.audit[l] = logged(@, <<a, a = l>>, LogCap), !.reads = @ + 1] IN
    /\ access.reads < MaxReads
    /\ access' = IF a = l THEN s
                 ELSE with_containment([s EXCEPT !.log[a] = logged(@, now, LogCap), !.reached[a] = @ \cup {l},
                                                 !.last[l] = @ \cup {a}], a)

\* Refused for others, with everything undone; refused for the learner while contained.
manage_session_data(l) ==
    /\ l \notin access.contained /\ l \notin access.breached
    /\ enforce_privacy_boundaries(l, l)

\* By the backend: the flags are cleared, the log and the sessions reached are not.
restore_learner_access(l) == access' = [access EXCEPT !.breached = @ \ {l}]
restore_accessor_access(a) == access' = [access EXCEPT !.contained = @ \ {a}]

AccessNext ==
    /\ \/ CareTick /\ UNCHANGED access
       \/ /\ \/ \E a \in Readers, l \in Reviewers : enforce_privacy_boundaries(a, l)
             \/ \E l \in Reviewers : manage_session_data(l) \/ restore_learner_access(l)
             \/ \E a \in Readers : monitor_cross_session_leakage(a) \/ restore_accessor_access(a)
          /\ UNCHANGED now
    /\ UNCHANGED <<watch_state, care, recordings, plan, wellness, pricing>>

\* A learner whose data is contained was read out of scope by someone: containing an accessor
\* does not reach learners whose sessions that accessor never asked for.
BreachHasAReader == \A l \in access.breached : access.last[l] # {}

\* Who is contained read two sessions of others, or one of them at least four times.
ContainedReadOthers ==
    \A a \in access.contained : Cardinality({l \in Reviewers : a \in access.last[l]}) >= 2 \/ Len(access.log[a]) >= 4

-----------------------------------------------------------------------------
(* Recordings of sessions (shared/recording_integrity). A learner stands    *)
(* for the one session with the mentor. Every recording has the same        *)
(* identifier, so the consents of its participants share one key; consents  *)
(* granted later are kept under the session.                                *)

RecordingId == "rec_"
RecordingsInit ==
    recordings = [of |-> NothingStored, consents |-> [k \in Reviewers \cup {RecordingId} |-> <<>>],
                  redactions |-> [l \in Reviewers |-> 0], log |-> <<>>, grants |-> 0,
                  shown |-> [l \in Reviewers |-> <<>>]]   \* history: what the last verification was shown

\* compute_merkle_root: an odd last node is paired with itself.
parents(level) ==
    [i \in 1 .. (Len(level) + 1) \div 2 |-> <<level[2 * i - 1], level[least(2 * i, Len(level))]>>]
compute_merkle_root(chunks) ==
    LET level[n \in 0 .. Len(chunks)] ==
          IF n = 0 THEN chunks ELSE IF Len(level[n - 1]) = 1 THEN level[n - 1] ELSE parents(level[n - 1])
    IN  level[Len(chunks)][1]

\* grant_consent
consent(about, grantor, grantee, role, until) ==
    [about |-> about, grantor |-> grantor, grantee |-> grantee, role |-> role, until |-> until, revoked |-> FALSE]

\* By the backend, again if it likes; the consents of the previous recording are replaced.
create_session_recording(l, chunks) ==
    recordings' = [recordings EXCEPT
      !.of = put(@, l, [chunks |-> chunks, root |-> compute_merkle_root(chunks), status |-> "Completed"]),
      !.consents[RecordingId] = <<consent(RecordingId, Tutor, Tutor, "Participant", now + Year),
                                  consent(RecordingId, l, l, "Participant", now + Year)>>,
      !.shown[l] = <<>>]

\* Mutant: a list that is shorter than the recorded one will do.
long_enough_or_shorter(recorded, provided) == TRUE
long_enough(recorded, provided) == Len(provided) >= Len(recorded)
\* verify_recording_integrity: what is stored is compared with what is provided.
is_intact(r, provided, same_content) ==
    /\ compute_merkle_root(provided) = r.root /\ same_content
    /\ \A i \in DOMAIN r.chunks \cap DOMAIN provided : r.chunks[i] = provided[i]
    /\ long_enough(r.chunks, provided)
verify_recording_integrity(l, provided, same_content) ==
    /\ l \in DOMAIN recordings.of
    /\ recordings' = IF is_intact(recordings.of[l], provided, same_content)
                     THEN [recordings EXCEPT !.of[l].status = "Verified", !.shown[l] = provided] ELSE recordings

\* By the mentor or the learner; the consent names the session, not the recording.
grant_recording_consent(l, grantor, grantee, role, until) ==
    /\ recordings.grants < MaxGrants /\ l \in DOMAIN recordings.of
    /\ recordings' = [recordings EXCEPT !.consents[l] = Append(@, consent(l, grantor, grantee, role, until)),
                                        !.grants = @ + 1]

\* Mutant: a consent that was revoked can be revoked again, and then holds.
with_revoked_toggled(consents, i) == [consents EXCEPT ![i].revoked = ~@]
with_revoked(consents, i) == IF consents[i].revoked THEN consents ELSE [consents EXCEPT ![i].revoked = TRUE]
\* The first consent of theirs that still holds.
revoke_recording_consent(k, revoker) ==
    \E i \in DOMAIN recordings.consents[k] :
      /\ recordings.consents[k][i].grantor = revoker
      /\ \A j \in 1 .. i - 1 : recordings.consents[k][j].grantor = revoker => recordings.consents[k][j].revoked
      /\ recordings' = [recordings EXCEPT !.consents[k] = with_revoked(@, i)]

\* By anyone who signs as administrator.
apply_recording_redaction(l) ==
    /\ l \in DOMAIN recordings.of /\ recordings.grants < MaxGrants
    /\ recordings' = [recordings EXCEPT !.redactions[l] = @ + 1, !.grants = @ + 1, !.of[l].status = "Redacted"]

\* emergency_privacy_protection revokes no consent and its redaction is not stored.
emergency_recording_protection(l) ==
    /\ l \in DOMAIN recordings.of
    /\ recordings' = [recordings EXCEPT !.of[l].status = "Redacted"]

\* Mutant: any consent will do.
holds_for_any(c, a, role) == c.grantee = a
holds_for(c, a, role) == c.about = RecordingId /\ c.grantee = a /\ c.role = role /\ ~c.revoked /\ c.until > now
\* check_recording_access, for someone with a role.
check_recording_access(l, a, role) ==
    \/ a \in {Tutor, l} \/ role = "Auditor"
    \/ \E i \in DOMAIN recordings.consents[l] : holds_for(recordings.consents[l][i], a, role)

\* Anyone may add to the one log.
log_recording_access(l, a) ==
    /\ l \in DOMAIN recordings.of /\ recordings.grants < MaxGrants
    /\ recordings' = [recordings EXCEPT !.log = Append(@, <<a, now>>), !.grants = @ + 1]

RecordingsNext ==
    /\ \/ CareTick /\ UNCHANGED recordings
       \/ /\ \/ \E l \in Reviewers, chunks \in ChunkLists :
                    \/ create_session_recording(l, chunks)
                    \/ \E same \in BOOLEAN : verify_recording_integrity(l, chunks, same)
             \/ \E l \in Reviewers, a \in Outsiders :
                    \/ \E g \in {Tutor, l}, until \in {now + 1, now + Year} :
                         grant_recording_consent(l, g, a, "Participant", until)
                    \/ apply_recording_redaction(l) \/ emergency_recording_protection(l) \/ log_recording_access(l, a)
             \/ \E k \in Reviewers \cup {RecordingId}, r \in {Tutor} : revoke_recording_consent(k, r)
          /\ UNCHANGED now
    /\ UNCHANGED <<watch_state, care, access, plan, wellness, pricing>>

\* A recording that counts as verified was shown with every chunk it has: the root alone does
\* not tell a list from one whose odd last chunk is repeated.
VerifiedIsComplete ==
    \A l \in DOMAIN recordings.of :
      recordings.of[l].status = "Verified" => IsPrefix(recordings.of[l].chunks, recordings.shown[l])

\* An outsider in an ordinary role sees a recording only by a consent of a participant that is
\* neither revoked nor over.
AccessNeedsConsent ==
    \A l \in Reviewers, a \in Outsiders : check_recording_access(l, a, "Participant")
      => \E i \in DOMAIN recordings.consents[l] :
           LET c == recordings.consents[l][i] IN c.grantee = a /\ ~c.revoked /\ c.until > now
\* Once a consent of a session is revoked it stays so.
RevocationStands ==
    [][\A l \in Reviewers : \A i \in DOMAIN recordings.consents[l] :
         recordings.consents[l][i].revoked => recordings'.consents[l][i].revoked]_care_state

-----------------------------------------------------------------------------
(* The description of a session and the commitments to its time             *)
(* (shared/metadata_validation, shared/scheduling_integrity).               *)

NoPlan == [description |-> "none", previous |-> "none", updates |-> <<>>, level |-> 0, audit |-> TRUE,
           protection |-> NoRecord, restored |-> FALSE, changed |-> <<>>]   \* history: when the description changed
PlanInit ==
    plan = [about |-> NoPlan, commits |-> NothingStored, log |-> <<>>, booked |-> NothingStored, overridden |-> {},
            touched |-> [t \in Slots |-> 0]]   \* history: when a commitment was last set or withdrawn

\* monitor_metadata_manipulation
manipulation_level(updates, unverified) == least(10 * updates, 50) + least(20 * unverified, 50)
\* Mutant: the update at hand is not counted.
recent_updates_before(log) == Cardinality({i \in 1 .. Len(log) - 1 : log[i] >= minus(now, TightWindow)})
recent_updates(log) == Cardinality({i \in DOMAIN log : log[i] >= minus(now, TightWindow)})

\* By anyone. What is refused counts as an update as well.
update_session_metadata(tags) ==
    LET a == plan.about
        log == logged(a.updates, now, LogCap)
        level == manipulation_level(recent_updates(log), when(a.description # tags, 1))
        seen == [a EXCEPT !.previous = a.description, !.updates = log, !.level = level]
    IN  plan' = [plan EXCEPT !.about =
                   IF level >= 50 THEN seen
                   ELSE [seen EXCEPT !.description = tags,
                                     !.changed = IF a.description # tags THEN logged(@, now, LogCap) ELSE @]]

\* By anyone, with the numbers they report; the next update overwrites the level.
monitor_metadata_changes(updates, unverified) ==
    plan' = [plan EXCEPT !.about.level = manipulation_level(updates, unverified)]

\* audit_information_accuracy
is_accurate(total, verified, flags) ==
    capped(30 * flags + 10 * minus(total, verified)) < 40 /\ (verified >= total \div 2 \/ total = 0)
audit_session_information(total, verified, flags) ==
    plan' = [plan EXCEPT !.about.audit = is_accurate(total, verified, flags)]

\* Nothing writes the records this reads, so that it always finds the description authentic.
protect_transparency ==
    plan' = [plan EXCEPT !.about.protection = intervention(FALSE, 0)]
restore_session_truth ==
    /\ may_restore(plan.about.protection)
    /\ plan' = [plan EXCEPT !.about.protection = NoRecord, !.about.restored = TRUE]

\* Mutant: a commitment made again keeps the time of the first.
commitment_kept(commits, slot, salt) ==
    [salt |-> salt, at |-> IF slot \in DOMAIN commits THEN commits[slot].at ELSE now]
commitment(commits, slot, salt) == [salt |-> salt, at |-> now]
set_availability(slot, salt) ==
    plan' = [plan EXCEPT !.commits = put(@, slot, commitment(@, slot, salt)), !.log = logged(@, now, LogCap),
                         !.touched[slot] = now]

\* Whether or not there is a commitment.
withdraw_availability(slot) ==
    plan' = [plan EXCEPT !.commits = del(@, slot), !.log = logged(@, now, LogCap), !.touched[slot] = now]

\* verify_availability_commitment
verify_availability_commitment(c, slot, salt) == c.salt = salt /\ minus(slot, c.at) >= Lead
\* The commitment stays, so that a slot whose session was cancelled is booked with the same salt.
schedule_session(slot, salt) ==
    /\ slot \in DOMAIN plan.commits
    /\ verify_availability_commitment(plan.commits[slot], slot, salt)
    /\ stored(plan.booked, slot, "Cancelled") = "Cancelled"   \* no conflict with another session
    /\ plan' = [plan EXCEPT !.booked = put(@, slot, "Pending")]

\* validate_conflict_proof: an old or a wrong proof changes nothing.
is_fresh(matches, issued_at) == matches /\ minus(now, issued_at) <= ProofAge
resolve_scheduling_conflict(slot, matches, issued_at) ==
    /\ is_fresh(matches, issued_at) => slot \in DOMAIN plan.booked
    /\ plan' = IF is_fresh(matches, issued_at) THEN [plan EXCEPT !.booked[slot] = "Cancelled"] ELSE plan
\* A cancelled session is confirmed too.
emergency_override(slot) ==
    /\ slot \in DOMAIN plan.booked
    /\ plan' = [plan EXCEPT !.booked[slot] = "Confirmed", !.overridden = @ \cup {slot}]

InPlan(step) ==
    /\ (CloseLedger(MaxPlanTime) /\ UNCHANGED plan) \/ (step /\ UNCHANGED now)
    /\ UNCHANGED <<watch_state, care, access, recordings, wellness, pricing>>
DescriptionNext == InPlan(
    \/ /\ Len(plan.about.updates) < MaxPlanned
       /\ \E tags \in {"algebra", "chess"} : update_session_metadata(tags)
    \/ \E n \in 0 .. 1 : monitor_metadata_changes(3 * n, 1) \/ audit_session_information(2, n, n)
    \/ protect_transparency \/ restore_session_truth)
AvailabilityNext == InPlan(
    \E slot \in Slots :
      \/ /\ Len(plan.log) < MaxPlanned
         /\ \/ \E salt \in {1, 2} : set_availability(slot, salt)
            \/ withdraw_availability(slot)
      \/ \E salt \in {1, 2} : schedule_session(slot, salt)
      \/ \E matches \in BOOLEAN, at \in 0 .. now : resolve_scheduling_conflict(slot, matches, at)
      \/ emergency_override(slot))

\* Of three changes of a description that went through, the last comes later than a window after
\* the first, although what is refused is remembered in the same log.
DescriptionsAreCalm ==
    \A i \in 3 .. Len(plan.about.changed) : plan.about.changed[i] - plan.about.changed[i - 2] > TightWindow

\* A session is scheduled only in a slot whose commitment was left alone from the lead time on:
\* setting it again, or withdrawing it, later than that closes the slot.
LateChangesCloseTheSlot ==
    [][\A t \in Slots : (stored(plan'.booked, t, "") = "Pending" /\ stored(plan.booked, t, "") # "Pending")
                          => plan.touched[t] + Lead <= t]_care_state

-----------------------------------------------------------------------------
(* Workloads of mentors (update_mentor_workload of reputation,              *)
(* shared/mentor_wellness). The registry has rules of its own on workloads  *)
(* nobody stores there, so that every mentor may accept and the first one   *)
(* preferred is assigned; the rules are checked on the reported workloads.  *)

MaxConcurrent == 5    \* MAX_CONCURRENT_SESSIONS
MaxWeeklyHours == 40
wellness_at_rest == [loads |-> NothingStored, levels |-> NothingStored, pauses |-> NothingStored, assigned |-> <<>>]

\* calculate_burnout_risk; its time is always 0, so that a rest that is over still counts.
calculate_burnout_risk(w) ==
    least((w.active * 3000) \div MaxConcurrent, 3000) + least((w.hours * 3000) \div MaxWeeklyHours, 3000)
      + least((w.weighted * 2000) \div (3 * MaxWeeklyHours), 2000) + when(w.rest_until > 0, 2000)
assess_burnout_risk(risk) ==
    IF risk >= 9000 THEN "critical" ELSE IF risk >= 7000 THEN "high" ELSE IF risk >= 5000 THEN "moderate" ELSE "low"

\* By anyone, for anyone. A pause is never ended, and the next one replaces it.
update_mentor_workload(r, w) ==
    LET risk == calculate_burnout_risk(w)
        s == [wellness EXCEPT !.loads = put(@, r, w), !.levels = put(@, r, assess_burnout_risk(risk))]
    IN  wellness' = IF assess_burnout_risk(risk) = "critical" THEN [s EXCEPT !.pauses = put(@, r, now + Lead)] ELSE s

has_room(w, hours) == w.active < MaxConcurrent /\ w.hours + hours <= MaxWeeklyHours /\ w.rest_until <= now
\* Mutant: only the worst risk counts.
burnout_threshold_worst == 10000
burnout_threshold == 7000   \* BURNOUT_RISK_THRESHOLD_BPS
can_accept_session(w, hours) == has_room(w, hours) /\ calculate_burnout_risk(w) < burnout_threshold

\* Mutant: the weekly load counts in favour of a mentor.
weighted_factor_more(w) == least((w.weighted * 10000) \div (3 * MaxWeeklyHours), 10000)
weighted_factor(w) == 10000 - least((w.weighted * 10000) \div (3 * MaxWeeklyHours), 10000)
fairness_score(w, preferred) ==
    (MaxConcurrent - w.active) * 2000 + (((MaxWeeklyHours - w.hours) * 1000) \div MaxWeeklyHours) * 3000
      + weighted_factor(w) \div 2 + when(preferred, 2000)
\* The first of the best, or else the first, whether or not there is room.
distribute_sessions_fairly(loads, mentors, hours) ==
    LET fit == {i \in DOMAIN mentors : mentors[i] \in DOMAIN loads /\ has_room(loads[mentors[i]], hours)}
        score(i) == fairness_score(loads[mentors[i]], TRUE)
        best == {i \in fit : \A j \in fit : score(j) < score(i) \/ (score(j) = score(i) /\ i <= j)}
    IN  IF fit = {} THEN mentors[1] ELSE mentors[CHOOSE i \in best : TRUE]
\* By the backend, who names the mentors; nothing but the event comes of it.
distribute_session_fairly(mentors, hours) ==
    wellness' = [wellness EXCEPT !.assigned = <<distribute_sessions_fairly(NothingStored, mentors, hours)>>]

\* Who is assigned has room if anyone has, and nobody with room carries less in every respect.
FairestIsAssigned ==
    \A mentors \in {<<a, b>> : a, b \in DOMAIN wellness.loads} :
      LET w(r) == wellness.loads[r]
          r == distribute_sessions_fairly(wellness.loads, mentors, 4)
      IN  \A q \in Range(mentors) : has_room(w(q), 4)
            => has_room(w(r), 4) /\ ~(w(q).active <= w(r).active /\ w(q).hours <= w(r).hours /\ w(q).weighted < w(r).weighted)

\* A mentor whose assessment is critical accepts no session, with the risk recomputed from the
\* workload and not read from the assessment.
CriticalAcceptsNothing ==
    \A r \in DOMAIN wellness.loads : wellness.levels[r] = "critical" => ~can_accept_session(wellness.loads[r], 0)

-----------------------------------------------------------------------------
(* Markets of specialties (shared/market_monitoring), in the registry; the  *)
(* reputation contract has the same functions.                              *)

NoBalance == [pressure |-> "stable", needed |-> FALSE, type |-> "none"]
\* assess_demand_authenticity of the shared library: what it makes of the change since the last
\* figures. It asks for twenty of them; the contracts keep none and pass none.
demand_score(m, past) ==
    IF Len(past) < MinFigures THEN 5000
    ELSE LET p == Last(past) IN
         10000 - when(p.demand > 0 /\ (m.demand - p.demand) * 10000 > 5000 * p.demand, 2000)
               - when(p.price > 0 /\ (m.price - p.price) * 10000 > 5000 * p.price, 1500)
entry_score(m, past) ==
    IF Len(past) < MinFigures THEN 0
    ELSE LET p == Last(past) IN
         when(m.mentors - p.mentors > 5 /\ m.learners - p.learners > 10, 3000) + when(m.share > 5000, 2000)
\* Mutant: a higher score is asked for.
organic_bound_higher == 7000
organic_bound == 6000
is_organic(m, past) == demand_score(m, past) >= organic_bound /\ entry_score(m, past) < 7000
\* detect_market_manipulation
manipulations(organic, entry, gap, needed, fixed) ==
    (IF ~organic /\ entry >= 7000 THEN {"artificial_demand"} ELSE {})
      \cup (IF gap < -20 /\ needed THEN {"supply_restriction"} ELSE {})
      \cup (IF fixed THEN {"price_manipulation"} ELSE {})
\* validate_price_discovery
price_gap_bps(a, b) == IF a = 0 \/ b = 0 THEN 0 ELSE ((Max({a, b}) - Min({a, b})) * 10000) \div Max({a, b})
is_fixed(price, outside, past) ==
    \/ price_gap_bps(price, outside) > 2000
    \/ Len(past) >= 10 /\ Cardinality({i \in Len(past) - 9 .. Len(past) : past[i] = Last(past)}) >= 8

\* By anyone who signs as administrator; no figures are kept beside the last.
record_specialization_metrics(m) == wellness' = [wellness EXCEPT !.metrics = <<m>>]
\* The alert is asked for with a price that is not questioned and no gap.
assess_demand_authenticity ==
    LET m == wellness.metrics[1] IN
    /\ wellness.metrics # <<>>
    /\ wellness' = [wellness EXCEPT !.authentic = is_organic(m, <<>>),
                      !.alert = @ \cup manipulations(is_organic(m, <<>>), entry_score(m, <<>>), 0, FALSE, FALSE)]

\* Mutant: many learners lower the price.
equilibrium_price_inverse(m) ==
    LET ratio == IF m.mentors > 0 THEN (m.learners * 10000) \div m.mentors ELSE 10000 IN
    IF ratio > 15000 THEN (m.price * 80) \div 100 ELSE IF ratio < 5000 THEN (m.price * 120) \div 100 ELSE m.price
equilibrium_price(m) ==
    LET ratio == IF m.mentors > 0 THEN (m.learners * 10000) \div m.mentors ELSE 10000 IN
    IF ratio > 15000 THEN (m.price * 120) \div 100 ELSE IF ratio < 5000 THEN (m.price * 80) \div 100 ELSE m.price
\* Mutant: a small surplus of mentors counts for the kind of intervention.
surplus_of_concern_small == -5
surplus_of_concern == -10
balance_supply_demand(target) ==
    LET m == wellness.metrics[1]
        eq == equilibrium_price(m)
        wanted == IF target > 0 /\ m.sessions > 0 THEN (m.sessions * 100) \div target ELSE m.mentors
        gap == wanted - m.mentors
        unstable == m.spread > m.price \div 2
    IN  /\ wellness.metrics # <<>>
        /\ wellness' = [wellness EXCEPT !.balance =
             [pressure |-> IF m.price > (eq * 110) \div 100 THEN "downward"
                           ELSE IF m.price < (eq * 90) \div 100 THEN "upward" ELSE "stable",
              needed |-> gap > 5 \/ gap < -10 \/ unstable,
              type |-> IF gap > 10 THEN "recruit_mentors" ELSE IF gap < surplus_of_concern THEN "reduce_mentors"
                       ELSE IF unstable THEN "price_stabilization" ELSE "none"]]
\* It overwrites, and stays active when its time is over.
trigger_market_stabilization(hours) == wellness' = [wellness EXCEPT !.stabilized = <<now + hours>>]
validate_price_discovery(outside, past) ==
    /\ wellness.metrics # <<>>
    /\ wellness' = [wellness EXCEPT !.fixed = is_fixed(wellness.metrics[1].price, outside, past)]

WellnessInit ==
    wellness = wellness_at_rest @@ [metrics |-> <<>>, authentic |-> TRUE, alert |-> {}, balance |-> NoBalance,
                                    stabilized |-> <<>>, fixed |-> FALSE]
InWellness(step) ==
    /\ (CareTick /\ UNCHANGED wellness) \/ (step /\ UNCHANGED now)
    /\ UNCHANGED <<watch_state, care, access, recordings, plan, pricing>>
Loads == {w \in [active : {1, 4}, hours : {10, 40}, weighted : {30, 120}, rest_until : 0 .. 1] :
            w.active = 4 <=> w.hours = 40}
WellnessNext == InWellness(
    \/ \E r \in Reviewers, w \in Loads : update_mentor_workload(r, w)
    \/ \E a, b \in Reviewers : distribute_session_fairly(<<a, b>>, 4))
Figures == {m \in [sessions : {0, 4}, mentors : {1, 30}, learners : {1, 60}, price : {10, 100}, spread : {3, 60},
                   demand : {50, 90}, share : {6000}] : m.price = 100 <=> m.demand = 90}
SpecialtiesNext == InWellness(
    \/ \E m \in Figures : record_specialization_metrics(m)
    \/ assess_demand_authenticity
    \/ \E target \in {0, 20, 50} : balance_supply_demand(target)
    \/ \E p \in {90, 200}, past \in {<<>>, [i \in 1 .. 10 |-> 5]} : validate_price_discovery(p, past)
    \/ trigger_market_stabilization(1))

\* The kind of intervention and the need for one are decided by different bounds: where a kind
\* is named, one is needed.
KindIsNeeded == wellness.balance.type # "none" => wellness.balance.needed

\* The price is pushed up only where learners are many for the mentors, and down only where they
\* are few: the rounding of the two percentages never turns it around.
PressureFollowsDemand ==
    [][wellness'.balance # wellness.balance =>
         LET m == wellness.metrics[1] IN
         /\ wellness'.balance.pressure = "upward" => 2 * m.learners > 3 * m.mentors
         /\ wellness'.balance.pressure = "downward" => 2 * m.learners < m.mentors]_care_state

\* Demand is found organic or not by the number of figures alone: with enough of them no pair
\* of changes since the last ones, in demand, price, mentors and learners together, is too much.
VerdictIsOfHistory ==
    \A i \in DOMAIN wellness.metrics, p \in Figures :
      LET m == wellness.metrics[i] IN is_organic(m, [j \in 1 .. MinFigures |-> p]) /\ ~is_organic(m, <<>>)

-----------------------------------------------------------------------------
(* Prices of one token (the pricing functions of treasury,                  *)
(* shared/pricing_protection). The registry asks for coordination in the    *)
(* same way, on the prices of its bookings.                                 *)

Unlimited == 1000000   \* no ceiling
PricingInit == pricing = [benchmark |-> 0, floor |-> 0, ceiling |-> Unlimited, deviation |-> 3000, log |-> <<>>, suspicious |-> FALSE]
set_benchmark_rate(rate) == rate > 0 /\ pricing' = [pricing EXCEPT !.benchmark = rate]
set_pricing_bounds(floor, ceiling, deviation) ==
    /\ 0 <= floor /\ floor <= ceiling
    /\ pricing' = [pricing EXCEPT !.floor = floor, !.ceiling = ceiling, !.deviation = least(deviation, 10000)]

\* validate_market_rate
is_inflated(price) ==
    price > 0 /\ (pricing.benchmark > 0 =>
      price > pricing.benchmark /\ ((price - pricing.benchmark) * 10000) \div pricing.benchmark > pricing.deviation)
\* Mutant: twice the deviation is allowed.
max_allowed_twice(benchmark, deviation) == benchmark + (2 * benchmark * deviation) \div 10000
max_allowed(benchmark, deviation) == benchmark + (benchmark * deviation) \div 10000
enforced_price(price) ==
    LET limited == IF is_inflated(price) /\ pricing.benchmark > 0
                   THEN least(price, max_allowed(pricing.benchmark, pricing.deviation)) ELSE price
    IN  least(Max({limited, pricing.floor}), pricing.ceiling)

prices_match(a, b) == (Max({a, b}) - Min({a, b})) <= (Max({a, b}) * 200) \div 10000
log_pairs(log) == {p \in (DOMAIN log) \X (DOMAIN log) : p[1] < p[2]}
\* Mutant: prices at about the same time are enough.
coordination_risk_timed(matching, clustered) == when(matching >= 1, 35) + when(clustered >= 1, 60)
coordination_risk(matching, clustered) ==
    when(matching >= 1, 35) + when(clustered >= 1, 25) + when(matching >= 2 /\ clustered >= 2, 30)
matching_pairs(log) == Cardinality({p \in log_pairs(log) : prices_match(log[p[1]].price, log[p[2]].price)})
clustered_pairs(log) == Cardinality({p \in log_pairs(log) : log[p[2]].at - log[p[1]].at < Lead})
\* protect_pricing_algorithms, by the administrator or an authorized caller; nothing is refused.
protect_pricing_algorithms(price) ==
    LET log == logged(pricing.log, [price |-> price, at |-> now], MaxPlanned) IN
    pricing' = [pricing EXCEPT !.log = log,
                  !.suspicious = coordination_risk(matching_pairs(log), clustered_pairs(log)) >= 60]

InPricing(step) ==
    /\ (CloseLedger(MaxPlanTime) /\ UNCHANGED pricing) \/ (step /\ UNCHANGED now)
    /\ UNCHANGED <<watch_state, care, access, recordings, plan, wellness>>
PricingNext == InPricing(
    \/ \E rate \in {50, 100} : set_benchmark_rate(rate)
    \/ \E floor, ceiling \in {0, 60, 140} : set_pricing_bounds(floor, ceiling, 2000))
PricesNext == InPricing(\E price \in {100, 101, 130} : protect_pricing_algorithms(price))

\* A price that was enforced is within the bounds, is not inflated itself unless it is the floor,
\* and stays as it is when it is enforced again.
EnforcedIsFair ==
    \A price \in {1, 49, 61, 100, 119, 120, 121, 200} :
      LET e == enforced_price(price) IN
      /\ e \in pricing.floor .. pricing.ceiling
      /\ pricing.benchmark > 0 => (~is_inflated(e) \/ e = pricing.floor)
      /\ enforced_price(e) = e

\* Prices are suspected only if two of them match and two of them came close together.
SuspectedPricesMatch ==
    pricing.suspicious => matching_pairs(pricing.log) > 0 /\ clustered_pairs(pricing.log) > 0
====
