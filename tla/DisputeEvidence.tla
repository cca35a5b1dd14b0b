---- MODULE DisputeEvidence ----
(* contracts/dispute_evidence: the evidence of one disputed escrow, its    *)
(* resolution and the one appeal, judged by an arbitrator that governance  *)
(* names. Which disputes and arbitrators the justice heuristics flag is    *)
(* left open. The session ended at time 0.                                 *)
EXTENDS Host, Integers, Sequences, FiniteSets

CONSTANTS
    DisputeParties,      \* the mentor and the learner
    Judges,              \* addresses that act as arbitrators
    ContentHashes,       \* hashes of documents
    EvidenceWindow,      \* WindowSecs after the end of the session
    SubmissionCooldown,  \* SUBMISSION_COOLDOWN_SECS
    ResolutionDelay,     \* MIN_RESOLUTION_DELAY_SECS
    AppealPeriod,        \* APPEAL_PERIOD_SECS
    MaxEvidence,         \* MAX_EVIDENCE_ITEMS
    DisputeClock         \* bound on time

ASSUME DisputeAssumption ==
    {EvidenceWindow, SubmissionCooldown, ResolutionDelay, AppealPeriod} \subseteq Nat

Unruled == [judge |-> "none"]

VARIABLES
    opened_at,       \* DataKey::DisputeOpenedAt, -1 when not recorded
    escrow_disputed, \* external: the escrow contract still says Disputed
    evidence,        \* DataKey::Evidence: submitter, hash, time, cooldown in force
    last_submission, \* DataKey::LastSubmission(submitter), 0 when absent
    cooldown_enabled,\* DataKey::CooldownEnabled
    ruling,          \* DataKey::Resolution or Unruled
    appeal_ends,     \* DataKey::AppealPeriodEnds
    appeal_judge,    \* DataKey::AppealArbitrator, {} or one address
    registered,      \* external: arbitrators of the governance contract
    first_judge      \* history: who ruled first, {} or one address

dispute_vars ==
    <<opened_at, escrow_disputed, evidence, last_submission, cooldown_enabled, ruling, appeal_ends,
      appeal_judge, registered, first_judge>>

DisputeInit ==
    /\ now = 0 /\ opened_at = -1 /\ escrow_disputed = TRUE
    /\ evidence = << >> /\ last_submission = [p \in DisputeParties |-> 0] /\ cooldown_enabled = TRUE
    /\ ruling = Unruled /\ appeal_ends = 0 /\ appeal_judge = {}
    /\ registered \in SUBSET Judges \ {{}} /\ first_judge = {}

\* By the admin, once.
record_dispute_opened ==
    /\ opened_at = -1 /\ opened_at' = now
    /\ UNCHANGED <<now, escrow_disputed, evidence, last_submission, cooldown_enabled, ruling,
                   appeal_ends, appeal_judge, registered, first_judge>>

set_cooldown_enabled(enabled) ==
    /\ cooldown_enabled' = enabled /\ enabled # cooldown_enabled
    /\ UNCHANGED <<now, opened_at, escrow_disputed, evidence, last_submission, ruling, appeal_ends,
                   appeal_judge, registered, first_judge>>

\* Mutant: the time is not stored.
submitted_now_lost(p) == last_submission[p]

submitted_now(p) == now

\* Also after the resolution, as long as the window is open.
submit_evidence(p, hash) ==
    /\ escrow_disputed
    /\ now <= EvidenceWindow
    /\ cooldown_enabled => now >= last_submission[p] + SubmissionCooldown
    /\ last_submission' = IF cooldown_enabled THEN [last_submission EXCEPT ![p] = submitted_now(p)]
                          ELSE last_submission
    /\ Len(evidence) < MaxEvidence
    /\ \A i \in DOMAIN evidence : evidence[i].by # p \/ evidence[i].hash # hash
    /\ evidence' = Append(evidence, [by |-> p, hash |-> hash, at |-> now, paced |-> cooldown_enabled])
    /\ UNCHANGED <<now, opened_at, escrow_disputed, cooldown_enabled, ruling, appeal_ends,
                   appeal_judge, registered, first_judge>>

\* Mutant: the appeal opens a new period.
appeal_period_renewed(is_appeal) == now + AppealPeriod

appeal_period(is_appeal) == IF is_appeal THEN appeal_ends ELSE now + AppealPeriod

\* The first resolution, by whoever signs as arbitrator, after the delay when there is a record.
first_resolution == ruling = Unruled /\ (opened_at # -1 => now >= opened_at + ResolutionDelay)

\* On appeal the named arbitrator rules, as often as wanted until the period ends.
appeal_resolution(judge) ==
    ruling # Unruled /\ appeal_judge # {} /\ judge \in appeal_judge /\ now <= appeal_ends

\* The resolution keeps the root of the evidence there is; the number of items stands for it.
submit_resolution(judge, is_appeal, release_to_mentor) ==
    /\ escrow_disputed
    /\ IF is_appeal THEN appeal_resolution(judge) ELSE first_resolution
    /\ ruling' = [judge |-> judge, to_mentor |-> release_to_mentor, root |-> Len(evidence),
                  on_appeal |-> is_appeal]
    /\ appeal_ends' = appeal_period(is_appeal)
    /\ first_judge' = IF is_appeal THEN first_judge ELSE {judge}
    /\ UNCHANGED <<now, opened_at, escrow_disputed, evidence, last_submission, cooldown_enabled,
                   appeal_judge, registered>>

\* Mutant: the arbitrator governance selects is taken as it is.
select_appeal_arbitrator_any(candidate, original) == registered

\* Governance's candidate for the dispute, or the first other arbitrator on its list.
select_appeal_arbitrator(candidate, original) ==
    IF candidate # original THEN {candidate} ELSE registered \ {original}

\* By a party, once, within the period.
submit_appeal_for_dispute(candidate) ==
    /\ escrow_disputed /\ ruling # Unruled /\ now <= appeal_ends /\ appeal_judge = {}
    /\ \E judge \in select_appeal_arbitrator(candidate, ruling.judge) : appeal_judge' = {judge}
    /\ UNCHANGED <<now, opened_at, escrow_disputed, evidence, last_submission, cooldown_enabled,
                   ruling, appeal_ends, registered, first_judge>>

\* External: the escrow contract resolves the dispute; governance changes its list.
escrow_resolved ==
    /\ escrow_disputed /\ escrow_disputed' = FALSE
    /\ UNCHANGED <<now, opened_at, evidence, last_submission, cooldown_enabled, ruling, appeal_ends,
                   appeal_judge, registered, first_judge>>

governance_changes(judges) ==
    /\ judges # {} /\ judges # registered /\ registered' = judges
    /\ UNCHANGED <<now, opened_at, escrow_disputed, evidence, last_submission, cooldown_enabled,
                   ruling, appeal_ends, appeal_judge, first_judge>>

DisputeTick == CloseLedger(DisputeClock) /\ UNCHANGED dispute_vars

DisputeNext ==
    \/ record_dispute_opened
    \/ \E enabled \in BOOLEAN : set_cooldown_enabled(enabled)
    \/ \E p \in DisputeParties, hash \in ContentHashes : submit_evidence(p, hash)
    \/ \E judge \in Judges, is_appeal, to_mentor \in BOOLEAN : submit_resolution(judge, is_appeal, to_mentor)
    \/ \E candidate \in registered : submit_appeal_for_dispute(candidate)
    \/ \E judges \in SUBSET Judges : governance_changes(judges)
    \/ escrow_resolved
    \/ DisputeTick

-----------------------------------------------------------------------------
\* A ruling on appeal is never by the arbitrator whose ruling was appealed, whatever governance
\* did with its list in between, and only the ruling at the end of an appeal can differ from it.
AppealHasAnotherJudge ==
    ruling # Unruled =>
      IF ruling.on_appeal THEN ruling.judge \notin first_judge ELSE first_judge = {ruling.judge}

\* Once the appeal period has ended the ruling stands, and it ends where the first ruling put it.
RulingIsFinal ==
    [][ruling # Unruled => /\ appeal_ends' = appeal_ends
                           /\ now > appeal_ends => ruling' = ruling]_dispute_vars

\* Two submissions of one party, both made under the cooldown, are at least the cooldown apart,
\* also when an admin suspended the cooldown in between.
SubmissionsAreSpaced ==
    \A i, j \in DOMAIN evidence :
      i < j /\ evidence[i].by = evidence[j].by /\ evidence[i].paced /\ evidence[j].paced =>
        evidence[j].at >= evidence[i].at + SubmissionCooldown
====
