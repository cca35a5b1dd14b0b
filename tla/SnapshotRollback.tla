-------------------------- MODULE SnapshotRollback --------------------------
(***************************************************************************)
(* Disaster recovery of escrow/src/lib.rs, shared/src/disaster_recovery.rs *)
(* and shared/src/emergency_rollback.rs: the admin takes snapshots of the  *)
(* escrow records, and a proposal that emergency signers and governance    *)
(* approved writes one of them back after a review period, while the       *)
(* escrows go on. The code the rollback reinstalls is the code modelled    *)
(* here: the snapshot was taken before the upgrade it undoes.              *)
(***************************************************************************)
EXTENDS EmergencySigners, SequencesExt

CONSTANTS
    SnapshotIds,       \* identifiers the admin may give to a snapshot
    NoSnapshot,        \* no snapshot is stored under an identifier
    MaxSnapshots,      \* MAX_SNAPSHOTS
    RollbackWindow,    \* ROLLBACK_MAX_WINDOW_SECS
    ReviewPeriod,      \* ROLLBACK_COMMUNITY_REVIEW_SECS
    GovernanceIds,     \* identifiers of governance proposals
    NoProposal,        \* no governance proposal is linked
    MaxRollbacks       \* bound: rollback proposals in a behaviour

ASSUME RollbackAssumption ==
    /\ MaxSnapshots \in Nat \ {0}
    /\ RollbackWindow \in Nat /\ ReviewPeriod \in Nat /\ MaxRollbacks \in Nat
    /\ NoProposal \notin GovernanceIds

VARIABLES
    snapshots,     \* DataKey::Snapshot(id) and DataKey::SnapshotMetadata(id)
    index,         \* DataKey::SnapshotIndex
    rollbacks,     \* DataKey::EmergencyRollback(1 .. EmergencyRollbackCount)
    preserved,     \* DataKey::PreservedTransitionLog(id)
    restored       \* history: executed rollbacks [created_at, proposed_at, logs]

rvars == <<snapshots, index, signers, rollbacks, preserved, restored>>

RollbackIds == 1 .. Len(rollbacks)

NothingRestored ==
    /\ snapshots = [s \in SnapshotIds |-> NoSnapshot]
    /\ index = << >>
    /\ rollbacks = << >>
    /\ preserved = [i \in EscrowIds |-> << >>]
    /\ restored = << >>

RollbackInit == signers = {} /\ NothingRestored

-----------------------------------------------------------------------------
(* Snapshots.                                                              *)

\* push_snapshot_index: the new identifier goes to the end, whether or not it is there.
pushed(sid) == Append(index, sid)

\* The records, and for reference the fee rate, at the time of the snapshot.
Captured == [created_at |-> now, record_count |-> escrow_count,
             records |-> [i \in 1 .. escrow_count |-> escrows[i]], fee_bps |-> fee_bps]

\* The entries of an identifier that falls out of the window are removed before the new
\* snapshot is stored.
snapshot_state(sid) ==
    LET evicted == IF Len(pushed(sid)) > MaxSnapshots THEN {Head(index)} ELSE {} IN
    /\ index' = IF evicted = {} THEN pushed(sid) ELSE Tail(pushed(sid))
    /\ snapshots' = [s \in SnapshotIds |->
                       IF s = sid THEN Captured
                       ELSE IF s \in evicted THEN NoSnapshot ELSE snapshots[s]]
    /\ UNCHANGED <<vars, signers, rollbacks, preserved, restored>>

\* Mutant: the status of the records is not compared.
compared_without_status(e) ==
    <<e.mentor, e.learner, e.amount, e.platform_fee, e.net_amount,
      e.session_end_time, e.total_sessions, e.sessions_completed>>

\* The fields of a record verify_post_upgrade_state compares.
compared(e) ==
    <<e.mentor, e.learner, e.amount, e.status, e.platform_fee, e.net_amount,
      e.session_end_time, e.total_sessions, e.sessions_completed>>

\* verify_post_upgrade_state reports no mismatch.
verifies(sid) ==
    LET s == snapshots[sid] IN
    /\ escrow_count = s.record_count
    /\ \A i \in DOMAIN s.records : compared(s.records[i]) = compared(escrows[i])

-----------------------------------------------------------------------------
(* Authorisation of a rollback.                                            *)

change_signers(S) ==
    /\ registered(S)
    /\ UNCHANGED <<vars, snapshots, index, rollbacks, preserved, restored>>

\* Mutant: only the age is looked at, with a saturating subtraction.
validate_scope_window_saturating(t, created_at) == t - created_at <= RollbackWindow

\* The snapshot is neither younger than the proposal nor too old.
validate_scope_window(t, created_at) ==
    created_at <= t /\ t - created_at <= RollbackWindow

\* The scope is always the escrow contract and the digests are never zero here: any other
\* request panics.
propose_emergency_rollback(proposer, sid) ==
    /\ Len(rollbacks) < MaxRollbacks
    /\ proposer \in signers
    /\ snapshots[sid] # NoSnapshot
    /\ validate_scope_window(now, snapshots[sid].created_at)
    /\ rollbacks' = Append(rollbacks,
            [snapshot_id |-> sid, proposed_at |-> now, review_ends_at |-> now + ReviewPeriod,
             technical_signers |-> {proposer}, governance_proposal_id |-> NoProposal,
             governance_approved |-> FALSE, executed |-> FALSE])
    /\ UNCHANGED <<vars, snapshots, index, signers, preserved, restored>>

approve_technical_rollback(signer, k) ==
    /\ signer \in signers
    /\ ~rollbacks[k].executed
    /\ rollbacks' = [rollbacks EXCEPT ![k].technical_signers = @ \cup {signer}]
    /\ UNCHANGED <<vars, snapshots, index, signers, preserved, restored>>

\* The governance contract opens its review, and reports its vote.
link_governance_rollback_review(k, g) ==
    /\ rollbacks' = [rollbacks EXCEPT ![k].governance_proposal_id = g]
    /\ UNCHANGED <<vars, snapshots, index, signers, preserved, restored>>

mark_gov_rollback_approved(k, g) ==
    /\ rollbacks[k].governance_proposal_id = g
    /\ rollbacks' = [rollbacks EXCEPT ![k].governance_approved = TRUE]
    /\ UNCHANGED <<vars, snapshots, index, signers, preserved, restored>>

ready_to_execute(r) ==
    /\ ~r.executed
    /\ r.governance_approved
    /\ Cardinality(r.technical_signers) = Threshold
    /\ now >= r.review_ends_at

\* Mutant: whoever was a signer when approving is good enough.
validate_technical_signatures_stale(approvals) == Cardinality(approvals) = Threshold

\* The approvals are checked against the signers registered now.
validate_technical_signatures(approvals) ==
    Cardinality(approvals) = Threshold /\ approvals \subseteq signers

-----------------------------------------------------------------------------
(* Execution.                                                              *)

\* Mutant: a log that was archived before is not archived again.
archive_once(records) ==
    [i \in EscrowIds |-> IF i \in DOMAIN records /\ preserved[i] = << >> THEN log[i]
                         ELSE preserved[i]]

\* The archive after the logs of the snapshot's escrows were copied into it.
archive(records) ==
    [i \in EscrowIds |-> IF i \in DOMAIN records THEN log[i] ELSE preserved[i]]

\* Anyone may call it, also apart from a rollback.
preserve_audit_data(k) ==
    /\ snapshots[rollbacks[k].snapshot_id] # NoSnapshot
    /\ preserved' = archive(snapshots[rollbacks[k].snapshot_id].records)
    /\ UNCHANGED <<vars, snapshots, index, signers, rollbacks, restored>>

\* The records are overwritten; balances, logs, failure records and the escrow count are
\* left as they are. When a condition fails the call returns false and changes nothing.
emergency_rollback(k) ==
    LET r == rollbacks[k]
        s == snapshots[r.snapshot_id]
    IN  /\ ready_to_execute(r)
        /\ validate_technical_signatures(r.technical_signers)
        /\ s # NoSnapshot
        /\ validate_scope_window(r.proposed_at, s.created_at)
        /\ preserved' = archive(s.records)
        /\ escrows' = [i \in EscrowIds |->
                         IF i \in DOMAIN s.records THEN s.records[i] ELSE escrows[i]]
        /\ rollbacks' = [rollbacks EXCEPT ![k].executed = TRUE]
        /\ restored' = Append(restored,
                [created_at |-> s.created_at, proposed_at |-> r.proposed_at,
                 logs |-> [i \in DOMAIN s.records |-> log[i]]])
        /\ UNCHANGED <<now, sessions, log, balance, retry, isolated, low_fee, config, paid,
                       snapshots, index, signers>>

Recovery ==
    \/ \E sid \in SnapshotIds : snapshot_state(sid)
    \/ \E S \in SUBSET Signers : change_signers(S)
    \/ \E g \in Signers, sid \in SnapshotIds : propose_emergency_rollback(g, sid)
    \/ \E k \in RollbackIds :
         \/ \E g \in Signers : approve_technical_rollback(g, k)
         \/ \E g \in GovernanceIds :
              link_governance_rollback_review(k, g) \/ mark_gov_rollback_approved(k, g)
         \/ preserve_audit_data(k)
         \/ emergency_rollback(k)

RollbackSpec == Init /\ RollbackInit /\ [][Recovery \/ (Next /\ UNCHANGED rvars)]_<<vars, rvars>>

\* The escrow calls that change a record while a rollback is under way, for the small instance.
Business ==
    \/ Create
    \/ \E id \in EscrowIds :
         \/ \E c \in Users : release_partial(c, id) \/ dispute(c, id)
         \/ refund(id)
    \/ \E r \in FeeRates : update_fee(r)
    \/ Tick

BusinessSpec ==
    Init /\ RollbackInit /\ [][Recovery \/ (Business /\ UNCHANGED rvars)]_<<vars, rvars>>

SignerSymmetry == Permutations(Signers)

-----------------------------------------------------------------------------
\* What an executed rollback wrote back is a state the contract had within the window before
\* the rollback was proposed, also when the snapshot's identifier was used again during the
\* review: signers and governance never approve one state and get a later one.
RestoredIsRecent ==
    \A k \in 1 .. Len(restored) :
        /\ restored[k].created_at <= restored[k].proposed_at
        /\ restored[k].proposed_at - restored[k].created_at <= RollbackWindow

\* Whenever the records are written back, as many present signers as required agree,
\* governance does too, and the review period of the proposal is over: changing the signers
\* between approval and execution takes the approval away.
RollbackIsAuthorised ==
    [][\A k \in RollbackIds :
         rollbacks'[k].executed # rollbacks[k].executed =>
             /\ rollbacks[k].technical_signers \subseteq signers
             /\ Cardinality(rollbacks[k].technical_signers) >= Threshold
             /\ rollbacks[k].governance_approved
             /\ now >= rollbacks[k].proposed_at + ReviewPeriod]_<<vars, rvars>>

\* No rollback, nor a later call of preserve_audit_data by anyone, loses a transition that
\* was logged before it: the archive keeps the whole log of every record it overwrote.
ArchiveIsComplete ==
    \A k \in 1 .. Len(restored) : \A i \in DOMAIN restored[k].logs :
        IsPrefix(restored[k].logs[i], preserved[i])

\* A snapshot that verifies without mismatch is the present state: restoring it would change
\* no record, although only some of the fields are compared.
CleanMeansIdentical ==
    \A sid \in SnapshotIds :
        (snapshots[sid] # NoSnapshot /\ verifies(sid)) =>
            \A i \in DOMAIN snapshots[sid].records : snapshots[sid].records[i] = escrows[i]

\* A rollback restores what was agreed on: a recent state, with the logs it overwrites kept,
\* and a verification that finds no mismatch means that there is nothing to restore.
RollbackIsFaithful == RestoredIsRecent /\ ArchiveIsComplete /\ CleanMeansIdentical

-----------------------------------------------------------------------------
(* What the documentation says, and the code does not do.                  *)

\* The table of constants says that the threshold is the minimum number of approvals.
EnoughApprovalsSuffice ==
    \A k \in RollbackIds :
        LET r == rollbacks[k]
            s == snapshots[r.snapshot_id]
        IN  (/\ ~r.executed /\ r.governance_approved /\ now >= r.review_ends_at
             /\ Cardinality(r.technical_signers) >= Threshold
             /\ r.technical_signers \subseteq signers
             /\ s # NoSnapshot /\ validate_scope_window(r.proposed_at, s.created_at))
            => ENABLED emergency_rollback(k)
=============================================================================
