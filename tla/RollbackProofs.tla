---------------------------- MODULE RollbackProofs ----------------------------
(***************************************************************************)
(* Proofs about SnapshotRollback for every number of escrows, snapshots    *)
(* and proposals: whenever records are written back, signers, governance   *)
(* and the review period agree to it; what is written back is recent; and  *)
(* no transition that was logged is ever lost.                             *)
(***************************************************************************)
EXTENDS SnapshotRollback, EscrowProofs

-----------------------------------------------------------------------------
(* The strengthened invariant.                                             *)

\* The record r of a snapshot and the present record e are of the same escrow.
SameEscrow(r, e) == r = e \/ SameTerms(r, e)

\* Every escrow that was counted exists, and has a log.
Counted ==
    /\ Loose /\ log \in [EscrowIds -> Seq(LogEntry)]
    /\ \A i \in EscrowIds : i <= escrow_count => escrows[i].status # "None"

\* A stored snapshot s has records of escrows that exist.
Stored(s) ==
    /\ s.created_at \in Nat /\ s.record_count \in 0 .. escrow_count
    /\ DOMAIN s.records = 1 .. s.record_count
    /\ \A i \in 1 .. s.record_count :
         s.records[i] \in LooseRecord /\ s.records[i].status # "None" /\ SameEscrow(s.records[i], escrows[i])

SnapshotsHold == \A sid \in SnapshotIds : snapshots[sid] # NoSnapshot => Stored(snapshots[sid])

RollbackRecord ==
    [snapshot_id : SnapshotIds, proposed_at : Nat, review_ends_at : Nat,
     technical_signers : SUBSET Signers, governance_proposal_id : GovernanceIds \cup {NoProposal},
     governance_approved : BOOLEAN, executed : BOOLEAN]

RollbacksHold ==
    /\ rollbacks \in Seq(RollbackRecord)
    /\ \A k \in RollbackIds : rollbacks[k].review_ends_at = rollbacks[k].proposed_at + ReviewPeriod

\* An executed rollback r was of a recent state, and the logs it met are archived.
Archived(r) ==
    /\ r.created_at <= r.proposed_at /\ r.proposed_at - r.created_at <= RollbackWindow
    /\ DOMAIN r.logs \subseteq EscrowIds
    /\ \A i \in DOMAIN r.logs : /\ r.logs[i] \in Seq(LogEntry)
                                /\ IsPrefix(r.logs[i], preserved[i])
                                /\ IsPrefix(r.logs[i], log[i])

\* What the history keeps of an executed rollback.
Restoration ==
    [created_at : Nat, proposed_at : Nat,
     logs : UNION {[D -> Seq(LogEntry)] : D \in SUBSET EscrowIds}]

ArchiveHolds ==
    /\ preserved \in [EscrowIds -> Seq(LogEntry)]
    /\ restored \in Seq(Restoration)
    /\ \A k \in 1 .. Len(restored) : Archived(restored[k])

RInv == Counted /\ SnapshotsHold /\ RollbacksHold /\ ArchiveHolds

-----------------------------------------------------------------------------
(* Logs only grow.                                                         *)

LEMMA PrefixSelf ==
    ASSUME NEW l \in Seq(LogEntry)
    PROVE  IsPrefix(l, l)
BY DEF IsPrefix

LEMMA PrefixGrows ==
    ASSUME NEW l \in Seq(LogEntry), NEW m \in Seq(LogEntry), NEW x \in LogEntry, IsPrefix(l, m)
    PROVE  IsPrefix(l, Append(m, x))
<1> PICK n : n = Append(m, x)
  OBVIOUS
<1>1. /\ n \in Seq(LogEntry) /\ Len(n) = Len(m) + 1 /\ Len(l) \in Nat /\ Len(m) \in Nat
      /\ \A i \in 1 .. Len(m) : n[i] = m[i]
  OBVIOUS
<1>2. Len(l) <= Len(m) /\ SubSeq(l, 1, Len(l)) = SubSeq(m, 1, Len(l))
  BY DEF IsPrefix
<1>3. SubSeq(n, 1, Len(l)) = SubSeq(m, 1, Len(l))
  BY <1>1, <1>2
<1> QED BY <1>1, <1>2, <1>3 DEF IsPrefix

\* What a call of the contract does to the logs.
LogsGrow ==
    /\ log' \in [EscrowIds -> Seq(LogEntry)]
    /\ \A i \in EscrowIds : log'[i] = log[i] \/ \E x \in LogEntry : log'[i] = Append(log[i], x)

LEMMA TransitionLogs ==
    ASSUME log \in [EscrowIds -> Seq(LogEntry)], NEW id \in EscrowIds, NEW from, NEW to,
           NEW actor \in Actors, transition_status(id, from, to, actor)
    PROVE  LogsGrow
<1> DEFINE entry == [from |-> from, to |-> to, actor |-> actor]
<1>1. log' \in [EscrowIds -> Seq(LogEntry)]
  BY TransitionTyped
<1>2. from \in Statuses /\ to \in Statuses
  BY DEF transition_status, valid_transition, Statuses
<1>3. entry \in LogEntry
  BY <1>2 DEF LogEntry
<1>4. log' = [log EXCEPT ![id] = Append(log[id], entry)]
  BY DEF transition_status
<1> HIDE DEF entry
<1>5. \A i \in EscrowIds : log'[i] = IF i = id THEN Append(log[id], entry) ELSE log[i]
  BY <1>4
<1> QED BY <1>1, <1>3, <1>5 DEF LogsGrow

LEMMA CallsLog ==
    ASSUME Loose, log \in [EscrowIds -> Seq(LogEntry)], [Next]_vars
    PROVE  LogsGrow
<1> USE DEF Actors
<1>1. ASSUME UNCHANGED log PROVE LogsGrow
  BY <1>1 DEF LogsGrow
<1>2. ASSUME NEW id \in EscrowIds, NEW from, NEW to, NEW actor \in Actors,
             transition_status(id, from, to, actor)
      PROVE  LogsGrow
  BY <1>2, TransitionLogs
<1>3. ASSUME NEW id \in EscrowIds, NEW bps, NEW actor \in Actors, do_release(id, bps, actor)
      PROVE  LogsGrow
  BY <1>2, <1>3 DEF do_release
<1>4. ASSUME NEW id \in EscrowIds, NEW k, NEW bps, NEW actor \in Actors,
             release_sessions(id, k, bps, actor)
      PROVE  LogsGrow
  <2>1. UNCHANGED log \/ transition_status(id, escrows[id].status, "Released", actor)
    BY <1>4 DEF release_sessions
  <2> QED BY <1>1, <1>2, <2>1
<1>5. CASE Create
  <2>1. PICK m \in Users, l \in Users, a \in Amounts, n \in SessionCounts,
             s \in SessionIds \cup {PathPay}, t \in EndTimes \cup {0} :
               create_escrow_internal(m, l, a, s, t, n)
    BY <1>5 DEF Create, create_escrow, create_escrow_with_path_payment
  <2>2. PICK id \in EscrowIds : transition_status(id, "Pending", "Active", l)
    BY <2>1 DEF create_escrow_internal
  <2> QED BY <1>2, <2>2
<1>6. ASSUME NEW id \in EscrowIds, Release(id) PROVE LogsGrow
  <2>1. ASSUME NEW c \in Users \cup {Admin}, release_funds(c, id) PROVE LogsGrow
    BY <1>3, <2>1 DEF release_funds
  <2>2. ASSUME NEW c \in Users \cup {Admin}, release_partial(c, id) PROVE LogsGrow
    BY <1>4, <2>2 DEF release_partial
  <2>3. ASSUME NEW c \in Users \cup {Admin}, NEW k \in SessionCounts, batch_release(c, id, k)
        PROVE  LogsGrow
    BY <1>4, <2>3 DEF batch_release
  <2>4. admin_release(id) => LogsGrow
    BY <1>3 DEF admin_release
  <2>5. manual_recovery_release(id) => LogsGrow
    BY <1>3 DEF manual_recovery_release
  <2> QED BY <1>6, <2>1, <2>2, <2>3, <2>4, <2>5 DEF Release
<1>7. ASSUME NEW id \in EscrowIds, AutoRelease(id) PROVE LogsGrow
  BY <1>1, <1>3, <1>7 DEF AutoRelease, try_auto_release_ok, try_auto_release_failed
<1>8. ASSUME NEW id \in EscrowIds, Arbitrate(id) PROVE LogsGrow
  <2>1. ASSUME NEW c \in Users, dispute(c, id) PROVE LogsGrow
    BY <1>2, <2>1 DEF dispute
  <2>2. ASSUME NEW p \in Percentages, resolve_dispute(id, p) PROVE LogsGrow
    BY <1>2, <2>2 DEF resolve_dispute
  <2>3. refund(id) => LogsGrow
    BY <1>2 DEF refund
  <2> QED BY <1>8, <2>1, <2>2, <2>3 DEF Arbitrate
<1>9. ASSUME \/ \E id \in EscrowIds : Supervise(id)
             \/ Configure \/ PeersChange \/ Tick \/ UNCHANGED vars
      PROVE  LogsGrow
  <2>1. UNCHANGED log
    BY <1>9 DEF Supervise, report_stuck_escrow, emergency_isolate_escrow,
       recover_isolated_escrow, Configure, update_fee, set_fee_schedule, set_approved_token,
       PeersChange, Tick, vars, state
  <2> QED BY <1>1, <2>1
<1> QED BY <1>5, <1>6, <1>7, <1>8, <1>9 DEF Next

-----------------------------------------------------------------------------
(* Ordinary calls.                                                         *)

\* Every counted escrow still exists after a call.
LEMMA CallsCount ==
    ASSUME Counted, [Next]_vars
    PROVE  Counted' /\ escrow_count \in Nat /\ escrow_count' \in Nat /\ escrow_count <= escrow_count'
<1>1. Loose' /\ RecordsEvolve
  BY LooseStep DEF Counted
<1>2. log' \in [EscrowIds -> Seq(LogEntry)]
  BY CallsLog DEF Counted, LogsGrow
<1>3. escrow_count \in Nat /\ escrow_count' \in Nat
  BY <1>1, LimitsAssumption DEF Counted, Loose
<1>4. CASE Create
  <2>1. PICK m \in Users, l \in Users, a \in Amounts, n \in SessionCounts,
             s \in SessionIds \cup {PathPay}, t \in EndTimes \cup {0} :
               create_escrow_internal(m, l, a, s, t, n)
    BY <1>4 DEF Create, create_escrow, create_escrow_with_path_payment
  <2>2. PICK id \in EscrowIds : id = escrow_count + 1
    BY <2>1 DEF create_escrow_internal
  <2> DEFINE r == [mentor |-> m, learner |-> l, amount |-> a, session_id |-> s,
                   status |-> "Active", created_at |-> now, platform_fee |-> 0, net_amount |-> 0,
                   session_end_time |-> t, quoted_token_amount |-> a,
                   total_sessions |-> n, sessions_completed |-> 0]
  <2>3. escrow_count' = id /\ escrows' = [escrows EXCEPT ![id] = r]
    BY <2>1, <2>2 DEF create_escrow_internal
  <2>4. escrows'[id].status # "None"
    <3>1. r.status = "Active"
      OBVIOUS
    <3> HIDE DEF r
    <3> QED BY <2>3, <3>1 DEF Counted, Loose
  <2>5. \A i \in EscrowIds : i <= escrow_count' => i = id \/ i <= escrow_count
    BY <1>3, <2>2, <2>3 DEF EscrowIds
  <2>6. \A i \in EscrowIds : i <= escrow_count' => escrows'[i].status # "None"
    BY <1>1, <2>4, <2>5 DEF Counted, RecordsEvolve, Evolves
  <2> QED BY <1>1, <1>2, <1>3, <2>2, <2>3, <2>6 DEF Counted
<1>5. CASE ~Create
  <2>1. UNCHANGED escrow_count
    BY <1>5, LooseOther DEF Counted
  <2>2. \A i \in EscrowIds : i <= escrow_count' => escrows'[i].status # "None"
    BY <1>1, <2>1 DEF Counted, RecordsEvolve, Evolves
  <2> QED BY <1>1, <1>2, <1>3, <2>1, <2>2 DEF Counted
<1> QED BY <1>4, <1>5

\* A snapshot stays one of the escrows that exist.
LEMMA CallsKeepSnapshots ==
    ASSUME Counted, SnapshotsHold, [Next]_vars, UNCHANGED snapshots
    PROVE  SnapshotsHold'
<1> SUFFICES ASSUME NEW sid \in SnapshotIds, snapshots[sid] # NoSnapshot
             PROVE  Stored(snapshots[sid])'
  BY DEF SnapshotsHold
<1> DEFINE s == snapshots[sid]
<1>1. Stored(s)
  BY DEF SnapshotsHold
<1>2. RecordsEvolve /\ escrow_count \in Nat /\ escrow_count' \in Nat /\ escrow_count <= escrow_count'
  BY LooseStep, CallsCount DEF Counted
<1>3. s.record_count \in 0 .. escrow_count'
  BY <1>1, <1>2 DEF Stored
<1>4. ASSUME NEW i \in 1 .. s.record_count
      PROVE  SameEscrow(s.records[i], escrows'[i])
  <2>1. i <= escrow_count /\ i \in EscrowIds
    BY <1>1, <1>2, LimitsAssumption DEF Stored, Counted, Loose, EscrowIds
  <2>2. escrows[i].status # "None" /\ SameEscrow(s.records[i], escrows[i])
    BY <1>1, <2>1 DEF Counted, Stored
  <2>3. escrows'[i] = escrows[i] \/ SameTerms(escrows[i], escrows'[i])
    BY <1>2, <2>1, <2>2 DEF RecordsEvolve, Evolves
  <2> QED BY <2>2, <2>3 DEF SameEscrow, SameTerms
<1> QED BY <1>1, <1>3, <1>4 DEF Stored

\* What was archived and logged stays so.
LEMMA CallsKeepArchive ==
    ASSUME ArchiveHolds, log \in [EscrowIds -> Seq(LogEntry)], LogsGrow,
           UNCHANGED <<preserved, restored>>
    PROVE  ArchiveHolds'
<1> SUFFICES ASSUME NEW k \in 1 .. Len(restored), NEW i \in DOMAIN restored[k].logs
             PROVE  IsPrefix(restored[k].logs[i], log'[i])
  BY DEF ArchiveHolds, Archived
<1>1. /\ i \in EscrowIds /\ restored[k].logs[i] \in Seq(LogEntry)
      /\ IsPrefix(restored[k].logs[i], log[i])
  BY DEF ArchiveHolds, Archived
<1>2. log[i] \in Seq(LogEntry)
  BY <1>1
<1>3. CASE log'[i] = log[i]
  BY <1>1, <1>3
<1>4. ASSUME NEW x \in LogEntry, log'[i] = Append(log[i], x)
      PROVE  IsPrefix(restored[k].logs[i], log'[i])
  BY <1>1, <1>2, <1>4, PrefixGrows
<1> QED BY <1>1, <1>3, <1>4 DEF LogsGrow

LEMMA CallsKeep ==
    ASSUME RInv, [Next]_vars, UNCHANGED rvars
    PROVE  RInv'
<1>1. UNCHANGED <<snapshots, rollbacks, preserved, restored>>
  BY DEF rvars
<1>2. Counted' /\ SnapshotsHold'
  BY <1>1, CallsCount, CallsKeepSnapshots DEF RInv
<1>3. LogsGrow
  BY CallsLog DEF RInv, Counted
<1>4. ArchiveHolds'
  BY <1>1, <1>3, CallsKeepArchive DEF RInv, Counted
<1>5. RollbacksHold'
  BY <1>1 DEF RInv, RollbacksHold, RollbackIds
<1> QED BY <1>2, <1>4, <1>5 DEF RInv

-----------------------------------------------------------------------------
(* Snapshots and approvals.                                                *)

LEMMA SnapshotKeeps ==
    ASSUME RInv, NEW sid \in SnapshotIds, snapshot_state(sid)
    PROVE  RInv'
<1>1. UNCHANGED <<vars, rollbacks, preserved, restored>>
  BY DEF snapshot_state
<1>2. UNCHANGED <<now, escrow_count, escrows, log, failures, fee_bps, fee_schedule>>
  BY <1>1 DEF vars
<1>3. Counted' /\ RollbacksHold' /\ ArchiveHolds'
  BY <1>1, <1>2 DEF RInv, Counted, Loose, RollbacksHold, RollbackIds, ArchiveHolds, Archived
<1>4. Stored(Captured)
  <2>1. now \in Nat /\ escrow_count \in 0 .. MaxEscrows /\ MaxEscrows \in Nat
    BY LimitsAssumption DEF RInv, Counted, Loose
  <2>2. \A i \in 1 .. escrow_count : i \in EscrowIds /\ i <= escrow_count
    BY <2>1 DEF EscrowIds
  <2>3. \A i \in 1 .. escrow_count : escrows[i] \in LooseRecord /\ escrows[i].status # "None"
    BY <2>2 DEF RInv, Counted, Loose
  <2>4. /\ Captured.created_at = now /\ Captured.record_count = escrow_count
        /\ Captured.records = [i \in 1 .. escrow_count |-> escrows[i]]
    BY DEF Captured
  <2> QED BY <2>1, <2>3, <2>4 DEF Stored, SameEscrow
<1>5. ASSUME NEW t \in SnapshotIds, snapshots'[t] # NoSnapshot
      PROVE  snapshots'[t] = Captured \/ (snapshots'[t] = snapshots[t] /\ snapshots[t] # NoSnapshot)
  BY <1>5 DEF snapshot_state
<1>6. \A s : Stored(s) => Stored(s)'
  BY <1>2 DEF Stored
<1>7. SnapshotsHold'
  <2> SUFFICES ASSUME NEW t \in SnapshotIds, snapshots'[t] # NoSnapshot
               PROVE  Stored(snapshots[t])'
    BY DEF SnapshotsHold
  <2>1. PICK s : s = snapshots'[t]
    OBVIOUS
  <2>2. Stored(s)
    BY <1>4, <1>5, <2>1 DEF RInv, SnapshotsHold
  <2> QED BY <1>2, <2>1, <2>2 DEF Stored
<1> QED BY <1>3, <1>7 DEF RInv

\* A step that changes only proposals, signers or nothing.
LEMMA ProposalsKeep ==
    ASSUME RInv, UNCHANGED <<vars, snapshots, preserved, restored>>, RollbacksHold'
    PROVE  RInv'
<1>1. UNCHANGED <<now, escrow_count, escrows, log, failures, fee_bps, fee_schedule>>
  BY DEF vars
<1>2. Counted' /\ ArchiveHolds'
  BY <1>1 DEF RInv, Counted, Loose, ArchiveHolds, Archived
<1>3. SnapshotsHold'
  BY <1>1 DEF RInv, SnapshotsHold, Stored
<1> QED BY <1>2, <1>3 DEF RInv

\* One proposal changes into r, at the same time and with the same review period.
LEMMA ProposalChanges ==
    ASSUME RollbacksHold, NEW k \in RollbackIds, NEW r \in RollbackRecord,
           r.review_ends_at = r.proposed_at + ReviewPeriod,
           rollbacks' = [rollbacks EXCEPT ![k] = r]
    PROVE  RollbacksHold'
<1>1. /\ rollbacks' \in Seq(RollbackRecord) /\ RollbackIds' = RollbackIds
      /\ \A j \in RollbackIds : rollbacks'[j] = IF j = k THEN r ELSE rollbacks[j]
  BY DEF RollbacksHold, RollbackIds
<1> QED BY <1>1 DEF RollbacksHold

LEMMA ProposeKeeps ==
    ASSUME RInv, NEW g \in Signers, NEW sid \in SnapshotIds, propose_emergency_rollback(g, sid)
    PROVE  RInv'
<1> DEFINE r == [snapshot_id |-> sid, proposed_at |-> now, review_ends_at |-> now + ReviewPeriod,
                 technical_signers |-> {g}, governance_proposal_id |-> NoProposal,
                 governance_approved |-> FALSE, executed |-> FALSE]
<1>1. rollbacks' = Append(rollbacks, r) /\ UNCHANGED <<vars, snapshots, preserved, restored>>
  BY DEF propose_emergency_rollback
<1>2. r \in RollbackRecord /\ r.review_ends_at = r.proposed_at + ReviewPeriod
  <2>1. now \in Nat /\ now + ReviewPeriod \in Nat
    BY RollbackAssumption DEF RInv, Counted, Loose
  <2> QED BY <2>1 DEF RollbackRecord
<1> HIDE DEF r
<1>3. RollbacksHold'
  <2>1. /\ rollbacks' \in Seq(RollbackRecord) /\ RollbackIds' = RollbackIds \cup {Len(rollbacks) + 1}
        /\ rollbacks'[Len(rollbacks) + 1] = r
        /\ \A j \in RollbackIds : rollbacks'[j] = rollbacks[j]
    BY <1>1, <1>2 DEF RInv, RollbacksHold, RollbackIds
  <2> QED BY <1>2, <2>1 DEF RInv, RollbacksHold
<1> QED BY <1>1, <1>3, ProposalsKeep

\* Approval and review.
LEMMA ReviewKeeps ==
    ASSUME RInv, NEW k \in RollbackIds,
           \/ \E g \in Signers : approve_technical_rollback(g, k)
           \/ \E g \in GovernanceIds :
                link_governance_rollback_review(k, g) \/ mark_gov_rollback_approved(k, g)
    PROVE  RInv'
<1>1. UNCHANGED <<vars, snapshots, preserved, restored>>
  BY DEF approve_technical_rollback, link_governance_rollback_review, mark_gov_rollback_approved
<1>2. /\ rollbacks[k] \in RollbackRecord /\ RollbacksHold
      /\ rollbacks[k].review_ends_at = rollbacks[k].proposed_at + ReviewPeriod
  BY DEF RInv, RollbacksHold, RollbackIds
<1>3. ASSUME NEW g \in Signers, approve_technical_rollback(g, k) PROVE RollbacksHold'
  <2> DEFINE r == [rollbacks[k] EXCEPT !.technical_signers = @ \cup {g}]
  <2>1. rollbacks' = [rollbacks EXCEPT ![k] = r]
    BY <1>3 DEF approve_technical_rollback
  <2>2. r \in RollbackRecord /\ r.review_ends_at = r.proposed_at + ReviewPeriod
    BY <1>2 DEF RollbackRecord
  <2> HIDE DEF r
  <2> QED BY <1>2, <2>1, <2>2, ProposalChanges
<1>4. ASSUME NEW g \in GovernanceIds, link_governance_rollback_review(k, g) PROVE RollbacksHold'
  <2> DEFINE r == [rollbacks[k] EXCEPT !.governance_proposal_id = g]
  <2>1. rollbacks' = [rollbacks EXCEPT ![k] = r]
    BY <1>4 DEF link_governance_rollback_review
  <2>2. r \in RollbackRecord /\ r.review_ends_at = r.proposed_at + ReviewPeriod
    BY <1>2 DEF RollbackRecord
  <2> HIDE DEF r
  <2> QED BY <1>2, <2>1, <2>2, ProposalChanges
<1>5. ASSUME NEW g \in GovernanceIds, mark_gov_rollback_approved(k, g) PROVE RollbacksHold'
  <2> DEFINE r == [rollbacks[k] EXCEPT !.governance_approved = TRUE]
  <2>1. rollbacks' = [rollbacks EXCEPT ![k] = r]
    BY <1>5 DEF mark_gov_rollback_approved
  <2>2. r \in RollbackRecord /\ r.review_ends_at = r.proposed_at + ReviewPeriod
    BY <1>2 DEF RollbackRecord
  <2> HIDE DEF r
  <2> QED BY <1>2, <2>1, <2>2, ProposalChanges
<1> QED BY <1>1, <1>3, <1>4, <1>5, ProposalsKeep

-----------------------------------------------------------------------------
(* The archive and the rollback itself.                                    *)

\* Copying present logs into the archive loses nothing.
LEMMA ArchivingKeeps ==
    ASSUME Counted, ArchiveHolds, NEW s, Stored(s), preserved' = archive(s.records), UNCHANGED log
    PROVE  /\ preserved' \in [EscrowIds -> Seq(LogEntry)]
           /\ \A k \in 1 .. Len(restored) : Archived(restored[k])'
                 \/ restored'[k] # restored[k]
<1>1. /\ preserved' \in [EscrowIds -> Seq(LogEntry)]
      /\ \A i \in EscrowIds : preserved'[i] = log[i] \/ preserved'[i] = preserved[i]
  BY DEF archive, Counted, ArchiveHolds
<1>2. ASSUME NEW k \in 1 .. Len(restored), restored'[k] = restored[k]
      PROVE  Archived(restored[k])'
  BY <1>1, <1>2 DEF ArchiveHolds, Archived
<1> QED BY <1>1, <1>2

LEMMA PreserveKeeps ==
    ASSUME RInv, NEW k \in RollbackIds, preserve_audit_data(k)
    PROVE  RInv'
<1> DEFINE s == snapshots[rollbacks[k].snapshot_id]
<1>1. /\ s # NoSnapshot /\ preserved' = archive(s.records)
      /\ UNCHANGED <<vars, snapshots, rollbacks, restored>>
  BY DEF preserve_audit_data
<1>2. UNCHANGED <<now, escrow_count, escrows, log, failures, fee_bps, fee_schedule>>
  BY <1>1 DEF vars
<1>3. Stored(s)
  <2>1. rollbacks[k] \in RollbackRecord
    BY DEF RInv, RollbacksHold, RollbackIds
  <2> QED BY <1>1, <2>1 DEF RInv, SnapshotsHold, RollbackRecord
<1> HIDE DEF s
<1>4. ArchiveHolds'
  BY <1>1, <1>2, <1>3, ArchivingKeeps DEF RInv, ArchiveHolds
<1>5. Counted' /\ SnapshotsHold' /\ RollbacksHold'
  BY <1>1, <1>2 DEF RInv, Counted, Loose, SnapshotsHold, Stored, RollbacksHold, RollbackIds
<1> QED BY <1>4, <1>5 DEF RInv

LEMMA RollbackKeeps ==
    ASSUME RInv, NEW k \in RollbackIds, emergency_rollback(k)
    PROVE  RInv'
<1> DEFINE r == rollbacks[k]
           s == snapshots[r.snapshot_id]
           entry == [created_at |-> s.created_at, proposed_at |-> r.proposed_at,
                     logs |-> [i \in DOMAIN s.records |-> log[i]]]
<1>1. /\ s # NoSnapshot /\ validate_scope_window(r.proposed_at, s.created_at)
      /\ preserved' = archive(s.records)
      /\ escrows' = [i \in EscrowIds |-> IF i \in DOMAIN s.records THEN s.records[i] ELSE escrows[i]]
      /\ rollbacks' = [rollbacks EXCEPT ![k].executed = TRUE]
      /\ restored' = Append(restored, entry)
      /\ UNCHANGED <<now, escrow_count, log, failures, fee_bps, fee_schedule, snapshots>>
  BY DEF emergency_rollback, sessions, retry, config
<1>2. r \in RollbackRecord /\ r.review_ends_at = r.proposed_at + ReviewPeriod /\ RollbacksHold
  BY DEF RInv, RollbacksHold, RollbackIds
<1>3. Stored(s) /\ r.proposed_at \in Nat
  BY <1>1, <1>2 DEF RInv, SnapshotsHold, RollbackRecord
<1>4. RollbacksHold'
  <2> DEFINE x == [r EXCEPT !.executed = TRUE]
  <2>1. x \in RollbackRecord /\ x.review_ends_at = x.proposed_at + ReviewPeriod
    BY <1>2 DEF RollbackRecord
  <2>2. rollbacks' = [rollbacks EXCEPT ![k] = x]
    BY <1>1
  <2> HIDE DEF x
  <2> QED BY <1>2, <2>1, <2>2, ProposalChanges
<1> HIDE DEF r, s
<1>5. /\ DOMAIN s.records = 1 .. s.record_count /\ s.record_count \in Nat
      /\ s.record_count <= escrow_count /\ escrow_count \in 0 .. MaxEscrows /\ MaxEscrows \in Nat
      /\ \A i \in 1 .. s.record_count : i \in EscrowIds /\ i <= escrow_count
  BY <1>3, LimitsAssumption DEF Stored, RInv, Counted, Loose, EscrowIds
<1>6. \A i \in EscrowIds : SameEscrow(escrows'[i], escrows[i]) /\ escrows'[i] \in LooseRecord
  BY <1>1, <1>3, <1>5 DEF Stored, SameEscrow, RInv, Counted, Loose
<1>7. Counted'
  <2>1. \A i \in EscrowIds : i <= escrow_count => escrows'[i].status # "None"
    BY <1>1, <1>3, <1>5 DEF Stored, RInv, Counted
  <2>2. \A i \in EscrowIds : i > escrow_count => escrows'[i] = Blank
    BY <1>1, <1>5 DEF RInv, Counted, Loose
  <2>3. escrows' \in [EscrowIds -> LooseRecord]
    BY <1>1, <1>6
  <2> QED BY <1>1, <2>1, <2>2, <2>3 DEF RInv, Counted, Loose
<1>8. SnapshotsHold'
  <2> SUFFICES ASSUME NEW t \in SnapshotIds, snapshots[t] # NoSnapshot
               PROVE  Stored(snapshots[t])'
    BY <1>1 DEF SnapshotsHold
  <2>1. PICK u : u = snapshots[t]
    OBVIOUS
  <2>2. Stored(u)
    BY <2>1 DEF RInv, SnapshotsHold
  <2>3. ASSUME NEW i \in 1 .. u.record_count PROVE SameEscrow(u.records[i], escrows'[i])
    <3>1. i \in EscrowIds
      BY <1>5, <2>2 DEF Stored, EscrowIds
    <3>2. SameEscrow(u.records[i], escrows[i]) /\ SameEscrow(escrows'[i], escrows[i])
      BY <1>6, <2>2, <3>1 DEF Stored
    <3> QED BY <3>2 DEF SameEscrow, SameTerms
  <2>4. Stored(u)'
    BY <1>1, <2>2, <2>3 DEF Stored
  <2> QED BY <1>1, <2>1, <2>4 DEF Stored
<1>9. ArchiveHolds'
  <2>1. /\ preserved' \in [EscrowIds -> Seq(LogEntry)]
        /\ \A j \in 1 .. Len(restored) : Archived(restored[j])' \/ restored'[j] # restored[j]
    BY <1>1, <1>3, ArchivingKeeps DEF RInv
  <2>2. PICK D : D = DOMAIN s.records
    OBVIOUS
  <2>3. D \subseteq EscrowIds /\ log \in [EscrowIds -> Seq(LogEntry)]
    BY <1>5, <2>2 DEF RInv, Counted
  <2>4. PICK logs : logs = [i \in D |-> log[i]]
    OBVIOUS
  <2>5. logs \in [D -> Seq(LogEntry)]
    BY <2>3, <2>4
  <2>6. logs \in UNION {[E -> Seq(LogEntry)] : E \in SUBSET EscrowIds}
    BY <2>3, <2>5
  <2> PICK e : e = [created_at |-> s.created_at, proposed_at |-> r.proposed_at, logs |-> logs]
    OBVIOUS
  <2>7. /\ e.created_at = s.created_at /\ e.proposed_at = r.proposed_at /\ e.logs = logs
        /\ restored' = Append(restored, e)
    BY <1>1, <2>2, <2>4
  <2>8. s.created_at \in Nat
    BY <1>3 DEF Stored
  <2>9. e \in Restoration
    BY <1>3, <2>6, <2>7, <2>8 DEF Restoration
  <2>10. Archived(e)'
    <3>1. e.created_at <= e.proposed_at /\ e.proposed_at - e.created_at <= RollbackWindow
      BY <1>1, <2>7 DEF validate_scope_window
    <3>2. ASSUME NEW i \in D
          PROVE  logs[i] \in Seq(LogEntry) /\ preserved'[i] = logs[i] /\ log'[i] = logs[i]
      BY <1>1, <2>2, <2>3, <2>4, <3>2 DEF archive
    <3>3. ASSUME NEW i \in D
          PROVE  IsPrefix(logs[i], preserved'[i]) /\ IsPrefix(logs[i], log'[i])
      BY <3>2, <3>3, PrefixSelf
    <3>4. DOMAIN logs = D
      BY <2>4
    <3> QED BY <2>3, <2>7, <3>1, <3>2, <3>3, <3>4 DEF Archived
  <2>11. /\ restored \in Seq(Restoration) /\ restored' \in Seq(Restoration)
         /\ Len(restored) \in Nat /\ Len(restored') = Len(restored) + 1
         /\ restored'[Len(restored) + 1] = e
         /\ \A j \in 1 .. Len(restored) : restored'[j] = restored[j]
    BY <2>7, <2>9 DEF RInv, ArchiveHolds
  <2>12. ASSUME NEW x, Archived(x)', NEW j, restored'[j] = x PROVE Archived(restored[j])'
    BY <2>12 DEF Archived
  <2>13. ASSUME NEW j \in 1 .. Len(restored') PROVE Archived(restored[j])'
    <3>1. CASE j = Len(restored) + 1
      BY <2>10, <2>11, <2>12, <3>1
    <3>2. CASE j \in 1 .. Len(restored)
      BY <2>1, <2>11, <3>2
    <3> QED BY <2>11, <3>1, <3>2
  <2> QED BY <2>1, <2>11, <2>13 DEF ArchiveHolds
<1> QED BY <1>4, <1>7, <1>8, <1>9 DEF RInv

-----------------------------------------------------------------------------
(* The invariant.                                                          *)

LEMMA RInitially == Init /\ RollbackInit => RInv
<1> SUFFICES ASSUME Init, RollbackInit PROVE RInv
  OBVIOUS
<1>1. << >> \in Seq(LogEntry) /\ << >> \in Seq(RollbackRecord) /\ << >> \in Seq(Restoration)
  OBVIOUS
<1>2. Len(<< >>) = 0
  OBVIOUS
<1>3. Counted
  <2>1. escrow_count = 0 /\ \A i \in EscrowIds : ~(i <= escrow_count)
    BY LimitsAssumption DEF Init, EscrowIds
  <2>2. log \in [EscrowIds -> Seq(LogEntry)]
    BY <1>1 DEF Init
  <2> QED BY <2>1, <2>2, InitLoose DEF Counted
<1>4. SnapshotsHold
  BY DEF RollbackInit, NothingRestored, SnapshotsHold
<1>5. RollbacksHold
  BY <1>1, <1>2 DEF RollbackInit, NothingRestored, RollbacksHold, RollbackIds
<1>6. ArchiveHolds
  BY <1>1, <1>2 DEF RollbackInit, NothingRestored, ArchiveHolds
<1> QED BY <1>3, <1>4, <1>5, <1>6 DEF RInv

LEMMA RecoveryKeeps ==
    ASSUME RInv, Recovery
    PROVE  RInv'
<1>1. ASSUME NEW S \in SUBSET Signers, change_signers(S) PROVE RInv'
  <2>1. UNCHANGED <<vars, snapshots, rollbacks, preserved, restored>>
    BY <1>1 DEF change_signers
  <2>2. RollbacksHold'
    BY <2>1 DEF RInv, RollbacksHold, RollbackIds
  <2> QED BY <2>1, <2>2, ProposalsKeep
<1> QED BY <1>1, SnapshotKeeps, ProposeKeeps, ReviewKeeps, PreserveKeeps, RollbackKeeps DEF Recovery

\* The strengthened invariant holds whatever calls of the contract, snapshots, proposals and
\* rollbacks follow each other.
THEOREM RollbackInvariant == RollbackSpec => []RInv
<1>1. RInv /\ [Recovery \/ (Next /\ UNCHANGED rvars)]_<<vars, rvars>> => RInv'
  <2>1. CASE Recovery
    BY <2>1, RecoveryKeeps
  <2>2. CASE [Next]_vars /\ UNCHANGED rvars
    BY <2>2, CallsKeep
  <2> QED BY <2>1, <2>2
<1> QED BY <1>1, RInitially, PTL DEF RollbackSpec

-----------------------------------------------------------------------------
(* What a rollback promises.                                               *)

\* verify_post_upgrade_state compares nine of the twelve fields; the others never change, so
\* a record that agrees with the present one in these is the present one.
LEMMA ComparedIsEnough ==
    ASSUME NEW r \in LooseRecord, NEW e \in LooseRecord, SameEscrow(r, e), compared(r) = compared(e)
    PROVE  r = e
<1>1. /\ r.mentor = e.mentor /\ r.learner = e.learner /\ r.amount = e.amount
      /\ r.status = e.status /\ r.platform_fee = e.platform_fee /\ r.net_amount = e.net_amount
      /\ r.session_end_time = e.session_end_time /\ r.total_sessions = e.total_sessions
      /\ r.sessions_completed = e.sessions_completed
  BY DEF compared
<1>2. CASE SameTerms(r, e)
  BY <1>1, <1>2 DEF SameTerms, LooseRecord
<1> QED BY <1>2 DEF SameEscrow

\* What an executed rollback wrote back was stored within the window before its proposal, the
\* archive keeps every log it met, and a verification without mismatch means that the records
\* of the snapshot are the present ones.
THEOREM Faithfulness == RollbackSpec => []RollbackIsFaithful
<1>1. ASSUME RInv PROVE RestoredIsRecent /\ ArchiveIsComplete
  BY <1>1 DEF RInv, ArchiveHolds, Archived, RestoredIsRecent, ArchiveIsComplete
<1>2. ASSUME RInv, NEW sid \in SnapshotIds, snapshots[sid] # NoSnapshot, verifies(sid),
             NEW i \in DOMAIN snapshots[sid].records
      PROVE  snapshots[sid].records[i] = escrows[i]
  <2> DEFINE s == snapshots[sid]
  <2>1. Stored(s) /\ s.record_count = escrow_count
    BY <1>2 DEF RInv, SnapshotsHold, verifies
  <2>2. i \in 1 .. s.record_count /\ i \in EscrowIds
    BY <1>2, <2>1, LimitsAssumption DEF Stored, RInv, Counted, Loose, EscrowIds
  <2>3. /\ s.records[i] \in LooseRecord /\ escrows[i] \in LooseRecord
        /\ SameEscrow(s.records[i], escrows[i])
    BY <1>2, <2>1, <2>2 DEF Stored, RInv, Counted, Loose
  <2>4. compared(s.records[i]) = compared(escrows[i])
    BY <1>2 DEF verifies
  <2> HIDE DEF s
  <2>5. s.records[i] = escrows[i]
    BY <2>3, <2>4, ComparedIsEnough
  <2> QED BY <2>5 DEF s
<1>3. RInv => RollbackIsFaithful
  BY <1>1, <1>2 DEF CleanMeansIdentical, RollbackIsFaithful
<1> QED BY <1>3, RollbackInvariant, PTL

\* A proposal is executed only by emergency_rollback: by as many present signers as required,
\* with the governance's approval, when its review period is over.
THEOREM Authorisation == RollbackSpec => RollbackIsAuthorised
<1> DEFINE Authorised ==
        \A k \in RollbackIds :
          rollbacks'[k].executed # rollbacks[k].executed =>
              /\ rollbacks[k].technical_signers \subseteq signers
              /\ Cardinality(rollbacks[k].technical_signers) >= Threshold
              /\ rollbacks[k].governance_approved
              /\ now >= rollbacks[k].proposed_at + ReviewPeriod
<1>1. ASSUME RInv, Recovery \/ (Next /\ UNCHANGED rvars), NEW k \in RollbackIds,
             rollbacks'[k].executed # rollbacks[k].executed
      PROVE  emergency_rollback(k)
  <2>1. rollbacks \in Seq(RollbackRecord) /\ rollbacks[k] \in RollbackRecord
    BY <1>1 DEF RInv, RollbacksHold, RollbackIds
  <2>2. ~ UNCHANGED rollbacks
    BY <1>1
  <2>3. ASSUME NEW g \in Signers, NEW sid \in SnapshotIds, propose_emergency_rollback(g, sid)
        PROVE  FALSE
    <3>1. PICK r : rollbacks' = Append(rollbacks, r)
      BY <2>3 DEF propose_emergency_rollback
    <3> QED BY <1>1, <2>1, <3>1 DEF RollbackIds
  <2>4. ASSUME NEW j \in RollbackIds, NEW g \in Signers, approve_technical_rollback(g, j)
        PROVE  FALSE
    <3>1. rollbacks' = [rollbacks EXCEPT ![j].technical_signers = @ \cup {g}]
      BY <2>4 DEF approve_technical_rollback
    <3> QED BY <1>1, <2>1, <3>1 DEF RollbackIds, RollbackRecord
  <2>5. ASSUME NEW j \in RollbackIds, NEW g \in GovernanceIds,
               link_governance_rollback_review(j, g) \/ mark_gov_rollback_approved(j, g)
        PROVE  FALSE
    <3>1. CASE rollbacks' = [rollbacks EXCEPT ![j].governance_proposal_id = g]
      BY <1>1, <2>1, <3>1 DEF RollbackIds, RollbackRecord
    <3>2. CASE rollbacks' = [rollbacks EXCEPT ![j].governance_approved = TRUE]
      BY <1>1, <2>1, <3>2 DEF RollbackIds, RollbackRecord
    <3> QED BY <2>5, <3>1, <3>2 DEF link_governance_rollback_review, mark_gov_rollback_approved
  <2>6. ASSUME NEW j \in RollbackIds, emergency_rollback(j) PROVE j = k
    <3> PICK x : x = [rollbacks[j] EXCEPT !.executed = TRUE]
      OBVIOUS
    <3>1. rollbacks' = [rollbacks EXCEPT ![j] = x]
      BY <2>6 DEF emergency_rollback
    <3>2. ASSUME j # k PROVE rollbacks'[k] = rollbacks[k]
      BY <1>1, <2>1, <3>1, <3>2 DEF RollbackIds
    <3> QED BY <1>1, <3>2
  <2> QED BY <1>1, <2>2, <2>3, <2>4, <2>5, <2>6 DEF Recovery, rvars, snapshot_state,
             change_signers, preserve_audit_data
<1>2. ASSUME RInv, NEW k \in RollbackIds, emergency_rollback(k)
      PROVE  /\ rollbacks[k].technical_signers \subseteq signers
             /\ Cardinality(rollbacks[k].technical_signers) >= Threshold
             /\ rollbacks[k].governance_approved
             /\ now >= rollbacks[k].proposed_at + ReviewPeriod
  <2>1. rollbacks[k].review_ends_at = rollbacks[k].proposed_at + ReviewPeriod
    BY <1>2 DEF RInv, RollbacksHold
  <2>2. /\ ready_to_execute(rollbacks[k])
        /\ validate_technical_signatures(rollbacks[k].technical_signers)
    BY <1>2 DEF emergency_rollback
  <2>3. Threshold >= Threshold
    BY SignersAssumption
  <2> QED BY <2>1, <2>2, <2>3 DEF ready_to_execute, validate_technical_signatures
<1>3. RInv /\ [Recovery \/ (Next /\ UNCHANGED rvars)]_<<vars, rvars>> => [Authorised]_<<vars, rvars>>
  BY <1>1, <1>2
<1>4. RollbackSpec => [][Authorised]_<<vars, rvars>>
  BY <1>3, RollbackInvariant, PTL DEF RollbackSpec
<1> QED BY <1>4 DEF RollbackIsAuthorised
=============================================================================
