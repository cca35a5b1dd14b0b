---------------------------- MODULE MultisigAdmin ----------------------------
(***************************************************************************)
(* Who governs. First how the admin of the escrow contract changes hands   *)
(* (escrow/src/lib.rs, shared/src/admin.rs): the admin proposes a          *)
(* successor, who may accept after a timelock; the multisig contract can   *)
(* replace the admin at once.                                              *)
(*                                                                         *)
(* Then the admin multisig of contracts/multisig_admin/src/lib.rs: signers *)
(* propose, sign and execute actions, among them changes of the signers    *)
(* and of the threshold, and a separate set of emergency signers restores  *)
(* an earlier configuration, after which action numbers are given anew.    *)
(* The code such a rollback reinstalls is the code modelled here. The      *)
(* checksum of the arguments always matches: nothing else writes either.   *)
(***************************************************************************)
EXTENDS Host, Sequences, FiniteSets

(* The admin of the escrow contract.                                       *)

CONSTANTS
    Admins,          \* addresses that may be admin
    NoAdmin,         \* no transfer is pending
    AdminTimelock,   \* MIN_ADMIN_TIMELOCK_SECS
    CoolingOff,      \* ADMIN_COOLING_OFF_SECS
    MaxHandoverTime  \* bound: last value of the clock

ASSUME HandoverAssumption ==
    /\ AdminTimelock \in Nat /\ CoolingOff \in Nat /\ MaxHandoverTime \in Nat
    /\ NoAdmin \notin Admins

VARIABLES
    admin,              \* DataKey::Admin
    pending,            \* DataKey::PendingAdminTransfer: [new_admin, effective_at]
    last_admin_change,  \* DataKey::LastAdminChange, 0 when absent
    multisig_set,       \* whether DataKey::MultisigAdmin is configured
    pending_proposer,   \* history: the admin who made the pending proposal
    in_office           \* history: since when the present admin is in office

handover_vars ==
    <<now, admin, pending, last_admin_change, multisig_set, pending_proposer, in_office>>

NoTransfer == [new_admin |-> NoAdmin, effective_at |-> 0]

HandoverInit ==
    /\ now = 0
    /\ admin \in Admins
    /\ pending = NoTransfer
    /\ last_admin_change = 0
    /\ multisig_set = FALSE
    /\ pending_proposer = NoAdmin
    /\ in_office = now

\* A later proposal replaces a pending one and starts the timelock again.
propose_admin_change(new_admin) ==
    /\ now >= last_admin_change + CoolingOff
    /\ pending' = [new_admin |-> new_admin, effective_at |-> now + AdminTimelock]
    /\ pending_proposer' = admin
    /\ UNCHANGED <<now, admin, last_admin_change, multisig_set, in_office>>

\* Mutant: the timelock is not checked.
may_accept_at_once(a) == pending.new_admin = a

may_accept(a) == pending.new_admin = a /\ now >= pending.effective_at

\* Mutant: the pending entry is removed before the successor is read from it.
accept_admin_role_reads_late(new_admin) ==
    /\ may_accept(new_admin)
    /\ pending' = NoTransfer
    /\ admin' = pending'.new_admin
    /\ last_admin_change' = now
    /\ pending_proposer' = NoAdmin
    /\ in_office' = now
    /\ UNCHANGED <<now, multisig_set>>

accept_admin_role(new_admin) ==
    /\ may_accept(new_admin)
    /\ admin' = new_admin
    /\ last_admin_change' = now
    /\ pending' = NoTransfer
    /\ pending_proposer' = NoAdmin
    /\ in_office' = now
    /\ UNCHANGED <<now, multisig_set>>

\* The admin registers the multisig contract.
set_multisig_admin ==
    /\ multisig_set' = TRUE
    /\ UNCHANGED <<now, admin, pending, last_admin_change, pending_proposer, in_office>>

\* Mutant: the pending proposal of the removed admin survives.
revoke_admin_emergency_keeps_pending(new_admin) ==
    /\ multisig_set
    /\ admin' = new_admin
    /\ in_office' = now
    /\ UNCHANGED <<now, pending, last_admin_change, multisig_set, pending_proposer>>

\* The multisig contract installs a new admin; this does not start a cooling-off period.
revoke_admin_emergency(new_admin) ==
    /\ multisig_set
    /\ admin' = new_admin
    /\ pending' = NoTransfer
    /\ pending_proposer' = NoAdmin
    /\ in_office' = now
    /\ UNCHANGED <<now, last_admin_change, multisig_set>>

HandoverTick ==
    /\ CloseLedger(MaxHandoverTime)
    /\ UNCHANGED <<admin, pending, last_admin_change, multisig_set, pending_proposer, in_office>>

HandoverNext ==
    \/ \E a \in Admins :
         propose_admin_change(a) \/ accept_admin_role(a) \/ revoke_admin_emergency(a)
    \/ set_multisig_admin
    \/ HandoverTick

HandoverSpec == HandoverInit /\ [][HandoverNext]_handover_vars

-----------------------------------------------------------------------------
\* The values the entries may hold.
HandoverTypeOK ==
    /\ now \in Nat
    /\ admin \in Admins
    /\ pending \in [new_admin : Admins \cup {NoAdmin}, effective_at : Nat]
    /\ last_admin_change \in Nat
    /\ multisig_set \in BOOLEAN
    /\ pending_proposer \in Admins \cup {NoAdmin}
    /\ in_office \in 0 .. now

\* A pending transfer is the will of the admin in office, and it cannot take effect before
\* that admin has been in office for the length of the timelock: an admin who was replaced,
\* also by the emergency revocation, leaves no proposal behind that a successor would
\* have to know of.
NoStaleProposal ==
    pending # NoTransfer =>
        /\ pending_proposer = admin
        /\ pending.effective_at >= in_office + AdminTimelock

\* An accepted transfer, however it interleaves with replacements and emergency
\* revocations, ends a term of at least the timelock.
HandoverWaits ==
    [][last_admin_change' # last_admin_change => now >= in_office + AdminTimelock]_handover_vars

-----------------------------------------------------------------------------
(* The admin multisig.                                                     *)

CONSTANTS
    Council,             \* addresses that may be signers
    InitialCouncils,     \* sets of signers the contract may be initialized with
    CouncilActions,      \* what may be proposed: [fn, arg]
    ActionExpiry,        \* EXPIRY_SECONDS
    EmergencyAddresses,  \* addresses that may be emergency signers
    EmergencySeats,      \* EMERGENCY_MSIG_SIGNERS
    EmergencyThreshold,  \* EMERGENCY_THRESHOLD
    GovSnapshotIds,      \* identifiers of governance snapshots
    NoGovSnapshot,       \* no snapshot is stored under an identifier
    MaxGovSnapshots,     \* MAX_SNAPSHOTS
    MaxActions,          \* bound: largest action identifier
    MaxGovRollbacks,     \* bound: rollback proposals in a behaviour
    MaxCouncilTime       \* bound: last value of the clock

ASSUME CouncilAssumption ==
    /\ IsFiniteSet(Council)
    /\ InitialCouncils \subseteq (SUBSET Council)
    /\ ActionExpiry \in Nat /\ MaxActions \in Nat /\ MaxCouncilTime \in Nat

\* A self-targeted call of any other function is refused on execution and left out.
ASSUME ActionsAssumption ==
    \A a \in CouncilActions :
        \/ a.fn \in {"add_signer", "remove_signer"} /\ a.arg \in Council
        \/ a.fn = "update_threshold" /\ a.arg \in Nat
        \/ a.fn = "invoke_contract"

ASSUME RecoveryAssumption ==
    /\ EmergencySeats \in Nat /\ EmergencyThreshold \in 1 .. EmergencySeats
    /\ MaxGovSnapshots \in Nat \ {0} /\ MaxGovRollbacks \in Nat

VARIABLES
    council,            \* the addresses with a DataKey::Signer entry
    council_count,      \* DataKey::SignerCount
    council_threshold,  \* DataKey::Threshold
    proposal_count,     \* DataKey::ProposalCount
    active_count,       \* DataKey::ActiveProposalCount
    proposals,          \* DataKey::Proposal(id)
    signed,             \* the addresses with a DataKey::Approval(id, _), for each id
    gov_signers,        \* DataKey::GovEmergencySigners; {} before they are set
    gov_snapshots,      \* DataKey::GovSnapshot(id) and its GovSnapshotMeta
    gov_index,          \* DataKey::GovSnapshotIndex
    gov_rollbacks,      \* DataKey::GovRollbackProposal(1 .. GovRollbackProposalCount)
    endorsed            \* history: who signed the proposal stored under an id

config_vars == <<council, council_count, council_threshold>>
action_vars == <<proposal_count, active_count, proposals, signed, endorsed>>
recovery_vars == <<gov_signers, gov_snapshots, gov_index, gov_rollbacks>>
council_vars == <<now, config_vars, action_vars, recovery_vars>>

ActionIds == 1 .. Len(proposals)

\* A list with a repetition is refused, so the length of the list is the size of the set.
CouncilInit ==
    /\ now = 0
    /\ council \in InitialCouncils
    /\ council_count = Cardinality(council)
    /\ council_threshold \in 1 .. council_count
    /\ proposal_count = 0
    /\ active_count = 0
    /\ proposals = << >>
    /\ signed = << >>
    /\ endorsed = << >>
    /\ gov_signers = {}
    /\ gov_snapshots = [s \in GovSnapshotIds |-> NoGovSnapshot]
    /\ gov_index = << >>
    /\ gov_rollbacks = << >>

-----------------------------------------------------------------------------
(* Actions: proposed, signed, executed and cancelled.                      *)

\* The entry under an identifier is written, whether or not there was one.
store(entries, id, e) ==
    IF id \in DOMAIN entries THEN [entries EXCEPT ![id] = e] ELSE Append(entries, e)

flags(id) == IF id \in DOMAIN signed THEN signed[id] ELSE {}

ProposalRecord(proposer, action, approval_count) ==
    [proposer |-> proposer, action |-> action, approval_count |-> approval_count,
     expiry |-> now + ActionExpiry, executed |-> FALSE, cancelled |-> FALSE]

\* Mutant: the approvals are counted by the flags, those of an overwritten proposal included.
propose_action_counts_flags(proposer, action) ==
    LET id == proposal_count + 1 IN
    /\ proposal_count < MaxActions
    /\ proposer \in council
    /\ proposal_count' = id
    /\ active_count' = active_count + 1
    /\ proposals' = store(proposals, id,
            ProposalRecord(proposer, action, Cardinality(flags(id) \cup {proposer})))
    /\ signed' = store(signed, id, flags(id) \cup {proposer})
    /\ endorsed' = store(endorsed, id, {proposer})
    /\ UNCHANGED <<now, config_vars, recovery_vars>>

\* The flags of an overwritten proposal stay.
propose_action(proposer, action) ==
    LET id == proposal_count + 1 IN
    /\ proposal_count < MaxActions
    /\ proposer \in council
    /\ proposal_count' = id
    /\ active_count' = active_count + 1
    /\ proposals' = store(proposals, id, ProposalRecord(proposer, action, 1))
    /\ signed' = store(signed, id, flags(id) \cup {proposer})
    /\ endorsed' = store(endorsed, id, {proposer})
    /\ UNCHANGED <<now, config_vars, recovery_vars>>

open(p) == ~p.executed /\ ~p.cancelled

alive(p) == open(p) /\ now <= p.expiry

sign_action(signer, id) ==
    /\ signer \in council
    /\ alive(proposals[id])
    /\ signer \notin signed[id]
    /\ signed' = [signed EXCEPT ![id] = @ \cup {signer}]
    /\ proposals' = [proposals EXCEPT ![id].approval_count = @ + 1]
    /\ endorsed' = [endorsed EXCEPT ![id] = @ \cup {signer}]
    /\ UNCHANGED <<now, config_vars, proposal_count, active_count, recovery_vars>>

apply_add_signer(s) ==
    /\ s \notin council
    /\ council' = council \cup {s}
    /\ council_count' = council_count + 1
    /\ UNCHANGED council_threshold

\* Mutant: the threshold is compared with the count before the removal.
apply_remove_signer_late_check(s) ==
    /\ s \in council
    /\ council_count >= council_threshold
    /\ council' = council \ {s}
    /\ council_count' = council_count - 1
    /\ UNCHANGED council_threshold

apply_remove_signer(s) ==
    /\ s \in council
    /\ council_count - 1 >= council_threshold
    /\ council' = council \ {s}
    /\ council_count' = council_count - 1
    /\ UNCHANGED council_threshold

apply_update_threshold(n) ==
    /\ n \in 1 .. council_count
    /\ council_threshold' = n
    /\ UNCHANGED <<council, council_count>>

\* A call to another contract leaves this one alone; one that fails reverts.
dispatch(a) ==
    \/ a.fn = "add_signer" /\ apply_add_signer(a.arg)
    \/ a.fn = "remove_signer" /\ apply_remove_signer(a.arg)
    \/ a.fn = "update_threshold" /\ apply_update_threshold(a.arg)
    \/ a.fn = "invoke_contract" /\ UNCHANGED config_vars

\* saturating_sub
one_less(n) == IF n = 0 THEN 0 ELSE n - 1

\* Mutant: an expired proposal may still be executed.
executable_expired(p) == open(p) /\ p.approval_count >= council_threshold

approved_and_alive(p) == alive(p) /\ p.approval_count >= council_threshold

execute_action(id) ==
    /\ approved_and_alive(proposals[id])
    /\ proposals' = [proposals EXCEPT ![id].executed = TRUE]
    /\ dispatch(proposals[id].action)
    /\ active_count' = one_less(active_count)
    /\ UNCHANGED <<now, proposal_count, signed, endorsed, recovery_vars>>

cancel_action(caller, id) ==
    /\ caller = proposals[id].proposer \/ caller \in council
    /\ alive(proposals[id])
    /\ proposals' = [proposals EXCEPT ![id].cancelled = TRUE]
    /\ active_count' = one_less(active_count)
    /\ UNCHANGED <<now, config_vars, proposal_count, signed, endorsed, recovery_vars>>

-----------------------------------------------------------------------------
(* Disaster recovery.                                                      *)

set_emergency_signers(caller, S) ==
    /\ caller \in council
    /\ Cardinality(S) = EmergencySeats
    /\ gov_signers' = S
    /\ UNCHANGED <<now, config_vars, action_vars, gov_snapshots, gov_index, gov_rollbacks>>

GovConfigSnapshot ==
    [threshold |-> council_threshold, signer_count |-> council_count,
     proposal_count |-> proposal_count]

\* The oldest identifier falls out of the window when it is full; its entries are removed
\* before the new ones are written.
snapshot_state(caller, sid) ==
    LET full == Len(gov_index) = MaxGovSnapshots
        evicted == IF full THEN {Head(gov_index)} ELSE {}
    IN  /\ caller \in council
        /\ gov_index' = Append(IF full THEN Tail(gov_index) ELSE gov_index, sid)
        /\ gov_snapshots' = [s \in GovSnapshotIds |->
                               IF s = sid THEN GovConfigSnapshot
                               ELSE IF s \in evicted THEN NoGovSnapshot ELSE gov_snapshots[s]]
        /\ UNCHANGED <<now, config_vars, action_vars, gov_signers, gov_rollbacks>>

propose_emergency_rollback(proposer, sid) ==
    /\ Len(gov_rollbacks) < MaxGovRollbacks
    /\ proposer \in gov_signers
    /\ gov_snapshots[sid] # NoGovSnapshot
    /\ gov_rollbacks' = Append(gov_rollbacks,
            [snapshot_id |-> sid, approvals |-> {proposer}, executed |-> FALSE])
    /\ UNCHANGED <<now, config_vars, action_vars, gov_signers, gov_snapshots, gov_index>>

approve_emergency_rollback(signer, k) ==
    /\ signer \in gov_signers
    /\ ~gov_rollbacks[k].executed
    /\ signer \notin gov_rollbacks[k].approvals
    /\ gov_rollbacks' = [gov_rollbacks EXCEPT ![k].approvals = @ \cup {signer}]
    /\ UNCHANGED <<now, config_vars, action_vars, gov_signers, gov_snapshots, gov_index>>

\* Three counters are restored; the signers' entries, the proposals and the number of active
\* proposals stay.
execute_emergency_rollback(k) ==
    LET r == gov_rollbacks[k]
        s == gov_snapshots[r.snapshot_id]
    IN  /\ ~r.executed
        /\ Cardinality(r.approvals) >= EmergencyThreshold
        /\ s # NoGovSnapshot
        /\ council_threshold' = s.threshold
        /\ council_count' = s.signer_count
        /\ proposal_count' = s.proposal_count
        /\ gov_rollbacks' = [gov_rollbacks EXCEPT ![k].executed = TRUE]
        /\ UNCHANGED <<now, council, active_count, proposals, signed, endorsed,
                       gov_signers, gov_snapshots, gov_index>>

CouncilTick ==
    /\ CloseLedger(MaxCouncilTime)
    /\ UNCHANGED <<config_vars, action_vars, recovery_vars>>

CouncilNext ==
    \/ \E p \in Council, a \in CouncilActions : propose_action(p, a)
    \/ \E id \in ActionIds :
         \/ execute_action(id)
         \/ \E c \in Council : sign_action(c, id) \/ cancel_action(c, id)
    \/ \E c \in Council :
         \/ \E S \in SUBSET EmergencyAddresses : set_emergency_signers(c, S)
         \/ \E sid \in GovSnapshotIds : snapshot_state(c, sid)
    \/ \E g \in EmergencyAddresses :
         \/ \E sid \in GovSnapshotIds : propose_emergency_rollback(g, sid)
         \/ \E k \in 1 .. Len(gov_rollbacks) : approve_emergency_rollback(g, k)
    \/ \E k \in 1 .. Len(gov_rollbacks) : execute_emergency_rollback(k)
    \/ CouncilTick

CouncilSpec == CouncilInit /\ [][CouncilNext]_council_vars

-----------------------------------------------------------------------------
\* The approvals a proposal carries are those of distinct addresses that signed it, and not
\* an earlier proposal that had its number before a rollback.
CountsOwnSignatures ==
    \A id \in ActionIds : proposals[id].approval_count = Cardinality(endorsed[id])

\* An action takes effect, and the signers change, only by the execution of an open and
\* unexpired proposal that as many distinct addresses signed as the threshold of that
\* moment demands, whatever happened to signers, threshold and counters in between.
ActionsAreApproved ==
    [][/\ \A id \in ActionIds :
            (proposals'[id].executed /\ ~proposals[id].executed) =>
                /\ ~proposals[id].cancelled /\ now <= proposals[id].expiry
                /\ Cardinality(endorsed[id]) >= council_threshold
       /\ council' # council =>
            \E id \in ActionIds : proposals'[id].executed /\ ~proposals[id].executed]_council_vars

OpenActions == {id \in ActionIds : open(proposals[id])}

\* Until a rollback writes them, the counters are what they count, so that the present
\* signers can always reach the threshold.
CountersAreExact ==
    (\A k \in 1 .. Len(gov_rollbacks) : ~gov_rollbacks[k].executed) =>
        /\ council_count = Cardinality(council)
        /\ council_threshold \in 1 .. council_count
        /\ proposal_count = Len(proposals)
        /\ active_count = Cardinality(OpenActions)

\* What the documentation of get_active_proposal_count says, also after a rollback.
ActiveCountIsExact == active_count = Cardinality(OpenActions)
==============================================================================
