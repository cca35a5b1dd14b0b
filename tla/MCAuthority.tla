----------------------------- MODULE MCAuthority -----------------------------
(***************************************************************************)
(* Small instances, for TLC, of the contracts and the part of the escrow   *)
(* contract that decide who may do what. They share no state but the       *)
(* clock, so each is explored while the others are at rest in one of       *)
(* their initial states.                                                   *)
(***************************************************************************)
EXTENDS Multisig, Timelock, MultisigAdmin, TLC

CONSTANTS
    Explored,   \* the contracts to explore
    a1, a2, a3  \* addresses

VARIABLE contract   \* the one explored in this behaviour

\* Lists without and with a repetition, and the empty one, which is refused.
MCSigners == {<< >>, <<a1, a2>>, <<a1, a1>>, <<a1, a2, a3>>}

MCCouncilActions ==
    {[fn |-> "add_signer", arg |-> a2], [fn |-> "remove_signer", arg |-> a2],
     [fn |-> "update_threshold", arg |-> 1], [fn |-> "invoke_contract", arg |-> 0]}

\* Snapshots and guardians are told apart by nothing but their names.
AuthoritySymmetry == Permutations(GovSnapshotIds) \cup Permutations(Strong)

\* The initial state of a contract that is not explored.
AtRest ==
    /\ contract # "handover" => admin = a1
    /\ contract # "multisig" => threshold = 1 /\ signers = {a1}
    /\ contract # "timelock" => timelock_admin = a1
    /\ contract # "council" => council_threshold = 1

MCInit ==
    /\ contract \in Explored
    /\ HandoverInit /\ MultisigInit /\ TimelockInit /\ CouncilInit
    /\ AtRest

handover_state == <<admin, pending, last_admin_change, multisig_set, pending_proposer, in_office>>
multisig_state == <<signers, signer_count, threshold, transactions, approved, funds>>
timelock_state ==
    <<timelock_admin, guardian, operations, cancelled, timestamps, executions, overrides>>
council_state == <<config_vars, action_vars, recovery_vars>>

MCNext ==
    /\ \/ /\ contract = "handover" /\ HandoverNext
          /\ UNCHANGED <<multisig_state, timelock_state, council_state>>
       \/ /\ contract = "multisig" /\ MultisigNext
          /\ UNCHANGED <<handover_state, timelock_state, council_state>>
       \/ /\ contract = "timelock" /\ TimelockNext
          /\ UNCHANGED <<handover_state, multisig_state, council_state>>
       \/ /\ contract = "council" /\ CouncilNext
          /\ UNCHANGED <<handover_state, multisig_state, timelock_state>>
    /\ UNCHANGED contract

MCSpec ==
    /\ MCInit
    /\ [][MCNext]_<<contract, now, handover_state, multisig_state, timelock_state, council_state>>
==============================================================================
