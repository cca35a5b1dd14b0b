-------------------------- MODULE EmergencyRelease --------------------------
(***************************************************************************)
(* The break-glass path of escrow/src/lib.rs and shared/src/emergency.rs.  *)
(* When the automatic release of an escrow has failed for good, emergency  *)
(* signers propose its release, a fixed number of them approve it, and     *)
(* after a timelock the holder of a short-lived role executes it, limited  *)
(* by a circuit breaker on the share of the pool released in a window.     *)
(* The ordinary life of the escrows goes on at the same time.              *)
(***************************************************************************)
EXTENDS EmergencySigners

CONSTANTS
    Responders,         \* addresses that may hold the emergency-admin role
    NoRole,             \* the role was never granted
    Reasons,            \* reason hashes
    EmergencyTimelock,  \* EMERGENCY_TIMELOCK_SECS
    RoleTTL,            \* EMERGENCY_ADMIN_TTL_SECS
    CircuitWindow,      \* EMERGENCY_CIRCUIT_WINDOW_SECS
    MaxActions          \* bound: emergency proposals in a behaviour

ASSUME EmergencyAssumption ==
    /\ EmergencyTimelock \in Nat /\ RoleTTL \in Nat \ {0} /\ CircuitWindow \in Nat \ {0}
    /\ MaxActions \in Nat

VARIABLES
    role,            \* DataKey::EmergencyAdmin: [admin, expires_at]
    actions,         \* DataKey::EmergencyProposal(1 .. EmergencyProposalCount)
    failed_params,   \* DataKey::EmergencyFailedParams
    circuit,         \* DataKey::EmergencyCircuit: [window_start, released, set]
    payments         \* history: emergency releases [window, amount, pool] in order

evars == <<signers, role, actions, failed_params, circuit, payments>>

ActionIds == 1 .. Len(actions)

NoCircuit == [window_start |-> 0, released |-> 0, set |-> FALSE]

\* No signers, no role, no actions yet.
EmergencyStart ==
    /\ signers = {}
    /\ role = [admin |-> NoRole, expires_at |-> 0]
    /\ actions = << >>
    /\ failed_params = {}
    /\ circuit = NoCircuit
    /\ payments = << >>

EmergencyInit == Init /\ EmergencyStart

-----------------------------------------------------------------------------
(* Configuration by the contract admin.                                    *)

set_emergency_signers(S) ==
    /\ registered(S)
    /\ UNCHANGED <<vars, role, actions, failed_params, circuit, payments>>

grant_emergency_admin(u) ==
    /\ role' = [admin |-> u, expires_at |-> now + RoleTTL]
    /\ UNCHANGED <<vars, signers, actions, failed_params, circuit, payments>>

-----------------------------------------------------------------------------
(* Proposal, approval and execution.                                       *)

\* compute_params_hash: two attempts share a hash exactly if these agree.
params(a) == <<a.escrow_id, a.amount, a.reason>>

\* Mutant: the failure gate lets an escrow through that may still be released by hand.
exhausted_at_manual_threshold(id) == failures[id].attempt_number >= ManualThreshold

\* The failure gate: the automatic release has used up all its attempts.
exhausted(id) == failures[id].attempt_number >= MaxAttempts

propose_emergency_action(proposer, id, reason) ==
    LET a == [escrow_id |-> id, amount |-> escrows[id].amount, reason |-> reason,
              execute_after |-> now + EmergencyTimelock, approvals |-> {proposer},
              executed |-> FALSE, failed |-> FALSE]
    IN  /\ Len(actions) < MaxActions
        /\ proposer \in signers
        /\ exhausted(id)
        /\ escrows[id].status = "Active"
        /\ params(a) \notin failed_params
        /\ actions' = Append(actions, a)
        /\ UNCHANGED <<vars, signers, role, failed_params, circuit, payments>>

\* Approvals stop at the exact threshold; they stay when the signers change later.
approve_emergency_action(signer, k) ==
    LET a == actions[k] IN
    /\ signer \in signers
    /\ ~a.executed /\ ~a.failed
    /\ signer \notin a.approvals
    /\ Cardinality(a.approvals) < Threshold
    /\ actions' = [actions EXCEPT ![k].approvals = @ \cup {signer}]
    /\ UNCHANGED <<vars, signers, role, failed_params, circuit, payments>>

\* validate_emergency_signatures: against the signers registered at execution.
signatures_valid(a) == a.approvals \subseteq signers /\ Cardinality(a.approvals) = Threshold

\* _active_pool_total.
active_pool_total ==
    SumFunctionOnSet([i \in EscrowIds |-> IF escrows[i].status = "Active" THEN escrows[i].amount ELSE 0],
                     EscrowIds)

\* The stored breaker, or a fresh one that starts now.
stored_circuit ==
    IF circuit.set THEN circuit ELSE [window_start |-> now, released |-> 0, set |-> TRUE]

\* The breaker's window: a new one starts with the first release after the old one ended.
current_circuit ==
    IF now - stored_circuit.window_start >= CircuitWindow
      THEN [window_start |-> now, released |-> 0, set |-> TRUE]
      ELSE stored_circuit

\* Mutant: each release is compared with the cap on its own.
within_cap_single(amount) == amount <= active_pool_total \div 10

\* check_circuit_breaker: at most a tenth of the active pool in one window.
within_cap(amount) == current_circuit.released + amount <= active_pool_total \div 10

\* The escrow is still what the proposal described.
still_releasable(a) ==
    escrows[a.escrow_id].status = "Active" /\ escrows[a.escrow_id].amount = a.amount

role_active(caller) == role.admin = caller /\ now < role.expires_at

executable(a, caller) ==
    /\ signatures_valid(a)
    /\ now >= a.execute_after
    /\ role_active(caller)
    /\ within_cap(a.amount)
    /\ still_releasable(a)

\* Mutant: only the action itself is barred after a failure, not its parameters.
attempted_own_failure(k) == ~actions[k].executed /\ ~actions[k].failed

\* An attempt on an open action whose parameters have not failed before.
attempted(k) == ~actions[k].executed /\ ~actions[k].failed /\ params(actions[k]) \notin failed_params

\* Mutant: the failure record and the report of the escrow are kept.
clear_failure_nothing(id) == UNCHANGED retry

\* The failure record is removed and the escrow leaves the watchlist.
clear_failure(id) ==
    /\ failures' = [failures EXCEPT ![id] = NoFailure]
    /\ watchlist' = watchlist \ {id}

\* execute_emergency_action, and emergency_release, which delegates to it.
execute_emergency_action_ok(caller, k) ==
    LET a == actions[k] IN
    /\ attempted(k)
    /\ executable(a, caller)
    /\ do_release(a.escrow_id, fee_bps, caller)
    /\ clear_failure(a.escrow_id)
    /\ actions' = [actions EXCEPT ![k].executed = TRUE]
    /\ circuit' = [current_circuit EXCEPT !.released = @ + a.amount]
    /\ payments' = Append(payments, [window |-> current_circuit.window_start,
                                     amount |-> a.amount, pool |-> active_pool_total])
    /\ UNCHANGED <<now, sessions, isolated, low_fee, config, signers, role, failed_params>>

\* _record_emergency_failure: an attempt, by anyone, that fails a check ends the action
\* and bars its parameters for ever.
execute_emergency_action_failed(caller, k) ==
    LET a == actions[k] IN
    /\ attempted(k)
    /\ signers # {}
    /\ ~executable(a, caller)
    /\ actions' = [actions EXCEPT ![k].failed = TRUE]
    /\ failed_params' = failed_params \cup {params(a)}
    /\ UNCHANGED <<vars, signers, role, circuit, payments>>

-----------------------------------------------------------------------------
Emergency ==
    \/ \E S \in SUBSET Signers : set_emergency_signers(S)
    \/ \E u \in Responders : grant_emergency_admin(u)
    \/ \E s \in Signers, id \in EscrowIds, r \in Reasons : propose_emergency_action(s, id, r)
    \/ \E s \in Signers, k \in ActionIds : approve_emergency_action(s, k)
    \/ \E u \in Responders, k \in ActionIds :
         execute_emergency_action_ok(u, k) \/ execute_emergency_action_failed(u, k)

\* The ordinary life of the escrows goes on.
Ordinary == Next /\ UNCHANGED evars

EmergencyNext == Emergency \/ Ordinary

EmergencySpec == EmergencyInit /\ [][EmergencyNext]_<<vars, evars>>

-----------------------------------------------------------------------------
(* Properties.                                                             *)

\* Emergency release is a last resort: as long as an escrow with an emergency proposal is
\* active, its automatic release is exhausted; no call gives it new attempts meanwhile.
LastResort ==
    \A k \in ActionIds :
        escrows[actions[k].escrow_id].status = "Active" =>
            failures[actions[k].escrow_id].attempt_number = MaxAttempts

\* An executed action leaves nothing behind: its escrow is released, also in the books,
\* no failure record or watchlist entry remains, and no second action was executed for it.
ExecutedIsSettled ==
    \A k \in ActionIds : actions[k].executed =>
        LET id == actions[k].escrow_id IN
        /\ escrows[id].status = "Released"
        /\ failures[id] = NoFailure
        /\ id \notin watchlist
        /\ \A j \in ActionIds \ {k} : ~(actions[j].executed /\ actions[j].escrow_id = id)

\* The emergency releases of one window of the breaker, however many escrows and actions
\* they belong to, never exceed a tenth of the active pool.
WindowCap ==
    \A i \in 1 .. Len(payments) :
        LET window == {j \in 1 .. i : payments[j].window = payments[i].window}
        IN  10 * SumFunctionOnSet([j \in window |-> payments[j].amount], window) <= payments[i].pool

\* The emergency path stays within its limits: it is open only when automatic release is
\* exhausted, it settles an escrow once and completely, and it never releases more than the
\* circuit breaker's share of the pool in a window.
EmergencyIsContained == LastResort /\ ExecutedIsSettled /\ WindowCap

\* Once an attempt has failed, no action with the same parameters is executed any more.
FailureIsPermanent ==
    [][\A k \in ActionIds :
         (actions'[k].executed /\ ~actions[k].executed) =>
            \A j \in ActionIds : actions[j].failed => params(actions[j]) # params(actions[k])]_<<vars, evars>>
=============================================================================
