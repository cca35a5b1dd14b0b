---- MODULE Guards ----
(* What stands before an operation: contracts/rbac,                        *)
(* contracts/velocity_limits, contracts/rate_limiter,                      *)
(* contracts/pause_guardian, contracts/interface_registry and, of          *)
(* contracts/shared, key_management, bft_consensus, reentrancy_guard and   *)
(* transaction_guard.                                                      *)
EXTENDS Host, Integers, Sequences, FiniteSets, FiniteSetsExt, SequencesExt

CONSTANTS
    Officers, Roles, AdminDelay, MaxRoleCalls, MaxRoleTime,     \* MIN_ADMIN_TIMELOCK_SECS
    Spenders, Spendings, BasicLimits, EnhancedLimits,           \* limits per transaction, day and month
    VelocityDay, VelocityMonth, MaxSpendings, MaxVelocityTime,
    LimitedCallers, MaxCalls, WindowSeconds, MaxLimitedCalls, MaxLimiterTime,   \* max_calls, window_seconds
    CircuitThreshold, HealthInterval, YieldContracts, MaxBreakerCalls, MaxBreakerTime,
    InterfaceIds, Implementations, InterfaceVersions, MaxRegistrations,
    KeyOwners, KeyGuardians, Commitments, RecoveryKeys, MaxGuardians, RecoveryQuorum, RecoveryTime,
    RevocationCooldown, RotationPeriod, ShareCounts, MaxRotationCalls, MaxKeyCalls, MaxKeyTime,
    BlockHashes, RoundQuorum, RoundTimeout, MaxTimeouts, MaxVotes, MaxRoundTime,
    GuardLocks, GuardCallers, MaxCallerDepth, MaxFrames, MaxGuardSteps,
    OpsPerWindow, IntentWindow, HighAmount, IntentAmounts, CoolingOff, ApprovalCounts,
    MaxIntents, MaxIntentTime

VARIABLES rbac, velocity, limiter, pause_guardian, registry, keys, consensus, guard, intents

guard_vars == <<rbac, velocity, limiter, pause_guardian, registry, keys, consensus, guard, intents>>

-----------------------------------------------------------------------------
(* Roles. *)

\* History: proposed holds the handovers that were neither cancelled nor replaced.
RbacInit ==
    \E a \in Officers :
      rbac = [super_admin |-> a, member |-> {<<"SUPER_ADMIN", a>>},
              members |-> [r \in Roles |-> IF r = "SUPER_ADMIN" THEN <<a>> ELSE << >>],
              count |-> [r \in Roles |-> IF r = "SUPER_ADMIN" THEN 1 ELSE 0],
              pending |-> {}, proposed |-> {}, calls |-> 0]

rbac_called(next) == rbac' = [next EXCEPT !.calls = @ + 1]
require_super_admin(a) == a = rbac.super_admin \/ <<"SUPER_ADMIN", a>> \in rbac.member

\* Mutant: a role that is held already is counted again.
grant_internal_again(store, role, a) ==
    [store EXCEPT !.member = @ \cup {<<role, a>>}, !.members[role] = IF <<role, a>> \in store.member THEN @ ELSE Append(@, a),
                  !.count[role] = @ + 1]

grant_internal(store, role, a) ==
    IF <<role, a>> \in store.member THEN store
    ELSE [store EXCEPT !.member = @ \cup {<<role, a>>}, !.members[role] = Append(@, a), !.count[role] = @ + 1]

grant_role(caller, role, a) == require_super_admin(caller) /\ rbac_called(grant_internal(rbac, role, a))

revoke_role(caller, role, a) ==
    /\ require_super_admin(caller) /\ <<role, a>> \in rbac.member
    /\ rbac_called([rbac EXCEPT !.member = @ \ {<<role, a>>}, !.members[role] = SelectSeq(@, LAMBDA x : x # a),
                                !.count[role] = IF @ > 0 THEN @ - 1 ELSE 0])

propose_admin_change(caller, a) ==
    LET transfer == [new |-> a, effective |-> now + AdminDelay, status |-> "Proposed"]
    IN  /\ require_super_admin(caller)
        /\ rbac_called([rbac EXCEPT !.pending = {transfer}, !.proposed = {[new |-> a, at |-> now]}])

\* Mutant: the delay is not waited for.
transfer_due_at_once(transfer) == TRUE

transfer_due(transfer) == now >= transfer.effective

\* The status is not looked at: an accepted transfer can be accepted again.
accept_admin_change(a) ==
    \E transfer \in rbac.pending :
      /\ transfer.new = a /\ transfer_due(transfer)
      /\ rbac_called([grant_internal(rbac, "SUPER_ADMIN", a) EXCEPT
           !.super_admin = a, !.pending = {[transfer EXCEPT !.status = "Accepted"]}])

\* Mutant: the transfer is marked and kept.
after_cancel_marked == {[t EXCEPT !.status = "Revoked"] : t \in rbac.pending}

after_cancel == {}

cancel_admin_change(caller) ==
    /\ require_super_admin(caller) /\ rbac.pending # {}
    /\ rbac_called([rbac EXCEPT !.pending = after_cancel, !.proposed = {}])

RbacTick == rbac.calls < MaxRoleCalls /\ CloseLedger(MaxRoleTime) /\ UNCHANGED rbac

RbacNext ==
    /\ \/ RbacTick
       \/ /\ rbac.calls < MaxRoleCalls /\ UNCHANGED now
          /\ \E c, a \in Officers :
               \/ \E r \in Roles : grant_role(c, r, a) \/ revoke_role(c, r, a)
               \/ propose_admin_change(c, a) \/ (c = a /\ accept_admin_change(a)) \/ (c = a /\ cancel_admin_change(c))
    /\ UNCHANGED <<velocity, limiter, pause_guardian, registry, keys, consensus, guard, intents>>

\* The list of a role's members, their flags and the counter describe the
\* same set, each member once, however grants, revocations and handovers mix.
RolesAgree ==
    \A r \in Roles :
      /\ IsInjective(rbac.members[r])
      /\ {<<r, a>> : a \in ToSet(rbac.members[r])} = {k \in rbac.member : k[1] = r}
      /\ rbac.count[r] = Len(rbac.members[r])

\* The super admin changes only to the account of the last proposal, which
\* was not cancelled, and after its delay.
HandoversWait ==
    [][rbac'.super_admin # rbac.super_admin =>
         \E p \in rbac.proposed : p.new = rbac'.super_admin /\ now >= p.at + AdminDelay]_guard_vars

-----------------------------------------------------------------------------
(* Spending limits by KYC tier. *)

\* The tier is the KYC registry's; Institutional accounts have no limits.
\* History: granted holds every accepted transaction with the limits of that moment.
VelocityInit ==
    velocity = [txs |-> [u \in Spenders |-> << >>], hold |-> [u \in Spenders |-> FALSE],
                tier |-> [u \in Spenders |-> "Basic"], granted |-> [u \in Spenders |-> << >>], last_reset |-> 0]

limit_config_for(u) ==
    CASE velocity.tier[u] = "Basic" -> BasicLimits
      [] velocity.tier[u] = "Enhanced" -> EnhancedLimits

spent_since(txs, start) == FoldLeft(LAMBDA sum, tx : IF tx.at >= start THEN sum + tx.amount ELSE sum, 0, txs)

\* Mutant: records older than a day are dropped.
retained_day(u) == SelectSeq(velocity.txs[u], LAMBDA tx : tx.at + VelocityDay >= now)

retained(u) == SelectSeq(velocity.txs[u], LAMBDA tx : tx.at + VelocityMonth >= now)

within_limits(u, amount) ==
    velocity.tier[u] # "Institutional" =>
      /\ spent_since(retained(u), now - VelocityDay) + amount <= limit_config_for(u)[2]
      /\ spent_since(retained(u), now - VelocityMonth) + amount <= limit_config_for(u)[3]

over_tx_limit(u, amount) == velocity.tier[u] # "Institutional" /\ amount > limit_config_for(u)[1]

\* A transaction above the limit for one puts the account on hold; one
\* above the daily or monthly limit is only refused.
check_and_record(u, amount) ==
    /\ ~velocity.hold[u]
    /\ \/ /\ over_tx_limit(u, amount)
          /\ velocity' = [velocity EXCEPT !.hold[u] = TRUE]
       \/ /\ ~over_tx_limit(u, amount) /\ within_limits(u, amount)
          /\ Len(velocity.granted[u]) < MaxSpendings
          /\ LET tx == [at |-> now, amount |-> amount]
             IN  velocity' = [velocity EXCEPT
                   !.txs[u] = Append(retained(u), tx),
                   !.granted[u] = Append(@, [at |-> now, amount |-> amount,
                                     limits |-> IF velocity.tier[u] = "Institutional" THEN << >> ELSE limit_config_for(u)])]

clear_hold_of(u) == velocity' = [velocity EXCEPT !.hold[u] = FALSE]

reset_daily ==
    /\ velocity.last_reset = 0 \/ now >= velocity.last_reset + VelocityDay
    /\ velocity' = [velocity EXCEPT !.last_reset = now]

\* set_kyc_level of the KYC registry.
tier_changes(u, t) == velocity' = [velocity EXCEPT !.tier[u] = t]

VelocityTick == CloseLedger(MaxVelocityTime) /\ UNCHANGED velocity

VelocityNext ==
    /\ \/ VelocityTick
       \/ /\ \/ \E u \in Spenders :
                  \/ \E a \in Spendings : check_and_record(u, a)
                  \/ \E t \in {"Basic", "Enhanced", "Institutional"} : tier_changes(u, t)
                  \/ (velocity.hold[u] /\ clear_hold_of(u))
             \/ reset_daily
          /\ UNCHANGED now
    /\ UNCHANGED <<rbac, limiter, pause_guardian, registry, keys, consensus, guard, intents>>

\* Whenever a transaction is accepted, everything the account was granted in
\* the day and the month before it, with it, is within the limits of its tier
\* at that moment, whatever was pruned and however the tier moved.
SpendingIsLimited ==
    \A u \in Spenders : \A i \in 1..Len(velocity.granted[u]) :
      LET tx == velocity.granted[u][i]
          before == SubSeq(velocity.granted[u], 1, i)
      IN  tx.limits # << >> =>
            /\ tx.amount <= tx.limits[1]
            /\ spent_since(before, tx.at - VelocityDay) <= tx.limits[2]
            /\ spent_since(before, tx.at - VelocityMonth) <= tx.limits[3]

-----------------------------------------------------------------------------
(* Calls per window. *)

\* History: allowed holds the times of the calls that were let through and counted.
LimiterInit ==
    limiter = [start |-> [c \in LimitedCallers |-> 0], count |-> [c \in LimitedCallers |-> 0],
               whitelist |-> {}, allowed |-> [c \in LimitedCallers |-> << >>], calls |-> 0]

\* Mutant: the window starts where the old one did.
new_window_unmoved(c) == [limiter EXCEPT !.count[c] = 1]

new_window(c) == [limiter EXCEPT !.start[c] = now, !.count[c] = 1]

\* Mutant: one call more than the limit.
call_left_inclusive(c) == limiter.count[c] <= MaxCalls

call_left(c) == limiter.count[c] < MaxCalls

\* Without an entry the window starts at time 0. A call of an account on
\* the whitelist is allowed and not counted; one too many is refused.
check_rate_limit(c) ==
    /\ limiter.calls < MaxLimitedCalls /\ c \notin limiter.whitelist
    /\ LET next == IF now >= limiter.start[c] + WindowSeconds THEN new_window(c)
                   ELSE [limiter EXCEPT !.count[c] = @ + 1]
       IN  /\ now < limiter.start[c] + WindowSeconds => call_left(c)
           /\ limiter' = [next EXCEPT !.allowed[c] = Append(@, now), !.calls = @ + 1]

add_to_whitelist(c) == c \notin limiter.whitelist /\ limiter' = [limiter EXCEPT !.whitelist = @ \cup {c}]
remove_from_whitelist(c) == c \in limiter.whitelist /\ limiter' = [limiter EXCEPT !.whitelist = @ \ {c}]

LimiterTick == CloseLedger(MaxLimiterTime) /\ UNCHANGED limiter

LimiterNext ==
    /\ \/ LimiterTick
       \/ /\ \E c \in LimitedCallers : check_rate_limit(c) \/ add_to_whitelist(c) \/ remove_from_whitelist(c)
          /\ UNCHANGED now
    /\ UNCHANGED <<rbac, velocity, pause_guardian, registry, keys, consensus, guard, intents>>

\* The windows are fixed, so a span of one window's length sees at most the
\* calls of two windows, and the current window at most the limit; time on
\* the whitelist changes neither.
CallsAreLimited ==
    \A c \in LimitedCallers :
      LET calls(from, to) == Cardinality({i \in 1..Len(limiter.allowed[c]) : limiter.allowed[c][i] \in from..to})
      IN  /\ calls(limiter.start[c], now) <= MaxCalls
          /\ \A t \in 0..now : calls(t, t + WindowSeconds - 1) <= 2 * MaxCalls

-----------------------------------------------------------------------------
(* The circuit pause_guardian. *)

\* History: validated is the contract whose interface was validated last.
BreakerInit ==
    pause_guardian = [paused |-> FALSE, failures |-> 0, yield |-> {}, iface_valid |-> FALSE,
               checked |-> 0, validated |-> {}, calls |-> 0]

breaker_called(next) == pause_guardian.calls < MaxBreakerCalls /\ pause_guardian' = [next EXCEPT !.calls = @ + 1]

\* Mutant: the failures counted so far are kept.
failures_after_kept(paused) == pause_guardian.failures

failures_after(paused) == IF paused THEN pause_guardian.failures ELSE 0

set_paused(paused) ==
    breaker_called([pause_guardian EXCEPT !.paused = paused, !.failures = failures_after(paused)])

record_failure ==
    breaker_called([pause_guardian EXCEPT !.failures = @ + 1,
                                   !.paused = @ \/ pause_guardian.failures + 1 >= CircuitThreshold])

reset_failures == breaker_called([pause_guardian EXCEPT !.failures = 0])

activate_protections == breaker_called([pause_guardian EXCEPT !.paused = TRUE])

\* Mutant: the validation of the contract before stands.
valid_after_change_kept == pause_guardian.iface_valid

valid_after_change == FALSE

set_yield_contract(y) ==
    breaker_called([pause_guardian EXCEPT !.yield = {y}, !.iface_valid = valid_after_change])

validate_yield_interface ==
    pause_guardian.yield # {} /\ breaker_called([pause_guardian EXCEPT !.iface_valid = TRUE, !.validated = pause_guardian.yield])

check_yield_health ==
    /\ now >= pause_guardian.checked + HealthInterval
    /\ breaker_called([pause_guardian EXCEPT !.checked = now])

should_use_fallback == pause_guardian.paused \/ ~pause_guardian.iface_valid
monitor_system_health == ~pause_guardian.paused /\ pause_guardian.failures < CircuitThreshold /\ pause_guardian.iface_valid
detect_service_disruption == pause_guardian.paused \/ pause_guardian.failures >= CircuitThreshold - 1

BreakerTick == CloseLedger(MaxBreakerTime) /\ UNCHANGED pause_guardian

BreakerNext ==
    /\ \/ BreakerTick
       \/ /\ \/ \E p \in BOOLEAN : set_paused(p)
             \/ \E y \in YieldContracts : set_yield_contract(y)
             \/ record_failure \/ reset_failures \/ activate_protections
             \/ validate_yield_interface \/ check_yield_health
          /\ UNCHANGED now
    /\ UNCHANGED <<rbac, velocity, limiter, registry, keys, consensus, guard, intents>>

\* As many failures as the threshold leave the system paused until the admin
\* resumes it, which also forgets them; without the fallback, the contract
\* that is called is the one whose interface was validated; and the three
\* questions asked of the breaker never contradict each other.
BreakerHolds ==
    /\ pause_guardian.failures >= CircuitThreshold => pause_guardian.paused
    /\ ~should_use_fallback => pause_guardian.yield = pause_guardian.validated
    /\ monitor_system_health => ~should_use_fallback
    /\ should_use_fallback \/ detect_service_disruption \/ monitor_system_health

-----------------------------------------------------------------------------
(* The registry of interfaces. *)

RegistryInit ==
    registry = [interface |-> NothingStored, ids |-> << >>, descriptor |-> NothingStored,
                quarantined |-> {}, calls |-> 0]

registry_called(next) == registry.calls < MaxRegistrations /\ registry' = [next EXCEPT !.calls = @ + 1]

\* Mutant: each version of an interface is listed.
listed_again(id) == Append(registry.ids, id)

listed(id) == IF id \in DOMAIN registry.interface THEN registry.ids ELSE Append(registry.ids, id)

register_interface(contract, id, version) ==
    registry_called([registry EXCEPT
      !.ids = listed(id), !.interface = put(@, id, [contract |-> contract, version |-> version]),
      !.descriptor = put(@, id, stored(@, id, "empty"))])

set_interface_descriptor(id) == registry_called([registry EXCEPT !.descriptor = put(@, id, "given")])

quarantine_contract(c) == registry_called([registry EXCEPT !.quarantined = @ \cup {c}])
unquarantine_contract(c) == registry_called([registry EXCEPT !.quarantined = @ \ {c}])

\* Mutant: quarantine is not looked at.
verify_interface_anyway(c, id) == id \in DOMAIN registry.interface /\ registry.interface[id].contract = c

verify_interface(c, id) ==
    c \notin registry.quarantined /\ id \in DOMAIN registry.interface /\ registry.interface[id].contract = c

RegistryNext ==
    /\ \/ \E id \in InterfaceIds :
            \/ \E c \in Implementations, v \in InterfaceVersions : register_interface(c, id, v)
            \/ set_interface_descriptor(id)
       \/ \E c \in Implementations : quarantine_contract(c) \/ unquarantine_contract(c)
    /\ UNCHANGED <<now, rbac, velocity, limiter, pause_guardian, keys, consensus, guard, intents>>

\* Every interface is listed once, and list_interfaces finds each one; an
\* interface is verified for at most one contract, the last that was
\* registered, and for none while that one is in quarantine.
RegistryAgrees ==
    /\ IsInjective(registry.ids) /\ ToSet(registry.ids) = DOMAIN registry.interface
    /\ DOMAIN registry.interface \subseteq DOMAIN registry.descriptor
    /\ \A id \in InterfaceIds :
         LET verified == {c \in Implementations : verify_interface(c, id)}
         IN  verified = IF id \in DOMAIN registry.interface THEN {registry.interface[id].contract} \ registry.quarantined
                        ELSE {}

-----------------------------------------------------------------------------
(* Keys, their rotation, and their recovery by guardians. *)

\* A recovery session is filed under a hash of the new key and the time, so
\* two accounts, or two attempts, of one ledger share the session.
\* Histories: approvers of the session as it is stored now, the approvals
\* that were spent on recoveries, and proposals less executed rotations.
KeysInit ==
    keys = [record |-> [a \in KeyOwners |-> << >>], rotation |-> NothingStored, share |-> NothingStored,
            revocation |-> NothingStored, guardians |-> [a \in KeyOwners |-> << >>],
            session |-> NothingStored, approved |-> {}, approvers |-> NothingStored, spent |-> {},
            unused |-> [a \in KeyOwners |-> 0], calls |-> 0]

keys_called(next) == keys.calls < MaxKeyCalls /\ keys' = [next EXCEPT !.calls = @ + 1]
get_current_key_version(a) == Len(keys.record[a])

\* Mutant: a new key takes the place of a revoked one.
register_key_in_place(store, a, commitment) ==
    LET new == [commitment |-> commitment, rotate_after |-> now + RotationPeriod, revoked |-> FALSE]
    IN  [store EXCEPT !.record[a] = IF @ # << >> /\ Last(@).revoked THEN [@ EXCEPT ![Len(@)] = new] ELSE Append(@, new)]

\* Each key gets the next version number: the records are the versions in order.
register_key(store, a, commitment) ==
    [store EXCEPT !.record[a] = Append(@, [commitment |-> commitment, rotate_after |-> now + RotationPeriod,
                                           revoked |-> FALSE])]

new_key(a, c) == keys_called(register_key(keys, a, c))

\* The proposal names the version after the current one; executed later, it
\* takes whatever version is next by then.
propose_key_rotation(a, c) ==
    keys_called([keys EXCEPT !.rotation = put(@, a, [version |-> get_current_key_version(a) + 1, commitment |-> c,
                                                     executed |-> FALSE]),
                       !.unused[a] = @ + 1])

\* Mutant: a rotation can be executed again.
rotation_open_still(a) == a \in DOMAIN keys.rotation

rotation_open(a) == a \in DOMAIN keys.rotation /\ ~keys.rotation[a].executed

execute_key_rotation(a) ==
    /\ rotation_open(a)
    /\ keys_called([register_key(keys, a, keys.rotation[a].commitment) EXCEPT
         !.rotation[a].executed = TRUE, !.unused[a] = @ - 1])

emergency_revoke_key(a, version) ==
    /\ version \in 1..Len(keys.record[a]) /\ ~keys.record[a][version].revoked
    /\ keys_called([keys EXCEPT !.record[a][version].revoked = TRUE,
                                !.revocation = put(@, a, now + RevocationCooldown)])

\* Registering a share again takes its submission back.
register_threshold_share(a, i, total) ==
    keys_called([keys EXCEPT !.share = put(@, <<a, i>>, [total |-> total, submitted |-> FALSE])])

submit_threshold_share(a, i) ==
    /\ <<a, i>> \in DOMAIN keys.share /\ ~keys.share[<<a, i>>].submitted
    /\ keys_called([keys EXCEPT !.share[<<a, i>>].submitted = TRUE])

register_guardian(a, g) ==
    /\ Len(keys.guardians[a]) < MaxGuardians /\ ~Contains(keys.guardians[a], g)
    /\ keys_called([keys EXCEPT !.guardians[a] = Append(@, g)])

session_id(commitment) == <<commitment, now>>

\* Mutant: an attempt repeated in the same ledger keeps the approvals.
collected_at_start_kept(id) == IF id \in DOMAIN keys.session THEN keys.session[id].collected ELSE 0

collected_at_start(id) == 0

\* The approval flags of a session that is replaced stay.
initiate_social_recovery(a, c) ==
    LET id == session_id(c)
    IN  keys_called([keys EXCEPT
          !.session = put(@, id, [account |-> a, collected |-> collected_at_start(id), expires |-> now + RecoveryTime,
                                  executed |-> FALSE]),
          !.approvers = put(@, id, {})])

\* Mutant: a guardian may approve again.
not_approved_yet_unchecked(g, id) == TRUE

not_approved_yet(g, id) == <<g, id>> \notin keys.approved

approve_social_recovery(g, id) ==
    /\ id \in DOMAIN keys.session /\ ~keys.session[id].executed /\ now <= keys.session[id].expires
    /\ Contains(keys.guardians[keys.session[id].account], g)
    /\ not_approved_yet(g, id)
    /\ keys_called([keys EXCEPT !.approved = @ \cup {<<g, id>>}, !.session[id].collected = @ + 1,
                                !.approvers[id] = @ \cup {g}])

execute_social_recovery(id) ==
    /\ id \in DOMAIN keys.session /\ ~keys.session[id].executed /\ now <= keys.session[id].expires
    /\ keys.session[id].collected >= RecoveryQuorum
    /\ keys_called([register_key(keys, keys.session[id].account, id[1]) EXCEPT
         !.session[id].executed = TRUE,
         !.spent = @ \cup {[account |-> keys.session[id].account, id |-> id, by |-> keys.approvers[id]]}])

KeysTick == keys.calls < MaxKeyCalls /\ CloseLedger(MaxKeyTime) /\ UNCHANGED keys

RotationNext ==
    /\ keys.calls < MaxRotationCalls
    /\ \E a \in KeyOwners :
         \/ \E c \in Commitments : new_key(a, c) \/ propose_key_rotation(a, c)
         \/ execute_key_rotation(a)
         \/ \E v \in 1..MaxKeyCalls : emergency_revoke_key(a, v)
         \/ \E n \in ShareCounts : \E i \in 1..n : register_threshold_share(a, i, n) \/ submit_threshold_share(a, i)
    /\ UNCHANGED <<now, rbac, velocity, limiter, pause_guardian, registry, consensus, guard, intents>>

KeysNext ==
    /\ \/ KeysTick
       \/ /\ \/ \E a \in KeyOwners :
                  \/ \E g \in KeyGuardians : register_guardian(a, g)
                  \/ \E c \in RecoveryKeys : initiate_social_recovery(a, c)
             \/ \E id \in DOMAIN keys.session :
                  execute_social_recovery(id) \/ \E g \in KeyGuardians : approve_social_recovery(g, id)
          /\ UNCHANGED now
    /\ UNCHANGED <<rbac, velocity, limiter, pause_guardian, registry, consensus, guard, intents>>

\* A key is recovered only with the approvals of a quorum of the account's
\* own guardians, given to this attempt in its time, and no approval serves
\* for two recoveries, though attempts of one ledger share a session.
RecoveriesHaveQuorum ==
    /\ \A id \in DOMAIN keys.session : keys.session[id].collected = Cardinality(keys.approvers[id])
    /\ \A s \in keys.spent : /\ Cardinality(s.by) >= RecoveryQuorum /\ s.by \subseteq ToSet(keys.guardians[s.account])
                             /\ \A t \in keys.spent : s.id = t.id /\ s # t => s.by \cap t.by = {}

\* A proposal is executed once: there are never more rotations than
\* proposals, though a proposal may be replaced and keys registered besides.
RotationsAreProposed == \A a \in KeyOwners : keys.unused[a] >= 0

\* A rotation installs the key that was proposed, as a new version;
\* versions never disappear and a revoked one stays revoked.
KeysAreKept ==
    [][\A a \in KeyOwners :
         LET before == keys.record[a]
             after == keys'.record[a]
         IN  /\ Len(after) >= Len(before)
             /\ \A v \in 1..Len(before) : after[v].commitment = before[v].commitment /\ (before[v].revoked => after[v].revoked)
             /\ keys'.unused[a] < keys.unused[a]
                  => Len(after) = Len(before) + 1 /\ Last(after).commitment = keys.rotation[a].commitment]_guard_vars

-----------------------------------------------------------------------------
(* Rounds of consensus. *)

\* Votes are counted, not the voters. Histories: the votes of a round, and
\* the certificates issued.
ConsensusInit ==
    consensus = [round |-> 0, phase |-> "Idle", active |-> {}, timeouts |-> 0,
                 votes |-> {}, certificates |-> {}, steps |-> 0]

consensus_step(next) == consensus.steps < MaxVotes /\ consensus' = [next EXCEPT !.steps = @ + 1]

\* A new round may begin while another is open.
start_new_round(hash) ==
    consensus_step([consensus EXCEPT
      !.round = @ + 1, !.phase = "PrePrepare",
      !.active = {[round |-> consensus.round + 1, phase |-> "PrePrepare", hash |-> hash, started |-> now,
                   prepares |-> 0, commits |-> 0]}])

\* Mutant: a vote counts in the ledger in which the round expires.
is_round_expired_late(r) == now > r.started + RoundTimeout

is_round_expired(r) == now >= r.started + RoundTimeout

cast(r, kind, next) ==
    consensus_step([consensus EXCEPT !.active = {next},
                    !.votes = @ \cup {[round |-> r.round, kind |-> kind, hash |-> r.hash, at |-> now, nr |-> consensus.steps]}])

cast_prepare(hash) ==
    \E r \in consensus.active :
      /\ r.phase = "PrePrepare" /\ r.hash = hash /\ ~is_round_expired(r)
      /\ cast(r, "Prepare", [r EXCEPT !.prepares = @ + 1,
                                      !.phase = IF r.prepares + 1 >= RoundQuorum THEN "Prepare" ELSE @])

\* Mutant: commits are counted before a quorum has prepared.
may_commit_early(r) == r.phase \in {"PrePrepare", "Prepare"}

may_commit(r) == r.phase = "Prepare"

cast_commit(hash) ==
    \E r \in consensus.active :
      /\ may_commit(r) /\ r.hash = hash /\ ~is_round_expired(r)
      /\ cast(r, "Commit", [r EXCEPT !.commits = @ + 1,
                                     !.phase = IF r.commits + 1 >= RoundQuorum THEN "Commit" ELSE @])

finalize_round ==
    \E r \in consensus.active :
      /\ r.phase = "Commit" /\ r.commits >= RoundQuorum
      /\ consensus_step([consensus EXCEPT
           !.active = {[r EXCEPT !.phase = "Finalized"]},
           !.certificates = @ \cup {[round |-> r.round, hash |-> r.hash, started |-> r.started, count |-> r.commits,
                                     nr |-> consensus.steps]}])

fail_round == \E r \in consensus.active : consensus_step([consensus EXCEPT !.active = {[r EXCEPT !.phase = "Failed"]}])

\* True, a call to replace the leader, from MAX_TIMEOUTS_BEFORE_EJECT on.
handle_round_timeout ==
    consensus.timeouts < MaxTimeouts /\ consensus_step([consensus EXCEPT !.timeouts = @ + 1, !.phase = "Failed"])
reset_timeouts == consensus.timeouts > 0 /\ consensus_step([consensus EXCEPT !.timeouts = 0])

ConsensusTick == CloseLedger(MaxRoundTime) /\ UNCHANGED consensus

ConsensusNext ==
    /\ \/ ConsensusTick
       \/ /\ \/ \E h \in BlockHashes : start_new_round(h) \/ cast_prepare(h) \/ cast_commit(h)
             \/ finalize_round \/ fail_round \/ handle_round_timeout \/ reset_timeouts
          /\ UNCHANGED now
    /\ UNCHANGED <<rbac, velocity, limiter, pause_guardian, registry, keys, guard, intents>>

\* A round yields at most one certificate, for its own block, and only after
\* a quorum of prepares and then a quorum of commits for that block, all of
\* them before the round's time was over.
CertificatesHaveQuorum ==
    \A c \in consensus.certificates :
      LET votes(kind) == {v \in consensus.votes : /\ v.round = c.round /\ v.kind = kind /\ v.hash = c.hash
                                                  /\ v.at < c.started + RoundTimeout}
      IN  /\ \A d \in consensus.certificates : d.round = c.round => d = c
          /\ Cardinality(votes("Commit")) >= RoundQuorum
          /\ \A v \in votes("Commit") : Cardinality({p \in votes("Prepare") : p.nr < v.nr}) >= RoundQuorum

-----------------------------------------------------------------------------
(* The reentrancy guard, within one transaction. *)

\* A frame is a call in progress: the guard it holds and the storage as it
\* was when the call began, which the host restores if the call fails.
GuardInit ==
    guard = [locks |-> {}, callers |-> << >>, frames |-> << >>, steps |-> 0]

guard_step(next) == guard.steps < MaxGuardSteps /\ guard' = [next EXCEPT !.steps = @ + 1]

\* Mutant: only the direct caller is compared.
no_call_loop_direct(caller) == ~(Len(guard.callers) >= 2 /\ Last(guard.callers) = caller)

no_call_loop(caller) == ~(Len(guard.callers) >= 2 /\ Contains(guard.callers, caller))

\* Mutant: the lock is not looked at.
lock_is_free_always(lock) == TRUE

lock_is_free(lock) == lock \notin guard.locks

frame(lock, caller) ==
    [lock |-> lock, caller |-> caller, saved |-> [locks |-> guard.locks, callers |-> guard.callers]]

\* A call that finds the lock taken sets the pause flags of the lock and of
\* all locks, and panics; the host takes back what that call wrote, the flags
\* with it, so check_pause_triggered never finds one.
enter(lock) ==
    /\ Len(guard.frames) < MaxFrames
    /\ lock_is_free(lock)
    /\ guard_step([guard EXCEPT !.locks = @ \cup {lock}, !.frames = Append(@, frame(lock, {}))])

enter_with_caller(lock, caller) ==
    /\ Len(guard.frames) < MaxFrames
    /\ lock_is_free(lock)
    /\ Len(guard.callers) < MaxCallerDepth /\ no_call_loop(caller)
    /\ guard_step([guard EXCEPT !.locks = @ \cup {lock}, !.callers = Append(@, caller),
                                !.frames = Append(@, frame(lock, {caller}))])

\* Mutant: the caller stays on the stack.
popped_never(f) == guard.callers

popped(f) == IF f.caller = {} \/ guard.callers = << >> THEN guard.callers ELSE Front(guard.callers)

\* Drop: the innermost call returns.
do_release ==
    /\ guard.frames # << >>
    /\ LET f == Last(guard.frames)
       IN  guard_step([guard EXCEPT !.locks = @ \ {f.lock}, !.callers = popped(f), !.frames = Front(@)])

\* The innermost call fails after it entered and its caller goes on.
call_fails ==
    /\ guard.frames # << >>
    /\ LET f == Last(guard.frames)
       IN  guard_step([guard EXCEPT !.locks = f.saved.locks, !.callers = f.saved.callers, !.frames = Front(@)])

GuardNext ==
    /\ \/ \E l \in GuardLocks : enter(l) \/ \E c \in GuardCallers : enter_with_caller(l, c)
       \/ do_release \/ call_fails
    /\ UNCHANGED <<now, rbac, velocity, limiter, pause_guardian, registry, keys, consensus, intents>>

\* The locks that are set are those of the calls in progress, one call each;
\* the stack names their callers in order, and from the third on no caller
\* twice; outside a call, failed ones included, nothing stays locked.
GuardIsExclusive ==
    LET holders == SelectSeq(guard.frames, LAMBDA f : f.caller # {})
    IN  /\ guard.locks = {guard.frames[i].lock : i \in 1..Len(guard.frames)}
        /\ Cardinality(guard.locks) = Len(guard.frames)
        /\ Len(holders) = Len(guard.callers)
        /\ \A i \in 1..Len(holders) : holders[i].caller = {guard.callers[i]}
        /\ \A i \in 3..Len(guard.callers) : \A j \in 1..(i - 1) : guard.callers[i] # guard.callers[j]

-----------------------------------------------------------------------------
(* The assessment of a transaction and its approvals. *)

\* History: asked holds the approvals given since the requirement was filed.
IntentsInit ==
    intents = [ops |-> 0, start |-> 0, high |-> 0, score |-> 0, blocked |-> FALSE, risk |-> "Low",
               required |-> NothingStored, asked |-> NothingStored, calls |-> 0]

intents_called(next) == intents.calls < MaxIntents /\ intents' = [next EXCEPT !.calls = @ + 1]

anomaly_score(ops, amount, first_time) ==
    (IF ops > OpsPerWindow THEN 2000 ELSE 0) + (IF amount > HighAmount THEN 1500 ELSE 0)
      + (IF first_time THEN 1000 ELSE 0) + (IF intents.high >= 3 THEN 2500 ELSE 0)

risk_level(score) ==
    CASE score >= 7500 -> "Critical" [] score >= 5000 -> "High" [] score >= 2500 -> "Medium" [] OTHER -> "Low"

evaluate_transaction_intent(amount, first_time) ==
    LET over == now > intents.start + IntentWindow
        ops == (IF over THEN 0 ELSE intents.ops) + 1
        score == anomaly_score(ops, amount, first_time)
        level == risk_level(score)
    IN  intents_called([intents EXCEPT
          !.ops = ops, !.start = IF over THEN now ELSE @, !.risk = level,
          !.high = IF level \in {"High", "Critical"} THEN @ + 1 ELSE 0,
          !.score = Min({10000, (IF over THEN 0 ELSE @) + score}),
          !.blocked = @ \/ score >= 7500])

unblock_account == intents_called([intents EXCEPT !.blocked = FALSE, !.high = 0, !.score = 0])

\* The fingerprint is a hash of the operation and the time: a requirement
\* of the same ledger is replaced. The caller counts as the first approval.
create_multisig_requirement(n) ==
    intents_called([intents EXCEPT
      !.required = put(@, now, [approvals |-> n, collected |-> 1, deadline |-> now + CoolingOff, satisfied |-> n <= 1]),
      !.asked = put(@, now, << now >>)])

\* Mutant: an approval counts after the deadline.
before_deadline_always(r) == TRUE

before_deadline(r) == now <= r.deadline

\* Who approves is not recorded.
add_multisig_approval(id) ==
    /\ before_deadline(intents.required[id]) /\ ~intents.required[id].satisfied
    /\ intents_called([intents EXCEPT
         !.required[id].collected = @ + 1,
         !.required[id].satisfied = intents.required[id].collected + 1 >= intents.required[id].approvals,
         !.asked[id] = Append(@, now)])

IntentsTick == CloseLedger(MaxIntentTime) /\ UNCHANGED intents

IntentsNext ==
    /\ \/ IntentsTick
       \/ /\ \/ \E a \in IntentAmounts, f \in BOOLEAN : evaluate_transaction_intent(a, f)
             \/ \E n \in ApprovalCounts : create_multisig_requirement(n)
             \/ \E id \in DOMAIN intents.required : add_multisig_approval(id)
             \/ unblock_account
          /\ UNCHANGED now
    /\ UNCHANGED <<rbac, velocity, limiter, pause_guardian, registry, keys, consensus, guard>>

\* A requirement is satisfied exactly when it has its approvals, all of them
\* given before the deadline of the requirement as it stands.
ApprovalsAreInTime ==
    \A id \in DOMAIN intents.required :
      LET r == intents.required[id]
          inTime == {i \in 1..Len(intents.asked[id]) : intents.asked[id][i] \in id..(id + CoolingOff)}
      IN  r.satisfied <=> Cardinality(inTime) >= r.approvals
====
