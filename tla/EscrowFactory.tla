---- MODULE EscrowFactory ----
(* contracts/escrow_factory: deploys one escrow contract per session, for  *)
(* the admin or a relayed signer; large amounts wait for an approval.      *)
(* The escrow's own initialize and create_escrow, the anomaly detector and *)
(* the interface registry either succeed or fail the whole call.           *)
EXTENDS Host, Sequences, FiniteSets

CONSTANTS
    FactorySessions,     \* session ids
    FactoryLearners,     \* addresses
    FactoryAmounts,      \* amounts
    HighValue,           \* HighValueThreshold
    ApprovalWindow,      \* HIGH_VALUE_APPROVAL_WINDOW_SECS
    FactoryFee,          \* calculate_escrow_fees, in basis points
    DeviationLimit,      \* of detect_fee_evasion, 8000
    RelayTolerance, RelayMaxDeadline,   \* EXPIRY_TOLERANCE_SECS, MAX_DEADLINE_SECS
    MaxDeployments, MaxRelays, MaxFactoryTime   \* bounds

ASSUME FactoryAssumption ==
    FactoryAmounts \subseteq Nat /\ {HighValue, ApprovalWindow, FactoryFee} \subseteq Nat

VARIABLES
    esc_map,          \* ESCROW_MAPPING: session |-> address, a partial function
    esc_list,         \* ESCROW_LIST, 1 .. ESCROW_COUNT
    session_nonce,    \* SESSION_NONCE
    pending_high,     \* PendingHighValueSession, a partial function
    fee_history,      \* DEP_HIST of a learner: count and total, in temporary storage
    factory_paused,   \* what the pause guardian answers
    relay_nonce,      \* the nonce of a signer's next meta-transaction
    relayed,          \* history: the meta-transactions executed
    approved_after    \* history: seconds from request to approval

factory_vars ==
    <<esc_map, esc_list, session_nonce, pending_high, fee_history, factory_paused, relay_nonce,
      relayed, approved_after>>

FactoryInit ==
    /\ now = 0
    /\ esc_map = NothingStored /\ esc_list = << >> /\ session_nonce = [s \in FactorySessions |-> 0]
    /\ pending_high = NothingStored
    /\ fee_history = [l \in FactoryLearners |-> [count |-> 0, total |-> 0]]
    /\ factory_paused = FALSE
    /\ relay_nonce = [l \in FactoryLearners |-> 0] /\ relayed = << >> /\ approved_after = << >>

expected_fee(amount) == (amount * FactoryFee) \div 10000

\* detect_fee_evasion: the average of the learner's earlier fees against this one.
fee_is_plausible(l, amount) ==
    LET h == fee_history[l]
        average == h.total \div h.count
        fee == expected_fee(amount)
    IN  (h.count > 0 /\ average < fee) => ((fee - average) * 10000) \div fee < DeviationLimit

\* Mutant: a session always uses the same salt.
next_nonce_constant(s) == 1

next_nonce(s) == session_nonce[s] + 1

\* compute_salt and the address derived from it.
address_of(s, l, nonce) == [session |-> s, learner |-> l, nonce |-> nonce]

\* predict_escrow_address, also the answer of a call that only leaves a request.
predicted(s, l) == address_of(s, l, next_nonce(s))

\* Mutant: the mapping keeps the first address.
mapped_first(s, a) == IF s \in DOMAIN esc_map THEN esc_map ELSE put(esc_map, s, a)

mapped(s, a) == put(esc_map, s, a)

\* A session that is mapped already is not refused here.
deploy_escrow_internal(s, l, amount) ==
    LET a == predicted(s, l) IN
    /\ Len(esc_list) < MaxDeployments
    /\ session_nonce' = [session_nonce EXCEPT ![s] = next_nonce(s)]
    /\ esc_map' = mapped(s, a)
    /\ esc_list' = Append(esc_list, [address |-> a, session |-> s, amount |-> amount])

\* The fee history grows also when the deployment still waits for an approval, and a request
\* replaces an earlier one for the session.
deploy(l, amount, s) ==
    /\ fee_is_plausible(l, amount)
    /\ ~factory_paused
    /\ s \notin DOMAIN esc_map
    /\ fee_history[l].count < MaxDeployments
    /\ fee_history' = [fee_history EXCEPT ![l] = [count |-> @.count + 1,
                                                  total |-> @.total + expected_fee(amount)]]
    /\ IF amount > HighValue
         THEN /\ pending_high' = put(pending_high, s, [learner |-> l, amount |-> amount,
                   requested_at |-> now, promised |-> predicted(s, l)])
              /\ UNCHANGED <<session_nonce, esc_map, esc_list>>
         ELSE /\ deploy_escrow_internal(s, l, amount)
              /\ UNCHANGED pending_high

deploy_escrow(l, amount, s) ==
    /\ deploy(l, amount, s)
    /\ UNCHANGED <<now, factory_paused, relay_nonce, relayed, approved_after>>

\* Mutant: the nonce is consumed by the next call.
relay_nonce_after_unused(l) == relay_nonce

relay_nonce_after(l) == [relay_nonce EXCEPT ![l] = @ + 1]

\* validate_and_consume_nonce and deploy_escrow; both or neither take effect.
execute_meta_tx(l, payload, amount, s) ==
    /\ Len(relayed) < MaxRelays
    /\ payload.nonce = relay_nonce[l]
    /\ payload.deadline > now + RelayTolerance /\ payload.deadline <= now + RelayMaxDeadline
    /\ relay_nonce' = relay_nonce_after(l)
    /\ deploy(l, amount, s)
    /\ relayed' = Append(relayed, [signer |-> l, payload |-> payload])
    /\ UNCHANGED <<now, factory_paused, approved_after>>

\* Mutant: the window starts with the approval's ledger.
in_time_always(p) == TRUE

in_time(p) == now <= p.requested_at + ApprovalWindow

\* A late approval fails: the refund and the removal of the request before the panic are undone.
approve_high_value_session(s) ==
    LET p == pending_high[s] IN
    /\ s \in DOMAIN pending_high
    /\ in_time(p)
    /\ pending_high' = del(pending_high, s)
    /\ deploy_escrow_internal(s, p.learner, p.amount)
    /\ approved_after' = Append(approved_after, now - p.requested_at)
    /\ UNCHANGED <<now, fee_history, factory_paused, relay_nonce, relayed>>

\* A temporary entry expires.
fee_history_expires(l) ==
    /\ fee_history' = [fee_history EXCEPT ![l] = [count |-> 0, total |-> 0]]
    /\ UNCHANGED <<now, esc_map, esc_list, session_nonce, pending_high, factory_paused, relay_nonce,
                   relayed, approved_after>>

guardian_changes ==
    /\ factory_paused' = ~factory_paused
    /\ UNCHANGED <<now, esc_map, esc_list, session_nonce, pending_high, fee_history, relay_nonce,
                   relayed, approved_after>>

FactoryTick == CloseLedger(MaxFactoryTime) /\ UNCHANGED factory_vars

Payloads == [nonce : 0 .. MaxRelays, deadline : 0 .. MaxFactoryTime + RelayMaxDeadline]

FactoryNext ==
    \/ \E l \in FactoryLearners, a \in FactoryAmounts, s \in FactorySessions :
         deploy_escrow(l, a, s) \/ \E p \in Payloads : execute_meta_tx(l, p, a, s)
    \/ \E s \in FactorySessions : approve_high_value_session(s)
    \/ \E l \in FactoryLearners : fee_history_expires(l)
    \/ guardian_changes
    \/ FactoryTick

FactorySpec == FactoryInit /\ [][FactoryNext]_<<now, factory_vars>>

-----------------------------------------------------------------------------
\* No two deployments share an address, although a session may be deployed twice, directly and
\* by the approval of an earlier request.
AddressesAreFresh ==
    \A i, j \in DOMAIN esc_list : esc_list[i].address = esc_list[j].address => i = j

\* get_escrow_address leads to the escrow that was deployed last for the session.
MappingIsLatest ==
    \A i \in DOMAIN esc_list :
        LET s == esc_list[i].session IN
        (\A j \in DOMAIN esc_list : esc_list[j].session = s => j <= i)
            => s \in DOMAIN esc_map /\ esc_map[s] = esc_list[i].address

\* A signed payload deploys one escrow, or makes one request, however often it is relayed.
PayloadsAreUsedOnce ==
    \A i, j \in DOMAIN relayed : relayed[i] = relayed[j] => i = j

\* Escrows of high value exist only by approvals given in time.
ApprovedInTime ==
    /\ \A i \in DOMAIN approved_after : approved_after[i] <= ApprovalWindow
    /\ Cardinality({i \in DOMAIN esc_list : esc_list[i].amount > HighValue}) = Len(approved_after)

\* deploy_escrow panics with "Session ID already exists": a session has one escrow.
OneEscrowPerSession ==
    \A i, j \in DOMAIN esc_list : esc_list[i].session = esc_list[j].session => i = j
====
