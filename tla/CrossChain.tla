---- MODULE CrossChain ----
(* contracts/bridge_receiver and contracts/payment_router, and the two-    *)
(* phase operations of contracts/shared/src/cross_chain_sync.rs that the   *)
(* bridge coordinates. A bridged asset is minted once per VAA; the router  *)
(* asks the bridge whether a VAA was processed and opens an escrow for it. *)
(* The escrow contract is seen from the router: it takes the deposit from  *)
(* the learner and refuses a session id it has seen. init is deployment.   *)
EXTENDS Host, Sequences, FiniteSets, FiniteSetsExt, SequencesExt

CONSTANTS
    Stellar,            \* CHAIN_STELLAR
    BridgeChains,       \* ids of other chains
    Vaas,               \* transaction hashes
    BridgeAmounts,      \* amounts
    Relayers,           \* addresses that may be trusted
    MessageNonces,      \* nonces of bridge messages
    EscrowContracts,    \* addresses of escrow contracts
    RouterFees,         \* basis points
    RouterDelay,        \* the 48 hours the timelock is asked for
    L2Delay,            \* finality_delay_secs + challenge_period_secs
    IsolationPeriod,    \* of emergency_isolate_chain, 24 hours
    XChainTimeout,      \* XCHAIN_OP_TIMEOUT_SECS
    MaxScheduled, MaxBridgeTime, MaxXOps, MaxXTime   \* bounds

\* The numbers are unsigned; the ids of the other chains differ from Stellar's.
ASSUME CrossChainAssumption ==
    /\ BridgeAmounts \subseteq Nat /\ RouterFees \subseteq 0 .. 10000
    /\ RouterDelay \in Nat /\ XChainTimeout \in Nat
    /\ Stellar \notin BridgeChains
    /\ EscrowContracts # {} /\ IsFiniteSet(EscrowContracts)

VARIABLES
    bridge_chains,      \* BridgeConfig.supported_chains
    vaa_list,           \* BridgeConfig.processed_vaas, also OperationIndex and its count
    processed_vaas,     \* ProcessedVAA
    l2,                 \* L2Config: committed at, shutdown; or not stored
    trusted,            \* TrustedRelayer
    used_nonces,        \* ProcessedNonce
    funded,             \* history: messages that funded an escrow
    minted,             \* tokens minted
    isolation           \* ChainIsolationRecord.lift_eligible_at, a partial function

VARIABLES
    router,             \* RouterConfig, FeeBps, whether the token is approved
    router_chains,      \* SupportedChains of the router
    routes,             \* Route and ProcessedTx, a partial function
    route_count,        \* EscrowIdCounter
    mev_interactions,       \* MevInteractionCount of the learner in this ledger
    scheduled,          \* calls waiting in the timelock
    purse,              \* tokens of the learner
    fees_taken,         \* tokens sent to the treasury
    sessions_seen,      \* what each escrow contract has in UsedSessionNonce
    deposits_in         \* tokens of each escrow contract

VARIABLES
    xops                \* AtomicXChainOp by the chains and the ledger it began in

bridge_vars ==
    <<bridge_chains, vaa_list, processed_vaas, l2, trusted, used_nonces, funded, minted>>
router_vars ==
    <<router, router_chains, routes, route_count, mev_interactions, scheduled, purse, fees_taken,
      sessions_seen, deposits_in>>
xchain_vars == <<isolation, xops>>

BridgeInit ==
    /\ now = 0
    /\ bridge_chains = BridgeChains /\ vaa_list = << >> /\ processed_vaas = {}
    /\ l2 = [stored |-> FALSE, committed |-> 0, shutdown |-> FALSE]
    /\ trusted = {} /\ used_nonces = {} /\ funded = << >> /\ minted = 0

RouterInit ==
    /\ LET e == CHOOSE x \in EscrowContracts : TRUE IN
         router = [escrow |-> e, fee |-> 0, approved |-> FALSE]
    /\ router_chains = BridgeChains \cup {Stellar}
    /\ routes = NothingStored /\ route_count = 0 /\ mev_interactions = 0 /\ scheduled = {}
    /\ purse = 0 /\ fees_taken = 0
    /\ sessions_seen = [e \in EscrowContracts |-> {}]
    /\ deposits_in = [e \in EscrowContracts |-> 0]

XChainInit == isolation = NothingStored /\ xops = NothingStored

is_chain_isolated(c) == c \in DOMAIN isolation

-----------------------------------------------------------------------------
(* The bridge. *)

\* ensure_l2_finality: without a configuration nothing is waited for.
l2_final == l2.stored => ~l2.shutdown /\ now - l2.committed >= L2Delay

\* Mutant: a VAA is recorded for the audit only.
vaa_is_new_never_recorded(v) == v \notin DOMAIN routes

vaa_is_new(v) == v \notin processed_vaas

\* Called by anybody: the signatures of the VAA are not part of the contract.
receive_bridged_asset(v, amount, c) ==
    /\ l2_final
    /\ ~is_chain_isolated(c) /\ c \in bridge_chains
    /\ vaa_is_new(v)
    /\ minted' = minted + amount /\ purse' = purse + amount
    /\ processed_vaas' = processed_vaas \cup {v}
    /\ vaa_list' = Append(vaa_list, [vaa |-> v, amount |-> amount, at |-> now])
    /\ UNCHANGED <<now, bridge_chains, l2, trusted, used_nonces, funded, router, router_chains,
                   routes, route_count, mev_interactions, scheduled, fees_taken, sessions_seen,
                   deposits_in, xchain_vars>>

\* Mutant: the nonce is compared within one escrow only.
nonce_is_new_per_escrow(m, e) == ~\E i \in DOMAIN funded : funded[i] = [message |-> m, escrow |-> e]

\* The key is the source chain and the nonce; e is only where the deposit goes.
nonce_is_new(m, e) == <<m.chain, m.nonce>> \notin used_nonces

receive_and_fund_escrow(r, m, e) ==
    /\ r \in trusted
    /\ ~is_chain_isolated(m.chain)
    /\ nonce_is_new(m, e)
    /\ used_nonces' = used_nonces \cup {<<m.chain, m.nonce>>}
    /\ funded' = Append(funded, [message |-> m, escrow |-> e])
    /\ UNCHANGED <<now, bridge_chains, vaa_list, processed_vaas, l2, trusted, minted, router_vars,
                   xchain_vars>>

\* add_supported_chain, remove_supported_chain
set_bridge_chains(c) ==
    /\ \/ c \notin bridge_chains /\ bridge_chains' = bridge_chains \cup {c}
       \/ bridge_chains' = bridge_chains \ {c}
    /\ UNCHANGED <<now, vaa_list, processed_vaas, l2, trusted, used_nonces, funded, minted,
                   router_vars, xchain_vars>>

\* add_trusted_relayer, remove_trusted_relayer
set_relayer(r) ==
    /\ trusted' \in {trusted \cup {r}, trusted \ {r}}
    /\ UNCHANGED <<now, bridge_chains, vaa_list, processed_vaas, l2, used_nonces, funded, minted,
                   router_vars, xchain_vars>>

\* configure_l2, shutdown_l2
set_l2 ==
    /\ \/ l2' = [stored |-> TRUE, committed |-> now, shutdown |-> FALSE]
       \/ \E s \in BOOLEAN : l2' = [l2 EXCEPT !.stored = TRUE, !.shutdown = s]
    /\ UNCHANGED <<now, bridge_chains, vaa_list, processed_vaas, trusted, used_nonces, funded,
                   minted, router_vars, xchain_vars>>

-----------------------------------------------------------------------------
(* Isolation of chains and the two-phase operations. *)

emergency_isolate_chain(c) ==
    /\ isolation' = put(isolation, c, now + IsolationPeriod)
    /\ UNCHANGED <<now, xops, bridge_vars, router_vars>>

lift_bridge_chain_isolation(c) ==
    /\ c \in DOMAIN isolation /\ now >= isolation[c]
    /\ isolation' = del(isolation, c)
    /\ UNCHANGED <<now, xops, bridge_vars, router_vars>>

\* The id is a hash of the chains and the ledger: the same chains begin one operation per ledger.
begin_bridge_atomic_op(r, from, to) ==
    LET id == <<from, to, now>> IN
    /\ r \in trusted
    /\ ~is_chain_isolated(from) /\ ~is_chain_isolated(to)
    /\ id \notin DOMAIN xops /\ Cardinality(DOMAIN xops) < MaxXOps
    /\ xops' = put(xops, id, [prepared |-> 0, committed |-> 0, phase |-> "Prepared",
                              expires_at |-> now + XChainTimeout, ended_at |-> 0])
    /\ UNCHANGED <<now, isolation, bridge_vars, router_vars>>

Terminal == {"Committed", "RolledBack", "Expired"}

\* Mutant: only a committed operation is over.
check_not_terminal_committed(op) == op.phase # "Committed"

check_not_terminal(op) == op.phase \notin Terminal

\* Mutant: an expired operation is still served.
check_not_expired_never(op) == TRUE

check_not_expired(op) == now <= op.expires_at

\* Both chains take part, so two acknowledgements are all; whose they are is not recorded, and
\* the phase is not looked at as long as it is not terminal.
acknowledge_bridge_prepare(r, id) ==
    LET op == xops[id]
        n == op.prepared + 1
    IN  /\ r \in trusted
        /\ check_not_terminal(op) /\ check_not_expired(op)
        /\ n <= 3    \* bound
        /\ xops' = [xops EXCEPT ![id].prepared = n,
                                ![id].phase = IF n >= 2 THEN "Committing" ELSE op.phase]
        /\ UNCHANGED <<now, isolation, bridge_vars, router_vars>>

\* A root that does not match fails: the inconsistency and the rollback written before the
\* panic are undone with it, so only matching reports have an effect.
confirm_bridge_commit(r, id) ==
    LET op == xops[id]
        n == op.committed + 1
        done == n >= 2
    IN  /\ r \in trusted
        /\ check_not_terminal(op) /\ check_not_expired(op)
        /\ xops' = [xops EXCEPT ![id].committed = n,
                                ![id].phase = IF done THEN "Committed" ELSE op.phase,
                                ![id].ended_at = IF done THEN now ELSE op.ended_at]
        /\ UNCHANGED <<now, isolation, bridge_vars, router_vars>>

rollback_bridge_op(id) ==
    /\ check_not_terminal(xops[id])
    /\ xops' = [xops EXCEPT ![id].phase = "RollingBack"]
    /\ UNCHANGED <<now, isolation, bridge_vars, router_vars>>

confirm_bridge_rollback(id) ==
    /\ xops[id].phase = "RollingBack"
    /\ xops' = [xops EXCEPT ![id].phase = "RolledBack", ![id].ended_at = now]
    /\ UNCHANGED <<now, isolation, bridge_vars, router_vars>>

-----------------------------------------------------------------------------
(* The payment router. *)

router_admin ==
    /\ \/ \E f \in RouterFees : router' = [router EXCEPT !.fee = f]              \* set_fee_bps
       \/ \E b \in BOOLEAN : router' = [router EXCEPT !.approved = b]            \* set_approved_token
    /\ UNCHANGED router_chains

router_chain_admin ==
    /\ \E c \in BridgeChains :
         \/ c \notin router_chains /\ router_chains' = router_chains \cup {c}
         \/ router_chains' = router_chains \ {c}
    /\ UNCHANGED router

\* The list of chains never loses Stellar.
set_router(change) ==
    /\ change
    /\ UNCHANGED <<now, routes, route_count, mev_interactions, scheduled, purse, fees_taken,
                   sessions_seen, deposits_in, bridge_vars, xchain_vars>>

\* By the multisig; the timelock keeps the call until its delay has passed.
schedule_escrow_contract(e) ==
    /\ Cardinality(scheduled) < MaxScheduled
    /\ scheduled' = scheduled \cup {[escrow |-> e, due |-> now + RouterDelay]}
    /\ UNCHANGED <<now, router, router_chains, routes, route_count, mev_interactions, purse,
                   fees_taken, sessions_seen, deposits_in, bridge_vars, xchain_vars>>

\* By the timelock.
set_escrow_contract(call) ==
    /\ call.due <= now
    /\ scheduled' = scheduled \ {call}
    /\ router' = [router EXCEPT !.escrow = call.escrow]
    /\ UNCHANGED <<now, router_chains, routes, route_count, mev_interactions, purse, fees_taken,
                   sessions_seen, deposits_in, bridge_vars, xchain_vars>>

\* detect_atomic_arbitrage and enforce_protocol_isolation: fifty points from the third call in
\* a ledger on and forty more from the fifth, against a limit of 75.
isolated_for_mev(count) ==
    (IF count >= 3 THEN 50 ELSE 0) + (IF count >= 5 THEN 40 ELSE 0) >= 75

calculate_fee(amount) == (amount * router.fee) \div 10000

\* generate_session_id does not use its arguments.
generate_session_id(v, c) == "RT_ROUT"

\* Mutant: a Stellar payment, which no bridge has seen, may be routed again.
tx_is_new_if_bridged(v, c) == c # Stellar => v \notin DOMAIN routes

tx_is_new(v, c) == v \notin DOMAIN routes

net_amount(amount) == amount - calculate_fee(amount)

\* The price oracle, when one is set, vouches for the price or the call fails. On Stellar the fee
\* goes to the treasury; for a bridged payment it is deducted and stays with the learner. The
\* escrow contract opens an escrow, with the learner's deposit, for a session it has not seen.
route_bridged(c, v, amount) ==
    LET session == generate_session_id(v, c)
        fee == IF c = Stellar THEN calculate_fee(amount) ELSE 0
        net == net_amount(amount)
        e == router.escrow
    IN  /\ router.approved
        /\ ~isolated_for_mev(mev_interactions + 1)
        /\ c \in router_chains
        /\ c # Stellar => v \in processed_vaas
        /\ tx_is_new(v, c)
        /\ c = Stellar => purse >= amount
        /\ purse >= fee + net /\ net > 0
        /\ session \notin sessions_seen[e]
        /\ sessions_seen' = [sessions_seen EXCEPT ![e] = @ \cup {session}]
        /\ purse' = purse - fee - net
        /\ fees_taken' = fees_taken + fee
        /\ deposits_in' = [deposits_in EXCEPT ![e] = @ + net]
        /\ routes' = put(routes, v, [chain |-> c, amount |-> amount, net |-> net, escrow |-> e])
        /\ route_count' = route_count + 1
        /\ mev_interactions' = mev_interactions + 1
        /\ UNCHANGED <<now, router, router_chains, scheduled, bridge_vars, xchain_vars>>

BridgeTick ==
    /\ CloseLedger(MaxBridgeTime) /\ mev_interactions' = 0
    /\ UNCHANGED <<router, router_chains, routes, route_count, scheduled, purse, fees_taken,
                   sessions_seen, deposits_in, bridge_vars, xchain_vars>>

XChainTick == CloseLedger(MaxXTime) /\ UNCHANGED <<bridge_vars, router_vars, xchain_vars>>

Messages == [chain : BridgeChains, nonce : MessageNonces]

ChainControl ==
    \E c \in BridgeChains : emergency_isolate_chain(c) \/ lift_bridge_chain_isolation(c)

BridgeNext ==
    \/ \E v \in Vaas, a \in BridgeAmounts, c \in BridgeChains : receive_bridged_asset(v, a, c)
    \/ \E v \in Vaas, a \in BridgeAmounts, c \in BridgeChains \cup {Stellar} : route_bridged(c, v, a)
    \/ set_router(router_admin) \/ set_router(router_chain_admin)
    \/ \E e \in EscrowContracts : schedule_escrow_contract(e)
    \/ \E call \in scheduled : set_escrow_contract(call)
    \/ \E c \in BridgeChains : set_bridge_chains(c)
    \/ set_l2
    \/ BridgeTick

XChainNext ==
    \/ \E r \in Relayers :
         \/ \E m \in Messages, e \in EscrowContracts : receive_and_fund_escrow(r, m, e)
         \/ \E c \in BridgeChains : begin_bridge_atomic_op(r, c, Stellar)
         \/ \E id \in DOMAIN xops : acknowledge_bridge_prepare(r, id) \/ confirm_bridge_commit(r, id)
    \/ \E id \in DOMAIN xops : rollback_bridge_op(id) \/ confirm_bridge_rollback(id)
    \/ \E r \in Relayers : set_relayer(r)
    \/ ChainControl
    \/ XChainTick

-----------------------------------------------------------------------------
vaa_total == SumFunctionOnSet([i \in DOMAIN vaa_list |-> vaa_list[i].amount], DOMAIN vaa_list)

\* Tokens come into being by processed VAAs and by nothing else, each VAA mints once, and what
\* was minted is with the learner, the treasury or an escrow, also when the fee, the escrow
\* contract and the lists of chains change between minting and routing.
BridgedTokensAreConserved ==
    /\ minted = vaa_total
    /\ Cardinality(processed_vaas) = Len(vaa_list)
    /\ minted = purse + fees_taken + SumFunctionOnSet(deposits_in, EscrowContracts)

\* Every source transaction opens at most one escrow, every routed payment from another chain
\* was processed by the bridge, and the counter counts the routes.
RoutedOnce ==
    /\ route_count = Cardinality(DOMAIN routes)
    /\ \A v \in DOMAIN routes : routes[v].chain # Stellar => v \in processed_vaas
    /\ \A e \in EscrowContracts :
         deposits_in[e] = SumFunctionOnSet([v \in DOMAIN routes |-> routes[v].net],
                                           {v \in DOMAIN routes : routes[v].escrow = e})

\* A relayed message funds one escrow, whoever relays it and however often.
MessagesFundOnce ==
    \A i, j \in DOMAIN funded :
        /\ funded[i].message.chain = funded[j].message.chain
        /\ funded[i].message.nonce = funded[j].message.nonce
        => i = j

\* An operation commits with as many confirmations as it has chains and not after it expired.
CommitsAreInTime ==
    \A id \in DOMAIN xops :
        xops[id].phase = "Committed" => xops[id].committed >= 2 /\ xops[id].ended_at <= xops[id].expires_at

\* Terminal phases are immutable, as the documentation of the protocol says.
TerminalIsImmutable ==
    [][\A id \in DOMAIN xops : xops[id].phase \in Terminal => xops'[id] = xops[id]]_xchain_vars

\* The lifecycle in the documentation of the protocol leads from RollingBack to RolledBack only.
RollbackIsNotOvertaken ==
    [][\A id \in DOMAIN xops :
         xops[id].phase = "RollingBack" => xops'[id].phase \in {"RollingBack", "RolledBack"}]_xchain_vars
====
