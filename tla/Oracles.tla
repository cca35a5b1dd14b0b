---- MODULE Oracles ----
(* contracts/oracle: prices of one asset from authorised feeders, their    *)
(* time-weighted average and the circuit breaker, and the accountability   *)
(* of feeders (contracts/shared/src/validator_accountability.rs).          *)
(* contracts/session_oracle: who says that a session took place.           *)
EXTENDS Host, Sequences, FiniteSets, FiniteSetsExt, SequencesExt

CONSTANTS
    Feeders,            \* addresses
    FeedPrices,         \* prices they submit
    FeedTimes,          \* timestamps they submit
    BreakerLevels,      \* values of CB_BPS
    MinFeeders,         \* MIN_FEEDERS
    MaxPoints,          \* MAX_POINTS
    TwapWindow,         \* TWAP_WINDOW
    MaxStaleness,       \* MAX_STALENESS_SECS
    ReorgDepth,         \* ORACLE_REORG_SAFE_DEPTH, in ledgers
    FeedIsolation,      \* FEEDER_ISOLATION_DURATION_SECS
    EjectionCooldown,   \* EJECTION_COOLDOWN_SECS
    Violations,         \* the violation types explored
    CalendarProofs,     \* hashes
    CalendarSlots,      \* (mentor, slot)
    MaxSubmissions, MaxSlashes, MaxOracleTime   \* bounds

CONSTANTS
    OracleSessions,     \* session ids
    EndTimes,           \* end_time
    ConfirmGrace,       \* EXPIRY_GRACE_SECS
    OracleDispute,      \* DISPUTE_WINDOW_SECS
    MaxSessionTime      \* bound

VARIABLES
    feeders,            \* FEEDERS, a list without repetitions
    validators,         \* ValidatorRecord by feeder, a partial function
    points,             \* PRICES, oldest first
    twap,               \* TWAP: set or not, value
    breaker,            \* CB_BPS
    oracle_isolated,    \* lift_eligible_at of chain 0, -1 when not isolated
    emergency,          \* EmergencyConsensusState
    calendar, proofs_used,   \* CAL_PRF, CAL_USED
    feed,               \* history: accepted submissions
    slashes             \* history: number of slashes by feeder

VARIABLES
    attested,           \* Session(id), a partial function
    attested_list       \* SessionIndex and SessionCount

oracle_vars ==
    <<feeders, validators, points, twap, breaker, oracle_isolated, emergency, calendar,
      proofs_used, feed, slashes>>

OracleInit ==
    /\ now = 0
    /\ feeders = {} /\ validators = NothingStored
    /\ points = << >> /\ twap = [set |-> FALSE, value |-> 0] /\ breaker = 5000
    /\ oracle_isolated = -1
    /\ emergency = [active |-> FALSE, score |-> 0, network |-> {}, alternatives |-> {}]
    /\ calendar = NothingStored /\ proofs_used = {}
    /\ feed = << >> /\ slashes = [f \in Feeders |-> 0]

-----------------------------------------------------------------------------
(* Accountability of feeders. *)

NewValidator ==
    [reputation |-> 5000, violations |-> 0, slashed |-> 0, ejected |-> FALSE, ejected_at |-> 0,
     readmission |-> 0]

\* register_validator_safe keeps a record that exists.
registered_in(vs, f) == IF f \in DOMAIN vs THEN vs ELSE put(vs, f, NewValidator)

after_participation(r) == [r EXCEPT !.reputation = Min({@ + 50, 10000})]

ViolationTypes ==
    {"MissedEpoch", "Equivocation", "TransactionCensorship", "ConsensusAttack", "StakeConcentration"}

graduated_slash_bps ==
    [MissedEpoch |-> 100, StakeConcentration |-> 200, Equivocation |-> 1000,
     TransactionCensorship |-> 2000, ConsensusAttack |-> 5000]

reputation_penalty ==
    [MissedEpoch |-> 200, StakeConcentration |-> 2000, Equivocation |-> 2000,
     TransactionCensorship |-> 5000, ConsensusAttack |-> 5000]

\* Mutant: every slash starts the ejection anew.
newly_ejected_again(r, ejects) == ejects

newly_ejected(r, ejects) == ejects /\ ~r.ejected

apply_slash(r, v) ==
    LET left == IF r.reputation > reputation_penalty[v] THEN r.reputation - reputation_penalty[v] ELSE 0
        ejects == v \in {"ConsensusAttack", "Equivocation"} \/ left < 2000
        s == [r EXCEPT !.reputation = left, !.violations = @ + 1,
                       !.slashed = Min({@ + graduated_slash_bps[v], 10000})]
    IN  IF newly_ejected(r, ejects)
          THEN [s EXCEPT !.ejected = TRUE, !.ejected_at = now, !.readmission = now + EjectionCooldown]
          ELSE s

\* In basis points of the network, each share rounded down.
compute_network_anomaly_score(vs, network) ==
    LET n == Cardinality(network)
        weight(f) == IF f \notin DOMAIN vs THEN 0
                     ELSE IF vs[f].ejected THEN 10000 \div n
                     ELSE IF vs[f].reputation < 4000 THEN 5000 \div n ELSE 0
    IN  IF n = 0 THEN 0 ELSE Min({MapThenSumSet(weight, network), 10000})

is_healthy(r) == ~r.ejected /\ r.reputation >= 2000

select_healthy_validators(vs, network) == {f \in network : f \in DOMAIN vs /\ is_healthy(vs[f])}

\* By the admin or a holder of the role; also for a feeder that was ejected.
add_feeder(f) ==
    /\ feeders' = feeders \cup {f}
    /\ validators' = registered_in(validators, f)
    /\ UNCHANGED <<now, points, twap, breaker, oracle_isolated, emergency, calendar, proofs_used,
                   feed, slashes>>

remove_feeder(f) ==
    /\ feeders' = feeders \ {f}
    /\ UNCHANGED <<now, validators, points, twap, breaker, oracle_isolated, emergency, calendar,
                   proofs_used, feed, slashes>>

slashed(f) ==
    /\ MapThenSumSet(LAMBDA g : slashes[g], Feeders) < MaxSlashes
    /\ slashes' = [slashes EXCEPT ![f] = @ + 1]

slash_feeder(f, v) ==
    LET r == apply_slash(validators[f], v) IN
    /\ f \in DOMAIN validators /\ slashed(f)
    /\ validators' = [validators EXCEPT ![f] = r]
    /\ feeders' = IF r.ejected THEN feeders \ {f} ELSE feeders
    /\ UNCHANGED <<now, points, twap, breaker, oracle_isolated, emergency, calendar, proofs_used, feed>>

\* The feeder is slashed and stays in the list.
detect_oracle_consensus_attack(f) ==
    LET vs == [validators EXCEPT ![f] = apply_slash(@, "ConsensusAttack")]
        score == compute_network_anomaly_score(vs, feeders)
    IN  /\ f \in DOMAIN validators /\ slashed(f)
        /\ validators' = vs
        /\ emergency' = IF score >= 8000
                          THEN [active |-> TRUE, score |-> score, network |-> feeders,
                                alternatives |-> select_healthy_validators(vs, feeders)]
                          ELSE emergency
        /\ UNCHANGED <<now, feeders, points, twap, breaker, oracle_isolated, calendar, proofs_used, feed>>

-----------------------------------------------------------------------------
(* Prices. *)

deviation_bps(price, base) == ((IF price > base THEN price - base ELSE base - price) * 10000) \div base

elapsed(p, q) == IF q.ts > p.ts THEN q.ts - p.ts ELSE 0

\* Mutant: the seconds at both ends count.
weighted_inclusive(p, q) == p.price * (elapsed(p, q) + 1)

weighted(p, q) == p.price * elapsed(p, q)

\* _update_twap over the last points; without time between them the average stays.
updated_twap(ps) ==
    LET n == Len(ps)
        from == IF n > TwapWindow THEN n - TwapWindow + 1 ELSE 1
        pairs == from .. n - 1
        total == MapThenSumSet(LAMBDA i : elapsed(ps[i], ps[i + 1]), pairs)
        cumulative == MapThenSumSet(LAMBDA i : weighted(ps[i], ps[i + 1]), pairs)
    IN  IF n < 2 \/ total = 0 THEN twap ELSE [set |-> TRUE, value |-> cumulative \div total]

\* Mutant: the newest points are dropped.
kept_oldest(ps) == SubSeq(ps, 1, Min({Len(ps), MaxPoints}))

kept(ps) == SubSeq(ps, Max({1, Len(ps) - MaxPoints + 1}), Len(ps))

\* A price too far from the average fails, and with it the record of the market protection and
\* the feeder's count of trips: neither survives the panic.
within_breaker(price) ==
    (twap.set /\ twap.value > 0) => deviation_bps(price, twap.value) <= breaker

submit_price(f, price, ts) ==
    LET ps == kept(Append(points, [price |-> price, ts |-> ts, feeder |-> f, at |-> now]))
        vs == registered_in(validators, f)
    IN  /\ f \in feeders
        /\ oracle_isolated = -1
        /\ within_breaker(price)
        /\ Len(feed) < MaxSubmissions
        /\ points' = ps /\ twap' = updated_twap(ps)
        /\ validators' = [vs EXCEPT ![f] = after_participation(@)]
        /\ feed' = Append(feed, [price |-> price, ts |-> ts, feeder |-> f, at |-> now])
        /\ UNCHANGED <<now, feeders, breaker, oracle_isolated, emergency, calendar, proofs_used, slashes>>

\* Mutant: a reading is usable as soon as it is submitted.
usable_at_once(p) == (p.ts <= now => now - p.ts <= MaxStaleness)

usable(p) == (p.ts <= now => now - p.ts <= MaxStaleness) /\ now - p.at >= ReorgDepth

\* The upper median of a sequence of prices.
median(prices) == SortSeq(prices, LAMBDA x, y : x < y)[(Len(prices) \div 2) + 1]

\* get_price: what it answers, and 0 when it panics.
get_price ==
    LET good == SelectSeq(points, usable)
        prices == [i \in DOMAIN good |-> good[i].price]
        med == median(prices)
        inliers == SelectSeq(prices, LAMBDA p : p >= med => p - med <= med)
    IN  IF Cardinality({good[i].feeder : i \in DOMAIN good}) < MinFeeders THEN 0 ELSE median(inliers)

set_circuit_breaker_threshold(level) ==
    /\ level >= 100 /\ level <= 9000
    /\ breaker' = level
    /\ UNCHANGED <<now, feeders, validators, points, twap, oracle_isolated, emergency, calendar,
                   proofs_used, feed, slashes>>

isolate_oracle_chain ==
    /\ oracle_isolated' = now + FeedIsolation
    /\ UNCHANGED <<now, feeders, validators, points, twap, breaker, emergency, calendar,
                   proofs_used, feed, slashes>>

lift_oracle_isolation ==
    /\ oracle_isolated # -1 /\ now >= oracle_isolated
    /\ oracle_isolated' = -1
    /\ UNCHANGED <<now, feeders, validators, points, twap, breaker, emergency, calendar,
                   proofs_used, feed, slashes>>

\* Mutant: a proof is used up for one slot.
proof_is_new_for_slot(h, slot) == ~(slot \in DOMAIN calendar /\ calendar[slot] = h)

proof_is_new(h, slot) == h \notin proofs_used

submit_calendar_proof(f, slot, h) ==
    /\ f \in feeders /\ proof_is_new(h, slot)
    /\ proofs_used' = proofs_used \cup {h}
    /\ calendar' = put(calendar, slot, h)
    /\ UNCHANGED <<now, feeders, validators, points, twap, breaker, oracle_isolated, emergency, feed, slashes>>

OracleTick == CloseLedger(MaxOracleTime) /\ UNCHANGED oracle_vars

PriceNext ==
    \/ \E f \in Feeders, p \in FeedPrices, t \in FeedTimes : submit_price(f, p, t)
    \/ \E f \in Feeders : add_feeder(f)
    \/ \E l \in BreakerLevels : set_circuit_breaker_threshold(l)
    \/ OracleTick

ValidatorNext ==
    \/ \E f \in Feeders :
         \/ add_feeder(f) \/ remove_feeder(f) \/ detect_oracle_consensus_attack(f)
         \/ \E v \in Violations : slash_feeder(f, v)
         \/ feed = << >> /\ submit_price(f, CHOOSE p \in FeedPrices : TRUE, 0)
    \/ OracleTick

CalendarNext ==
    \/ \E f \in Feeders :
         \/ add_feeder(f) \/ remove_feeder(f)
         \/ submit_price(f, CHOOSE p \in FeedPrices : TRUE, 0)
         \/ \E slot \in CalendarSlots, h \in CalendarProofs : submit_calendar_proof(f, slot, h)
    \/ isolate_oracle_chain \/ lift_oracle_isolation
    \/ OracleTick

-----------------------------------------------------------------------------
(* The session oracle. *)

attested_vars == <<attested, attested_list>>

AttestedInit == attested = NothingStored /\ attested_list = << >>

register_session(id, end) ==
    /\ id \notin DOMAIN attested
    /\ attested' = put(attested, id, [end |-> end, confirmed |-> {}, state |-> "Pending",
                                      completed_at |-> 0])
    /\ attested_list' = Append(attested_list, id)
    /\ UNCHANGED now

confirmation_deadline(r) == r.end + ConfirmGrace

\* Confirming again, also after completion, writes the time of completion again.
confirm_completion(id, who) ==
    LET r == attested[id]
        both == r.confirmed \cup {who} = {"mentor", "learner"}
    IN  /\ r.state # "Disputed"
        /\ attested' = [attested EXCEPT ![id].confirmed = @ \cup {who},
                                        ![id].state = IF both THEN "Completed" ELSE @,
                                        ![id].completed_at = IF both THEN now ELSE @]
        /\ UNCHANGED <<now, attested_list>>

\* In any state, by either participant.
raise_dispute(id) ==
    /\ attested' = [attested EXCEPT ![id].state = "Disputed"]
    /\ UNCHANGED <<now, attested_list>>

\* Mutant: the deadline itself is late enough.
is_overdue_early(r) == now >= confirmation_deadline(r)

is_overdue(r) == now > confirmation_deadline(r)

\* One confirmation is enough once the deadline has passed, whatever the state is; without any
\* the session becomes disputed when the dispute window is over, and until then the call fails.
trigger_timeout_release(id) ==
    LET r == attested[id] IN
    /\ is_overdue(r)
    /\ \/ /\ r.confirmed # {}
          /\ attested' = [attested EXCEPT ![id].state = "Completed", ![id].completed_at = now]
       \/ /\ r.confirmed = {} /\ now > confirmation_deadline(r) + OracleDispute
          /\ attested' = [attested EXCEPT ![id].state = "Disputed"]
    /\ UNCHANGED <<now, attested_list>>

AttestedTick == CloseLedger(MaxSessionTime) /\ UNCHANGED attested_vars

AttestedNext ==
    \/ \E id \in OracleSessions, e \in EndTimes : register_session(id, e)
    \/ \E id \in DOMAIN attested :
         \/ \E who \in {"mentor", "learner"} : confirm_completion(id, who)
         \/ raise_dispute(id) \/ trigger_timeout_release(id)
    \/ AttestedTick

-----------------------------------------------------------------------------
\* The average, with feeders choosing the timestamps and the ring of points losing old ones, lies
\* between the lowest and the highest price accepted, so the breaker, which compares with it,
\* never locks out all of them.
TwapIsAnAverage ==
    twap.set => \E i, j \in DOMAIN feed : feed[i].price <= twap.value /\ twap.value <= feed[j].price

\* What get_price answers was submitted by a feeder in a ledger that can no longer be reverted,
\* and comes with readings of enough feeders.
QuotesAreSettled ==
    get_price # 0 =>
        /\ \E i \in DOMAIN feed : feed[i].price = get_price /\ feed[i].at + ReorgDepth <= now
        /\ Cardinality({feed[i].feeder : i \in {j \in DOMAIN feed : feed[j].at + ReorgDepth <= now}})
             >= MinFeeders

\* The ring holds the latest accepted submissions, in order.
RingIsLatest == points = SubSeq(feed, Max({1, Len(feed) - MaxPoints + 1}), Len(feed))

\* A record has as many violations as slashes were applied, and an ejection is dated by the slash
\* that caused it: no later one, and no participation, moves the date of readmission.
EjectionStands ==
    [][\A f \in DOMAIN validators :
         validators[f].ejected =>
            /\ validators'[f].ejected
            /\ validators'[f].ejected_at = validators[f].ejected_at
            /\ validators'[f].readmission = validators[f].readmission]_oracle_vars

\* A session is completed by both participants, or by one of them who waited for the other until
\* the deadline; a session nobody confirmed never counts as completed.
CompletionIsEarned ==
    \A id \in DOMAIN attested :
        LET r == attested[id] IN
        /\ r.state = "Completed" =>
             /\ r.confirmed # {}
             /\ r.confirmed # {"mentor", "learner"} => r.completed_at > confirmation_deadline(r)
        /\ \E i \in DOMAIN attested_list : attested_list[i] = id

\* A calendar proof speaks for one slot.
ProofsAreUsedOnce ==
    \A s, t \in DOMAIN calendar : calendar[s] = calendar[t] => s = t
====
