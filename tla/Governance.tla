---- MODULE Governance ----
(* contracts/governance: proposals, votes weighted by the time they are    *)
(* cast, execution, calls that wait in the timelock, cancellation by the   *)
(* admin with cooldown and escalation. The two-step handover of the admin  *)
(* is like that of the escrow contract and is left out. Voting power       *)
(* comes from the snapshot and delegation contracts and is fixed here; the *)
(* timelock and the multisig contract are the surroundings.                *)
EXTENDS Host, Sequences, FiniteSets, Functions

CONSTANTS
    Kinds,               \* the proposals explored besides UpdateAdmin
    GovAdmins,           \* addresses that may be admin
    NoGovAdmin,          \* no address
    Proposers, Voters,   \* addresses
    Power,               \* voting power at every snapshot, [Voters -> Nat]
    Supply,              \* total_supply_snapshot
    Quorums,             \* [kind |-> quorum in basis points], see quorum_bps
    MaxActiveProposals,  \* MAX_ACT_P
    ProposalDeposit,     \* PROP_DEP
    VotingPeriod,        \* VOTING_PERIOD_SECS
    CallTimelock,        \* EXECUTE_CALL_TIMELOCK_SECS
    TimelockDelay,       \* the delay of the operation scheduled in the timelock
    CancelCooldown,      \* CANCEL_COOLDOWN_SECS
    EscalationWindow,    \* CANCEL_ESCALATION_WINDOW_SECS
    EscalationThreshold, \* CANCEL_ESCALATION_THRESHOLD
    MaxProposals, MaxVotes, MaxCreation, MaxMandates, MaxGovTime  \* bounds

ASSUME GovernanceAssumption ==
    /\ IsFiniteSet(Voters) /\ Power \in [Voters -> Nat] /\ VotingPeriod \in Nat \ {0}
    /\ {Supply, CallTimelock, TimelockDelay, CancelCooldown, EscalationWindow,
        EscalationThreshold} \subseteq Nat
    /\ {Quorums.plain, Quorums.custom, Quorums.rollback} \subseteq Nat
    /\ "UpdateAdmin" \notin Kinds

VARIABLES
    gov_admin,      \* ADMIN in instance storage
    proposals,      \* DataKey::Proposal(i), with the votes cast on it
    active_total,   \* DataKey::ActiveProposalCount
    active_by,      \* DataKey::PerAddressActiveProposalCount
    deposits,       \* ids with a DataKey::ProposalDeposit
    forfeited,      \* TRES_BAL
    cooldowns,      \* DataKey::CancelCooldown(admin, action), a partial function
    cancel_times,   \* DataKey::CancelTimestamps(admin)
    cancels,        \* history: cancellations, in order
    mandates,       \* approved actions waiting in the multisig contract
    mandates_used,  \* history: those executed by cancel_proposal
    applied,        \* history: ids whose action took effect, in order
    by_status       \* the lists under DataKey::ProposalsByStatus

cancel_vars == <<cooldowns, cancel_times, cancels, mandates, mandates_used>>
proposal_vars == <<proposals, active_total, active_by, deposits, forfeited, applied, by_status>>
gov_vars == <<gov_admin, cancel_vars, proposal_vars>>

\* ProposalAction; the rollback review is linked with the escrow contract by its id.
GovActions ==
    {[kind |-> k, to |-> NoGovAdmin] : k \in Kinds}
        \cup {[kind |-> "UpdateAdmin", to |-> a] : a \in GovAdmins}

GovernanceInit ==
    /\ now = 0
    /\ gov_admin \in GovAdmins
    /\ proposals = << >> /\ active_total = 0 /\ active_by = [p \in Proposers |-> 0]
    /\ deposits = {} /\ forfeited = 0
    /\ cooldowns = NothingStored /\ cancel_times = [a \in GovAdmins |-> << >>] /\ cancels = << >>
    /\ mandates = 0 /\ mandates_used = 0
    /\ applied = << >>
    /\ by_status = [s \in {"Passed", "Queued", "Failed", "Executed"} |-> << >>]

-----------------------------------------------------------------------------
\* A call without template is a custom proposal with a higher quorum.
create_proposal(p, action, custom) ==
    /\ Len(proposals) < MaxProposals /\ now <= MaxCreation
    /\ custom => action.kind = "ExecuteCall"
    /\ active_total < MaxActiveProposals /\ active_by[p] < MaxActiveProposals
    /\ proposals' = Append(proposals,
         [proposer |-> p, action |-> action, status |-> "Active", created_at |-> now,
          voting_ends_at |-> now + VotingPeriod,
          custom |-> custom \/ action.kind = "ApproveEmergencyRollback",
          votes |-> NothingStored, votes_for |-> 0, votes_against |-> 0, ready_at |-> 0])
    /\ active_total' = active_total + 1
    /\ active_by' = [active_by EXCEPT ![p] = @ + 1]
    /\ deposits' = IF ProposalDeposit > 0 THEN deposits \cup {Len(proposals) + 1} ELSE deposits
    /\ UNCHANGED <<now, gov_admin, cancel_vars, forfeited, applied, by_status>>

\* get_voting_window: 80, 100 and 110 percent in the three parts of the voting period.
weight_bps(p) ==
    LET pct == ((now - p.created_at) * 10000) \div (p.voting_ends_at - p.created_at) IN
    IF pct <= 3300 THEN 8000 ELSE IF pct <= 6600 THEN 10000 ELSE 11000

\* Mutant: a vote may still be cast at the end of the voting period.
open_for_votes_longer(p) == p.status = "Active" /\ now <= p.voting_ends_at

open_for_votes(p) == p.status = "Active" /\ now < p.voting_ends_at

vote(v, id, support) ==
    LET p == proposals[id]
        weighted == (Power[v] * weight_bps(p)) \div 10000
        counted == [p EXCEPT
            !.votes = put(p.votes, v, [support |-> support, at |-> now]),
            !.votes_for = IF support THEN p.votes_for + weighted ELSE p.votes_for,
            !.votes_against = IF support THEN p.votes_against ELSE p.votes_against + weighted]
    IN  /\ SumFunctionOnSet([i \in DOMAIN proposals |-> Cardinality(DOMAIN proposals[i].votes)],
                            DOMAIN proposals) < MaxVotes
        /\ open_for_votes(p)
        /\ v \notin DOMAIN p.votes
        /\ Power[v] > 0
        /\ proposals' = [proposals EXCEPT ![id] = counted]
        /\ UNCHANGED <<now, gov_admin, cancel_vars, active_total, active_by, deposits, forfeited,
                       applied, by_status>>

-----------------------------------------------------------------------------
quorum_bps(p) ==
    IF p.action.kind = "ApproveEmergencyRollback" THEN Quorums.rollback
    ELSE IF p.custom THEN Quorums.custom ELSE Quorums.plain

quorum_met(p) == (p.votes_for + p.votes_against) * 10000 >= Supply * quorum_bps(p)

\* transition_proposal_status appends to the list of the new status only.
entered(lists, id, statuses) ==
    [s \in DOMAIN lists |-> IF s \in statuses THEN Append(lists[s], id) ELSE lists[s]]

\* Mutant: the count of the proposer is forgotten.
no_longer_active_in_total(p) ==
    /\ active_total' = (IF active_total > 0 THEN active_total - 1 ELSE 0)
    /\ active_by' = active_by

\* decrement_active_proposal_count
no_longer_active(p) ==
    /\ active_total' = (IF active_total > 0 THEN active_total - 1 ELSE 0)
    /\ active_by' = [active_by EXCEPT ![p] = IF @ > 0 THEN @ - 1 ELSE 0]

\* apply_action: UpdateAdmin replaces the admin at once; the other actions concern other contracts or values nothing here reads.
apply_action(id) ==
    /\ applied' = Append(applied, id)
    /\ gov_admin' = IF proposals[id].action.kind = "UpdateAdmin" THEN proposals[id].action.to ELSE gov_admin

\* What execute_proposal checks before it counts the votes.
votable_no_more(p) == p.status = "Active" /\ now >= p.voting_ends_at

execute_failing(id) ==
    LET p == proposals[id] IN
    /\ votable_no_more(p)
    /\ ~(quorum_met(p) /\ p.votes_for > p.votes_against)
    /\ proposals' = [proposals EXCEPT ![id].status = "Failed"]
    /\ by_status' = entered(by_status, id, {"Failed"})
    /\ no_longer_active(p.proposer)
    /\ deposits' = deposits \ {id}
    /\ UNCHANGED <<now, gov_admin, cancel_vars, forfeited, applied>>

\* Mutant: a call needs no second waiting time.
call_may_be_queued_early(p) == TRUE

call_may_be_queued(p) == now >= p.voting_ends_at + CallTimelock

\* A call goes to the timelock, any other action takes effect at once.
execute_passing(id) ==
    LET p == proposals[id] IN
    /\ votable_no_more(p)
    /\ quorum_met(p) /\ p.votes_for > p.votes_against
    /\ IF p.action.kind = "ExecuteCall"
         THEN /\ call_may_be_queued(p)
              /\ proposals' = [proposals EXCEPT
                   ![id] = [p EXCEPT !.status = "Queued", !.ready_at = now + TimelockDelay]]
              /\ by_status' = entered(by_status, id, {"Passed", "Queued"})
              /\ UNCHANGED <<gov_admin, applied, active_total, active_by, deposits>>
         ELSE /\ apply_action(id)
              /\ proposals' = [proposals EXCEPT ![id].status = "Executed"]
              /\ by_status' = entered(by_status, id, {"Passed", "Executed"})
              /\ no_longer_active(p.proposer)
              /\ deposits' = deposits \ {id}
    /\ UNCHANGED <<now, cancel_vars, forfeited>>

\* Called by the timelock once the operation is due.
execute_queued_proposal(id) ==
    LET p == proposals[id] IN
    /\ p.status = "Queued" /\ now >= p.ready_at
    /\ apply_action(id)
    /\ proposals' = [proposals EXCEPT ![id].status = "Executed"]
    /\ by_status' = entered(by_status, id, {"Executed"})
    /\ no_longer_active(p.proposer)
    /\ deposits' = deposits \ {id}
    /\ UNCHANGED <<now, cancel_vars, forfeited>>

-----------------------------------------------------------------------------
\* The times inside the window, in their order.
recent(times) ==
    LET kept[i \in Nat] ==
          IF i = 0 THEN << >>
          ELSE IF times[i] + EscalationWindow > now THEN Append(kept[i - 1], times[i])
          ELSE kept[i - 1]
    IN  kept[Len(times)]

cooled_down(action) ==
    LET k == <<gov_admin, action>> IN k \in DOMAIN cooldowns => now >= cooldowns[k] + CancelCooldown

\* Mutant: one cancellation too many before the escalation.
escalates_late(a) == Len(recent(cancel_times[a])) > EscalationThreshold

escalates(a) == Len(recent(cancel_times[a])) >= EscalationThreshold

\* Active and queued proposals; the deposit is forfeited. After too many recent ones an action
\* of the multisig contract is executed with it.
cancel_proposal(id) ==
    LET p == proposals[id]
        k == <<gov_admin, p.action>>
    IN  /\ p.status \in {"Active", "Queued"}
        /\ cooled_down(p.action)
        /\ IF escalates(gov_admin)
             THEN mandates > 0 /\ mandates' = mandates - 1 /\ mandates_used' = mandates_used + 1
             ELSE UNCHANGED <<mandates, mandates_used>>
        /\ proposals' = [proposals EXCEPT ![id].status = "Cancelled"]
        /\ forfeited' = forfeited + (IF id \in deposits THEN ProposalDeposit ELSE 0)
        /\ deposits' = deposits \ {id}
        /\ no_longer_active(p.proposer)
        /\ cooldowns' = put(cooldowns, k, now)
        /\ cancel_times' = [cancel_times EXCEPT ![gov_admin] = Append(recent(@), now)]
        /\ cancels' = Append(cancels,
             [by |-> gov_admin, action |-> p.action, at |-> now, mandated |-> escalates(gov_admin)])
        /\ UNCHANGED <<now, gov_admin, applied, by_status>>

\* The signers of the multisig contract approve one more action.
mandate ==
    /\ mandates + mandates_used < MaxMandates
    /\ mandates' = mandates + 1
    /\ UNCHANGED <<now, gov_admin, cooldowns, cancel_times, cancels, mandates_used, proposal_vars>>

-----------------------------------------------------------------------------
GovernanceTick == CloseLedger(MaxGovTime) /\ UNCHANGED gov_vars

GovernanceNext ==
    \/ \E p \in Proposers, a \in GovActions, c \in BOOLEAN : create_proposal(p, a, c)
    \/ \E id \in DOMAIN proposals :
         \/ \E v \in Voters, s \in BOOLEAN : vote(v, id, s)
         \/ execute_failing(id)
         \/ execute_passing(id)
         \/ execute_queued_proposal(id)
         \/ cancel_proposal(id)
    \/ mandate
    \/ GovernanceTick

-----------------------------------------------------------------------------
Live(id) == proposals[id].status \in {"Active", "Queued"}

\* The counters that limit how many proposals are open, in total and per proposer, count the
\* open ones exactly on every path a proposal may end, and a deposit is held for those only.
ActiveCountsAreExact ==
    /\ active_total = Cardinality({id \in DOMAIN proposals : Live(id)})
    /\ \A p \in Proposers :
         active_by[p] = Cardinality({id \in DOMAIN proposals : Live(id) /\ proposals[id].proposer = p})
    /\ ProposalDeposit > 0 => deposits = {id \in DOMAIN proposals : Live(id)}

\* The power of a vote by the part of the voting period it was cast in: up to 33 percent of it,
\* up to 66, or later, in whole hundredths of a percent.
power_cast(p, v) ==
    LET elapsed == (p.votes[v].at - p.created_at) * 10000 IN
    (Power[v] * (IF elapsed < 3301 * VotingPeriod THEN 8000
                 ELSE IF elapsed < 6601 * VotingPeriod THEN 10000 ELSE 11000)) \div 10000

\* The power cast for and against a proposal before its voting period ended.
power_given(p, support) ==
    SumFunctionOnSet([v \in Voters |-> power_cast(p, v)],
                     {v \in DOMAIN p.votes : p.votes[v].support = support /\ p.votes[v].at < p.voting_ends_at})

\* More power for p than against it, and together the quorum of its kind.
Won(p, ayes, noes) == ayes > noes /\ (ayes + noes) * 10000 >= Supply * quorum_bps(p)

\* What takes effect was carried by the votes cast inside the voting period, each voter once
\* with the weight of the part of the period it was cast in, and by the quorum of its kind; and
\* it takes effect once, unless cancelled.
CarriedByVotes ==
    \A i \in DOMAIN applied :
        LET p == proposals[applied[i]] IN
        /\ p.status = "Executed"
        /\ \A j \in DOMAIN applied : i # j => applied[j] # applied[i]
        /\ Won(p, power_given(p, TRUE), power_given(p, FALSE))

\* A call is queued only after the second waiting time, and applied only after the timelock.
CallsWait ==
    \A id \in DOMAIN proposals :
        LET p == proposals[id] IN
        p.action.kind = "ExecuteCall" /\ p.status \in {"Queued", "Executed"} =>
            /\ p.ready_at >= p.voting_ends_at + CallTimelock + TimelockDelay
            /\ p.status = "Executed" => now >= p.ready_at

\* One admin cancels at most the threshold of proposals within any window of the escalation
\* without an approved action of the multisig contract, and actions of one type only after
\* the cooldown.
CancelsEscalate ==
    \A j \in DOMAIN cancels :
        LET c == cancels[j]
            own == {i \in 1 .. j - 1 : cancels[i].by = c.by}
        IN  /\ ~c.mandated =>
                 Cardinality({i \in own : cancels[i].at + EscalationWindow > c.at}) < EscalationThreshold
            /\ \A i \in own : cancels[i].action = c.action => c.at >= cancels[i].at + CancelCooldown

\* The comment on cancel_proposal says that an admin cannot cancel two proposals of the same
\* ProposalAction variant within the cooldown.
CooldownPerVariant ==
    \A i, j \in DOMAIN cancels :
        i < j /\ cancels[i].by = cancels[j].by /\ cancels[i].action.kind = cancels[j].action.kind =>
            cancels[j].at >= cancels[i].at + CancelCooldown

\* The comment on get_proposals_by_status says that it returns the proposals in that status.
StatusListsAreCurrent ==
    \A s \in DOMAIN by_status, i \in 1 .. MaxProposals :
        i \in DOMAIN by_status[s] => proposals[by_status[s][i]].status = s

-----------------------------------------------------------------------------
(* contracts/governance: the list of arbitrators, the selection of one for *)
(* a dispute, and the appeals they resolve.                                *)
CONSTANTS
    ArbitratorSet,     \* addresses
    AppealIds,         \* proposal ids of appeals
    MaxCases           \* bound on cases_handled

VARIABLES
    arb_records,  \* DataKey::Arbitrator(a): cases_handled, a partial function
    arb_list,     \* ArbitratorAt(0 .. ArbitratorCount - 1), counted from 1 here
    arb_index,    \* ArbitratorIndex(a), a partial function
    appeals,      \* DataKey::Appeal(id): resolved or not, a partial function
    resolutions   \* history: resolve_appeal calls, id |-> arbitrators in order

arbitrator_vars == <<arb_records, arb_list, arb_index, appeals, resolutions>>

ArbitratorsInit ==
    /\ now = 0
    /\ arb_records = NothingStored /\ arb_list = << >> /\ arb_index = NothingStored
    /\ appeals = NothingStored /\ resolutions = [id \in AppealIds |-> << >>]

\* Mutant: every registration appends.
is_new_always(a) == TRUE

is_new(a) == a \notin DOMAIN arb_records

\* By the admin. Registering again resets the number of cases and keeps the place.
register_arbitrator(a) ==
    /\ arb_records' = put(arb_records, a, 0)
    /\ IF is_new(a)
         THEN arb_list' = Append(arb_list, a) /\ arb_index' = put(arb_index, a, Len(arb_list) + 1)
         ELSE UNCHANGED <<arb_list, arb_index>>
    /\ UNCHANGED <<now, appeals, resolutions>>

\* By the admin: the last arbitrator moves into the hole.
unregister_arbitrator(a) ==
    LET i == arb_index[a]
        last == Len(arb_list)
        moved == IF i # last THEN [arb_index EXCEPT ![arb_list[last]] = i] ELSE arb_index
    IN  /\ a \in DOMAIN arb_records
        /\ arb_list' = SubSeq([arb_list EXCEPT ![i] = arb_list[last]], 1, last - 1)
        /\ arb_index' = del(moved, a)
        /\ arb_records' = del(arb_records, a)
        /\ UNCHANGED <<now, appeals, resolutions>>

\* Anybody, for any id; an appeal submitted again replaces the one before, resolved or not.
submit_appeal(id) ==
    /\ appeals' = put(appeals, id, FALSE)
    /\ UNCHANGED <<now, arb_records, arb_list, arb_index, resolutions>>

\* Whoever is registered now; a resolved appeal may be resolved again.
resolve_appeal(a, id) ==
    /\ a \in DOMAIN arb_records /\ arb_records[a] < MaxCases /\ Len(resolutions[id]) < MaxCases
    /\ id \in DOMAIN appeals
    /\ appeals' = [appeals EXCEPT ![id] = TRUE]
    /\ arb_records' = [arb_records EXCEPT ![a] = @ + 1]
    /\ resolutions' = [resolutions EXCEPT ![id] = Append(@, a)]
    /\ UNCHANGED <<now, arb_list, arb_index>>

\* The arbitrator at the dispute's number modulo the number of arbitrators; all stored ones
\* are active, so the search for an active one ends where it starts.
select_arbitrator(dispute) == arb_list[(dispute % Len(arb_list)) + 1]

ArbitratorsNext ==
    \/ \E a \in ArbitratorSet :
         \/ register_arbitrator(a)
         \/ unregister_arbitrator(a)
         \/ \E id \in AppealIds : resolve_appeal(a, id)
    \/ \E id \in AppealIds : submit_appeal(id)

-----------------------------------------------------------------------------
\* As long as there is an arbitrator every dispute finds one who is registered, and every
\* registered one is found by some dispute, whatever the order in which they came and left.
EveryDisputeFindsOne ==
    /\ Len(arb_list) = Cardinality(DOMAIN arb_records)
    /\ arb_list # << >> =>
         {select_arbitrator(d) : d \in 0 .. Len(arb_list) - 1} = DOMAIN arb_records
    /\ \A a \in DOMAIN arb_index : arb_index[a] \in DOMAIN arb_list /\ arb_list[arb_index[a]] = a
====
