--------------------------- MODULE MilestoneEscrow ---------------------------
(***************************************************************************)
(* The milestone escrows of escrow/src/lib.rs, beside the standard ones of *)
(* the same contract: a learner deposits the sum of several milestones and *)
(* releases them one by one. Both kinds number their escrows from 1, share *)
(* the contract's token balance, and log their transitions under           *)
(* DataKey::TransitionLog(id).                                             *)
(***************************************************************************)
EXTENDS Escrow, TLC

CONSTANTS
    Plans,         \* the sequences of milestone amounts a learner may agree to
    MaxMilestoneEscrows    \* bound: milestone escrows created in a behaviour

ASSUME PlansAssumption == Plans \subseteq Seq(Nat \ {0})
ASSUME MilestoneBoundAssumption == MaxMilestoneEscrows \in 0 .. MaxEscrows

VARIABLES
    mescrows,      \* the ("MESCROW", id) records, 1 .. MILESTONE_ESCROW_COUNT
    mpaid          \* history: what each milestone escrow has paid out

mvars == <<mescrows, mpaid>>

MilestoneInit ==
    /\ Init
    /\ mescrows = << >>
    /\ mpaid = << >>

MilestoneIds == 1 .. Len(mescrows)

\* The sum of the amounts of the milestones in S.
amount_of(plan, S) == SumFunctionOnSet(plan, S)

\* Everything of the standard escrows but the token ledger and the transition logs.
standard == <<now, escrow_count, escrows, used_nonces, session_keys, failures, watchlist,
              isolated, low_fee, token_approved, fee_bps, fee_schedule, failing, paid>>

\* An empty plan is refused; the amounts are positive by the per-milestone validation.
create_milestone_escrow(mentor, learner, plan) ==
    LET id    == Len(mescrows) + 1
        total == amount_of(plan, DOMAIN plan)
    IN  /\ id <= MaxMilestoneEscrows
        /\ plan # << >>
        /\ token_approved
        /\ answers("token")
        /\ balance[learner] >= total
        /\ balance' = credit(credit(balance, learner, -total), Contract, total)
        /\ transition_status(id, "Pending", "Active", learner)
        /\ mescrows' = Append(mescrows,
                [mentor |-> mentor, learner |-> learner, total_amount |-> total,
                 milestones |-> plan, milestone_statuses |-> [i \in DOMAIN plan |-> "Pending"],
                 status |-> "Active", platform_fee |-> 0, net_amount |-> 0])
        /\ mpaid' = Append(mpaid, 0)
        /\ UNCHANGED standard

\* Mutant: a milestone that was already paid is accepted.
milestone_open_if_active(m, i) == m.status = "Active" /\ i \in DOMAIN m.milestones

\* Mutant: the escrow's own status is not looked at.
milestone_open_if_pending(m, i) ==
    i \in DOMAIN m.milestones /\ m.milestone_statuses[i] = "Pending"

milestone_open(m, i) ==
    /\ m.status = "Active"
    /\ i \in DOMAIN m.milestones
    /\ m.milestone_statuses[i] = "Pending"

\* Mutant: the escrow is closed with its last milestone instead of its last open one.
completed_by_index(m, i) == i = Len(m.milestones)

\* Whether milestone i is the last one that was not completed.
completes(m, i) == \A j \in DOMAIN m.milestones \ {i} : m.milestone_statuses[j] = "Completed"

\* The record after milestone i was paid, `fee' of it to the treasury.
completed_record(m, i, fee) ==
    [m EXCEPT !.milestone_statuses[i] = "Completed",
              !.platform_fee = m.platform_fee + fee,
              !.net_amount = m.net_amount + (m.milestones[i] - fee),
              !.status = IF completes(m, i) THEN "Released" ELSE m.status]

\* The learner accepts a milestone and its amount is paid, less the fee of that moment.
complete_milestone(id, i) ==
    LET m == mescrows[id]
        a == m.milestones[i]
    IN  /\ milestone_open(m, i)
        /\ answers("token")
        /\ balance[Contract] >= a
        /\ \E bps \in release_rates(a) :
             LET fee == fee_of(a, bps) IN
             /\ balance' = credit(credit(credit(balance, Contract, -a), Treasury, fee),
                                  m.mentor, a - fee)
             /\ mescrows' = [mescrows EXCEPT ![id] = completed_record(m, i, fee)]
        /\ mpaid' = [mpaid EXCEPT ![id] = @ + a]
        /\ IF completes(m, i)
             THEN transition_status(id, m.status, "Released", m.learner)
             ELSE UNCHANGED log
        /\ UNCHANGED standard

\* `auths' are the addresses that signed the call: both parties have to.
dispute_milestone(auths, id, i) ==
    LET m == mescrows[id] IN
    /\ milestone_open(m, i)
    /\ {m.mentor, m.learner} \subseteq auths
    /\ mescrows' = [mescrows EXCEPT ![id] =
            [@ EXCEPT !.milestone_statuses[i] = "Disputed", !.status = "Disputed"]]
    /\ transition_status(id, m.status, "Disputed", m.learner)
    /\ UNCHANGED <<standard, balance, mpaid>>

Milestones ==
    \/ \E m \in Users, l \in Users, p \in Plans : create_milestone_escrow(m, l, p)
    \/ \E id \in MilestoneIds : \E i \in DOMAIN mescrows[id].milestones :
         \/ complete_milestone(id, i)
         \/ \E S \in SUBSET Users : dispute_milestone(S, id, i)

MilestoneNext == Milestones \/ (Next /\ UNCHANGED mvars)

MilestoneSpec == MilestoneInit /\ [][MilestoneNext]_<<vars, mvars>>

\* The small instance: milestones of different amounts, one of which the fee does not divide
\* evenly, and the empty plan, which the contract refuses.
SmallPlans == {<< >>, <<30, 15, 25>>}
UserSymmetry == Permutations(Users)

-----------------------------------------------------------------------------
\* The milestones of an escrow with the given status.
InStatus(m, s) == {i \in DOMAIN m.milestones : m.milestone_statuses[i] = s}

\* What the contract still owes on a milestone escrow, counted from its milestones.
MilestoneHeld(id) ==
    LET m == mescrows[id] IN amount_of(m.milestones, DOMAIN m.milestones \ InStatus(m, "Completed"))

\* Every milestone is paid at most once and in full, in whatever order the learner accepts
\* them and however the fee changes in between: the escrow's fee and net totals, what left
\* the contract for it and what its open milestones still hold add up to the deposit.
MilestoneConservation ==
    \A id \in MilestoneIds :
        LET m == mescrows[id] IN
        /\ m.platform_fee + m.net_amount = mpaid[id]
        /\ mpaid[id] + MilestoneHeld(id) = m.total_amount

\* The status of the escrow follows from its milestones: it is released exactly when all of
\* them are completed, and one disputed milestone freezes the escrow with the others as
\* they are.
MilestoneStatusAgrees ==
    \A id \in MilestoneIds :
        LET m == mescrows[id] IN
        /\ m.status = "Released" <=> InStatus(m, "Completed") = DOMAIN m.milestones
        /\ m.status = "Disputed" <=> InStatus(m, "Disputed") # {}
        /\ Cardinality(InStatus(m, "Disputed")) <= 1

\* Solvency of the whole contract: its token balance is what the live standard escrows and
\* the open milestones hold together, so that neither kind is paid with the other's deposit.
PoolSolvency ==
    balance[Contract] =
        SumFunctionOnSet([id \in EscrowIds |-> Held(id)], EscrowIds)
          + SumFunctionOnSet([id \in MilestoneIds |-> MilestoneHeld(id)], MilestoneIds)

\* The books of milestone escrows: each adds up, its status follows from its milestones, and
\* together with the standard escrows they hold exactly the contract's balance.
MilestoneBooks == MilestoneConservation /\ MilestoneStatusAgrees /\ PoolSolvency

\* A milestone escrow seen as a deposit: open until its last milestone is paid.
MilestoneStage(id) ==
    IF id \notin MilestoneIds THEN "unused"
    ELSE IF mescrows[id].status = "Released" THEN "closed" ELSE "open"

MilestoneDeposit == INSTANCE Deposits WITH
    Ids   <- 1 .. MaxMilestoneEscrows,
    stage <- [id \in 1 .. MaxMilestoneEscrows |-> MilestoneStage(id)],
    left  <- [id \in 1 .. MaxMilestoneEscrows |->
                IF id \in MilestoneIds THEN MilestoneHeld(id) ELSE 0],
    given <- [id \in 1 .. MaxMilestoneEscrows |->
                IF id \in MilestoneIds THEN mpaid[id] ELSE 0]

\* A milestone escrow keeps the promise of Deposits too: accepting milestones in any order
\* pays out parts of the deposit, the last one closes it, and nothing else moves its tokens.
MilestonesImplementDeposits == MilestoneDeposit!DepositsSpec

\* A contested deposit is not paid out: once one milestone of an escrow is disputed, or all are
\* paid, no call pays from it, and a milestone that was paid is never disputed or paid again.
DisputeStopsPayments ==
    [][\A id \in MilestoneIds :
         /\ mpaid'[id] # mpaid[id] => mescrows[id].status = "Active"
         /\ InStatus(mescrows[id], "Completed") \subseteq InStatus(mescrows'[id], "Completed")
      ]_<<vars, mvars>>

-----------------------------------------------------------------------------
(* What the documentation says, and the code does not do.                  *)

\* The module documentation says that the admin resolves a disputed milestone, and that of
\* dispute_milestone that resolve_dispute splits the amount. No call writes the record of a
\* disputed milestone escrow: resolve_dispute reads the standard escrow of the same number.
DisputedMilestonesAreResolved ==
    \A id \in MilestoneIds :
        mescrows[id].status = "Disputed" =>
            ENABLED (MilestoneNext /\ mescrows'[id] # mescrows[id])
=============================================================================
