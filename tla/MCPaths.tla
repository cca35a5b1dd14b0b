------------------------------ MODULE MCPaths ------------------------------
(***************************************************************************)
(* Small instances, for TLC, of what stands beside the standard life of an *)
(* escrow: the emergency release, the milestone escrows and the rollback.  *)
(* Each behaviour explores one of them; the others stay as they began.     *)
(***************************************************************************)
EXTENDS EmergencyRelease, MilestoneEscrow, SnapshotRollback

VARIABLE part    \* the instance explored in this behaviour

Symmetry == Permutations(Users) \cup Permutations(Signers)

FlatRate == Max(FeeRates)

-----------------------------------------------------------------------------
(* The emergency release starts in states that deposits and failed         *)
(* auto-release attempts lead to, with a large first escrow that keeps the *)
(* pool filled.                                                            *)

Deposited(user, amount) ==
    [Blank EXCEPT !.mentor = user, !.learner = user, !.amount = amount,
                  !.quoted_token_amount = amount, !.total_sessions = Min(SessionCounts),
                  !.status = "Active"]

\* Escrows of a user with the given deposits exist, and n auto-release attempts of each but
\* the first have failed.
Start(user, deposits, n) ==
    LET Created == 1 .. Len(deposits) IN
    /\ now = 0
    /\ escrow_count = Len(deposits)
    /\ escrows = [i \in EscrowIds |-> IF i \in Created THEN Deposited(user, deposits[i]) ELSE Blank]
    /\ log = [i \in EscrowIds |->
                IF i \in Created THEN <<[from |-> "Pending", to |-> "Active", actor |-> user]>>
                ELSE << >>]
    /\ balance = [a \in Users \cup {Contract, Treasury} |->
                    IF a = Contract THEN MapThenSumSet(LAMBDA i : deposits[i], Created) ELSE 0]
    /\ used_nonces = SessionIds /\ session_keys = SessionIds
    /\ failures = [i \in EscrowIds |->
         IF i = 1 \/ i \notin Created THEN NoFailure
         ELSE [attempt_number |-> n, next_retry_time |-> 0,
               recovery_state |-> IF n = MaxAttempts THEN "AwaitingManualRecovery" ELSE "Retrying"]]
    /\ watchlist = {} /\ isolated = {}
    /\ low_fee = [p \in Users \X Users |-> 0]
    /\ token_approved = TRUE
    /\ fee_bps = FlatRate
    /\ fee_schedule = NoSchedule
    /\ failing = {}
    /\ paid = [i \in EscrowIds |-> NoPayout]

\* The path as a whole, with two escrows: one more failure opens it for the small one.
PathInit ==
    /\ \E u \in Users : Start(u, <<20, 2>>, MaxAttempts - 1)
    /\ EmergencyStart

\* The calls of the ordinary life cycle that compete for an exhausted escrow: a release of
\* all or part of it, a refund, a dispute and its ruling, a report. The other release paths
\* end in the same steps; the fee configuration and isolation play no part here.
Compete(id) ==
    \/ AutoRelease(id) \/ admin_release(id) \/ release_partial(Admin, id)
    \/ Arbitrate(id) \/ report_stuck_escrow(id)

\* Of the large escrow only a refund matters here: it empties the pool. Once the attempts of
\* the small one are used up, nothing here depends on the called contracts.
PathNext ==
    \/ Emergency
    \/ (Compete(2) \/ refund(1)) /\ UNCHANGED evars
    \/ ~exhausted(2) /\ PeersChange /\ UNCHANGED evars
    \/ now < 2 /\ Tick /\ UNCHANGED evars

\* The circuit breaker, with four escrows: three are exhausted and their emergency actions
\* are approved.
Approved(id, amount, S) ==
    [escrow_id |-> id, amount |-> amount, reason |-> CHOOSE r \in Reasons : TRUE,
     execute_after |-> 0, approvals |-> S, executed |-> FALSE, failed |-> FALSE]

BreakerInit ==
    /\ \E u \in Users : Start(u, <<40, 1, 3, 4>>, MaxAttempts)
    /\ signers \in kSubset(SignerCount, Signers)
    /\ role = [admin |-> CHOOSE u \in Responders : TRUE, expires_at |-> RoleTTL]
    /\ \E S \in kSubset(Threshold, signers) :
         actions = <<Approved(2, 1, S), Approved(3, 3, S), Approved(4, 4, S)>>
    /\ failed_params = {} /\ circuit = NoCircuit /\ payments = << >>

BreakerNext ==
    \/ \E u \in Responders : grant_emergency_admin(u)
    \/ \E u \in Responders, k \in ActionIds :
         execute_emergency_action_ok(u, k) \/ execute_emergency_action_failed(u, k)
    \/ \E id \in EscrowIds : refund(id) /\ UNCHANGED evars
    \/ now < 2 /\ Tick /\ UNCHANGED evars

-----------------------------------------------------------------------------
\* A milestone escrow beside a standard one of the same number, and fees that change.
MilestonePart ==
    \/ Milestones
    \/ /\ \/ escrow_count = 0 /\ Create
          \/ Release(1) \/ Arbitrate(1)
          \/ \E r \in FeeRates : update_fee(r)
       /\ UNCHANGED mvars

\* The calls that change a record while a rollback is under way.
RollbackPart ==
    \/ Recovery
    \/ /\ \/ escrow_count = 0 /\ \E u \in Users, a \in Amounts, n \in SessionCounts :
               create_escrow_with_path_payment(u, u, a, n)
          \/ \E c \in Users : release_partial(c, 1) \/ dispute(c, 1)
          \/ refund(1)
          \/ Tick
       /\ UNCHANGED <<snapshots, index, rollbacks, preserved, restored, signers>>

-----------------------------------------------------------------------------
MCInit ==
    /\ \/ part = "path" /\ PathInit
       \/ part = "breaker" /\ BreakerInit
       \/ part = "milestones" /\ Init /\ EmergencyStart
       \/ part = "rollback" /\ Init /\ fee_bps = FlatRate /\ EmergencyStart
    /\ mescrows = << >> /\ mpaid = << >>
    /\ NothingRestored

emergency_only == <<role, actions, failed_params, circuit, payments>>
rollback_only  == <<snapshots, index, rollbacks, preserved, restored>>

MCNext ==
    /\ \/ part = "path" /\ PathNext /\ UNCHANGED <<mvars, rollback_only>>
       \/ part = "breaker" /\ BreakerNext /\ UNCHANGED <<mvars, rollback_only>>
       \/ part = "milestones" /\ MilestonePart /\ UNCHANGED <<evars, rollback_only>>
       \/ part = "rollback" /\ RollbackPart /\ UNCHANGED <<emergency_only, mvars>>
    /\ UNCHANGED part

MCSpec == MCInit /\ [][MCNext]_<<part, vars, evars, mvars, rollback_only>>

-----------------------------------------------------------------------------
\* The milestone books add up as long as no rollback has written standard records back: a
\* rollback leaves the balance as it is, as the run about its funds shows.
BooksUntilRollback == restored = << >> => MilestoneBooks
=============================================================================
