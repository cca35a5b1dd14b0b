------------------------------ MODULE MCEscrow ------------------------------
(* Small instances of Escrow for TLC, and its liveness.                    *)
EXTENDS Escrow, TLC

\* A schedule with a discount for large releases and a tier whose rate the price
\* multiplier would lift above the cap.
GraduatedSchedule ==
    [tier0_bps |-> 1000, tier1_bps |-> 800, tier2_bps |-> 500, tier3_bps |-> 200,
     volume_discount_threshold |-> 60, volume_discount_bps |-> 300]

\* A schedule the contract rejects.
ExcessiveSchedule == [GraduatedSchedule EXCEPT !.tier1_bps = 1001]

MCSchedules == {GraduatedSchedule, ExcessiveSchedule}

UserSymmetry == Permutations(Users)

VARIABLE part    \* the instance explored in this behaviour

mc_vars == <<part, vars>>

-----------------------------------------------------------------------------
\* The approval of the token matters as long as an escrow may still be created.
TokenChange == \E b \in BOOLEAN : set_approved_token(b)

\* One escrow through all of its life, with every change of the configuration and outages of
\* the called contracts.
Single ==
    \/ escrow_count = 0 /\ Create /\ escrows'[1].total_sessions # 2
    \/ Release(1) \/ AutoRelease(1) \/ Arbitrate(1) \/ report_stuck_escrow(1)
    \/ \E x \in FeeRates : update_fee(x)
    \/ \E x \in Schedules : set_fee_schedule(x)
    \/ escrow_count = 0 /\ TokenChange
    \/ PeersChange
    \/ Tick

\* Two escrows of two sessions each that share the balance, for a shorter time and at one fee.
Double ==
    \/ /\ Create
       /\ LET e == escrows'[escrow_count'] IN e.total_sessions = 2 /\ e.session_end_time = 0
    \/ \E id \in EscrowIds :
         \/ Release(id) \/ AutoRelease(id) \/ Arbitrate(id)
         \/ emergency_isolate_escrow(id) \/ recover_isolated_escrow(id)
    \/ escrow_count < 2 /\ TokenChange
    \/ PeersChange /\ failing' # {"staking"}
    \/ now = 0 /\ Tick

MCInit ==
    /\ Init
    /\ part \in {"single", "double"}
    /\ part = "double" => fee_bps = 1000

MCNext ==
    /\ \/ part = "single" /\ Single
       \/ part = "double" /\ Double
    /\ UNCHANGED part

MCSpec == MCInit /\ [][MCNext]_mc_vars

-----------------------------------------------------------------------------
(* Liveness. The clock of this specification stops when no active escrow   *)
(* waits for a later time: the guards of try_auto_release all hold then,   *)
(* and later times make no difference to them. The bound MaxTime is never  *)
(* reached.                                                                *)

Deadlines(id) == {escrows[id].session_end_time + AutoReleaseDelay, failures[id].next_retry_time}

AwaitedTick ==
    /\ \E id \in EscrowIds : escrows[id].status = "Active" /\ \E d \in Deadlines(id) : now < d
    /\ Tick

LiveNext ==
    \/ Create
    \/ \E id \in EscrowIds : Release(id) \/ AutoRelease(id) \/ Arbitrate(id) \/ Supervise(id)
    \/ PeersChange
    \/ AwaitedTick

LiveInit == Init /\ part = "live"

\* Ledgers keep closing, and someone keeps calling try_auto_release: the call needs no
\* authorisation and the mentor gains by it. Fairness asks nothing of a call that panics: an
\* attempt that finds the token trapping is no step. The prechecks may pass or fail each time.
LiveSpec ==
    /\ LiveInit /\ [][LiveNext /\ UNCHANGED part]_mc_vars
    /\ WF_vars(AwaitedTick)
    /\ \A id \in EscrowIds : WF_vars(AutoRelease(id))

\* An escrow leaves the retry loop: it is settled or disputed, or its attempts run out and
\* the emergency path is open for it.
LeavesRetryLoop(id) ==
    escrows[id].status = "Active" ~>
        (escrows[id].status # "Active" \/ failures[id].attempt_number = MaxAttempts)

\* Auto-release concludes when the token does not keep trapping: however reputation,
\* insurance and staking come and go, no active escrow stays in the retry loop for ever.
AutoReleaseConcludes == <>[]answers("token") => \A id \in EscrowIds : LeavesRetryLoop(id)

\* The module documentation names a failing token transfer as the example of an auto-release
\* that fails repeatedly and escalates. The code counts only failed prechecks: the transfer
\* panics, which takes the count back, and the escrow neither settles nor escalates.
StuckEscrowsEscalate == <>[]~answers("token") => \A id \in EscrowIds : LeavesRetryLoop(id)
=============================================================================
