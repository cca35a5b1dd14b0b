------------------------------- MODULE Timelock -------------------------------
(***************************************************************************)
(* The timelock controller of contracts/timelock/src/lib.rs: anyone        *)
(* schedules a call, anyone executes it in a window that opens after its   *)
(* delay, the admin cancels it, and a guardian multisig cancels it in an   *)
(* emergency, a limited number of times per period.                        *)
(***************************************************************************)
EXTENDS Host, Sequences, FiniteSets

CONSTANTS
    Proposers,       \* addresses that schedule operations and may be admin
    Guardians,       \* addresses of multisig contracts that may be guardian
    Strong,          \* those of them with enough signers and threshold
    NoGuardian,      \* no guardian is registered
    MinDelay,        \* MIN_DELAY
    MaxDelay,        \* MAX_DELAY
    Tolerance,       \* TIMESTAMP_TOLERANCE_SECS
    Expiry,          \* OPERATION_EXPIRY_SECS
    Delays,          \* delays that may be asked for
    MaxOverrides,    \* MAX_GUARDIAN_OVERRIDES_PER_PERIOD
    OverridePeriod,  \* GUARDIAN_OVERRIDE_PERIOD_SECS
    MaxOperations,   \* bound: operations scheduled in a behaviour
    MaxTimelockTime  \* bound: last value of the clock

ASSUME DelayAssumption ==
    /\ MinDelay \in Nat \ {0} /\ MaxDelay \in Nat /\ Tolerance \in Nat /\ Expiry \in Nat
    /\ Delays \subseteq Nat
ASSUME GuardianAssumption ==
    /\ MaxOverrides \in Nat /\ OverridePeriod \in Nat
    /\ Strong \subseteq Guardians /\ NoGuardian \notin Guardians
ASSUME BoundAssumption == MaxOperations \in Nat /\ MaxTimelockTime \in Nat

VARIABLES
    timelock_admin,  \* DataKey::Admin
    guardian,        \* DataKey::GuardianMultisig
    operations,      \* DataKey::Op(id), numbered in the order of OperationIndex
    cancelled,       \* the operations with a DataKey::Cancelled entry
    timestamps,      \* DataKey::GuardianOverrideTimestamps(guardian)
    executions,      \* history: [op, at] of every execution
    overrides        \* the DataKey::GuardianAudit records, in the order they were made

timelock_vars ==
    <<now, timelock_admin, guardian, operations, cancelled, timestamps, executions, overrides>>

OperationIds == 1 .. Len(operations)

TimelockInit ==
    /\ now = 0
    /\ timelock_admin \in Proposers
    /\ guardian = NoGuardian
    /\ operations = << >>
    /\ cancelled = {}
    /\ timestamps = [g \in Guardians |-> << >>]
    /\ executions = << >>
    /\ overrides = << >>

\* The nonce in the digest makes every operation identifier a new one.
schedule(proposer, delay) ==
    /\ Len(operations) < MaxOperations
    /\ delay \in MinDelay .. MaxDelay
    /\ operations' = Append(operations,
            [proposer |-> proposer, scheduled_at |-> now, ready_at |-> now + delay,
             done |-> FALSE])
    /\ UNCHANGED <<now, timelock_admin, guardian, cancelled, timestamps, executions, overrides>>

\* Mutant: the window opens with the tolerance before the delay is over.
is_executable_early(t, ready_at) == t + Tolerance >= ready_at /\ t < ready_at + Expiry

\* The window of an operation: the tolerance has passed and it has not expired.
is_executable(t, ready_at) == t >= ready_at + Tolerance /\ t < ready_at + Expiry

finish(id) == operations' = [operations EXCEPT ![id].done = TRUE]

\* A call that the target refuses reverts, and the operation stays as it is.
execute(id) ==
    /\ ~operations[id].done
    /\ is_executable(now, operations[id].ready_at)
    /\ finish(id)
    /\ executions' = Append(executions, [op |-> id, at |-> now])
    /\ UNCHANGED <<now, timelock_admin, guardian, cancelled, timestamps, overrides>>

\* Mutant: the operation is marked cancelled but not done.
cancel_marks_only(caller, id) ==
    /\ ~operations[id].done
    /\ caller = timelock_admin
    /\ cancelled' = cancelled \cup {id}
    /\ UNCHANGED <<now, timelock_admin, guardian, operations, timestamps, executions, overrides>>

\* Whether the proposer is the admin or not, the authorisation asked for is the admin's.
cancel(caller, id) ==
    /\ ~operations[id].done
    /\ caller = timelock_admin
    /\ finish(id)
    /\ cancelled' = cancelled \cup {id}
    /\ UNCHANGED <<now, timelock_admin, guardian, timestamps, executions, overrides>>

\* The timestamps t with now - OverridePeriod <= t, the difference cut off at 0, in their order.
recent(stamps) ==
    LET kept[i \in Nat] ==
          IF i = 0 THEN << >>
          ELSE IF stamps[i] + OverridePeriod >= now THEN Append(kept[i - 1], stamps[i])
          ELSE kept[i - 1]
    IN  kept[Len(stamps)]

\* Mutant: the limit is reached one override too late.
within_limit_off_by_one(stamps) == Len(recent(stamps)) <= MaxOverrides

within_limit(stamps) == Len(recent(stamps)) < MaxOverrides

\* The audit record of an emergency cancellation.
record_guardian_action == overrides' = Append(overrides, [guardian |-> guardian, at |-> now])

\* The limit is checked and counted per guardian address.
emergency_cancel(id) ==
    /\ guardian # NoGuardian
    /\ ~operations[id].done
    /\ within_limit(timestamps[guardian])
    /\ timestamps' = [timestamps EXCEPT ![guardian] = Append(recent(@), now)]
    /\ finish(id)
    /\ cancelled' = cancelled \cup {id}
    /\ record_guardian_action
    /\ UNCHANGED <<now, timelock_admin, guardian, executions>>

\* The admin registers the first guardian, and each guardian its successor.
set_guardian_multisig(caller, g) ==
    /\ caller = IF guardian = NoGuardian THEN timelock_admin ELSE guardian
    /\ g \in Strong
    /\ guardian' = g
    /\ UNCHANGED <<now, timelock_admin, operations, cancelled, timestamps, executions, overrides>>

transfer_admin(a) ==
    /\ timelock_admin' = a
    /\ UNCHANGED <<now, guardian, operations, cancelled, timestamps, executions, overrides>>

TimelockTick ==
    /\ CloseLedger(MaxTimelockTime)
    /\ UNCHANGED <<timelock_admin, guardian, operations, cancelled, timestamps, executions, overrides>>

TimelockNext ==
    \/ \E p \in Proposers, d \in Delays : schedule(p, d)
    \/ \E id \in OperationIds :
         \/ execute(id)
         \/ \E p \in Proposers : cancel(p, id)
         \/ emergency_cancel(id)
    \/ \E c \in Proposers \cup Guardians, g \in Guardians : set_guardian_multisig(c, g)
    \/ \E a \in Proposers : transfer_admin(a)
    \/ TimelockTick

TimelockSpec == TimelockInit /\ [][TimelockNext]_timelock_vars

-----------------------------------------------------------------------------
\* An operation is executed at most once, and one that the admin or the guardian cancelled
\* is never executed, whatever the order of the calls.
ExecutedOnceNotCancelled ==
    \A i, j \in 1 .. Len(executions) :
        /\ executions[i].op = executions[j].op => i = j
        /\ executions[i].op \notin cancelled

\* Nobody's call takes effect before it was public for the minimum delay, nor after it
\* expired: admin and guardian changes in between shorten no delay.
DelayIsServed ==
    \A i \in 1 .. Len(executions) :
        LET o == operations[executions[i].op] IN
        /\ executions[i].at >= o.scheduled_at + MinDelay + Tolerance
        /\ executions[i].at < o.ready_at + Expiry

\* The number of emergency cancellations by g in the period that ends with the k-th.
RecentOverrides(k, g) ==
    Cardinality({j \in 1 .. k : /\ overrides[j].guardian = g
                                /\ overrides[j].at + OverridePeriod >= overrides[k].at})

\* Although old timestamps are forgotten, a guardian never cancels more often in any
\* sliding period than the limit, also when it is replaced and registered again.
GuardianIsLimited ==
    \A k \in 1 .. Len(overrides) : RecentOverrides(k, overrides[k].guardian) <= MaxOverrides

\* Every operation is executed at most once, in its time, and not after a cancellation; and
\* a guardian that cancels too often is stopped by its limit.
OperationsAreOrderly == ExecutedOnceNotCancelled /\ DelayIsServed /\ GuardianIsLimited
===============================================================================
