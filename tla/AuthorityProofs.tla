--------------------------- MODULE AuthorityProofs ---------------------------
(***************************************************************************)
(* Proofs about the contracts that decide who may do what: the token       *)
(* multisig, for any addresses and initial signers, the timelock, for any  *)
(* delays, tolerance and expiry, and the admin multisig, for any actions,  *)
(* snapshots and numbers of proposals and rollbacks. The handover of the   *)
(* escrow contract's admin is proved in its own module.                    *)
(***************************************************************************)
EXTENDS Multisig, Timelock, MultisigAdmin, Sums, FunctionTheorems

-----------------------------------------------------------------------------
(* The token multisig.                                                     *)

MultisigInv == MultisigTypeOK /\ ApprovalsAreDistinct /\ ThresholdCovered

\* Sets of addresses are finite, and adding or removing one changes their size by one.
LEMMA AddressSets ==
  ASSUME NEW S \in SUBSET Members
  PROVE  /\ IsFiniteSet(S) /\ Cardinality(S) \in Nat
         /\ \A x \in Members : x \notin S => Cardinality(S \cup {x}) = Cardinality(S) + 1
         /\ \A x \in S : Cardinality(S \ {x}) = Cardinality(S) - 1
<1>1. IsFiniteSet(S)
  BY FS_Subset, MembersAssumption
<1>2. Cardinality(S) \in Nat
  BY <1>1, FS_CardinalityType
<1>3. \A x \in Members : x \notin S => Cardinality(S \cup {x}) = Cardinality(S) + 1
  BY <1>1, FS_AddElement
<1>4. \A x \in S : Cardinality(S \ {x}) = Cardinality(S) - 1
  BY <1>1, FS_RemoveElement
<1> QED BY <1>1, <1>2, <1>3, <1>4

\* The signers of a list are no more than its entries.
LEMMA ListCoversSigners ==
  ASSUME NEW list \in Seq(Members)
  PROVE  Cardinality({list[i] : i \in 1 .. Len(list)}) <= Len(list)
<1> DEFINE S == {list[i] : i \in 1 .. Len(list)}
<1>1. list \in [1 .. Len(list) -> S]
  OBVIOUS
<1>2. list \in Surjection(1 .. Len(list), S)
  BY <1>1 DEF Surjection
<1>3. ExistsSurjection(1 .. Len(list), S)
  BY <1>2 DEF ExistsSurjection
<1> QED BY <1>3, FS_SurjCardinalityBound

\* The state after `initialize' satisfies the invariant.
LEMMA MultisigStarts == MultisigInit => MultisigInv
<1> SUFFICES ASSUME MultisigInit PROVE MultisigInv
  OBVIOUS
<1>1. PICK list \in InitialSigners :
        /\ list # << >>
        /\ threshold \in 1 .. Len(list)
        /\ signer_count = Len(list)
        /\ signers = {list[i] : i \in 1 .. Len(list)}
  BY DEF MultisigInit
<1>2. list \in Seq(Members) /\ Len(list) \in Nat
  BY MembersAssumption
<1>3. signers \subseteq Members
  BY <1>1, <1>2
<1>4. ThresholdCovered
  BY <1>1, <1>2, ListCoversSigners DEF ThresholdCovered
<1>5. MultisigTypeOK
  BY <1>1, <1>2, <1>3, TransfersAssumption DEF MultisigInit, MultisigTypeOK
<1>6. ApprovalsAreDistinct
  BY DEF MultisigInit, ApprovalsAreDistinct, TransactionIds
<1> QED BY <1>4, <1>5, <1>6 DEF MultisigInv

\* A step that leaves the transactions and their approvals alone.
LEMMA KeepsApprovals ==
  ASSUME MultisigInv, UNCHANGED <<transactions, approved>>
  PROVE  ApprovalsAreDistinct'
BY DEF MultisigInv, ApprovalsAreDistinct, TransactionIds

\* A step that leaves the signers and the threshold alone.
LEMMA KeepsThreshold ==
  ASSUME MultisigInv, UNCHANGED <<signers, signer_count, threshold>>
  PROVE  ThresholdCovered'
BY DEF MultisigInv, ThresholdCovered

\* The transactions after one field of one of them was changed.
WithStatus(id, s) == [transactions EXCEPT ![id].status = s]
WithApprovals(id, n) == [transactions EXCEPT ![id].approvals = n]

\* The entries of a stored transaction have their types.
LEMMA StoredTransaction ==
  ASSUME MultisigTypeOK, NEW id \in TransactionIds
  PROVE  transactions[id] \in Transaction /\ approved[id] \in SUBSET Members
BY DEF MultisigTypeOK, TransactionIds

\* A change of a status keeps the approvals of all transactions.
LEMMA StatusUpdate ==
  ASSUME MultisigTypeOK, NEW id \in TransactionIds, NEW s \in {"Pending", "Executed", "Cancelled"}
  PROVE  /\ WithStatus(id, s) \in Seq(Transaction)
         /\ Len(WithStatus(id, s)) = Len(transactions)
         /\ \A i \in TransactionIds :
              WithStatus(id, s)[i].approvals = transactions[i].approvals
<1>1. transactions[id] \in Transaction
  BY StoredTransaction
<1>2. [transactions[id] EXCEPT !.status = s] \in Transaction
  BY <1>1 DEF Transaction
<1>3. [transactions[id] EXCEPT !.status = s].approvals = transactions[id].approvals
  BY <1>1 DEF Transaction
<1> QED BY <1>2, <1>3 DEF MultisigTypeOK, TransactionIds, WithStatus

\* A change of a number of approvals keeps those of the other transactions.
LEMMA ApprovalsUpdate ==
  ASSUME MultisigTypeOK, NEW id \in TransactionIds, NEW n \in Nat
  PROVE  /\ WithApprovals(id, n) \in Seq(Transaction)
         /\ Len(WithApprovals(id, n)) = Len(transactions)
         /\ \A i \in TransactionIds :
              WithApprovals(id, n)[i].approvals = IF i = id THEN n ELSE transactions[i].approvals
<1>1. transactions[id] \in Transaction
  BY StoredTransaction
<1>2. [transactions[id] EXCEPT !.approvals = n] \in Transaction
  BY <1>1 DEF Transaction
<1>3. [transactions[id] EXCEPT !.approvals = n].approvals = n
  BY <1>1 DEF Transaction
<1> QED BY <1>2, <1>3 DEF MultisigTypeOK, TransactionIds, WithApprovals

\* A new transaction starts without approvals.
LEMMA ProposeStep ==
  ASSUME MultisigInv, NEW p \in Members, NEW a \in TransferAmounts, NEW t \in Locks,
         propose_transaction(p, a, t)
  PROVE  MultisigInv'
<1> DEFINE r == [proposer |-> p, amount |-> a, execute_after |-> t,
                 status |-> "Pending", approvals |-> 0]
<1>1. r \in Transaction
  BY TransfersAssumption, MultisigTimeAssumption DEF Transaction
<1>2. transactions' = Append(transactions, r) /\ approved' = Append(approved, {})
  BY DEF propose_transaction
<1>3. r.approvals = 0
  OBVIOUS
<1> HIDE DEF r
<1>4. MultisigTypeOK'
  BY <1>1, <1>2 DEF MultisigInv, MultisigTypeOK, propose_transaction
<1>5. ApprovalsAreDistinct'
  <2> SUFFICES ASSUME NEW i \in TransactionIds'
               PROVE  transactions'[i].approvals = Cardinality(approved'[i])
    BY DEF ApprovalsAreDistinct
  <2>1. CASE i \in TransactionIds
    <3>1. transactions'[i] = transactions[i] /\ approved'[i] = approved[i]
      BY <1>2, <2>1 DEF MultisigInv, MultisigTypeOK, TransactionIds
    <3> QED BY <2>1, <3>1 DEF MultisigInv, ApprovalsAreDistinct
  <2>2. CASE i \notin TransactionIds
    <3>1. transactions'[i] = r /\ approved'[i] = {}
      BY <1>1, <1>2, <2>2 DEF MultisigInv, MultisigTypeOK, TransactionIds
    <3> QED BY <3>1, <1>3, FS_EmptySet
  <2> QED BY <2>1, <2>2
<1>6. ThresholdCovered'
  BY KeepsThreshold DEF propose_transaction
<1> QED BY <1>4, <1>5, <1>6 DEF MultisigInv

\* An approval adds a new address and counts it.
LEMMA ApproveStep ==
  ASSUME MultisigInv, NEW id \in TransactionIds, NEW s \in Members, approve_transaction(s, id)
  PROVE  MultisigInv'
<1>1. MultisigTypeOK
  BY DEF MultisigInv
<1>2. s \notin approved[id]
  BY DEF approve_transaction, may_approve
<1> DEFINE n == transactions[id].approvals + 1
<1>3. n \in Nat /\ n = Cardinality(approved[id] \cup {s})
  <2>1. transactions[id] \in Transaction /\ approved[id] \in SUBSET Members
    BY <1>1, StoredTransaction
  <2>2. transactions[id].approvals = Cardinality(approved[id])
    BY DEF MultisigInv, ApprovalsAreDistinct
  <2>3. transactions[id].approvals \in Nat
    BY <2>1 DEF Transaction
  <2> QED BY <1>2, <2>1, <2>2, <2>3, AddressSets
<1>4. transactions' = WithApprovals(id, n)
  BY DEF approve_transaction, WithApprovals
<1>5. approved' = [approved EXCEPT ![id] = approved[id] \cup {s}]
  BY DEF approve_transaction
<1> HIDE DEF n
<1>6. /\ transactions' \in Seq(Transaction) /\ Len(transactions') = Len(transactions)
      /\ \A i \in TransactionIds :
           transactions'[i].approvals = IF i = id THEN n ELSE transactions[i].approvals
  BY <1>1, <1>3, <1>4, ApprovalsUpdate
<1>7. /\ approved' \in Seq(SUBSET Members) /\ Len(approved') = Len(approved)
      /\ \A i \in TransactionIds :
           approved'[i] = IF i = id THEN approved[id] \cup {s} ELSE approved[i]
  BY <1>1, <1>5 DEF MultisigTypeOK, TransactionIds
<1>8. MultisigTypeOK'
  BY <1>1, <1>6, <1>7 DEF MultisigTypeOK, approve_transaction
<1>9. ApprovalsAreDistinct'
  BY <1>3, <1>6, <1>7 DEF MultisigInv, ApprovalsAreDistinct, TransactionIds
<1>10. ThresholdCovered'
  BY KeepsThreshold DEF approve_transaction
<1> QED BY <1>8, <1>9, <1>10 DEF MultisigInv

\* Executing or cancelling a transaction keeps its approvals.
LEMMA CloseStep ==
  ASSUME MultisigInv, NEW id \in TransactionIds,
         execute_transaction(id) \/ \E c \in Members \cup {TransferAdmin} : cancel_transaction(c, id)
  PROVE  MultisigInv'
<1>1. MultisigTypeOK
  BY DEF MultisigInv
<1>2. PICK s \in {"Executed", "Cancelled"} :
        transactions' = WithStatus(id, s)
  BY DEF execute_transaction, cancel_transaction, WithStatus
<1>3. /\ transactions' \in Seq(Transaction) /\ Len(transactions') = Len(transactions)
      /\ \A i \in TransactionIds : transactions'[i].approvals = transactions[i].approvals
  BY <1>1, <1>2, StatusUpdate
<1>4. UNCHANGED <<now, signers, signer_count, threshold, approved>>
  BY DEF execute_transaction, cancel_transaction
<1>5. funds' \in Nat
  <2>1. transactions[id].amount \in Nat
    BY <1>1, StoredTransaction DEF Transaction
  <2> QED BY <1>1, <2>1 DEF MultisigTypeOK, execute_transaction, cancel_transaction
<1>6. MultisigTypeOK'
  BY <1>1, <1>3, <1>4, <1>5 DEF MultisigTypeOK
<1>7. ApprovalsAreDistinct'
  BY <1>3, <1>4 DEF MultisigInv, ApprovalsAreDistinct, TransactionIds
<1>8. ThresholdCovered'
  BY <1>4, KeepsThreshold
<1> QED BY <1>6, <1>7, <1>8 DEF MultisigInv

\* Changing the signers or the threshold keeps the threshold covered.
LEMMA GovernStep ==
  ASSUME MultisigInv,
         \/ \E s \in Members : add_signer(s) \/ remove_signer(s)
         \/ \E n \in 1 .. signer_count : update_threshold(n)
  PROVE  MultisigInv'
<1>1. UNCHANGED <<now, transactions, approved, funds>>
  BY DEF add_signer, remove_signer, update_threshold
<1>2. ApprovalsAreDistinct'
  BY <1>1, KeepsApprovals
<1>3. signers \in SUBSET Members /\ signer_count \in Nat /\ threshold \in Nat
  BY DEF MultisigInv, MultisigTypeOK
<1>4. Cardinality(signers) \in Nat
  BY <1>3, AddressSets
<1>5. ASSUME NEW s \in Members, add_signer(s) PROVE MultisigTypeOK' /\ ThresholdCovered'
  <2>1. Cardinality(signers') = Cardinality(signers) + 1
    BY <1>3, <1>5, AddressSets DEF add_signer
  <2> QED BY <1>1, <1>3, <1>4, <1>5, <2>1 DEF add_signer, MultisigInv, MultisigTypeOK, ThresholdCovered
<1>6. ASSUME NEW s \in Members, remove_signer(s) PROVE MultisigTypeOK' /\ ThresholdCovered'
  <2>1. Cardinality(signers') = Cardinality(signers) - 1
    BY <1>3, <1>6, AddressSets DEF remove_signer
  <2> QED BY <1>1, <1>3, <1>4, <1>6, <2>1 DEF remove_signer, MultisigInv, MultisigTypeOK, ThresholdCovered
<1>7. ASSUME NEW n \in 1 .. signer_count, update_threshold(n) PROVE MultisigTypeOK' /\ ThresholdCovered'
  BY <1>1, <1>3, <1>7 DEF update_threshold, MultisigInv, MultisigTypeOK, ThresholdCovered
<1> QED BY <1>2, <1>5, <1>6, <1>7 DEF MultisigInv

\* Every step keeps the invariant.
LEMMA MultisigStep == MultisigInv /\ [MultisigNext]_multisig_vars => MultisigInv'
<1> SUFFICES ASSUME MultisigInv, [MultisigNext]_multisig_vars PROVE MultisigInv'
  OBVIOUS
<1>1. CASE UNCHANGED multisig_vars
  BY <1>1, KeepsApprovals, KeepsThreshold DEF multisig_vars, MultisigInv, MultisigTypeOK
<1>2. CASE MultisigTick
  BY <1>2, KeepsApprovals, KeepsThreshold DEF MultisigTick, CloseLedger, MultisigInv, MultisigTypeOK
<1> QED
  BY <1>1, <1>2, ProposeStep, ApproveStep, CloseStep, GovernStep DEF MultisigNext

\* For any signers and any history of additions and removals, the approvals a transaction
\* carries are those of distinct addresses, and the admin cannot bring the multisig into a state
\* whose recorded number of signers is below the threshold or below the number of signers.
THEOREM QuorumStaysReal == MultisigSpec => []QuorumIsReal
<1>1. MultisigInv => QuorumIsReal
  BY DEF MultisigInv, QuorumIsReal
<1> QED BY <1>1, MultisigStarts, MultisigStep, PTL DEF MultisigSpec

\* Tokens leave the multisig only for a pending transaction that as many distinct addresses
\* approved as the threshold of that moment demands, and only when its time has come.
THEOREM TransfersApproved == MultisigSpec => TransfersAreApproved
<1> DEFINE A == funds' # funds =>
         \E id \in TransactionIds :
            LET t == transactions[id] IN
            /\ t.status = "Pending" /\ transactions'[id].status = "Executed"
            /\ Cardinality(approved[id]) >= threshold
            /\ now >= t.execute_after
            /\ funds' = funds - t.amount
<1>1. MultisigInv /\ [MultisigNext]_multisig_vars => [A]_multisig_vars
  <2> SUFFICES ASSUME MultisigInv, [MultisigNext]_multisig_vars, funds' # funds PROVE A
    OBVIOUS
  <2>1. PICK id \in TransactionIds : execute_transaction(id)
    BY DEF MultisigNext, multisig_vars, propose_transaction, approve_transaction, cancel_transaction,
           add_signer, remove_signer, update_threshold, MultisigTick
  <2>2. /\ transactions[id].status = "Pending" /\ transactions[id].approvals >= threshold
        /\ now >= transactions[id].execute_after /\ funds' = funds - transactions[id].amount
    BY <2>1 DEF execute_transaction, executable
  <2>3. transactions[id].approvals = Cardinality(approved[id])
    BY DEF MultisigInv, ApprovalsAreDistinct
  <2>4. transactions'[id].status = "Executed"
    <3>1. transactions[id] \in Transaction
      BY StoredTransaction DEF MultisigInv
    <3>2. [transactions[id] EXCEPT !.status = "Executed"].status = "Executed"
      BY <3>1 DEF Transaction
    <3> QED BY <2>1, <3>2 DEF MultisigInv, MultisigTypeOK, TransactionIds, execute_transaction
  <2> QED BY <2>2, <2>3, <2>4
<1> QED BY <1>1, MultisigStarts, MultisigStep, PTL DEF MultisigSpec, TransfersAreApproved

-----------------------------------------------------------------------------
(* The timelock.                                                           *)

Operation ==
    [proposer : Proposers, scheduled_at : Nat, ready_at : Nat, done : BOOLEAN]

Execution == [op : Nat, at : Nat]

\* The part of the state the properties are about, and its types.
Types ==
    /\ now \in Nat
    /\ operations \in Seq(Operation)
    /\ cancelled \subseteq OperationIds
    /\ executions \in Seq(Execution)

\* An operation becomes ready no earlier than the minimum delay after it was scheduled.
ReadyAfterDelay ==
    \A id \in OperationIds : operations[id].ready_at >= operations[id].scheduled_at + MinDelay

\* Executed and cancelled operations are done, so that neither can happen again.
DoneIsRecorded ==
    /\ \A i \in 1 .. Len(executions) :
         executions[i].op \in OperationIds /\ operations[executions[i].op].done
    /\ \A id \in cancelled : operations[id].done

TimelockInv == Types /\ ReadyAfterDelay /\ DoneIsRecorded /\ ExecutedOnceNotCancelled /\ DelayIsServed

\* The operations after one of them is finished.
Finished(id) == [operations EXCEPT ![id].done = TRUE]

\* A freshly initialized timelock satisfies the invariant.
LEMMA TimelockStarts == TimelockInit => TimelockInv
<1> SUFFICES ASSUME TimelockInit PROVE TimelockInv
  OBVIOUS
<1>1. Types
  BY DEF TimelockInit, Types, OperationIds
<1>2. ReadyAfterDelay /\ DoneIsRecorded /\ ExecutedOnceNotCancelled /\ DelayIsServed
  BY DEF TimelockInit, ReadyAfterDelay, DoneIsRecorded, ExecutedOnceNotCancelled, DelayIsServed,
         OperationIds
<1> QED BY <1>1, <1>2 DEF TimelockInv

\* Finishing an operation changes nothing but its flag.
LEMMA FinishedKeeps ==
  ASSUME Types, NEW id \in OperationIds
  PROVE  /\ Finished(id) \in Seq(Operation) /\ Len(Finished(id)) = Len(operations)
         /\ Finished(id)[id].done
         /\ \A i \in OperationIds :
              /\ Finished(id)[i].scheduled_at = operations[i].scheduled_at
              /\ Finished(id)[i].ready_at = operations[i].ready_at
              /\ operations[i].done => Finished(id)[i].done
<1>1. operations[id] \in Operation
  BY DEF Types, OperationIds
<1> DEFINE o == [operations[id] EXCEPT !.done = TRUE]
<1>2. /\ o \in Operation /\ o.done /\ o.scheduled_at = operations[id].scheduled_at
      /\ o.ready_at = operations[id].ready_at
  BY <1>1 DEF Operation
<1>3. Finished(id) = [operations EXCEPT ![id] = o]
  BY DEF Finished
<1> HIDE DEF o
<1> QED BY <1>2, <1>3 DEF Types, OperationIds

\* A new operation is not done, and leaves the others as they are.
LEMMA ScheduleStep ==
  ASSUME TimelockInv, NEW p \in Proposers, NEW d \in Delays, schedule(p, d)
  PROVE  TimelockInv'
<1> DEFINE o == [proposer |-> p, scheduled_at |-> now, ready_at |-> now + d, done |-> FALSE]
<1>1. now \in Nat /\ d \in Nat /\ d >= MinDelay
  BY DelayAssumption DEF TimelockInv, Types, schedule
<1>2. o \in Operation /\ o.ready_at >= o.scheduled_at + MinDelay
  BY <1>1, DelayAssumption DEF Operation
<1>3. operations' = Append(operations, o) /\ UNCHANGED <<now, cancelled, executions>>
  BY DEF schedule
<1> HIDE DEF o
<1>4. operations \in Seq(Operation)
  BY DEF TimelockInv, Types
<1>5. /\ operations' \in Seq(Operation) /\ Len(operations') = Len(operations) + 1
      /\ \A i \in OperationIds : operations'[i] = operations[i]
      /\ operations'[Len(operations) + 1] = o
  BY <1>2, <1>3, <1>4 DEF OperationIds
<1>6. \A i \in OperationIds' : i \in OperationIds \/ i = Len(operations) + 1
  BY <1>4, <1>5 DEF OperationIds
<1>7. OperationIds \subseteq OperationIds'
  BY <1>4, <1>5 DEF OperationIds
<1>8. Types'
  BY <1>3, <1>5, <1>7 DEF TimelockInv, Types
<1>9. ReadyAfterDelay'
  BY <1>2, <1>5, <1>6 DEF TimelockInv, ReadyAfterDelay
<1>10. DoneIsRecorded'
  BY <1>3, <1>5, <1>7 DEF TimelockInv, Types, DoneIsRecorded
<1>11. ExecutedOnceNotCancelled'
  BY <1>3 DEF TimelockInv, ExecutedOnceNotCancelled
<1>12. DelayIsServed'
  BY <1>3, <1>5 DEF TimelockInv, DoneIsRecorded, DelayIsServed
<1> QED BY <1>8, <1>9, <1>10, <1>11, <1>12 DEF TimelockInv

\* Executing a pending operation in its window.
LEMMA ExecuteStep ==
  ASSUME TimelockInv, NEW id \in OperationIds, execute(id)
  PROVE  TimelockInv'
<1> DEFINE x == [op |-> id, at |-> now]
<1>1. /\ operations' = Finished(id) /\ executions' = Append(executions, x)
      /\ UNCHANGED <<now, cancelled>> /\ ~operations[id].done
  BY DEF execute, finish, Finished
<1>2. Types /\ id \in Nat /\ now \in Nat
  BY DEF TimelockInv, Types, OperationIds
<1>3. x \in Execution /\ x.op = id /\ x.at = now
  BY <1>2 DEF Execution
<1> HIDE DEF x
<1>4. /\ operations' \in Seq(Operation) /\ Len(operations') = Len(operations)
      /\ operations'[id].done
      /\ \A i \in OperationIds :
           /\ operations'[i].scheduled_at = operations[i].scheduled_at
           /\ operations'[i].ready_at = operations[i].ready_at
           /\ operations[i].done => operations'[i].done
  BY <1>1, <1>2, FinishedKeeps
<1>5. OperationIds' = OperationIds
  BY <1>4 DEF OperationIds
<1>6. /\ executions' \in Seq(Execution) /\ Len(executions') = Len(executions) + 1
      /\ \A i \in 1 .. Len(executions) : executions'[i] = executions[i]
      /\ executions'[Len(executions) + 1] = x
      /\ \A i \in 1 .. Len(executions') :
           i \in 1 .. Len(executions) \/ i = Len(executions) + 1
  BY <1>1, <1>2, <1>3 DEF Types
<1>7. \A i \in 1 .. Len(executions) : executions[i].op # id
  BY <1>1 DEF TimelockInv, DoneIsRecorded
<1>8. id \notin cancelled
  BY <1>1 DEF TimelockInv, DoneIsRecorded
<1>9. /\ now >= operations[id].scheduled_at + MinDelay + Tolerance
      /\ now < operations[id].ready_at + Expiry
  <2>1. operations[id] \in Operation
    BY <1>2 DEF Types, OperationIds
  <2>2. operations[id].scheduled_at \in Nat /\ operations[id].ready_at \in Nat
    BY <2>1 DEF Operation
  <2>3. operations[id].ready_at >= operations[id].scheduled_at + MinDelay
    BY DEF TimelockInv, ReadyAfterDelay
  <2>4. now >= operations[id].ready_at + Tolerance /\ now < operations[id].ready_at + Expiry
    BY DEF execute, is_executable
  <2> QED BY <1>2, <2>2, <2>3, <2>4, DelayAssumption
<1>10. Types'
  BY <1>1, <1>2, <1>4, <1>5, <1>6 DEF Types
<1>11. ReadyAfterDelay'
  BY <1>4, <1>5 DEF TimelockInv, ReadyAfterDelay
<1>12. DoneIsRecorded'
  <2>1. ASSUME NEW i \in 1 .. Len(executions')
        PROVE  executions'[i].op \in OperationIds /\ operations'[executions'[i].op].done
    <3>1. CASE i \in 1 .. Len(executions)
      <4>1. executions[i].op \in OperationIds /\ operations[executions[i].op].done
        BY <3>1 DEF TimelockInv, DoneIsRecorded
      <4> QED BY <1>4, <1>6, <3>1, <4>1
    <3>2. CASE i = Len(executions) + 1
      BY <1>3, <1>4, <1>6, <3>2
    <3> QED BY <1>6, <2>1, <3>1, <3>2
  <2>2. \A i \in cancelled : operations'[i].done
    BY <1>2, <1>4 DEF TimelockInv, Types, DoneIsRecorded
  <2> QED BY <1>1, <1>5, <2>1, <2>2 DEF DoneIsRecorded
<1>13. ExecutedOnceNotCancelled'
  BY <1>1, <1>3, <1>6, <1>7, <1>8 DEF TimelockInv, ExecutedOnceNotCancelled
<1>14. DelayIsServed'
  BY <1>3, <1>4, <1>6, <1>9 DEF TimelockInv, DelayIsServed, DoneIsRecorded
<1> QED BY <1>10, <1>11, <1>12, <1>13, <1>14 DEF TimelockInv

\* Cancelling a pending operation, by the admin or by the guardian.
LEMMA CancelStep ==
  ASSUME TimelockInv, NEW id \in OperationIds,
         (\E p \in Proposers : cancel(p, id)) \/ emergency_cancel(id)
  PROVE  TimelockInv'
<1>1. /\ operations' = Finished(id) /\ cancelled' = cancelled \cup {id}
      /\ UNCHANGED <<now, executions>> /\ ~operations[id].done
  BY DEF cancel, emergency_cancel, finish, Finished
<1>2. Types
  BY DEF TimelockInv
<1>3. /\ operations' \in Seq(Operation) /\ Len(operations') = Len(operations)
      /\ operations'[id].done
      /\ \A i \in OperationIds :
           /\ operations'[i].scheduled_at = operations[i].scheduled_at
           /\ operations'[i].ready_at = operations[i].ready_at
           /\ operations[i].done => operations'[i].done
  BY <1>1, <1>2, FinishedKeeps
<1>4. OperationIds' = OperationIds
  BY <1>3 DEF OperationIds
<1>5. \A i \in 1 .. Len(executions) : executions[i].op # id
  BY <1>1 DEF TimelockInv, DoneIsRecorded
<1>6. Types'
  BY <1>1, <1>2, <1>3, <1>4 DEF Types
<1>7. ReadyAfterDelay'
  BY <1>3, <1>4 DEF TimelockInv, ReadyAfterDelay
<1>8. DoneIsRecorded'
  BY <1>1, <1>2, <1>3, <1>4 DEF TimelockInv, Types, DoneIsRecorded
<1>9. ExecutedOnceNotCancelled'
  BY <1>1, <1>5 DEF TimelockInv, ExecutedOnceNotCancelled
<1>10. DelayIsServed'
  BY <1>1, <1>3 DEF TimelockInv, DelayIsServed, DoneIsRecorded
<1> QED BY <1>6, <1>7, <1>8, <1>9, <1>10 DEF TimelockInv

\* Every step keeps the invariant.
LEMMA TimelockStep == TimelockInv /\ [TimelockNext]_timelock_vars => TimelockInv'
<1> SUFFICES ASSUME TimelockInv, [TimelockNext]_timelock_vars PROVE TimelockInv'
  OBVIOUS
<1>1. ASSUME UNCHANGED <<operations, cancelled, executions>>, now' \in Nat PROVE TimelockInv'
  BY <1>1 DEF TimelockInv, Types, ReadyAfterDelay, DoneIsRecorded, ExecutedOnceNotCancelled,
              DelayIsServed, OperationIds
<1>2. now \in Nat
  BY DEF TimelockInv, Types
<1>3. CASE UNCHANGED timelock_vars
  BY <1>1, <1>2, <1>3 DEF timelock_vars
<1>4. CASE TimelockTick
  BY <1>1, <1>2, <1>4 DEF TimelockTick, CloseLedger
<1>5. CASE \E c \in Proposers \cup Guardians, g \in Guardians : set_guardian_multisig(c, g)
  BY <1>1, <1>2, <1>5 DEF set_guardian_multisig
<1>6. CASE \E a \in Proposers : transfer_admin(a)
  BY <1>1, <1>2, <1>6 DEF transfer_admin
<1> QED BY <1>3, <1>4, <1>5, <1>6, ScheduleStep, ExecuteStep, CancelStep DEF TimelockNext

-----------------------------------------------------------------------------
(* The guardian's limit. The contract keeps a pruned list of the times at  *)
(* which a guardian cancelled; it still has every time that a later period *)
(* can reach, because time only grows.                                     *)

\* How many of the first k times of the list s a period that ends at t reaches.
LateUpTo(s, k, t) == Cardinality({j \in 1 .. k : s[j] + OverridePeriod >= t})

\* How many of all of them.
Late(s, t) == LateUpTo(s, Len(s), t)

LEMMA LateNext ==
  ASSUME NEW s, NEW k \in Nat, NEW t
  PROVE  /\ LateUpTo(s, k, t) \in Nat /\ LateUpTo(s, 0, t) = 0
         /\ s[k + 1] + OverridePeriod >= t => LateUpTo(s, k + 1, t) = LateUpTo(s, k, t) + 1
         /\ ~(s[k + 1] + OverridePeriod >= t) => LateUpTo(s, k + 1, t) = LateUpTo(s, k, t)
<1> DEFINE D(n) == {j \in 1 .. n : s[j] + OverridePeriod >= t}
<1>1. IsFiniteSet(D(k)) /\ k + 1 \notin D(k)
  <2>1. IsFiniteSet(1 .. k)
    BY FS_Interval
  <2>2. D(k) \subseteq 1 .. k
    OBVIOUS
  <2> QED BY <2>1, <2>2, FS_Subset
<1>2. D(0) = {}
  OBVIOUS
<1>3. s[k + 1] + OverridePeriod >= t => D(k + 1) = D(k) \cup {k + 1}
  OBVIOUS
<1>4. ~(s[k + 1] + OverridePeriod >= t) => D(k + 1) = D(k)
  OBVIOUS
<1>5. \A n : LateUpTo(s, n, t) = Cardinality(D(n))
  BY DEF LateUpTo
<1> HIDE DEF D
<1>6. Cardinality(D(k)) \in Nat /\ Cardinality({}) = 0
  BY <1>1, FS_CardinalityType, FS_EmptySet
<1>7. Cardinality(D(k) \cup {k + 1}) = Cardinality(D(k)) + 1
  BY <1>1, FS_AddElement
<1> QED BY <1>2, <1>3, <1>4, <1>5, <1>6, <1>7

LEMMA LateAppend ==
  ASSUME NEW s \in Seq(Nat), NEW x \in Nat, NEW t
  PROVE  /\ Late(s, t) \in Nat
         /\ x + OverridePeriod >= t => Late(Append(s, x), t) = Late(s, t) + 1
         /\ ~(x + OverridePeriod >= t) => Late(Append(s, x), t) = Late(s, t)
<1> PICK n \in Nat : n = Len(s)
  OBVIOUS
<1> PICK q : q = Append(s, x)
  OBVIOUS
<1>1. Len(q) = n + 1 /\ q[n + 1] = x /\ \A j \in 1 .. n : q[j] = s[j]
  OBVIOUS
<1>2. LateUpTo(q, n, t) = LateUpTo(s, n, t)
  <2>1. {j \in 1 .. n : q[j] + OverridePeriod >= t} = {j \in 1 .. n : s[j] + OverridePeriod >= t}
    BY <1>1
  <2> QED BY <2>1 DEF LateUpTo
<1>3. /\ LateUpTo(q, n, t) \in Nat
      /\ x + OverridePeriod >= t => LateUpTo(q, n + 1, t) = LateUpTo(q, n, t) + 1
      /\ ~(x + OverridePeriod >= t) => LateUpTo(q, n + 1, t) = LateUpTo(q, n, t)
  BY <1>1, LateNext
<1> QED BY <1>1, <1>2, <1>3 DEF Late

\* Pruning forgets no time that a period which ends now or later reaches, and keeps no other.
LEMMA RecentKeeps ==
  ASSUME now \in Nat, NEW s \in Seq(Nat)
  PROVE  /\ recent(s) \in Seq(Nat) /\ Len(recent(s)) = Late(s, now)
         /\ \A t \in Nat : t >= now => Late(recent(s), t) = Late(s, t)
<1> PICK m \in Nat : m = now
  OBVIOUS
<1> DEFINE W == {s[i] : i \in Nat}
           V == Seq(W)
           b == << >>
           g == [p \in Nat \X V |->
                   IF s[p[1]] + OverridePeriod >= m THEN Append(p[2], s[p[1]]) ELSE p[2]]
           Is(f) == f = [i \in Nat |->
                           IF i = 0 THEN << >>
                           ELSE IF s[i] + OverridePeriod >= now THEN Append(f[i - 1], s[i])
                           ELSE f[i - 1]]
<1>1. b \in V /\ g \in [Nat \X V -> V]
  <2>1. \A i \in Nat : s[i] \in W
    OBVIOUS
  <2> HIDE DEF W
  <2>2. \A p \in Nat \X V : p[1] \in Nat /\ p[2] \in Seq(W) /\ Append(p[2], s[p[1]]) \in Seq(W)
    BY <2>1
  <2> QED BY <2>2
<1>2. PICK h : IsRecursive(h, V, b, g)
  <2> HIDE DEF V, b, g
  <2> QED BY <1>1, Recursion
<1>3. h \in [Nat -> V] /\ h = [i \in Nat |-> IF i = 0 THEN b ELSE g[<<i, h[i - 1]>>]]
  <2> HIDE DEF V, b, g
  <2> QED BY <1>2 DEF IsRecursive
<1>4. ASSUME NEW i \in Nat, i # 0
      PROVE  g[<<i, h[i - 1]>>] = IF s[i] + OverridePeriod >= now THEN Append(h[i - 1], s[i]) ELSE h[i - 1]
  <2>1. i - 1 \in Nat
    BY <1>4
  <2> HIDE DEF V
  <2>2. <<i, h[i - 1]>> \in Nat \X V
    BY <1>3, <2>1
  <2> QED BY <2>2
<1>5. Is(h)
  <2> HIDE DEF V, g
  <2> QED BY <1>3, <1>4
<1>6. recent(s) = (CHOOSE f : Is(f))[Len(s)]
  BY DEF recent
<1> HIDE DEF Is, V, g, b
<1>7. PICK kept : Is(kept) /\ recent(s) = kept[Len(s)]
  BY <1>5, <1>6
<1>8. /\ kept[0] = << >>
      /\ \A i \in Nat : kept[i + 1] = IF s[i + 1] + OverridePeriod >= now THEN Append(kept[i], s[i + 1])
                                      ELSE kept[i]
  <2>1. kept = [i \in Nat |-> IF i = 0 THEN << >>
                              ELSE IF s[i] + OverridePeriod >= now THEN Append(kept[i - 1], s[i])
                              ELSE kept[i - 1]]
    BY <1>7 DEF Is
  <2>2. kept[0] = << >>
    BY <2>1
  <2>3. ASSUME NEW i \in Nat
        PROVE  kept[i + 1] = IF s[i + 1] + OverridePeriod >= now THEN Append(kept[i], s[i + 1])
                             ELSE kept[i]
    <3> PICK j : j = i + 1
      OBVIOUS
    <3>1. j \in Nat /\ j # 0 /\ j - 1 = i
      OBVIOUS
    <3>2. kept[j] = IF s[j] + OverridePeriod >= now THEN Append(kept[j - 1], s[j]) ELSE kept[j - 1]
      BY <2>1, <3>1
    <3> QED BY <3>1, <3>2
  <2> QED BY <2>2, <2>3
<1> DEFINE Right(i) == /\ kept[i] \in Seq(Nat) /\ Len(kept[i]) = LateUpTo(s, i, now)
                       /\ \A t \in Nat : t >= now => Late(kept[i], t) = LateUpTo(s, i, t)
           T == {i \in Nat : i <= Len(s) => Right(i)}
<1>9. Right(0)
  <2>1. << >> \in Seq(Nat) /\ Len(<< >>) = 0 /\ 0 \in Nat
    OBVIOUS
  <2>2. \A t : LateUpTo(s, 0, t) = 0 /\ LateUpTo(<< >>, 0, t) = 0
    BY <2>1, LateNext
  <2> QED BY <1>8, <2>1, <2>2 DEF Late
<1>10. ASSUME NEW i \in Nat, i + 1 <= Len(s), Right(i) PROVE Right(i + 1)
  <2>1. s[i + 1] \in Nat
    BY <1>10
  <2> PICK x \in Nat : x = s[i + 1]
    BY <2>1
  <2> PICK q \in Seq(Nat) : q = kept[i]
    BY <1>10
  <2>2. /\ Append(q, x) \in Seq(Nat) /\ Len(Append(q, x)) = Len(q) + 1
        /\ Len(q) = LateUpTo(s, i, now)
        /\ \A t \in Nat : t >= now => Late(q, t) = LateUpTo(s, i, t)
    BY <1>10
  <2> HIDE DEF Right
  <2>5. ASSUME NEW t \in Nat
        PROVE  /\ x + OverridePeriod >= t => LateUpTo(s, i + 1, t) = LateUpTo(s, i, t) + 1
               /\ ~(x + OverridePeriod >= t) => LateUpTo(s, i + 1, t) = LateUpTo(s, i, t)
               /\ Late(q, t) \in Nat
               /\ x + OverridePeriod >= t => Late(Append(q, x), t) = Late(q, t) + 1
               /\ ~(x + OverridePeriod >= t) => Late(Append(q, x), t) = Late(q, t)
    <3>1. /\ s[i + 1] + OverridePeriod >= t => LateUpTo(s, i + 1, t) = LateUpTo(s, i, t) + 1
          /\ ~(s[i + 1] + OverridePeriod >= t) => LateUpTo(s, i + 1, t) = LateUpTo(s, i, t)
      BY LateNext
    <3> QED BY <3>1, LateAppend
  <2>3. CASE x + OverridePeriod >= now
    <3>1. kept[i + 1] = Append(q, x)
      BY <1>8, <2>3
    <3>2. LateUpTo(s, i + 1, now) = LateUpTo(s, i, now) + 1
      BY <2>3, <2>5
    <3>3. ASSUME NEW t \in Nat, t >= now PROVE Late(Append(q, x), t) = LateUpTo(s, i + 1, t)
      <4>1. Late(q, t) = LateUpTo(s, i, t)
        BY <2>2, <3>3
      <4>2. CASE x + OverridePeriod >= t
        <5>1. /\ LateUpTo(s, i + 1, t) = LateUpTo(s, i, t) + 1
              /\ Late(Append(q, x), t) = Late(q, t) + 1
          BY <2>5, <4>2
        <5> QED BY <4>1, <5>1
      <4>3. CASE ~(x + OverridePeriod >= t)
        <5>1. /\ LateUpTo(s, i + 1, t) = LateUpTo(s, i, t)
              /\ Late(Append(q, x), t) = Late(q, t)
          BY <2>5, <4>3
        <5> QED BY <4>1, <5>1
      <4> QED BY <4>2, <4>3
    <3>4. Append(q, x) \in Seq(Nat) /\ Len(Append(q, x)) = LateUpTo(s, i + 1, now)
      BY <2>2, <3>2
    <3> QED BY <3>1, <3>3, <3>4 DEF Right
  <2>4. CASE ~(x + OverridePeriod >= now)
    <3>1. kept[i + 1] = q
      BY <1>8, <2>4
    <3>2. ASSUME NEW t \in Nat, t >= now PROVE LateUpTo(s, i + 1, t) = LateUpTo(s, i, t)
      <4>1. ~(x + OverridePeriod >= t)
        BY <2>4, <3>2, GuardianAssumption
      <4> QED BY <2>5, <4>1
    <3>3. LateUpTo(s, i + 1, now) = LateUpTo(s, i, now)
      BY <3>2
    <3>4. q \in Seq(Nat) /\ Len(q) = LateUpTo(s, i + 1, now)
      BY <2>2, <3>3
    <3>5. \A t \in Nat : t >= now => Late(q, t) = LateUpTo(s, i + 1, t)
      BY <2>2, <3>2
    <3> QED BY <3>1, <3>4, <3>5 DEF Right
  <2> QED BY <2>3, <2>4
<1>11. 0 \in T /\ \A i \in Nat : i \in T => i + 1 \in T
  <2> HIDE DEF Right
  <2>1. Len(s) \in Nat
    OBVIOUS
  <2>2. 0 \in T
    BY <1>9
  <2>3. ASSUME NEW i \in Nat, i \in T PROVE i + 1 \in T
    BY <1>10, <2>1, <2>3
  <2> QED BY <2>2, <2>3
<1> HIDE DEF T
<1>12. \A i \in Nat : i \in T
  BY <1>11, NatInduct
<1>13. Right(Len(s))
  <2>1. Len(s) \in Nat /\ Len(s) <= Len(s)
    OBVIOUS
  <2> HIDE DEF Right
  <2> QED BY <1>12, <2>1 DEF T
<1> QED BY <1>7, <1>13 DEF Late

\* How many of the first k audit records in o are of the guardian g and in a period that ends at t.
OverridesUpTo(o, k, g, t) ==
    Cardinality({j \in 1 .. k : o[j].guardian = g /\ o[j].at + OverridePeriod >= t})

\* Whether the audit record r is one of those.
InPeriod(r, g, t) == r.guardian = g /\ r.at + OverridePeriod >= t

Override == [guardian : Guardians, at : Nat]

LEMMA OverridesAppend ==
  ASSUME NEW o \in Seq(Override), NEW r \in Override, NEW g, NEW t
  PROVE  /\ OverridesUpTo(o, Len(o), g, t) \in Nat
         /\ InPeriod(r, g, t) =>
              OverridesUpTo(Append(o, r), Len(o) + 1, g, t) = OverridesUpTo(o, Len(o), g, t) + 1
         /\ ~InPeriod(r, g, t) =>
              OverridesUpTo(Append(o, r), Len(o) + 1, g, t) = OverridesUpTo(o, Len(o), g, t)
<1> PICK n \in Nat : n = Len(o)
  OBVIOUS
<1> PICK q : q = Append(o, r)
  OBVIOUS
<1>1. Len(q) = n + 1 /\ q[n + 1] = r /\ \A j \in 1 .. n : q[j] = o[j]
  OBVIOUS
<1> DEFINE D == {j \in 1 .. n : InPeriod(q[j], g, t)}
           E == {j \in 1 .. n + 1 : InPeriod(q[j], g, t)}
<1>3. OverridesUpTo(o, n, g, t) = Cardinality(D)
  <2>1. \A j \in 1 .. n : InPeriod(q[j], g, t) <=> (o[j].guardian = g /\ o[j].at + OverridePeriod >= t)
    BY <1>1 DEF InPeriod
  <2>2. D = {j \in 1 .. n : o[j].guardian = g /\ o[j].at + OverridePeriod >= t}
    BY <2>1
  <2> QED BY <2>2 DEF OverridesUpTo
<1>4. OverridesUpTo(q, n + 1, g, t) = Cardinality(E)
  BY DEF OverridesUpTo, InPeriod
<1>5. /\ InPeriod(r, g, t) => E = D \cup {n + 1}
      /\ ~InPeriod(r, g, t) => E = D
  <2>1. \A j : j \in 1 .. n + 1 <=> (j \in 1 .. n \/ j = n + 1)
    OBVIOUS
  <2> QED BY <1>1, <2>1
<1>6. IsFiniteSet(D) /\ n + 1 \notin D
  <2>1. IsFiniteSet(1 .. n)
    BY FS_Interval
  <2>2. D \subseteq 1 .. n
    OBVIOUS
  <2> QED BY <2>1, <2>2, FS_Subset
<1> HIDE DEF D, E
<1>7. Cardinality(D) \in Nat /\ Cardinality(D \cup {n + 1}) = Cardinality(D) + 1
  BY <1>6, FS_CardinalityType, FS_AddElement
<1> QED BY <1>3, <1>4, <1>5, <1>7

\* A later record does not change how many of the earlier ones are in a period.
LEMMA OverridesBefore ==
  ASSUME NEW o \in Seq(Override), NEW r \in Override, NEW k \in 1 .. Len(o), NEW g, NEW t
  PROVE  OverridesUpTo(Append(o, r), k, g, t) = OverridesUpTo(o, k, g, t)
<1> PICK q : q = Append(o, r)
  OBVIOUS
<1>1. \A j \in 1 .. k : q[j] = o[j]
  OBVIOUS
<1>2. {j \in 1 .. k : q[j].guardian = g /\ q[j].at + OverridePeriod >= t}
        = {j \in 1 .. k : o[j].guardian = g /\ o[j].at + OverridePeriod >= t}
  BY <1>1
<1> QED BY <1>2 DEF OverridesUpTo

\* The recorded times of each guardian count its cancellations in every period to come.
StampsCount ==
    \A g \in Guardians, t \in Nat :
        t >= now => Late(timestamps[g], t) = OverridesUpTo(overrides, Len(overrides), g, t)

GuardianTypes ==
    /\ now \in Nat
    /\ guardian \in Guardians \cup {NoGuardian}
    /\ timestamps \in [Guardians -> Seq(Nat)]
    /\ overrides \in Seq(Override)

GuardianInv == GuardianTypes /\ StampsCount /\ GuardianIsLimited

\* No guardian has cancelled anything yet.
LEMMA GuardianStarts == TimelockInit => GuardianInv
<1> SUFFICES ASSUME TimelockInit PROVE GuardianInv
  OBVIOUS
<1>1. overrides = << >> /\ Len(<< >>) = 0 /\ << >> \in Seq(Nat) /\ << >> \in Seq(Override)
  BY DEF TimelockInit
<1>2. GuardianTypes
  BY <1>1 DEF TimelockInit, GuardianTypes
<1>3. StampsCount
  <2> SUFFICES ASSUME NEW g \in Guardians, NEW t \in Nat
               PROVE  Late(timestamps[g], t) = OverridesUpTo(overrides, Len(overrides), g, t)
    BY DEF StampsCount
  <2>1. timestamps[g] = << >> /\ 0 \in Nat
    BY DEF TimelockInit
  <2>2. Late(<< >>, t) = 0
    BY <1>1, <2>1, LateNext DEF Late
  <2>3. {j \in 1 .. 0 : << >>[j].guardian = g /\ << >>[j].at + OverridePeriod >= t} = {}
    OBVIOUS
  <2>4. OverridesUpTo(<< >>, 0, g, t) = 0
    BY <2>3, FS_EmptySet DEF OverridesUpTo
  <2> QED BY <1>1, <2>1, <2>2, <2>4
<1>4. GuardianIsLimited
  <2>1. 1 .. Len(overrides) = {}
    BY <1>1
  <2> QED BY <2>1 DEF GuardianIsLimited
<1> QED BY <1>2, <1>3, <1>4 DEF GuardianInv

\* An emergency cancellation is recorded in both lists, and the limit was not yet reached.
LEMMA EmergencyCancelStep ==
  ASSUME GuardianInv, NEW id \in OperationIds, emergency_cancel(id)
  PROVE  GuardianInv'
<1> PICK g \in Guardians : g = guardian
  BY DEF GuardianInv, GuardianTypes, emergency_cancel
<1> PICK m \in Nat : m = now
  BY DEF GuardianInv, GuardianTypes
<1> PICK s \in Seq(Nat) : s = timestamps[g]
  BY DEF GuardianInv, GuardianTypes
<1> PICK p : p = recent(s)
  OBVIOUS
<1> PICK r : r = [guardian |-> g, at |-> m]
  OBVIOUS
<1> PICK n \in Nat : n = Len(overrides)
  BY DEF GuardianInv, GuardianTypes
<1>1. /\ Len(p) < MaxOverrides
      /\ timestamps' = [timestamps EXCEPT ![g] = Append(p, m)]
      /\ overrides' = Append(overrides, r)
      /\ UNCHANGED <<now, guardian>>
  BY DEF emergency_cancel, within_limit, record_guardian_action
<1>2. p \in Seq(Nat) /\ Len(p) = Late(s, m) /\ \A t \in Nat : t >= m => Late(p, t) = Late(s, t)
  BY RecentKeeps
<1>3. r \in Override /\ overrides \in Seq(Override) /\ timestamps \in [Guardians -> Seq(Nat)]
  BY DEF Override, GuardianInv, GuardianTypes
<1>4. /\ overrides' \in Seq(Override) /\ Len(overrides') = n + 1 /\ overrides'[n + 1] = r
      /\ \A k \in 1 .. n : overrides'[k] = overrides[k]
  BY <1>1, <1>3
<1>5. \A h \in Guardians : timestamps'[h] = IF h = g THEN Append(p, m) ELSE timestamps[h]
  BY <1>1, <1>3
<1>6. GuardianTypes'
  <2>1. Append(p, m) \in Seq(Nat)
    BY <1>2
  <2> QED BY <1>1, <1>3, <1>4, <2>1 DEF GuardianInv, GuardianTypes
<1>7. ASSUME NEW h \in Guardians, NEW t \in Nat, t >= m
      PROVE  Late(timestamps'[h], t) = OverridesUpTo(overrides', n + 1, h, t)
  <2>1. Late(timestamps[h], t) = OverridesUpTo(overrides, n, h, t)
    BY <1>7 DEF GuardianInv, StampsCount
  <2>2. InPeriod(r, h, t) <=> (h = g /\ m + OverridePeriod >= t)
    BY DEF InPeriod
  <2>3. /\ OverridesUpTo(overrides, n, h, t) \in Nat
        /\ InPeriod(r, h, t) =>
             OverridesUpTo(overrides', n + 1, h, t) = OverridesUpTo(overrides, n, h, t) + 1
        /\ ~InPeriod(r, h, t) =>
             OverridesUpTo(overrides', n + 1, h, t) = OverridesUpTo(overrides, n, h, t)
    BY <1>1, <1>3, OverridesAppend
  <2>4. CASE h = g
    <3>1. Late(p, t) = Late(timestamps[h], t)
      BY <1>2, <1>7, <2>4
    <3>2. /\ m + OverridePeriod >= t => Late(Append(p, m), t) = Late(p, t) + 1
          /\ ~(m + OverridePeriod >= t) => Late(Append(p, m), t) = Late(p, t)
      BY <1>2, LateAppend
    <3> QED BY <1>5, <2>1, <2>2, <2>3, <2>4, <3>1, <3>2
  <2>5. CASE h # g
    BY <1>5, <2>1, <2>2, <2>3, <2>5
  <2> QED BY <2>4, <2>5
<1>8. StampsCount'
  BY <1>1, <1>4, <1>7 DEF StampsCount
<1>9. GuardianIsLimited'
  <2> SUFFICES ASSUME NEW k \in 1 .. n + 1
               PROVE  OverridesUpTo(overrides', k, overrides'[k].guardian, overrides'[k].at) <= MaxOverrides
    BY <1>4 DEF GuardianIsLimited, RecentOverrides, OverridesUpTo
  <2>1. CASE k = n + 1
    <3>1. overrides'[k].guardian = g /\ overrides'[k].at = m
      BY <1>4, <2>1
    <3>2. OverridesUpTo(overrides', n + 1, g, m) = Late(Append(p, m), m)
      BY <1>5, <1>7
    <3>3. Late(Append(p, m), m) = Late(p, m) + 1 /\ Late(p, m) = Len(p)
      <4>1. m + OverridePeriod >= m
        BY GuardianAssumption
      <4> QED BY <1>2, <4>1, LateAppend
    <3>4. Len(p) \in Nat
      BY <1>2
    <3> QED BY <1>1, <2>1, <3>1, <3>2, <3>3, <3>4, GuardianAssumption
  <2>2. CASE k \in 1 .. n
    <3>1. OverridesUpTo(overrides, k, overrides[k].guardian, overrides[k].at) <= MaxOverrides
      BY <2>2 DEF GuardianInv, GuardianIsLimited, RecentOverrides, OverridesUpTo
    <3>2. overrides'[k] = overrides[k]
      BY <1>4, <2>2
    <3>3. ASSUME NEW h, NEW t
          PROVE  OverridesUpTo(overrides', k, h, t) = OverridesUpTo(overrides, k, h, t)
      <4>1. k \in 1 .. Len(overrides)
        BY <2>2
      <4>2. OverridesUpTo(Append(overrides, r), k, h, t) = OverridesUpTo(overrides, k, h, t)
        BY <1>3, <4>1, OverridesBefore
      <4> QED BY <1>1, <4>2
    <3> QED BY <3>1, <3>2, <3>3
  <2> QED BY <2>1, <2>2
<1> QED BY <1>6, <1>8, <1>9 DEF GuardianInv

\* Every step keeps the guardian's invariant; time only makes periods end later.
LEMMA GuardianStep == GuardianInv /\ [TimelockNext]_timelock_vars => GuardianInv'
<1> SUFFICES ASSUME GuardianInv, [TimelockNext]_timelock_vars PROVE GuardianInv'
  OBVIOUS
<1>1. CASE \E id \in OperationIds : emergency_cancel(id)
  BY <1>1, EmergencyCancelStep
<1>2. CASE /\ UNCHANGED <<timestamps, overrides>> /\ now' \in {now, now + 1}
           /\ guardian' \in Guardians \cup {NoGuardian}
  <2>1. GuardianTypes'
    BY <1>2 DEF GuardianInv, GuardianTypes
  <2>2. \A t \in Nat : t >= now' => t >= now
    BY <1>2 DEF GuardianInv, GuardianTypes
  <2>3. StampsCount'
    BY <1>2, <2>2 DEF GuardianInv, StampsCount
  <2>4. GuardianIsLimited'
    BY <1>2 DEF GuardianInv, GuardianIsLimited, RecentOverrides
  <2> QED BY <2>1, <2>3, <2>4 DEF GuardianInv
<1>3. CASE \E p \in Proposers, d \in Delays : schedule(p, d)
  BY <1>2, <1>3 DEF schedule, GuardianInv, GuardianTypes
<1>4. CASE \E id \in OperationIds : execute(id) \/ \E p \in Proposers : cancel(p, id)
  BY <1>2, <1>4 DEF execute, cancel, GuardianInv, GuardianTypes
<1>5. CASE \E c \in Proposers \cup Guardians, g \in Guardians : set_guardian_multisig(c, g)
  BY <1>2, <1>5 DEF set_guardian_multisig
<1>6. CASE (\E a \in Proposers : transfer_admin(a)) \/ TimelockTick \/ UNCHANGED timelock_vars
  BY <1>2, <1>6 DEF transfer_admin, TimelockTick, CloseLedger, timelock_vars, GuardianInv, GuardianTypes
<1> QED BY <1>1, <1>3, <1>4, <1>5, <1>6 DEF TimelockNext

\* For any delays, tolerance, expiry, limit and period: an operation is executed at most once
\* and never after a cancellation, it was public for the minimum delay and had not expired,
\* and no guardian cancels more often in any period than the limit.
THEOREM OperationsOrderly == TimelockSpec => []OperationsAreOrderly
<1>1. TimelockInv /\ GuardianInv => OperationsAreOrderly
  BY DEF TimelockInv, GuardianInv, OperationsAreOrderly
<1> QED BY <1>1, TimelockStarts, TimelockStep, GuardianStarts, GuardianStep, PTL DEF TimelockSpec

-----------------------------------------------------------------------------
(* The admin multisig.                                                     *)

ActionRecord ==
    [proposer : Council, action : CouncilActions, approval_count : Nat, expiry : Nat,
     executed : BOOLEAN, cancelled : BOOLEAN]

RollbackRecord ==
    [snapshot_id : GovSnapshotIds, approvals : SUBSET EmergencyAddresses, executed : BOOLEAN]

\* The types of the proposals, with one entry of each kind per identifier.
ActionsOK ==
    /\ now \in Nat
    /\ council \subseteq Council
    /\ proposals \in Seq(ActionRecord)
    /\ signed \in Seq(SUBSET Council) /\ Len(signed) = Len(proposals)
    /\ endorsed \in Seq(SUBSET Council) /\ Len(endorsed) = Len(proposals)

\* Identifiers are given without gaps, also after a rollback to any stored snapshot.
NumbersOK ==
    /\ proposal_count \in 0 .. Len(proposals)
    /\ gov_rollbacks \in Seq(RollbackRecord)
    /\ \A s \in GovSnapshotIds :
         gov_snapshots[s] # NoGovSnapshot =>
             gov_snapshots[s].proposal_count \in 0 .. Len(proposals)

\* Whoever signed a proposal is flagged under its identifier.
FlagsCover == \A id \in ActionIds : endorsed[id] \subseteq signed[id]

CouncilInv == ActionsOK /\ NumbersOK /\ FlagsCover /\ CountsOwnSignatures

\* Sets of addresses are finite, and an address that is not in one adds one to its size.
LEMMA CouncilSets ==
  ASSUME NEW S \in SUBSET Council
  PROVE  /\ Cardinality(S) \in Nat
         /\ \A x : x \notin S => Cardinality(S \cup {x}) = Cardinality(S) + 1
<1>1. IsFiniteSet(S)
  BY FS_Subset, CouncilAssumption
<1>2. Cardinality(S) \in Nat
  BY <1>1, FS_CardinalityType
<1>3. \A x : x \notin S => Cardinality(S \cup {x}) = Cardinality(S) + 1
  BY <1>1, FS_AddElement
<1> QED BY <1>2, <1>3

\* What storing an entry under the next or an earlier identifier does to a sequence.
LEMMA Stored ==
  ASSUME NEW T, NEW entries \in Seq(T), NEW e \in T, NEW id \in 1 .. Len(entries) + 1
  PROVE  /\ store(entries, id, e) \in Seq(T)
         /\ Len(store(entries, id, e)) = IF id = Len(entries) + 1 THEN id ELSE Len(entries)
         /\ store(entries, id, e)[id] = e
         /\ \A i \in 1 .. Len(entries) : i # id => store(entries, id, e)[i] = entries[i]
<1>1. CASE id \in 1 .. Len(entries)
  <2>1. store(entries, id, e) = [entries EXCEPT ![id] = e]
    BY <1>1 DEF store
  <2> QED BY <1>1, <2>1
<1>2. CASE id = Len(entries) + 1
  <2>1. store(entries, id, e) = Append(entries, e)
    BY <1>2 DEF store
  <2> QED BY <1>2, <2>1
<1> QED BY <1>1, <1>2

\* The same for a sequence of sets of addresses.
LEMMA StoredSet ==
  ASSUME NEW entries \in Seq(SUBSET Council), NEW e \in SUBSET Council,
         NEW id \in 1 .. Len(entries) + 1
  PROVE  /\ store(entries, id, e) \in Seq(SUBSET Council)
         /\ Len(store(entries, id, e)) = IF id = Len(entries) + 1 THEN id ELSE Len(entries)
         /\ store(entries, id, e)[id] = e
         /\ \A i \in 1 .. Len(entries) : i # id => store(entries, id, e)[i] = entries[i]
<1> DEFINE T == SUBSET Council
<1>1. entries \in Seq(T) /\ e \in T
  OBVIOUS
<1> HIDE DEF T
<1>2. /\ store(entries, id, e) \in Seq(T)
      /\ Len(store(entries, id, e)) = IF id = Len(entries) + 1 THEN id ELSE Len(entries)
      /\ store(entries, id, e)[id] = e
      /\ \A i \in 1 .. Len(entries) : i # id => store(entries, id, e)[i] = entries[i]
  BY <1>1, Stored
<1> QED BY <1>2 DEF T

\* The state after `initialize' satisfies the invariant.
LEMMA CouncilStarts == CouncilInit => CouncilInv
<1> SUFFICES ASSUME CouncilInit PROVE CouncilInv
  OBVIOUS
<1>1. ActionsOK
  BY CouncilAssumption DEF CouncilInit, ActionsOK
<1>2. NumbersOK
  BY DEF CouncilInit, NumbersOK
<1>3. FlagsCover /\ CountsOwnSignatures
  BY DEF CouncilInit, FlagsCover, CountsOwnSignatures, ActionIds
<1> QED BY <1>1, <1>2, <1>3 DEF CouncilInv

\* A proposal, under a new or a used identifier, starts with the proposer's signature alone.
LEMMA ProposeActionStep ==
  ASSUME CouncilInv, NEW p \in Council, NEW a \in CouncilActions, propose_action(p, a)
  PROVE  CouncilInv'
<1> DEFINE id == proposal_count + 1
           r == ProposalRecord(p, a, 1)
           f == flags(id) \cup {p}
<1>1. /\ proposals \in Seq(ActionRecord) /\ signed \in Seq(SUBSET Council)
      /\ endorsed \in Seq(SUBSET Council) /\ Len(signed) = Len(proposals)
      /\ Len(endorsed) = Len(proposals) /\ Len(proposals) \in Nat
  BY DEF CouncilInv, ActionsOK
<1>2. id \in 1 .. Len(proposals) + 1
  BY <1>1 DEF CouncilInv, NumbersOK
<1>3. r \in ActionRecord /\ r.approval_count = 1
  BY CouncilAssumption DEF ProposalRecord, ActionRecord, CouncilInv, ActionsOK
<1>4. f \in SUBSET Council /\ {p} \in SUBSET Council /\ {p} \subseteq f
  BY <1>1 DEF flags
<1>5. /\ proposals' = store(proposals, id, r)
      /\ signed' = store(signed, id, f)
      /\ endorsed' = store(endorsed, id, {p})
      /\ proposal_count' = id
      /\ UNCHANGED <<now, council, gov_snapshots, gov_rollbacks>>
  BY DEF propose_action, config_vars, recovery_vars
<1> HIDE DEF id, r, f
<1> DEFINE n == IF id = Len(proposals) + 1 THEN id ELSE Len(proposals)
<1>6. /\ proposals' \in Seq(ActionRecord) /\ Len(proposals') = n /\ proposals'[id] = r
      /\ \A i \in 1 .. Len(proposals) : i # id => proposals'[i] = proposals[i]
  BY <1>1, <1>2, <1>3, <1>5, Stored
<1>7. /\ signed' \in Seq(SUBSET Council) /\ Len(signed') = n /\ signed'[id] = f
      /\ \A i \in 1 .. Len(proposals) : i # id => signed'[i] = signed[i]
  <2>1. id \in 1 .. Len(signed) + 1
    BY <1>1, <1>2
  <2> QED BY <1>1, <1>4, <1>5, <2>1, StoredSet
<1>8. /\ endorsed' \in Seq(SUBSET Council) /\ Len(endorsed') = n /\ endorsed'[id] = {p}
      /\ \A i \in 1 .. Len(proposals) : i # id => endorsed'[i] = endorsed[i]
  <2>1. id \in 1 .. Len(endorsed) + 1
    BY <1>1, <1>2
  <2> QED BY <1>1, <1>4, <1>5, <2>1, StoredSet
<1>9. n \in Nat /\ id \in 1 .. n /\ Len(proposals) <= n
  BY <1>1, <1>2
<1>10. \A i \in 1 .. n : i = id \/ i \in 1 .. Len(proposals)
  BY <1>1, <1>2
<1> HIDE DEF n
<1>11. ActionsOK'
  BY <1>5, <1>6, <1>7, <1>8 DEF CouncilInv, ActionsOK
<1>12. NumbersOK'
  <2>1. proposal_count' \in 0 .. Len(proposals') /\ gov_rollbacks' \in Seq(RollbackRecord)
    BY <1>5, <1>6, <1>9 DEF CouncilInv, NumbersOK
  <2>2. ASSUME NEW s \in GovSnapshotIds, gov_snapshots'[s] # NoGovSnapshot
        PROVE  gov_snapshots'[s].proposal_count \in 0 .. Len(proposals')
    <3>1. gov_snapshots[s].proposal_count \in 0 .. Len(proposals)
      BY <1>5, <2>2 DEF CouncilInv, NumbersOK
    <3> QED BY <1>1, <1>5, <1>6, <1>9, <3>1
  <2> QED BY <2>1, <2>2 DEF NumbersOK
<1>13. FlagsCover'
  <2> SUFFICES ASSUME NEW i \in 1 .. n PROVE endorsed'[i] \subseteq signed'[i]
    BY <1>6 DEF FlagsCover, ActionIds
  <2>1. CASE i = id
    BY <1>4, <1>7, <1>8, <2>1
  <2>2. CASE i # id
    BY <1>7, <1>8, <1>10, <2>2 DEF CouncilInv, FlagsCover, ActionIds
  <2> QED BY <2>1, <2>2
<1>14. CountsOwnSignatures'
  <2> SUFFICES ASSUME NEW i \in 1 .. n
               PROVE  proposals'[i].approval_count = Cardinality(endorsed'[i])
    BY <1>6 DEF CountsOwnSignatures, ActionIds
  <2>1. CASE i = id
    <3>1. Cardinality({p}) = 1
      BY FS_Singleton
    <3> QED BY <1>3, <1>6, <1>8, <2>1, <3>1
  <2>2. CASE i # id
    BY <1>6, <1>8, <1>10, <2>2 DEF CouncilInv, CountsOwnSignatures, ActionIds
  <2> QED BY <2>1, <2>2
<1> QED BY <1>11, <1>12, <1>13, <1>14 DEF CouncilInv

\* The proposals after one field of one of them was changed.
WithApprovalCount(id, n) == [proposals EXCEPT ![id].approval_count = n]
WithExecuted(id) == [proposals EXCEPT ![id].executed = TRUE]
WithCancelled(id) == [proposals EXCEPT ![id].cancelled = TRUE]

\* A changed approval count is that of the one proposal, and nothing is executed by it.
LEMMA CountUpdate ==
  ASSUME ActionsOK, NEW id \in ActionIds, NEW n \in Nat
  PROVE  /\ WithApprovalCount(id, n) \in Seq(ActionRecord)
         /\ Len(WithApprovalCount(id, n)) = Len(proposals)
         /\ \A i \in ActionIds :
              /\ WithApprovalCount(id, n)[i].approval_count =
                   IF i = id THEN n ELSE proposals[i].approval_count
              /\ WithApprovalCount(id, n)[i].executed = proposals[i].executed
              /\ WithApprovalCount(id, n)[i].cancelled = proposals[i].cancelled
<1>1. proposals[id] \in ActionRecord
  BY DEF ActionsOK, ActionIds
<1>2. [proposals[id] EXCEPT !.approval_count = n] \in ActionRecord
  BY <1>1 DEF ActionRecord
<1>3. /\ [proposals[id] EXCEPT !.approval_count = n].approval_count = n
      /\ [proposals[id] EXCEPT !.approval_count = n].executed = proposals[id].executed
      /\ [proposals[id] EXCEPT !.approval_count = n].cancelled = proposals[id].cancelled
  BY <1>1 DEF ActionRecord
<1> QED BY <1>2, <1>3 DEF ActionsOK, ActionIds, WithApprovalCount

\* An execution changes one proposal and no approval count.
LEMMA ExecutedUpdate ==
  ASSUME ActionsOK, NEW id \in ActionIds
  PROVE  /\ WithExecuted(id) \in Seq(ActionRecord)
         /\ Len(WithExecuted(id)) = Len(proposals)
         /\ \A i \in ActionIds : WithExecuted(id)[i].approval_count = proposals[i].approval_count
         /\ \A i \in ActionIds : i # id => WithExecuted(id)[i] = proposals[i]
         /\ WithExecuted(id)[id].executed
<1>1. proposals[id] \in ActionRecord
  BY DEF ActionsOK, ActionIds
<1>2. [proposals[id] EXCEPT !.executed = TRUE] \in ActionRecord
  BY <1>1 DEF ActionRecord
<1>3. /\ [proposals[id] EXCEPT !.executed = TRUE].approval_count = proposals[id].approval_count
      /\ [proposals[id] EXCEPT !.executed = TRUE].executed
  BY <1>1 DEF ActionRecord
<1> QED BY <1>2, <1>3 DEF ActionsOK, ActionIds, WithExecuted

\* A cancellation changes neither approval counts nor executions.
LEMMA CancelledUpdate ==
  ASSUME ActionsOK, NEW id \in ActionIds
  PROVE  /\ WithCancelled(id) \in Seq(ActionRecord)
         /\ Len(WithCancelled(id)) = Len(proposals)
         /\ \A i \in ActionIds :
              /\ WithCancelled(id)[i].approval_count = proposals[i].approval_count
              /\ WithCancelled(id)[i].executed = proposals[i].executed
         /\ \A i \in ActionIds : i # id => WithCancelled(id)[i] = proposals[i]
         /\ WithCancelled(id)[id].cancelled
<1>1. proposals[id] \in ActionRecord
  BY DEF ActionsOK, ActionIds
<1>2. [proposals[id] EXCEPT !.cancelled = TRUE] \in ActionRecord
  BY <1>1 DEF ActionRecord
<1>3. /\ [proposals[id] EXCEPT !.cancelled = TRUE].approval_count = proposals[id].approval_count
      /\ [proposals[id] EXCEPT !.cancelled = TRUE].executed = proposals[id].executed
      /\ [proposals[id] EXCEPT !.cancelled = TRUE].cancelled
  BY <1>1 DEF ActionRecord
<1> QED BY <1>2, <1>3 DEF ActionsOK, ActionIds, WithCancelled

\* A signature adds an address that had not signed the proposal, and counts it.
LEMMA SignStep ==
  ASSUME CouncilInv, NEW id \in ActionIds, NEW c \in Council, sign_action(c, id)
  PROVE  CouncilInv'
<1> DEFINE n == proposals[id].approval_count + 1
<1>1. ActionsOK
  BY DEF CouncilInv
<1>2. proposals[id] \in ActionRecord /\ endorsed[id] \in SUBSET Council
  BY <1>1 DEF ActionsOK, ActionIds
<1>3. c \notin endorsed[id]
  BY DEF sign_action, CouncilInv, FlagsCover
<1>4. n \in Nat /\ n = Cardinality(endorsed[id] \cup {c})
  <2>1. proposals[id].approval_count = Cardinality(endorsed[id])
    BY DEF CouncilInv, CountsOwnSignatures
  <2> QED BY <1>2, <1>3, <2>1, CouncilSets
<1>5. /\ proposals' = WithApprovalCount(id, n)
      /\ signed' = [signed EXCEPT ![id] = signed[id] \cup {c}]
      /\ endorsed' = [endorsed EXCEPT ![id] = endorsed[id] \cup {c}]
      /\ UNCHANGED <<now, council, proposal_count, gov_snapshots, gov_rollbacks>>
  BY DEF sign_action, WithApprovalCount, config_vars, recovery_vars
<1> HIDE DEF n
<1>6. /\ proposals' \in Seq(ActionRecord) /\ Len(proposals') = Len(proposals)
      /\ \A i \in ActionIds :
           proposals'[i].approval_count = IF i = id THEN n ELSE proposals[i].approval_count
  <2> DEFINE w == WithApprovalCount(id, n)
  <2>1. /\ w \in Seq(ActionRecord) /\ Len(w) = Len(proposals)
        /\ \A i \in ActionIds :
             w[i].approval_count = IF i = id THEN n ELSE proposals[i].approval_count
    BY <1>1, <1>4, CountUpdate
  <2> QED BY <1>5, <2>1
<1>7. /\ signed' \in Seq(SUBSET Council) /\ Len(signed') = Len(signed)
      /\ \A i \in ActionIds : signed'[i] = IF i = id THEN signed[id] \cup {c} ELSE signed[i]
  BY <1>1, <1>5 DEF ActionsOK, ActionIds
<1>8. /\ endorsed' \in Seq(SUBSET Council) /\ Len(endorsed') = Len(endorsed)
      /\ \A i \in ActionIds :
           endorsed'[i] = IF i = id THEN endorsed[id] \cup {c} ELSE endorsed[i]
  BY <1>1, <1>5 DEF ActionsOK, ActionIds
<1>9. ActionsOK'
  BY <1>1, <1>5, <1>6, <1>7, <1>8 DEF ActionsOK
<1>10. NumbersOK'
  BY <1>5, <1>6 DEF CouncilInv, NumbersOK
<1>11. FlagsCover'
  BY <1>6, <1>7, <1>8 DEF CouncilInv, FlagsCover, ActionIds
<1>12. CountsOwnSignatures'
  BY <1>4, <1>6, <1>8 DEF CouncilInv, CountsOwnSignatures, ActionIds
<1> QED BY <1>9, <1>10, <1>11, <1>12 DEF CouncilInv

\* Whatever an executed action does, the signers remain addresses.
LEMMA DispatchKeepsCouncil ==
  ASSUME ActionsOK, NEW a \in CouncilActions, dispatch(a)
  PROVE  council' \subseteq Council
<1>1. CASE a.fn = "add_signer" /\ apply_add_signer(a.arg)
  BY <1>1, ActionsAssumption DEF apply_add_signer, ActionsOK
<1>2. CASE a.fn = "remove_signer" /\ apply_remove_signer(a.arg)
  BY <1>2 DEF apply_remove_signer, ActionsOK
<1>3. CASE a.fn = "update_threshold" /\ apply_update_threshold(a.arg)
  BY <1>3 DEF apply_update_threshold, ActionsOK
<1>4. CASE a.fn = "invoke_contract" /\ UNCHANGED config_vars
  BY <1>4 DEF config_vars, ActionsOK
<1> QED BY <1>1, <1>2, <1>3, <1>4 DEF dispatch

\* Executing or cancelling a proposal keeps its signatures.
LEMMA CloseActionStep ==
  ASSUME CouncilInv, NEW id \in ActionIds,
         execute_action(id) \/ \E c \in Council : cancel_action(c, id)
  PROVE  CouncilInv'
<1>1. ActionsOK
  BY DEF CouncilInv
<1>2. /\ proposals' \in Seq(ActionRecord) /\ Len(proposals') = Len(proposals)
      /\ \A i \in ActionIds : proposals'[i].approval_count = proposals[i].approval_count
  <2>1. proposals' = WithExecuted(id) \/ proposals' = WithCancelled(id)
    BY DEF execute_action, cancel_action, WithExecuted, WithCancelled
  <2>2. CASE proposals' = WithExecuted(id)
    BY <1>1, <2>2, ExecutedUpdate
  <2>3. CASE proposals' = WithCancelled(id)
    BY <1>1, <2>3, CancelledUpdate
  <2> QED BY <2>1, <2>2, <2>3
<1>3. UNCHANGED <<now, proposal_count, signed, endorsed, gov_snapshots, gov_rollbacks>>
  BY DEF execute_action, cancel_action, recovery_vars
<1>4. council' \subseteq Council
  <2>1. CASE execute_action(id)
    <3>1. proposals[id] \in ActionRecord
      BY <1>1 DEF ActionsOK, ActionIds
    <3>2. proposals[id].action \in CouncilActions
      BY <3>1 DEF ActionRecord
    <3> QED BY <1>1, <2>1, <3>2, DispatchKeepsCouncil DEF execute_action
  <2>2. CASE \E c \in Council : cancel_action(c, id)
    BY <1>1, <2>2 DEF cancel_action, config_vars, ActionsOK
  <2> QED BY <2>1, <2>2
<1>5. ActionsOK'
  BY <1>1, <1>2, <1>3, <1>4 DEF ActionsOK
<1>6. NumbersOK'
  BY <1>2, <1>3 DEF CouncilInv, NumbersOK
<1>7. FlagsCover' /\ CountsOwnSignatures'
  BY <1>2, <1>3 DEF CouncilInv, FlagsCover, CountsOwnSignatures, ActionIds
<1> QED BY <1>5, <1>6, <1>7 DEF CouncilInv

\* Snapshots, emergency signers, rollbacks and the clock touch no proposal, and a rollback
\* sets the counter back to an identifier that was given.
LEMMA RecoveryStep ==
  ASSUME CouncilInv,
         \/ \E c \in Council, S \in SUBSET EmergencyAddresses : set_emergency_signers(c, S)
         \/ \E c \in Council, sid \in GovSnapshotIds : snapshot_state(c, sid)
         \/ \E g \in EmergencyAddresses, sid \in GovSnapshotIds :
              propose_emergency_rollback(g, sid)
         \/ \E g \in EmergencyAddresses, k \in 1 .. Len(gov_rollbacks) :
              approve_emergency_rollback(g, k)
         \/ \E k \in 1 .. Len(gov_rollbacks) : execute_emergency_rollback(k)
         \/ CouncilTick
  PROVE  CouncilInv'
<1>1. UNCHANGED <<council, proposals, signed, endorsed>>
  BY DEF set_emergency_signers, snapshot_state, propose_emergency_rollback,
         approve_emergency_rollback, execute_emergency_rollback, CouncilTick,
         config_vars, action_vars
<1>2. now' \in {now, now + 1}
  BY DEF set_emergency_signers, snapshot_state, propose_emergency_rollback,
         approve_emergency_rollback, execute_emergency_rollback, CouncilTick, CloseLedger
<1>3. ActionsOK' /\ FlagsCover' /\ CountsOwnSignatures'
  BY <1>1, <1>2 DEF CouncilInv, ActionsOK, FlagsCover, CountsOwnSignatures, ActionIds
<1>4. NumbersOK'
  <2>1. CASE \/ \E c \in Council, S \in SUBSET EmergencyAddresses : set_emergency_signers(c, S)
             \/ CouncilTick
    BY <1>1, <2>1 DEF set_emergency_signers, CouncilTick, action_vars, recovery_vars,
                      CouncilInv, NumbersOK
  <2>2. ASSUME NEW c \in Council, NEW sid \in GovSnapshotIds, snapshot_state(c, sid)
        PROVE  NumbersOK'
    <3>1. UNCHANGED <<proposal_count, proposals, gov_rollbacks>>
      BY <2>2 DEF snapshot_state, action_vars
    <3>2. \A s \in GovSnapshotIds :
            gov_snapshots'[s] \in {GovConfigSnapshot, NoGovSnapshot, gov_snapshots[s]}
      BY <2>2 DEF snapshot_state
    <3>3. GovConfigSnapshot.proposal_count = proposal_count
      BY DEF GovConfigSnapshot
    <3> QED BY <3>1, <3>2, <3>3 DEF CouncilInv, NumbersOK
  <2>3. ASSUME NEW g \in EmergencyAddresses, NEW sid \in GovSnapshotIds,
               propose_emergency_rollback(g, sid)
        PROVE  NumbersOK'
    <3> DEFINE r == [snapshot_id |-> sid, approvals |-> {g}, executed |-> FALSE]
    <3>1. r \in RollbackRecord
      BY DEF RollbackRecord
    <3>2. /\ gov_rollbacks' = Append(gov_rollbacks, r)
          /\ UNCHANGED <<proposal_count, proposals, gov_snapshots>>
      BY <2>3 DEF propose_emergency_rollback, action_vars
    <3> HIDE DEF r
    <3> QED BY <3>1, <3>2 DEF CouncilInv, NumbersOK
  <2>4. ASSUME NEW g \in EmergencyAddresses, NEW k \in 1 .. Len(gov_rollbacks),
               approve_emergency_rollback(g, k)
        PROVE  NumbersOK'
    <3> DEFINE r == [gov_rollbacks[k] EXCEPT !.approvals = gov_rollbacks[k].approvals \cup {g}]
    <3>1. gov_rollbacks[k] \in RollbackRecord
      BY DEF CouncilInv, NumbersOK
    <3>2. r \in RollbackRecord
      BY <3>1 DEF RollbackRecord
    <3>3. /\ gov_rollbacks' = [gov_rollbacks EXCEPT ![k] = r]
          /\ UNCHANGED <<proposal_count, proposals, gov_snapshots>>
      BY <2>4 DEF approve_emergency_rollback, action_vars
    <3> HIDE DEF r
    <3> QED BY <3>2, <3>3 DEF CouncilInv, NumbersOK
  <2>5. ASSUME NEW k \in 1 .. Len(gov_rollbacks), execute_emergency_rollback(k)
        PROVE  NumbersOK'
    <3> DEFINE r == [gov_rollbacks[k] EXCEPT !.executed = TRUE]
               s == gov_rollbacks[k].snapshot_id
    <3>1. gov_rollbacks[k] \in RollbackRecord
      BY DEF CouncilInv, NumbersOK
    <3>2. r \in RollbackRecord /\ s \in GovSnapshotIds
      BY <3>1 DEF RollbackRecord
    <3>3. /\ gov_rollbacks' = [gov_rollbacks EXCEPT ![k] = r]
          /\ gov_snapshots[s] # NoGovSnapshot
          /\ proposal_count' = gov_snapshots[s].proposal_count
          /\ UNCHANGED <<proposals, gov_snapshots>>
      BY <2>5 DEF execute_emergency_rollback
    <3> HIDE DEF r, s
    <3> QED BY <3>2, <3>3 DEF CouncilInv, NumbersOK
  <2> QED BY <2>1, <2>2, <2>3, <2>4, <2>5
<1> QED BY <1>3, <1>4 DEF CouncilInv

\* Every step preserves the invariant.
LEMMA CouncilStep == CouncilInv /\ [CouncilNext]_council_vars => CouncilInv'
<1> SUFFICES ASSUME CouncilInv, [CouncilNext]_council_vars PROVE CouncilInv'
  OBVIOUS
<1>1. CASE \E p \in Council, a \in CouncilActions : propose_action(p, a)
  BY <1>1, ProposeActionStep
<1>2. CASE \E id \in ActionIds : \E c \in Council : sign_action(c, id)
  BY <1>2, SignStep
<1>3. CASE \E id \in ActionIds : execute_action(id) \/ \E c \in Council : cancel_action(c, id)
  BY <1>3, CloseActionStep
<1>4. CASE \/ \E c \in Council, S \in SUBSET EmergencyAddresses : set_emergency_signers(c, S)
           \/ \E c \in Council, sid \in GovSnapshotIds : snapshot_state(c, sid)
           \/ \E g \in EmergencyAddresses, sid \in GovSnapshotIds :
                propose_emergency_rollback(g, sid)
           \/ \E g \in EmergencyAddresses, k \in 1 .. Len(gov_rollbacks) :
                approve_emergency_rollback(g, k)
           \/ \E k \in 1 .. Len(gov_rollbacks) : execute_emergency_rollback(k)
           \/ CouncilTick
  BY <1>4, RecoveryStep
<1>5. CASE UNCHANGED council_vars
  BY <1>5 DEF council_vars, config_vars, action_vars, recovery_vars, CouncilInv, ActionsOK,
              NumbersOK, FlagsCover, CountsOwnSignatures, ActionIds
<1> QED BY <1>1, <1>2, <1>3, <1>4, <1>5 DEF CouncilNext

\* The approvals a proposal carries are the distinct addresses that signed that very
\* proposal, also when a rollback lets its identifier be given a second time.
THEOREM OwnSignatures == CouncilSpec => []CountsOwnSignatures
<1>1. CouncilInv => CountsOwnSignatures
  BY DEF CouncilInv
<1> QED BY CouncilStarts, CouncilStep, <1>1, PTL DEF CouncilSpec

\* Only an execution makes an executed proposal or changes the signers.
LEMMA OthersExecuteNothing ==
  ASSUME CouncilInv, CouncilNext, \A id \in ActionIds : ~execute_action(id)
  PROVE  /\ \A i \in ActionIds : proposals'[i].executed => proposals[i].executed
         /\ council' = council
<1>1. ActionsOK
  BY DEF CouncilInv
<1>2. CASE UNCHANGED <<council, proposals>>
  BY <1>2
<1>3. ASSUME NEW p \in Council, NEW a \in CouncilActions, propose_action(p, a)
      PROVE  /\ \A i \in ActionIds : proposals'[i].executed => proposals[i].executed
             /\ council' = council
  <2> DEFINE n == proposal_count + 1
             r == ProposalRecord(p, a, 1)
  <2>1. r \in ActionRecord /\ r.executed = FALSE
    BY <1>1, CouncilAssumption DEF ProposalRecord, ActionRecord, ActionsOK
  <2>2. n \in 1 .. Len(proposals) + 1 /\ proposals \in Seq(ActionRecord)
    BY <1>1 DEF CouncilInv, NumbersOK, ActionsOK
  <2>3. proposals' = store(proposals, n, r) /\ council' = council
    BY <1>3 DEF propose_action, config_vars
  <2> HIDE DEF n, r
  <2>4. /\ proposals'[n] = r
        /\ \A i \in 1 .. Len(proposals) : i # n => proposals'[i] = proposals[i]
    <3>1. /\ store(proposals, n, r)[n] = r
          /\ \A i \in 1 .. Len(proposals) : i # n => store(proposals, n, r)[i] = proposals[i]
      BY <2>1, <2>2, Stored
    <3> QED BY <2>3, <3>1
  <2>5. ~proposals'[n].executed
    BY <2>1, <2>4
  <2> QED BY <2>3, <2>4, <2>5 DEF ActionIds
<1>4. ASSUME NEW id \in ActionIds, NEW c \in Council, sign_action(c, id)
      PROVE  /\ \A i \in ActionIds : proposals'[i].executed => proposals[i].executed
             /\ council' = council
  <2> proposals[id] \in ActionRecord
    BY <1>1 DEF ActionsOK, ActionIds
  <2>1. proposals[id].approval_count + 1 \in Nat
    BY DEF ActionRecord
  <2>2. /\ proposals' = WithApprovalCount(id, proposals[id].approval_count + 1)
        /\ council' = council
    BY <1>4 DEF sign_action, WithApprovalCount, config_vars
  <2> QED BY <1>1, <2>1, <2>2, CountUpdate
<1>5. ASSUME NEW id \in ActionIds, NEW c \in Council, cancel_action(c, id)
      PROVE  /\ \A i \in ActionIds : proposals'[i].executed => proposals[i].executed
             /\ council' = council
  <2>1. proposals' = WithCancelled(id) /\ council' = council
    BY <1>5 DEF cancel_action, WithCancelled, config_vars
  <2> QED BY <1>1, <2>1, CancelledUpdate
<1>6. \/ UNCHANGED <<council, proposals>>
      \/ \E p \in Council, a \in CouncilActions : propose_action(p, a)
      \/ \E id \in ActionIds, c \in Council : sign_action(c, id) \/ cancel_action(c, id)
  BY DEF CouncilNext, set_emergency_signers, snapshot_state, propose_emergency_rollback,
         approve_emergency_rollback, execute_emergency_rollback, CouncilTick,
         config_vars, action_vars
<1> QED BY <1>2, <1>3, <1>4, <1>5, <1>6

\* An action takes effect, and the signers change, only by executing an open, unexpired
\* proposal signed by as many distinct addresses as the threshold then demands, for any
\* history of signer changes, threshold changes and rollbacks.
THEOREM ActionsApproved == CouncilSpec => ActionsAreApproved
<1> DEFINE A == /\ \A id \in ActionIds :
                     (proposals'[id].executed /\ ~proposals[id].executed) =>
                         /\ ~proposals[id].cancelled /\ now <= proposals[id].expiry
                         /\ Cardinality(endorsed[id]) >= council_threshold
                /\ council' # council =>
                     \E id \in ActionIds : proposals'[id].executed /\ ~proposals[id].executed
<1>1. CouncilInv /\ [CouncilNext]_council_vars => [A]_council_vars
  <2> SUFFICES ASSUME CouncilInv, CouncilNext PROVE A
    OBVIOUS
  <2>1. CASE \A id \in ActionIds : ~execute_action(id)
    BY <2>1, OthersExecuteNothing
  <2>2. ASSUME NEW j \in ActionIds, execute_action(j)
        PROVE  A
    <3>1. ActionsOK /\ proposals' = WithExecuted(j)
      BY <2>2 DEF CouncilInv, execute_action, WithExecuted
    <3>2. \A i \in ActionIds : i # j => proposals'[i] = proposals[i]
      BY <3>1, ExecutedUpdate
    <3>3. /\ ~proposals[j].executed /\ ~proposals[j].cancelled
          /\ now <= proposals[j].expiry /\ proposals[j].approval_count >= council_threshold
      BY <2>2 DEF execute_action, approved_and_alive, alive, open
    <3>4. Cardinality(endorsed[j]) >= council_threshold
      BY <3>3 DEF CouncilInv, CountsOwnSignatures
    <3>5. proposals'[j].executed
      <4>1. proposals[j] \in ActionRecord
        BY <3>1 DEF ActionsOK, ActionIds
      <4>2. [proposals[j] EXCEPT !.executed = TRUE].executed
        BY <4>1 DEF ActionRecord
      <4> DEFINE r == [proposals[j] EXCEPT !.executed = TRUE]
      <4>3. proposals' = [proposals EXCEPT ![j] = r]
        BY <3>1 DEF WithExecuted
      <4> HIDE DEF r
      <4>4. proposals'[j] = r
        BY <3>1, <4>3 DEF ActionsOK, ActionIds
      <4> QED BY <4>2, <4>4 DEF r
    <3>6. ASSUME NEW id \in ActionIds, proposals'[id].executed /\ ~proposals[id].executed
          PROVE  id = j
      BY <3>2, <3>6
    <3> QED BY <3>3, <3>4, <3>5, <3>6
  <2> QED BY <2>1, <2>2
<1> QED BY <1>1, CouncilStarts, CouncilStep, PTL DEF CouncilSpec, ActionsAreApproved

-----------------------------------------------------------------------------
(* The counters of the admin multisig.                                     *)

NoRollbackYet == \A k \in 1 .. Len(gov_rollbacks) : ~gov_rollbacks[k].executed

SignersCounted == council_count = Cardinality(council) /\ council_threshold \in 1 .. council_count

ActionsCounted == proposal_count = Len(proposals) /\ active_count = Cardinality(OpenActions)

\* The signers' counter stays exact, and the threshold within reach, whatever an action does.
LEMMA DispatchKeepsCount ==
  ASSUME ActionsOK, SignersCounted, NEW a \in CouncilActions, dispatch(a)
  PROVE  SignersCounted'
<1>1. council \in SUBSET Council /\ IsFiniteSet(council)
  BY FS_Subset, CouncilAssumption DEF ActionsOK
<1>2. Cardinality(council) \in Nat
  BY <1>1, FS_CardinalityType
<1>3. CASE a.fn = "add_signer" /\ apply_add_signer(a.arg)
  <2>1. Cardinality(council \cup {a.arg}) = Cardinality(council) + 1
    BY <1>1, <1>3, FS_AddElement DEF apply_add_signer
  <2> QED BY <1>2, <1>3, <2>1 DEF apply_add_signer, SignersCounted
<1>4. CASE a.fn = "remove_signer" /\ apply_remove_signer(a.arg)
  <2>1. Cardinality(council \ {a.arg}) = Cardinality(council) - 1
    BY <1>1, <1>4, FS_RemoveElement DEF apply_remove_signer
  <2> QED BY <1>2, <1>4, <2>1 DEF apply_remove_signer, SignersCounted
<1>5. CASE a.fn = "update_threshold" /\ apply_update_threshold(a.arg)
  BY <1>5 DEF apply_update_threshold, SignersCounted
<1>6. CASE a.fn = "invoke_contract" /\ UNCHANGED config_vars
  BY <1>6 DEF config_vars, SignersCounted
<1> QED BY <1>3, <1>4, <1>5, <1>6 DEF dispatch

\* The open actions are finitely many.
LEMMA OpenIsFinite ==
  ASSUME ActionsOK
  PROVE  IsFiniteSet(OpenActions) /\ Cardinality(OpenActions) \in Nat
<1>1. IsFiniteSet(ActionIds) /\ OpenActions \subseteq ActionIds
  <2>1. Len(proposals) \in Nat
    BY DEF ActionsOK
  <2> QED BY <2>1, FS_Interval DEF ActionIds, OpenActions
<1> QED BY <1>1, FS_Subset, FS_CardinalityType

\* A proposal under a new identifier is one more open action.
LEMMA ProposeCounts ==
  ASSUME CouncilInv, ActionsCounted, SignersCounted, NEW p \in Council, NEW a \in CouncilActions,
         propose_action(p, a)
  PROVE  ActionsCounted' /\ SignersCounted'
<1> PICK n \in Nat : n = Len(proposals)
  BY DEF CouncilInv, ActionsOK
<1> PICK r : r = ProposalRecord(p, a, 1)
  OBVIOUS
<1>1. ActionsOK /\ proposals \in Seq(ActionRecord)
  BY DEF CouncilInv, ActionsOK
<1>2. r \in ActionRecord /\ ~r.executed /\ ~r.cancelled
  BY <1>1, CouncilAssumption DEF ProposalRecord, ActionRecord, ActionsOK
<1>3. /\ proposals' = store(proposals, n + 1, r)
      /\ proposal_count' = n + 1 /\ active_count' = active_count + 1
      /\ UNCHANGED config_vars
  BY DEF propose_action, ActionsCounted
<1>4. proposals' = Append(proposals, r)
  BY <1>1, <1>3 DEF store
<1>5. /\ Len(proposals') = n + 1 /\ proposals'[n + 1] = r
      /\ \A i \in 1 .. n : proposals'[i] = proposals[i]
  BY <1>1, <1>2, <1>4
<1>6. OpenActions' = OpenActions \cup {n + 1} /\ n + 1 \notin OpenActions
  BY <1>2, <1>5 DEF OpenActions, ActionIds, open
<1>7. Cardinality(OpenActions \cup {n + 1}) = Cardinality(OpenActions) + 1
  BY <1>1, <1>6, OpenIsFinite, FS_AddElement
<1> QED BY <1>3, <1>5, <1>6, <1>7 DEF ActionsCounted, SignersCounted, config_vars

\* A signature opens and closes nothing.
LEMMA SignCounts ==
  ASSUME CouncilInv, ActionsCounted, SignersCounted, NEW id \in ActionIds, NEW c \in Council,
         sign_action(c, id)
  PROVE  ActionsCounted' /\ SignersCounted'
<1> PICK n : n = proposals[id].approval_count + 1
  OBVIOUS
<1>1. ActionsOK
  BY DEF CouncilInv
<1>2. proposals[id] \in ActionRecord
  BY <1>1 DEF ActionsOK, ActionIds
<1>3. n \in Nat
  BY <1>2 DEF ActionRecord
<1>4. /\ proposals' = WithApprovalCount(id, n)
      /\ UNCHANGED <<proposal_count, active_count, council, council_count, council_threshold>>
  BY DEF sign_action, WithApprovalCount, config_vars
<1>5. /\ Len(proposals') = Len(proposals)
      /\ \A i \in ActionIds : /\ proposals'[i].executed = proposals[i].executed
                              /\ proposals'[i].cancelled = proposals[i].cancelled
  BY <1>1, <1>3, <1>4, CountUpdate
<1>6. OpenActions' = OpenActions
  BY <1>5 DEF OpenActions, ActionIds, open
<1> QED BY <1>4, <1>5, <1>6 DEF ActionsCounted, SignersCounted

\* Closing an open action makes one fewer, and the counter is not 0 when it is decremented.
LEMMA CloseCounts ==
  ASSUME CouncilInv, ActionsCounted, SignersCounted, NEW id \in ActionIds,
         execute_action(id) \/ \E c \in Council : cancel_action(c, id)
  PROVE  ActionsCounted' /\ SignersCounted'
<1>1. ActionsOK
  BY DEF CouncilInv
<1>2. /\ open(proposals[id]) /\ active_count' = one_less(active_count)
      /\ UNCHANGED proposal_count
  BY DEF execute_action, cancel_action, approved_and_alive, alive
<1>3. /\ Len(proposals') = Len(proposals) /\ ~open(proposals'[id])
      /\ \A i \in ActionIds : i # id => proposals'[i] = proposals[i]
  <2>1. proposals' = WithExecuted(id) \/ proposals' = WithCancelled(id)
    BY DEF execute_action, cancel_action, WithExecuted, WithCancelled
  <2>2. CASE proposals' = WithExecuted(id)
    BY <1>1, <2>2, ExecutedUpdate DEF open
  <2>3. CASE proposals' = WithCancelled(id)
    BY <1>1, <2>3, CancelledUpdate DEF open
  <2> QED BY <2>1, <2>2, <2>3
<1>4. OpenActions' = OpenActions \ {id} /\ id \in OpenActions
  BY <1>2, <1>3 DEF OpenActions, ActionIds
<1>5. Cardinality(OpenActions \ {id}) = Cardinality(OpenActions) - 1
  BY <1>1, <1>4, OpenIsFinite, FS_RemoveElement
<1>6. Cardinality(OpenActions \ {id}) \in Nat /\ Cardinality(OpenActions) \in Nat
  <2>1. IsFiniteSet(OpenActions) /\ OpenActions \ {id} \subseteq OpenActions
    BY <1>1, OpenIsFinite
  <2> QED BY <1>1, <2>1, OpenIsFinite, FS_Subset, FS_CardinalityType
<1>7. ActionsCounted'
  BY <1>2, <1>3, <1>4, <1>5, <1>6 DEF ActionsCounted, one_less
<1>8. SignersCounted'
  <2>1. CASE execute_action(id)
    <3>1. proposals[id] \in ActionRecord
      BY <1>1 DEF ActionsOK, ActionIds
    <3>2. proposals[id].action \in CouncilActions
      BY <3>1 DEF ActionRecord
    <3> QED BY <1>1, <2>1, <3>2, DispatchKeepsCount DEF execute_action
  <2>2. CASE \E c \in Council : cancel_action(c, id)
    BY <2>2 DEF cancel_action, config_vars, SignersCounted
  <2> QED BY <2>1, <2>2
<1> QED BY <1>7, <1>8

\* No step undoes the execution of a rollback, and one that executes none changes a counter
\* only together with what it counts.
LEMMA CountersStep ==
  CouncilInv /\ CountersAreExact /\ [CouncilNext]_council_vars => CountersAreExact'
<1> SUFFICES ASSUME CouncilInv, CountersAreExact, [CouncilNext]_council_vars, NoRollbackYet'
             PROVE  ActionsCounted' /\ SignersCounted'
  BY DEF CountersAreExact, NoRollbackYet, ActionsCounted, SignersCounted
<1>1. ASSUME NoRollbackYet PROVE ActionsCounted /\ SignersCounted
  BY <1>1 DEF CountersAreExact, NoRollbackYet, ActionsCounted, SignersCounted
<1>2. gov_rollbacks \in Seq(RollbackRecord)
  BY DEF CouncilInv, NumbersOK
<1>3. CASE UNCHANGED gov_rollbacks
  <2>1. ActionsCounted /\ SignersCounted
    BY <1>1, <1>3 DEF NoRollbackYet
  <2>2. CASE UNCHANGED <<config_vars, action_vars>>
    BY <2>1, <2>2 DEF config_vars, action_vars, ActionsCounted, SignersCounted, OpenActions,
                      ActionIds
  <2>3. CASE \E p \in Council, a \in CouncilActions : propose_action(p, a)
    BY <2>1, <2>3, ProposeCounts
  <2>4. CASE \E id \in ActionIds : \E c \in Council : sign_action(c, id)
    BY <2>1, <2>4, SignCounts
  <2>5. CASE \E id \in ActionIds : execute_action(id) \/ \E c \in Council : cancel_action(c, id)
    BY <2>1, <2>5, CloseCounts
  <2>6. CASE \E k \in 1 .. Len(gov_rollbacks) : execute_emergency_rollback(k)
    BY <1>2, <1>3, <2>6 DEF execute_emergency_rollback, NoRollbackYet
  <2>7. \/ UNCHANGED <<config_vars, action_vars>>
        \/ \E p \in Council, a \in CouncilActions : propose_action(p, a)
        \/ \E id \in ActionIds : \E c \in Council : sign_action(c, id)
        \/ \E id \in ActionIds : execute_action(id) \/ \E c \in Council : cancel_action(c, id)
        \/ \E k \in 1 .. Len(gov_rollbacks) : execute_emergency_rollback(k)
    BY DEF CouncilNext, council_vars, set_emergency_signers, snapshot_state,
           propose_emergency_rollback, approve_emergency_rollback, CouncilTick
  <2> QED BY <2>2, <2>3, <2>4, <2>5, <2>6, <2>7
<1>4. CASE \E g \in EmergencyAddresses, sid \in GovSnapshotIds : propose_emergency_rollback(g, sid)
  <2>1. NoRollbackYet
    <3>1. PICK r : gov_rollbacks' = Append(gov_rollbacks, r)
      BY <1>4 DEF propose_emergency_rollback
    <3>2. /\ Len(gov_rollbacks) \in Nat /\ Len(gov_rollbacks') = Len(gov_rollbacks) + 1
          /\ \A k \in 1 .. Len(gov_rollbacks) : gov_rollbacks'[k] = gov_rollbacks[k]
      BY <1>2, <3>1
    <3> QED BY <3>2 DEF NoRollbackYet
  <2>2. UNCHANGED <<config_vars, action_vars>>
    BY <1>4 DEF propose_emergency_rollback
  <2> QED BY <1>1, <2>1, <2>2 DEF config_vars, action_vars, ActionsCounted, SignersCounted,
                                  OpenActions, ActionIds
<1>5. ASSUME NEW g \in EmergencyAddresses, NEW k \in 1 .. Len(gov_rollbacks),
             approve_emergency_rollback(g, k)
      PROVE  ActionsCounted' /\ SignersCounted'
  <2>1. ~gov_rollbacks[k].executed
    BY <1>5 DEF approve_emergency_rollback
  <2>2. /\ Len(gov_rollbacks') = Len(gov_rollbacks)
        /\ \A i \in 1 .. Len(gov_rollbacks) : i # k => gov_rollbacks'[i] = gov_rollbacks[i]
    BY <1>2, <1>5 DEF approve_emergency_rollback
  <2>3. NoRollbackYet
    BY <2>1, <2>2 DEF NoRollbackYet
  <2>4. UNCHANGED <<config_vars, action_vars>>
    BY <1>5 DEF approve_emergency_rollback
  <2> QED BY <1>1, <2>3, <2>4 DEF config_vars, action_vars, ActionsCounted, SignersCounted,
                                  OpenActions, ActionIds
<1>6. ASSUME NEW k \in 1 .. Len(gov_rollbacks), execute_emergency_rollback(k)
      PROVE  FALSE
  <2> DEFINE r == [gov_rollbacks[k] EXCEPT !.executed = TRUE]
  <2>1. gov_rollbacks[k] \in RollbackRecord
    BY <1>2
  <2>2. r.executed
    BY <2>1 DEF RollbackRecord
  <2>3. gov_rollbacks' = [gov_rollbacks EXCEPT ![k] = r]
    BY <1>6 DEF execute_emergency_rollback
  <2> HIDE DEF r
  <2>4. Len(gov_rollbacks') = Len(gov_rollbacks) /\ gov_rollbacks'[k] = r
    BY <1>2, <2>3
  <2> QED BY <2>2, <2>4 DEF NoRollbackYet
<1>7. \/ UNCHANGED gov_rollbacks
      \/ \E g \in EmergencyAddresses, sid \in GovSnapshotIds : propose_emergency_rollback(g, sid)
      \/ \E g \in EmergencyAddresses, k \in 1 .. Len(gov_rollbacks) :
           approve_emergency_rollback(g, k)
      \/ \E k \in 1 .. Len(gov_rollbacks) : execute_emergency_rollback(k)
  BY DEF CouncilNext, council_vars, propose_action, sign_action, execute_action, cancel_action,
         set_emergency_signers, snapshot_state, CouncilTick, recovery_vars
<1> QED BY <1>3, <1>4, <1>5, <1>6, <1>7

\* For any council, threshold and expiry: until a rollback writes them, the counters of the
\* signers, the proposals and the open actions are what they count, and the signers that are
\* left can always reach the threshold.
THEOREM CountersExact == CouncilSpec => []CountersAreExact
<1>1. CouncilInit => CountersAreExact
  <2> SUFFICES ASSUME CouncilInit PROVE ActionsCounted /\ SignersCounted
    BY DEF CountersAreExact, ActionsCounted, SignersCounted
  <2>1. proposals = << >> /\ Len(<< >>) = 0 /\ active_count = 0 /\ proposal_count = 0
    BY DEF CouncilInit
  <2>2. OpenActions = {} /\ Cardinality({}) = 0
    BY <2>1, FS_EmptySet DEF OpenActions, ActionIds
  <2> QED BY <2>1, <2>2 DEF CouncilInit, ActionsCounted, SignersCounted
<1> QED BY <1>1, CountersStep, CouncilStarts, CouncilStep, PTL DEF CouncilSpec

-----------------------------------------------------------------------------
(* The handover of the escrow contract's admin, for any set of addresses,  *)
(* any timelock and any cooling-off period.                                *)

HandoverInv == HandoverTypeOK /\ NoStaleProposal

\* A freshly initialized contract has no proposal at all.
LEMMA HandoverStarts == HandoverInit => HandoverInv
<1> SUFFICES ASSUME HandoverInit PROVE HandoverInv
  OBVIOUS
<1>1. now \in Nat /\ in_office \in 0 .. now
  BY HandoverAssumption DEF HandoverInit
<1>2. pending \in [new_admin : Admins \cup {NoAdmin}, effective_at : Nat]
  BY DEF HandoverInit, NoTransfer
<1>3. /\ admin \in Admins /\ last_admin_change \in Nat /\ multisig_set \in BOOLEAN
      /\ pending_proposer \in Admins \cup {NoAdmin}
  BY DEF HandoverInit
<1>4. NoStaleProposal
  BY DEF HandoverInit, NoStaleProposal
<1> QED BY <1>1, <1>2, <1>3, <1>4 DEF HandoverInv, HandoverTypeOK

\* Every step keeps the types and leaves no stale proposal.
LEMMA HandoverStep == HandoverInv /\ [HandoverNext]_handover_vars => HandoverInv'
<1> SUFFICES ASSUME HandoverInv, [HandoverNext]_handover_vars PROVE HandoverInv'
  OBVIOUS
<1> USE HandoverAssumption DEF HandoverInv, HandoverTypeOK, NoStaleProposal, NoTransfer
<1>1. ASSUME NEW a \in Admins, propose_admin_change(a) PROVE HandoverInv'
  BY <1>1 DEF propose_admin_change
<1>2. ASSUME NEW a \in Admins, accept_admin_role(a) PROVE HandoverInv'
  BY <1>2 DEF accept_admin_role
<1>3. ASSUME NEW a \in Admins, revoke_admin_emergency(a) PROVE HandoverInv'
  BY <1>3 DEF revoke_admin_emergency
<1>4. CASE set_multisig_admin
  BY <1>4 DEF set_multisig_admin
<1>5. CASE HandoverTick
  BY <1>5 DEF HandoverTick, CloseLedger
<1>6. CASE UNCHANGED handover_vars
  BY <1>6 DEF handover_vars
<1> QED BY <1>1, <1>2, <1>3, <1>4, <1>5, <1>6 DEF HandoverNext

\* No proposal outlives the admin who made it, whoever replaces that admin and how.
THEOREM NoStaleProposals == HandoverSpec => []NoStaleProposal
<1>1. HandoverInit => HandoverInv
  BY HandoverStarts
<1>2. HandoverInv => NoStaleProposal
  BY DEF HandoverInv
<1> QED BY <1>1, <1>2, HandoverStep, PTL DEF HandoverSpec

\* Only a transfer that waited for the timelock during the term of the admin it ends is
\* accepted by accept_admin_role.
THEOREM HandoversWait == HandoverSpec => HandoverWaits
<1> DEFINE A == last_admin_change' # last_admin_change => now >= in_office + AdminTimelock
<1>1. HandoverInit => HandoverInv
  BY HandoverStarts
<1>2. HandoverInv /\ [HandoverNext]_handover_vars => [A]_handover_vars
  <2> SUFFICES ASSUME HandoverInv, [HandoverNext]_handover_vars, last_admin_change' # last_admin_change
               PROVE  now >= in_office + AdminTimelock
    OBVIOUS
  <2>1. PICK a \in Admins : accept_admin_role(a)
    BY DEF HandoverNext, propose_admin_change, revoke_admin_emergency, set_multisig_admin,
           HandoverTick, handover_vars
  <2>2. pending.new_admin = a /\ now >= pending.effective_at
    BY <2>1 DEF accept_admin_role, may_accept
  <2>3. pending # NoTransfer
    BY <2>2, HandoverAssumption DEF NoTransfer
  <2> QED BY <2>2, <2>3, HandoverAssumption DEF HandoverInv, HandoverTypeOK, NoStaleProposal
<1> QED BY <1>1, <1>2, HandoverStep, PTL DEF HandoverSpec, HandoverWaits
=============================================================================
