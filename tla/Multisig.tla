------------------------------- MODULE Multisig -------------------------------
(***************************************************************************)
(* The token multisig of multisig/src/lib.rs: anyone proposes a transfer,  *)
(* signers approve it, and once it has enough approvals and its time has   *)
(* come anyone executes it, while the admin changes signers and threshold. *)
(***************************************************************************)
EXTENDS Host, Sequences, FiniteSets

CONSTANTS
    Members,            \* addresses that may be signers or proposers
    TransferAdmin,      \* the address stored under DataKey::Admin
    InitialSigners,     \* the lists of signers the contract may be initialized with
    TransferAmounts,    \* amounts that may be proposed
    Locks,              \* values of execute_after
    MultisigFunds,      \* tokens the contract holds at the start
    MaxTransactions,    \* bound: transactions proposed in a behaviour
    MaxMultisigTime     \* bound: last value of the clock

ASSUME TransfersAssumption == TransferAmounts \subseteq (Nat \ {0}) /\ MultisigFunds \in Nat
ASSUME MultisigTimeAssumption ==
    Locks \subseteq Nat /\ MaxMultisigTime \in Nat /\ MaxTransactions \in Nat
ASSUME MembersAssumption == IsFiniteSet(Members) /\ InitialSigners \subseteq Seq(Members)

VARIABLES
    signers,        \* addresses whose DataKey::Signer is true
    signer_count,   \* DataKey::SignerCount
    threshold,      \* DataKey::Threshold
    transactions,   \* DataKey::Transaction(1 .. TransCount)
    approved,       \* the addresses with a DataKey::Approval(id, _), for each id
    funds           \* token balance of the contract

multisig_vars == <<now, signers, signer_count, threshold, transactions, approved, funds>>

TransactionIds == 1 .. Len(transactions)

\* The list of signers is stored as it is given, also when it names one twice.
MultisigInit ==
    /\ now = 0
    /\ \E list \in InitialSigners :
         /\ list # << >>
         /\ threshold \in 1 .. Len(list)
         /\ signer_count = Len(list)
         /\ signers = {list[i] : i \in 1 .. Len(list)}
    /\ transactions = << >>
    /\ approved = << >>
    /\ funds = MultisigFunds

propose_transaction(proposer, amount, execute_after) ==
    /\ Len(transactions) < MaxTransactions
    /\ transactions' = Append(transactions,
            [proposer |-> proposer, amount |-> amount, execute_after |-> execute_after,
             status |-> "Pending", approvals |-> 0])
    /\ approved' = Append(approved, {})
    /\ UNCHANGED <<now, signers, signer_count, threshold, funds>>

\* Mutant: an address that is a signer again may approve again.
may_approve_again(signer, id) == signer \in signers

may_approve(signer, id) == signer \in signers /\ signer \notin approved[id]

approve_transaction(signer, id) ==
    /\ may_approve(signer, id)
    /\ transactions[id].status = "Pending"
    /\ approved' = [approved EXCEPT ![id] = @ \cup {signer}]
    /\ transactions' = [transactions EXCEPT ![id].approvals = @ + 1]
    /\ UNCHANGED <<now, signers, signer_count, threshold, funds>>

\* Mutant: a transaction with one approval too few passes.
executable_below(t) ==
    t.status = "Pending" /\ t.approvals + 1 >= threshold /\ now >= t.execute_after

executable(t) ==
    /\ t.status = "Pending"
    /\ t.approvals >= threshold
    /\ now >= t.execute_after

\* Mutant: a transfer that the token contract refuses is booked.
execute_transaction_unfunded(id) ==
    /\ executable(transactions[id])
    /\ funds' = funds - transactions[id].amount
    /\ transactions' = [transactions EXCEPT ![id].status = "Executed"]
    /\ UNCHANGED <<now, signers, signer_count, threshold, approved>>

execute_transaction(id) ==
    LET t == transactions[id] IN
    /\ executable(t)
    /\ funds >= t.amount
    /\ funds' = funds - t.amount
    /\ transactions' = [transactions EXCEPT ![id].status = "Executed"]
    /\ UNCHANGED <<now, signers, signer_count, threshold, approved>>

cancel_transaction(caller, id) ==
    /\ caller \in {TransferAdmin, transactions[id].proposer}
    /\ transactions[id].status = "Pending"
    /\ transactions' = [transactions EXCEPT ![id].status = "Cancelled"]
    /\ UNCHANGED <<now, signers, signer_count, threshold, approved, funds>>

add_signer(s) ==
    /\ s \notin signers
    /\ signers' = signers \cup {s}
    /\ signer_count' = signer_count + 1
    /\ UNCHANGED <<now, threshold, transactions, approved, funds>>

\* Mutant: the threshold is compared with the count before the removal.
remove_signer_late_check(s) ==
    /\ s \in signers
    /\ signer_count >= threshold
    /\ signers' = signers \ {s}
    /\ signer_count' = signer_count - 1
    /\ UNCHANGED <<now, threshold, transactions, approved, funds>>

remove_signer(s) ==
    /\ s \in signers
    /\ signer_count - 1 >= threshold
    /\ signers' = signers \ {s}
    /\ signer_count' = signer_count - 1
    /\ UNCHANGED <<now, threshold, transactions, approved, funds>>

update_threshold(n) ==
    /\ n \in 1 .. signer_count
    /\ threshold' = n
    /\ UNCHANGED <<now, signers, signer_count, transactions, approved, funds>>

MultisigTick ==
    /\ CloseLedger(MaxMultisigTime)
    /\ UNCHANGED <<signers, signer_count, threshold, transactions, approved, funds>>

MultisigNext ==
    \/ \E p \in Members, a \in TransferAmounts, t \in Locks : propose_transaction(p, a, t)
    \/ \E id \in TransactionIds :
         \/ \E s \in Members : approve_transaction(s, id)
         \/ execute_transaction(id)
         \/ \E c \in Members \cup {TransferAdmin} : cancel_transaction(c, id)
    \/ \E s \in Members : add_signer(s) \/ remove_signer(s)
    \/ \E n \in 1 .. signer_count : update_threshold(n)
    \/ MultisigTick

MultisigSpec == MultisigInit /\ [][MultisigNext]_multisig_vars

-----------------------------------------------------------------------------
Transaction ==
    [proposer : Members, amount : Nat, execute_after : Nat,
     status : {"Pending", "Executed", "Cancelled"}, approvals : Nat]

\* The values the entries and the token balance may hold.
MultisigTypeOK ==
    /\ now \in Nat
    /\ signers \subseteq Members
    /\ signer_count \in Nat
    /\ threshold \in Nat
    /\ transactions \in Seq(Transaction)
    /\ approved \in Seq(SUBSET Members)
    /\ Len(approved) = Len(transactions)
    /\ funds \in Nat

\* The number of approvals a transaction carries is the number of addresses that approved
\* it: removing a signer and adding it again does not let it count twice.
ApprovalsAreDistinct ==
    \A id \in TransactionIds : transactions[id].approvals = Cardinality(approved[id])

\* The recorded number of signers covers the threshold and the signers, whatever is added,
\* removed and changed in whatever order.
ThresholdCovered ==
    /\ threshold \in 1 .. signer_count
    /\ Cardinality(signers) <= signer_count

\* So a quorum is one: as many distinct addresses as the threshold demands can approve, and did
\* where the record says so.
QuorumIsReal == ApprovalsAreDistinct /\ ThresholdCovered

\* A transfer happens only with as many distinct approvals as the threshold demands at that
\* moment, after its time has come, from the pending state, and at most once.
TransfersAreApproved ==
    [][funds' # funds =>
         \E id \in TransactionIds :
            LET t == transactions[id] IN
            /\ t.status = "Pending" /\ transactions'[id].status = "Executed"
            /\ Cardinality(approved[id]) >= threshold
            /\ now >= t.execute_after
            /\ funds' = funds - t.amount]_multisig_vars
===============================================================================
