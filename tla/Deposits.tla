---- MODULE Deposits ----
(* What the escrow contract promises the two parties of every escrow,      *)
(* whatever its kind: a deposit is opened once, is paid out in parts that  *)
(* never exceed what is left of it, and is closed by paying the rest, all  *)
(* to the same beneficiaries. A closed deposit never changes. Who may ask  *)
(* for a payment, when and at which fee is the business of the detailed    *)
(* specifications, Escrow and MilestoneEscrow.                             *)
EXTENDS Integers

CONSTANT Ids        \* the numbers deposits are given

VARIABLES
    stage,      \* id -> "unused", "open" or "closed"
    left,       \* id -> what the contract still holds of the deposit
    given       \* id -> what it has paid out

DepositsInit ==
    /\ stage = [i \in Ids |-> "unused"]
    /\ left = [i \in Ids |-> 0]
    /\ given = [i \in Ids |-> 0]

\* Some positive amount is handed over under a number nobody used.
Open(i) ==
    /\ stage[i] = "unused"
    /\ stage' = [stage EXCEPT ![i] = "open"]
    /\ left'[i] > 0
    /\ left' = [left EXCEPT ![i] = left'[i]]
    /\ UNCHANGED given

\* A part is paid, and the deposit stays open with the rest.
PayPart(i) ==
    /\ stage[i] = "open"
    /\ left'[i] \in 1 .. (left[i] - 1)
    /\ left' = [left EXCEPT ![i] = left'[i]]
    /\ given' = [given EXCEPT ![i] = @ + (left[i] - left'[i])]
    /\ UNCHANGED stage

\* Everything that is left is paid, and the deposit is closed.
Close(i) ==
    /\ stage[i] = "open"
    /\ stage' = [stage EXCEPT ![i] = "closed"]
    /\ left' = [left EXCEPT ![i] = 0]
    /\ given' = [given EXCEPT ![i] = @ + left[i]]

DepositsNext == \E i \in Ids : Open(i) \/ PayPart(i) \/ Close(i)

DepositsSpec == DepositsInit /\ [][DepositsNext]_<<stage, left, given>>
====
