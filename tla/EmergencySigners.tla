-------------------------- MODULE EmergencySigners --------------------------
(***************************************************************************)
(* The emergency signers of escrow/src/lib.rs: one list, kept under        *)
(* DataKey::EmergencySigners, which both the emergency release and the     *)
(* emergency rollback check their approvals against.                       *)
(***************************************************************************)
EXTENDS Escrow

CONSTANTS
    Signers,        \* addresses that may be registered as emergency signers
    SignerCount,    \* EMERGENCY_MSIG_SIGNERS
    Threshold       \* EMERGENCY_MSIG_THRESHOLD

ASSUME SignersAssumption == SignerCount \in Nat /\ Threshold \in 1 .. SignerCount

VARIABLE signers    \* DataKey::EmergencySigners; {} before they are set

\* set_emergency_signers, as far as the list goes.
registered(S) == Cardinality(S) = SignerCount /\ signers' = S
=============================================================================
