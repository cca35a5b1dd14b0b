---- MODULE Recovery ----
(* Snapshots and rollbacks of the staking contract and of the upgrade       *)
(* registry. Both take numbered snapshots of their own state, keep the      *)
(* numbers in the rolling index of shared/disaster_recovery, and restore a  *)
(* snapshot once enough emergency signers approved a proposal. Each contract *)
(* is one variable, a record with one field per storage key.                *)
EXTENDS Host, Sequences, FiniteSets, FiniteSetsExt

CONSTANTS Depositors,        \* stakers
          Packages,          \* contracts of the upgrade registry
          Rescuers,          \* possible emergency signers
          RescueSigners,     \* EMERGENCY_SIGNERS
          RescueThreshold,   \* EMERGENCY_THRESHOLD
          RollingSnapshots,  \* MAX_SNAPSHOTS
          SnapshotIds,
          MaxRescueWrites,   \* bound on stakes, claims, upgrades and settings
          MaxRescues,        \* bound on rollback proposals
          MaxSnapshotsTaken  \* bound on snapshots taken

VARIABLES stake_recovery,     \* contracts/staking
          registry_recovery   \* contracts/upgrade_registry
recovery_vars == <<stake_recovery, registry_recovery>>

\* What both contracts keep about snapshots and rollbacks; "pushed" and "restored" are
\* history: every number ever pushed, and the snapshot the state was last restored from.
NoRescue == [signers |-> {}, snaps |-> NothingStored, index |-> <<>>, proposals |-> <<>>, approved |-> {},
             pushed |-> <<>>, restored |-> 0, taken |-> 0, writes |-> 0]

\* Mutant: the index forgets to let the oldest number go.
push_snapshot_index_grows(index, id) == Append(index, id)
\* push_snapshot_index: the oldest number leaves a full index.
push_snapshot_index(index, id) ==
    LET longer == Append(index, id) IN IF Len(longer) > RollingSnapshots THEN Tail(longer) ELSE longer
evicted(index, id) == IF Len(index) >= RollingSnapshots THEN {Head(Append(index, id))} ELSE {}

\* set_emergency_signers: exactly as many as the policy names.
may_be_signers(r, signers) == Cardinality(signers) = RescueSigners /\ signers # r.signers

\* snapshot_state after the data is gathered: the evicted number's snapshot goes, this one is written.
with_snapshot(r, id, data) ==
    LET gone == evicted(r.index, id)
        kept == [i \in DOMAIN r.snaps \ gone |-> r.snaps[i]]
    IN  [r EXCEPT !.index = push_snapshot_index(@, id), !.pushed = Append(@, id),
                  !.snaps = put(kept, id, data), !.taken = @ + 1,
                  !.restored = IF @ \in gone \cup {id} THEN 0 ELSE @]

with_proposal(r, proposer, id) ==
    [r EXCEPT !.proposals = Append(@, [snapshot |-> id, approvals |-> 1, executed |-> FALSE]),
              !.approved = @ \cup {<<Len(r.proposals) + 1, proposer>>}]

\* Mutant: a signer may approve again.
not_approved_yet_ever(r, signer, p) == TRUE
not_approved_yet(r, signer, p) == <<p, signer>> \notin r.approved
\* approve_rollback of both contracts.
may_approve(r, signer, p) == /\ signer \in r.signers
                             /\ ~r.proposals[p].executed
                             /\ not_approved_yet(r, signer, p)
with_approval(r, signer, p) == [r EXCEPT !.proposals[p].approvals = @ + 1, !.approved = @ \cup {<<p, signer>>}]

\* The checks of rollback_to_snapshot, and the proposal's end.
may_roll_back(r, p) == /\ ~r.proposals[p].executed
                       /\ r.proposals[p].approvals >= RescueThreshold
                       /\ r.proposals[p].snapshot \in DOMAIN r.snaps
rolled_back(r, p) == [r EXCEPT !.proposals[p].executed = TRUE, !.restored = r.proposals[p].snapshot]

\* A call that changes the state the snapshots are about.
written(r) == [r EXCEPT !.writes = @ + 1, !.restored = 0]
may_write(r) == r.writes < MaxRescueWrites

-----------------------------------------------------------------------------
(* Staking. Stakers used to be a list, "legacy"; migrate_stakers moves it   *)
(* into the indexed roster that stake and unstake keep. A stake record is   *)
(* its amount, the other fields are captured and restored with it.          *)

StakeRecoveryInit ==
    \E old \in {{}, Depositors} :
        stake_recovery = [rescue |-> NoRescue, legacy |-> old, roster |-> {}, next |-> 0,
                          stakes |-> [m \in old |-> 1]]

\* record_stake_snapshot_index: every stake, claim and unstake takes the next number.
\* What falls out of the index is left where it is.
record_stake_snapshot_index(s) ==
    LET number == s.next + 1
        r == written(s.rescue)
        indexed == [r EXCEPT !.index = push_snapshot_index(r.index, number),
                             !.pushed = Append(r.pushed, number)]
    IN  [s EXCEPT !.next = number, !.rescue = indexed]

stake_again(m, amount) ==
    LET s == stake_recovery IN
    /\ may_write(s.rescue) /\ m \notin DOMAIN s.stakes
    /\ stake_recovery' = record_stake_snapshot_index(
                             [s EXCEPT !.stakes = put(@, m, amount), !.roster = @ \cup {m}])

unstake_again(m) ==
    LET s == stake_recovery IN
    /\ may_write(s.rescue) /\ m \in DOMAIN s.stakes
    /\ stake_recovery' = record_stake_snapshot_index([s EXCEPT !.stakes = del(@, m), !.roster = @ \ {m}])

claim_again(m) ==
    /\ may_write(stake_recovery.rescue)
    /\ stake_recovery' = record_stake_snapshot_index(stake_recovery)

migrate_stakers ==
    /\ stake_recovery.legacy # {}
    /\ stake_recovery' = [stake_recovery EXCEPT !.roster = @ \cup stake_recovery.legacy, !.legacy = {}]

set_stake_signers(signers) ==
    /\ may_be_signers(stake_recovery.rescue, signers)
    /\ stake_recovery' = [stake_recovery EXCEPT !.rescue.signers = signers]

\* The list snapshot_state walks is the legacy one.
snapshot_state(id) ==
    LET s == stake_recovery
        records == [m \in s.legacy \cap DOMAIN s.stakes |-> s.stakes[m]]
    IN  /\ s.rescue.taken < MaxSnapshotsTaken
        /\ stake_recovery' = [s EXCEPT !.rescue =
               with_snapshot(@, id, [records |-> records, record_count |-> Cardinality(DOMAIN records)])]

\* verify_post_upgrade_state: the records that no longer agree, and the number of stakers.
stake_mismatches(s, id) ==
    LET snap == s.rescue.snaps[id] IN
    {m \in DOMAIN snap.records : stored(s.stakes, m, 0) # snap.records[m]}
        \cup (IF Cardinality(s.roster) # snap.record_count THEN {"StakerCount"} ELSE {})

propose_stake_rollback(g, id) ==
    LET r == stake_recovery.rescue IN
    /\ g \in r.signers /\ id \in DOMAIN r.snaps /\ Len(r.proposals) < MaxRescues
    /\ stake_recovery' = [stake_recovery EXCEPT !.rescue = with_proposal(r, g, id)]

approve_stake_rollback(g, p) ==
    LET r == stake_recovery.rescue IN
    /\ may_approve(r, g, p)
    /\ stake_recovery' = [stake_recovery EXCEPT !.rescue = with_approval(r, g, p)]

\* Mutant: a staker who left meanwhile stays away.
restored_stakes_present(s, records) ==
    [m \in DOMAIN s.stakes |-> IF m \in DOMAIN records THEN records[m] ELSE s.stakes[m]]
\* Captured records are written again; other stakes, the total and the roster stay.
restored_stakes(s, records) ==
    [m \in DOMAIN s.stakes \cup DOMAIN records |-> IF m \in DOMAIN records THEN records[m] ELSE s.stakes[m]]
rollback_stakes(p) ==
    LET s == stake_recovery
        r == s.rescue
    IN  /\ may_roll_back(r, p)
        /\ stake_recovery' = [s EXCEPT !.stakes = restored_stakes(s, r.snaps[r.proposals[p].snapshot].records),
                                       !.rescue = rolled_back(r, p)]

StakeRecoveryNext ==
    /\ \/ \E m \in Depositors : unstake_again(m) \/ claim_again(m) \/ \E a \in 1 .. 2 : stake_again(m, a)
       \/ migrate_stakers
       \/ \E signers \in SUBSET Rescuers : set_stake_signers(signers)
       \/ \E id \in SnapshotIds : snapshot_state(id) \/ \E g \in Rescuers : propose_stake_rollback(g, id)
       \/ \E p \in 1 .. Len(stake_recovery.rescue.proposals) :
              rollback_stakes(p) \/ \E g \in Rescuers : approve_stake_rollback(g, p)
    /\ UNCHANGED <<now, registry_recovery>>

-----------------------------------------------------------------------------
(* Upgrade registry. The history of a package is its sequence of versions.   *)

RegistryRecoveryInit ==
    registry_recovery = [rescue |-> NoRescue, settings |-> 0, registered |-> {}, latest |-> NothingStored,
                         history |-> NothingStored]

\* execute_upgrade and its variants record a version of a package.
publish(c, v) ==
    LET s == registry_recovery IN
    /\ may_write(s.rescue)
    /\ registry_recovery' = [s EXCEPT !.registered = @ \cup {c}, !.latest = put(@, c, v),
                                      !.history = put(@, c, Append(stored(@, c, <<>>), v)),
                                      !.rescue = written(@)]

\* set_admin, set_upgrade_delay and the configuration of approvers: what a snapshot calls
\* admin, delay and configuration, as one value.
reconfigure(x) ==
    LET s == registry_recovery IN
    /\ may_write(s.rescue) /\ s.settings # x
    /\ registry_recovery' = [s EXCEPT !.settings = x, !.rescue = written(@)]

set_registry_signers(signers) ==
    /\ may_be_signers(registry_recovery.rescue, signers)
    /\ registry_recovery' = [registry_recovery EXCEPT !.rescue.signers = signers]

snapshot_registry(id) ==
    LET s == registry_recovery IN
    /\ s.rescue.taken < MaxSnapshotsTaken
    /\ registry_recovery' = [s EXCEPT !.rescue =
           with_snapshot(@, id, [settings |-> s.settings, registered |-> s.registered,
                                 latest |-> [c \in s.registered |-> stored(s.latest, c, 0)],
                                 history |-> [c \in s.registered |-> stored(s.history, c, <<>>)]])]

\* Anyone may propose, and the proposal counts as the first approval.
propose_registry_rollback(g, id) ==
    LET r == registry_recovery.rescue IN
    /\ id \in DOMAIN r.snaps /\ Len(r.proposals) < MaxRescues
    /\ registry_recovery' = [registry_recovery EXCEPT !.rescue = with_proposal(r, g, id)]

approve_registry_rollback(g, p) ==
    LET r == registry_recovery.rescue IN
    /\ may_approve(r, g, p)
    /\ registry_recovery' = [registry_recovery EXCEPT !.rescue = with_approval(r, g, p)]

\* Everything the current packages have is removed before the snapshot is written back.
cleared(f, names) == [c \in DOMAIN f \ names |-> f[c]]
rollback_registry(p) ==
    LET s == registry_recovery
        r == s.rescue
        snap == r.snaps[r.proposals[p].snapshot]
        over(f, g) == [c \in DOMAIN f \cup DOMAIN g |-> IF c \in DOMAIN g THEN g[c] ELSE f[c]]
    IN  /\ may_roll_back(r, p)
        /\ registry_recovery' = [s EXCEPT !.settings = snap.settings, !.registered = snap.registered,
                                          !.latest = over(cleared(@, s.registered), snap.latest),
                                          !.history = over(cleared(@, s.registered), snap.history),
                                          !.rescue = rolled_back(r, p)]

\* verify_post_upgrade_state of the registry.
registry_mismatches(s, id) ==
    LET snap == s.rescue.snaps[id] IN
    {c \in DOMAIN snap.latest : stored(s.latest, c, 0) # snap.latest[c]}
        \cup (IF s.settings # snap.settings THEN {"settings"} ELSE {})

RegistryRecoveryNext ==
    /\ \/ \E c \in Packages, v \in 1 .. 2 : publish(c, v)
       \/ \E x \in 0 .. 1 : reconfigure(x)
       \/ \E signers \in SUBSET Rescuers : set_registry_signers(signers)
       \/ \E id \in SnapshotIds : snapshot_registry(id) \/ \E g \in Rescuers : propose_registry_rollback(g, id)
       \/ \E p \in 1 .. Len(registry_recovery.rescue.proposals) :
              rollback_registry(p) \/ \E g \in Rescuers : approve_registry_rollback(g, p)
    /\ UNCHANGED <<now, stake_recovery>>

-----------------------------------------------------------------------------
(* Properties.                                                              *)

Rescues == {stake_recovery.rescue, registry_recovery.rescue}

\* An executed rollback was approved by as many distinct accounts as the policy asks for, and
\* the count a proposal carries is the number of accounts that approved it.
RollbacksAreApproved ==
    \A r \in Rescues : \A p \in 1 .. Len(r.proposals) :
        LET approvers == {a \in r.approved : a[1] = p} IN
        /\ r.proposals[p].approvals = Cardinality(approvers)
        /\ r.proposals[p].executed => Cardinality(approvers) >= RescueThreshold

\* The index of snapshots is the latest numbers handed out, never more than the window.
IndexIsTheLatest ==
    \A r \in Rescues :
        LET n == Len(r.pushed) IN
        r.index = SubSeq(r.pushed, IF n > RollingSnapshots THEN n - RollingSnapshots + 1 ELSE 1, n)

\* Until the next change, every stake record that a rollback restored agrees with its
\* snapshot, also for a staker who had left in the meantime.
RestoredStakesAgree ==
    LET id == stake_recovery.rescue.restored IN
    id # 0 => stake_mismatches(stake_recovery, id) \subseteq {"StakerCount"}

\* A restored registry passes its own verification, and no rollback leaves the version or
\* the history of a package behind that the registry does not list.
RestoredRegistryIsClean ==
    LET s == registry_recovery IN
    /\ s.rescue.restored # 0 => registry_mismatches(s, s.rescue.restored) = {}
    /\ DOMAIN s.latest = s.registered /\ DOMAIN s.history = s.registered
    /\ \A c \in s.registered : s.latest[c] = s.history[c][Len(s.history[c])]
====
