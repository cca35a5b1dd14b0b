---- MODULE UpgradeRegistry ----
(* contracts/upgrade_registry: the upgrades of one contract by the two     *)
(* paths (scheduled and direct), the approvals with their five-minute      *)
(* cache, and the versions of the storage layout with their migration.     *)
(* Snapshots and rollback follow the shared pattern of SnapshotRollback.   *)
EXTENDS Host, Sequences, FiniteSets

CONSTANTS
    Approvers,           \* sets of addresses that approve
    SignerSets,          \* sets of addresses, to be the signers
    Versions,            \* version numbers, of code and of layouts
    BreakingLayouts,     \* layouts that need a migration from an older one
    CacheExpiry,         \* VALIDATION_CACHE_EXPIRY_SECS
    UpgradeDelays,       \* values of set_upgrade_delay
    MigrationRecords,    \* total_records of a migration
    MaxUpgrades, UpgradeClock   \* bounds: length of the history, time

ASSUME UpgradeAssumption ==
    /\ CacheExpiry \in Nat \ {0} /\ Versions \subseteq Nat \ {0}
    /\ MigrationRecords \subseteq Nat /\ UpgradeDelays \subseteq Nat

None == [version |-> 0]

VARIABLES
    latest,         \* DataKey::LatestVersion
    history,        \* DataKey::UpgradeHistoryItem(0 ..): old, new, time, approvers
    pending_upgrade,\* DataKey::PendingUpgrade or None
    upgrade_delay,  \* DataKey::UpgradeDelay
    config,         \* DataKey::UpgradeConfig: signers and threshold; {} and 0 when absent
    cache,          \* DataKey::ValidationCacheTime(approvers), a partial function
    layouts,        \* versions with a DataKey::StorageLayout
    active_layout,  \* DataKey::ActiveStorageVersion: version (0: none), migration_in_progress
    migration,      \* DataKey::MigrationStatus: to, left, or None
    in_force        \* history: when a set of approvers last satisfied the configuration

upgrade_vars ==
    <<latest, history, pending_upgrade, upgrade_delay, config, cache, layouts, active_layout,
      migration, in_force>>

\* A set of approvers that meets a configuration; without one the admin signs instead.
validate_approval_set(approvers, cfg) ==
    cfg.threshold > 0 => approvers \subseteq cfg.signers /\ Cardinality(approvers) >= cfg.threshold

satisfied(cfg, t) ==
    [a \in Approvers |-> IF validate_approval_set(a, cfg) THEN t ELSE in_force[a]]

UpgradeInit ==
    /\ now = 0
    /\ latest = 0 /\ history = << >> /\ pending_upgrade = None
    /\ upgrade_delay \in UpgradeDelays
    /\ config = [signers |-> {}, threshold |-> 0]
    /\ cache = NothingStored
    /\ layouts = {} /\ active_layout = [version |-> 0, migrating |-> FALSE] /\ migration = None
    /\ in_force = [a \in Approvers |-> 0]

cached(approvers) == approvers \in DOMAIN cache /\ now < cache[approvers] + CacheExpiry

\* Mutant: a hit renews the entry.
cache_after_sliding(approvers) == put(cache, approvers, now)

cache_after(approvers) == IF cached(approvers) THEN cache ELSE put(cache, approvers, now)

\* A hit stands for the signatures and for the check against the configuration.
require_upgrade_approvals_cached(approvers) ==
    /\ cached(approvers) \/ validate_approval_set(approvers, config)
    /\ cache' = cache_after(approvers)

migrating == migration # None /\ migration.left > 0

validate_storage_upgrade(target) ==
    \/ latest = 0 \/ target <= latest
    \/ active_layout.version = 0 \/ active_layout.version >= target
    \/ target \in layouts /\ target \notin BreakingLayouts

layout_state == <<layouts, active_layout, migration>>

schedule_upgrade(version, approvers) ==
    /\ require_upgrade_approvals_cached(approvers)
    /\ validate_storage_upgrade(version) /\ ~migrating
    /\ pending_upgrade = None /\ version > latest
    /\ pending_upgrade' = [version |-> version, after |-> now + upgrade_delay]
    /\ UNCHANGED <<now, latest, history, upgrade_delay, config, layout_state, in_force>>

\* Mutant: only the record is written.
recorded_upgrade_only(old, version, approvers) ==
    /\ Len(history) < MaxUpgrades
    /\ history' = Append(history, [old |-> old, new |-> version, at |-> now, by |-> approvers])
    /\ latest' = IF approvers = {} THEN latest ELSE version

\* The record of an upgrade, and the version it leaves.
recorded_upgrade(old, version, approvers) ==
    /\ Len(history) < MaxUpgrades
    /\ history' = Append(history, [old |-> old, new |-> version, at |-> now, by |-> approvers])
    /\ latest' = version

\* The version is compared with the latest one when it is scheduled, not here.
execute_pending_upgrade(approvers) ==
    /\ pending_upgrade # None
    /\ validate_storage_upgrade(pending_upgrade.version)
    /\ require_upgrade_approvals_cached(approvers)
    /\ now >= pending_upgrade.after
    /\ recorded_upgrade(latest, pending_upgrade.version, approvers)
    /\ pending_upgrade' = None
    /\ UNCHANGED <<now, upgrade_delay, config, layout_state, in_force>>

\* The deprecated direct path waits since the last upgrade.
upgrade_contract(version, approvers) ==
    /\ require_upgrade_approvals_cached(approvers)
    /\ validate_storage_upgrade(version) /\ version > latest /\ ~migrating
    /\ upgrade_delay > 0 =>
         now >= (IF history = << >> THEN 0 ELSE history[Len(history)].at) + upgrade_delay
    /\ recorded_upgrade(latest, version, approvers)
    /\ UNCHANGED <<now, pending_upgrade, upgrade_delay, config, layout_state, in_force>>

\* The deprecated record of an upgrade done elsewhere, by the admin, who names the old version.
register_upgrade(old, version) ==
    /\ version > latest
    /\ recorded_upgrade(old, version, {})
    /\ UNCHANGED <<now, pending_upgrade, upgrade_delay, config, cache, layout_state, in_force>>

\* By the admin.
cancel_pending_upgrade ==
    /\ pending_upgrade # None /\ pending_upgrade' = None
    /\ UNCHANGED <<now, latest, history, upgrade_delay, config, cache, layout_state, in_force>>

\* Signed by the approvers themselves: this path has no cache. Old cache entries stay.
set_upgrade_signers(signers, threshold, approvers) ==
    LET cfg == [signers |-> signers, threshold |-> threshold]
    IN  /\ validate_approval_set(approvers, config)
        /\ 0 < threshold /\ threshold <= Cardinality(signers)
        /\ config' = cfg /\ cfg # config
        /\ in_force' = satisfied(cfg, now)
        /\ UNCHANGED <<now, latest, history, pending_upgrade, upgrade_delay, cache, layout_state>>

\* The first layout, and every one while no upgrade is on record, becomes the active one.
register_storage_schema(version, approvers) ==
    /\ require_upgrade_approvals_cached(approvers)
    /\ layouts' = layouts \cup {version}
    /\ active_layout' = IF latest = 0 \/ active_layout.version = 0
                          THEN [version |-> version, migrating |-> FALSE] ELSE active_layout
    /\ UNCHANGED <<now, latest, history, pending_upgrade, upgrade_delay, config, migration, in_force>>

start_storage_migration(from, to, records, approvers) ==
    /\ require_upgrade_approvals_cached(approvers)
    /\ from \in layouts /\ to \in layouts /\ ~migrating
    /\ migration' = [version |-> to, left |-> records]
    /\ active_layout' = IF active_layout.version = 0 THEN active_layout
                        ELSE [active_layout EXCEPT !.migrating = TRUE]
    /\ UNCHANGED <<now, latest, history, pending_upgrade, upgrade_delay, config, layouts, in_force>>

\* Mutant: the layout is switched by the first batch.
migrated_to_early(left) == [version |-> migration.version, migrating |-> left > 0]

\* The active layout after a batch that leaves so many records.
migrated_to(left) ==
    IF left = 0 THEN [version |-> migration.version, migrating |-> FALSE] ELSE active_layout

\* A batch; the last one makes the target the active layout.
execute_migration_step(batch, approvers) ==
    LET left == IF batch < migration.left THEN migration.left - batch ELSE 0
    IN  /\ require_upgrade_approvals_cached(approvers)
        /\ migrating /\ batch > 0
        /\ migration' = [migration EXCEPT !.left = left]
        /\ active_layout' = migrated_to(left)
        /\ UNCHANGED <<now, latest, history, pending_upgrade, upgrade_delay, config, layouts, in_force>>

rollback_storage_layout(version, approvers) ==
    /\ require_upgrade_approvals_cached(approvers)
    /\ version \in layouts
    /\ active_layout' = [version |-> version, migrating |-> FALSE]
    /\ migration' = None
    /\ UNCHANGED <<now, latest, history, pending_upgrade, upgrade_delay, config, layouts, in_force>>

UpgradeTick ==
    /\ CloseLedger(UpgradeClock)
    /\ in_force' = satisfied(config, now + 1)
    /\ UNCHANGED <<latest, history, pending_upgrade, upgrade_delay, config, cache, layout_state>>

UpgradeNext ==
    \/ \E a \in Approvers :
         \/ \E v \in Versions :
              \/ schedule_upgrade(v, a) \/ upgrade_contract(v, a)
              \/ register_storage_schema(v, a) \/ rollback_storage_layout(v, a)
              \/ \E from \in Versions, n \in MigrationRecords : start_storage_migration(from, v, n, a)
         \/ execute_pending_upgrade(a)
         \/ execute_migration_step(1, a)
         \/ \E s \in SignerSets, t \in 1 .. Cardinality(UNION SignerSets) : set_upgrade_signers(s, t, a)
    \/ \E v \in Versions : register_upgrade(0, v)
    \/ cancel_pending_upgrade
    \/ UpgradeTick

-----------------------------------------------------------------------------
\* require_upgrade_approvals_cached: whoever approved an upgrade satisfied the configuration of
\* signers less than the expiry of the cache before it, however the configuration changed.
ApprovalsAreRecent ==
    \A i \in DOMAIN history :
      history[i].by # {} => history[i].at < in_force[history[i].by] + CacheExpiry

\* The history ends at the latest version, and every upgrade the signers approved starts from
\* the version the one before it left, by whichever path either of them came.
HistoryIsAChain ==
    /\ \A i \in DOMAIN history :
         history[i].by # {} => history[i].old = (IF i = 1 THEN 0 ELSE history[i - 1].new)
    /\ latest = (IF history = << >> THEN 0 ELSE history[Len(history)].new)

\* The active layout does not change while a migration to it is under way.
LayoutChangesWhenMigrated ==
    [][migrating /\ migrating' => active_layout'.version = active_layout.version \/ latest = 0]_upgrade_vars

\* "`VersionNotMonotonic` blocks downgrade and re-use": versions rise. It fails: a version that
\* was scheduled is not compared again when it is executed.
VersionsRise == \A i \in DOMAIN history : history[i].old < history[i].new

\* StorageMigrationInProgress: no upgrade during a migration. It fails for a scheduled one.
NoUpgradeWhileMigrating == [][history' # history => ~migrating]_upgrade_vars
====
