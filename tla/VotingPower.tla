---- MODULE VotingPower ----
(* Where votes come from: contracts/mnt-token, contracts/delegation,       *)
(* contracts/snapshot and contracts/delegated_staking_proxy.               *)
(* contracts/delegation/src/lib.rs holds two versions of the contract in   *)
(* one file; modelled is the one that keeps the weight of a subtree of     *)
(* delegators, which the snapshots call.                                   *)
EXTENDS Host, Integers, Sequences, FiniteSets, FiniteSetsExt, SequencesExt

CONSTANTS
    Holders,                        \* addresses
    TokenAmounts, SupplyCap,        \* SUPPLY_CAP
    MaxTokenCalls,                  \* bound
    Holdings,                       \* token balances that the delegation contract reads
    DelegationDepths, PowerCaps,    \* values of MaxDelegationDepth and MaxDelegatedPowerBps
    DefaultPowerCap,                \* DEFAULT_DELEGATION_CAP_BPS
    MaxDelegationCalls, MaxRedelegations,   \* bounds
    StakeAmounts, VoteSnapshotIds, MaxSnapshotCalls,
    ProxyOwners, ProxyDeposits, ProxyRewards, Precision,    \* PRECISION
    ProxyLock, MaxProxyCalls, MaxProxyTime

ASSUME ProxyAssumption ==
    /\ Precision \in Nat \ {0} /\ ProxyLock \in Nat
    /\ ProxyDeposits \subseteq Nat \ {0} /\ ProxyRewards \subseteq Nat \ {0}

VARIABLES token, delegations, snapshots, proxy

voting_vars == <<token, delegations, snapshots, proxy>>

-----------------------------------------------------------------------------
(* The token. *)

\* Histories: what transfers of an account to itself added, and the calls, for the bound.
TokenInit ==
    token = [balance |-> [h \in Holders |-> 0], supply |-> 0, allowance |-> [k \in Holders \X Holders |-> 0],
             paused |-> FALSE, to_itself |-> 0, calls |-> 0]

token_called(next) == token' = [next EXCEPT !.calls = @ + 1]

mint(to, amount) ==
    /\ ~token.paused /\ token.supply + amount <= SupplyCap
    /\ token_called([token EXCEPT !.balance[to] = @ + amount, !.supply = @ + amount])

\* Both balances are read before either is written: a transfer to itself adds the amount.
moved(from, to, amount) ==
    [token EXCEPT !.balance = [@ EXCEPT ![from] = token.balance[from] - amount,
                                        ![to] = token.balance[to] + amount],
                  !.to_itself = @ + IF from = to THEN amount ELSE 0]

transfer(from, to, amount) ==
    /\ ~token.paused /\ token.balance[from] >= amount
    /\ token_called(moved(from, to, amount))

approve(from, spender, amount) == token_called([token EXCEPT !.allowance[<<from, spender>>] = amount])

transfer_from(spender, from, to, amount) ==
    /\ ~token.paused /\ token.allowance[<<from, spender>>] >= amount /\ token.balance[from] >= amount
    /\ token_called([moved(from, to, amount) EXCEPT !.allowance[<<from, spender>>] = @ - amount])

\* Mutant: the supply is not reduced.
burned_of_supply(from, amount) == [token EXCEPT !.balance[from] = @ - amount]

burned(from, amount) == [token EXCEPT !.balance[from] = @ - amount, !.supply = @ - amount]

do_burn(from, amount) ==
    /\ ~token.paused /\ token.balance[from] >= amount
    /\ token_called(burned(from, amount))

burn_from(spender, from, amount) ==
    /\ ~token.paused /\ token.allowance[<<from, spender>>] >= amount /\ token.balance[from] >= amount
    /\ token_called([burned(from, amount) EXCEPT !.allowance[<<from, spender>>] = @ - amount])

pause == ~token.paused /\ token_called([token EXCEPT !.paused = TRUE])
unpause == token.paused /\ token_called([token EXCEPT !.paused = FALSE])

TokenNext ==
    /\ token.calls < MaxTokenCalls
    /\ \/ \E h \in Holders, a \in TokenAmounts :
            \/ mint(h, a) \/ do_burn(h, a)
            \/ \E g \in Holders :
                 \/ transfer(h, g, a) \/ approve(h, g, a) \/ burn_from(g, h, a)
                 \/ \E to \in Holders : transfer_from(g, h, to, a)
       \/ pause \/ unpause
    /\ UNCHANGED <<now, delegations, snapshots, proxy>>

\* The balances add up to the supply, but for what transfers of an account to itself added, and no
\* balance or allowance falls below zero.
SupplyIsBalances ==
    /\ MapThenSumSet(LAMBDA h : token.balance[h], Holders) = token.supply + token.to_itself
    /\ \A h \in Holders : token.balance[h] >= 0
    /\ \A k \in DOMAIN token.allowance : token.allowance[k] >= 0

\* docs/threat-model.md:348 "Supply cap: 100M MNT tokens": all balances together never exceed it.
\* A transfer of an account to itself adds to its balance, so they do.
BalancesAreCapped == MapThenSumSet(LAMBDA h : token.balance[h], Holders) <= SupplyCap

-----------------------------------------------------------------------------
(* Delegation. *)

DelegationsInit ==
    delegations = [delegate |-> NothingStored, delegators |-> << >>,
                   subtree |-> [h \in Holders |-> 0], power |-> [h \in Holders |-> 0],
                   depth |-> Max(DelegationDepths), cap |-> DefaultPowerCap, suspended |-> FALSE,
                   at_snapshot |-> NothingStored, power_at |-> NothingStored, calls |-> 0]

delegation_called(next) == delegations' = [next EXCEPT !.calls = @ + 1]

\* Everyone on the way from h to its ultimate delegate, in order.
chain(links, h) ==
    LET path[n \in Nat] == IF n = 0 THEN <<h>>
                           ELSE LET p == path[n - 1] IN
                                IF Last(p) \in DOMAIN links THEN Append(p, links[Last(p)]) ELSE p
    IN  path[Cardinality(Holders)]

\* Mutant: only a delegation to oneself is refused.
validate_delegation_chain_direct(d, to) == d # to

validate_delegation_chain(d, to) ==
    LET path == chain(delegations.delegate, to) IN
    /\ d # to
    /\ Len(path) <= delegations.depth
    /\ d \notin Range(path) /\ IsInjective(path)

get_subtree_weight(h) == Holdings[h] + delegations.subtree[h]

\* Mutant: those further up do not learn of the change.
propagate_to_delegate(store, start, delta) ==
    [store EXCEPT !.subtree[start] = @ + delta, !.power[Last(chain(store.delegate, start))] = @ + delta]

\* Every subtree on the way, as far as the depth goes, and the power of the one at the end.
propagate_weight_change(store, start, delta) ==
    LET path == chain(store.delegate, start)
        reached == SubSeq(path, 1, Min({Len(path), store.depth}))
        final == IF Len(path) > store.depth THEN path[store.depth + 1] ELSE Last(path)
    IN  [store EXCEPT !.subtree = [h \in Holders |-> @[h] + IF h \in Range(reached) THEN delta ELSE 0],
                      !.power[final] = @ + delta]

delegated_balance(hs) == MapThenSumSet(LAMBDA h : Holdings[h], hs)

\* The power of the new delegate is what it had as an ultimate delegate.
cap_exceeded(store, d, to) ==
    LET total == delegated_balance(Range(store.delegators) \cup {d})
        projected == store.power[to] + get_subtree_weight(d)
    IN  /\ store.cap < DefaultPowerCap
        /\ total > 0 /\ (projected * 10000) \div total > store.cap

delegate(d, to) ==
    LET weight == get_subtree_weight(d)
        loose == IF d \in DOMAIN delegations.delegate
                   THEN propagate_weight_change(delegations, delegations.delegate[d], -weight) ELSE delegations
        linked == [loose EXCEPT !.delegate = put(@, d, to),
                                !.delegators = IF d \in Range(@) THEN @ ELSE Append(@, d)]
    IN  /\ ~delegations.suspended /\ validate_delegation_chain(d, to)
        /\ ~cap_exceeded(loose, d, to)
        /\ delegation_called(propagate_weight_change(linked, to, weight))

undelegate(d) ==
    LET loose == [delegations EXCEPT !.delegate = del(@, d), !.delegators = SelectSeq(@, LAMBDA h : h # d)]
    IN  /\ d \in DOMAIN delegations.delegate
        /\ delegation_called(propagate_weight_change(loose, delegations.delegate[d], -get_subtree_weight(d)))

set_max_delegation_depth(n) == delegation_called([delegations EXCEPT !.depth = n])
set_delegation_power_cap_bps(c) == delegation_called([delegations EXCEPT !.cap = c])
set_delegation_suspended(b) ==
    b # delegations.suspended /\ delegation_called([delegations EXCEPT !.suspended = b])

\* The call of the delegate and of undelegate, which the snapshots interleave with.
Redelegate(limit) ==
    /\ delegations.calls < limit
    /\ \E d \in Holders : undelegate(d) \/ \E to \in Holders : delegate(d, to)

DelegationsNext ==
    /\ \/ Redelegate(MaxDelegationCalls)
       \/ /\ delegations.calls < MaxDelegationCalls
          /\ \/ \E n \in DelegationDepths : n # delegations.depth /\ set_max_delegation_depth(n)
             \/ \E c \in PowerCaps : c # delegations.cap /\ set_delegation_power_cap_bps(c)
             \/ \E b \in BOOLEAN : set_delegation_suspended(b)
    /\ UNCHANGED <<now, token, snapshots, proxy>>

\* No chain of delegations comes back to where it started, the list of delegators is that of the
\* delegations, and the weight stored for a subtree is that of the direct delegators and of the subtrees
\* below them, so that moving it moves everyone in it: as long as balances stay, since nothing in the
\* repository reports their changes.
WeightsAddUp ==
    /\ \A h \in DOMAIN delegations.delegate : Last(chain(delegations.delegate, h)) \notin DOMAIN delegations.delegate
    /\ Range(delegations.delegators) = DOMAIN delegations.delegate /\ IsInjective(delegations.delegators)
    /\ \A h \in Holders :
         LET direct == {d \in DOMAIN delegations.delegate : delegations.delegate[d] = h}
         IN  delegations.subtree[h] = MapThenSumSet(get_subtree_weight, direct)

\* contracts/delegation/src/lib.rs:51 "eager cache: ultimate delegate -> sum of delegator balances". A
\* delegate that delegates for a while misses what changes below it meanwhile, so this does not hold:
\* when it is the ultimate delegate again, its delegators' power is missing, or that of others stays.
PowerIsSubtree ==
    \A h \in Holders \ DOMAIN delegations.delegate : delegations.power[h] = delegations.subtree[h]

-----------------------------------------------------------------------------
(* Snapshots of the stakes, which the staking contract reports. *)

\* calls is a history: what was called for a snapshot, in order.
SnapshotsInit ==
    snapshots = [stakes |-> [h \in Holders |-> 0], balance |-> NothingStored, total |-> NothingStored,
                 checksum |-> NothingStored, calls |-> [s \in VoteSnapshotIds |-> << >>]]

staked(stakes) == SelectSeq(SetToSeq(Holders), LAMBDA h : stakes[h] > 0)
contents(stakes) == [i \in DOMAIN staked(stakes) |-> <<staked(stakes)[i], stakes[staked(stakes)[i]]>>]

\* The staking contract, in which holders stake and withdraw.
stake_changes(h, amount) ==
    /\ snapshots' = [snapshots EXCEPT !.stakes[h] = amount]
    /\ UNCHANGED delegations

\* Mutant: the delegate is recorded, and not the balance.
snapshot_power_unmoved(id, to) == stored(delegations.power_at, <<id, to>>, 0)

\* Added to what an earlier call for this number left.
snapshot_power(id, to) ==
    LET from == {d \in DOMAIN delegations.delegate : delegations.delegate[d] = to}
    IN  stored(delegations.power_at, <<id, to>>, 0)
          + MapThenSumSet(LAMBDA d : stored(snapshots.balance, <<id, d>>, 0), from)

called_for(id, call) == [snapshots.calls EXCEPT ![id] = Append(@, call)]

\* Called by anyone, and as often as anyone likes.
snapshot_delegations(id) ==
    LET links == delegations.delegate
        powers == {<<id, to>> : to \in Range(links)}
        at == {<<id, d>> : d \in DOMAIN links}
    IN  /\ Len(snapshots.calls[id]) < MaxSnapshotCalls
        /\ delegations' = [delegations EXCEPT
             !.at_snapshot = [k \in DOMAIN @ \cup at |-> IF k \in at THEN links[k[2]] ELSE @[k]],
             !.power_at = [k \in DOMAIN @ \cup powers |->
                             IF k \in powers THEN snapshot_power(id, k[2]) ELSE @[k]]]
        /\ snapshots' = [snapshots EXCEPT !.calls = called_for(id, "delegations")]

\* The balances of those who stake now; others keep what an earlier recording stored. It ends in a
\* call of snapshot_delegations, which asks this contract for the balance of each delegator: the host
\* refuses to re-enter it, so the call only succeeds while nobody delegates.
record_snapshot(id) ==
    LET now_staked == {<<id, h>> : h \in Range(staked(snapshots.stakes))}
        balance == [k \in DOMAIN snapshots.balance \cup now_staked |->
                      IF k \in now_staked THEN snapshots.stakes[k[2]] ELSE snapshots.balance[k]]
    IN  /\ Len(snapshots.calls[id]) < MaxSnapshotCalls
        /\ delegations.delegators = << >>
        /\ snapshots' = [snapshots EXCEPT
             !.balance = balance,
             !.total = put(@, id, MapThenSumSet(LAMBDA h : snapshots.stakes[h], Holders)),
             !.checksum = put(@, id, contents(snapshots.stakes)),
             !.calls = called_for(id, "record")]
        /\ UNCHANGED delegations

get_voting_power(id, h) ==
    IF <<id, h>> \in DOMAIN delegations.at_snapshot THEN 0 ELSE stored(snapshots.balance, <<id, h>>, 0)

\* Against those who stake now, whoever they were when the snapshot was recorded.
verify_snapshot_integrity(id) ==
    LET ss == staked(snapshots.stakes) IN
    /\ id \in DOMAIN snapshots.checksum
    /\ \A h \in Range(ss) : <<id, h>> \in DOMAIN snapshots.balance
    /\ snapshots.checksum[id] = [i \in DOMAIN ss |-> <<ss[i], snapshots.balance[<<id, ss[i]>>]>>]

SnapshotsNext ==
    /\ \/ Redelegate(MaxRedelegations) /\ UNCHANGED snapshots
       \/ \E h \in Holders, a \in StakeAmounts : a # snapshots.stakes[h] /\ stake_changes(h, a)
       \/ \E id \in VoteSnapshotIds : record_snapshot(id) \/ snapshot_delegations(id)
    /\ UNCHANGED <<now, token, proxy>>

\* The protocol of a snapshot: its stakes are recorded once, and then its delegations are, if at all,
\* once. Whatever is delegated and staked before, in between and after, the voting power of all is
\* then the stake recorded: a delegated balance counts once, for the delegate. A snapshot recorded once
\* passes the check of its integrity as long as the same holders stake. No code enforces the protocol:
\* a second snapshot_delegations counts the balances again.
PowerIsConserved ==
    \A id \in VoteSnapshotIds :
      LET calls == snapshots.calls[id]
          recorded_once == Cardinality({i \in DOMAIN calls : calls[i] = "record"}) = 1
      IN  /\ calls \in {<<"record">>, <<"record", "delegations">>} =>
               MapThenSumSet(LAMBDA h : get_voting_power(id, h) + stored(delegations.power_at, <<id, h>>, 0), Holders)
                 = snapshots.total[id]
          /\ (recorded_once /\ Range(staked(snapshots.stakes)) =
                 {snapshots.checksum[id][i][1] : i \in DOMAIN snapshots.checksum[id]})
               => verify_snapshot_integrity(id)

-----------------------------------------------------------------------------
(* Staking for others. *)

\* Histories: rewards put in and paid out, how often a deposit changed after rewards were distributed,
\* and the calls, for the bound.
ProxyInit ==
    proxy = [owner |-> NothingStored, owners |-> << >>, total |-> 0, stake |-> NothingStored,
             per_share |-> 0, debt |-> [o \in ProxyOwners |-> 0], pending |-> [o \in ProxyOwners |-> 0],
             request |-> NothingStored, held |-> 0, put_in |-> 0, paid |-> 0, resized |-> 0, calls |-> 0]

proxy_called(next) == proxy.calls < MaxProxyCalls /\ proxy' = [next EXCEPT !.calls = @ + 1]

accumulated(store, o) == (stored(store.owner, o, 0) * store.per_share) \div Precision

\* Mutant: what the deposit earned so far is forgotten.
accrue_pending_never(store, o) == store

accrue_pending(store, o) ==
    [store EXCEPT !.pending[o] = @ + Max({accumulated(store, o) - store.debt[o], 0})]

\* Mutant: a larger deposit also earns what was distributed before.
reset_debt_never(store, o) == store

reset_debt(store, o) == [store EXCEPT !.debt[o] = accumulated(store, o)]

resized(store) == [store EXCEPT !.resized = @ + IF store.per_share > 0 THEN 1 ELSE 0]

\* The stake is locked from the first deposit on, and anew once all was withdrawn.
deposit_and_stake(o, amount) ==
    LET accrued == resized(accrue_pending(proxy, o)) IN
    proxy_called(reset_debt(
      [accrued EXCEPT !.owner = put(@, o, stored(@, o, 0) + amount),
                      !.owners = IF o \in DOMAIN proxy.owner THEN @ ELSE Append(@, o),
                      !.total = @ + amount, !.held = @ + amount,
                      !.stake = [amount |-> proxy.total + amount,
                                 unlock_at |-> stored(proxy.stake, "unlock_at", now + ProxyLock)]], o))

withdraw_request(o, amount) ==
    /\ o \notin DOMAIN proxy.request /\ amount <= stored(proxy.owner, o, 0)
    /\ proxy_called([proxy EXCEPT !.request = put(@, o, amount)])

\* By anyone, for the owner.
execute_withdrawal(o) ==
    LET amount == proxy.request[o]
        accrued == resized(accrue_pending(proxy, o))
    IN  /\ DOMAIN proxy.stake # {} /\ now >= proxy.stake["unlock_at"]
        /\ amount <= stored(proxy.owner, o, 0)
        /\ proxy_called(reset_debt(
             [accrued EXCEPT !.owner[o] = @ - amount, !.total = @ - amount, !.held = @ - amount,
                             !.stake = IF proxy.total = amount THEN NothingStored
                                       ELSE [amount |-> proxy.total - amount, unlock_at |-> @["unlock_at"]],
                             !.request = del(@, o)], o))

distribute_rewards(amount) ==
    /\ proxy.total > 0
    /\ proxy_called([proxy EXCEPT !.per_share = @ + (amount * Precision) \div proxy.total,
                                  !.held = @ + amount, !.put_in = @ + amount])

claim_rewards_for(o) ==
    LET settled_rewards == reset_debt(accrue_pending(proxy, o), o) IN
    /\ settled_rewards.pending[o] > 0
    /\ proxy_called([settled_rewards EXCEPT !.pending[o] = 0, !.held = @ - settled_rewards.pending[o],
                                            !.paid = @ + settled_rewards.pending[o]])

get_pending_rewards(o) == proxy.pending[o] + accumulated(proxy, o) - proxy.debt[o]

ProxyTick == CloseLedger(MaxProxyTime) /\ UNCHANGED proxy

ProxyNext ==
    /\ \/ ProxyTick
       \/ /\ \/ \E o \in ProxyOwners :
                  \/ \E a \in ProxyDeposits : deposit_and_stake(o, a) \/ withdraw_request(o, a)
                  \/ claim_rewards_for(o)
             \/ \E o \in DOMAIN proxy.request : execute_withdrawal(o)
             \/ \E a \in ProxyRewards : distribute_rewards(a)
          /\ UNCHANGED now
    /\ UNCHANGED <<token, delegations, snapshots>>

\* Deposits and rewards are kept apart: the deposits of the owners are the stake, whatever is withdrawn,
\* and what the owners may still claim is covered by the rewards put in and not paid out, but for one
\* unit that rounding may add when a deposit changes.
RewardsAreCovered ==
    LET deposits == MapThenSumSet(LAMBDA o : stored(proxy.owner, o, 0), ProxyOwners) IN
    /\ proxy.total = deposits /\ stored(proxy.stake, "amount", 0) = deposits
    /\ proxy.held = deposits + proxy.put_in - proxy.paid
    /\ MapThenSumSet(get_pending_rewards, ProxyOwners) <= proxy.put_in - proxy.paid + proxy.resized
    /\ Range(proxy.owners) = DOMAIN proxy.owner /\ IsInjective(proxy.owners)

\* What an owner may claim is never taken back: it falls only by what the owner is paid.
EarnedStays ==
    [][\A o \in ProxyOwners :
         get_pending_rewards(o)' < get_pending_rewards(o) => proxy'.paid - proxy.paid = get_pending_rewards(o)]_proxy

VotingPowerInit == TokenInit /\ DelegationsInit /\ SnapshotsInit /\ ProxyInit
====
