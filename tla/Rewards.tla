---- MODULE Rewards ----
(* What participants earn and put up: contracts/referral,                  *)
(* contracts/performance_bond, contracts/isa, contracts/prediction_market, *)
(* contracts/streak_rewards, contracts/onboarding_escrow,                  *)
(* contracts/allowance and contracts/rent_fund. The storage of a contract  *)
(* is one record with a field for each DataKey, and for histories.         *)
EXTENDS Host, Integers, Sequences, FiniteSets, FiniteSetsExt, SequencesExt

CONSTANTS
    Users, Referees,                \* referrers, and pairs of a referee and whether a mentor
    MentorReward, LearnerReward,    \* REWARD_MENTOR, REWARD_LEARNER
    FeeRewards,                     \* amounts that distribute_from_fee computes; used once, as a bound
    EpochSecs, WindowSecs,          \* LEADERBOARD_EPOCH_SECS, REFERRAL_VELOCITY_WINDOW_SECS
    BoardSize, SuspiciousAbove,     \* LEADERBOARD_MAX_SIZE, the threshold of suspicious patterns
    BonusCount, BonusAmount,        \* TOP_REFERRER_BONUS_COUNT, BONUS_MNT
    RankingSize,                    \* entries that contracts/referral_leaderboard keeps
    ReferralConfigs, DefaultReferralConfig,
    MaxReferralTime,                \* bound
    BondAmounts, MinBond, CooldownChoices, MaxBonds, MaxBondTime,
    IsaTerms, Incomes, Periods, MaxMissedPayments, MaxIsas, MaxIsaTime,
    FixedPointScale, Liquidity, HugeValue,  \* FIXED_POINT_SCALE, the parameter b, i128::MAX
    BetAmounts, Bettors, ResolutionDates, MaxMarkets, MaxBets, MaxMarketTime,
    StreakWeeks, StreakBoard,       \* weeks of sessions, and the leaderboard's size
    AllowanceTerms, PullAmounts, MaxPulls, MaxAllowanceTime,
    RentAmounts, RentThresholds, MonthlyRent, MaxRent

\* Amounts, limits and durations are unsigned or checked to be positive.
ASSUME RewardsAssumption ==
    /\ IsFiniteSet(Users)
    /\ BondAmounts \subseteq Nat \ {0} /\ MinBond \in Nat /\ CooldownChoices \subseteq Nat
    /\ AllowanceTerms \subseteq [amount : Nat, periods : Nat, secs : Nat] /\ PullAmounts \subseteq Nat
    /\ RentAmounts \subseteq Nat /\ RentThresholds \subseteq Nat /\ MonthlyRent \in Nat
    /\ StreakWeeks \in Nat /\ StreakBoard \in Nat \ {0}

VARIABLES referral, bonds, isas, markets, streaks, onboarding, allowances, rent

reward_vars == <<referral, bonds, isas, markets, streaks, onboarding, allowances, rent>>

-----------------------------------------------------------------------------
(* Referrals. *)

\* minted is a history variable: what the token was told to mint.
InitialReferral ==
    [config |-> DefaultReferralConfig,
     info |-> NothingStored, count |-> [u \in Users |-> 0],
     pending |-> [u \in Users |-> 0], suspicious |-> [u \in Users |-> 0],
     epoch_count |-> NothingStored, top |-> NothingStored, bonus |-> {},
     lifetime |-> [u \in Users |-> 0], global |-> 0,
     window |-> NothingStored, mine |-> NothingStored, minted |-> 0,
     ranking |-> << >>]

ReferralInit == referral = InitialReferral

current_epoch == now \div EpochSecs
velocity_window == now \div WindowSecs

epoch_referrals(e, u) == stored(referral.epoch_count, <<e, u>>, 0)
top_referrers(e) == stored(referral.top, e, << >>)

\* Bubble sort by falling count; entries with equal counts keep their order: every entry goes
\* behind those that come before it.
comes_before(lb, i, j) == lb[i].n > lb[j].n \/ (lb[i].n = lb[j].n /\ i < j)
rank_of(lb, i) == Cardinality({j \in DOMAIN lb : comes_before(lb, j, i)}) + 1

sort_leaderboard(lb) == [k \in DOMAIN lb |-> lb[CHOOSE i \in DOMAIN lb : rank_of(lb, i) = k]]

\* Mutant: the latest referrer takes the last place whatever its count.
entered_always(lb, e, limit) ==
    LET at == {i \in DOMAIN lb : lb[i].who = e.who} IN
    IF at # {} THEN [lb EXCEPT ![Min(at)] = e]
    ELSE IF Len(lb) < limit THEN Append(lb, e) ELSE [lb EXCEPT ![Len(lb)] = e]

\* The referrer's entry is replaced, or added while there is room, or takes the last place if its
\* count is greater.
entered(lb, e, limit) ==
    LET at == {i \in DOMAIN lb : lb[i].who = e.who} IN
    IF at # {} THEN [lb EXCEPT ![Min(at)] = e]
    ELSE IF Len(lb) < limit THEN Append(lb, e)
    ELSE IF e.n > lb[Len(lb)].n THEN [lb EXCEPT ![Len(lb)] = e] ELSE lb

record_epoch_referral(store, u) ==
    LET n == epoch_referrals(current_epoch, u) + 1 IN
    [store EXCEPT !.epoch_count = put(@, <<current_epoch, u>>, n),
                  !.top = put(@, current_epoch,
                              sort_leaderboard(entered(top_referrers(current_epoch), [who |-> u, n |-> n],
                                                       BoardSize)))]

register_referral(u, referee, mentor) ==
    /\ u # referee /\ referee \notin DOMAIN referral.info
    /\ referral' = record_epoch_referral(
         [referral EXCEPT !.info = put(@, referee, [referrer |-> u, mentor |-> mentor, completed |-> FALSE]),
                          !.count[u] = @ + 1], u)

\* Selection sort by falling count: the first of the greatest changes places with the entry at i.
selection_sort(lb) ==
    LET largest(s, i) == Min({j \in i..Len(s) : \A k \in i..Len(s) : s[j].n >= s[k].n})
        swap(s, i) == [s EXCEPT ![i] = s[largest(s, i)], ![largest(s, i)] = s[i]]
    IN  FoldLeft(swap, lb, [i \in DOMAIN lb |-> i])

\* contracts/referral_leaderboard, which only the referral contract may call.
record_referral(lb, u, n) ==
    LET others == SelectSeq(lb, LAMBDA e : e.who # u)
        sorted == selection_sort(Append(others, [who |-> u, n |-> n]))
    IN  SubSeq(sorted, 1, Min({Len(sorted), RankingSize}))

get_multiplier(u) ==
    LET rank == {i \in DOMAIN referral.ranking : referral.ranking[i].who = u} IN
    IF rank = {} THEN 10000
    ELSE CASE Min(rank) <= 3 -> 20000 [] Min(rank) <= 10 -> 15000 [] OTHER -> 12500

\* The leaderboard contract is told the referrer's count of all referrals.
fulfill_referral(referee) ==
    LET i == referral.info[referee] IN
    /\ ~i.completed
    /\ referral' = [referral EXCEPT !.info[referee].completed = TRUE,
                                    !.ranking = record_referral(@, i.referrer, referral.count[i.referrer]),
                                    !.pending[i.referrer] = @ + (IF i.mentor THEN MentorReward ELSE LearnerReward)]

distribute_from_fee(u, reward) ==
    /\ reward > 0
    /\ referral' = [referral EXCEPT !.pending[u] = @ + reward]

is_suspicious_referral_pattern(u) ==
    \/ epoch_referrals(current_epoch, u) > SuspiciousAbove
    \/ current_epoch > 0 /\ epoch_referrals(current_epoch - 1, u) > SuspiciousAbove

\* Set aside for a review, which no operation makes.
claim_set_aside(u) ==
    /\ referral.pending[u] > 0 /\ is_suspicious_referral_pattern(u)
    /\ referral' = [referral EXCEPT !.suspicious[u] = @ + referral.pending[u], !.pending[u] = 0]

get_multiplier_internal(u) ==
    LET lb == top_referrers(current_epoch)
        at == {i \in DOMAIN lb : lb[i].who = u}
    IN  IF at = {} THEN 1 ELSE CASE Min(at) = 1 -> 10 [] Min(at) = 2 -> 5 [] Min(at) = 3 -> 3 [] OTHER -> 2

\* assess_token_velocity: the emission of the window against the cap, and the referrer's share of it.
token_velocity_risk(velocity_bps, concentration_bps) ==
    (IF velocity_bps > 2500 THEN 35 ELSE 0) + (IF concentration_bps > 3000 THEN 35 ELSE 0)
      + (IF velocity_bps > 5000 THEN 20 ELSE 0)

window_minted(w) == stored(referral.window, w, 0)
referrer_minted(w, u) == stored(referral.mine, <<w, u>>, 0)

\* A first claim of a window is all of it and always concentrated.
assess_mint_velocity(u, amount) ==
    LET total == window_minted(velocity_window) + amount
        mine == referrer_minted(velocity_window, u) + amount
        velocity_bps == (total * 10000) \div referral.config.global_cap
        concentration_bps == IF total > 0 /\ mine > 0 THEN (mine * 10000) \div total ELSE 0
    IN  token_velocity_risk(velocity_bps, concentration_bps)

\* Mutant: the mint is only added to the referrer's part of the window.
window_minted_alone(store, u, amount) ==
    [store EXCEPT !.mine = put(@, <<velocity_window, u>>, referrer_minted(velocity_window, u) + amount)]

record_window_mint(store, u, amount) ==
    [store EXCEPT !.window = put(@, velocity_window, window_minted(velocity_window) + amount),
                  !.mine = put(@, <<velocity_window, u>>, referrer_minted(velocity_window, u) + amount)]

\* Mutant: the referrer's own limit is forgotten.
payable_by_platform(u, amount) == Min({amount, referral.config.global_cap - referral.global})

\* What the limits leave; nothing is payable once one of them is reached.
payable(u, amount) ==
    Min({amount, referral.config.max_lifetime - referral.lifetime[u],
         referral.config.global_cap - referral.global})

\* The limits apply to the amount that is booked; what is minted is the pending reward times the
\* rank's multiplier. A claim that would need stabilization is put off and changes nothing.
claim_reward(u) ==
    LET p == referral.pending[u]
        amount == payable(u, (p * Min({get_multiplier(u), referral.config.max_bps})) \div 10000)
    IN  /\ p > 0 /\ ~is_suspicious_referral_pattern(u)
        /\ assess_mint_velocity(u, amount) < 70
        /\ amount > 0
        /\ referral' = record_window_mint(
             [referral EXCEPT !.pending[u] = 0, !.lifetime[u] = @ + amount, !.global = @ + amount,
                              !.minted = @ + p * get_multiplier_internal(u)], u, amount)

distribute_epoch_bonus ==
    LET e == current_epoch - 1
        lb == top_referrers(e)
        best == {lb[i].who : i \in 1..Min({Len(lb), BonusCount})}
    IN  /\ e >= 0 /\ e \notin referral.bonus
        /\ referral' = [referral EXCEPT !.bonus = @ \cup {e},
                                        !.minted = @ + Cardinality(best) * BonusAmount]

set_referral_config(c) == referral' = [referral EXCEPT !.config = c]

ReferralTick == CloseLedger(MaxReferralTime) /\ UNCHANGED referral

ReferralNext ==
    /\ \/ ReferralTick
       \/ /\ \/ \E u \in Users, r \in Referees : register_referral(u, r[1], r[2])
             \/ \E r \in DOMAIN referral.info : fulfill_referral(r)
             \/ \E u \in Users :
                  \/ claim_set_aside(u) \/ claim_reward(u)
                  \/ \E x \in FeeRewards : referral = InitialReferral /\ distribute_from_fee(u, x)
             \/ distribute_epoch_bonus
             \/ \E c \in ReferralConfigs : set_referral_config(c)
          /\ UNCHANGED now
    /\ UNCHANGED <<bonds, isas, markets, streaks, onboarding, allowances, rent>>

\* Every referral is counted once in its referrer's total and once in an epoch, and the leaderboard
\* of an epoch names those with the most referrals of that epoch in falling order: nobody it leaves
\* out has more than the last it names, and nobody appears twice.
LeadersLead ==
    /\ \A u \in Users :
         LET epochs == {k \in DOMAIN referral.epoch_count : k[2] = u} IN
         /\ referral.count[u] = Cardinality({r \in DOMAIN referral.info : referral.info[r].referrer = u})
         /\ referral.count[u] = MapThenSumSet(LAMBDA k : referral.epoch_count[k], epochs)
    /\ \A e \in DOMAIN referral.top :
         LET lb == referral.top[e]
             named == {lb[i].who : i \in DOMAIN lb}
         IN  /\ Cardinality(named) = Len(lb) /\ Len(lb) <= BoardSize
             /\ \A i \in DOMAIN lb : lb[i].n = epoch_referrals(e, lb[i].who)
             /\ \A i, j \in DOMAIN lb : i < j => lb[i].n >= lb[j].n
             /\ \A u \in Users \ named : Len(lb) > 0 => epoch_referrals(e, u) <= lb[Len(lb)].n

\* What was ever booked is the sum of what the referrers booked, of the windows, and of the
\* referrers' parts of the windows; under the limits it was booked under it passes none.
BookedIsBounded ==
    LET sum(f) == MapThenSumSet(LAMBDA k : f[k], DOMAIN f) IN
    /\ referral.global = sum(referral.lifetime)
    /\ referral.global = sum(referral.window)
    /\ referral.global = sum(referral.mine)
    /\ \E c \in ReferralConfigs \cup {DefaultReferralConfig} :
         referral.global <= c.global_cap /\ \A u \in Users : referral.lifetime[u] <= c.max_lifetime

\* contracts/referral/src/lib.rs:63 "Global cap on total MNT that can ever be minted through
\* referrals": the multiplier of the rank is applied to the minted amount only, and the limits are
\* applied to the booked amount, so this does not hold.
MintedIsBounded == referral.minted <= DefaultReferralConfig.global_cap

-----------------------------------------------------------------------------
(* Performance bonds. *)

\* posted is a history variable: for a bonded mentor, the amount it posted.
BondsInit ==
    bonds = [bond |-> NothingStored, index |-> << >>, slashes |-> [u \in Users |-> << >>],
             slash_count |-> [u \in Users |-> 0], perfect |-> [u \in Users |-> 0],
             cooldown |-> 1, held |-> 0, insured |-> 0, posted |-> NothingStored]

clock == now + 1    \* the ledger's timestamp is never 0, which marks a bond that was not slashed

set_param(c) == bonds' = [bonds EXCEPT !.cooldown = c]

post_bond(u, amount) ==
    /\ amount >= MinBond /\ u \notin DOMAIN bonds.bond
    /\ Len(bonds.index) < MaxBonds
    /\ bonds' = [bonds EXCEPT
         !.bond = put(@, u, [amount |-> amount, posted_at |-> clock, last_slash_at |-> 0, slash_count |-> 0]),
         !.index = Append(@, u), !.held = @ + amount, !.posted = put(@, u, amount)]

\* Mutant: only the latest slash is counted.
slashed_bond_afresh(b, amount) ==
    [b EXCEPT !.amount = @ - amount, !.last_slash_at = clock, !.slash_count = 1]

slashed_bond(b, amount) ==
    [b EXCEPT !.amount = @ - amount, !.last_slash_at = clock, !.slash_count = @ + 1]

\* A bond that is used up is removed, and its mentor may post another at once.
slash_bond(u, amount) ==
    LET b == slashed_bond(bonds.bond[u], amount) IN
    /\ amount <= bonds.bond[u].amount
    /\ bonds' = [bonds EXCEPT
         !.bond = IF b.amount = 0 THEN del(@, u) ELSE put(@, u, b),
         !.slashes[u] = Append(@, [amount |-> amount, at |-> clock, nth |-> b.slash_count]),
         !.slash_count[u] = @ + 1, !.perfect[u] = 0,
         !.held = @ - amount, !.insured = @ + amount]

record_perfect_session(u) ==
    /\ bonds.perfect[u] = 0     \* bound
    /\ bonds' = [bonds EXCEPT !.perfect[u] = @ + 1]

\* Mutant: a slashed bond may leave as early as any other.
cooled_since_posting(b) == clock >= b.posted_at + bonds.cooldown

cooled(b) == clock >= (IF b.last_slash_at > 0 THEN b.last_slash_at ELSE b.posted_at) + bonds.cooldown

release_bond(u) ==
    /\ cooled(bonds.bond[u])
    /\ bonds' = [bonds EXCEPT !.bond = del(@, u), !.held = @ - bonds.bond[u].amount]

BondTick == CloseLedger(MaxBondTime) /\ UNCHANGED bonds

BondsNext ==
    /\ \/ BondTick
       \/ /\ \/ \E c \in CooldownChoices : set_param(c)
             \/ \E u \in Users :
                  \/ \E a \in BondAmounts : post_bond(u, a)
                  \/ record_perfect_session(u)
             \/ \E u \in DOMAIN bonds.bond :
                  \/ \E a \in BondAmounts : slash_bond(u, a)
                  \/ release_bond(u)
          /\ UNCHANGED now
    /\ UNCHANGED <<referral, isas, markets, streaks, onboarding, allowances, rent>>

\* The tokens held are the bonds, every bonded mentor is indexed, and the last slashes of a bonded
\* mentor, as many as its record counts, and the bond add up to what it posted.
BondsAreHeld ==
    /\ bonds.held = SumFunctionOnSet([u \in DOMAIN bonds.bond |-> bonds.bond[u].amount], DOMAIN bonds.bond)
    /\ \A u \in DOMAIN bonds.bond :
         LET h == bonds.slashes[u]
             before == Len(h) - bonds.bond[u].slash_count
         IN  /\ \E i \in DOMAIN bonds.index : bonds.index[i] = u
             /\ bonds.bond[u].amount
                  + SumFunctionOnSet([i \in DOMAIN h |-> h[i].amount], before + 1 .. Len(h)) = bonds.posted[u]
             /\ \A i \in before + 1 .. Len(h) : h[i].nth = i - before
    /\ \A u \in Users : Len(bonds.slashes[u]) = bonds.slash_count[u]

\* A bond leaves only after it was left alone for the cooldown in force: nobody slashed it within.
BondsCool ==
    [][\A u \in DOMAIN bonds.bond :
         (u \notin DOMAIN bonds'.bond /\ bonds'.insured = bonds.insured) =>
           \A i \in DOMAIN bonds.slashes[u] :
             i > Len(bonds.slashes[u]) - bonds.bond[u].slash_count =>
               clock >= bonds.slashes[u][i].at + bonds.cooldown]_bonds

-----------------------------------------------------------------------------
(* Income share agreements. *)

\* paid is a history variable: what was paid for each agreement, one entry for each payment.
IsasInit ==
    isas = [isa |-> << >>, processed |-> {}, paid |-> << >>,
            by_status |-> [s \in {"Active", "Completed", "Defaulted"} |-> << >>]]

cap_amount(i) == (i.funded * i.cap_multiple) \div 100

create_isa(t) ==
    /\ Len(isas.isa) < MaxIsas
    /\ t.funded > 0 /\ t.share_pct \in 1..10000 /\ t.cap_multiple >= 100 /\ t.duration > 0
    /\ isas' = [isas EXCEPT
         !.isa = Append(@, [funded |-> t.funded, share_pct |-> t.share_pct, cap_multiple |-> t.cap_multiple,
                            expires_at |-> now + t.duration, total_shared |-> 0, active |-> TRUE,
                            reason |-> "None", missed |-> 0, last_period |-> 0]),
         !.by_status["Active"] = Append(@, Len(isas.isa) + 1), !.paid = Append(@, << >>)]

\* The lists only grow: an agreement stays in the list of the active ones.
update_status_index(store, id, status) == [store EXCEPT !.by_status[status] = Append(@, id)]

ended(store, id, reason) ==
    update_status_index([store EXCEPT !.isa[id].active = FALSE, !.isa[id].reason = reason], id,
                        IF reason = "Defaulted" THEN "Defaulted" ELSE "Completed")

\* Mutant: an agreement that has ended is ended again.
may_expire_again(i) == now >= i.expires_at

may_expire(i) == i.active /\ now >= i.expires_at

check_isa_expiry(id) == may_expire(isas.isa[id]) /\ isas' = ended(isas, id, "DurationExpired")

share_due(i, income) == (income * i.share_pct) \div 10000
remaining_cap(i) == Max({cap_amount(i) - i.total_shared, 0})

\* Mutant: the last payment may exceed what is left.
payout_in_full(i, earning) == share_due(i, earning)

payout(i, earning) == Min({share_due(i, earning), remaining_cap(i)})

shared(store, id, amount) ==
    LET next == [store EXCEPT !.isa[id].total_shared = @ + amount,
                              !.paid[id] = IF amount > 0 THEN Append(@, amount) ELSE @]
    IN  IF next.isa[id].total_shared >= cap_amount(next.isa[id]) THEN ended(next, id, "CapReached") ELSE next

\* An earning after the end only ends the agreement. The cap cannot be reached beforehand: the
\* payment that reaches it ends the agreement.
record_earning(id, earning) ==
    LET i == isas.isa[id] IN
    /\ i.active
    /\ isas' = IF may_expire(i) THEN ended(isas, id, "DurationExpired")
               ELSE shared(isas, id, payout(i, earning))

\* Unlike an earning, an attested income whose share exceeds what is left is refused; a period whose
\* share is nothing is processed and does not end the row of missed payments.
record_payment(id, period, income) ==
    LET i == isas.isa[id]
        noted == [isas EXCEPT !.processed = @ \cup {<<id, period>>}, !.isa[id].last_period = period]
        due == share_due(i, income)
    IN  /\ i.active /\ <<id, period>> \notin isas.processed
        /\ ~may_expire(i) => due <= remaining_cap(i)
        /\ isas' = IF may_expire(i) THEN ended(noted, id, "DurationExpired")
                   ELSE shared(IF due > 0 THEN [noted EXCEPT !.isa[id].missed = 0] ELSE noted, id, due)

record_missed_payment(id) ==
    /\ isas.isa[id].active /\ isas.isa[id].missed <= MaxMissedPayments     \* bound
    /\ isas' = [isas EXCEPT !.isa[id].missed = @ + 1]

check_default(id) ==
    /\ isas.isa[id].active /\ isas.isa[id].missed > MaxMissedPayments
    /\ isas' = ended(isas, id, "Defaulted")

IsaTick == CloseLedger(MaxIsaTime) /\ UNCHANGED isas

IsasNext ==
    /\ \/ IsaTick
       \/ /\ \/ \E t \in IsaTerms : create_isa(t)
             \/ \E id \in DOMAIN isas.isa :
                  \/ check_isa_expiry(id) \/ record_missed_payment(id) \/ check_default(id)
                  \/ \E x \in Incomes :
                       record_earning(id, x) \/ \E n \in Periods : record_payment(id, n, x)
          /\ UNCHANGED now
    /\ UNCHANGED <<referral, bonds, markets, streaks, onboarding, allowances, rent>>

\* A learner never shares more than the cap; what the record says was shared is what was paid; and an
\* agreement has ended for exactly the reason that holds, in one list of its final status once.
SharesAreCapped ==
    \A id \in DOMAIN isas.isa :
      LET i == isas.isa[id]
          times(s) == Cardinality({k \in DOMAIN isas.by_status[s] : isas.by_status[s][k] = id})
      IN  /\ i.total_shared <= cap_amount(i)
          /\ i.total_shared = FoldSeq(LAMBDA a, x : a + x, 0, isas.paid[id])
          /\ i.active <=> i.reason = "None"
          /\ i.total_shared = cap_amount(i) <=> i.reason = "CapReached"
          /\ i.reason = "DurationExpired" => now >= i.expires_at
          /\ i.reason = "Defaulted" <=> times("Defaulted") = 1
          /\ i.reason \in {"CapReached", "DurationExpired"} <=> times("Completed") = 1
          /\ times("Completed") + times("Defaulted") <= 1

-----------------------------------------------------------------------------
(* Prediction markets. *)

\* held is what the contract holds of the token, which all markets of the model are in.
MarketsInit ==
    markets = [market |-> << >>, bet |-> NothingStored, held |-> 0, votes |-> {}, proof |-> {}]

\* Up to ten terms x^n / n, where the exponential's have n!, in the smallest unit.
exp_fixed_point(x) ==
    LET power[n \in 1..10] == IF n = 1 THEN x ELSE (power[n - 1] * x) \div FixedPointScale
        term(n) == (power[n] \div n) \div FixedPointScale
        last == Min({n \in 1..10 : term(n) = 0} \cup {11}) - 1
    IN  CASE x = 0 -> FixedPointScale
          [] x > 5 * FixedPointScale -> HugeValue \div 2
          [] OTHER -> FixedPointScale + MapThenSumSet(term, 1..last)

\* Ten steps of (x - e^y) / e^y in the smallest unit, which therefore come to little.
ln_fixed_point(x) ==
    LET step(y) == y + (x - exp_fixed_point(y)) \div exp_fixed_point(y)
        y[n \in 0..10] == IF n = 0 THEN 0 ELSE step(y[n - 1])
    IN  IF x = FixedPointScale THEN 0 ELSE y[10]

scaled(q) == (q * FixedPointScale) \div Liquidity

lmsr_cost(q_yes, q_no) ==
    (Liquidity * ln_fixed_point(exp_fixed_point(scaled(q_yes)) + exp_fixed_point(scaled(q_no))))
      \div FixedPointScale

get_yes_price_bps(q_yes, q_no) ==
    LET yes == exp_fixed_point(scaled(q_yes))
        sum == yes + exp_fixed_point(scaled(q_no))
        price == IF sum = 0 THEN FixedPointScale \div 2 ELSE (yes * FixedPointScale) \div sum
    IN  Min({(price * 10000) \div FixedPointScale, 10000})

create_market(date, multi) ==
    /\ Len(markets.market) < MaxMarkets /\ date > now
    /\ markets' = [markets EXCEPT
         !.market = Append(@, [date |-> date, yes |-> 0, no |-> 0, resolved |-> FALSE,
                               outcome |-> "none", multi |-> multi])]

pool_after(k, outcome, amount) ==
    IF outcome = "yes" THEN [k EXCEPT !.yes = @ + amount] ELSE [k EXCEPT !.no = @ + amount]

\* The bettor pays the amount whatever the market maker asks. A second bet takes the place of the
\* first one, whose amount stays in the pool.
place_bet(b, id, outcome, amount) ==
    LET k == markets.market[id]
        next == pool_after(k, outcome, amount)
    IN  /\ ~k.resolved /\ now < k.date
        /\ MapThenSumSet(LAMBDA i : markets.market[i].yes + markets.market[i].no, DOMAIN markets.market)
             + amount <= MaxBets    \* bound
        /\ lmsr_cost(next.yes, next.no) - lmsr_cost(k.yes, k.no) <= amount
        /\ markets' = [markets EXCEPT
             !.market[id] = next, !.held = @ + amount,
             !.bet = put(@, <<b, id>>, [outcome |-> outcome, amount |-> amount, claimed |-> FALSE])]

\* By the market's oracle. With several oracles asked for, the first of them decides as well.
resolve_market(id, outcome) ==
    LET k == markets.market[id] IN
    /\ ~k.resolved /\ now >= k.date
    /\ k.multi => id \notin markets.votes
    /\ markets' = [markets EXCEPT !.market[id].resolved = TRUE, !.market[id].outcome = outcome,
                                  !.votes = IF k.multi THEN @ \cup {id} ELSE @, !.proof = @ \cup {id}]

\* Nothing is paid back: without an outcome no bet can be claimed.
cancel_market(id) ==
    /\ ~markets.market[id].resolved
    /\ markets' = [markets EXCEPT !.market[id].resolved = TRUE]

winning_pool(k) == IF k.outcome = "yes" THEN k.yes ELSE k.no
losing_pool(k) == IF k.outcome = "yes" THEN k.no ELSE k.yes

\* Mutant: every winner is paid all of the losing pool.
total_payout_whole(k, b) == b.amount + losing_pool(k)

\* The bet and its share of the losing pool after a fee of 200 basis points, rounded down.
total_payout(k, b) ==
    LET net_winnings == losing_pool(k) - (losing_pool(k) * 200) \div 10000
    IN  b.amount + (net_winnings * b.amount) \div winning_pool(k)

claim_winnings(b, id) ==
    LET k == markets.market[id]
        bet == markets.bet[<<b, id>>]
    IN  /\ k.resolved /\ ~bet.claimed /\ k.outcome = bet.outcome
        /\ total_payout(k, bet) <= markets.held
        /\ markets' = [markets EXCEPT !.bet[<<b, id>>].claimed = TRUE, !.held = @ - total_payout(k, bet)]

MarketTick == CloseLedger(MaxMarketTime) /\ UNCHANGED markets

MarketsNext ==
    /\ \/ MarketTick
       \/ /\ \/ \E d \in ResolutionDates, multi \in BOOLEAN : create_market(d, multi)
             \/ \E id \in DOMAIN markets.market :
                  \/ \E o \in {"yes", "no"} :
                       \/ resolve_market(id, o)
                       \/ \E b \in Bettors, a \in BetAmounts : place_bet(b, id, o, a)
                  \/ cancel_market(id)
             \/ \E k \in DOMAIN markets.bet : claim_winnings(k[1], k[2])
          /\ UNCHANGED now
    /\ UNCHANGED <<referral, bonds, isas, streaks, onboarding, allowances, rent>>

\* The contract can pay every winner that has not claimed, in any order, and still holds the pools of
\* every market that has not been decided. The outcome that more was bet on is not the cheaper one.
MarketsAreSolvent ==
    LET open == {id \in DOMAIN markets.market : markets.market[id].outcome = "none"}
        due == {k \in DOMAIN markets.bet :
                  /\ k[2] \notin open /\ ~markets.bet[k].claimed
                  /\ markets.bet[k].outcome = markets.market[k[2]].outcome}
    IN  /\ markets.held >= MapThenSumSet(LAMBDA id : markets.market[id].yes + markets.market[id].no, open)
                           + MapThenSumSet(LAMBDA k : total_payout(markets.market[k[2]], markets.bet[k]), due)
        /\ \A id \in DOMAIN markets.market :
             LET k == markets.market[id] IN
             (k.yes > k.no) => get_yes_price_bps(k.yes, k.no) >= get_yes_price_bps(k.no, k.yes)

-----------------------------------------------------------------------------
(* Streaks of weekly sessions. *)

\* weeks and claims are histories: the weeks counted for a learner, and its claims.
StreaksInit ==
    streaks = [record |-> [u \in Users |-> [current |-> 0, longest |-> 0, last |-> 0, claimed |-> FALSE]],
               board |-> << >>, weeks |-> [u \in Users |-> {}], claims |-> [u \in Users |-> << >>]]

\* Mutant: a session of an earlier week starts a streak again.
extended_backwards(r, week) ==
    IF week = r.last + 1 THEN [r EXCEPT !.current = @ + 1, !.claimed = FALSE]
    ELSE [r EXCEPT !.current = 1, !.claimed = FALSE]

\* The next week extends the streak, a later one starts another; others count for nothing.
extended(r, week) ==
    IF week = r.last + 1 THEN [r EXCEPT !.current = @ + 1, !.claimed = FALSE]
    ELSE IF week > r.last + 1 THEN [r EXCEPT !.current = 1, !.claimed = FALSE]
    ELSE r

\* Also for a learner whose streak fell; those that were pushed out do not return by that.
update_leaderboard(lb, u, streak) ==
    LET next == entered(lb, [who |-> u, n |-> streak], StreakBoard) IN
    IF (\A i \in DOMAIN lb : lb[i].who # u) /\ next = lb THEN lb ELSE sort_leaderboard(next)

record_session(u, week) ==
    LET r == extended(streaks.record[u], week) IN
    /\ r # streaks.record[u]
    /\ streaks' = [streaks EXCEPT
         !.record[u] = [r EXCEPT !.last = week, !.longest = Max({r.current, r.longest})],
         !.board = update_leaderboard(@, u, r.current), !.weeks[u] = @ \cup {week}]

streak_reward(n) == CASE n <= 3 -> 5 [] n <= 11 -> 25 [] n <= 51 -> 100 [] OTHER -> 500

claim_streak_reward(u) ==
    LET r == streaks.record[u] IN
    /\ ~r.claimed /\ r.current > 0
    /\ streaks' = [streaks EXCEPT !.record[u].claimed = TRUE,
                                  !.claims[u] = Append(@, streak_reward(r.current))]

StreaksNext ==
    /\ \E u \in Users : claim_streak_reward(u) \/ \E w \in 0..StreakWeeks : record_session(u, w)
    /\ UNCHANGED <<now, referral, bonds, isas, markets, onboarding, allowances, rent>>

\* A learner is rewarded at most once for a week with a session and the streak is the row of weeks
\* that ends with the last; the leaderboard shows current streaks in falling order.
StreaksAreWeeks ==
    /\ \A u \in Users :
         LET r == streaks.record[u] IN
         /\ Len(streaks.claims[u]) <= Cardinality(streaks.weeks[u])
         /\ (r.last - r.current + 1)..r.last \subseteq streaks.weeks[u] \cup {0}
         /\ r.current > 0 => r.last - r.current \notin streaks.weeks[u] \ {0}
         /\ r.current <= r.longest
    /\ \A i \in DOMAIN streaks.board : streaks.board[i].n = streaks.record[streaks.board[i].who].current
    /\ \A i, j \in DOMAIN streaks.board :
         i < j => streaks.board[i].who # streaks.board[j].who /\ streaks.board[i].n >= streaks.board[j].n

-----------------------------------------------------------------------------
(* Onboarding, recurring allowances and rent. *)

Steps == {"Verified", "Bonded", "FirstSessionCompleted"}

OnboardingInit == onboarding = [status |-> NothingStored, extended |-> {}]

init_mentor(u) ==
    /\ u \notin DOMAIN onboarding.status
    /\ onboarding' = [onboarding EXCEPT !.status = put(@, u, [done |-> {}, complete |-> FALSE]),
                                        !.extended = @ \cup {u}]

\* Mutant: a bond is not asked for.
remaining_steps_unbonded(done) == Steps \ (done \cup {"Bonded"})

remaining_steps(done) == Steps \ done

\* A first escrow stays extended also when the onboarding is complete.
complete_onboarding_step(u, step) ==
    LET done == onboarding.status[u].done \cup {step} IN
    /\ ~onboarding.status[u].complete
    /\ onboarding' = [onboarding EXCEPT
         !.status[u] = [done |-> done, complete |-> remaining_steps(done) = {}]]

AllowancesInit == allowances = [record |-> NothingStored, pulls |-> NothingStored]

\* Also over an allowance that is partly used, which starts afresh. pulls is a history.
authorize(o, s, t) ==
    /\ t.amount > 0 /\ t.periods > 0 /\ t.secs > 0
    /\ allowances' = [allowances EXCEPT
         !.record = put(@, <<o, s>>, [amount |-> t.amount, periods |-> t.periods, secs |-> t.secs,
                                      used |-> 0, last_pull |-> 0]),
         !.pulls = put(@, <<o, s>>, << >>)]

\* Mutant: the last period is not waited for.
pull_is_due_later(r) == r.used > 1 => now >= r.last_pull + r.secs

pull_is_due(r) == r.used > 0 => now >= r.last_pull + r.secs

pull_payment(k, amount) ==
    LET r == allowances.record[k] IN
    /\ r.used < r.periods /\ amount <= r.amount /\ pull_is_due(r)
    /\ allowances' = [allowances EXCEPT !.record[k].used = @ + 1, !.record[k].last_pull = now,
                                        !.pulls[k] = Append(@, [amount |-> amount, at |-> now])]

revoke_allowance(k) == allowances' = [allowances EXCEPT !.record = del(@, k), !.pulls = del(@, k)]

\* Balances are entries of the books: no token is moved by a deposit or by a topup.
RentInit == rent = [balance |-> NothingStored, threshold |-> NothingStored]

deposit_rent(c, amount) ==
    /\ stored(rent.balance, c, 0) + amount <= MaxRent
    /\ rent' = [rent EXCEPT !.balance = put(@, c, stored(rent.balance, c, 0) + amount)]

\* Mutant: the topup is the difference alone, of the month before.
topped_up_short(threshold) == threshold - MonthlyRent

topped_up(threshold) == threshold + MonthlyRent

auto_topup(c) ==
    LET threshold == stored(rent.threshold, c, 3 * MonthlyRent) IN
    /\ stored(rent.balance, c, 0) < threshold
    /\ rent' = [rent EXCEPT !.balance = put(@, c, topped_up(threshold))]

set_auto_topup_threshold(c, threshold) == rent' = [rent EXCEPT !.threshold = put(@, c, threshold)]

AllowanceTick == CloseLedger(MaxAllowanceTime) /\ UNCHANGED <<onboarding, allowances, rent>>

\* The three have nothing in common: steps of the others do not interleave with the allowances'.
AllowancesNext ==
    /\ \/ AllowanceTick
       \/ /\ \/ \E u \in Users, s \in {"s1"} :
                  \E t \in AllowanceTerms : authorize(u, s, t)
             \/ \E k \in DOMAIN allowances.record :
                  revoke_allowance(k) \/ \E a \in PullAmounts : pull_payment(k, a)
          /\ UNCHANGED <<now, onboarding, rent>>
    /\ UNCHANGED <<referral, bonds, isas, markets, streaks>>

UpkeepNext ==
    /\ \/ /\ \/ \E u \in Users : init_mentor(u)
             \/ \E u \in DOMAIN onboarding.status, s \in Steps : complete_onboarding_step(u, s)
          /\ UNCHANGED rent
       \/ /\ \E c \in {"c1"} :
               \/ \E a \in RentAmounts : deposit_rent(c, a)
               \/ auto_topup(c)
               \/ \E t \in RentThresholds : set_auto_topup_threshold(c, t)
          /\ UNCHANGED onboarding
    /\ UNCHANGED <<now, referral, bonds, isas, markets, streaks, allowances>>

\* Since it was authorised, an allowance was pulled as often as the record says, never more than its
\* limits, and never twice within a period.
PullsAreSpaced ==
    \A k \in DOMAIN allowances.record :
      LET r == allowances.record[k]
          p == allowances.pulls[k]
      IN  /\ Len(p) = r.used /\ r.used <= r.periods
          /\ SumFunctionOnSet([i \in DOMAIN p |-> p[i].amount], DOMAIN p) <= r.amount * r.periods
          /\ \A i, j \in DOMAIN p : i < j => p[j].at >= p[i].at + r.secs

\* A mentor is through its onboarding only with every step done, and it does not fall back.
OnboardingIsComplete ==
    [][\A u \in DOMAIN onboarding'.status :
         onboarding'.status[u].complete <=> onboarding'.status[u].done = Steps]_onboarding

\* A balance that a topup raised is above the threshold in force, so that it takes a higher threshold
\* before the contract is topped up again.
TopupsSuffice ==
    [][\A c \in DOMAIN rent'.balance :
         LET before == stored(rent.balance, c, 0)
             threshold == stored(rent.threshold, c, 3 * MonthlyRent)
         IN  (before < threshold /\ rent'.balance[c] > before /\ rent'.balance[c] - before \notin RentAmounts)
               => rent'.balance[c] >= threshold]_rent

RewardsInit ==
    /\ ReferralInit /\ BondsInit /\ IsasInit /\ MarketsInit
    /\ StreaksInit /\ OnboardingInit /\ AllowancesInit /\ RentInit
====
