-------------------------------- MODULE Pools --------------------------------
(***************************************************************************)
(* The three contracts in which many put money that a few take out.        *)
(*                                                                         *)
(* contracts/lending_pool: lenders deposit USDC for LP tokens at par,      *)
(* borrowers with a sufficient credit score take loans against a fee, and  *)
(* loans that are past their due date are auctioned or written off.        *)
(* A call that returns an error leaves nothing behind, so it is no step.   *)
(*                                                                         *)
(* contracts/collateral_loan: USDC lent against MNT at the oracle's price. *)
(* Interest is simple and counted in whole days; a position that falls     *)
(* below the threshold is sold as a whole to whoever pays its debt.        *)
(*                                                                         *)
(* contracts/insurance: providers fund a pool from which learners who win  *)
(* a dispute are paid.                                                     *)
(***************************************************************************)
EXTENDS Host, Integers, Sequences, FiniteSets, Functions

-----------------------------------------------------------------------------
(* lending_pool.                                                           *)

CONSTANTS
    PoolLenders, PoolBorrowers,   \* addresses
    PoolAmounts,        \* amounts deposited, withdrawn and borrowed
    PoolYields,         \* amounts accrued and distributed
    InterestRates,      \* basis points: the rates compute_fee may read
    BlockBorrowCap,     \* PER_BLOCK_BORROW_CAP_BPS
    LoanTerm,           \* LIQUIDATION_SECONDS
    AuctionDuration,    \* AUCTION_DURATION_SECS
    MaxAuctionDiscount, \* MAX_AUCTION_DISCOUNT_BPS
    MaxLoans, MaxPoolLiquidity, MaxPoolTime   \* bounds

ASSUME LendingAssumption ==
    /\ IsFiniteSet(PoolLenders) /\ PoolAmounts \subseteq Nat /\ PoolYields \subseteq Nat
    /\ InterestRates \subseteq Nat
    /\ {BlockBorrowCap, LoanTerm, AuctionDuration, MaxAuctionDiscount} \subseteq Nat
    /\ MaxPoolTime \in Nat

VARIABLES
    pool_tokens,      \* the pool's balance of the USDC token
    liquidity,        \* TotalLiquidity
    lp_tokens,        \* TotalLpTokens
    lender_balance,   \* LenderBalance(l)
    deposit_ledger,   \* LenderDepositLedger(l) in instance storage, where deposit writes it
    deposit_guard,    \* LenderDepositLedger(l) in persistent storage, where withdraw reads it
    block_snapshot,   \* BlockLiquidityLedger and BlockLiquiditySnapshot
    block_borrows,    \* BlockBorrowLedger(b) and BlockBorrowTotal(b)
    loans,            \* Loan(b), a partial function
    auctions,         \* LiquidationAuction(b): the loan and started_at, a partial function
    bad_debt,         \* BadDebt
    accrued,          \* history: what accrue_yield added to the liquidity
    closings,          \* history: loan number |-> how often its record was closed
    recovered,        \* history: numbers of the loans a payment was received for
    written_off,      \* history: the loans force_liquidate closed
    ledger_loans      \* history: [borrower, amount, reserve] of the loans of this ledger

lending_vars ==
    <<pool_tokens, liquidity, lp_tokens, lender_balance, deposit_ledger, deposit_guard,
      block_snapshot, block_borrows, loans, auctions, bad_debt, accrued, closings, recovered,
      written_off, ledger_loans>>

\* env.ledger().sequence(): never 0, the value of an entry that was not written.
sequence == now + 1

LendingInit ==
    /\ now = 0
    /\ pool_tokens = 0 /\ liquidity = 0 /\ lp_tokens = 0
    /\ lender_balance = [l \in PoolLenders |-> 0]
    /\ deposit_ledger = [l \in PoolLenders |-> 0] /\ deposit_guard = [l \in PoolLenders |-> 0]
    /\ block_snapshot = [ledger |-> 0, amount |-> 0]
    /\ block_borrows = [b \in PoolBorrowers |-> [ledger |-> 0, amount |-> 0]]
    /\ loans = NothingStored /\ auctions = NothingStored /\ bad_debt = 0
    /\ accrued = 0 /\ closings = << >> /\ recovered = {} /\ written_off = {}
    /\ ledger_loans = {}

deposit_liquidity(l, amount) ==
    /\ liquidity + amount <= MaxPoolLiquidity
    /\ pool_tokens' = pool_tokens + amount
    /\ liquidity' = liquidity + amount
    /\ lp_tokens' = lp_tokens + amount
    /\ lender_balance' = [lender_balance EXCEPT ![l] = @ + amount]
    /\ deposit_ledger' = [deposit_ledger EXCEPT ![l] = sequence]
    /\ UNCHANGED <<now, deposit_guard, block_snapshot, block_borrows, loans, auctions, bad_debt,
                   accrued, closings, recovered, written_off, ledger_loans>>

withdraw(l, amount) ==
    /\ deposit_guard[l] # sequence
    /\ amount <= lender_balance[l] /\ amount <= pool_tokens /\ amount <= liquidity
    /\ pool_tokens' = pool_tokens - amount
    /\ liquidity' = liquidity - amount
    /\ lp_tokens' = lp_tokens - amount
    /\ lender_balance' = [lender_balance EXCEPT ![l] = @ - amount]
    /\ UNCHANGED <<now, deposit_ledger, deposit_guard, block_snapshot, block_borrows, loans,
                   auctions, bad_debt, accrued, closings, recovered, written_off, ledger_loans>>

\* The rate is the one governance has set or else the base rate, which the admin may set: LoanCount
\* is never written, so the utilisation is always 0. Either may change between two loans.
compute_fee(amount, rate) == (amount * rate) \div 10000

\* Mutant: every loan of a ledger looks at the liquidity it finds.
reference_liquidity_current == liquidity

\* The liquidity before the first loan of this ledger.
reference_liquidity == IF block_snapshot.ledger = sequence THEN block_snapshot.amount ELSE liquidity

\* What the borrower has taken in this ledger.
block_total(b) == IF block_borrows[b].ledger = sequence THEN block_borrows[b].amount ELSE 0

\* A loan the borrower has not repaid yet is replaced by the new one.
borrow(b, amount, rate) ==
    LET n == Len(closings) + 1 IN
    /\ n <= MaxLoans
    /\ amount <= liquidity /\ amount <= pool_tokens
    /\ (block_total(b) + amount) * 10000 <= reference_liquidity * BlockBorrowCap
    /\ block_snapshot' = [ledger |-> sequence, amount |-> reference_liquidity]
    /\ block_borrows' =
         [block_borrows EXCEPT ![b] = [ledger |-> sequence, amount |-> block_total(b) + amount]]
    /\ pool_tokens' = pool_tokens - amount
    /\ liquidity' = liquidity - amount
    /\ loans' = put(loans, b, [n |-> n, amount |-> amount, fee |-> compute_fee(amount, rate),
                               due_at |-> now + LoanTerm, repaid |-> FALSE])
    /\ closings' = Append(closings, 0)
    /\ ledger_loans' = ledger_loans \cup
         {[n |-> n, borrower |-> b, amount |-> amount,
           reserve |-> IF ledger_loans = {} THEN liquidity
                       ELSE (CHOOSE x \in ledger_loans : TRUE).reserve]}
    /\ UNCHANGED <<now, lp_tokens, lender_balance, deposit_ledger, deposit_guard, auctions,
                   bad_debt, accrued, recovered, written_off>>

owed(loan) == loan.amount + loan.fee
unpaid(b) == b \in DOMAIN loans /\ ~loans[b].repaid
overdue(b) == unpaid(b) /\ now > loans[b].due_at

\* The record of the borrower's loan is closed.
close_loan(b) ==
    /\ loans' = [loans EXCEPT ![b].repaid = TRUE]
    /\ closings' = [closings EXCEPT ![loans[b].n] = @ + 1]

\* An auction of the loan stays open.
repay(b) ==
    /\ unpaid(b)
    /\ close_loan(b)
    /\ pool_tokens' = pool_tokens + owed(loans[b])
    /\ liquidity' = liquidity + owed(loans[b])
    /\ recovered' = recovered \cup {loans[b].n}
    /\ UNCHANGED <<now, lp_tokens, lender_balance, deposit_ledger, deposit_guard, block_snapshot,
                   block_borrows, auctions, bad_debt, accrued, written_off, ledger_loans>>

\* By the admin: closed without a payment, and not counted as bad debt.
liquidate(b) ==
    /\ overdue(b)
    /\ close_loan(b)
    /\ UNCHANGED <<now, pool_tokens, liquidity, lp_tokens, lender_balance, deposit_ledger,
                   deposit_guard, block_snapshot, block_borrows, auctions, bad_debt, accrued,
                   recovered, written_off, ledger_loans>>

start_liquidation_auction(b) ==
    /\ overdue(b)
    /\ b \notin DOMAIN auctions
    /\ auctions' = put(auctions, b, [loan |-> loans[b], started_at |-> now])
    /\ UNCHANGED <<now, pool_tokens, liquidity, lp_tokens, lender_balance, deposit_ledger,
                   deposit_guard, block_snapshot, block_borrows, loans, bad_debt, accrued, closings,
                   recovered, written_off, ledger_loans>>

\* From nothing to the maximum, in proportion to the time.
get_auction_discount(b) ==
    LET elapsed == now - auctions[b].started_at IN
    IF elapsed >= AuctionDuration THEN MaxAuctionDiscount
    ELSE (MaxAuctionDiscount * elapsed) \div AuctionDuration

payment(b) ==
    LET total == owed(auctions[b].loan)
    IN  total - (total * get_auction_discount(b)) \div 10000

\* Mutant: the record comes back as the auction knew it.
auctioned_loan_reopened(b) == auctions[b].loan

auctioned_loan(b) == [auctions[b].loan EXCEPT !.repaid = TRUE]

\* Mutant: liquidity is restored at par.
restored_at_par(b) == owed(auctions[b].loan)

restored(b) == payment(b)

\* The auction's copy of the loan replaces the borrower's loan, whatever became of it.
execute_liquidation(b) ==
    /\ b \in DOMAIN auctions
    /\ pool_tokens' = pool_tokens + payment(b)
    /\ liquidity' = liquidity + restored(b)
    /\ loans' = [loans EXCEPT ![b] = auctioned_loan(b)]
    /\ recovered' = recovered \cup {auctions[b].loan.n}
    /\ auctions' = del(auctions, b)
    /\ UNCHANGED <<now, lp_tokens, lender_balance, deposit_ledger, deposit_guard, block_snapshot,
                   block_borrows, bad_debt, accrued, closings, written_off, ledger_loans>>

\* Mutant: the auction goes on.
ended_auction_kept(b) == auctions

ended_auction(b) == del(auctions, b)

\* By the admin, due or not: no payment, the loan becomes bad debt and its auction ends.
force_liquidate(b) ==
    /\ unpaid(b)
    /\ close_loan(b)
    /\ auctions' = ended_auction(b)
    /\ bad_debt' = bad_debt + owed(loans[b])
    /\ written_off' = written_off \cup {loans[b]}
    /\ UNCHANGED <<now, pool_tokens, liquidity, lp_tokens, lender_balance, deposit_ledger,
                   deposit_guard, block_snapshot, block_borrows, accrued, recovered, ledger_loans>>

\* By the admin: liquidity is added without a transfer of tokens.
accrue_yield(amount) ==
    /\ liquidity + amount <= MaxPoolLiquidity
    /\ liquidity' = liquidity + amount
    /\ accrued' = accrued + amount
    /\ UNCHANGED <<now, pool_tokens, lp_tokens, lender_balance, deposit_ledger, deposit_guard,
                   block_snapshot, block_borrows, loans, auctions, bad_debt, closings, recovered,
                   written_off, ledger_loans>>

\* By the admin: a lender gets LP tokens.
distribute_yield(l, amount) ==
    /\ lp_tokens + amount <= MaxPoolLiquidity
    /\ lp_tokens' = lp_tokens + amount
    /\ lender_balance' = [lender_balance EXCEPT ![l] = @ + amount]
    /\ UNCHANGED <<now, pool_tokens, liquidity, deposit_ledger, deposit_guard, block_snapshot,
                   block_borrows, loans, auctions, bad_debt, accrued, closings, recovered,
                   written_off, ledger_loans>>

LendingTick ==
    /\ CloseLedger(MaxPoolTime)
    /\ ledger_loans' = {}
    /\ UNCHANGED <<pool_tokens, liquidity, lp_tokens, lender_balance, deposit_ledger,
                   deposit_guard, block_snapshot, block_borrows, loans, auctions, bad_debt,
                   accrued, closings, recovered, written_off>>

LendingNext ==
    \/ \E l \in PoolLenders :
         \/ \E a \in PoolAmounts : deposit_liquidity(l, a) \/ withdraw(l, a)
         \/ \E a \in PoolYields : distribute_yield(l, a)
    \/ \E b \in PoolBorrowers :
         \/ \E a \in PoolAmounts, rate \in InterestRates : borrow(b, a, rate)
         \/ repay(b)
         \/ liquidate(b)
         \/ start_liquidation_auction(b)
         \/ execute_liquidation(b)
         \/ force_liquidate(b)
    \/ \E a \in PoolYields : accrue_yield(a)
    \/ LendingTick

LendingSpec == LendingInit /\ [][LendingNext]_<<now, lending_vars>>

-----------------------------------------------------------------------------
\* The liquidity offered to borrowers and lenders is the pool's balance of tokens, except for
\* the yield accrue_yield announces without bringing it; LP tokens are all some lender's.
PoolBacksLiquidity ==
    /\ liquidity = pool_tokens + accrued
    /\ lp_tokens = SumFunctionOnSet(lender_balance, PoolLenders)

\* What b borrowed in this ledger.
borrowed_now(b) ==
    LET mine == {x \in ledger_loans : x.borrower = b}
    IN  SumFunctionOnSet([x \in mine |-> x.amount], mine)

\* Whatever is deposited, withdrawn and repaid between the loans of one ledger, a borrower
\* takes at most the cap's share of the liquidity before the first of them.
BorrowCapHolds ==
    \A x \in ledger_loans : borrowed_now(x.borrower) * 10000 <= x.reserve * BlockBorrowCap

\* A loan that is closed (repaid, liquidated or written off) is not opened again, however
\* auctions of it end: its record is closed once.
ClosedOnce == \A n \in DOMAIN closings : closings[n] <= 1

\* get_bad_debt is what was written off, and no payment was received for any of it.
BadDebtIsUnrecovered ==
    /\ bad_debt = SumFunctionOnSet([x \in written_off |-> owed(x)], written_off)
    /\ \A x \in written_off : x.n \notin recovered

\* The lending pool keeps its books, its cap for a ledger, and closes a loan once.
LendingIsSound == PoolBacksLiquidity /\ BorrowCapHolds /\ ClosedOnce /\ BadDebtIsUnrecovered

-----------------------------------------------------------------------------
(* collateral_loan.                                                        *)

CONSTANTS
    Debtors,                  \* addresses
    Collaterals, Debts,       \* amounts offered and borrowed
    Prices,                   \* prices the oracle reports, in USDC per MNT
    Staleness,                \* values of MaxPriceStaleness
    MinRatio,                 \* MIN_COLLATERAL_RATIO_BPS
    LiquidationThreshold,     \* LIQUIDATION_THRESHOLD_BPS
    AtRiskThreshold,          \* AT_RISK_THRESHOLD_BPS
    LiquidationFee,           \* LIQUIDATOR_BONUS_BPS
    DailyInterest,            \* interest_rate_bps of a day
    KeptSnapshots,            \* MAX_SNAPSHOTS
    InitialUsdc,              \* what the contract can lend
    MaxOpenings, MaxCollateral, MaxLoanDays   \* bounds

ASSUME CollateralAssumption ==
    /\ Collaterals \subseteq Nat /\ Debts \subseteq Nat \ {0} /\ Prices \subseteq Nat
    /\ {MinRatio, LiquidationThreshold, LiquidationFee, DailyInterest, InitialUsdc} \subseteq Nat
    /\ LiquidationThreshold <= MinRatio
    /\ KeptSnapshots \in Nat \ {0} /\ MaxLoanDays \in Nat

VARIABLES
    mnt_held, usdc_held,   \* the contract's balances
    positions,             \* DataKey::Loan(d), a partial function
    position_index,        \* CollateralIndex(0 .. CollateralCount - 1), from 1 here
    position_slot,         \* CollateralSlot(d), a partial function
    interest_vault,        \* AccruedInterestVault
    quote,                 \* the oracle's price and when it was set
    max_staleness,         \* MaxPriceStaleness
    halted,                \* the pause flag
    loan_snapshots,        \* CollateralSnapshotIndex and CollateralSnapshotMeta
    openings,              \* history: the number of loans opened
    sales                  \* history: the liquidations

collateral_vars ==
    <<mnt_held, usdc_held, positions, position_index, position_slot, interest_vault, quote,
      max_staleness, halted, loan_snapshots, openings, sales>>

CollateralInit ==
    /\ now = 0
    /\ mnt_held = 0 /\ usdc_held = InitialUsdc
    /\ positions = NothingStored /\ position_index = << >> /\ position_slot = NothingStored
    /\ interest_vault = 0
    /\ \E p \in Prices : quote = [price |-> p, at |-> 0]
    /\ max_staleness \in Staleness /\ halted = FALSE
    /\ loan_snapshots = [next |-> 0, index |-> << >>, metas |-> {}]
    /\ openings = 0 /\ sales = {}

\* The oracle sets a price.
oracle_price(p) ==
    /\ quote' = [price |-> p, at |-> now]
    /\ UNCHANGED <<now, mnt_held, usdc_held, positions, position_index, position_slot,
                   interest_vault, max_staleness, halted, loan_snapshots, openings, sales>>

\* get_mnt_price panics on anything else.
price_is_fresh == now - quote.at <= max_staleness

compute_ratio_bps(collateral, debt) == (collateral * quote.price * 10000) \div debt

get_current_debt(d) ==
    LET p == positions[d]
    IN  p.debt + (p.debt * DailyInterest * (now - p.borrowed_at)) \div 10000

\* Mutant: the number of the evicted snapshot goes, its record stays.
evict_index_only(index, metas) == [index |-> Tail(index), metas |-> metas]

evict(index, metas) == [index |-> Tail(index), metas |-> metas \ {Head(index)}]

\* record_snapshot_index: the oldest one makes room.
snapshot_taken ==
    LET n == loan_snapshots.next + 1
        old == IF Len(loan_snapshots.index) >= KeptSnapshots
                 THEN evict(loan_snapshots.index, loan_snapshots.metas)
                 ELSE [index |-> loan_snapshots.index, metas |-> loan_snapshots.metas]
    IN  [next |-> n, index |-> Append(old.index, n), metas |-> old.metas \cup {n}]

open_loan(d, collateral, debt) ==
    /\ ~halted /\ d \notin DOMAIN positions
    /\ openings < MaxOpenings
    /\ price_is_fresh
    /\ compute_ratio_bps(collateral, debt) >= MinRatio
    /\ debt <= usdc_held
    /\ mnt_held' = mnt_held + collateral
    /\ usdc_held' = usdc_held - debt
    /\ positions' = put(positions, d, [collateral |-> collateral, debt |-> debt, borrowed_at |-> now,
                                       opened_at_price |-> quote.price])
    /\ position_index' = Append(position_index, d)
    /\ position_slot' = put(position_slot, d, Len(position_index) + 1)
    /\ loan_snapshots' = snapshot_taken
    /\ openings' = openings + 1
    /\ UNCHANGED <<now, interest_vault, quote, max_staleness, halted, sales>>

\* Mutant: the moved entry is not told its new slot.
slots_without_unmoved(d) == del(position_slot, d)

\* The last entry takes the slot of the one that leaves.
slots_without(d) ==
    LET moved == position_index[Len(position_index)]
    IN  del([position_slot EXCEPT ![moved] = position_slot[d]], d)

deindex_position(d) ==
    LET last == Len(position_index) IN
    /\ position_index' = SubSeq([position_index EXCEPT ![position_slot[d]] = position_index[last]],
                                1, last - 1)
    /\ position_slot' = slots_without(d)

\* Mutant: the whole repayment is booked as interest.
vault_after_all(d) == interest_vault + get_current_debt(d)

vault_after(d) == interest_vault + (get_current_debt(d) - positions[d].debt)

\* The full debt, and the collateral goes back; no price is needed.
repay_loan(d) ==
    /\ ~halted /\ d \in DOMAIN positions
    /\ usdc_held' = usdc_held + get_current_debt(d)
    /\ interest_vault' = vault_after(d)
    /\ mnt_held' = mnt_held - positions[d].collateral
    /\ positions' = del(positions, d)
    /\ deindex_position(d)
    /\ loan_snapshots' = snapshot_taken
    /\ UNCHANGED <<now, quote, max_staleness, halted, openings, sales>>

\* Also while the market is halted.
add_collateral(d, amount) ==
    /\ d \in DOMAIN positions
    /\ positions[d].collateral + amount <= MaxCollateral
    /\ mnt_held' = mnt_held + amount
    /\ positions' = [positions EXCEPT ![d].collateral = @ + amount]
    /\ UNCHANGED <<now, usdc_held, position_index, position_slot, interest_vault, quote,
                   max_staleness, halted, loan_snapshots, openings, sales>>

\* Mutant: the ratio required for opening is the one required for keeping.
loan_healthy_strictly(d) ==
    compute_ratio_bps(positions[d].collateral, get_current_debt(d)) > MinRatio

\* get_health_factor against the threshold
loan_healthy(d) ==
    compute_ratio_bps(positions[d].collateral, get_current_debt(d)) >= LiquidationThreshold

\* Mutant: the liquidator gets all of the collateral, and the admin a fee.
collateral_sold_whole(d) == positions[d].collateral

protocol_fee(d) == (positions[d].collateral * LiquidationFee) \div 10000
collateral_sold(d) == positions[d].collateral - protocol_fee(d)

\* The interest in the payment is not counted in the vault.
liquidate_position(d) ==
    /\ ~halted /\ d \in DOMAIN positions
    /\ price_is_fresh
    /\ ~loan_healthy(d)
    /\ usdc_held' = usdc_held + get_current_debt(d)
    /\ mnt_held' = mnt_held - collateral_sold(d) - protocol_fee(d)
    /\ positions' = del(positions, d)
    /\ deindex_position(d)
    /\ loan_snapshots' = snapshot_taken
    /\ sales' = sales \cup {[position |-> positions[d], at |-> now, price |-> quote.price]}
    /\ UNCHANGED <<now, interest_vault, quote, max_staleness, halted, openings>>

\* By the pause guardian.
set_halted(b) ==
    /\ halted' = b
    /\ UNCHANGED <<now, mnt_held, usdc_held, positions, position_index, position_slot,
                   interest_vault, quote, max_staleness, loan_snapshots, openings, sales>>

set_max_price_staleness(s) ==
    /\ max_staleness' = s
    /\ UNCHANGED <<now, mnt_held, usdc_held, positions, position_index, position_slot,
                   interest_vault, quote, halted, loan_snapshots, openings, sales>>

CollateralTick == CloseLedger(MaxLoanDays) /\ UNCHANGED collateral_vars

CollateralNext ==
    \/ \E d \in Debtors :
         \/ \E c \in Collaterals : add_collateral(d, c) \/ \E a \in Debts : open_loan(d, c, a)
         \/ repay_loan(d)
         \/ liquidate_position(d)
    \/ \E p \in Prices : oracle_price(p)
    \/ \E b \in BOOLEAN : set_halted(b)
    \/ \E s \in Staleness : set_max_price_staleness(s)
    \/ CollateralTick

CollateralSpec == CollateralInit /\ [][CollateralNext]_<<now, collateral_vars>>

-----------------------------------------------------------------------------
pledged == [d \in DOMAIN positions |-> positions[d].collateral]
lent == [d \in DOMAIN positions |-> positions[d].debt]

\* Through openings, top-ups, repayments and sales the contract holds exactly the collateral
\* of the open positions: none is owed to a borrower and missing, none is left behind.
CollateralIsHeld == mnt_held = SumFunctionOnSet(pledged, DOMAIN positions)

\* The interest in the vault is money the contract has, on top of what it lends: principal that
\* is out plus money in hand cover the initial funds and the vault.
InterestIsCovered ==
    usdc_held + SumFunctionOnSet(lent, DOMAIN positions) >= InitialUsdc + interest_vault

\* The pages that liquidation bots walk list every open position once, whichever positions
\* were closed before.
PositionsAreListed ==
    /\ Len(position_index) = Cardinality(DOMAIN positions)
    /\ DOMAIN position_slot = DOMAIN positions
    /\ \A d \in DOMAIN positions :
         /\ position_slot[d] \in DOMAIN position_index
         /\ position_index[position_slot[d]] = d

\* A position is sold only after the price fell or interest was added: at the price and in the
\* ledger of its opening nobody can take it, with or without more collateral.
SalesFollowDecline ==
    \A s \in sales : s.price < s.position.opened_at_price \/ s.at > s.position.borrowed_at

\* The snapshots on record are the last ones taken, and the index lists them in order.
SnapshotsAreLatest ==
    LET n == loan_snapshots.next
        kept == IF n < KeptSnapshots THEN n ELSE KeptSnapshots
    IN  /\ Len(loan_snapshots.index) = kept
        /\ \A i \in 1 .. kept : loan_snapshots.index[i] = n - kept + i
        /\ loan_snapshots.metas = (n - kept + 1) .. n

\* The market for collateralised loans holds what it owes, lists what is open, and sells no
\* position before its decline.
CollateralIsSound ==
    /\ CollateralIsHeld /\ InterestIsCovered
    /\ PositionsAreListed /\ SnapshotsAreLatest
    /\ SalesFollowDecline

\* What get_undercollateralized_page computes for the thresholds of get_at_risk_positions_page.
at_risk == {d \in DOMAIN positions :
               compute_ratio_bps(positions[d].collateral, positions[d].debt) < AtRiskThreshold}

\* get_at_risk_positions_page: "Liquidation bots use this to identify positions that need
\* immediate attention". Every position that can be sold now is among them.
SaleableIsAtRisk == \A d \in DOMAIN positions : ~loan_healthy(d) => d \in at_risk

-----------------------------------------------------------------------------
(* insurance.                                                              *)

CONSTANTS
    Providers,         \* addresses
    PremiumAmounts,    \* amounts deposited, withdrawn, claimed and accrued
    WithdrawLock,      \* WITHDRAW_LOCK_SECS
    MaxInsurance, MaxInsuranceTime   \* bounds

ASSUME InsuranceAssumption ==
    /\ IsFiniteSet(Providers) /\ PremiumAmounts \subseteq Nat /\ MaxInsuranceTime \in Nat

VARIABLES
    insurance_tokens,   \* the contract's balance
    pool_balance,       \* PoolBalance
    claims_paid,        \* TotalClaimsPaid
    provider_shares,    \* ProviderShares(p)
    unlock_time,        \* WithdrawUnlock(p)
    last_deposit,       \* history: when the provider last deposited, -1 for never
    early_withdrawal,   \* history: somebody withdrew within the lock after a deposit
    yield_booked        \* history: what accrue_yield added

insurance_vars ==
    <<insurance_tokens, pool_balance, claims_paid, provider_shares, unlock_time, last_deposit,
      early_withdrawal, yield_booked>>

InsuranceInit ==
    /\ now = 0
    /\ insurance_tokens = 0 /\ pool_balance = 0 /\ claims_paid = 0
    /\ provider_shares = [p \in Providers |-> 0] /\ unlock_time = [p \in Providers |-> 0]
    /\ last_deposit = [p \in Providers |-> -1] /\ early_withdrawal = FALSE /\ yield_booked = 0

\* The lock is not set here.
insurance_deposit(p, amount) ==
    /\ pool_balance + amount <= MaxInsurance
    /\ insurance_tokens' = insurance_tokens + amount
    /\ provider_shares' = [provider_shares EXCEPT ![p] = @ + amount]
    /\ pool_balance' = pool_balance + amount
    /\ last_deposit' = [last_deposit EXCEPT ![p] = now]
    /\ UNCHANGED <<now, claims_paid, unlock_time, early_withdrawal, yield_booked>>

\* Mutant: withdrawing from the pool keeps the shares.
shares_after_withdraw_kept(p, amount) == provider_shares

shares_after_withdraw(p, amount) == [provider_shares EXCEPT ![p] = @ - amount]

insurance_withdraw(p, amount) ==
    /\ now >= unlock_time[p]
    /\ amount <= provider_shares[p] /\ amount <= pool_balance /\ amount <= insurance_tokens
    /\ provider_shares' = shares_after_withdraw(p, amount)
    /\ pool_balance' = pool_balance - amount
    /\ insurance_tokens' = insurance_tokens - amount
    /\ early_withdrawal' = (early_withdrawal \/
                            (last_deposit[p] # -1 /\ now < last_deposit[p] + WithdrawLock))
    /\ UNCHANGED <<now, claims_paid, unlock_time, last_deposit, yield_booked>>

\* By the admin, any number of times for one escrow. The loss is not charged to any provider.
insurance_claim(amount) ==
    /\ amount <= pool_balance /\ amount <= insurance_tokens
    /\ claims_paid + amount <= MaxInsurance
    /\ pool_balance' = pool_balance - amount
    /\ claims_paid' = claims_paid + amount
    /\ insurance_tokens' = insurance_tokens - amount
    /\ UNCHANGED <<now, provider_shares, unlock_time, last_deposit, early_withdrawal, yield_booked>>

\* By the admin: shares and pool grow, no tokens arrive.
insurance_accrue_yield(p, amount) ==
    /\ pool_balance + amount <= MaxInsurance
    /\ provider_shares' = [provider_shares EXCEPT ![p] = @ + amount]
    /\ pool_balance' = pool_balance + amount
    /\ yield_booked' = yield_booked + amount
    /\ UNCHANGED <<now, insurance_tokens, claims_paid, unlock_time, last_deposit, early_withdrawal>>

\* By the provider, whenever they like.
set_withdraw_lock(p) ==
    /\ unlock_time' = [unlock_time EXCEPT ![p] = now + WithdrawLock]
    /\ UNCHANGED <<now, insurance_tokens, pool_balance, claims_paid, provider_shares, last_deposit,
                   early_withdrawal, yield_booked>>

InsuranceTick == CloseLedger(MaxInsuranceTime) /\ UNCHANGED insurance_vars

InsuranceNext ==
    \/ \E p \in Providers :
         \/ \E a \in PremiumAmounts :
              insurance_deposit(p, a) \/ insurance_withdraw(p, a) \/ insurance_accrue_yield(p, a)
         \/ set_withdraw_lock(p)
    \/ \E a \in PremiumAmounts : insurance_claim(a)
    \/ InsuranceTick

InsuranceSpec == InsuranceInit /\ [][InsuranceNext]_<<now, insurance_vars>>

-----------------------------------------------------------------------------
\* The claims paid are the only loss: the shares of the providers are what is in the pool plus
\* what was paid to learners, and the pool is covered by tokens except for booked yield. The
\* last provider to withdraw bears the whole loss.
SharesAreTheCover ==
    /\ SumFunctionOnSet(provider_shares, Providers) = pool_balance + claims_paid
    /\ pool_balance = insurance_tokens + yield_booked

\* withdraw: "Subject to 7-day lock from last deposit".
DepositsAreLocked == ~early_withdrawal
==============================================================================
