---------------------------- MODULE EscrowProofs ----------------------------
(***************************************************************************)
(* Proofs about Escrow for every set of users, deposits, session counts,   *)
(* rates and schedules, and for any bounds.                                *)
(***************************************************************************)
EXTENDS Escrow, Sums, TLAPS

(* Rates and fees.                                                         *)

\* saturating_sub never exceeds what it starts from.
LEMMA SatSubBounded ==
    ASSUME NEW m \in Nat, NEW x \in 0 .. m, NEW y \in Nat
    PROVE  SatSub(x, y) \in 0 .. m
BY DEF SatSub

\* Whatever the tier and the price, a stored schedule yields a rate under the cap.
LEMMA EffectiveRateBounded ==
    ASSUME NEW s \in FeeSchedule, NEW t \in 0 .. 3, NEW p \in Int, NEW a \in Int
    PROVE  effective_bps(s, t, p, a) \in 0 .. MAX_FEE_BPS
<1> DEFINE mult   == price_multiplier_bps(p)
           scaled == (tier_bps(s, t) * mult) \div BPS
           base   == AtMost(scaled, MAX_FEE_BPS)
<1>1. tier_bps(s, t) \in Nat
  BY DEF tier_bps, FeeSchedule
<1>2. mult \in Nat
  BY SMT DEF price_multiplier_bps
<1>3. tier_bps(s, t) * mult \in Nat
  BY <1>1, <1>2
<1>4. scaled \in Nat
  BY <1>3 DEF BPS
<1>5. base \in 0 .. MAX_FEE_BPS
  BY <1>4 DEF AtMost, MAX_FEE_BPS
<1> HIDE DEF base
<1>6. SatSub(base, s.volume_discount_bps) \in 0 .. MAX_FEE_BPS
  <2>1. s.volume_discount_bps \in Nat
    BY DEF FeeSchedule
  <2>2. MAX_FEE_BPS \in Nat
    BY DEF MAX_FEE_BPS
  <2> QED BY <1>5, <2>1, <2>2, SatSubBounded
<1> QED BY <1>5, <1>6 DEF effective_bps, AtMost, MAX_FEE_BPS, base

\* The rates a release may apply never exceed the cap of ten per cent.
LEMMA RatesCapped ==
    ASSUME fee_bps \in 0 .. MAX_FEE_BPS, fee_schedule \in Schedules \cup {NoSchedule},
           NEW a \in Int, NEW bps \in release_rates(a)
    PROVE  bps \in 0 .. MAX_FEE_BPS
<1>1. CASE fee_schedule = NoSchedule
  BY <1>1 DEF release_rates
<1>2. CASE fee_schedule # NoSchedule
  <2>1. fee_schedule \in FeeSchedule
    BY <1>2, SchedulesAssumption
  <2>2. PICK t \in 0 .. 3, p \in Prices : bps = effective_bps(fee_schedule, t, p, a)
    BY <1>2 DEF release_rates
  <2> QED BY <2>1, <2>2, EffectiveRateBounded, PricesAssumption
<1> QED BY <1>1, <1>2

LEMMA RatesBounded ==
    ASSUME TypeOK, NEW a \in Int, NEW bps \in release_rates(a)
    PROVE  bps \in 0 .. MAX_FEE_BPS
BY RatesCapped DEF TypeOK

\* Rounding down a share of at most the whole gives a part of the amount.
LEMMA ShareBounded ==
    ASSUME NEW a \in Nat, NEW w \in Nat \ {0}, NEW r \in 0 .. w
    PROVE  (a * r) \div w \in 0 .. a
<1>1. a * r \in Nat /\ a * r <= a * w
  OBVIOUS
<1>2. (a * r) \div w \in Nat
  BY <1>1
<1>3. (a * r) \div w <= a
  BY <1>1
<1> QED BY <1>2, <1>3

\* A fee is part of the amount it is taken from.
LEMMA FeeBounded ==
    ASSUME NEW a \in Nat, NEW bps \in 0 .. MAX_FEE_BPS
    PROVE  fee_of(a, bps) \in 0 .. a
<1>1. bps \in 0 .. BPS /\ BPS \in Nat \ {0}
  BY DEF MAX_FEE_BPS, BPS
<1> QED BY <1>1, ShareBounded DEF fee_of

-----------------------------------------------------------------------------
(* The inductive invariant. Conservation alone is not inductive: a partial *)
(* release subtracts a session's share from the remaining amount, and that *)
(* the share never exceeds the amount follows from SessionArithmetic.      *)

IInv == TypeOK /\ FundConservation /\ SessionArithmetic

\* The share of k further sessions is at least nothing and at most what is left.
LEMMA SessionShare ==
    ASSUME NEW e \in EscrowRecord, SessionsAddUp(e), NEW k \in Nat \ {0},
           e.sessions_completed + k <= e.total_sessions
    PROVE  /\ session_amount(e, k) \in 0 .. e.amount
           /\ e.sessions_completed + k < e.total_sessions =>
                e.amount - session_amount(e, k) = e.quoted_token_amount
                   - (e.sessions_completed + k) * (e.quoted_token_amount \div e.total_sessions)
<1> DEFINE q == e.quoted_token_amount
           n == e.total_sessions
           c == e.sessions_completed
           per == q \div n
<1>1. q \in Nat /\ n \in Nat \ {0} /\ c \in Nat /\ e.amount \in Nat
  BY DEF EscrowRecord
<1>2. per \in Nat /\ per * n <= q
  BY <1>1
<1>3. e.amount = q - c * per
  BY DEF SessionsAddUp
<1> HIDE DEF per, q, n, c
<1>4. CASE c + k = n
  <2>1. session_amount(e, k) = e.amount
    BY <1>4 DEF session_amount, c, n
  <2> QED BY <2>1, <1>1, <1>4 DEF c, n
<1>5. CASE c + k < n
  <2>1. session_amount(e, k) = per * k
    BY <1>1, <1>5 DEF session_amount, c, n, per, q
  <2>2. per * k \in Nat
    BY <1>2
  <2>3. (c + k) * per = c * per + per * k
    BY <1>1, <1>2
  <2>4. (c + k) * per <= n * per
    BY <1>1, <1>2, <1>5
  <2>5. n * per = per * n
    BY <1>1, <1>2
  <2>6. c * per \in Nat /\ (c + k) * per \in Nat /\ n * per \in Nat
    BY <1>1, <1>2
  <2>7. c * per + per * k <= q
    BY <2>3, <2>4, <2>5, <2>6, <1>1, <1>2
  <2>8. per * k <= e.amount /\ e.amount - per * k = q - (c + k) * per
    BY <2>2, <2>3, <2>6, <2>7, <1>1, <1>3
  <2> QED BY <2>1, <2>2, <2>8, <1>1 DEF c, n, per, q
<1> QED BY <1>1, <1>4, <1>5 DEF c, n

-----------------------------------------------------------------------------
(* Retry delays.                                                           *)

\* The factor of a delay is defined by recursion, as the loop of the code computes it.
LEMMA FactorDefined ==
    /\ factor[0] = 1 /\ \A n \in Nat : factor[n + 1] = factor[n] * 2
    /\ \A n \in Nat : factor[n] \in Nat \ {0}
<1> DEFINE Is(f) == f = [n \in Nat |-> IF n = 0 THEN 1 ELSE f[n - 1] * 2]
           b == 1
           g == [p \in Nat \X Int |-> p[2] * 2]
           T == {n \in Nat : factor[n] \in Nat \ {0}}
<1>1. g \in [Nat \X Int -> Int] /\ b \in Int
  OBVIOUS
<1>2. PICK h \in [Nat -> Int] : h = [n \in Nat |-> IF n = 0 THEN b ELSE g[<<n, h[n - 1]>>]]
  <2> HIDE DEF b, g
  <2> QED BY <1>1, IntRecursion
<1>3. \A n \in Nat : n # 0 => n - 1 \in Nat /\ g[<<n, h[n - 1]>>] = h[n - 1] * 2
  OBVIOUS
<1>4. Is(h)
  BY <1>2, <1>3
<1>5. factor = CHOOSE f : Is(f)
  BY DEF factor
<1> HIDE DEF Is
<1>6. Is(factor)
  BY <1>4, <1>5
<1>7. factor[0] = 1 /\ \A n \in Nat : factor[n + 1] = factor[n] * 2
  BY <1>6 DEF Is
<1>8. 0 \in T /\ \A n \in Nat : n \in T => n + 1 \in T
  BY <1>7
<1> HIDE DEF T
<1>9. \A n \in Nat : n \in T
  BY <1>8, NatInduct
<1> QED BY <1>7, <1>9 DEF T

\* So is the doubling delay of the retries.
LEMMA DoublingDefined ==
    /\ doubling[0] = AtMost(BackoffInitial, BackoffMax)
    /\ \A n \in Nat : doubling[n + 1] = AtMost(2 * doubling[n], BackoffMax)
<1> DEFINE Is(f) == f = [k \in Nat |-> AtMost(IF k = 0 THEN BackoffInitial ELSE 2 * f[k - 1], BackoffMax)]
           b == AtMost(BackoffInitial, BackoffMax)
           g == [p \in Nat \X Int |-> AtMost(2 * p[2], BackoffMax)]
<1>1. g \in [Nat \X Int -> Int] /\ b \in Int
  BY TimesAssumption DEF AtMost
<1>2. PICK h \in [Nat -> Int] : h = [n \in Nat |-> IF n = 0 THEN b ELSE g[<<n, h[n - 1]>>]]
  <2> HIDE DEF b, g
  <2> QED BY <1>1, IntRecursion
<1>3. \A n \in Nat : n # 0 => n - 1 \in Nat /\ g[<<n, h[n - 1]>>] = AtMost(2 * h[n - 1], BackoffMax)
  OBVIOUS
<1>4. Is(h)
  BY <1>2, <1>3
<1>5. doubling = CHOOSE f : Is(f)
  BY DEF doubling
<1> HIDE DEF Is
<1>6. Is(doubling)
  BY <1>4, <1>5
<1> QED BY <1>6 DEF Is

\* The delay after n + 1 failures.
LEMMA BackoffDoubles ==
    \A n \in Nat : backoff(n + 1) = doubling[n] /\ doubling[n] \in Nat
<1> DEFINE delay(n) == BackoffInitial * factor[n]
           T == {n \in Nat : AtMost(delay(n), BackoffMax) = doubling[n]}
<1>1. \A n \in Nat : delay(n) \in Nat /\ delay(n + 1) = 2 * delay(n)
  <2> TAKE n \in Nat
  <2>1. factor[n] \in Nat /\ factor[n + 1] = factor[n] * 2
    BY FactorDefined
  <2>2. PICK f \in Nat : f = factor[n]
    BY <2>1
  <2>3. BackoffInitial \in Nat
    BY TimesAssumption
  <2>4. BackoffInitial * f \in Nat /\ BackoffInitial * (f * 2) = 2 * (BackoffInitial * f)
    BY <2>3
  <2> QED BY <2>1, <2>2, <2>4
<1>2. delay(0) = BackoffInitial /\ BackoffInitial \in Nat /\ BackoffMax \in Nat
  BY FactorDefined, TimesAssumption
<1> HIDE DEF delay
<1>3. 0 \in T
  BY <1>2, DoublingDefined
<1>4. ASSUME NEW n \in Nat, n \in T PROVE n + 1 \in T
  <2>1. doubling[n] = AtMost(delay(n), BackoffMax) /\ doubling[n + 1] = AtMost(2 * doubling[n], BackoffMax)
    BY <1>4, DoublingDefined
  <2>2. AtMost(2 * AtMost(delay(n), BackoffMax), BackoffMax) = AtMost(2 * delay(n), BackoffMax)
    BY <1>1, <1>2 DEF AtMost
  <2> QED BY <1>1, <2>1, <2>2
<1> HIDE DEF T
<1>5. \A n \in Nat : n \in T
  BY <1>3, <1>4, NatInduct
<1>6. ASSUME NEW n \in Nat PROVE doubling[n] = AtMost(delay(n), BackoffMax) /\ doubling[n] \in Nat
  <2>1. doubling[n] = AtMost(delay(n), BackoffMax)
    BY <1>5 DEF T
  <2> QED BY <1>1, <1>2, <2>1 DEF AtMost
<1>7. \A n \in Nat : backoff(n + 1) = AtMost(delay(n), BackoffMax)
  BY DEF backoff, delay
<1> QED BY <1>6, <1>7

LEMMA BackoffTyped ==
    ASSUME NEW k \in Nat \ {0}
    PROVE  backoff(k) \in Nat
<1>1. k - 1 \in Nat /\ (k - 1) + 1 = k
  OBVIOUS
<1> QED BY <1>1, BackoffDoubles

\* The time of a retry counts the delays before it.
LEMMA OffsetDefined ==
    /\ retry_offset[0] = 0
    /\ \A n \in Nat : retry_offset[n + 1] = retry_offset[n] + doubling[n] /\ retry_offset[n] \in Nat
<1> DEFINE Is(f) == f = [k \in Nat |-> IF k = 0 THEN 0 ELSE f[k - 1] + doubling[k - 1]]
           b == 0
           g == [p \in Nat \X Int |-> IF p[1] = 0 THEN 0 ELSE p[2] + doubling[p[1] - 1]]
           T == {n \in Nat : retry_offset[n] \in Nat}
<1>1. \A n \in Nat : doubling[n] \in Nat
  BY BackoffDoubles
<1>2. g \in [Nat \X Int -> Int] /\ b \in Int
  <2>1. \A n \in Nat : n # 0 => n - 1 \in Nat /\ doubling[n - 1] \in Nat
    BY <1>1
  <2>2. \A n \in Nat, x \in Int : n # 0 => x + doubling[n - 1] \in Int
    BY <2>1
  <2> QED BY <2>2
<1>3. PICK h \in [Nat -> Int] : h = [n \in Nat |-> IF n = 0 THEN b ELSE g[<<n, h[n - 1]>>]]
  <2> HIDE DEF b, g
  <2> QED BY <1>2, IntRecursion
<1>4. \A n \in Nat : n # 0 => n - 1 \in Nat /\ g[<<n, h[n - 1]>>] = h[n - 1] + doubling[n - 1]
  OBVIOUS
<1>5. Is(h)
  BY <1>3, <1>4
<1>6. retry_offset = CHOOSE f : Is(f)
  BY DEF retry_offset
<1> HIDE DEF Is
<1>7. Is(retry_offset)
  BY <1>5, <1>6
<1>8. retry_offset[0] = 0 /\ \A n \in Nat : retry_offset[n + 1] = retry_offset[n] + doubling[n]
  BY <1>7 DEF Is
<1>9. 0 \in T /\ \A n \in Nat : n \in T => n + 1 \in T
  BY <1>1, <1>8
<1> HIDE DEF T
<1>10. \A n \in Nat : n \in T
  BY <1>9, NatInduct
<1> QED BY <1>8, <1>10 DEF T

-----------------------------------------------------------------------------
(* Effects shared by the actions.                                          *)

PayoutRecord == [mentor : Nat, treasury : Nat, learner : Nat]

\* The part of the invariant that token movements can disturb.
Books ==
    /\ escrow_count \in 0 .. MaxEscrows
    /\ escrows \in [EscrowIds -> EscrowRecord]
    /\ \A id \in EscrowIds : id > escrow_count => escrows[id] = Blank
    /\ balance \in [Address -> Nat]
    /\ paid \in [EscrowIds -> PayoutRecord]
    /\ FundConservation
    /\ SessionArithmetic

\* The types of everything else.
Rest ==
    /\ now \in Nat
    /\ log \in [EscrowIds -> Seq(LogEntry)]
    /\ used_nonces \subseteq SessionIds \cup {PathPay}
    /\ session_keys \subseteq SessionIds \cup {PathPay}
    /\ failures \in [EscrowIds -> FailureRecord]
    /\ watchlist \subseteq EscrowIds
    /\ isolated \subseteq EscrowIds
    /\ low_fee \in [Users \X Users -> 0 .. MaxLowFee]
    /\ token_approved \in BOOLEAN
    /\ fee_bps \in 0 .. MAX_FEE_BPS
    /\ fee_schedule \in Schedules \cup {NoSchedule}
    /\ failing \subseteq Peers

\* The invariant is the two parts together, now and in the next state.
LEMMA Parts == (IInv <=> Books /\ Rest) /\ (IInv' <=> Books' /\ Rest')
BY DEF IInv, TypeOK, Books, Rest, PayoutRecord

\* A transfer that does not overdraw an account keeps the balances natural numbers.
LEMMA CreditTyped ==
    ASSUME NEW S, NEW b \in [S -> Nat], NEW a, NEW n \in Int, a \in S => b[a] + n \in Nat
    PROVE  credit(b, a, n) \in [S -> Nat]
BY DEF credit

\* Token transfers keep every balance a natural number: the contract pays only
\* what it holds.
LEMMA PayoutTyped ==
    ASSUME balance \in [Address -> Nat], NEW id, NEW t \in Nat, NEW m \in Nat, NEW l \in Nat,
           payout(id, t, m, l)
    PROVE  balance' \in [Address -> Nat]
<1> DEFINE e  == escrows[id]
           b1 == credit(balance, Contract, -(t + m + l))
           b2 == credit(b1, Treasury, t)
           b3 == credit(b2, e.mentor, m)
           b4 == credit(b3, e.learner, l)
<1>1. balance' = b4
  BY DEF payout
<1>2. balance[Contract] + -(t + m + l) \in Nat
  BY DEF payout, Address
<1>3. b1 \in [Address -> Nat]
  BY <1>2, CreditTyped
<1> HIDE DEF b1
<1>4. b2 \in [Address -> Nat]
  BY <1>3, CreditTyped
<1> HIDE DEF b2
<1>5. b3 \in [Address -> Nat]
  BY <1>4, CreditTyped
<1> HIDE DEF b3
<1>6. b4 \in [Address -> Nat]
  BY <1>5, CreditTyped
<1> QED BY <1>1, <1>6

\* What a record still owes.
Owes(r) == IF r.status \in Live THEN r.amount ELSE 0

\* One step of one live escrow keeps the books: what the escrow pays out is what it
\* no longer owes. Settled escrows are not touched.
LEMMA SettlementStep ==
    ASSUME Books, NEW id \in EscrowIds, escrows[id].status \in Live,
           NEW r \in EscrowRecord, NEW t \in Nat, NEW m \in Nat, NEW l \in Nat,
           payout(id, t, m, l), escrows' = [escrows EXCEPT ![id] = r], UNCHANGED escrow_count,
           r.quoted_token_amount = escrows[id].quoted_token_amount,
           t + m + l + Owes(r) = escrows[id].amount,
           r.status \in Live => SessionsAddUp(r)
    PROVE  Books'
<1> DEFINE p == [mentor   |-> paid[id].mentor + m,
                 treasury |-> paid[id].treasury + t,
                 learner  |-> paid[id].learner + l]
<1>1. paid' = [paid EXCEPT ![id] = p]
  BY DEF payout
<1>2. paid[id] \in PayoutRecord /\ escrows[id] \in EscrowRecord
  BY DEF Books
<1>3. p \in PayoutRecord
  BY <1>2 DEF PayoutRecord
<1>4. p.mentor + p.treasury + p.learner + Owes(r) = r.quoted_token_amount
  <2>1. paid[id].mentor + paid[id].treasury + paid[id].learner + escrows[id].amount
           = escrows[id].quoted_token_amount
    BY DEF Books, FundConservation, PaidOut, Held
  <2>2. Owes(r) \in Nat
    BY DEF Owes, EscrowRecord
  <2> QED BY <1>2, <2>1, <2>2 DEF PayoutRecord, EscrowRecord
<1> HIDE DEF p
<1>5. paid' \in [EscrowIds -> PayoutRecord] /\ escrows' \in [EscrowIds -> EscrowRecord]
  BY <1>1, <1>3 DEF Books
<1>6. balance' \in [Address -> Nat]
  BY PayoutTyped DEF Books
<1>7. paid'[id] = p /\ escrows'[id] = r
  BY <1>1 DEF Books
<1>8. \A i \in EscrowIds \ {id} : paid'[i] = paid[i] /\ escrows'[i] = escrows[i]
  BY <1>1 DEF Books
<1>9. FundConservation'
  BY <1>4, <1>7, <1>8 DEF Books, FundConservation, PaidOut, Held, Owes
<1>10. SessionArithmetic'
  BY <1>7, <1>8 DEF Books, SessionArithmetic
<1>11. \A i \in EscrowIds : i > escrow_count' => escrows'[i] = Blank
  <2>1. ~(id > escrow_count)
    BY DEF Books, Blank, Live
  <2> QED BY <2>1, <1>8 DEF Books
<1> QED BY <1>5, <1>6, <1>9, <1>10, <1>11 DEF Books

-----------------------------------------------------------------------------
(* The steps that several actions share.                                   *)

\* A transition keeps the log a sequence of transitions between statuses.
LEMMA TransitionTyped ==
    ASSUME log \in [EscrowIds -> Seq(LogEntry)], NEW id \in EscrowIds, NEW from, NEW to,
           NEW actor \in Actors, transition_status(id, from, to, actor)
    PROVE  log' \in [EscrowIds -> Seq(LogEntry)]
<1> DEFINE entry == [from |-> from, to |-> to, actor |-> actor]
<1>1. from \in Statuses /\ to \in Statuses
  BY DEF transition_status, valid_transition, Statuses
<1>2. entry \in LogEntry
  BY <1>1 DEF LogEntry
<1> HIDE DEF entry
<1>3. Append(log[id], entry) \in Seq(LogEntry)
  BY <1>2
<1>4. log' = [log EXCEPT ![id] = Append(log[id], entry)]
  BY DEF transition_status, entry
<1> QED BY <1>3, <1>4

\* Only an active escrow can become released.
LEMMA ReleasedFromActive ==
    ASSUME NEW id, NEW from, NEW actor, transition_status(id, from, "Released", actor)
    PROVE  from = "Active"
BY DEF transition_status, valid_transition

\* Updating one field of a record with a value of the field's type.
LEMMA FieldUpdates ==
    ASSUME NEW e \in EscrowRecord
    PROVE  /\ \A v \in StoredStatuses : [e EXCEPT !.status = v] \in EscrowRecord
           /\ \A v \in Nat : [e EXCEPT !.amount = v] \in EscrowRecord
           /\ \A v \in Nat : [e EXCEPT !.platform_fee = v] \in EscrowRecord
           /\ \A v \in Nat : [e EXCEPT !.net_amount = v] \in EscrowRecord
           /\ \A v \in Nat : [e EXCEPT !.sessions_completed = v] \in EscrowRecord
<1>1. \A v \in StoredStatuses : [e EXCEPT !.status = v] \in EscrowRecord
  BY DEF EscrowRecord
<1>2. \A v \in Nat : [e EXCEPT !.amount = v] \in EscrowRecord
  BY DEF EscrowRecord
<1>3. \A v \in Nat : [e EXCEPT !.platform_fee = v] \in EscrowRecord
  BY DEF EscrowRecord
<1>4. \A v \in Nat : [e EXCEPT !.net_amount = v] \in EscrowRecord
  BY DEF EscrowRecord
<1>5. \A v \in Nat : [e EXCEPT !.sessions_completed = v] \in EscrowRecord
  BY DEF EscrowRecord
<1> QED BY <1>1, <1>2, <1>3, <1>4, <1>5

\* The payout fields and the status of a record, updated together.
WithPayout(e, f, n, st) == [e EXCEPT !.platform_fee = f, !.net_amount = n, !.status = st]

\* Such an update yields a record that keeps the other fields.
LEMMA PayoutFieldsUpdate ==
    ASSUME NEW e \in EscrowRecord, NEW st \in StoredStatuses, NEW f \in Nat, NEW n \in Nat
    PROVE  LET r == WithPayout(e, f, n, st) IN
           /\ r \in EscrowRecord
           /\ r.quoted_token_amount = e.quoted_token_amount /\ r.amount = e.amount
           /\ r.total_sessions = e.total_sessions /\ r.session_id = e.session_id
           /\ r.sessions_completed = e.sessions_completed
           /\ r.status = st /\ r.platform_fee = f /\ r.net_amount = n
<1> DEFINE r1 == [e EXCEPT !.platform_fee = f]
           r2 == [r1 EXCEPT !.net_amount = n]
           r3 == [r2 EXCEPT !.status = st]
           r  == WithPayout(e, f, n, st)
<1>1. r = r3
  BY DEF WithPayout
<1>2. r1 \in EscrowRecord
  BY FieldUpdates
<1>3. r2 \in EscrowRecord
  <2> HIDE DEF r1
  <2> QED BY <1>2, FieldUpdates
<1>4. r3 \in EscrowRecord
  <2> HIDE DEF r2
  <2> QED BY <1>3, FieldUpdates
<1>5. /\ r.quoted_token_amount = e.quoted_token_amount /\ r.amount = e.amount
      /\ r.total_sessions = e.total_sessions /\ r.session_id = e.session_id
      /\ r.sessions_completed = e.sessions_completed
      /\ r.status = st /\ r.platform_fee = f /\ r.net_amount = n
  BY DEF EscrowRecord, WithPayout
<1> QED BY <1>1, <1>4, <1>5

\* The record of a full release.
LEMMA ReleasedRecord ==
    ASSUME NEW e \in EscrowRecord, NEW fee \in 0 .. e.amount
    PROVE  LET r == released_record(e, fee) IN
           /\ r \in EscrowRecord
           /\ r.quoted_token_amount = e.quoted_token_amount
           /\ r.session_id = e.session_id
           /\ r.status = "Released" /\ r.amount = 0
           /\ r.platform_fee = e.platform_fee + fee
           /\ r.net_amount = e.net_amount + (e.amount - fee)
<1> DEFINE r1 == [e EXCEPT !.amount = 0]
           r  == released_record(e, fee)
           f  == e.platform_fee + fee
           n  == e.net_amount + (e.amount - fee)
<1>1. f \in Nat /\ n \in Nat
  BY DEF EscrowRecord
<1>2. r1 \in EscrowRecord
  BY FieldUpdates
<1>3. r1.amount = 0 /\ r1.quoted_token_amount = e.quoted_token_amount
        /\ r1.session_id = e.session_id
  BY DEF EscrowRecord
<1>4. r = WithPayout(r1, f, n, "Released")
  BY DEF released_record, WithPayout
<1>5. "Released" \in StoredStatuses
  BY DEF StoredStatuses
<1> HIDE DEF r, r1, f, n
<1>6. r \in EscrowRecord /\ r.quoted_token_amount = r1.quoted_token_amount
        /\ r.session_id = r1.session_id /\ r.amount = r1.amount
        /\ r.status = "Released" /\ r.platform_fee = f /\ r.net_amount = n
  BY <1>1, <1>2, <1>4, <1>5, PayoutFieldsUpdate
<1> QED BY <1>3, <1>6 DEF r, f, n

\* The record after k sessions were paid.
LEMMA SessionsRecord ==
    ASSUME NEW e \in EscrowRecord, NEW k \in Nat, NEW gross \in 0 .. e.amount,
           NEW fee \in 0 .. gross
    PROVE  LET r == sessions_record(e, k, gross, fee) IN
           /\ r \in EscrowRecord
           /\ r.quoted_token_amount = e.quoted_token_amount
           /\ r.total_sessions = e.total_sessions /\ r.session_id = e.session_id
           /\ r.sessions_completed = e.sessions_completed + k
           /\ r.status = IF e.sessions_completed + k = e.total_sessions
                           THEN "Released" ELSE e.status
           /\ r.amount = e.amount - gross
           /\ r.platform_fee = e.platform_fee + fee
           /\ r.net_amount = e.net_amount + (gross - fee)
<1> DEFINE c  == e.sessions_completed + k
           a  == e.amount - gross
           f  == e.platform_fee + fee
           n  == e.net_amount + (gross - fee)
           st == IF c = e.total_sessions THEN "Released" ELSE e.status
           r1 == [e EXCEPT !.sessions_completed = c]
           r2 == [r1 EXCEPT !.amount = a]
           r  == sessions_record(e, k, gross, fee)
<1>1. f \in Nat /\ n \in Nat /\ a \in Nat /\ c \in Nat
  BY DEF EscrowRecord
<1>2. st \in StoredStatuses
  BY DEF EscrowRecord, StoredStatuses
<1>3. r1 \in EscrowRecord
  BY <1>1, FieldUpdates
<1>4. r2 \in EscrowRecord
  <2> HIDE DEF r1
  <2> QED BY <1>1, <1>3, FieldUpdates
<1>5. r2.amount = a /\ r2.sessions_completed = c
        /\ r2.quoted_token_amount = e.quoted_token_amount
        /\ r2.total_sessions = e.total_sessions /\ r2.session_id = e.session_id
  BY DEF EscrowRecord
<1>6. r = WithPayout(r2, f, n, st)
  BY DEF sessions_record, WithPayout
<1> HIDE DEF r, r1, r2, f, n, st, a, c
<1>7. r \in EscrowRecord /\ r.quoted_token_amount = r2.quoted_token_amount
        /\ r.total_sessions = r2.total_sessions /\ r.session_id = r2.session_id
        /\ r.sessions_completed = r2.sessions_completed /\ r.amount = r2.amount
        /\ r.status = st /\ r.platform_fee = f /\ r.net_amount = n
  BY <1>1, <1>2, <1>4, <1>6, PayoutFieldsUpdate
<1> QED BY <1>5, <1>7 DEF r, f, n, st, a, c

\* A full release, at any rate up to the cap, keeps the books and the log.
LEMMA DoReleaseStep ==
    ASSUME Books, log \in [EscrowIds -> Seq(LogEntry)], NEW id \in EscrowIds,
           NEW bps \in 0 .. MAX_FEE_BPS, NEW actor \in Actors, do_release(id, bps, actor),
           UNCHANGED escrow_count
    PROVE  Books' /\ log' \in [EscrowIds -> Seq(LogEntry)]
<1> DEFINE e == escrows[id]
           fee == fee_of(e.amount, bps)
           r == released_record(e, fee)
<1>1. transition_status(id, e.status, "Released", actor) /\ payout(id, fee, e.amount - fee, 0)
        /\ escrows' = [escrows EXCEPT ![id] = r]
  BY DEF do_release
<1>2. e.status = "Active"
  BY <1>1, ReleasedFromActive
<1>3. e \in EscrowRecord
  BY DEF Books
<1>4. fee \in 0 .. e.amount /\ e.amount \in Nat
  BY <1>3, FeeBounded DEF EscrowRecord
<1> HIDE DEF fee, e
<1>5. r \in EscrowRecord /\ r.quoted_token_amount = e.quoted_token_amount
        /\ r.status = "Released"
  BY <1>3, <1>4, ReleasedRecord
<1> HIDE DEF r
<1>6. fee + (e.amount - fee) + 0 + Owes(r) = e.amount
  BY <1>4, <1>5 DEF Owes, Live
<1>7. fee \in Nat /\ e.amount - fee \in Nat
  BY <1>4
<1>8. Books'
  <2>1. e.status \in Live /\ r.status \notin Live
    BY <1>2, <1>5 DEF Live
  <2> QED BY <1>1, <1>5, <1>6, <1>7, <2>1, SettlementStep DEF e
<1> QED BY <1>1, <1>8, TransitionTyped

\* Paying for some of the sessions keeps the books, the log and the session keys.
LEMMA ReleaseSessionsStep ==
    ASSUME Books, log \in [EscrowIds -> Seq(LogEntry)], NEW id \in EscrowIds,
           escrows[id].status = "Active", NEW k \in Nat \ {0},
           escrows[id].sessions_completed + k <= escrows[id].total_sessions,
           NEW bps \in 0 .. MAX_FEE_BPS, NEW actor \in Actors,
           release_sessions(id, k, bps, actor), UNCHANGED escrow_count
    PROVE  Books' /\ log' \in [EscrowIds -> Seq(LogEntry)] /\ session_keys' \subseteq session_keys
<1> DEFINE e == escrows[id]
           gross == session_amount(e, k)
           fee == fee_of(gross, bps)
           r == sessions_record(e, k, gross, fee)
           last == e.sessions_completed + k = e.total_sessions
<1>1. /\ payout(id, fee, gross - fee, 0)
      /\ escrows' = [escrows EXCEPT ![id] = r]
      /\ IF last THEN /\ transition_status(id, e.status, "Released", actor)
                      /\ session_keys' = session_keys \ {e.session_id}
                 ELSE UNCHANGED <<log, session_keys>>
  BY DEF release_sessions
<1>2. e \in EscrowRecord
  BY DEF Books
<1>3. SessionsAddUp(e)
  BY DEF Books, SessionArithmetic, Live
<1>4. /\ gross \in 0 .. e.amount
      /\ e.sessions_completed + k < e.total_sessions =>
           e.amount - gross = e.quoted_token_amount
             - (e.sessions_completed + k) * (e.quoted_token_amount \div e.total_sessions)
  BY <1>2, <1>3, SessionShare
<1>5. /\ e.amount \in Nat /\ e.sessions_completed \in Nat /\ e.total_sessions \in Nat \ {0}
      /\ ~last => e.sessions_completed + k < e.total_sessions
  <2>1. e.amount \in Nat /\ e.sessions_completed \in Nat /\ e.total_sessions \in Nat \ {0}
    BY <1>2 DEF EscrowRecord
  <2>2. \A x, y \in Nat : x + k <= y /\ x + k # y => x + k < y
    OBVIOUS
  <2> QED BY <2>1, <2>2
<1>6. last => gross = e.amount
  BY DEF session_amount
<1>7. fee \in 0 .. gross
  BY <1>4, <1>5, FeeBounded
<1> HIDE DEF gross
<1>8. gross \in Nat /\ fee \in Nat /\ gross - fee \in Nat /\ e.amount - gross \in Nat
  BY <1>4, <1>5, <1>7
<1> HIDE DEF fee
<1>9. /\ r \in EscrowRecord
      /\ r.quoted_token_amount = e.quoted_token_amount /\ r.total_sessions = e.total_sessions
      /\ r.amount = e.amount - gross /\ r.sessions_completed = e.sessions_completed + k
      /\ r.status = IF last THEN "Released" ELSE "Active"
  BY <1>2, <1>4, <1>7, SessionsRecord DEF e
<1>10. fee + (gross - fee) + 0 + Owes(r) = e.amount
  BY <1>4, <1>5, <1>6, <1>8, <1>9 DEF Owes, Live
<1> HIDE DEF r
<1>11. r.status \in Live => SessionsAddUp(r)
  <2>1. CASE last
    BY <1>9, <2>1 DEF Live
  <2>2. CASE ~last
    <3>1. e.sessions_completed + k < e.total_sessions
      BY <1>5, <2>2
    <3> QED BY <1>4, <1>9, <3>1 DEF SessionsAddUp
  <2> QED BY <2>1, <2>2
<1>12. Books'
  <2>1. escrows[id].status \in Live
    BY DEF Live
  <2> QED BY <1>1, <1>8, <1>9, <1>10, <1>11, <2>1, SettlementStep
<1> QED BY <1>1, <1>12, TransitionTyped

\* A deposit opens a new escrow that owes all of it.
LEMMA CreateStep ==
    ASSUME IInv, NEW mentor \in Users, NEW learner \in Users, NEW amount \in Nat \ {0},
           NEW sid \in SessionIds \cup {PathPay}, NEW end \in Nat, NEW n \in Nat \ {0},
           create_escrow_internal(mentor, learner, amount, sid, end, n)
    PROVE  IInv'
<1> DEFINE id == escrow_count + 1
           r == [mentor |-> mentor, learner |-> learner, amount |-> amount, session_id |-> sid,
                 status |-> "Active", created_at |-> now, platform_fee |-> 0, net_amount |-> 0,
                 session_end_time |-> end, quoted_token_amount |-> amount,
                 total_sessions |-> n, sessions_completed |-> 0]
           b1 == credit(balance, learner, -amount)
<1> USE DEF create_escrow_internal
<1>1. Books /\ Rest
  BY Parts
<1>2. id \in EscrowIds /\ escrow_count \in Nat /\ escrow_count' = id
  BY <1>1 DEF Books
<1>3. escrows' = [escrows EXCEPT ![id] = r]
  OBVIOUS
<1>4. r \in EscrowRecord
  BY <1>1 DEF EscrowRecord, StoredStatuses, Rest
<1>5. r.status = "Active" /\ r.amount = amount /\ r.quoted_token_amount = amount
        /\ r.sessions_completed = 0 /\ r.total_sessions = n
  OBVIOUS
<1> HIDE DEF r, id
<1>6. escrows' \in [EscrowIds -> EscrowRecord]
  BY <1>1, <1>3, <1>4 DEF Books
<1>7. escrows'[id] = r /\ \A i \in EscrowIds \ {id} : escrows'[i] = escrows[i]
  BY <1>1, <1>2, <1>3 DEF Books
<1>8. paid' = paid /\ paid[id] \in PayoutRecord
  BY <1>1, <1>2 DEF Books
<1>9. PaidOut(id) = 0
  <2>1. escrows[id] = Blank
    BY <1>1, <1>2 DEF Books, id
  <2>2. PaidOut(id) + 0 = 0 /\ PaidOut(id) \in Nat
    BY <1>1, <1>2, <1>8, <2>1
       DEF Books, FundConservation, Held, Blank, Live, PaidOut, PayoutRecord
  <2> QED BY <2>2
<1>10. FundConservation'
  <2> SUFFICES ASSUME NEW i \in EscrowIds
               PROVE  PaidOut(i)' + Held(i)' = escrows'[i].quoted_token_amount
    BY DEF FundConservation
  <2>1. CASE i = id
    BY <1>5, <1>7, <1>8, <1>9, <2>1 DEF PaidOut, Held, Live
  <2>2. CASE i # id
    BY <1>1, <1>7, <1>8, <2>2 DEF Books, FundConservation, PaidOut, Held
  <2> QED BY <2>1, <2>2
<1>11. SessionArithmetic'
  <2>1. SessionsAddUp(r)
    <3>1. amount \div n \in Nat
      OBVIOUS
    <3> QED BY <1>5, <3>1 DEF SessionsAddUp
  <2> QED BY <1>1, <1>7, <2>1 DEF Books, SessionArithmetic
<1>12. balance' \in [Address -> Nat]
  <2>1. b1 \in [Address -> Nat]
    <3>1. balance[learner] + -amount \in Nat
      BY <1>1 DEF Books, Address
    <3> QED BY <1>1, <3>1, CreditTyped DEF Books
  <2>2. balance' = credit(b1, Contract, amount)
    OBVIOUS
  <2> HIDE DEF b1
  <2> QED BY <2>1, <2>2, CreditTyped
<1>13. \A i \in EscrowIds : i > escrow_count' => escrows'[i] = Blank
  BY <1>1, <1>2, <1>7 DEF Books, id, EscrowIds
<1>14. escrow_count' \in 0 .. MaxEscrows
  BY <1>2 DEF EscrowIds
<1>15. Books'
  BY <1>1, <1>6, <1>8, <1>10, <1>11, <1>12, <1>13, <1>14 DEF Books
<1>16. log' \in [EscrowIds -> Seq(LogEntry)]
  <2>1. learner \in Actors /\ transition_status(id, "Pending", "Active", learner)
    BY DEF Actors, id
  <2> QED BY <1>1, <1>2, <2>1, TransitionTyped DEF Rest
<1>17. Rest'
  BY <1>1, <1>16 DEF Rest, retry, config
<1> QED BY <1>15, <1>17, Parts

\* Opening a dispute moves no tokens.
LEMMA DisputeStep ==
    ASSUME IInv, NEW id \in EscrowIds, NEW caller \in Users, dispute(caller, id)
    PROVE  IInv'
<1> DEFINE e == escrows[id]
           r == [e EXCEPT !.status = "Disputed"]
<1> USE DEF dispute
<1>1. Books /\ Rest
  BY Parts
<1>2. e \in EscrowRecord
  BY <1>1 DEF Books
<1>3. r \in EscrowRecord
  BY <1>2, FieldUpdates DEF StoredStatuses
<1>4. /\ r.status = "Disputed" /\ r.amount = e.amount
      /\ r.quoted_token_amount = e.quoted_token_amount
      /\ SessionsAddUp(e) => SessionsAddUp(r)
  BY <1>2 DEF EscrowRecord, SessionsAddUp
<1>5. escrows' = [escrows EXCEPT ![id] = r]
  OBVIOUS
<1> HIDE DEF r
<1>6. escrows' \in [EscrowIds -> EscrowRecord]
  BY <1>1, <1>3, <1>5 DEF Books
<1>7. escrows'[id] = r /\ \A i \in EscrowIds \ {id} : escrows'[i] = escrows[i]
  BY <1>1, <1>5 DEF Books
<1>8. FundConservation'
  BY <1>1, <1>4, <1>7 DEF Books, FundConservation, PaidOut, Held, Live
<1>9. SessionArithmetic'
  BY <1>1, <1>4, <1>7 DEF Books, SessionArithmetic, Live
<1>10. \A i \in EscrowIds : i > escrow_count' => escrows'[i] = Blank
  <2>1. ~(id > escrow_count)
    BY <1>1 DEF Books, Blank
  <2> QED BY <1>1, <1>7, <2>1 DEF Books, sessions
<1>11. Books'
  BY <1>1, <1>6, <1>8, <1>9, <1>10 DEF Books, sessions
<1>12. log' \in [EscrowIds -> Seq(LogEntry)]
  BY <1>1, TransitionTyped DEF Rest, Actors
<1>13. Rest'
  BY <1>1, <1>12 DEF Rest, sessions, retry, config
<1> QED BY <1>11, <1>13, Parts

\* A ruling splits exactly what the escrow still owes.
LEMMA ResolveStep ==
    ASSUME IInv, NEW id \in EscrowIds, NEW pct \in 0 .. 100, resolve_dispute(id, pct)
    PROVE  IInv'
<1> DEFINE e == escrows[id]
           share == (e.amount * pct) \div 100
           rest == e.amount - share
           r == WithPayout(e, rest, share, "Resolved")
<1>1. Books /\ Rest
  BY Parts
<1>2. e \in EscrowRecord /\ e.amount \in Nat
  BY <1>1 DEF Books, EscrowRecord
<1>3. share \in 0 .. e.amount
  BY <1>2, ShareBounded
<1>4. /\ payout(id, 0, share, rest)
      /\ transition_status(id, e.status, "Resolved", Admin)
      /\ escrows' = [escrows EXCEPT ![id] = r]
      /\ e.status = "Disputed"
      /\ UNCHANGED <<now, sessions, retry, isolated, low_fee, config>>
  BY DEF resolve_dispute, WithPayout
<1> HIDE DEF share
<1>5. share \in Nat /\ rest \in Nat
  BY <1>2, <1>3
<1>6. 0 + share + rest + 0 = e.amount
  BY <1>2, <1>5
<1> HIDE DEF rest
<1>7. r \in EscrowRecord /\ r.quoted_token_amount = e.quoted_token_amount
        /\ r.status = "Resolved"
  <2>1. "Resolved" \in StoredStatuses
    BY DEF StoredStatuses
  <2> HIDE DEF e
  <2> QED BY <1>2, <1>5, <2>1, PayoutFieldsUpdate
<1> HIDE DEF r
<1>8. Books'
  <2>1. escrows[id].status \in Live /\ r.status \notin Live /\ UNCHANGED escrow_count
    BY <1>4, <1>7 DEF Live, sessions
  <2>2. 0 + share + rest + Owes(r) = escrows[id].amount
    BY <1>6, <2>1 DEF Owes
  <2> QED BY <1>1, <1>4, <1>5, <1>7, <2>1, <2>2, SettlementStep
<1>9. log' \in [EscrowIds -> Seq(LogEntry)]
  BY <1>1, <1>4, TransitionTyped DEF Rest, Actors
<1>10. Rest'
  BY <1>1, <1>4, <1>9 DEF Rest, sessions, retry, config
<1> QED BY <1>8, <1>10, Parts

\* A refund returns exactly what the escrow still owes.
LEMMA RefundStep ==
    ASSUME IInv, NEW id \in EscrowIds, refund(id)
    PROVE  IInv'
<1> DEFINE e == escrows[id]
           r == [e EXCEPT !.status = "Refunded"]
<1>1. Books /\ Rest
  BY Parts
<1>2. e \in EscrowRecord /\ e.amount \in Nat
  BY <1>1 DEF Books, EscrowRecord
<1>3. /\ payout(id, 0, 0, e.amount)
      /\ transition_status(id, e.status, "Refunded", Admin)
      /\ escrows' = [escrows EXCEPT ![id] = r]
      /\ e.status \in {"Pending", "Active", "Disputed"}
      /\ UNCHANGED <<now, sessions, retry, isolated, low_fee, config>>
  BY DEF refund
<1>4. r \in EscrowRecord /\ r.quoted_token_amount = e.quoted_token_amount
        /\ r.status = "Refunded"
  BY <1>2, FieldUpdates DEF EscrowRecord, StoredStatuses
<1> HIDE DEF r
<1>5. 0 + 0 + e.amount + Owes(r) = e.amount
  BY <1>2, <1>4 DEF Owes, Live
<1>6. escrows[id].status \in Live /\ r.status \notin Live /\ UNCHANGED escrow_count
  <2>1. e.status # "Pending"
    BY <1>2 DEF EscrowRecord, StoredStatuses
  <2> QED BY <1>3, <1>4, <2>1 DEF Live, sessions
<1>7. Books'
  BY <1>1, <1>2, <1>3, <1>4, <1>5, <1>6, SettlementStep
<1>8. log' \in [EscrowIds -> Seq(LogEntry)]
  BY <1>1, <1>3, TransitionTyped DEF Rest, Actors
<1>9. Rest'
  BY <1>1, <1>3, <1>8 DEF Rest, sessions, retry, config
<1> QED BY <1>7, <1>9, Parts

\* The release paths: whoever triggers them and whatever they check first, they all end
\* in a full release or in the payment of some sessions at a rate under the cap.
LEMMA ReleaseStep ==
    ASSUME IInv, NEW id \in EscrowIds, Release(id)
    PROVE  IInv'
<1>1. Books /\ Rest /\ TypeOK /\ escrows[id] \in EscrowRecord
  BY Parts DEF IInv, Books
<1>2. escrows[id].amount \in Int /\ escrows[id].sessions_completed \in Nat
        /\ escrows[id].total_sessions \in Nat
  BY <1>1 DEF EscrowRecord
<1>3. ASSUME NEW caller \in Users \cup {Admin}, release_funds(caller, id)
      PROVE  IInv'
  <2> DEFINE e == escrows[id]
             pair == <<e.mentor, e.learner>>
  <2>1. PICK bps \in release_rates(e.amount) : do_release(id, bps, caller)
    BY <1>3 DEF release_funds
  <2>2. bps \in 0 .. MAX_FEE_BPS
    BY <1>1, <1>2, RatesBounded
  <2>3. Books' /\ log' \in [EscrowIds -> Seq(LogEntry)]
    BY <1>1, <1>3, <2>1, <2>2, DoReleaseStep DEF release_funds, sessions, Rest, Actors
  <2>4. low_fee' \in [Users \X Users -> 0 .. MaxLowFee]
    <3>1. low_fee' = [low_fee EXCEPT ![pair] = low_fee_count(e)] /\ low_fee_count(e) <= MaxLowFee
      BY <1>3 DEF release_funds
    <3>2. pair \in Users \X Users => low_fee[pair] \in Nat
      BY <1>1, LimitsAssumption DEF Rest
    <3>3. pair \in Users \X Users => low_fee_count(e) \in 0 .. MaxLowFee
      BY <3>1, <3>2, LimitsAssumption DEF low_fee_count
    <3> HIDE DEF pair
    <3> QED BY <1>1, <3>1, <3>3 DEF Rest
  <2>5. Rest'
    BY <1>1, <1>3, <2>3, <2>4 DEF release_funds, Rest, sessions, retry, config
  <2> QED BY <2>3, <2>5, Parts
<1>4. ASSUME NEW caller \in Users \cup {Admin}, release_partial(caller, id)
      PROVE  IInv'
  <2> DEFINE e == escrows[id]
  <2>1. PICK bps \in release_rates(session_amount(e, 1)) : release_sessions(id, 1, bps, caller)
    BY <1>4 DEF release_partial
  <2>2. e.status = "Active" /\ e.sessions_completed + 1 <= e.total_sessions
    BY <1>2, <1>4 DEF release_partial, partially_releasable
  <2>3. session_amount(e, 1) \in Int
    <3>1. SessionsAddUp(e)
      BY <1>1, <2>2 DEF Books, SessionArithmetic, Live
    <3> QED BY <1>1, <2>2, <3>1, SessionShare
  <2>4. bps \in 0 .. MAX_FEE_BPS
    BY <1>1, <2>3, RatesBounded
  <2>5. Books' /\ log' \in [EscrowIds -> Seq(LogEntry)] /\ session_keys' \subseteq session_keys
    BY <1>1, <1>4, <2>1, <2>2, <2>4, ReleaseSessionsStep DEF release_partial, Rest, Actors
  <2>6. Rest'
    BY <1>1, <1>4, <2>5 DEF release_partial, Rest, retry, config
  <2> QED BY <2>5, <2>6, Parts
<1>5. ASSUME NEW caller \in Users \cup {Admin}, NEW k \in SessionCounts,
             batch_release(caller, id, k)
      PROVE  IInv'
  <2> DEFINE e == escrows[id]
  <2>1. PICK bps \in release_rates(session_amount(e, k)) : release_sessions(id, k, bps, caller)
    BY <1>5 DEF batch_release
  <2>2. k \in Nat \ {0}
    BY SessionsAssumption
  <2>3. e.status = "Active" /\ e.sessions_completed + k <= e.total_sessions
    BY <1>2, <1>5, <2>2 DEF batch_release
  <2>4. session_amount(e, k) \in Int
    <3>1. SessionsAddUp(e)
      BY <1>1, <2>3 DEF Books, SessionArithmetic, Live
    <3> QED BY <1>1, <2>2, <2>3, <3>1, SessionShare
  <2>5. bps \in 0 .. MAX_FEE_BPS
    BY <1>1, <2>4, RatesBounded
  <2>6. Books' /\ log' \in [EscrowIds -> Seq(LogEntry)] /\ session_keys' \subseteq session_keys
    BY <1>1, <1>5, <2>1, <2>2, <2>3, <2>5, ReleaseSessionsStep DEF batch_release, Rest, Actors
  <2>7. Rest'
    BY <1>1, <1>5, <2>6 DEF batch_release, Rest, retry, config
  <2> QED BY <2>6, <2>7, Parts
<1>6. ASSUME admin_release(id)
      PROVE  IInv'
  <2>1. PICK bps \in release_rates(escrows[id].amount) : do_release(id, bps, Admin)
    BY <1>6 DEF admin_release
  <2>2. bps \in 0 .. MAX_FEE_BPS
    BY <1>1, <1>2, RatesBounded
  <2>3. Books' /\ log' \in [EscrowIds -> Seq(LogEntry)]
    BY <1>1, <1>6, <2>1, <2>2, DoReleaseStep DEF admin_release, sessions, Rest, Actors
  <2>4. Rest'
    BY <1>1, <1>6, <2>3 DEF admin_release, Rest, sessions, retry, config
  <2> QED BY <2>3, <2>4, Parts
<1>7. ASSUME manual_recovery_release(id)
      PROVE  IInv'
  <2>1. Books' /\ log' \in [EscrowIds -> Seq(LogEntry)]
    BY <1>1, <1>7, DoReleaseStep DEF manual_recovery_release, sessions, Rest, Actors
  <2>2. failures' \in [EscrowIds -> FailureRecord]
    BY <1>1, <1>7 DEF manual_recovery_release, Rest, FailureRecord
  <2>3. Rest'
    BY <1>1, <1>7, <2>1, <2>2 DEF manual_recovery_release, Rest, sessions, config
  <2> QED BY <2>1, <2>3, Parts
<1> QED BY <1>3, <1>4, <1>5, <1>6, <1>7 DEF Release

\* An auto-release attempt releases the escrow or only adds to its failure record.
LEMMA AutoReleaseStep ==
    ASSUME IInv, NEW id \in EscrowIds, AutoRelease(id)
    PROVE  IInv'
<1>1. Books /\ Rest /\ TypeOK /\ escrows[id] \in EscrowRecord /\ failures[id] \in FailureRecord
  BY Parts DEF IInv, Books, Rest
<1>2. escrows[id].amount \in Int
  BY <1>1 DEF EscrowRecord
<1>3. CASE try_auto_release_ok(id)
  <2>1. PICK bps \in release_rates(escrows[id].amount) : do_release(id, bps, Contract)
    BY <1>3 DEF try_auto_release_ok
  <2>2. bps \in 0 .. MAX_FEE_BPS
    BY <1>1, <1>2, RatesBounded
  <2>3. Books' /\ log' \in [EscrowIds -> Seq(LogEntry)]
    BY <1>1, <1>3, <2>1, <2>2, DoReleaseStep DEF try_auto_release_ok, sessions, Rest, Actors
  <2>4. NoFailure \in FailureRecord
    BY LimitsAssumption DEF NoFailure, FailureRecord
  <2>5. Rest'
    BY <1>1, <1>3, <2>3, <2>4 DEF try_auto_release_ok, Rest, sessions, config
  <2> QED BY <2>3, <2>5, Parts
<1>4. CASE try_auto_release_failed(id)
  <2> DEFINE n == failures[id].attempt_number + 1
             f == after_failure(failures[id])
  <2>1. n \in 1 .. MaxAttempts
    BY <1>1, <1>4, LimitsAssumption DEF try_auto_release_failed, auto_release_due, FailureRecord, Rest
  <2>2. now + backoff(n) \in Nat
    <3>1. backoff(n) \in Nat
      BY <2>1, BackoffTyped
    <3> QED BY <1>1, <3>1 DEF Rest
  <2>3. f \in FailureRecord
    BY <2>1, <2>2 DEF after_failure, FailureRecord
  <2>4. failures' = [failures EXCEPT ![id] = f]
    BY <1>4 DEF try_auto_release_failed
  <2> HIDE DEF f
  <2>5. Books'
    BY <1>1, <1>4 DEF try_auto_release_failed, Books, FundConservation, SessionArithmetic,
       PaidOut, Held
  <2>6. Rest'
    BY <1>1, <1>4, <2>3, <2>4 DEF try_auto_release_failed, Rest, config
  <2> QED BY <2>5, <2>6, Parts
<1> QED BY <1>3, <1>4 DEF AutoRelease

\* Reports, isolation, configuration and time touch no escrow and no balance.
LEMMA FrameStep ==
    ASSUME IInv,
           \/ \E id \in EscrowIds : Supervise(id)
           \/ Configure \/ PeersChange \/ Tick \/ UNCHANGED vars
    PROVE  IInv'
<1>1. Books /\ Rest
  BY Parts
<1>2. UNCHANGED <<escrow_count, escrows, balance, paid>>
  BY DEF Supervise, report_stuck_escrow, emergency_isolate_escrow, recover_isolated_escrow,
     Configure, update_fee, set_fee_schedule, set_approved_token, PeersChange, Tick, vars, state,
     sessions
<1>3. Books'
  BY <1>1, <1>2 DEF Books, FundConservation, SessionArithmetic, PaidOut, Held
<1>4. Rest'
  <2>1. (\E id \in EscrowIds : Supervise(id)) => Rest'
    BY <1>1 DEF Rest, Supervise, report_stuck_escrow, emergency_isolate_escrow,
       recover_isolated_escrow, sessions, retry, config
  <2>2. Configure => Rest'
    BY <1>1, RatesAssumption DEF Rest, Configure, update_fee, set_fee_schedule,
       set_approved_token, state, sessions, retry
  <2>3. Tick => Rest'
    BY <1>1 DEF Rest, Tick, sessions, retry, config
  <2>4. UNCHANGED vars => Rest'
    BY <1>1 DEF Rest, vars
  <2>5. PeersChange => Rest'
    <3>1. \A F \in Outages \cup {{}} : F \subseteq Peers
      BY OutagesAssumption
    <3> QED BY <1>1, <3>1 DEF Rest, PeersChange, state, sessions, retry
  <2> QED BY <2>1, <2>2, <2>3, <2>4, <2>5
<1> QED BY <1>3, <1>4, Parts

-----------------------------------------------------------------------------
(* The invariant.                                                          *)

\* The invariant holds in the state `initialize' leaves.
LEMMA InitIInv == Init => IInv
<1> SUFFICES ASSUME Init PROVE IInv
  OBVIOUS
<1>1. Blank \in EscrowRecord
  BY DEF Blank, EscrowRecord, StoredStatuses
<1>2. NoFailure \in FailureRecord /\ NoPayout \in PayoutRecord
  BY LimitsAssumption DEF NoFailure, FailureRecord, NoPayout, PayoutRecord
<1>3. Books
  <2>1. \A i \in EscrowIds : escrows[i] = Blank /\ paid[i] = NoPayout
    BY DEF Init
  <2>2. FundConservation
    BY <2>1 DEF FundConservation, PaidOut, Held, NoPayout, Blank, Live
  <2>3. SessionArithmetic
    BY <2>1 DEF SessionArithmetic, Blank, Live
  <2>4. balance \in [Address -> Nat]
    BY LimitsAssumption DEF Init, Address
  <2> QED BY <1>1, <1>2, <2>1, <2>2, <2>3, <2>4, LimitsAssumption DEF Books, Init
<1>4. Rest
  <2>1. log \in [EscrowIds -> Seq(LogEntry)]
    BY DEF Init
  <2>2. fee_bps \in 0 .. MAX_FEE_BPS
    BY RatesAssumption DEF Init, MAX_FEE_BPS
  <2> QED BY <1>2, <2>1, <2>2, LimitsAssumption DEF Rest, Init
<1> QED BY <1>3, <1>4, Parts

\* Every step of the contract keeps the invariant.
LEMMA NextIInv == IInv /\ [Next]_vars => IInv'
<1> SUFFICES ASSUME IInv, [Next]_vars PROVE IInv'
  OBVIOUS
<1>1. CASE Create
  <2>1. PICK m \in Users, l \in Users, a \in Amounts, n \in SessionCounts :
          \/ \E s \in SessionIds, t \in EndTimes : create_escrow(m, l, a, s, t, n)
          \/ create_escrow_with_path_payment(m, l, a, n)
    BY <1>1 DEF Create
  <2>2. a \in Nat \ {0} /\ n \in Nat \ {0}
    BY AmountsAssumption, SessionsAssumption
  <2>3. ASSUME NEW s \in SessionIds, NEW t \in EndTimes, create_escrow(m, l, a, s, t, n)
        PROVE  IInv'
    BY <2>2, <2>3, TimesAssumption, CreateStep DEF create_escrow
  <2>4. CASE create_escrow_with_path_payment(m, l, a, n)
    BY <2>2, <2>4, CreateStep DEF create_escrow_with_path_payment
  <2> QED BY <2>1, <2>3, <2>4
<1>2. ASSUME NEW id \in EscrowIds, Release(id) PROVE IInv'
  BY <1>2, ReleaseStep
<1>3. ASSUME NEW id \in EscrowIds, AutoRelease(id) PROVE IInv'
  BY <1>3, AutoReleaseStep
<1>4. ASSUME NEW id \in EscrowIds, Arbitrate(id) PROVE IInv'
  <2>1. \A p \in Percentages : p \in 0 .. 100
    BY PercentAssumption
  <2> QED BY <1>4, <2>1, DisputeStep, ResolveStep, RefundStep DEF Arbitrate
<1>5. CASE \/ \E id \in EscrowIds : Supervise(id)
           \/ Configure \/ PeersChange \/ Tick \/ UNCHANGED vars
  BY <1>5, FrameStep
<1> QED BY <1>1, <1>2, <1>3, <1>4, <1>5 DEF Next

\* The inductive invariant holds in every reachable state.
THEOREM Invariant == Spec => []IInv
BY InitIInv, NextIInv, PTL DEF Spec

\* Type correctness: storage entries and balances keep their types, in particular no
\* account is overdrawn, no fee exceeds the cap and no attempt counter its limit.
THEOREM TypeCorrect == Spec => []TypeOK
<1>1. IInv => TypeOK
  BY DEF IInv
<1> QED BY <1>1, Invariant, PTL

\* Whatever mixture of releases, refunds and rulings an escrow goes through, it pays out
\* its deposit exactly once: _do_release, release_partial, batch_release, resolve_dispute
\* and refund neither lose a rounding remainder nor pay one twice.
THEOREM Conservation == Spec => []FundConservation
<1>1. IInv => FundConservation
  BY DEF IInv
<1> QED BY <1>1, Invariant, PTL

\* The remaining amount always follows from the number of sessions paid.
THEOREM SessionAccounting == Spec => []SessionArithmetic
<1>1. IInv => SessionArithmetic
  BY DEF IInv
<1> QED BY <1>1, Invariant, PTL

-----------------------------------------------------------------------------
(* Finality and sessions: what a step may do to escrows that exist.        *)

\* Escrow id changes from its record to r, and no other escrow is touched.
Touches(id, r) ==
    /\ escrows[id].status \notin Terminal
    /\ escrows' = [escrows EXCEPT ![id] = r]
    /\ r.session_id = escrows[id].session_id
    /\ \A i \in EscrowIds \ {id} : paid'[i] = paid[i] /\ log'[i] = log[i]
    /\ UNCHANGED <<escrow_count, used_nonces>>

\* Such a step keeps settled escrows and every session identifier.
KeepsEscrows ==
    /\ KeepsSettled
    /\ \A i \in EscrowIds : escrows'[i].session_id = escrows[i].session_id
    /\ UNCHANGED <<escrow_count, used_nonces>>

\* Touching one escrow that is not settled keeps the others.
LEMMA TouchKeeps ==
    ASSUME Books, NEW id \in EscrowIds, NEW r, Touches(id, r)
    PROVE  KeepsEscrows
BY DEF Books, Touches, KeepsEscrows, KeepsSettled

\* Payouts and transitions of one escrow leave the books and logs of the others alone.
LEMMA OthersUntouched ==
    ASSUME IInv, NEW id \in EscrowIds
    PROVE  /\ \A t, m, l : payout(id, t, m, l) => \A i \in EscrowIds \ {id} : paid'[i] = paid[i]
           /\ \A f, t, a : transition_status(id, f, t, a) =>
                \A i \in EscrowIds \ {id} : log'[i] = log[i]
<1>1. Books /\ Rest
  BY Parts
<1>2. ASSUME NEW t, NEW m, NEW l, payout(id, t, m, l), NEW i \in EscrowIds \ {id}
      PROVE  paid'[i] = paid[i]
  BY <1>1, <1>2 DEF payout, Books
<1>3. ASSUME NEW f, NEW t, NEW a, transition_status(id, f, t, a), NEW i \in EscrowIds \ {id}
      PROVE  log'[i] = log[i]
  BY <1>1, <1>3 DEF transition_status, Rest
<1> QED BY <1>2, <1>3

\* A full release touches an escrow that was active.
LEMMA DoReleaseTouches ==
    ASSUME IInv, NEW id \in EscrowIds, NEW bps \in 0 .. MAX_FEE_BPS, NEW actor,
           do_release(id, bps, actor), UNCHANGED <<escrow_count, used_nonces>>
    PROVE  KeepsEscrows
<1> DEFINE e == escrows[id]
           fee == fee_of(e.amount, bps)
           r == released_record(e, fee)
<1>1. Books /\ e \in EscrowRecord
  BY Parts DEF Books
<1>2. transition_status(id, e.status, "Released", actor) /\ payout(id, fee, e.amount - fee, 0)
        /\ escrows' = [escrows EXCEPT ![id] = r]
  BY DEF do_release
<1>3. e.status \notin Terminal
  BY <1>2, ReleasedFromActive DEF Terminal
<1>4. e.amount \in Nat
  BY <1>1 DEF EscrowRecord
<1>5. fee \in 0 .. e.amount
  BY <1>4, FeeBounded
<1>6. r.session_id = e.session_id
  BY <1>1, <1>5, ReleasedRecord
<1> HIDE DEF fee, r
<1>7. Touches(id, r)
  BY <1>2, <1>3, <1>6, OthersUntouched DEF Touches
<1> QED BY <1>1, <1>7, TouchKeeps

\* So does the payment of some sessions.
LEMMA ReleaseSessionsTouches ==
    ASSUME IInv, NEW id \in EscrowIds, NEW k, NEW bps, NEW actor, escrows[id].status = "Active",
           release_sessions(id, k, bps, actor), UNCHANGED <<escrow_count, used_nonces>>
    PROVE  KeepsEscrows
<1> DEFINE e == escrows[id]
           gross == session_amount(e, k)
           fee == fee_of(gross, bps)
           r == sessions_record(e, k, gross, fee)
<1>1. Books /\ e \in EscrowRecord
  BY Parts DEF Books
<1>2. /\ payout(id, fee, gross - fee, 0)
      /\ escrows' = [escrows EXCEPT ![id] = r]
      /\ transition_status(id, e.status, "Released", actor) \/ UNCHANGED log
  BY DEF release_sessions
<1>3. r.session_id = e.session_id
  BY <1>1 DEF sessions_record, EscrowRecord
<1> HIDE DEF gross, fee, r
<1>4. Touches(id, r)
  BY <1>2, <1>3, OthersUntouched DEF Touches, Terminal
<1> QED BY <1>1, <1>4, TouchKeeps

\* Every step other than a deposit keeps settled escrows and all session identifiers.
LEMMA OtherStepsKeep ==
    ASSUME IInv, [Next]_vars, ~Create
    PROVE  KeepsEscrows
<1> USE Parts
<1>1. Books /\ Rest /\ TypeOK
  BY DEF IInv
<1>2. ASSUME NEW id \in EscrowIds, Release(id) PROVE KeepsEscrows
  <2>1. escrows[id].amount \in Int
    BY <1>1 DEF Books, EscrowRecord
  <2>2. ASSUME NEW c, release_funds(c, id) PROVE KeepsEscrows
    <3>1. PICK bps \in release_rates(escrows[id].amount) : do_release(id, bps, c)
      BY <2>2 DEF release_funds
    <3> QED BY <1>1, <2>1, <2>2, <3>1, RatesBounded, DoReleaseTouches
            DEF release_funds, sessions
  <2>3. ASSUME NEW c, release_partial(c, id) PROVE KeepsEscrows
    BY <2>3, ReleaseSessionsTouches DEF release_partial, partially_releasable
  <2>4. ASSUME NEW c, NEW k, batch_release(c, id, k) PROVE KeepsEscrows
    BY <2>4, ReleaseSessionsTouches DEF batch_release
  <2>5. CASE admin_release(id)
    <3>1. PICK bps \in release_rates(escrows[id].amount) : do_release(id, bps, Admin)
      BY <2>5 DEF admin_release
    <3> QED BY <1>1, <2>1, <2>5, <3>1, RatesBounded, DoReleaseTouches
            DEF admin_release, sessions
  <2>6. CASE manual_recovery_release(id)
    BY <1>1, <2>6, DoReleaseTouches DEF manual_recovery_release, sessions, Rest
  <2> QED BY <1>2, <2>2, <2>3, <2>4, <2>5, <2>6 DEF Release
<1>3. ASSUME NEW id \in EscrowIds, AutoRelease(id) PROVE KeepsEscrows
  <2>1. escrows[id].amount \in Int
    BY <1>1 DEF Books, EscrowRecord
  <2>2. CASE try_auto_release_ok(id)
    <3>1. PICK bps \in release_rates(escrows[id].amount) : do_release(id, bps, Contract)
      BY <2>2 DEF try_auto_release_ok
    <3> QED BY <1>1, <2>1, <2>2, <3>1, RatesBounded, DoReleaseTouches
            DEF try_auto_release_ok, sessions
  <2>3. CASE try_auto_release_failed(id)
    BY <2>3 DEF try_auto_release_failed, KeepsEscrows, KeepsSettled
  <2> QED BY <1>3, <2>2, <2>3 DEF AutoRelease
<1>4. ASSUME NEW id \in EscrowIds, Arbitrate(id) PROVE KeepsEscrows
  <2> DEFINE e == escrows[id]
  <2>1. e \in EscrowRecord
    BY <1>1 DEF Books
  <2>2. ASSUME NEW c, dispute(c, id) PROVE KeepsEscrows
    <3> DEFINE r == [e EXCEPT !.status = "Disputed"]
    <3>1. r.session_id = e.session_id
      BY <2>1 DEF EscrowRecord
    <3>2. escrows' = [escrows EXCEPT ![id] = r]
      BY <2>2 DEF dispute
    <3> HIDE DEF r
    <3>3. Touches(id, r)
      BY <2>2, <3>1, <3>2, OthersUntouched DEF Touches, dispute, Terminal, sessions
    <3> QED BY <1>1, <3>3, TouchKeeps
  <2>3. ASSUME NEW p, resolve_dispute(id, p) PROVE KeepsEscrows
    <3> DEFINE share == (e.amount * p) \div 100
               r == WithPayout(e, e.amount - share, share, "Resolved")
    <3>1. r.session_id = e.session_id
      BY <2>1 DEF EscrowRecord, WithPayout
    <3>2. escrows' = [escrows EXCEPT ![id] = r]
      BY <2>3 DEF resolve_dispute, WithPayout
    <3> HIDE DEF r
    <3>3. Touches(id, r)
      BY <2>3, <3>1, <3>2, OthersUntouched DEF Touches, resolve_dispute, Terminal, sessions
    <3> QED BY <1>1, <3>3, TouchKeeps
  <2>4. CASE refund(id)
    <3> DEFINE r == [e EXCEPT !.status = "Refunded"]
    <3>1. r.session_id = e.session_id
      BY <2>1 DEF EscrowRecord
    <3>2. escrows' = [escrows EXCEPT ![id] = r]
      BY <2>4 DEF refund
    <3> HIDE DEF r
    <3>3. Touches(id, r)
      BY <2>4, <3>1, <3>2, OthersUntouched DEF Touches, refund, Terminal, sessions
    <3> QED BY <1>1, <3>3, TouchKeeps
  <2> QED BY <1>4, <2>2, <2>3, <2>4 DEF Arbitrate
<1>5. ASSUME NEW id \in EscrowIds, Supervise(id) PROVE KeepsEscrows
  BY <1>5 DEF Supervise, report_stuck_escrow, emergency_isolate_escrow, recover_isolated_escrow,
     sessions, KeepsEscrows, KeepsSettled
<1>6. CASE Configure \/ PeersChange
  BY <1>6 DEF Configure, update_fee, set_fee_schedule, set_approved_token, PeersChange, state,
     sessions, KeepsEscrows, KeepsSettled
<1>7. CASE Tick
  BY <1>7 DEF Tick, sessions, KeepsEscrows, KeepsSettled
<1>8. CASE UNCHANGED vars
  BY <1>8 DEF vars, KeepsEscrows, KeepsSettled
<1> QED BY <1>2, <1>3, <1>4, <1>5, <1>6, <1>7, <1>8 DEF Next

\* A deposit takes an unused identifier for an unused session.
LEMMA CreateTakesFresh ==
    ASSUME IInv, Create
    PROVE  /\ escrow_count + 1 \in EscrowIds /\ escrow_count' = escrow_count + 1
           /\ escrows'[escrow_count + 1].session_id \notin used_nonces
           /\ used_nonces' = used_nonces \cup {escrows'[escrow_count + 1].session_id}
           /\ \A i \in EscrowIds \ {escrow_count + 1} :
                escrows'[i] = escrows[i] /\ paid'[i] = paid[i] /\ log'[i] = log[i]
<1>1. Books /\ Rest
  BY Parts
<1>2. PICK m, l, a, s, t, n : create_escrow_internal(m, l, a, s, t, n)
  BY DEF Create, create_escrow, create_escrow_with_path_payment
<1> DEFINE id == escrow_count + 1
           r == [mentor |-> m, learner |-> l, amount |-> a, session_id |-> s,
                 status |-> "Active", created_at |-> now, platform_fee |-> 0, net_amount |-> 0,
                 session_end_time |-> t, quoted_token_amount |-> a,
                 total_sessions |-> n, sessions_completed |-> 0]
<1>3. id \in EscrowIds /\ escrow_count' = id /\ used_nonces' = used_nonces \cup {s}
        /\ s \notin used_nonces /\ escrows' = [escrows EXCEPT ![id] = r]
        /\ paid' = paid /\ transition_status(id, "Pending", "Active", l)
  BY <1>2 DEF create_escrow_internal, session_is_new
<1>4. r.session_id = s
  OBVIOUS
<1> HIDE DEF r
<1>5. escrows'[id].session_id = s
  BY <1>1, <1>3, <1>4 DEF Books
<1>6. \A i \in EscrowIds \ {id} : escrows'[i] = escrows[i] /\ paid'[i] = paid[i]
  BY <1>1, <1>3 DEF Books
<1>7. \A i \in EscrowIds \ {id} : log'[i] = log[i]
  BY <1>3, OthersUntouched
<1> QED BY <1>3, <1>5, <1>6, <1>7

\* No call ever changes a settled escrow or pays from it again.
THEOREM Finality == Spec => SettledIsFinal
<1>1. IInv /\ [Next]_vars => [KeepsSettled]_vars
  <2> SUFFICES ASSUME IInv, [Next]_vars PROVE KeepsSettled
    OBVIOUS
  <2>1. CASE Create
    <3>1. Books
      BY Parts
    <3>2. escrows[escrow_count + 1].status \notin Terminal
      BY <2>1, <3>1, CreateTakesFresh DEF Books, Blank, Terminal
    <3> QED BY <2>1, <3>2, CreateTakesFresh DEF KeepsSettled
  <2>2. CASE ~Create
    BY <2>2, OtherStepsKeep DEF KeepsEscrows
  <2> QED BY <2>1, <2>2
<1> QED BY <1>1, Invariant, PTL DEF Spec, SettledIsFinal

\* The nonces cover the sessions of all escrows: what makes OneEscrowPerSession inductive.
NoncesCover == \A i \in 1 .. escrow_count : escrows[i].session_id \in used_nonces

\* A session is never charged twice, although a completed escrow frees its session key.
THEOREM SessionUniqueness == Spec => []OneEscrowPerSession
<1> DEFINE J == NoncesCover /\ OneEscrowPerSession
<1>1. Init => J
  BY DEF Init, NoncesCover, OneEscrowPerSession
<1>2. IInv /\ J /\ [Next]_vars => J'
  <2> SUFFICES ASSUME IInv, J, [Next]_vars PROVE J'
    OBVIOUS
  <2>1. escrow_count \in Nat /\ \A i \in 1 .. escrow_count : i \in EscrowIds
    BY Parts, LimitsAssumption DEF Books, EscrowIds
  <2>2. CASE Create
    <3>1. \A i \in 1 .. escrow_count' :
            i = escrow_count + 1 \/ (i \in 1 .. escrow_count /\ escrows'[i] = escrows[i])
      BY <2>1, <2>2, CreateTakesFresh
    <3> QED BY <2>2, <3>1, CreateTakesFresh DEF NoncesCover, OneEscrowPerSession
  <2>3. CASE ~Create
    BY <2>1, <2>3, OtherStepsKeep DEF KeepsEscrows, NoncesCover, OneEscrowPerSession
  <2> QED BY <2>2, <2>3
<1> HIDE DEF J
<1>3. J => OneEscrowPerSession
  BY DEF J
<1> QED BY <1>1, <1>2, <1>3, Invariant, PTL DEF Spec

-----------------------------------------------------------------------------
(* What a step does, whichever call it is: a deposit, a release of part or *)
(* all of an escrow, a ruling or refund, a dispute, or nothing that touches *)
(* records, logs and tokens.                                               *)

\* What a learner and a mentor agreed on does not change with the record.
SameTerms(e, r) ==
    /\ r.mentor = e.mentor /\ r.learner = e.learner /\ r.session_id = e.session_id
    /\ r.quoted_token_amount = e.quoted_token_amount /\ r.total_sessions = e.total_sessions
    /\ r.session_end_time = e.session_end_time /\ r.created_at = e.created_at

\* Part or all of an active escrow is paid, t to the treasury and m to the mentor.
Releases(id, r, t, m, actor) ==
    LET e == escrows[id] IN
    /\ e.status = "Active" /\ SameTerms(e, r)
    /\ payout(id, t, m, 0) /\ escrows' = [escrows EXCEPT ![id] = r] /\ UNCHANGED escrow_count
    /\ t + m + r.amount = e.amount /\ t * BPS <= (t + m) * MAX_FEE_BPS
    /\ r.platform_fee = e.platform_fee + t /\ r.net_amount = e.net_amount + m
    /\ \/ /\ r.status = "Released" /\ r.amount = 0
          /\ transition_status(id, "Active", "Released", actor)
       \/ /\ r.status = "Active" /\ r.amount \in 1 .. (e.amount - 1)
          /\ UNCHANGED log

\* The admin hands out all that is left without a fee, m to the mentor and l to the learner.
Settles(id, r, m, l) ==
    LET e == escrows[id] IN
    /\ e.status \in Live /\ r.status \in {"Resolved", "Refunded"} /\ SameTerms(e, r)
    /\ payout(id, 0, m, l) /\ escrows' = [escrows EXCEPT ![id] = r] /\ UNCHANGED escrow_count
    /\ m + l = e.amount
    /\ transition_status(id, e.status, r.status, Admin)

\* Who may release, and when: the contract itself only after the delays and among its attempts.
MayRelease(id, actor) ==
    /\ actor \in {escrows[id].learner, Admin, Contract}
    /\ actor = Contract =>
         /\ now >= escrows[id].session_end_time + AutoReleaseDelay
         /\ now >= failures[id].next_retry_time
         /\ failures[id].attempt_number < MaxAttempts

AnyDeposit ==
    \E m \in Users, l \in Users, a \in Nat \ {0}, s \in SessionIds \cup {PathPay}, t \in Nat, n \in Nat \ {0} :
        create_escrow_internal(m, l, a, s, t, n)
Pays(id) ==
    \/ \E r \in EscrowRecord, t \in Nat, m \in Nat, actor \in Actors :
         Releases(id, r, t, m, actor) /\ MayRelease(id, actor)
    \/ \E r \in EscrowRecord, m \in Nat, l \in Nat : Settles(id, r, m, l)

\* Every session of an escrow is worth something: what makes partial payments positive.
SharesArePositive ==
    \A id \in EscrowIds : escrows[id].status # "None" =>
        escrows[id].quoted_token_amount >= escrows[id].total_sessions

\* A fee at a rate under the cap is under the cap.
LEMMA FeeCapped ==
    ASSUME NEW a \in Nat, NEW bps \in 0 .. MAX_FEE_BPS
    PROVE  fee_of(a, bps) * BPS <= a * MAX_FEE_BPS
<1> DEFINE x == a * bps
<1>1. x \in Nat /\ x <= a * MAX_FEE_BPS
  BY DEF MAX_FEE_BPS
<1>2. \A y \in Nat : y \div 10000 \in Nat /\ (y \div 10000) * 10000 <= y
  OBVIOUS
<1>3. fee_of(a, bps) = x \div 10000
  BY DEF fee_of, BPS
<1> HIDE DEF x
<1>4. x \div 10000 \in Nat /\ (x \div 10000) * 10000 <= x
  BY <1>1, <1>2
<1>5. a * MAX_FEE_BPS \in Nat
  BY DEF MAX_FEE_BPS
<1> QED BY <1>1, <1>3, <1>4, <1>5 DEF BPS

\* A full release is a release.
LEMMA DoReleasePays ==
    ASSUME Books, NEW id \in EscrowIds, NEW bps \in 0 .. MAX_FEE_BPS, NEW actor,
           do_release(id, bps, actor), UNCHANGED escrow_count
    PROVE  \E r \in EscrowRecord, t \in Nat, m \in Nat :
             Releases(id, r, t, m, actor) /\ r.status = "Released"
<1> DEFINE e == escrows[id]
           t == fee_of(e.amount, bps)
           r == released_record(e, t)
<1>1. e \in EscrowRecord /\ e.amount \in Nat
  BY DEF Books, EscrowRecord
<1>2. transition_status(id, e.status, "Released", actor) /\ payout(id, t, e.amount - t, 0)
        /\ escrows' = [escrows EXCEPT ![id] = r]
  BY DEF do_release
<1>3. e.status = "Active"
  BY <1>2, ReleasedFromActive
<1>4. t \in 0 .. e.amount /\ t * BPS <= e.amount * MAX_FEE_BPS
  BY <1>1, FeeBounded, FeeCapped
<1>5. SameTerms(e, r)
  BY <1>1 DEF SameTerms, released_record, EscrowRecord
<1> HIDE DEF t
<1>6. /\ r \in EscrowRecord /\ r.status = "Released" /\ r.amount = 0
      /\ r.platform_fee = e.platform_fee + t /\ r.net_amount = e.net_amount + (e.amount - t)
  BY <1>1, <1>4, ReleasedRecord
<1> HIDE DEF r
<1>7. t \in Nat /\ e.amount - t \in Nat /\ t + (e.amount - t) = e.amount
        /\ t + (e.amount - t) + 0 = e.amount
  BY <1>1, <1>4
<1>8. Releases(id, r, t, e.amount - t, actor)
  BY <1>2, <1>3, <1>4, <1>5, <1>6, <1>7 DEF Releases
<1> QED BY <1>6, <1>7, <1>8

\* Short of the last session, a payment is a proper part of what is left.
LEMMA ProperShare ==
    ASSUME NEW e \in EscrowRecord, SessionsAddUp(e), NEW k \in Nat \ {0},
           e.quoted_token_amount >= e.total_sessions,
           e.sessions_completed + k < e.total_sessions
    PROVE  session_amount(e, k) \in 1 .. (e.amount - 1)
<1> DEFINE q == e.quoted_token_amount
           n == e.total_sessions
           c == e.sessions_completed
           per == q \div n
<1>1. q \in Nat /\ n \in Nat \ {0} /\ c \in Nat /\ e.amount \in Nat /\ q >= n /\ c + k < n
  BY DEF EscrowRecord
<1>2. session_amount(e, k) = per * k
  BY <1>1 DEF session_amount
<1>3. session_amount(e, k) \in 0 .. e.amount
        /\ e.amount - session_amount(e, k) = q - (c + k) * per
  BY <1>1, SessionShare
<1> HIDE DEF q, n, c
<1>4. per \in Nat /\ per >= 1 /\ per * n <= q
  BY <1>1
<1> HIDE DEF per
<1>5. per * k >= 1 /\ per * k \in Nat
  BY <1>4
<1>6. (c + k) * per <= (n - 1) * per /\ (n - 1) * per = per * n - per
  BY <1>1, <1>4
<1>7. (c + k) * per \in Nat /\ per * n \in Nat
  BY <1>1, <1>4
<1>8. q - (c + k) * per >= 1
  BY <1>1, <1>4, <1>6, <1>7
<1> QED BY <1>1, <1>2, <1>3, <1>5, <1>8

\* The payment of some sessions is a release of part or all of the escrow.
LEMMA ReleaseSessionsPays ==
    ASSUME Books, NEW id \in EscrowIds, escrows[id].status = "Active",
           escrows[id].quoted_token_amount >= escrows[id].total_sessions,
           NEW k \in Nat \ {0},
           escrows[id].sessions_completed + k <= escrows[id].total_sessions,
           NEW bps \in 0 .. MAX_FEE_BPS, NEW actor,
           release_sessions(id, k, bps, actor), UNCHANGED escrow_count
    PROVE  \E r \in EscrowRecord, t \in Nat, m \in Nat : Releases(id, r, t, m, actor)
<1> DEFINE e == escrows[id]
           gross == session_amount(e, k)
           fee == fee_of(gross, bps)
           r == sessions_record(e, k, gross, fee)
           last == e.sessions_completed + k = e.total_sessions
<1>1. /\ payout(id, fee, gross - fee, 0)
      /\ escrows' = [escrows EXCEPT ![id] = r]
      /\ IF last THEN transition_status(id, e.status, "Released", actor) ELSE UNCHANGED log
  BY DEF release_sessions
<1>2. e \in EscrowRecord /\ SessionsAddUp(e)
  BY DEF Books, SessionArithmetic, Live
<1>3. gross \in 0 .. e.amount
  BY <1>2, SessionShare
<1>4. last => gross = e.amount
  BY DEF session_amount
<1>5. ~last => gross \in 1 .. (e.amount - 1)
  <2>1. e.sessions_completed \in Nat /\ e.total_sessions \in Nat
    BY <1>2 DEF EscrowRecord
  <2>2. ~last => e.sessions_completed + k < e.total_sessions
    BY <2>1
  <2> QED BY <1>2, <2>2, ProperShare
<1>6. SameTerms(e, r)
  BY <1>2 DEF SameTerms, sessions_record, EscrowRecord
<1>7. e.amount \in Nat /\ e.platform_fee \in Nat /\ e.net_amount \in Nat
  BY <1>2 DEF EscrowRecord
<1> HIDE DEF gross
<1>8. gross \in Nat
  BY <1>3, <1>7
<1>9. fee \in 0 .. gross /\ fee * BPS <= gross * MAX_FEE_BPS
  BY <1>8, FeeBounded, FeeCapped
<1> HIDE DEF fee
<1>10. /\ r \in EscrowRecord
       /\ r.amount = e.amount - gross
       /\ r.status = IF last THEN "Released" ELSE "Active"
       /\ r.platform_fee = e.platform_fee + fee
       /\ r.net_amount = e.net_amount + (gross - fee)
  BY <1>2, <1>3, <1>9, SessionsRecord DEF e
<1> HIDE DEF r
<1>11. /\ fee \in Nat /\ gross - fee \in Nat /\ fee + (gross - fee) = gross
       /\ fee + (gross - fee) + r.amount = e.amount
  BY <1>7, <1>8, <1>9, <1>10
<1>12. \/ /\ r.status = "Released" /\ r.amount = 0
           /\ transition_status(id, "Active", "Released", actor)
       \/ /\ r.status = "Active" /\ r.amount \in 1 .. (e.amount - 1)
           /\ UNCHANGED log
  <2>1. CASE last
    BY <1>1, <1>4, <1>7, <1>10, <2>1
  <2>2. CASE ~last
    <3>1. e.amount - gross \in 1 .. (e.amount - 1)
      BY <1>5, <1>7, <1>8, <2>2
    <3> QED BY <1>1, <1>10, <2>2, <3>1
  <2> QED BY <2>1, <2>2
<1>13. Releases(id, r, fee, gross - fee, actor)
  <2> HIDE DEF e, last
  <2>1. e.status = "Active"
    BY DEF e
  <2> QED BY <1>1, <1>6, <1>9, <1>10, <1>11, <1>12, <2>1 DEF Releases, e
<1> QED BY <1>10, <1>11, <1>13

\* A ruling and a refund settle the escrow.
LEMMA ResolveSettles ==
    ASSUME Books, NEW id \in EscrowIds, NEW pct \in 0 .. 100, resolve_dispute(id, pct)
    PROVE  \E r \in EscrowRecord, m \in Nat, l \in Nat : Settles(id, r, m, l)
<1> DEFINE e == escrows[id]
           share == (e.amount * pct) \div 100
           rest == e.amount - share
           r == WithPayout(e, rest, share, "Resolved")
<1>1. e \in EscrowRecord /\ e.amount \in Nat
  BY DEF Books, EscrowRecord
<1>2. share \in 0 .. e.amount
  BY <1>1, ShareBounded
<1>3. /\ payout(id, 0, share, rest)
      /\ transition_status(id, e.status, "Resolved", Admin)
      /\ escrows' = [escrows EXCEPT ![id] = r]
      /\ e.status = "Disputed" /\ UNCHANGED escrow_count
  BY DEF resolve_dispute, WithPayout, sessions
<1>4. SameTerms(e, r)
  BY <1>1 DEF SameTerms, WithPayout, EscrowRecord
<1> HIDE DEF share
<1>5. share \in Nat /\ rest \in Nat /\ share + rest = e.amount
  BY <1>1, <1>2
<1> HIDE DEF rest
<1>6. r \in EscrowRecord /\ r.status = "Resolved"
  <2>1. "Resolved" \in StoredStatuses
    BY DEF StoredStatuses
  <2> HIDE DEF e
  <2> QED BY <1>1, <1>5, <2>1, PayoutFieldsUpdate
<1> HIDE DEF r
<1>7. Settles(id, r, share, rest)
  BY <1>3, <1>4, <1>5, <1>6 DEF Settles, Live
<1> QED BY <1>5, <1>6, <1>7

LEMMA RefundSettles ==
    ASSUME Books, NEW id \in EscrowIds, refund(id)
    PROVE  \E r \in EscrowRecord, m \in Nat, l \in Nat : Settles(id, r, m, l)
<1> DEFINE e == escrows[id]
           r == [e EXCEPT !.status = "Refunded"]
<1>1. e \in EscrowRecord /\ e.amount \in Nat
  BY DEF Books, EscrowRecord
<1>2. /\ payout(id, 0, 0, e.amount)
      /\ transition_status(id, e.status, "Refunded", Admin)
      /\ escrows' = [escrows EXCEPT ![id] = r]
      /\ e.status \in {"Pending", "Active", "Disputed"} /\ UNCHANGED escrow_count
  BY DEF refund, sessions
<1>3. SameTerms(e, r)
  BY <1>1 DEF SameTerms, EscrowRecord
<1>4. r \in EscrowRecord /\ r.status = "Refunded"
  BY <1>1, FieldUpdates DEF EscrowRecord, StoredStatuses
<1> HIDE DEF r
<1>5. e.status \in Live
  BY <1>1, <1>2 DEF EscrowRecord, StoredStatuses, Live
<1>6. 0 + e.amount = e.amount
  BY <1>1
<1>7. Settles(id, r, 0, e.amount)
  BY <1>2, <1>3, <1>4, <1>5, <1>6 DEF Settles
<1> QED BY <1>1, <1>4, <1>7

\* A call that touches no record, log or token.
Frame == UNCHANGED <<escrow_count, escrows, log, balance, paid>>

\* Every release path is a payment, by somebody who may ask for it.
LEMMA ReleaseKinds ==
    ASSUME IInv, SharesArePositive, NEW id \in EscrowIds, Release(id)
    PROVE  Pays(id)
<1> DEFINE e == escrows[id]
<1>1. Books /\ Rest /\ TypeOK /\ e \in EscrowRecord
  BY Parts DEF IInv, Books
<1>2. e.amount \in Int /\ e.sessions_completed \in Nat /\ e.total_sessions \in Nat
  BY <1>1 DEF EscrowRecord
<1>3. \A c \in Users \cup {Admin} : c \in Actors /\ c # Contract
  BY AddressAssumption DEF Actors
<1>4. ASSUME NEW c \in Users \cup {Admin}, release_authorised(e, c) \/ c = Admin,
             NEW bps \in release_rates(e.amount) \cup {fee_bps}, do_release(id, bps, c),
             UNCHANGED escrow_count
      PROVE  Pays(id)
  <2>1. bps \in 0 .. MAX_FEE_BPS
    BY <1>1, <1>2, RatesBounded DEF Rest
  <2>2. MayRelease(id, c)
    BY <1>3, <1>4 DEF MayRelease, release_authorised
  <2> QED BY <1>1, <1>3, <1>4, <2>1, <2>2, DoReleasePays DEF Pays
<1>5. ASSUME NEW c \in Users \cup {Admin}, release_authorised(e, c) \/ c = Admin,
             NEW k \in Nat \ {0}, e.status = "Active", e.sessions_completed + k <= e.total_sessions,
             NEW bps \in release_rates(session_amount(e, k)), release_sessions(id, k, bps, c),
             UNCHANGED escrow_count
      PROVE  Pays(id)
  <2>1. SessionsAddUp(e)
    BY <1>1, <1>5 DEF Books, SessionArithmetic, Live
  <2>2. session_amount(e, k) \in Int
    BY <1>1, <1>2, <1>5, <2>1, SessionShare
  <2>3. bps \in 0 .. MAX_FEE_BPS
    BY <1>1, <2>2, RatesBounded
  <2>4. MayRelease(id, c)
    BY <1>3, <1>5 DEF MayRelease, release_authorised
  <2>5. e.quoted_token_amount >= e.total_sessions
    BY <1>5 DEF SharesArePositive
  <2> QED BY <1>1, <1>3, <1>5, <2>3, <2>4, <2>5, ReleaseSessionsPays DEF Pays
<1>6. ASSUME NEW c \in Users \cup {Admin}, release_funds(c, id) PROVE Pays(id)
  BY <1>4, <1>6 DEF release_funds, sessions
<1>7. ASSUME NEW c \in Users \cup {Admin}, release_partial(c, id) PROVE Pays(id)
  <2>1. e.sessions_completed + 1 <= e.total_sessions /\ e.status = "Active"
    BY <1>2, <1>7 DEF release_partial, partially_releasable
  <2> QED BY <1>5, <1>7, <2>1 DEF release_partial
<1>8. ASSUME NEW c \in Users \cup {Admin}, NEW k \in SessionCounts, batch_release(c, id, k)
      PROVE  Pays(id)
  <2>1. k \in Nat \ {0}
    BY SessionsAssumption
  <2>2. c = Admin /\ e.sessions_completed + k <= e.total_sessions /\ e.status = "Active"
    BY <1>2, <1>8, <2>1 DEF batch_release
  <2> QED BY <1>5, <1>8, <2>1, <2>2 DEF batch_release
<1>9. CASE admin_release(id)
  BY <1>4, <1>9 DEF admin_release, sessions
<1>10. CASE manual_recovery_release(id)
  BY <1>4, <1>10 DEF manual_recovery_release, sessions
<1> QED BY <1>6, <1>7, <1>8, <1>9, <1>10 DEF Release

\* What a step is, whichever call makes it.
LEMMA StepKinds ==
    ASSUME IInv, SharesArePositive, [Next]_vars
    PROVE  \/ AnyDeposit
           \/ \E id \in EscrowIds : Pays(id) \/ \E c \in Users : dispute(c, id)
           \/ Frame
<1>1. Books /\ Rest /\ TypeOK
  BY Parts DEF IInv
<1>2. CASE Create
  <2>1. PICK m \in Users, l \in Users, a \in Amounts, n \in SessionCounts :
          \/ \E s \in SessionIds, t \in EndTimes : create_escrow(m, l, a, s, t, n)
          \/ create_escrow_with_path_payment(m, l, a, n)
    BY <1>2 DEF Create
  <2>2. a \in Nat \ {0} /\ n \in Nat \ {0} /\ 0 \in Nat /\ \A t \in EndTimes : t \in Nat
    BY AmountsAssumption, SessionsAssumption, TimesAssumption
  <2>3. PICK s \in SessionIds \cup {PathPay}, t \in Nat : create_escrow_internal(m, l, a, s, t, n)
    BY <2>1, <2>2 DEF create_escrow, create_escrow_with_path_payment
  <2> QED BY <2>2, <2>3 DEF AnyDeposit
<1>3. ASSUME NEW id \in EscrowIds, Release(id) PROVE Pays(id)
  BY <1>3, ReleaseKinds
<1>4. ASSUME NEW id \in EscrowIds, AutoRelease(id) PROVE Pays(id) \/ Frame
  <2>1. CASE try_auto_release_ok(id)
    <3>1. PICK bps \in release_rates(escrows[id].amount) : do_release(id, bps, Contract)
      BY <2>1 DEF try_auto_release_ok
    <3>2. escrows[id].amount \in Int
      BY <1>1 DEF Books, EscrowRecord
    <3>3. bps \in 0 .. MAX_FEE_BPS
      BY <1>1, <3>1, <3>2, RatesBounded
    <3>4. UNCHANGED escrow_count /\ MayRelease(id, Contract)
      BY <2>1 DEF try_auto_release_ok, auto_release_due, MayRelease, sessions
    <3> QED BY <1>1, <3>1, <3>3, <3>4, DoReleasePays DEF Pays, Actors
  <2>2. CASE try_auto_release_failed(id)
    BY <2>2 DEF try_auto_release_failed, Frame
  <2> QED BY <1>4, <2>1, <2>2 DEF AutoRelease
<1>5. ASSUME NEW id \in EscrowIds, Arbitrate(id)
      PROVE  Pays(id) \/ \E c \in Users : dispute(c, id)
  <2>1. \A p \in Percentages : p \in 0 .. 100
    BY PercentAssumption
  <2> QED BY <1>1, <1>5, <2>1, ResolveSettles, RefundSettles DEF Arbitrate, Pays
<1>6. ASSUME NEW id \in EscrowIds, Supervise(id) PROVE Frame
  BY <1>6 DEF Supervise, report_stuck_escrow, emergency_isolate_escrow, recover_isolated_escrow,
     sessions, Frame
<1>7. CASE Configure \/ PeersChange
  BY <1>7 DEF Configure, update_fee, set_fee_schedule, set_approved_token, PeersChange, state,
     sessions, Frame
<1>8. CASE Tick \/ UNCHANGED vars
  BY <1>8 DEF Tick, vars, sessions, Frame
<1> QED BY <1>2, <1>3, <1>4, <1>5, <1>6, <1>7, <1>8 DEF Next

-----------------------------------------------------------------------------
(* The books of an escrow. EscrowBooks is not inductive as it stands: that *)
(* a released record accounts for every token rests on the running totals  *)
(* of the partial releases before it.                                      *)

\* The record e accounts for the payments p made from it in releases.
Accounts(e, p) ==
    /\ p.treasury * BPS <= (p.treasury + p.mentor) * MAX_FEE_BPS
    /\ e.status \in {"None", "Active", "Disputed", "Released"} =>
         e.platform_fee = p.treasury /\ e.net_amount = p.mentor
    /\ e.status = "Released" => e.amount = 0
    /\ e.status # "None" => e.quoted_token_amount >= e.total_sessions

Ledger == \A id \in EscrowIds : Accounts(escrows[id], paid[id])

\* What the running books say of the states a run checks.
LEMMA LedgerMeans == Ledger => EscrowBooks /\ SharesArePositive
<1> SUFFICES ASSUME Ledger PROVE EscrowBooks /\ SharesArePositive
  OBVIOUS
<1>1. FeeCap
  BY DEF Ledger, Accounts, FeeCap
<1>2. ReleaseRecordIsExact
  BY DEF Ledger, Accounts, ReleaseRecordIsExact
<1>3. SharesArePositive
  BY DEF Ledger, Accounts, SharesArePositive
<1> QED BY <1>1, <1>2, <1>3 DEF EscrowBooks

\* A step of one escrow keeps the books of the others.
LEMMA OneEntry ==
    ASSUME IInv, Ledger, NEW id \in EscrowIds, NEW r, escrows' = [escrows EXCEPT ![id] = r],
           \A i \in EscrowIds \ {id} : paid'[i] = paid[i], Accounts(r, paid'[id])
    PROVE  Ledger'
<1>1. Books
  BY Parts
<1>2. escrows'[id] = r /\ \A i \in EscrowIds \ {id} : escrows'[i] = escrows[i]
  BY <1>1 DEF Books
<1> QED BY <1>2 DEF Ledger

\* The effect of a payout on the escrow it is made for.
LEMMA OwnEffects ==
    ASSUME IInv, NEW id \in EscrowIds
    PROVE  /\ \A t, m, l : payout(id, t, m, l) =>
                paid'[id] = [mentor |-> paid[id].mentor + m, treasury |-> paid[id].treasury + t,
                             learner |-> paid[id].learner + l]
           /\ escrows[id] \in EscrowRecord /\ paid[id] \in PayoutRecord
<1>1. Books
  BY Parts
<1>2. ASSUME NEW t, NEW m, NEW l, payout(id, t, m, l)
      PROVE  paid'[id] = [mentor |-> paid[id].mentor + m, treasury |-> paid[id].treasury + t,
                          learner |-> paid[id].learner + l]
  BY <1>1, <1>2 DEF payout, Books
<1> QED BY <1>1, <1>2 DEF Books

\* A release adds to the record what it adds to the payments.
LEMMA ReleaseKeepsLedger ==
    ASSUME IInv, Ledger, NEW id \in EscrowIds, NEW r \in EscrowRecord, NEW t \in Nat, NEW m \in Nat,
           NEW actor, Releases(id, r, t, m, actor)
    PROVE  Ledger'
<1> DEFINE e == escrows[id]
           p == paid[id]
<1>1. e \in EscrowRecord /\ p \in PayoutRecord /\ Accounts(e, p)
  BY OwnEffects DEF Ledger
<1>2. /\ e.status = "Active" /\ SameTerms(e, r) /\ t * BPS <= (t + m) * MAX_FEE_BPS
      /\ r.platform_fee = e.platform_fee + t /\ r.net_amount = e.net_amount + m
      /\ payout(id, t, m, 0) /\ escrows' = [escrows EXCEPT ![id] = r]
      /\ (r.status = "Released" /\ r.amount = 0) \/ r.status = "Active"
  BY DEF Releases
<1>3. paid'[id] = [mentor |-> p.mentor + m, treasury |-> p.treasury + t, learner |-> p.learner + 0]
  BY <1>2, OwnEffects
<1> HIDE DEF e, p
<1>4. Accounts(r, paid'[id])
  <2>1. paid'[id].mentor = p.mentor + m /\ paid'[id].treasury = p.treasury + t
    BY <1>3
  <2>2. p.mentor \in Nat /\ p.treasury \in Nat
    BY <1>1 DEF PayoutRecord
  <2>3. p.treasury * BPS <= (p.treasury + p.mentor) * MAX_FEE_BPS
    BY <1>1 DEF Accounts
  <2>4. (p.treasury + t) * BPS <= ((p.treasury + t) + (p.mentor + m)) * MAX_FEE_BPS
    BY <1>2, <2>2, <2>3 DEF BPS, MAX_FEE_BPS
  <2>5. r.platform_fee = paid'[id].treasury /\ r.net_amount = paid'[id].mentor
    BY <1>1, <1>2, <2>1 DEF Accounts
  <2>6. r.status = "Released" => r.amount = 0
    BY <1>2
  <2>7. r.quoted_token_amount >= r.total_sessions
    BY <1>1, <1>2 DEF Accounts, SameTerms
  <2> QED BY <2>1, <2>4, <2>5, <2>6, <2>7 DEF Accounts
<1>5. \A i \in EscrowIds \ {id} : paid'[i] = paid[i]
  BY <1>2, OthersUntouched
<1> QED BY <1>2, <1>4, <1>5, OneEntry

\* A ruling or refund leaves what releases paid as it is.
LEMMA SettlementKeepsLedger ==
    ASSUME IInv, Ledger, NEW id \in EscrowIds, NEW r \in EscrowRecord, NEW m \in Nat, NEW l \in Nat,
           Settles(id, r, m, l)
    PROVE  Ledger'
<1> DEFINE e == escrows[id]
           p == paid[id]
<1>1. e \in EscrowRecord /\ p \in PayoutRecord /\ Accounts(e, p)
  BY OwnEffects DEF Ledger
<1>2. /\ e.status \in Live /\ r.status \in {"Resolved", "Refunded"} /\ SameTerms(e, r)
      /\ payout(id, 0, m, l) /\ escrows' = [escrows EXCEPT ![id] = r]
      /\ transition_status(id, e.status, r.status, Admin)
  BY DEF Settles
<1>3. paid'[id] = [mentor |-> p.mentor + m, treasury |-> p.treasury + 0, learner |-> p.learner + l]
  BY <1>2, OwnEffects
<1> HIDE DEF e, p
<1>4. Accounts(r, paid'[id])
  <2>1. paid'[id].mentor = p.mentor + m /\ paid'[id].treasury = p.treasury + 0
    BY <1>3
  <2>2. p.mentor \in Nat /\ p.treasury \in Nat
    BY <1>1 DEF PayoutRecord
  <2>3. p.treasury * BPS <= (p.treasury + p.mentor) * MAX_FEE_BPS
    BY <1>1 DEF Accounts
  <2>4. (p.treasury + 0) * BPS <= ((p.treasury + 0) + (p.mentor + m)) * MAX_FEE_BPS
    BY <2>2, <2>3 DEF BPS, MAX_FEE_BPS
  <2>5. r.quoted_token_amount >= r.total_sessions
    BY <1>1, <1>2 DEF Accounts, SameTerms, Live
  <2> QED BY <1>2, <2>1, <2>4, <2>5 DEF Accounts
<1>5. \A i \in EscrowIds \ {id} : paid'[i] = paid[i]
  BY <1>2, OthersUntouched
<1> QED BY <1>2, <1>4, <1>5, OneEntry

\* A dispute moves no tokens.
LEMMA DisputeKeepsLedger ==
    ASSUME IInv, Ledger, NEW id \in EscrowIds, NEW c \in Users, dispute(c, id)
    PROVE  Ledger'
<1> DEFINE e == escrows[id]
           r == [e EXCEPT !.status = "Disputed"]
<1>1. e \in EscrowRecord /\ paid[id] \in PayoutRecord /\ Accounts(e, paid[id])
  BY OwnEffects DEF Ledger
<1>2. /\ e.status = "Active" /\ c \in {e.mentor, e.learner} /\ UNCHANGED paid
      /\ transition_status(id, e.status, "Disputed", c)
      /\ escrows' = [escrows EXCEPT ![id] = r]
  BY DEF dispute
<1>3. /\ r.status = "Disputed" /\ r.mentor = e.mentor /\ r.learner = e.learner
      /\ r.platform_fee = e.platform_fee /\ r.net_amount = e.net_amount
      /\ r.quoted_token_amount = e.quoted_token_amount /\ r.total_sessions = e.total_sessions
  BY <1>1 DEF EscrowRecord
<1> HIDE DEF r
<1>4. Accounts(r, paid'[id])
  BY <1>1, <1>2, <1>3 DEF Accounts
<1>5. \A i \in EscrowIds \ {id} : paid'[i] = paid[i]
  BY <1>2, OthersUntouched
<1> QED BY <1>2, <1>4, <1>5, OneEntry

\* A deposit opens new books.
LEMMA DepositKeepsLedger ==
    ASSUME IInv, Ledger, AnyDeposit
    PROVE  Ledger'
<1>1. PICK m \in Users, l \in Users, a \in Nat \ {0}, s \in SessionIds \cup {PathPay},
           t \in Nat, n \in Nat \ {0} : create_escrow_internal(m, l, a, s, t, n)
  BY DEF AnyDeposit
<1> DEFINE id == escrow_count + 1
           r == [mentor |-> m, learner |-> l, amount |-> a, session_id |-> s,
                 status |-> "Active", created_at |-> now, platform_fee |-> 0, net_amount |-> 0,
                 session_end_time |-> t, quoted_token_amount |-> a,
                 total_sessions |-> n, sessions_completed |-> 0]
<1>2. /\ id \in EscrowIds /\ a >= n /\ UNCHANGED paid
      /\ transition_status(id, "Pending", "Active", l)
      /\ escrows' = [escrows EXCEPT ![id] = r]
  BY <1>1 DEF create_escrow_internal
<1>3. escrows[id] = Blank
  <2>1. Books
    BY Parts
  <2> QED BY <1>2, <2>1 DEF Books
<1>4. Accounts(Blank, paid[id])
  BY <1>2, <1>3 DEF Ledger
<1>5. paid[id].treasury = 0 /\ paid[id].mentor = 0
  BY <1>4 DEF Accounts, Blank
<1>6. /\ r.status = "Active" /\ r.platform_fee = 0 /\ r.net_amount = 0
      /\ r.quoted_token_amount = a /\ r.total_sessions = n
  OBVIOUS
<1> HIDE DEF r
<1>7. \A i \in EscrowIds \ {id} : paid'[i] = paid[i]
  BY <1>2
<1> HIDE DEF id
<1>8. Accounts(r, paid'[id])
  BY <1>2, <1>5, <1>6 DEF Accounts, BPS, MAX_FEE_BPS
<1> QED BY <1>2, <1>7, <1>8, OneEntry

LEMMA InitLedger == Init => Ledger
<1> SUFFICES ASSUME Init, NEW id \in EscrowIds PROVE Accounts(escrows[id], paid[id])
  BY DEF Ledger
<1>1. escrows[id] = Blank /\ paid[id] = NoPayout
  BY DEF Init
<1>2. Accounts(Blank, NoPayout)
  BY DEF Accounts, Blank, NoPayout, BPS, MAX_FEE_BPS
<1> QED BY <1>1, <1>2

LEMMA NextLedger == IInv /\ Ledger /\ [Next]_vars => Ledger'
<1> SUFFICES ASSUME IInv, Ledger, [Next]_vars PROVE Ledger'
  OBVIOUS
<1>1. CASE AnyDeposit
  BY <1>1, DepositKeepsLedger
<1>2. ASSUME NEW id \in EscrowIds, Pays(id) PROVE Ledger'
  BY <1>2, ReleaseKeepsLedger, SettlementKeepsLedger DEF Pays
<1>3. ASSUME NEW id \in EscrowIds, NEW c \in Users, dispute(c, id) PROVE Ledger'
  BY <1>3, DisputeKeepsLedger
<1>4. CASE Frame
  BY <1>4 DEF Frame, Ledger
<1> QED BY <1>1, <1>2, <1>3, <1>4, StepKinds, LedgerMeans

\* The running books are kept in every reachable state.
THEOREM LedgerKept == Spec => []Ledger
BY InitLedger, NextLedger, Invariant, PTL DEF Spec

\* The platform keeps no more than the fee cap however the rates change between partial
\* releases, and a released record accounts for every token paid.
THEOREM Bookkeeping == Spec => []EscrowBooks
<1>1. Ledger => EscrowBooks
  BY LedgerMeans
<1> QED BY <1>1, LedgerKept, PTL

\* Nobody can make the contract release an escrow before the session's end and the delay, nor
\* before the delay after its last failure, nor after its last attempt.
THEOREM NoEarlyAutoRelease == Spec => AutoReleaseWaits
<1> DEFINE Waits(id) ==
      (log'[id] # log[id] /\ log'[id][Len(log'[id])].actor = Contract) =>
          /\ now >= escrows[id].session_end_time + AutoReleaseDelay
          /\ now >= failures[id].next_retry_time
          /\ failures[id].attempt_number < MaxAttempts
<1>1. IInv /\ Ledger /\ [Next]_vars => [\A id \in EscrowIds : Waits(id)]_vars
  <2> SUFFICES ASSUME IInv, Ledger, [Next]_vars, NEW id \in EscrowIds PROVE Waits(id)
    OBVIOUS
  <2>1. ASSUME NEW i \in EscrowIds, NEW f, NEW t, NEW a, transition_status(i, f, t, a),
               i = id => a # Contract
        PROVE  Waits(id)
    <3>1. CASE i # id
      BY <2>1, <3>1, OthersUntouched
    <3>2. CASE i = id
      <4> DEFINE x == [from |-> f, to |-> t, actor |-> a]
      <4> transition_status(id, f, t, a)
        BY <2>1, <3>2
      <4>1. log'[id] = Append(log[id], x) /\ log[id] \in Seq(LogEntry)
        BY Parts DEF transition_status, Rest
      <4>2. x.actor = a
        OBVIOUS
      <4> HIDE DEF x
      <4>3. log'[id][Len(log'[id])] = x
        BY <4>1
      <4> QED BY <2>1, <3>2, <4>2, <4>3
    <3> QED BY <3>1, <3>2
  <2>2. CASE AnyDeposit
    <3>1. PICK m \in Users, l \in Users, a \in Nat \ {0}, s \in SessionIds \cup {PathPay}, t \in Nat, n \in Nat \ {0} :
               create_escrow_internal(m, l, a, s, t, n)
      BY <2>2 DEF AnyDeposit
    <3>2. escrow_count + 1 \in EscrowIds
            /\ transition_status(escrow_count + 1, "Pending", "Active", l)
      BY <3>1 DEF create_escrow_internal
    <3> QED BY <2>1, <3>2, AddressAssumption
  <2>3. ASSUME NEW i \in EscrowIds, NEW r, NEW t, NEW m, NEW actor,
               Releases(i, r, t, m, actor), MayRelease(i, actor)
        PROVE  Waits(id)
    <3>1. CASE transition_status(i, "Active", "Released", actor)
      BY <2>1, <2>3, <3>1 DEF MayRelease
    <3>2. CASE UNCHANGED log
      BY <3>2
    <3> QED BY <2>3, <3>1, <3>2 DEF Releases
  <2>4. ASSUME NEW i \in EscrowIds, NEW r, NEW m, NEW l, Settles(i, r, m, l) PROVE Waits(id)
    BY <2>1, <2>4, AddressAssumption DEF Settles
  <2>5. ASSUME NEW i \in EscrowIds, NEW c \in Users, dispute(c, i) PROVE Waits(id)
    BY <2>1, <2>5, AddressAssumption DEF dispute
  <2>6. CASE Frame
    BY <2>6 DEF Frame
  <2> HIDE DEF Waits
  <2> QED BY <2>2, <2>3, <2>4, <2>5, <2>6, StepKinds, LedgerMeans DEF Pays
<1> QED BY <1>1, Invariant, LedgerKept, PTL DEF Spec, AutoReleaseWaits

-----------------------------------------------------------------------------
(* Solvency and the abstract deposits: what a step does to one escrow, as  *)
(* far as tokens go, and that the contract's balance moves with it.        *)

\* Escrow i is as it was.
Stays(i) == Held(i)' = Held(i) /\ PaidOut(i)' = PaidOut(i) /\ StageOf(i)' = StageOf(i)

Opens(id) ==
    /\ StageOf(id) = "unused" /\ StageOf(id)' = "open"
    /\ Held(id)' > 0 /\ PaidOut(id)' = PaidOut(id)
PaysPart(id) ==
    /\ StageOf(id) = "open" /\ StageOf(id)' = "open"
    /\ Held(id)' \in 1 .. (Held(id) - 1)
    /\ PaidOut(id)' = PaidOut(id) + (Held(id) - Held(id)')
Closes(id) ==
    /\ StageOf(id) = "open" /\ StageOf(id)' = "closed"
    /\ Held(id)' = 0 /\ PaidOut(id)' = PaidOut(id) + Held(id)

\* One escrow moves, and the contract's tokens with it.
Moves(id) ==
    /\ \A i \in EscrowIds \ {id} : Stays(i)
    /\ balance'[Contract] = balance[Contract] + (Held(id)' - Held(id))
    /\ Opens(id) \/ PaysPart(id) \/ Closes(id)

\* No escrow moves.
Rests == (\A i \in EscrowIds : Stays(i)) /\ balance'[Contract] = balance[Contract]

\* What an escrow holds and what it has paid are natural numbers.
LEMMA HoldingsTyped ==
    ASSUME IInv, NEW id \in EscrowIds
    PROVE  Held(id) \in Nat /\ PaidOut(id) \in Nat
<1>1. escrows[id] \in EscrowRecord /\ paid[id] \in PayoutRecord
  BY Parts DEF Books
<1> QED BY <1>1 DEF Held, PaidOut, EscrowRecord, PayoutRecord

\* The contract is never its own beneficiary: a payout costs it what is paid.
LEMMA ContractPays ==
    ASSUME IInv, NEW id \in EscrowIds, NEW t \in Nat, NEW m \in Nat, NEW l \in Nat,
           payout(id, t, m, l)
    PROVE  balance'[Contract] = balance[Contract] - (t + m + l)
<1> DEFINE e  == escrows[id]
           b1 == credit(balance, Contract, -(t + m + l))
           b2 == credit(b1, Treasury, t)
           b3 == credit(b2, e.mentor, m)
           b4 == credit(b3, e.learner, l)
<1>1. balance \in [Address -> Nat] /\ e \in EscrowRecord /\ Contract \in Address
  BY Parts DEF Books, Address
<1>2. balance' = b4
  BY DEF payout
<1>3. e.mentor # Contract /\ e.learner # Contract /\ Treasury # Contract
  BY <1>1, AddressAssumption DEF EscrowRecord
<1>4. b1[Contract] = balance[Contract] - (t + m + l)
  BY <1>1 DEF credit
<1> HIDE DEF b1
<1>5. b2[Contract] = b1[Contract]
  BY <1>3 DEF credit
<1> HIDE DEF b2
<1>6. b3[Contract] = b2[Contract]
  BY <1>3 DEF credit
<1> HIDE DEF b3
<1>7. b4[Contract] = b3[Contract]
  BY <1>3 DEF credit
<1> QED BY <1>2, <1>4, <1>5, <1>6, <1>7

\* Only the record and the payments of an escrow say how it stands.
LEMMA OthersStay ==
    ASSUME IInv, NEW id \in EscrowIds, NEW r, escrows' = [escrows EXCEPT ![id] = r],
           \A i \in EscrowIds \ {id} : paid'[i] = paid[i]
    PROVE  escrows'[id] = r /\ \A i \in EscrowIds \ {id} : Stays(i)
<1>1. escrows'[id] = r /\ \A i \in EscrowIds \ {id} : escrows'[i] = escrows[i]
  BY Parts DEF Books
<1> QED BY <1>1 DEF Stays, Held, PaidOut, StageOf

\* A payment moves one escrow: part of it goes, or all of it and the escrow closes.
LEMMA PaymentMoves ==
    ASSUME IInv, NEW id \in EscrowIds, NEW r \in EscrowRecord, NEW t \in Nat, NEW m \in Nat,
           NEW l \in Nat, escrows[id].status \in Live, payout(id, t, m, l),
           escrows' = [escrows EXCEPT ![id] = r],
           t + m + l + Owes(r) = escrows[id].amount,
           \/ r.status \in Terminal
           \/ r.status \in Live /\ r.amount \in 1 .. (escrows[id].amount - 1)
    PROVE  Moves(id)
<1> DEFINE e == escrows[id]
<1>1. e \in EscrowRecord /\ paid[id] \in PayoutRecord /\ balance[Contract] \in Nat
  BY Parts DEF Books, Address
<1>2. escrows'[id] = r /\ \A i \in EscrowIds \ {id} : Stays(i)
  BY OthersUntouched, OthersStay
<1>3. paid'[id] = [mentor |-> paid[id].mentor + m, treasury |-> paid[id].treasury + t,
                   learner |-> paid[id].learner + l]
  BY OwnEffects
<1>4. Held(id) = e.amount /\ Held(id)' = Owes(r) /\ e.amount \in Nat /\ Owes(r) \in Nat
  BY <1>1, <1>2 DEF Held, Owes, EscrowRecord
<1>5. PaidOut(id)' = PaidOut(id) + (t + m + l)
  <2>1. /\ paid'[id].mentor = paid[id].mentor + m /\ paid'[id].treasury = paid[id].treasury + t
        /\ paid'[id].learner = paid[id].learner + l
    BY <1>3
  <2>2. paid[id].mentor \in Nat /\ paid[id].treasury \in Nat /\ paid[id].learner \in Nat
    BY <1>1 DEF PayoutRecord
  <2> QED BY <2>1, <2>2 DEF PaidOut
<1>6. t + m + l = Held(id) - Held(id)' /\ PaidOut(id) \in Nat
  BY <1>4, HoldingsTyped
<1>7. balance'[Contract] = balance[Contract] + (Held(id)' - Held(id))
  BY <1>1, <1>4, <1>6, ContractPays
<1>8. StageOf(id) = "open"
  BY DEF StageOf, Live
<1>9. CASE r.status \in Terminal
  <2>1. Owes(r) = 0 /\ StageOf(id)' = "closed"
    BY <1>2, <1>9 DEF Owes, Live, Terminal, StageOf
  <2>2. PaidOut(id)' = PaidOut(id) + Held(id) /\ Held(id)' = 0
    BY <1>4, <1>5, <1>6, <2>1
  <2> QED BY <1>2, <1>7, <1>8, <2>1, <2>2 DEF Moves, Closes
<1>10. CASE r.status \in Live /\ r.amount \in 1 .. (e.amount - 1)
  <2>1. Owes(r) = r.amount /\ StageOf(id)' = "open"
    BY <1>2, <1>10 DEF Owes, Live, StageOf
  <2>2. PaidOut(id)' = PaidOut(id) + (Held(id) - Held(id)') /\ Held(id)' \in 1 .. (Held(id) - 1)
    BY <1>4, <1>5, <1>6, <1>10, <2>1
  <2> QED BY <1>2, <1>7, <1>8, <2>1, <2>2 DEF Moves, PaysPart
<1> QED BY <1>9, <1>10

\* A deposit moves one escrow.
LEMMA DepositMoves ==
    ASSUME IInv, AnyDeposit
    PROVE  \E id \in EscrowIds : Moves(id)
<1>1. PICK m \in Users, l \in Users, a \in Nat \ {0}, s \in SessionIds \cup {PathPay},
           t \in Nat, n \in Nat \ {0} : create_escrow_internal(m, l, a, s, t, n)
  BY DEF AnyDeposit
<1> DEFINE r == [mentor |-> m, learner |-> l, amount |-> a, session_id |-> s,
                 status |-> "Active", created_at |-> now, platform_fee |-> 0, net_amount |-> 0,
                 session_end_time |-> t, quoted_token_amount |-> a,
                 total_sessions |-> n, sessions_completed |-> 0]
           b == credit(balance, l, -a)
<1>2. PICK id \in EscrowIds : id = escrow_count + 1
  BY <1>1 DEF create_escrow_internal
<1>3. /\ UNCHANGED paid /\ balance[l] >= a
      /\ balance' = credit(b, Contract, a)
      /\ escrows' = [escrows EXCEPT ![id] = r]
  BY <1>1, <1>2 DEF create_escrow_internal
<1>4. escrows[id] = Blank /\ balance \in [Address -> Nat] /\ Contract \in Address /\ l \in Address
  <2>1. Books
    BY Parts
  <2>2. id > escrow_count
    BY <1>2, <2>1 DEF Books
  <2> QED BY <2>1, <2>2 DEF Books, Address
<1>5. r.status = "Active" /\ r.amount = a
  OBVIOUS
<1> HIDE DEF r
<1>6. escrows'[id] = r /\ \A i \in EscrowIds \ {id} : Stays(i)
  BY <1>3, OthersStay
<1>7. StageOf(id) = "unused" /\ Held(id) = 0
  BY <1>4 DEF StageOf, Held, Blank, Live
<1>8. StageOf(id)' = "open" /\ Held(id)' = a /\ PaidOut(id)' = PaidOut(id)
  BY <1>3, <1>5, <1>6 DEF StageOf, Held, PaidOut, Live
<1>9. balance'[Contract] = balance[Contract] + a
  <2>1. b \in [Address -> Nat]
    BY <1>3, <1>4, CreditTyped
  <2>2. b[Contract] = balance[Contract]
    BY <1>4, AddressAssumption DEF credit
  <2> HIDE DEF b
  <2> QED BY <1>3, <1>4, <2>1, <2>2 DEF credit
<1>10. Moves(id)
  BY <1>6, <1>7, <1>8, <1>9 DEF Moves, Opens
<1> QED BY <1>10

\* Every step moves at most one escrow.
LEMMA StepMoves ==
    ASSUME IInv, SharesArePositive, [Next]_vars
    PROVE  (\E id \in EscrowIds : Moves(id)) \/ Rests
<1>1. ASSUME NEW id \in EscrowIds, NEW r \in EscrowRecord, NEW t \in Nat, NEW m \in Nat, NEW actor,
             Releases(id, r, t, m, actor)
      PROVE  Moves(id)
  <2>1. r.amount \in Nat /\ 0 \in Nat
    BY DEF EscrowRecord
  <2>2. Owes(r) = r.amount /\ t + m + 0 + r.amount = t + m + r.amount
    BY <1>1, <2>1 DEF Releases, Owes, Live
  <2> QED BY <1>1, <2>1, <2>2, PaymentMoves DEF Releases, Live, Terminal
<1>2. ASSUME NEW id \in EscrowIds, NEW r \in EscrowRecord, NEW m \in Nat, NEW l \in Nat,
             Settles(id, r, m, l)
      PROVE  Moves(id)
  <2>1. Owes(r) = 0 /\ 0 + m + l + 0 = m + l /\ 0 \in Nat
    BY <1>2 DEF Settles, Owes, Live
  <2> QED BY <1>2, <2>1, PaymentMoves DEF Settles, Live, Terminal
<1>3. ASSUME NEW id \in EscrowIds, NEW c \in Users, dispute(c, id)
      PROVE  Rests
  <2> DEFINE r == [escrows[id] EXCEPT !.status = "Disputed"]
  <2>1. escrows[id] \in EscrowRecord
    BY Parts DEF Books
  <2>2. escrows[id].status = "Active" /\ escrows' = [escrows EXCEPT ![id] = r]
          /\ UNCHANGED <<paid, balance>>
    BY <1>3 DEF dispute
  <2>3. r.status = "Disputed" /\ r.amount = escrows[id].amount
    BY <2>1 DEF EscrowRecord
  <2> HIDE DEF r
  <2>4. escrows'[id] = r /\ \A i \in EscrowIds \ {id} : Stays(i)
    BY <2>2, OthersStay
  <2>5. Stays(id)
    BY <2>2, <2>3, <2>4 DEF Stays, Held, PaidOut, StageOf, Live
  <2> QED BY <2>2, <2>4, <2>5 DEF Rests
<1>4. CASE Frame
  BY <1>4 DEF Frame, Rests, Stays, Held, PaidOut, StageOf
<1> QED BY <1>1, <1>2, <1>3, <1>4, StepKinds, DepositMoves DEF Pays

\* What the escrows of the contract hold together.
AllHeld == SumFunctionOnSet([id \in EscrowIds |-> Held(id)], EscrowIds)

\* It is a number of tokens after every step that keeps the invariant.
LEMMA NextHeldTyped ==
    ASSUME IInv'
    PROVE  AllHeld' \in Nat
<1> DEFINE g == [i \in EscrowIds |-> Held(i)']
<1>1. \A i \in EscrowIds : g[i] \in Nat
  <2> SUFFICES ASSUME NEW i \in EscrowIds PROVE Held(i)' \in Nat
    OBVIOUS
  <2>1. escrows'[i] \in EscrowRecord
    BY Parts DEF Books
  <2> QED BY <2>1 DEF Held, EscrowRecord
<1>2. IsFiniteSet(EscrowIds)
  BY LimitsAssumption, FS_Interval DEF EscrowIds
<1>3. AllHeld' = SumFunctionOnSet(g, EscrowIds)
  BY DEF AllHeld
<1> HIDE DEF g
<1> QED BY <1>1, <1>2, <1>3, SumType

\* The balance moves with the sum of what the escrows hold.
LEMMA StepHeld ==
    ASSUME IInv, SharesArePositive, [Next]_vars
    PROVE  balance'[Contract] = balance[Contract] + (AllHeld' - AllHeld)
<1> DEFINE f == [i \in EscrowIds |-> Held(i)]
           g == [i \in EscrowIds |-> Held(i)']
<1>1. IInv'
  BY NextIInv
<1>2. \A i \in EscrowIds : Held(i) \in Nat /\ Held(i)' \in Nat
  <2> SUFFICES ASSUME NEW i \in EscrowIds PROVE Held(i) \in Nat /\ Held(i)' \in Nat
    OBVIOUS
  <2>1. escrows'[i] \in EscrowRecord
    BY <1>1, Parts DEF Books
  <2> QED BY <2>1, HoldingsTyped DEF Held, EscrowRecord
<1>3. IsFiniteSet(EscrowIds)
  BY LimitsAssumption, FS_Interval DEF EscrowIds
<1>4. AllHeld = SumFunctionOnSet(f, EscrowIds) /\ AllHeld' = SumFunctionOnSet(g, EscrowIds)
  BY DEF AllHeld
<1>5. AllHeld \in Int /\ balance[Contract] \in Int
  <2>1. \A i \in EscrowIds : f[i] \in Int
    BY <1>2
  <2>2. balance[Contract] \in Int
    BY Parts DEF Books, Address
  <2> HIDE DEF f
  <2> QED BY <1>3, <1>4, <2>1, <2>2, SumType
<1>6. CASE Rests
  <2>1. f = g
    BY <1>6 DEF Rests, Stays
  <2> QED BY <1>4, <1>5, <1>6, <2>1 DEF Rests
<1>7. ASSUME NEW id \in EscrowIds, Moves(id)
      PROVE  balance'[Contract] = balance[Contract] + (AllHeld' - AllHeld)
  <2>1. \A i \in EscrowIds : f[i] \in Int /\ g[i] \in Int
    BY <1>2
  <2>2. \A i \in EscrowIds \ {id} : f[i] = g[i]
    BY <1>7 DEF Moves, Stays
  <2>3. f[id] = Held(id) /\ g[id] = Held(id)' /\ Held(id) \in Int /\ Held(id)' \in Int
    BY <1>2
  <2> HIDE DEF f, g
  <2>4. AllHeld' = AllHeld + (g[id] - f[id])
    BY <1>3, <1>4, <2>1, <2>2, SumChange
  <2> QED BY <1>5, <1>7, <2>3, <2>4 DEF Moves
<1> QED BY <1>6, <1>7, StepMoves

\* The contract's balance is always the sum of what its live escrows hold: every one of
\* them can be settled whatever happened to the others.
THEOREM AlwaysSolvent == Spec => []Solvency
<1>1. Init => Solvency
  <2> SUFFICES ASSUME Init PROVE Solvency
    OBVIOUS
  <2> DEFINE f == [i \in EscrowIds |-> Held(i)]
             z == [i \in EscrowIds |-> 0]
  <2>1. f = z
    BY DEF Init, Held, Blank, Live
  <2>2. balance[Contract] = 0
    BY AddressAssumption DEF Init
  <2>3. IsFiniteSet(EscrowIds)
    BY LimitsAssumption, FS_Interval DEF EscrowIds
  <2>4. SumFunctionOnSet(z, EscrowIds) = 0
    BY <2>3, SumZero
  <2> QED BY <2>1, <2>2, <2>4 DEF Solvency
<1>2. IInv /\ Ledger /\ Solvency /\ [Next]_vars => Solvency'
  <2> SUFFICES ASSUME IInv, Ledger, Solvency, [Next]_vars PROVE Solvency'
    OBVIOUS
  <2>1. balance[Contract] = AllHeld /\ balance[Contract] \in Int
    BY Parts DEF Solvency, AllHeld, Books, Address
  <2>2. AllHeld' \in Int
    <3>1. IInv'
      BY NextIInv
    <3> QED BY <3>1, NextHeldTyped
  <2>3. balance'[Contract] = AllHeld'
    BY <2>1, <2>2, StepHeld, LedgerMeans
  <2> QED BY <2>3 DEF Solvency, AllHeld
<1> QED BY <1>1, <1>2, Invariant, LedgerKept, PTL DEF Spec

\* Every step of the contract is a step of the abstract deposits or none.
LEMMA StepRefines ==
    ASSUME IInv, Ledger, [Next]_vars
    PROVE  [Deposit!DepositsNext]_<<[id \in EscrowIds |-> StageOf(id)],
                                    [id \in EscrowIds |-> Held(id)],
                                    [id \in EscrowIds |-> PaidOut(id)]>>
<1> DEFINE stage == [i \in EscrowIds |-> StageOf(i)]
           left  == [i \in EscrowIds |-> Held(i)]
           given == [i \in EscrowIds |-> PaidOut(i)]
<1>1. CASE Rests
  <2>1. stage' = stage /\ left' = left /\ given' = given
    BY <1>1 DEF Rests, Stays
  <2> QED BY <2>1
<1>2. ASSUME NEW id \in EscrowIds, Moves(id) PROVE Deposit!DepositsNext
  <2>1. /\ stage' = [stage EXCEPT ![id] = StageOf(id)']
        /\ left' = [left EXCEPT ![id] = Held(id)']
        /\ given' = [given EXCEPT ![id] = PaidOut(id)']
    BY <1>2 DEF Moves, Stays
  <2>2. /\ stage[id] = StageOf(id) /\ left[id] = Held(id) /\ given[id] = PaidOut(id)
        /\ left'[id] = Held(id)'
    OBVIOUS
  <2> HIDE DEF stage, left, given
  <2>3. CASE Opens(id)
    <3>1. given' = given
      BY <2>1, <2>2, <2>3 DEF Opens, given
    <3>2. Deposit!Open(id)
      BY <2>1, <2>2, <2>3, <3>1 DEF Opens, Deposit!Open, stage, left, given
    <3> QED BY <3>2 DEF Deposit!DepositsNext
  <2>4. CASE PaysPart(id)
    <3>1. Deposit!PayPart(id)
      BY <2>1, <2>2, <2>4 DEF PaysPart, Deposit!PayPart, stage, left, given
    <3> QED BY <3>1 DEF Deposit!DepositsNext
  <2>5. CASE Closes(id)
    <3>1. Deposit!Close(id)
      BY <2>1, <2>2, <2>5 DEF Closes, Deposit!Close, stage, left, given
    <3> QED BY <3>1 DEF Deposit!DepositsNext
  <2> QED BY <1>2, <2>3, <2>4, <2>5 DEF Moves
<1> QED BY <1>1, <1>2, StepMoves, LedgerMeans

\* The escrow contract implements the deposits it promises the two parties.
THEOREM Refinement == Spec => ImplementsDeposits
<1>1. Init => Deposit!DepositsInit
  BY DEF Init, Deposit!DepositsInit, StageOf, Held, PaidOut, Blank, NoPayout, Live
<1> QED BY <1>1, StepRefines, Invariant, LedgerKept, PTL
        DEF Spec, ImplementsDeposits, Deposit!DepositsSpec

-----------------------------------------------------------------------------
(* What needs no books: facts about records and failures that also hold    *)
(* when somebody else releases an escrow or records are written back.      *)

LooseRecord ==
    [mentor : Users \cup {NoUser}, learner : Users \cup {NoUser}, amount : Int,
     session_id : SessionIds \cup {PathPay}, status : StoredStatuses, created_at : Nat,
     platform_fee : Int, net_amount : Int, session_end_time : Nat,
     quoted_token_amount : Int, total_sessions : Nat \ {0}, sessions_completed : Nat]

Loose ==
    /\ now \in Nat /\ escrow_count \in 0 .. MaxEscrows
    /\ escrows \in [EscrowIds -> LooseRecord]
    /\ \A id \in EscrowIds : id > escrow_count => escrows[id] = Blank
    /\ failures \in [EscrowIds -> FailureRecord]
    /\ fee_bps \in 0 .. MAX_FEE_BPS /\ fee_schedule \in Schedules \cup {NoSchedule}

\* The record e of an escrow that exists may become r.
Evolves(e, r) ==
    /\ r = e \/ SameTerms(e, r)
    /\ e.status \in Terminal => r = e
    /\ r.status # "None"
    /\ r.status = "Active" => e.status = "Active"

\* What a call may do to the records.
RecordsEvolve ==
    \A i \in EscrowIds : escrows[i].status # "None" => Evolves(escrows[i], escrows'[i])

\* What it may do to the failure records: only those of active escrows change, and one that
\* is exhausted stays so until the escrow is released.
FailuresEvolve ==
    \A i \in EscrowIds :
        /\ escrows[i].status # "Active" =>
              failures'[i] = failures[i] /\ (i \in watchlist' => i \in watchlist)
        /\ failures[i].attempt_number >= MaxAttempts /\ escrows'[i].status = "Active" =>
              failures'[i] = failures[i]

\* Shares and fees of whole amounts are whole.
LEMMA QuotientTyped ==
    ASSUME NEW a \in Int, NEW w \in Nat \ {0}
    PROVE  a \div w \in Int
OBVIOUS

LEMMA FeeTyped ==
    ASSUME NEW a \in Int, NEW bps \in Int
    PROVE  fee_of(a, bps) \in Int
<1>1. a * bps \in Int /\ BPS \in Nat \ {0}
  BY DEF BPS
<1> QED BY <1>1, QuotientTyped DEF fee_of

\* One record changes.
LEMMA OneEvolves ==
    ASSUME Loose, NEW id \in EscrowIds, NEW r \in LooseRecord,
           escrows' = [escrows EXCEPT ![id] = r], UNCHANGED escrow_count,
           escrows[id].status \in Live, Evolves(escrows[id], r)
    PROVE  /\ escrows' \in [EscrowIds -> LooseRecord] /\ escrows'[id] = r
           /\ \A i \in EscrowIds : i > escrow_count' => escrows'[i] = Blank
           /\ RecordsEvolve
<1>1. \A i \in EscrowIds : escrows'[i] = IF i = id THEN r ELSE escrows[i]
  BY DEF Loose
<1>2. escrows[id] # Blank
  BY DEF Blank, Live
<1>3. \A i \in EscrowIds : i > escrow_count' => escrows'[i] = Blank
  BY <1>1, <1>2 DEF Loose
<1>4. RecordsEvolve
  BY <1>1 DEF RecordsEvolve, Evolves
<1>5. escrows' \in [EscrowIds -> LooseRecord]
  BY DEF Loose
<1> QED BY <1>1, <1>3, <1>4, <1>5

\* A full release by anybody.
LEMMA LooseRelease ==
    ASSUME Loose, NEW id \in EscrowIds, NEW bps \in Int, NEW actor, do_release(id, bps, actor),
           UNCHANGED escrow_count
    PROVE  /\ escrows' \in [EscrowIds -> LooseRecord] /\ escrows'[id].status = "Released"
           /\ \A i \in EscrowIds : i > escrow_count' => escrows'[i] = Blank
           /\ RecordsEvolve /\ escrows[id].status = "Active"
<1> DEFINE e == escrows[id]
           fee == fee_of(e.amount, bps)
           r == released_record(e, fee)
<1>1. e \in LooseRecord
  BY DEF Loose
<1>2. e.status = "Active" /\ escrows' = [escrows EXCEPT ![id] = r]
  BY ReleasedFromActive DEF do_release
<1>3. fee \in Int
  <2>1. e.amount \in Int
    BY <1>1 DEF LooseRecord
  <2> QED BY <2>1, FeeTyped
<1> HIDE DEF fee
<1>4. r \in LooseRecord /\ r.status = "Released" /\ SameTerms(e, r)
  <2>1. e.platform_fee + fee \in Int /\ e.net_amount + (e.amount - fee) \in Int
    BY <1>1, <1>3 DEF LooseRecord
  <2>2. "Released" \in StoredStatuses
    BY DEF StoredStatuses
  <2> HIDE DEF e
  <2>3. r \in LooseRecord
    <3> DEFINE f == e.platform_fee + fee
               n == e.net_amount + (e.amount - fee)
    <3>1. r = [e EXCEPT !.amount = 0, !.platform_fee = f, !.net_amount = n, !.status = "Released"]
      BY DEF released_record
    <3>2. f \in Int /\ n \in Int /\ 0 \in Int
      BY <2>1
    <3> HIDE DEF f, n, r
    <3> QED BY <1>1, <2>2, <3>1, <3>2 DEF LooseRecord
  <2>4. r.status = "Released"
    BY <1>1 DEF LooseRecord, released_record
  <2>5. SameTerms(e, r)
    BY <1>1 DEF LooseRecord, released_record, SameTerms
  <2> QED BY <2>3, <2>4, <2>5
<1> HIDE DEF r
<1>5. Evolves(e, r)
  BY <1>2, <1>4 DEF Evolves, Terminal
<1> QED BY <1>2, <1>4, <1>5, OneEvolves DEF Live

\* The payment of some sessions.
LEMMA LooseSessions ==
    ASSUME Loose, NEW id \in EscrowIds, NEW k \in Nat, NEW bps \in Int, NEW actor,
           escrows[id].status = "Active", release_sessions(id, k, bps, actor),
           UNCHANGED escrow_count
    PROVE  /\ escrows' \in [EscrowIds -> LooseRecord]
           /\ \A i \in EscrowIds : i > escrow_count' => escrows'[i] = Blank
           /\ RecordsEvolve
<1> DEFINE e == escrows[id]
           gross == session_amount(e, k)
           fee == fee_of(gross, bps)
           r == sessions_record(e, k, gross, fee)
<1>1. e \in LooseRecord
  BY DEF Loose
<1>2. e.status = "Active" /\ escrows' = [escrows EXCEPT ![id] = r]
  BY DEF release_sessions
<1>3. gross \in Int
  <2>1. e.amount \in Int /\ e.quoted_token_amount \in Int /\ e.total_sessions \in Nat \ {0}
    BY <1>1 DEF LooseRecord
  <2>2. e.quoted_token_amount \div e.total_sessions \in Int
    BY <2>1, QuotientTyped
  <2>3. (e.quoted_token_amount \div e.total_sessions) * k \in Int
    BY <2>2
  <2> HIDE DEF e
  <2> QED BY <2>1, <2>3 DEF session_amount
<1> HIDE DEF gross
<1>4. fee \in Int
  BY <1>3, FeeTyped
<1> HIDE DEF fee
<1>5. r \in LooseRecord /\ r.status \in {"Active", "Released"} /\ SameTerms(e, r)
  <2> DEFINE st == IF e.sessions_completed + k = e.total_sessions THEN "Released" ELSE e.status
  <2>1. /\ e.platform_fee + fee \in Int /\ e.net_amount + (gross - fee) \in Int
        /\ e.amount - gross \in Int /\ e.sessions_completed + k \in Nat
    BY <1>1, <1>3, <1>4 DEF LooseRecord
  <2>2. st \in StoredStatuses /\ st \in {"Active", "Released"}
    BY <1>2 DEF StoredStatuses
  <2> HIDE DEF e
  <2>3. r.status = st
    BY <1>1 DEF LooseRecord, sessions_record
  <2>4. SameTerms(e, r)
    BY <1>1 DEF LooseRecord, sessions_record, SameTerms
  <2>5. r \in LooseRecord
    BY <1>1, <2>1, <2>2 DEF LooseRecord, sessions_record
  <2> QED BY <2>2, <2>3, <2>4, <2>5
<1> HIDE DEF r
<1>6. Evolves(e, r)
  BY <1>2, <1>5 DEF Evolves, Terminal
<1> QED BY <1>2, <1>5, <1>6, OneEvolves DEF Live

\* A failed attempt is counted, up to the limit.
LEMMA LooseFailure ==
    ASSUME Loose, NEW id \in EscrowIds, try_auto_release_failed(id)
    PROVE  /\ failures' \in [EscrowIds -> FailureRecord]
           /\ \A i \in EscrowIds \ {id} : failures'[i] = failures[i]
           /\ escrows[id].status = "Active" /\ failures[id].attempt_number < MaxAttempts
<1> DEFINE n == failures[id].attempt_number + 1
           f == after_failure(failures[id])
<1>1. failures[id] \in FailureRecord /\ auto_release_due(id) /\ failures' = [failures EXCEPT ![id] = f]
  BY DEF Loose, try_auto_release_failed
<1>2. n \in 0 .. MaxAttempts
  BY <1>1, LimitsAssumption DEF auto_release_due, FailureRecord
<1>3. now + backoff(n) \in Nat
  <2>1. backoff(n) \in Nat
    BY <1>1, <1>2, BackoffTyped DEF FailureRecord
  <2> QED BY <2>1 DEF Loose
<1>4. f \in FailureRecord
  BY <1>2, <1>3 DEF after_failure, FailureRecord
<1> HIDE DEF f
<1> QED BY <1>1, <1>4 DEF Loose, auto_release_due

\* What a call leaves of the loose types when it opens no escrow.
LooseResult ==
    /\ escrows' \in [EscrowIds -> LooseRecord]
    /\ \A i \in EscrowIds : i > escrow_count' => escrows'[i] = Blank
    /\ RecordsEvolve

\* Every step of the contract, other than a deposit.
LEMMA LooseOther ==
    ASSUME Loose, [Next]_vars, ~Create
    PROVE  LooseResult /\ UNCHANGED escrow_count
<1> DEFINE Same == UNCHANGED <<escrows, escrow_count>>
<1>1. ASSUME Same PROVE LooseResult /\ UNCHANGED escrow_count
  BY <1>1 DEF Loose, LooseResult, RecordsEvolve, Evolves
<1>2. \A id \in EscrowIds : escrows[id] \in LooseRecord /\ escrows[id].amount \in Int
  BY DEF Loose, LooseRecord
<1>3. fee_bps \in Int /\ \A a \in Int : \A bps \in release_rates(a) : bps \in Int
  <2>1. fee_bps \in Int
    BY DEF Loose, MAX_FEE_BPS
  <2>2. ASSUME NEW a \in Int, NEW bps \in release_rates(a) PROVE bps \in Int
    <3>1. bps \in 0 .. MAX_FEE_BPS
      BY RatesCapped DEF Loose
    <3> QED BY <3>1 DEF MAX_FEE_BPS
  <2> QED BY <2>1, <2>2
<1>4. ASSUME NEW id \in EscrowIds, NEW k \in Nat
      PROVE  session_amount(escrows[id], k) \in Int
  <2> DEFINE e == escrows[id]
  <2>1. e.amount \in Int /\ e.quoted_token_amount \in Int /\ e.total_sessions \in Nat \ {0}
    BY <1>2 DEF LooseRecord
  <2>2. e.quoted_token_amount \div e.total_sessions \in Int
    BY <2>1, QuotientTyped
  <2>3. (e.quoted_token_amount \div e.total_sessions) * k \in Int
    BY <2>2
  <2> HIDE DEF e
  <2>4. session_amount(e, k) \in Int
    BY <2>1, <2>3 DEF session_amount
  <2> QED BY <2>4 DEF e
<1>5. ASSUME NEW id \in EscrowIds, NEW bps \in Int, NEW actor, do_release(id, bps, actor),
             UNCHANGED escrow_count
      PROVE  LooseResult /\ UNCHANGED escrow_count
  BY <1>5, LooseRelease DEF LooseResult
<1>6. ASSUME NEW id \in EscrowIds, NEW k \in Nat, NEW bps \in Int, NEW actor,
             escrows[id].status = "Active", release_sessions(id, k, bps, actor),
             UNCHANGED escrow_count
      PROVE  LooseResult /\ UNCHANGED escrow_count
  BY <1>6, LooseSessions DEF LooseResult
<1>7. ASSUME NEW id \in EscrowIds, Release(id) PROVE LooseResult /\ UNCHANGED escrow_count
  <2>1. ASSUME NEW c, release_funds(c, id) PROVE LooseResult /\ UNCHANGED escrow_count
    <3>1. PICK bps \in release_rates(escrows[id].amount) : do_release(id, bps, c)
      BY <2>1 DEF release_funds
    <3>2. bps \in Int /\ UNCHANGED escrow_count
      BY <1>2, <1>3, <2>1 DEF release_funds, sessions
    <3> QED BY <1>5, <3>1, <3>2
  <2>2. ASSUME NEW c, release_partial(c, id) PROVE LooseResult /\ UNCHANGED escrow_count
    <3>1. PICK bps \in release_rates(session_amount(escrows[id], 1)) : release_sessions(id, 1, bps, c)
      BY <2>2 DEF release_partial
    <3>2. bps \in Int
      BY <1>3, <1>4
    <3>3. escrows[id].status = "Active" /\ UNCHANGED escrow_count
      BY <2>2 DEF release_partial, partially_releasable
    <3> QED BY <1>6, <3>1, <3>2, <3>3
  <2>3. ASSUME NEW c, NEW k \in SessionCounts, batch_release(c, id, k)
        PROVE  LooseResult /\ UNCHANGED escrow_count
    <3>1. PICK bps \in release_rates(session_amount(escrows[id], k)) : release_sessions(id, k, bps, c)
      BY <2>3 DEF batch_release
    <3>2. k \in Nat
      BY SessionsAssumption
    <3>3. bps \in Int
      BY <1>3, <1>4, <3>2
    <3>4. escrows[id].status = "Active" /\ UNCHANGED escrow_count
      BY <2>3 DEF batch_release
    <3> QED BY <1>6, <3>1, <3>2, <3>3, <3>4
  <2>4. CASE admin_release(id)
    <3>1. PICK bps \in release_rates(escrows[id].amount) : do_release(id, bps, Admin)
      BY <2>4 DEF admin_release
    <3>2. bps \in Int /\ UNCHANGED escrow_count
      BY <1>2, <1>3, <2>4 DEF admin_release, sessions
    <3> QED BY <1>5, <3>1, <3>2
  <2>5. CASE manual_recovery_release(id)
    BY <1>3, <1>5, <2>5 DEF manual_recovery_release, sessions
  <2> QED BY <1>7, <2>1, <2>2, <2>3, <2>4, <2>5 DEF Release
<1>8. ASSUME NEW id \in EscrowIds, AutoRelease(id) PROVE LooseResult /\ UNCHANGED escrow_count
  <2>1. CASE try_auto_release_ok(id)
    <3>1. PICK bps \in release_rates(escrows[id].amount) : do_release(id, bps, Contract)
      BY <2>1 DEF try_auto_release_ok
    <3>2. bps \in Int /\ UNCHANGED escrow_count
      BY <1>2, <1>3, <2>1 DEF try_auto_release_ok, sessions
    <3> QED BY <1>5, <3>1, <3>2
  <2>2. CASE try_auto_release_failed(id)
    BY <1>1, <2>2 DEF try_auto_release_failed
  <2> QED BY <1>8, <2>1, <2>2 DEF AutoRelease
<1>9. ASSUME NEW id \in EscrowIds, NEW r, escrows' = [escrows EXCEPT ![id] = r],
             UNCHANGED escrow_count, escrows[id].status \in Live, r \in LooseRecord,
             SameTerms(escrows[id], r), r.status \notin {"None", "Active"}
      PROVE  LooseResult /\ UNCHANGED escrow_count
  <2>1. Evolves(escrows[id], r)
    BY <1>9 DEF Evolves, Live, Terminal
  <2> QED BY <1>9, <2>1, OneEvolves DEF LooseResult
<1>10. ASSUME NEW id \in EscrowIds, Arbitrate(id) PROVE LooseResult /\ UNCHANGED escrow_count
  <2> DEFINE e == escrows[id]
  <2>1. e \in LooseRecord
    BY <1>2
  <2>2. ASSUME NEW c, dispute(c, id) PROVE LooseResult /\ UNCHANGED escrow_count
    <3> DEFINE r == [e EXCEPT !.status = "Disputed"]
    <3>1. escrows' = [escrows EXCEPT ![id] = r] /\ e.status \in Live /\ UNCHANGED escrow_count
      BY <2>2 DEF dispute, Live, sessions
    <3>2. r \in LooseRecord /\ SameTerms(e, r) /\ r.status = "Disputed"
      BY <2>1 DEF LooseRecord, SameTerms, StoredStatuses
    <3> HIDE DEF r
    <3> QED BY <1>9, <3>1, <3>2
  <2>3. ASSUME NEW p \in Percentages, resolve_dispute(id, p)
        PROVE  LooseResult /\ UNCHANGED escrow_count
    <3> DEFINE share == (e.amount * p) \div 100
               r == WithPayout(e, e.amount - share, share, "Resolved")
    <3>1. escrows' = [escrows EXCEPT ![id] = r] /\ e.status \in Live /\ UNCHANGED escrow_count
      BY <2>3 DEF resolve_dispute, Live, sessions, WithPayout
    <3>2. share \in Int /\ e.amount - share \in Int
      <4>1. e.amount \in Int /\ p \in Int
        BY <2>1, PercentAssumption DEF LooseRecord
      <4> QED BY <4>1, QuotientTyped
    <3> HIDE DEF share
    <3>3. r \in LooseRecord /\ SameTerms(e, r) /\ r.status = "Resolved"
      BY <2>1, <3>2 DEF LooseRecord, SameTerms, StoredStatuses, WithPayout
    <3> HIDE DEF r
    <3> QED BY <1>9, <3>1, <3>3
  <2>4. CASE refund(id)
    <3> DEFINE r == [e EXCEPT !.status = "Refunded"]
    <3>1. escrows' = [escrows EXCEPT ![id] = r] /\ e.status \in Live /\ UNCHANGED escrow_count
      BY <2>1, <2>4 DEF refund, Live, sessions, LooseRecord, StoredStatuses
    <3>2. r \in LooseRecord /\ SameTerms(e, r) /\ r.status = "Refunded"
      BY <2>1 DEF LooseRecord, SameTerms, StoredStatuses
    <3> HIDE DEF r
    <3> QED BY <1>9, <3>1, <3>2
  <2> QED BY <1>10, <2>2, <2>3, <2>4 DEF Arbitrate
<1>11. ASSUME \/ \E id \in EscrowIds : Supervise(id)
              \/ Configure \/ PeersChange \/ Tick \/ UNCHANGED vars
       PROVE  LooseResult /\ UNCHANGED escrow_count
  <2>1. Same
    BY <1>11 DEF Supervise, report_stuck_escrow, emergency_isolate_escrow,
       recover_isolated_escrow, Configure, update_fee, set_fee_schedule, set_approved_token,
       PeersChange, Tick, vars, state, sessions
  <2> QED BY <1>1, <2>1
<1> QED BY <1>7, <1>8, <1>10, <1>11 DEF Next

\* A deposit takes a number nobody used.
LEMMA LooseCreate ==
    ASSUME Loose, Create
    PROVE  LooseResult /\ escrow_count' \in 0 .. MaxEscrows /\ UNCHANGED <<now, retry, config>>
<1>1. PICK m \in Users, l \in Users, a \in Amounts, n \in SessionCounts,
           s \in SessionIds \cup {PathPay}, t \in EndTimes \cup {0} :
             create_escrow_internal(m, l, a, s, t, n)
  BY DEF Create, create_escrow, create_escrow_with_path_payment
<1> DEFINE r == [mentor |-> m, learner |-> l, amount |-> a, session_id |-> s,
                 status |-> "Active", created_at |-> now, platform_fee |-> 0, net_amount |-> 0,
                 session_end_time |-> t, quoted_token_amount |-> a,
                 total_sessions |-> n, sessions_completed |-> 0]
<1>2. PICK id \in EscrowIds : id = escrow_count + 1
  BY <1>1 DEF create_escrow_internal
<1>3. /\ escrow_count' = id /\ escrows' = [escrows EXCEPT ![id] = r]
      /\ UNCHANGED <<now, retry, config>>
  BY <1>1, <1>2 DEF create_escrow_internal
<1>4. r \in LooseRecord
  <2>1. a \in Int /\ n \in Nat \ {0} /\ t \in Nat /\ now \in Nat
    BY AmountsAssumption, SessionsAssumption, TimesAssumption DEF Loose
  <2> QED BY <2>1 DEF LooseRecord, StoredStatuses
<1> HIDE DEF r
<1>5. \A i \in EscrowIds : escrows'[i] = IF i = id THEN r ELSE escrows[i]
  BY <1>3 DEF Loose
<1>6. escrows[id].status = "None" /\ escrow_count \in Nat /\ id \in 0 .. MaxEscrows
  BY <1>2, LimitsAssumption DEF Loose, Blank, EscrowIds
<1>7. \A i \in EscrowIds : i > escrow_count' => escrows'[i] = Blank
  <2>1. \A i \in EscrowIds : i > escrow_count' => i # id /\ i > escrow_count
    BY <1>2, <1>3, <1>6 DEF EscrowIds
  <2> QED BY <1>5, <2>1 DEF Loose
<1>8. RecordsEvolve
  <2> SUFFICES ASSUME NEW i \in EscrowIds, escrows[i].status # "None"
               PROVE  Evolves(escrows[i], escrows'[i])
    BY DEF RecordsEvolve
  <2>1. escrows'[i] = escrows[i]
    BY <1>5, <1>6
  <2> QED BY <2>1 DEF Evolves
<1>9. escrows' \in [EscrowIds -> LooseRecord]
  BY <1>3, <1>4 DEF Loose
<1> QED BY <1>3, <1>6, <1>7, <1>8, <1>9 DEF LooseResult

\* Failure records and reports belong to active escrows.
LEMMA LooseFailures ==
    ASSUME Loose, [Next]_vars, LooseResult
    PROVE  FailuresEvolve /\ failures' \in [EscrowIds -> FailureRecord]
<1> DEFINE Goal == FailuresEvolve /\ failures' \in [EscrowIds -> FailureRecord]
<1>1. ASSUME UNCHANGED retry PROVE Goal
  BY <1>1 DEF Loose, FailuresEvolve, retry
<1>2. ASSUME NEW id \in EscrowIds, NEW f \in FailureRecord, escrows[id].status = "Active",
             failures' = [failures EXCEPT ![id] = f], UNCHANGED watchlist,
             failures[id].attempt_number < MaxAttempts
      PROVE  Goal
  <2>1. failures' \in [EscrowIds -> FailureRecord]
    BY <1>2 DEF Loose
  <2>2. \A i \in EscrowIds \ {id} : failures'[i] = failures[i]
    BY <1>2 DEF Loose
  <2>3. ~(failures[id].attempt_number >= MaxAttempts)
    BY <1>2, LimitsAssumption DEF Loose, FailureRecord
  <2> QED BY <1>2, <2>1, <2>2, <2>3 DEF FailuresEvolve
<1>3. ASSUME NEW id \in EscrowIds, manual_recovery_release(id) PROVE Goal
  <2> DEFINE f == [failures[id] EXCEPT !.recovery_state = "Recovered"]
  <2>1. /\ failures' = [failures EXCEPT ![id] = f] /\ escrows[id].status = "Active"
        /\ UNCHANGED watchlist /\ failures[id].attempt_number < MaxAttempts
    BY <1>3 DEF manual_recovery_release
  <2>2. f \in FailureRecord
    BY DEF Loose, FailureRecord
  <2> HIDE DEF f
  <2> QED BY <1>2, <2>1, <2>2
<1>4. ASSUME NEW id \in EscrowIds, try_auto_release_ok(id) PROVE Goal
  <2>1. NoFailure \in FailureRecord
    BY LimitsAssumption DEF NoFailure, FailureRecord
  <2> QED BY <1>2, <1>4, <2>1 DEF try_auto_release_ok, auto_release_due
<1>5. ASSUME NEW id \in EscrowIds, try_auto_release_failed(id) PROVE Goal
  <2> DEFINE f == after_failure(failures[id])
  <2>1. /\ failures' = [failures EXCEPT ![id] = f] /\ UNCHANGED watchlist
        /\ escrows[id].status = "Active" /\ failures[id].attempt_number < MaxAttempts
    BY <1>5, LooseFailure DEF try_auto_release_failed
  <2>2. failures'[id] \in FailureRecord
    BY <1>5, LooseFailure
  <2>3. f \in FailureRecord
    BY <2>1, <2>2 DEF Loose
  <2> HIDE DEF f
  <2> QED BY <1>2, <2>1, <2>3
<1>6. ASSUME NEW id \in EscrowIds, report_stuck_escrow(id) PROVE Goal
  BY <1>6 DEF report_stuck_escrow, FailuresEvolve, Loose
<1>7. Create => UNCHANGED retry
  BY LooseCreate
<1>8. \A id \in EscrowIds : Release(id) => UNCHANGED retry \/ manual_recovery_release(id)
  BY DEF Release, release_funds, release_partial, batch_release, admin_release
<1>9. \A id \in EscrowIds : Arbitrate(id) => UNCHANGED retry
  BY DEF Arbitrate, dispute, resolve_dispute, refund
<1>10. \A id \in EscrowIds : Supervise(id) => UNCHANGED retry \/ report_stuck_escrow(id)
  BY DEF Supervise, emergency_isolate_escrow, recover_isolated_escrow
<1>11. Configure \/ PeersChange \/ Tick \/ UNCHANGED vars => UNCHANGED retry
  BY DEF Configure, update_fee, set_fee_schedule, set_approved_token, PeersChange, Tick, vars, state,
     retry
<1> HIDE DEF Goal
<1>12. ASSUME NEW id \in EscrowIds, Release(id) \/ AutoRelease(id) \/ Arbitrate(id) \/ Supervise(id)
       PROVE  Goal
  <2>1. AutoRelease(id) => Goal
    BY <1>4, <1>5 DEF AutoRelease
  <2> QED BY <1>1, <1>3, <1>6, <1>8, <1>9, <1>10, <1>12, <2>1
<1>13. Goal
  BY <1>1, <1>7, <1>11, <1>12 DEF Next
<1> QED BY <1>13 DEF Goal

\* Every step keeps the loose types, and lets records and failures evolve only so far.
LEMMA LooseStep ==
    ASSUME Loose, [Next]_vars
    PROVE  Loose' /\ RecordsEvolve /\ FailuresEvolve
<1>1. LooseResult /\ escrow_count' \in 0 .. MaxEscrows
  BY LooseCreate, LooseOther DEF Loose
<1>2. FailuresEvolve /\ failures' \in [EscrowIds -> FailureRecord]
  BY <1>1, LooseFailures
<1>3. Create => UNCHANGED <<now, config>>
  BY LooseCreate
<1>4. \A id \in EscrowIds : Release(id) => UNCHANGED <<now, config>>
  BY DEF Release, release_funds, release_partial, batch_release, admin_release,
     manual_recovery_release
<1>5. \A id \in EscrowIds : AutoRelease(id) => UNCHANGED <<now, config>>
  BY DEF AutoRelease, try_auto_release_ok, try_auto_release_failed
<1>6. \A id \in EscrowIds : Arbitrate(id) => UNCHANGED <<now, config>>
  BY DEF Arbitrate, dispute, resolve_dispute, refund
<1>7. \A id \in EscrowIds : Supervise(id) => UNCHANGED <<now, config>>
  BY DEF Supervise, report_stuck_escrow, emergency_isolate_escrow, recover_isolated_escrow
<1>8. Configure \/ PeersChange \/ Tick \/ UNCHANGED <<now, config>>
  <2>1. UNCHANGED vars => UNCHANGED <<now, config>>
    BY DEF vars, config
  <2> QED BY <1>3, <1>4, <1>5, <1>6, <1>7, <2>1 DEF Next
<1>9. /\ now' \in Nat
      /\ fee_bps' \in 0 .. MAX_FEE_BPS /\ fee_schedule' \in Schedules \cup {NoSchedule}
  <2>1. CASE Configure
    BY <2>1, RatesAssumption DEF Configure, update_fee, set_fee_schedule, set_approved_token,
       state, Loose
  <2>2. CASE PeersChange \/ Tick
    BY <2>2 DEF PeersChange, Tick, state, Loose, config
  <2>3. CASE UNCHANGED <<now, config>>
    BY <2>3 DEF Loose, config
  <2> QED BY <1>8, <2>1, <2>2, <2>3
<1> QED BY <1>1, <1>2, <1>9 DEF Loose, LooseResult

LEMMA InitLoose == Init => Loose
<1> SUFFICES ASSUME Init PROVE Loose
  OBVIOUS
<1>1. Blank \in LooseRecord /\ NoFailure \in FailureRecord
  BY LimitsAssumption DEF Blank, LooseRecord, StoredStatuses, NoFailure, FailureRecord
<1>2. fee_bps \in 0 .. MAX_FEE_BPS
  BY RatesAssumption DEF Init, MAX_FEE_BPS
<1> QED BY <1>1, <1>2, LimitsAssumption DEF Init, Loose

-----------------------------------------------------------------------------
(* The pace of the retries.                                                *)

\* A step counts a failure when an attempt was due, forgets all of them, or keeps their number
\* and the time of the next attempt.
LEMMA FailureKinds ==
    ASSUME Loose, [Next]_vars, NEW i \in EscrowIds
    PROVE  \/ failures'[i].attempt_number = 0
           \/ /\ failures'[i].attempt_number = failures[i].attempt_number
              /\ failures'[i].next_retry_time = failures[i].next_retry_time
           \/ /\ auto_release_due(i) /\ failures'[i] = after_failure(failures[i])
              /\ UNCHANGED <<now, escrows>>
<1> DEFINE Goal == \/ failures'[i].attempt_number = 0
                   \/ /\ failures'[i].attempt_number = failures[i].attempt_number
                      /\ failures'[i].next_retry_time = failures[i].next_retry_time
                   \/ /\ auto_release_due(i) /\ failures'[i] = after_failure(failures[i])
                      /\ UNCHANGED <<now, escrows>>
<1>1. UNCHANGED failures => Goal
  OBVIOUS
<1>2. ASSUME NEW id \in EscrowIds, manual_recovery_release(id) PROVE Goal
  <2> DEFINE f == [failures[id] EXCEPT !.recovery_state = "Recovered"]
  <2>1. failures' = [failures EXCEPT ![id] = f]
    BY <1>2 DEF manual_recovery_release
  <2>2. f.attempt_number = failures[id].attempt_number /\ f.next_retry_time = failures[id].next_retry_time
    BY DEF Loose, FailureRecord
  <2> HIDE DEF f
  <2>3. failures'[i] = IF i = id THEN f ELSE failures[i]
    BY <2>1 DEF Loose
  <2> QED BY <2>2, <2>3
<1>3. ASSUME NEW id \in EscrowIds, try_auto_release_ok(id) PROVE Goal
  <2>1. failures'[i] = IF i = id THEN NoFailure ELSE failures[i]
    BY <1>3 DEF try_auto_release_ok, Loose
  <2> QED BY <2>1 DEF NoFailure
<1>4. ASSUME NEW id \in EscrowIds, try_auto_release_failed(id) PROVE Goal
  <2>1. /\ failures'[i] = IF i = id THEN after_failure(failures[id]) ELSE failures[i]
        /\ auto_release_due(id) /\ UNCHANGED <<now, escrows>>
    BY <1>4 DEF try_auto_release_failed, Loose
  <2> QED BY <2>1
<1>5. Create => UNCHANGED failures
  BY LooseCreate DEF retry
<1>6. \A id \in EscrowIds : Release(id) => UNCHANGED failures \/ manual_recovery_release(id)
  BY DEF Release, release_funds, release_partial, batch_release, admin_release, retry
<1>7. \A id \in EscrowIds : Arbitrate(id) => UNCHANGED failures
  BY DEF Arbitrate, dispute, resolve_dispute, refund, retry
<1>8. \A id \in EscrowIds : Supervise(id) => UNCHANGED failures
  BY DEF Supervise, report_stuck_escrow, emergency_isolate_escrow, recover_isolated_escrow, retry
<1>9. Configure \/ PeersChange \/ Tick \/ UNCHANGED vars => UNCHANGED failures
  BY DEF Configure, update_fee, set_fee_schedule, set_approved_token, PeersChange, Tick, vars, state,
     retry
<1> HIDE DEF Goal
<1>10. \A id \in EscrowIds : AutoRelease(id) => Goal
  BY <1>3, <1>4 DEF AutoRelease
<1>11. Goal
  BY <1>1, <1>2, <1>5, <1>6, <1>7, <1>8, <1>9, <1>10 DEF Next
<1> QED BY <1>11 DEF Goal

\* Only escrows that exist have failures, and those are paced.
Paced == Loose /\ RetriesArePaced
               /\ \A i \in EscrowIds : failures[i].attempt_number > 0 => escrows[i].status # "None"

LEMMA TimeGrows ==
    ASSUME Loose, [Next]_vars
    PROVE  now \in Nat /\ now' \in Nat /\ now <= now'
<1>1. now \in Nat /\ now' \in Nat
  BY LooseStep DEF Loose
<1>2. Create => UNCHANGED now
  BY LooseCreate
<1>3. \A id \in EscrowIds : Release(id) \/ AutoRelease(id) \/ Arbitrate(id) \/ Supervise(id) => UNCHANGED now
  BY DEF Release, release_funds, release_partial, batch_release, admin_release,
     manual_recovery_release, AutoRelease, try_auto_release_ok, try_auto_release_failed,
     Arbitrate, dispute, resolve_dispute, refund,
     Supervise, report_stuck_escrow, emergency_isolate_escrow, recover_isolated_escrow
<1>4. Configure \/ PeersChange \/ UNCHANGED vars => UNCHANGED now
  BY DEF Configure, update_fee, set_fee_schedule, set_approved_token, PeersChange, vars, state
<1>5. Tick => now' = now + 1
  BY DEF Tick
<1>6. UNCHANGED now \/ now' = now + 1
  BY <1>2, <1>3, <1>4, <1>5 DEF Next
<1> QED BY <1>1, <1>6

LEMMA NextPaced ==
    ASSUME Paced, [Next]_vars
    PROVE  Paced'
<1>1. Loose' /\ RecordsEvolve
  BY LooseStep DEF Paced
<1> SUFFICES ASSUME NEW i \in EscrowIds, failures'[i].attempt_number > 0
             PROVE  LET f     == failures'[i]
                        opens == escrows'[i].session_end_time + AutoReleaseDelay
                    IN  /\ now' >= opens + retry_offset[f.attempt_number - 1]
                        /\ f.next_retry_time >= opens + retry_offset[f.attempt_number]
                        /\ escrows'[i].status # "None"
  BY <1>1 DEF Paced, RetriesArePaced
<1> DEFINE e == escrows[i]
           f == failures[i]
           n == f.attempt_number
           opens == e.session_end_time + AutoReleaseDelay
<1>2. e \in LooseRecord /\ f \in FailureRecord /\ n \in Nat /\ failures'[i] \in FailureRecord
  BY <1>1, LimitsAssumption DEF Paced, Loose, FailureRecord
<1>3. opens \in Nat /\ f.next_retry_time \in Nat
  BY <1>2, TimesAssumption DEF LooseRecord, FailureRecord
<1>4. now \in Nat /\ now' \in Nat /\ now <= now'
  BY TimeGrows DEF Paced
<1>5. e.status # "None" =>
          escrows'[i].status # "None" /\ escrows'[i].session_end_time = e.session_end_time
  BY <1>1 DEF RecordsEvolve, Evolves, SameTerms
<1>6. CASE /\ failures'[i].attempt_number = n
           /\ failures'[i].next_retry_time = f.next_retry_time
  <2>1. n > 0
    BY <1>6
  <2>2. /\ now >= opens + retry_offset[n - 1] /\ f.next_retry_time >= opens + retry_offset[n]
        /\ e.status # "None"
    BY <2>1 DEF Paced, RetriesArePaced
  <2>3. retry_offset[n - 1] \in Nat
    BY <1>2, <2>1, OffsetDefined
  <2>4. now' >= opens + retry_offset[n - 1]
    BY <1>3, <1>4, <2>2, <2>3
  <2> QED BY <1>5, <1>6, <2>2, <2>4
<1>7. CASE /\ auto_release_due(i) /\ failures'[i] = after_failure(f)
           /\ UNCHANGED <<now, escrows>>
  <2>1. /\ failures'[i].attempt_number = n + 1
        /\ failures'[i].next_retry_time = now + backoff(n + 1)
    BY <1>7 DEF after_failure
  <2>2. backoff(n + 1) = doubling[n] /\ doubling[n] \in Nat
    BY <1>2, BackoffDoubles
  <2>3. /\ retry_offset[n + 1] = retry_offset[n] + doubling[n]
        /\ retry_offset[n] \in Nat /\ (n + 1) - 1 = n
    BY <1>2, OffsetDefined
  <2>4. e.status = "Active" /\ now >= opens /\ now >= f.next_retry_time
    BY <1>7 DEF auto_release_due
  <2>5. now >= opens + retry_offset[n]
    <3>1. CASE n = 0
      BY <1>3, <2>4, <3>1, OffsetDefined
    <3>2. CASE n > 0
      <4>1. f.next_retry_time >= opens + retry_offset[n]
        BY <3>2 DEF Paced, RetriesArePaced
      <4> QED BY <1>3, <1>4, <2>3, <2>4, <4>1
    <3> QED BY <1>2, <3>1, <3>2
  <2> HIDE DEF n, f, opens
  <2>6. now + backoff(n + 1) >= opens + retry_offset[n + 1]
    BY <1>3, <1>4, <2>2, <2>3, <2>5
  <2> QED BY <1>7, <2>1, <2>3, <2>4, <2>5, <2>6 DEF opens, f
<1> QED BY <1>6, <1>7, FailureKinds DEF Paced

\* However the calls interleave, the automatic release of the contract waits its doubling
\* delays: no attempt is recorded before all but the last of them have passed.
THEOREM RetriesPaced == Spec => []RetriesArePaced
<1>1. Init => Paced
  <2> SUFFICES ASSUME Init PROVE Paced
    OBVIOUS
  <2>1. Loose /\ \A i \in EscrowIds : failures[i].attempt_number = 0
    BY InitLoose DEF Init, NoFailure
  <2> QED BY <2>1 DEF Paced, RetriesArePaced
<1>2. Paced /\ [Next]_vars => Paced'
  BY NextPaced
<1>3. Paced => RetriesArePaced
  BY DEF Paced
<1> QED BY <1>1, <1>2, <1>3, PTL DEF Spec
=============================================================================
