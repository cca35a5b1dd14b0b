---------------------------- MODULE PaymentProofs ----------------------------
(***************************************************************************)
(* Proofs about the contracts that hold tokens and pay them out: the       *)
(* treasury and its buybacks, staking, bounties, subscriptions with their  *)
(* streams, and the pools: what the insurance pool and the lending pool    *)
(* owe is what they hold, a loan is closed once, and the market for        *)
(* collateralised loans keeps its collateral, its index and the price at   *)
(* which a position may be sold.                                           *)
(***************************************************************************)
EXTENDS Treasury, Staking, Awards, Subscription, Pools, Sums, SequenceTheorems

-----------------------------------------------------------------------------
(* The clock. *)
\* A call leaves the time as it is; between two calls it may go on by one.
ClockMoves == now' \in {now, now + 1}

-----------------------------------------------------------------------------
(* The treasury. *)

AllocationRecord == [amount : Nat, via : Nat]
PendingRecord == [amount : Nat, own : BOOLEAN, by : SUBSET Treasurers, approvals_count : Nat, executed : BOOLEAN]
AnnouncedAt == [at : Nat, written : Nat]
ReceiptRecord == [amount : Nat, at : Nat, announced : AnnouncedAt]

TreasuryTypes ==
    /\ now \in Nat /\ steward \in Treasurers
    /\ reserve \in Int /\ revenue \in Int
    /\ depositor \in [count : Nat, total : Int] /\ surplus \in Int
    /\ allocations \in Seq(AllocationRecord) /\ queue \in Seq(PendingRecord)
    /\ receipts \in Seq(ReceiptRecord) /\ schedule \in AnnouncedAt
    /\ rewards \in [lp : Int, stakers : Int]

\* A queued allocation counts its approvers, and the second one executes it.
ApprovalsAreCounted(q) ==
    \A id \in DOMAIN q :
        /\ IsFiniteSet(q[id].by) /\ Cardinality(q[id].by) = q[id].approvals_count
        /\ q[id].approvals_count >= 1
        /\ q[id].executed <=> q[id].approvals_count >= 2

\* The history s names the queued allocation p once if it was executed, and otherwise never.
Settled(p, id, s) ==
    IF p.executed
      THEN \E i \in DOMAIN s : /\ s[i].via = id /\ s[i].amount = p.amount
                               /\ \A j \in DOMAIN s : s[j].via = id => j = i
      ELSE \A i \in DOMAIN s : s[i].via # id

\* The history names queued allocations only, and each as often as it should.
QueueIsSettled(q, s) ==
    /\ \A i \in DOMAIN s : s[i].via \in 0 .. Len(q)
    /\ \A id \in DOMAIN q : Settled(q[id], id, s)

QueueInv == ApprovalsAreCounted(queue) /\ QueueIsSettled(queue, allocations)

\* The receipts are spaced, and the next announced time, if there is one, is later than all that
\* were used.
ReceiptsInv ==
    /\ \A i \in DOMAIN receipts :
         /\ receipts[i].at <= now /\ receipts[i].at >= receipts[i].announced.at
         /\ schedule.at = 0 \/ schedule.at > receipts[i].announced.at
    /\ DistributionsAreSpaced

\* The books add up, the queue is settled in the history, and the receipts are spaced.
TreasuryInv == TreasuryTypes /\ TreasuryBooks /\ QueueInv /\ ReceiptsInv

\* A queue in which every executed entry has its one payment is paid once.
LEMMA QueueIsPaidOnce == TreasuryTypes /\ QueueInv => QueuedPaidOnce
<1> SUFFICES ASSUME TreasuryTypes, QueueInv, NEW id \in DOMAIN queue
             PROVE  LET paid == {i \in DOMAIN allocations : allocations[i].via = id} IN
                    /\ Cardinality(paid) = (IF queue[id].executed THEN 1 ELSE 0)
                    /\ queue[id].executed => Cardinality(queue[id].by) >= 2
                    /\ \A i \in paid : allocations[i].amount = queue[id].amount
  BY DEF QueuedPaidOnce
<1> DEFINE paid == {i \in DOMAIN allocations : allocations[i].via = id}
<1>1. CASE queue[id].executed
  <2>1. PICK i \in DOMAIN allocations :
          /\ allocations[i].via = id /\ allocations[i].amount = queue[id].amount
          /\ \A j \in DOMAIN allocations : allocations[j].via = id => j = i
    BY <1>1 DEF QueueInv, QueueIsSettled, Settled
  <2>2. paid = {i}
    BY <2>1
  <2>3. Cardinality(queue[id].by) >= 2
    BY <1>1 DEF QueueInv, ApprovalsAreCounted
  <2>4. Cardinality({i}) = 1
    BY FS_Singleton
  <2> QED BY <1>1, <2>1, <2>2, <2>3, <2>4
<1>2. CASE ~queue[id].executed
  <2>1. paid = {}
    BY <1>2 DEF QueueInv, QueueIsSettled, Settled
  <2>2. Cardinality({}) = 0
    BY FS_EmptySet
  <2> QED BY <1>2, <2>1, <2>2
<1> QED BY <1>1, <1>2

\* One allocation more adds its amount to what was allocated.
LEMMA AmountsGrow ==
  ASSUME NEW R, \A r \in R : r.amount \in Int, NEW s \in Seq(R), NEW e \in R,
         NEW t, t = Append(s, e)
  PROVE  amounts(t) = amounts(s) + e.amount /\ amounts(s) \in Int
<1>1. /\ Len(s) \in Nat /\ DOMAIN s = 1 .. Len(s) /\ DOMAIN t = 1 .. Len(s) + 1
      /\ \A i \in 1 .. Len(s) : t[i] = s[i] /\ s[i] \in R
      /\ t[Len(s) + 1] = e
  BY Appended
<1>2. PICK f, g : f = [i \in DOMAIN s |-> s[i].amount] /\ g = [i \in DOMAIN t |-> t[i].amount]
  OBVIOUS
<1>3. PICK n \in Nat : n = Len(s)
  BY <1>1
<1>4. \A i \in 1 .. n : f[i] \in Int /\ g[i] = f[i]
  BY <1>1, <1>2, <1>3
<1>5. g[n + 1] = e.amount /\ g[n + 1] \in Int
  BY <1>1, <1>2, <1>3
<1>6. /\ SumFunctionOnSet(g, 1 .. n + 1) = SumFunctionOnSet(f, 1 .. n) + g[n + 1]
      /\ SumFunctionOnSet(f, 1 .. n) \in Int
  BY <1>4, <1>5, SumNext
<1> QED BY <1>1, <1>2, <1>3, <1>5, <1>6 DEF amounts

\* A batch of one request or two.
LEMMA BatchTotals ==
  ASSUME NEW x \in Int, NEW y \in Int
  PROVE  batch_total(<<x>>) = x /\ batch_total(<<x, y>>) = x + y
<1>1. PICK f, g, h : f = << >> /\ g = <<x>> /\ h = <<x, y>>
  OBVIOUS
<1>2. SumFunctionOnSet(f, {}) = 0
  BY SumEmpty
<1>3. 1 .. 0 = {} /\ DOMAIN g = 1 .. 0 + 1 /\ DOMAIN h = 1 .. 1 + 1
  BY <1>1
<1>4. SumFunctionOnSet(g, 1 .. 0 + 1) = SumFunctionOnSet(f, 1 .. 0) + g[0 + 1]
  <2>1. (\A i \in 1 .. 0 : f[i] \in Int /\ g[i] = f[i]) /\ g[0 + 1] \in Int
    BY <1>1
  <2> QED BY <2>1, SumNext
<1>5. SumFunctionOnSet(h, 1 .. 1 + 1) = SumFunctionOnSet(g, 1 .. 1) + h[1 + 1]
  <2>1. (\A i \in 1 .. 1 : g[i] \in Int /\ h[i] = g[i]) /\ h[1 + 1] \in Int
    BY <1>1
  <2> QED BY <2>1, SumNext
<1>6. g[1] = x /\ h[2] = y /\ 0 + 1 = 1 /\ 1 + 1 = 2
  BY <1>1
<1>7. SumFunctionOnSet(g, 1 .. 1) = x
  BY <1>2, <1>3, <1>4, <1>6
<1> QED BY <1>1, <1>3, <1>5, <1>6, <1>7 DEF batch_total

\* What was allocated is an amount.
LEMMA AmountsTyped ==
  ASSUME TreasuryTypes
  PROVE  amounts(allocations) \in Int /\ amounts(receipts) \in Int
<1>1. ASSUME NEW R, \A r \in R : r.amount \in Int, NEW s \in Seq(R) PROVE amounts(s) \in Int
  <2>1. DOMAIN s = 1 .. Len(s) /\ Len(s) \in Nat
    BY <1>1
  <2>2. PICK f : f = [i \in DOMAIN s |-> s[i].amount]
    OBVIOUS
  <2>3. \A i \in DOMAIN s : f[i] \in Int
    BY <1>1, <2>2
  <2>4. IsFiniteSet(DOMAIN s)
    BY <2>1, FS_Interval
  <2>5. SumFunctionOnSet(f, DOMAIN s) \in Int
    BY <2>3, <2>4, SumType
  <2> QED BY <2>2, <2>5 DEF amounts
<1>2. /\ \A r \in AllocationRecord : r.amount \in Int
      /\ \A r \in ReceiptRecord : r.amount \in Int
  BY DEF AllocationRecord, ReceiptRecord
<1>3. allocations \in Seq(AllocationRecord) /\ receipts \in Seq(ReceiptRecord)
  BY DEF TreasuryTypes
<1> QED BY <1>1, <1>2, <1>3

\* The treasury starts without tokens, queue and receipts.
LEMMA TreasuryStarts == TreasuryInit => TreasuryInv
<1> SUFFICES ASSUME TreasuryInit PROVE TreasuryInv
  OBVIOUS
<1>1. /\ now = 0 /\ reserve = 0 /\ revenue = 0 /\ surplus = 0 /\ depositor = [count |-> 0, total |-> 0]
      /\ allocations = << >> /\ queue = << >> /\ receipts = << >>
      /\ schedule = [at |-> 0, written |-> 0] /\ rewards = [lp |-> 0, stakers |-> 0]
      /\ steward \in Treasurers
  BY DEF TreasuryInit
<1>2. TreasuryTypes
  BY <1>1 DEF TreasuryTypes, AnnouncedAt
<1>3. amounts(<< >>) = 0
  <2>1. SumFunctionOnSet([i \in {} |-> << >>[i].amount], {}) = 0
    BY SumEmpty
  <2> QED BY <2>1 DEF amounts
<1>4. TreasuryBooks
  BY <1>1, <1>3 DEF TreasuryBooks
<1>5. QueueInv /\ ReceiptsInv
  BY <1>1 DEF QueueInv, ApprovalsAreCounted, QueueIsSettled, ReceiptsInv, DistributionsAreSpaced
<1> QED BY <1>2, <1>4, <1>5 DEF TreasuryInv

\* The same receipts at a later time, under a schedule that is empty, the same or later than now.
LEMMA ReceiptsRest ==
  ASSUME TreasuryTypes, ReceiptsInv, ClockMoves, UNCHANGED receipts, schedule' \in AnnouncedAt,
         schedule'.at = 0 \/ schedule' = schedule \/ schedule'.at > now
  PROVE  ReceiptsInv'
<1>1. now \in Nat /\ now' \in Nat /\ now <= now'
  BY DEF TreasuryTypes, ClockMoves
<1>2. DistributionsAreSpaced'
  BY DEF ReceiptsInv, DistributionsAreSpaced
<1>3. ASSUME NEW i \in DOMAIN receipts
      PROVE  /\ receipts[i].at <= now' /\ receipts[i].at >= receipts[i].announced.at
             /\ schedule'.at = 0 \/ schedule'.at > receipts[i].announced.at
  <2>1. receipts[i] \in ReceiptRecord
    BY DEF TreasuryTypes
  <2>2. PICK a \in Nat, b \in Nat, c \in Nat :
          a = receipts[i].at /\ b = receipts[i].announced.at /\ c = schedule'.at
    BY <2>1 DEF ReceiptRecord, AnnouncedAt
  <2>3. a <= now /\ a >= b /\ (schedule.at = 0 \/ schedule.at > b)
    BY <2>2 DEF ReceiptsInv
  <2>4. a <= now' /\ (schedule'.at > now => c > b)
    BY <1>1, <2>2, <2>3
  <2> QED BY <2>2, <2>3, <2>4
<1> QED BY <1>2, <1>3 DEF ReceiptsInv

\* The treasury's books do not depend on the time.
LEMMA TreasuryRests ==
  ASSUME TreasuryInv, ClockMoves, UNCHANGED treasury_vars
  PROVE  TreasuryInv'
<1>1. /\ UNCHANGED <<steward, reserve, depositor, surplus, allocations, queue, revenue, receipts, schedule, rewards>>
      /\ schedule \in AnnouncedAt /\ now' \in Nat
  BY DEF treasury_vars, admin_state, treasury_books, income, alloc_state, dist_state, TreasuryInv,
         TreasuryTypes, ClockMoves
<1>2. TreasuryTypes' /\ TreasuryBooks' /\ QueueInv'
  BY <1>1 DEF TreasuryInv, TreasuryTypes, TreasuryBooks, QueueInv
<1>3. ReceiptsInv'
  BY <1>1, ReceiptsRest DEF TreasuryInv
<1> QED BY <1>2, <1>3 DEF TreasuryInv

\* Steps that only concern the office, the limits and the schedule.
LEMMA OfficeStep ==
  ASSUME TreasuryInv, ClockMoves,
         UNCHANGED <<reserve, depositor, surplus, allocations, queue, revenue, receipts, rewards>>,
         steward' \in Treasurers, schedule' \in AnnouncedAt,
         schedule' = schedule \/ schedule'.at > now
  PROVE  TreasuryInv'
<1>1. TreasuryTypes' /\ TreasuryBooks' /\ QueueInv'
  BY DEF TreasuryInv, TreasuryTypes, TreasuryBooks, QueueInv, ClockMoves
<1>2. ReceiptsInv'
  BY ReceiptsRest DEF TreasuryInv
<1> QED BY <1>1, <1>2 DEF TreasuryInv

\* Tokens that come in, or leave as revenue.
LEMMA ReserveStep ==
  ASSUME TreasuryInv, UNCHANGED <<now, steward, allocations, queue, receipts, rewards, schedule>>,
         NEW x \in Int,
         \/ /\ reserve' = reserve + x /\ depositor' \in [count : Nat, total : Int]
            /\ depositor'.total = depositor.total + x /\ UNCHANGED <<revenue, surplus>>
         \/ reserve' = reserve + x /\ surplus' = surplus + x /\ UNCHANGED <<depositor, revenue>>
         \/ reserve' = reserve - x /\ revenue' = revenue + x /\ UNCHANGED <<depositor, surplus>>
  PROVE  TreasuryInv'
<1>1. /\ reserve \in Int /\ revenue \in Int /\ depositor.total \in Int
      /\ depositor \in [count : Nat, total : Int] /\ surplus \in Int
  BY DEF TreasuryInv, TreasuryTypes
<1>2. TreasuryTypes'
  BY <1>1 DEF TreasuryInv, TreasuryTypes
<1>3. amounts(allocations) \in Int /\ amounts(receipts) \in Int
  BY AmountsTyped DEF TreasuryInv
<1>4. TreasuryBooks'
  <2>1. PICK a \in Int, r \in Int : a = amounts(allocations) /\ r = amounts(receipts)
    BY <1>3
  <2>2. reserve + a + r + revenue = depositor.total + surplus /\ rewards.lp + rewards.stakers = r
    BY <2>1 DEF TreasuryInv, TreasuryBooks
  <2>3. reserve' + a + r + revenue' = depositor'.total + surplus'
    BY <1>1, <2>2
  <2>4. amounts(allocations)' = a /\ amounts(receipts)' = r
    BY <2>1
  <2> QED BY <2>2, <2>3, <2>4 DEF TreasuryBooks
<1>5. QueueInv' /\ ReceiptsInv'
  BY DEF TreasuryInv, QueueInv, ReceiptsInv, DistributionsAreSpaced
<1> QED BY <1>2, <1>4, <1>5 DEF TreasuryInv

\* A payment that was not queued.
LEMMA PaymentSkipsQueue ==
  ASSUME NEW q \in Seq(PendingRecord), NEW s \in Seq(AllocationRecord), QueueIsSettled(q, s),
         NEW x \in Nat, NEW t, t = Append(s, [amount |-> x, via |-> 0])
  PROVE  t \in Seq(AllocationRecord) /\ QueueIsSettled(q, t) /\ amounts(t) = amounts(s) + x /\ amounts(s) \in Int
<1>1. PICK e \in AllocationRecord : e = [amount |-> x, via |-> 0] /\ e.amount = x /\ e.via = 0
  BY DEF AllocationRecord
<1>2. t = Append(s, e)
  BY <1>1
<1>3. /\ t \in Seq(AllocationRecord) /\ Len(s) \in Nat /\ DOMAIN s = 1 .. Len(s)
      /\ DOMAIN t = 1 .. Len(s) + 1 /\ \A i \in 1 .. Len(s) : t[i] = s[i]
      /\ t[Len(s) + 1] = e
  BY <1>2, Appended
<1>4. amounts(t) = amounts(s) + x /\ amounts(s) \in Int
  <2>1. \A r \in AllocationRecord : r.amount \in Int
    BY DEF AllocationRecord
  <2> QED BY <1>1, <1>2, <2>1, AmountsGrow
<1>5. DOMAIN q = 1 .. Len(q) /\ Len(q) \in Nat
  OBVIOUS
<1>6. \A i \in DOMAIN t : t[i].via \in 0 .. Len(q)
  BY <1>1, <1>3, <1>5 DEF QueueIsSettled
<1>7. ASSUME NEW id \in DOMAIN q PROVE Settled(q[id], id, t)
  <2>1. Settled(q[id], id, s) /\ id # 0
    BY <1>5 DEF QueueIsSettled
  <2>2. \A i \in DOMAIN t : t[i].via = id => i \in DOMAIN s
    BY <1>1, <1>3, <2>1
  <2>3. \A i \in DOMAIN s : i \in DOMAIN t /\ t[i] = s[i]
    BY <1>3
  <2> QED BY <2>1, <2>2, <2>3 DEF Settled
<1> QED BY <1>3, <1>4, <1>6, <1>7 DEF QueueIsSettled

WithEntry(q, id, p) == [q EXCEPT ![id] = p]
PaymentOf(p, id) == [amount |-> p.amount, via |-> id]

\* The payment of a queued allocation that was open.
LEMMA PaymentSettles ==
  ASSUME NEW q \in Seq(PendingRecord), NEW s \in Seq(AllocationRecord), QueueIsSettled(q, s),
         NEW id \in DOMAIN q, ~q[id].executed,
         NEW p \in PendingRecord, p.executed, p.amount = q[id].amount,
         NEW r, r = WithEntry(q, id, p),
         NEW t, t = Append(s, PaymentOf(p, id))
  PROVE  /\ t \in Seq(AllocationRecord) /\ QueueIsSettled(r, t)
         /\ amounts(t) = amounts(s) + p.amount /\ amounts(s) \in Int
<1>1. p.amount \in Nat /\ id \in Nat /\ DOMAIN q = 1 .. Len(q) /\ Len(q) \in Nat
  BY DEF PendingRecord
<1>2. PICK e \in AllocationRecord : e = PaymentOf(p, id) /\ e.amount = p.amount /\ e.via = id
  <2>1. PICK a : a = p.amount
    OBVIOUS
  <2>2. PICK e : e = [amount |-> a, via |-> id]
    OBVIOUS
  <2>3. a \in Nat /\ id \in Nat
    BY <1>1, <2>1
  <2>4. e \in AllocationRecord /\ e.amount = a /\ e.via = id
    BY ONLY <2>2, <2>3 DEF AllocationRecord
  <2>5. e = PaymentOf(p, id)
    BY ONLY <2>1, <2>2 DEF PaymentOf
  <2> QED BY <2>1, <2>4, <2>5
<1>3. t = Append(s, e)
  BY <1>2
<1>4. /\ t \in Seq(AllocationRecord) /\ Len(s) \in Nat /\ DOMAIN s = 1 .. Len(s)
      /\ DOMAIN t = 1 .. Len(s) + 1 /\ \A i \in 1 .. Len(s) : t[i] = s[i]
      /\ t[Len(s) + 1] = e
  BY <1>3, Appended
<1>5. amounts(t) = amounts(s) + p.amount /\ amounts(s) \in Int
  <2>1. \A x \in AllocationRecord : x.amount \in Int
    BY DEF AllocationRecord
  <2>2. amounts(t) = amounts(s) + e.amount /\ amounts(s) \in Int
    BY <1>3, <2>1, AmountsGrow
  <2> QED BY <1>2, <2>2
<1>6. r \in Seq(PendingRecord) /\ Len(r) = Len(q) /\ DOMAIN r = DOMAIN q /\ r[id] = p
      /\ \A k \in DOMAIN q : k # id => r[k] = q[k]
  BY DEF WithEntry
<1>7. \A i \in DOMAIN t : t[i].via \in 0 .. Len(r)
  BY <1>1, <1>2, <1>4, <1>6 DEF QueueIsSettled
<1>8. ASSUME NEW k \in DOMAIN q PROVE Settled(r[k], k, t)
  <2>1. Settled(q[k], k, s)
    BY DEF QueueIsSettled
  <2>2. CASE k = id
    <3>1. \A i \in DOMAIN s : s[i].via # id
      BY <2>1, <2>2 DEF Settled
    <3>2. Len(s) + 1 \in DOMAIN t /\ \A j \in DOMAIN t : t[j].via = id => j = Len(s) + 1
      BY <1>4, <3>1
    <3>3. t[Len(s) + 1].via = id /\ t[Len(s) + 1].amount = p.amount
      BY <1>2, <1>4
    <3>4. Settled(p, id, t)
      BY <3>2, <3>3 DEF Settled
    <3> QED BY <1>6, <2>2, <3>4
  <2>3. CASE k # id
    <3>1. \A i \in DOMAIN t : t[i].via = k => i \in DOMAIN s
      BY <1>2, <1>4, <2>3
    <3>2. \A i \in DOMAIN s : i \in DOMAIN t /\ t[i] = s[i]
      BY <1>4
    <3>3. CASE q[k].executed
      <4>1. PICK i \in DOMAIN s : /\ s[i].via = k /\ s[i].amount = q[k].amount
                                  /\ \A j \in DOMAIN s : s[j].via = k => j = i
        BY <2>1, <3>3 DEF Settled
      <4>2. \A j \in DOMAIN t : t[j].via = k => j = i
        BY <3>1, <3>2, <4>1
      <4>3. i \in DOMAIN t /\ t[i].via = k /\ t[i].amount = q[k].amount
        BY <3>2, <4>1
      <4>4. Settled(q[k], k, t)
        BY <3>3, <4>2, <4>3 DEF Settled
      <4> QED BY <1>6, <2>3, <4>4
    <3>4. CASE ~q[k].executed
      <4>1. \A i \in DOMAIN t : t[i].via # k
        BY <2>1, <3>1, <3>2, <3>4 DEF Settled
      <4>2. Settled(q[k], k, t)
        BY <3>4, <4>1 DEF Settled
      <4> QED BY <1>6, <2>3, <4>2
    <3> QED BY <3>3, <3>4
  <2> QED BY <2>2, <2>3
<1> QED BY <1>4, <1>5, <1>6, <1>7, <1>8 DEF QueueIsSettled

\* Another approval that is not the last: with two it is the last.
LEMMA QueueGrows ==
  ASSUME NEW q \in Seq(PendingRecord), NEW s \in Seq(AllocationRecord),
         ApprovalsAreCounted(q), QueueIsSettled(q, s),
         NEW a \in Treasurers, NEW x \in Nat, NEW b \in BOOLEAN,
         NEW r, r = Append(q, [amount |-> x, own |-> b, by |-> {a}, approvals_count |-> 1,
                               executed |-> FALSE])
  PROVE  r \in Seq(PendingRecord) /\ ApprovalsAreCounted(r) /\ QueueIsSettled(r, s)
<1>1. PICK p : p = [amount |-> x, own |-> b, by |-> {a}, approvals_count |-> 1, executed |-> FALSE]
  OBVIOUS
<1>2. p \in PendingRecord /\ p.by = {a} /\ p.approvals_count = 1 /\ p.executed = FALSE
  BY <1>1 DEF PendingRecord
<1>3. /\ r \in Seq(PendingRecord) /\ Len(q) \in Nat /\ Len(r) = Len(q) + 1 /\ DOMAIN q = 1 .. Len(q)
      /\ DOMAIN r = 1 .. Len(q) + 1 /\ \A i \in 1 .. Len(q) : r[i] = q[i]
      /\ r[Len(q) + 1] = p
  BY <1>1, <1>2, Appended
<1>4. IsFiniteSet({a}) /\ Cardinality({a}) = 1
  BY FS_Singleton
<1>5. ApprovalsAreCounted(r)
  <2> SUFFICES ASSUME NEW id \in DOMAIN r
               PROVE  /\ IsFiniteSet(r[id].by) /\ Cardinality(r[id].by) = r[id].approvals_count
                      /\ r[id].approvals_count >= 1
                      /\ r[id].executed <=> r[id].approvals_count >= 2
    BY DEF ApprovalsAreCounted
  <2>1. CASE id = Len(q) + 1
    BY <1>2, <1>3, <1>4, <2>1
  <2>2. CASE id \in 1 .. Len(q)
    BY <1>3, <2>2 DEF ApprovalsAreCounted
  <2> QED BY <1>3, <2>1, <2>2
<1>6. \A i \in DOMAIN s : s[i].via \in 0 .. Len(r) /\ s[i].via # Len(q) + 1
  BY <1>3 DEF QueueIsSettled
<1>7. ASSUME NEW id \in DOMAIN r PROVE Settled(r[id], id, s)
  <2>1. CASE id = Len(q) + 1
    BY <1>2, <1>3, <1>6, <2>1 DEF Settled
  <2>2. CASE id \in 1 .. Len(q)
    BY <1>3, <2>2 DEF QueueIsSettled
  <2> QED BY <1>3, <2>1, <2>2
<1> QED BY <1>3, <1>5, <1>6, <1>7 DEF QueueIsSettled

Approved(p, who) ==
    [p EXCEPT !.by = @ \cup {who}, !.approvals_count = p.approvals_count + 1,
              !.executed = p.approvals_count + 1 >= 2]

\* An approval of a queued allocation by someone new.
LEMMA ApprovalCounts ==
  ASSUME NEW q \in Seq(PendingRecord), ApprovalsAreCounted(q), NEW id \in DOMAIN q,
         NEW a \in Treasurers, a \notin q[id].by, NEW n, n = q[id].approvals_count + 1,
         NEW p, p = Approved(q[id], a),
         NEW r, r = WithEntry(q, id, p)
  PROVE  /\ p \in PendingRecord /\ r \in Seq(PendingRecord) /\ ApprovalsAreCounted(r)
         /\ n \in Nat /\ n >= 2 /\ p.executed /\ p.amount = q[id].amount /\ p.amount \in Nat
<1>1. PICK o \in PendingRecord : o = q[id]
  OBVIOUS
<1>2. /\ IsFiniteSet(o.by) /\ Cardinality(o.by) = o.approvals_count /\ o.approvals_count >= 1
      /\ o.approvals_count \in Nat /\ o.by \subseteq Treasurers /\ o.amount \in Nat
      /\ o.own \in BOOLEAN
  BY <1>1 DEF ApprovalsAreCounted, PendingRecord
<1>3. n \in Nat /\ n >= 2
  BY <1>1, <1>2
<1>9. PICK B : B = o.by \cup {a}
  OBVIOUS
<1>4. p = [amount |-> o.amount, own |-> o.own, by |-> B, approvals_count |-> n, executed |-> TRUE]
  BY <1>1, <1>3, <1>9 DEF PendingRecord, Approved
<1>5. /\ p \in PendingRecord /\ p.executed = TRUE /\ p.amount = o.amount /\ p.by = B
      /\ p.approvals_count = n
  <2>1. B \in SUBSET Treasurers
    BY <1>2, <1>9
  <2>2. p.executed = TRUE /\ p.amount = o.amount /\ p.by = B /\ p.approvals_count = n
    BY <1>4
  <2>3. p \in PendingRecord
    BY <1>2, <1>3, <1>4, <2>1 DEF PendingRecord
  <2> QED BY <2>2, <2>3
<1>6. IsFiniteSet(B) /\ Cardinality(B) = n
  <2>1. a \notin o.by
    BY <1>1
  <2>2. IsFiniteSet(o.by \cup {a}) /\ Cardinality(o.by \cup {a}) = Cardinality(o.by) + 1
    BY <1>2, <2>1, FS_AddElement
  <2> QED BY <1>1, <1>2, <1>9, <2>2
<1>7. r \in Seq(PendingRecord) /\ DOMAIN r = DOMAIN q /\ \A k \in DOMAIN q : r[k] = IF k = id THEN p ELSE q[k]
  BY <1>5 DEF WithEntry
<1>8. ASSUME NEW k \in DOMAIN q
      PROVE  /\ IsFiniteSet(r[k].by) /\ Cardinality(r[k].by) = r[k].approvals_count
             /\ r[k].approvals_count >= 1
             /\ r[k].executed <=> r[k].approvals_count >= 2
  <2>1. CASE k = id
    <3>1. r[k] = p
      BY <1>7, <2>1
    <3>2. r[k].approvals_count = n /\ r[k].by = B /\ r[k].executed = TRUE
      BY <1>5, <3>1
    <3> QED BY <1>3, <1>6, <3>2
  <2>2. CASE k # id
    BY <1>7, <2>2 DEF ApprovalsAreCounted
  <2> QED BY <2>1, <2>2
<1> QED BY <1>1, <1>2, <1>3, <1>5, <1>7, <1>8 DEF ApprovalsAreCounted

\* A distribution that is due.
LEMMA ReceiptsGrow ==
  ASSUME TreasuryTypes, ReceiptsInv, UNCHANGED now, NEW x \in Nat, distribution_due,
         receipts' = Append(receipts, [amount |-> x, at |-> now, announced |-> schedule]),
         schedule' = used_schedule
  PROVE  ReceiptsInv' /\ receipts' \in Seq(ReceiptRecord) /\ schedule' \in AnnouncedAt
         /\ amounts(receipts') = amounts(receipts) + x /\ amounts(receipts) \in Int
<1>1. PICK e : e = [amount |-> x, at |-> now, announced |-> schedule]
  OBVIOUS
<1>2. e \in ReceiptRecord /\ e.amount = x /\ e.at = now /\ e.announced = schedule
  BY <1>1 DEF TreasuryTypes, ReceiptRecord
<1>3. PICK s, t : s = receipts /\ t = receipts'
  OBVIOUS
<1>4. s \in Seq(ReceiptRecord) /\ t = Append(s, e)
  BY <1>1, <1>3 DEF TreasuryTypes
<1>5. /\ t \in Seq(ReceiptRecord) /\ Len(s) \in Nat /\ DOMAIN s = 1 .. Len(s)
      /\ DOMAIN t = 1 .. Len(s) + 1 /\ \A i \in 1 .. Len(s) : t[i] = s[i] /\ s[i] \in ReceiptRecord
      /\ t[Len(s) + 1] = e
  BY <1>2, <1>4, Appended
<1>6. amounts(t) = amounts(s) + x /\ amounts(s) \in Int
  <2>1. \A r \in ReceiptRecord : r.amount \in Int
    BY DEF ReceiptRecord
  <2>2. amounts(t) = amounts(s) + e.amount /\ amounts(s) \in Int
    BY <1>2, <1>4, <2>1, AmountsGrow
  <2> QED BY <1>2, <2>2
<1>7. schedule' = [at |-> 0, written |-> 0] /\ schedule' \in AnnouncedAt /\ schedule'.at = 0
  BY DEF used_schedule, AnnouncedAt
<1>8. PICK n \in Nat : n = Len(s)
  BY <1>5
<1>9. now \in Nat /\ schedule.at \in Nat /\ now >= schedule.at /\ MinInterval \in Nat
  BY TreasuryAssumption DEF TreasuryTypes, AnnouncedAt, distribution_due
<1>10. \A i \in 1 .. n : /\ s[i].at \in Nat /\ s[i].announced.at \in Nat /\ s[i].at <= now
                         /\ s[i].at >= s[i].announced.at
                         /\ schedule.at = 0 \/ schedule.at > s[i].announced.at
  <2>1. \A i \in 1 .. n : s[i].at \in Nat /\ s[i].announced.at \in Nat
    BY <1>5, <1>8 DEF ReceiptRecord, AnnouncedAt
  <2> QED BY <1>3, <1>5, <1>8, <2>1 DEF ReceiptsInv
<1>11. n > 0 => now >= s[n].at + MinInterval
  <2>1. n > 0 => s # << >>
    BY <1>5, <1>8
  <2> QED BY <1>3, <1>8, <2>1 DEF distribution_due, spaced, Last
<1>12. \A i, j \in 1 .. n : i < j => /\ s[j].at >= s[i].at + MinInterval
                                     /\ s[j].announced.at = 0 \/ s[j].announced.at > s[i].announced.at
  BY <1>3, <1>5, <1>8 DEF ReceiptsInv, DistributionsAreSpaced
<1>13. ASSUME NEW i \in 1 .. n PROVE now >= s[i].at + MinInterval
  <2>1. CASE i = n
    BY <1>11, <2>1
  <2>2. CASE i < n
    <3>1. s[n].at >= s[i].at + MinInterval /\ now >= s[n].at + MinInterval
      BY <1>11, <1>12, <2>2
    <3>2. s[n].at \in Nat /\ s[i].at \in Nat
      BY <1>10, <2>2
    <3> QED BY <1>9, <3>1, <3>2
  <2> QED BY <2>1, <2>2
<1>14. ASSUME NEW i \in 1 .. n + 1 PROVE t[i].at <= now /\ t[i].at >= t[i].announced.at
  BY <1>2, <1>5, <1>8, <1>9, <1>10
<1>15. ASSUME NEW i \in 1 .. n + 1, NEW j \in 1 .. n + 1, i < j
       PROVE  /\ t[j].at >= t[i].at + MinInterval
              /\ t[j].announced.at = 0 \/ t[j].announced.at > t[i].announced.at
  <2>1. i \in 1 .. n /\ t[i] = s[i]
    BY <1>5, <1>8, <1>15
  <2>2. CASE j = n + 1
    <3>1. t[j].at = now /\ t[j].announced.at = schedule.at
      BY <1>2, <1>5, <1>8, <2>2
    <3> QED BY <1>10, <1>13, <2>1, <3>1
  <2>3. CASE j \in 1 .. n
    BY <1>5, <1>8, <1>12, <1>15, <2>1, <2>3
  <2> QED BY <2>2, <2>3
<1>16. ReceiptsInv'
  <2>1. DOMAIN receipts' = 1 .. n + 1
    BY <1>3, <1>5, <1>8
  <2>2. DistributionsAreSpaced'
    BY <1>3, <1>14, <1>15, <2>1 DEF DistributionsAreSpaced
  <2> QED BY <1>3, <1>7, <1>14, <2>1, <2>2 DEF ReceiptsInv
<1> QED BY <1>3, <1>5, <1>6, <1>7, <1>16

\* Every call of the treasury keeps its invariant.
LEMMA TreasuryStep ==
  ASSUME TreasuryInv, TreasuryNext
  PROVE  TreasuryInv'
<1> USE DEF income, admin_state, alloc_state, dist_state, treasury_books
<1>1. /\ TreasuryTypes /\ ReceiptsInv /\ ApprovalsAreCounted(queue) /\ QueueIsSettled(queue, allocations)
      /\ reserve \in Int /\ now \in Nat /\ schedule \in AnnouncedAt /\ steward \in Treasurers
      /\ allocations \in Seq(AllocationRecord) /\ queue \in Seq(PendingRecord) /\ revenue \in Int
      /\ depositor \in [count : Nat, total : Int] /\ rewards \in [lp : Int, stakers : Int]
      /\ surplus \in Int
  BY DEF TreasuryInv, TreasuryTypes, QueueInv
<1>2. /\ amounts(allocations) \in Int /\ amounts(receipts) \in Int
      /\ reserve + amounts(allocations) + amounts(receipts) + revenue = depositor.total + surplus
      /\ rewards.lp + rewards.stakers = amounts(receipts)
  BY <1>1, AmountsTyped DEF TreasuryInv, TreasuryBooks
<1>3. ASSUME NEW x \in DepositAmounts, deposit(x) PROVE TreasuryInv'
  <2>1. x \in Int /\ depositor.count + 1 \in Nat /\ depositor.total + x \in Int
    BY <1>1, TreasuryAssumption
  <2>2. /\ depositor' = [count |-> depositor.count + 1, total |-> depositor.total + x]
        /\ reserve' = reserve + x
        /\ UNCHANGED <<now, steward, surplus, allocations, queue, receipts, rewards, schedule, revenue>>
    BY <1>3 DEF deposit
  <2>3. depositor' \in [count : Nat, total : Int] /\ depositor'.total = depositor.total + x
    BY <2>1, <2>2
  <2> QED BY <2>1, <2>2, <2>3, ReserveStep
<1>13. ASSUME NEW x \in AllocAmounts, receive(x) PROVE TreasuryInv'
  <2>1. x \in Int
    BY TreasuryAssumption
  <2> QED BY <1>13, <2>1, ReserveStep DEF receive
<1>4. ASSUME NEW w, NEW x \in AllocAmounts, distribute_fee_revenue(w, x) PROVE TreasuryInv'
  <2>1. x \in Int
    BY TreasuryAssumption
  <2> QED BY <1>4, <2>1, ReserveStep DEF distribute_fee_revenue
<1>5. ASSUME UNCHANGED <<reserve, depositor, surplus, allocations, queue, revenue, receipts, rewards>>,
             ClockMoves, steward' \in Treasurers, schedule' \in AnnouncedAt,
             schedule' = schedule \/ schedule'.at > now
      PROVE  TreasuryInv'
  BY <1>5, OfficeStep
<1>6. ASSUME NEW w \in Treasurers, NEW t \in 1 .. MaxTreasuryTime, schedule_staker_distribution(w, t)
      PROVE  TreasuryInv'
  <2>1. t \in Nat
    BY TreasuryAssumption
  <2>2. schedule' = [at |-> t, written |-> now] /\ t > now
        /\ UNCHANGED <<reserve, depositor, surplus, allocations, queue, revenue, receipts, rewards, now, steward>>
    BY <1>6 DEF schedule_staker_distribution
  <2>3. schedule' \in AnnouncedAt /\ schedule'.at > now
    BY <1>1, <2>1, <2>2 DEF AnnouncedAt
  <2> QED BY <1>1, <1>5, <2>2, <2>3 DEF ClockMoves
<1>7. ASSUME \/ \E t \in Thresholds : set_multisig_threshold(t)
             \/ \E w \in Treasurers, b \in BOOLEAN : set_require_sched_distrib(w, b)
             \/ \E w \in Treasurers, n \in Treasurers : treasury_propose_admin_change(w, n) \/ add_authorized_caller(w, n)
             \/ \E w \in Treasurers : accept_admin_change(w) \/ treasury_revoke_admin_emergency(w)
             \/ cancel_admin_change
             \/ TreasuryTick
      PROVE  TreasuryInv'
  <2>1. UNCHANGED <<reserve, depositor, surplus, allocations, queue, revenue, receipts, rewards, schedule>>
    BY <1>7 DEF set_multisig_threshold, set_require_sched_distrib, treasury_propose_admin_change,
         add_authorized_caller, accept_admin_change, treasury_revoke_admin_emergency,
         cancel_admin_change, TreasuryTick
  <2>2. steward' \in Treasurers
    BY <1>1, <1>7 DEF set_multisig_threshold, set_require_sched_distrib, treasury_propose_admin_change,
         add_authorized_caller, accept_admin_change, treasury_revoke_admin_emergency,
         cancel_admin_change, TreasuryTick
  <2>3. ClockMoves
    BY <1>7 DEF set_multisig_threshold, set_require_sched_distrib, treasury_propose_admin_change,
         add_authorized_caller, accept_admin_change, treasury_revoke_admin_emergency,
         cancel_admin_change, TreasuryTick, CloseLedger, ClockMoves
  <2> QED BY <1>1, <1>5, <2>1, <2>2, <2>3
\* the history grows by payments that were not queued
<1>8. ASSUME NEW t, t \in Seq(AllocationRecord), QueueIsSettled(queue, t), NEW x \in Int,
             amounts(t) = amounts(allocations) + x, allocations' = t, NEW k \in Int,
             reserve' = reserve - x + k, surplus' = surplus + k,
             UNCHANGED <<now, steward, depositor, queue, revenue, receipts, rewards, schedule>>
      PROVE  TreasuryInv'
  <2>1. TreasuryTypes' /\ QueueInv' /\ ReceiptsInv'
    BY <1>1, <1>8 DEF TreasuryTypes, QueueInv, ReceiptsInv, DistributionsAreSpaced
  <2>2. TreasuryBooks'
    <3>1. PICK a \in Int, r \in Int : a = amounts(allocations) /\ r = amounts(receipts)
      BY <1>2
    <3>2. amounts(allocations)' = a + x /\ amounts(receipts)' = r
      BY <1>8, <3>1
    <3>3. reserve + a + r + revenue = depositor.total + surplus
      BY <1>2, <3>1
    <3>5. PICK d \in Int : d = depositor.total
      BY <1>1
    <3>6. reserve' = reserve - x + k /\ surplus' = surplus + k
      BY <1>8
    <3>4. reserve' + (a + x) + r + revenue = depositor.total + surplus'
      BY <1>1, <3>3, <3>5, <3>6
    <3> QED BY <1>2, <1>8, <3>1, <3>2, <3>4 DEF TreasuryBooks
  <2> QED BY <2>1, <2>2 DEF TreasuryInv
<1>9. ASSUME NEW x \in AllocAmounts, NEW own \in BOOLEAN, allocate(x, own) PROVE TreasuryInv'
  <2>1. x \in Nat
    BY TreasuryAssumption
  <2>2. CASE x > alloc_limit
    <3>1. /\ queue' = enqueued(x, own)
          /\ UNCHANGED <<now, steward, reserve, depositor, surplus, allocations, revenue, receipts, rewards, schedule>>
      BY <1>9, <2>2 DEF allocate
    <3>2. PICK q : q = enqueued(x, own)
      OBVIOUS
    <3>3. q \in Seq(PendingRecord) /\ ApprovalsAreCounted(q) /\ QueueIsSettled(q, allocations)
      BY <1>1, <2>1, <3>2, QueueGrows DEF enqueued
    <3>4. TreasuryTypes' /\ QueueInv' /\ ReceiptsInv' /\ TreasuryBooks'
      BY <1>1, <3>1, <3>2, <3>3 DEF TreasuryTypes, QueueInv, ReceiptsInv, DistributionsAreSpaced,
           TreasuryInv, TreasuryBooks
    <3> QED BY <3>4 DEF TreasuryInv
  <2>3. CASE ~(x > alloc_limit)
    <3>1. /\ allocations' = paid_out(x, 0) /\ reserve' = reserve - x + 0 /\ surplus' = surplus + 0
          /\ UNCHANGED <<now, steward, depositor, queue, revenue, receipts, rewards, schedule>>
      BY <1>1, <1>9, <2>1, <2>3 DEF allocate
    <3>2. PICK t : t = paid_out(x, 0)
      OBVIOUS
    <3>3. t \in Seq(AllocationRecord) /\ QueueIsSettled(queue, t) /\ amounts(t) = amounts(allocations) + x
      BY <1>1, <2>1, <3>2, PaymentSkipsQueue DEF paid_out
    <3> QED BY <1>8, <2>1, <3>1, <3>2, <3>3
  <2> QED BY <2>2, <2>3
<1>10. ASSUME NEW w \in Treasurers, NEW id \in DOMAIN queue, approve_pending_allocation(w, id)
       PROVE  TreasuryInv'
  <2>8. PICK n : n = queue[id].approvals_count + 1
    OBVIOUS
  <2>9. PICK p : p = Approved(queue[id], w)
    OBVIOUS
  <2>10. PICK q : q = WithEntry(queue, id, p)
    OBVIOUS
  <2>1. PICK t : t = Append(allocations, PaymentOf(p, id))
    OBVIOUS
  <2>2. ~queue[id].executed /\ w \notin queue[id].by
    BY <1>10 DEF approve_pending_allocation, new_approver
  <2>3. /\ p \in PendingRecord /\ q \in Seq(PendingRecord) /\ ApprovalsAreCounted(q)
        /\ n \in Nat /\ n >= 2 /\ p.executed /\ p.amount = queue[id].amount /\ p.amount \in Nat
    BY <1>1, <2>2, <2>8, <2>9, <2>10, ApprovalCounts
  <2>4. /\ queue' = q /\ reserve' = reserve - p.amount /\ allocations' = t
        /\ UNCHANGED <<now, steward, depositor, surplus, revenue, receipts, rewards, schedule>>
    <3>1. /\ queue' = [queue EXCEPT ![id] = Approved(queue[id], w)]
          /\ n >= 2 => reserve' = reserve - queue[id].amount /\ allocations' = paid_out(queue[id].amount, id)
          /\ UNCHANGED <<now, steward, depositor, surplus, revenue, receipts, rewards, schedule>>
      BY <1>10, <2>8 DEF approve_pending_allocation, Approved
    <3> QED BY <2>1, <2>3, <2>9, <2>10, <3>1 DEF paid_out, WithEntry, PaymentOf
  <2>5. t \in Seq(AllocationRecord) /\ QueueIsSettled(q, t) /\ amounts(t) = amounts(allocations) + p.amount
    <3>1. PICK a, o : a = allocations /\ o = queue
      OBVIOUS
    <3>2. o \in Seq(PendingRecord) /\ a \in Seq(AllocationRecord) /\ QueueIsSettled(o, a)
      BY <1>1, <3>1
    <3>3. id \in DOMAIN o /\ ~o[id].executed /\ p \in PendingRecord /\ p.executed /\ p.amount = o[id].amount
      BY <2>2, <2>3, <3>1
    <3>4. q = WithEntry(o, id, p) /\ t = Append(a, PaymentOf(p, id))
      BY <2>1, <2>10, <3>1
    <3>5. /\ t \in Seq(AllocationRecord) /\ QueueIsSettled(q, t)
          /\ amounts(t) = amounts(a) + p.amount /\ amounts(a) \in Int
      BY <3>2, <3>3, <3>4, PaymentSettles
    <3> QED BY <3>1, <3>5
  <2>6. TreasuryTypes' /\ QueueInv' /\ ReceiptsInv'
    BY <1>1, <2>3, <2>4, <2>5 DEF TreasuryTypes, QueueInv, ReceiptsInv, DistributionsAreSpaced
  <2>7. TreasuryBooks'
    <3>1. PICK a \in Int, r \in Int, x \in Int : a = amounts(allocations) /\ r = amounts(receipts) /\ x = p.amount
      BY <1>2, <2>3
    <3>2. amounts(allocations)' = a + x /\ amounts(receipts)' = r
      BY <2>4, <2>5, <3>1
    <3>3. reserve + a + r + revenue = depositor.total + surplus
      BY <1>2, <3>1
    <3>5. reserve' = reserve - x
      BY <2>4, <3>1
    <3>4. reserve' + (a + x) + r + revenue = depositor.total + surplus
      BY <1>1, <3>3, <3>5
    <3> QED BY <1>2, <2>4, <3>1, <3>2, <3>4 DEF TreasuryBooks
  <2> QED BY <2>6, <2>7 DEF TreasuryInv
<1>11. ASSUME NEW x \in AllocAmounts, distribute_to_stakers(x) PROVE TreasuryInv'
  <2>1. PICK y \in Nat, l \in Nat : y = x /\ l = x \div 10
    <3>1. x \in Nat /\ 10 \in Nat \ {0}
      BY TreasuryAssumption
    <3>2. x \div 10 \in Nat
      BY <3>1, DivBounds
    <3> QED BY <3>1, <3>2
  <2>2. /\ reserve' = reserve - y /\ distribution_due
        /\ receipts' = Append(receipts, [amount |-> y, at |-> now, announced |-> schedule])
        /\ schedule' = used_schedule
        /\ rewards' = [lp |-> rewards.lp + l, stakers |-> rewards.stakers + (y - l)]
        /\ UNCHANGED <<now, steward, depositor, surplus, allocations, queue, revenue>>
    BY <1>11, <2>1 DEF distribute_to_stakers
  <2>3. /\ ReceiptsInv' /\ receipts' \in Seq(ReceiptRecord) /\ schedule' \in AnnouncedAt
        /\ amounts(receipts') = amounts(receipts) + y /\ amounts(receipts) \in Int
    BY <1>1, <2>2, ReceiptsGrow
  <2>4. rewards'.lp = rewards.lp + l /\ rewards'.stakers = rewards.stakers + (y - l)
        /\ rewards' \in [lp : Int, stakers : Int]
    BY <1>1, <2>2
  <2>5. TreasuryTypes' /\ QueueInv'
    BY <1>1, <2>2, <2>3, <2>4 DEF TreasuryTypes, QueueInv
  <2>6. TreasuryBooks'
    <3>1. PICK a \in Int, r \in Int : a = amounts(allocations) /\ r = amounts(receipts)
      BY <1>2
    <3>2. amounts(allocations)' = a /\ amounts(receipts)' = r + y
      BY <2>2, <2>3, <3>1
    <3>3. reserve + a + r + revenue = depositor.total + surplus
      BY <1>2, <3>1
    <3>4. reserve' + a + (r + y) + revenue = depositor.total + surplus
      BY <1>1, <2>2, <3>3
    <3>6. PICK p \in Int, s \in Int : p = rewards.lp /\ s = rewards.stakers
      BY <1>1
    <3>7. p + s = r
      BY <1>2, <3>1, <3>6
    <3>8. rewards'.lp = p + l /\ rewards'.stakers = s + (y - l)
      BY <2>4, <3>6
    <3>9. (p + l) + (s + (y - l)) = r + y
      BY <3>7
    <3>5. rewards'.lp + rewards'.stakers = r + y
      BY <3>8, <3>9
    <3> QED BY <2>2, <3>1, <3>2, <3>4, <3>5 DEF TreasuryBooks
  <2> QED BY <2>3, <2>5, <2>6 DEF TreasuryInv
<1>12. ASSUME NEW q \in Requests, NEW own \in SUBSET DOMAIN q, batch_allocate(q, own)
       PROVE  TreasuryInv'
  <2>6. PICK k : k = SumFunctionOnSet(q, own)
    OBVIOUS
  <2>7. k \in Int
    <3>1. PICK n \in Nat : DOMAIN q = 1 .. n /\ \A i \in 1 .. n : q[i] \in Int
      <4>1. ASSUME NEW x \in AllocAmounts, q = <<x>> PROVE DOMAIN q = 1 .. 1 /\ q[1] \in Int
        BY <4>1, TreasuryAssumption
      <4>2. ASSUME NEW x \in AllocAmounts, NEW y \in AllocAmounts, q = <<x, y>>
            PROVE  DOMAIN q = 1 .. 2 /\ q[1] \in Int /\ q[2] \in Int
        BY <4>2, TreasuryAssumption
      <4>3. (\E x \in AllocAmounts : q = <<x>>) \/ \E x \in AllocAmounts, y \in AllocAmounts : q = <<x, y>>
        BY DEF Requests
      <4>4. 1 .. 1 = {1} /\ 1 .. 2 = {1, 2}
        OBVIOUS
      <4> QED BY <4>1, <4>2, <4>3, <4>4
    <3>2. IsFiniteSet(own)
      BY <3>1, FS_Interval, FS_Subset
    <3> QED BY <2>6, <3>1, <3>2, SumType
  <2>1. /\ allocations' = allocations \o [i \in DOMAIN q |-> [amount |-> q[i], via |-> 0]]
        /\ reserve' = reserve - batch_total(q) + k /\ surplus' = surplus + k
        /\ UNCHANGED <<now, steward, depositor, queue, revenue, receipts, rewards, schedule>>
    BY <1>12, <2>6 DEF batch_allocate
  <2>2. PICK s : s = allocations
    OBVIOUS
  <2>3. s \in Seq(AllocationRecord) /\ QueueIsSettled(queue, s) /\ queue \in Seq(PendingRecord)
        /\ amounts(s) = amounts(allocations)
    BY <1>1, <2>2
  <2>4. ASSUME NEW x \in AllocAmounts, q = <<x>> PROVE TreasuryInv'
    <3>1. x \in Nat
      BY TreasuryAssumption
    <3>2. PICK t : t = Append(s, [amount |-> x, via |-> 0])
      OBVIOUS
    <3>3. t \in Seq(AllocationRecord) /\ QueueIsSettled(queue, t) /\ amounts(t) = amounts(s) + x
      BY <2>3, <3>1, <3>2, PaymentSkipsQueue
    <3>4. allocations' = t
      <4>1. [i \in DOMAIN q |-> [amount |-> q[i], via |-> 0]] = <<[amount |-> x, via |-> 0]>>
        BY <2>4
      <4>2. s \o <<[amount |-> x, via |-> 0]>> = Append(s, [amount |-> x, via |-> 0])
        BY <2>3, <3>1 DEF AllocationRecord
      <4> QED BY <2>1, <2>2, <3>2, <4>1, <4>2
    <3>5. reserve' = reserve - x + k
      <4>1. PICK a \in Int, b \in Int : a = x /\ b = x
        BY <3>1
      <4>2. batch_total(<<a>>) = a /\ batch_total(<<a, b>>) = a + b
        BY BatchTotals
      <4> QED BY <2>1, <2>4, <4>1, <4>2
    <3>6. amounts(t) = amounts(allocations) + x /\ x \in Int
      BY <2>3, <3>1, <3>3
    <3> QED BY <1>8, <2>1, <2>7, <3>3, <3>4, <3>5, <3>6
  <2>5. ASSUME NEW x \in AllocAmounts, NEW y \in AllocAmounts, q = <<x, y>> PROVE TreasuryInv'
    <3>1. x \in Nat /\ y \in Nat
      BY TreasuryAssumption
    <3>2. PICK t : t = Append(s, [amount |-> x, via |-> 0])
      OBVIOUS
    <3>3. PICK u : u = Append(t, [amount |-> y, via |-> 0])
      OBVIOUS
    <3>4. t \in Seq(AllocationRecord) /\ QueueIsSettled(queue, t) /\ amounts(t) = amounts(s) + x
          /\ amounts(s) \in Int
      BY <2>3, <3>1, <3>2, PaymentSkipsQueue
    <3>5. u \in Seq(AllocationRecord) /\ QueueIsSettled(queue, u) /\ amounts(u) = amounts(t) + y
      BY <2>3, <3>1, <3>3, <3>4, PaymentSkipsQueue
    <3>6. allocations' = u
      <4>1. PICK d, e : d = [amount |-> x, via |-> 0] /\ e = [amount |-> y, via |-> 0]
        OBVIOUS
      <4>2. [i \in DOMAIN q |-> [amount |-> q[i], via |-> 0]] = <<d, e>>
        BY <2>5, <4>1
      <4>3. d \in AllocationRecord /\ e \in AllocationRecord
        BY <3>1, <4>1 DEF AllocationRecord
      <4>4. s \o <<d, e>> = Append(Append(s, d), e)
        BY <2>3, <4>3
      <4> QED BY <2>1, <2>2, <3>2, <3>3, <4>1, <4>2, <4>4
    <3>7. reserve' = reserve - (x + y) + k
      <4>1. PICK a \in Int, b \in Int : a = x /\ b = y
        BY <3>1
      <4>2. batch_total(<<a>>) = a /\ batch_total(<<a, b>>) = a + b
        BY BatchTotals
      <4> QED BY <2>1, <2>5, <4>1, <4>2
    <3>8. amounts(u) = amounts(allocations) + (x + y) /\ x + y \in Int
      BY <2>3, <3>1, <3>4, <3>5
    <3> QED BY <1>8, <2>1, <2>7, <3>5, <3>6, <3>7, <3>8
  <2> QED BY <2>4, <2>5 DEF Requests
<1> QED BY <1>3, <1>4, <1>6, <1>7, <1>9, <1>10, <1>11, <1>12, <1>13 DEF TreasuryNext

-----------------------------------------------------------------------------
(* Buybacks. *)

SwapRecord == [amount : Nat, at : Nat, reserve : Nat \ {0}]

BuybackTypes ==
    /\ now \in Nat /\ xlm \in Nat /\ lifetime \in Nat
    /\ window \in [start : Nat \cup {-1}, volume : Nat]
    /\ deferred \in [deferred_at : Nat, retry_after : Nat, after : Nat]
    /\ swaps \in Seq(SwapRecord)

\* The window has begun, swaps were made at times up to now, and those outside the window before.
WindowIsRecent ==
    /\ window.start <= now
    /\ \A i \in DOMAIN swaps : swaps[i].at <= now
    /\ window.start = -1 => swaps = << >>
    /\ window.start # -1 => Len(swaps) > 0

\* As long as no swap follows a deferral, it is not for earlier than the end of the window.
DeferralOutlastsWindow ==
    /\ deferred.after <= Len(swaps)
    /\ deferred # NeverDeferred /\ Len(swaps) = deferred.after /\ window.start # -1
         => window.start + VelocityWindow <= deferred.retry_after

\* The window and the swaps agree, and a deferral outlasts the window it was made in.
BuybackInv == BuybackTypes /\ WindowIsRecent /\ WindowsAddUp /\ BurstsAreDeferred /\ DeferralOutlastsWindow

\* The retry of a deferred buyback is after the end of the window it was deferred in.
LEMMA RetriesFindNewWindow == BuybackInv => RetryFindsNewWindow
<1> SUFFICES ASSUME BuybackInv, deferred # NeverDeferred, now >= deferred.retry_after,
                    Len(swaps) = deferred.after
             PROVE  current_volume = 0
  BY DEF RetryFindsNewWindow
<1>1. /\ now \in Nat /\ VelocityWindow \in Nat /\ deferred.retry_after \in Nat
      /\ window.start \in Nat \cup {-1}
  BY BuybackAssumption DEF BuybackInv, BuybackTypes
<1>2. window.start # -1 => window.start + VelocityWindow <= deferred.retry_after
  BY DEF BuybackInv, DeferralOutlastsWindow
<1>3. ~window_is_open
  BY <1>1, <1>2 DEF window_is_open
<1> QED BY <1>3 DEF current_volume

\* No buyback was made.
LEMMA BuybackStarts == BuybackInit => BuybackInv
<1> SUFFICES ASSUME BuybackInit PROVE BuybackInv
  OBVIOUS
<1>1. /\ now = 0 /\ xlm = InitialXlm /\ lifetime = 0 /\ swaps = << >> /\ deferred = NeverDeferred
      /\ window = [start |-> -1, volume |-> 0] /\ window.start = -1 /\ window.volume = 0
  BY DEF BuybackInit
<1>2. BuybackTypes
  BY <1>1, BuybackAssumption DEF BuybackTypes, NeverDeferred
<1>3. swapped({}) = 0
  BY SumEmpty DEF swapped
<1>4. DOMAIN swaps = {} /\ {i \in DOMAIN swaps : swaps[i].at >= window.start} = {}
  BY <1>1
<1>5. WindowsAddUp
  BY <1>1, <1>3, <1>4 DEF WindowsAddUp
<1>6. WindowIsRecent
  BY <1>1 DEF WindowIsRecent
<1>7. BurstsAreDeferred
  BY <1>1 DEF BurstsAreDeferred
<1>8. DeferralOutlastsWindow
  BY <1>1 DEF DeferralOutlastsWindow, NeverDeferred
<1> QED BY <1>2, <1>5, <1>6, <1>7, <1>8 DEF BuybackInv

\* A window that has not begun too late stays so.
LEMMA WindowRests ==
  ASSUME BuybackInv, ClockMoves, UNCHANGED <<xlm, lifetime, window, swaps>>
  PROVE  /\ now' \in Nat /\ WindowIsRecent' /\ WindowsAddUp' /\ BurstsAreDeferred'
<1>1. now \in Nat /\ now' \in Nat /\ now <= now'
  BY DEF BuybackInv, BuybackTypes, ClockMoves
<1>2. WindowsAddUp' /\ BurstsAreDeferred'
  BY DEF BuybackInv, WindowsAddUp, BurstsAreDeferred, swapped
<1>3. WindowIsRecent'
  <2>1. window.start \in Int /\ window.start <= now
    BY DEF BuybackInv, BuybackTypes, WindowIsRecent
  <2>2. ASSUME NEW i \in DOMAIN swaps PROVE swaps[i].at <= now'
    <3>1. swaps[i] \in SwapRecord
      BY DEF BuybackInv, BuybackTypes
    <3>2. swaps[i].at \in Nat /\ swaps[i].at <= now
      BY <3>1 DEF BuybackInv, WindowIsRecent, SwapRecord
    <3> QED BY <1>1, <3>2
  <2>3. window.start <= now'
    BY <1>1, <2>1
  <2> QED BY <2>2, <2>3 DEF WindowIsRecent, BuybackInv
<1> QED BY <1>1, <1>2, <1>3

\* The buybacks wait while time passes.
LEMMA BuybackRests ==
  ASSUME BuybackInv, ClockMoves, UNCHANGED buyback_vars
  PROVE  BuybackInv'
<1>1. /\ UNCHANGED <<xlm, lifetime, window, swaps, deferred>>
      /\ now' \in Nat /\ WindowIsRecent' /\ WindowsAddUp' /\ BurstsAreDeferred'
  BY WindowRests DEF buyback_vars
<1>2. BuybackTypes' /\ DeferralOutlastsWindow'
  BY <1>1 DEF BuybackInv, BuybackTypes, DeferralOutlastsWindow
<1> QED BY <1>1, <1>2 DEF BuybackInv

\* A deferral names a time after the window.
LEMMA DeferralStep ==
  ASSUME BuybackInv, NEW a, defer_buyback(a)
  PROVE  BuybackInv'
<1>1. UNCHANGED <<now, xlm, window, lifetime, swaps>>
  BY DEF defer_buyback
<1>2. now \in Nat /\ window.start \in Nat \cup {-1} /\ VelocityWindow \in Nat /\ Len(swaps) \in Nat
  BY BuybackAssumption DEF BuybackInv, BuybackTypes
<1>3. retry_time \in Nat
  BY <1>2 DEF retry_time, window_is_open
<1>4. PICK r \in Nat, n \in Nat : r = retry_time /\ n = Len(swaps)
  BY <1>2, <1>3
<1>5. deferred' = [deferred_at |-> now, retry_after |-> r, after |-> n]
  BY <1>4 DEF defer_buyback
<1>6. window.start # -1 => window.start + VelocityWindow <= r
  BY <1>2, <1>4 DEF retry_time, window_is_open
<1>7. now' \in Nat /\ WindowIsRecent' /\ WindowsAddUp' /\ BurstsAreDeferred'
  BY <1>1, WindowRests DEF ClockMoves
<1>8. BuybackTypes'
  BY <1>1, <1>2, <1>5 DEF BuybackInv, BuybackTypes
<1>9. DeferralOutlastsWindow'
  <2>1. deferred'.after = n /\ deferred'.retry_after = r
    BY <1>5
  <2> QED BY <1>1, <1>4, <1>6, <2>1 DEF DeferralOutlastsWindow
<1> QED BY <1>7, <1>8, <1>9 DEF BuybackInv

\* Three of the risk's signs weigh 35, 35 and 20.
LEMMA RiskIsBounded ==
  ASSUME NEW v \in Int, NEW c \in Int, ~(risk(v, c) >= ResponseThreshold)
  PROVE  v <= VelocityWarn \/ c <= ConcentrationWarn
<1>1. VelocityWarn \in Nat /\ ConcentrationWarn \in Nat /\ ResponseThreshold \in Nat /\ ResponseThreshold <= 70
  BY BuybackAssumption
<1> SUFFICES ASSUME v > VelocityWarn, c > ConcentrationWarn PROVE FALSE
  BY <1>1
<1>2. risk(v, c) = 35 + 35 + (IF v > 2 * VelocityWarn THEN 20 ELSE 0)
  BY DEF risk
<1>3. risk(v, c) \in {70, 90}
  BY <1>2
<1> QED BY <1>1, <1>3

\* A swap is booked in its window and in the total.
LEMMA SwapStep ==
  ASSUME BuybackInv, NEW a \in XlmAmounts, NEW s \in {0, a}, NEW r \in MntOutputs, NEW d \in MntOutputs,
         buyback_and_burn(a, s, r, d)
  PROVE  BuybackInv'
<1>1. /\ a \in Nat /\ a > 0 /\ s \in Nat /\ VelocityWindow \in Nat /\ VelocityWindow > 0
      /\ VelocityWarn \in Nat /\ ConcentrationWarn \in Nat
  BY BuybackAssumption
<1>2. /\ now \in Nat /\ xlm \in Nat /\ lifetime \in Nat /\ swaps \in Seq(SwapRecord)
      /\ window \in [start : Nat \cup {-1}, volume : Nat]
      /\ window.start \in Nat \cup {-1} /\ window.volume \in Nat /\ window.start <= now
      /\ Len(swaps) \in Nat /\ DOMAIN swaps = 1 .. Len(swaps)
  BY DEF BuybackInv, BuybackTypes, WindowIsRecent
<1>3. /\ a <= xlm /\ ~stabilization_required(a) /\ s <= a
      /\ xlm' = xlm - s /\ window' = recorded(a) /\ lifetime' = lifetime + a
      /\ swaps' = Append(swaps, [amount |-> a, at |-> now, reserve |-> xlm])
      /\ UNCHANGED <<now, deferred>>
  BY DEF buyback_and_burn, settle_swap
<1>13. PICK e : e = [amount |-> a, at |-> now, reserve |-> xlm]
  OBVIOUS
<1>4. e \in SwapRecord /\ e.amount = a /\ e.at = now /\ e.reserve = xlm /\ xlm > 0
  <2>1. xlm \in Nat \ {0}
    BY <1>1, <1>2, <1>3
  <2> QED BY <1>1, <1>2, <1>13, <2>1 DEF SwapRecord
<1>5. PICK n \in Nat, t \in {swaps'} : n = Len(swaps) /\ t = swaps'
  BY <1>2
<1>6. /\ t \in Seq(SwapRecord) /\ Len(t) = n + 1 /\ DOMAIN swaps = 1 .. n /\ DOMAIN t = 1 .. n + 1
      /\ \A i \in 1 .. n : t[i] = swaps[i] /\ swaps[i] \in SwapRecord
      /\ t[n + 1] = e
  <2>1. t = Append(swaps, e)
    BY <1>3, <1>5, <1>13
  <2> QED BY <1>2, <1>4, <1>5, <2>1, Appended
<1>7. PICK v \in Nat : v = current_volume + a
  BY <1>1, <1>2 DEF current_volume
<1>8. /\ window' \in [start : Nat \cup {-1}, volume : Nat] /\ window'.volume = v
      /\ window'.start = IF window_is_open THEN window.start ELSE now
      /\ window'.start \in Nat /\ window'.start <= now
  <2>1. CASE window_is_open
    <3>1. window' = [start |-> window.start, volume |-> window.volume + a] /\ window.start \in Nat
      BY <1>2, <1>3, <2>1 DEF recorded, window_is_open
    <3>2. v = window.volume + a
      BY <1>7, <2>1 DEF current_volume
    <3> QED BY <1>2, <2>1, <3>1, <3>2
  <2>2. CASE ~window_is_open
    <3>1. window' = [start |-> now, volume |-> a]
      BY <1>3, <2>2 DEF recorded
    <3>2. v = a
      BY <1>1, <1>7, <2>2 DEF current_volume
    <3> QED BY <1>2, <2>2, <3>1, <3>2
  <2> QED BY <2>1, <2>2
<1>9. BuybackTypes'
  <2>1. xlm' \in Nat /\ lifetime' \in Nat
    BY <1>1, <1>2, <1>3
  <2> QED BY <1>2, <1>3, <1>5, <1>6, <1>8, <2>1 DEF BuybackInv, BuybackTypes
<1>10. \A i \in 1 .. n : swaps[i].at \in Nat /\ swaps[i].at <= now /\ swaps[i].amount \in Nat
  BY <1>6 DEF SwapRecord, BuybackInv, WindowIsRecent
<1>11. WindowIsRecent'
  <2>1. \A i \in 1 .. n + 1 : t[i].at <= now
    BY <1>2, <1>4, <1>6, <1>10
  <2> QED BY <1>3, <1>5, <1>6, <1>8, <2>1 DEF WindowIsRecent
<1>12. \A i \in 1 .. n : ~window_is_open => swaps[i].at < now
  <2> SUFFICES ASSUME NEW i \in 1 .. n, ~window_is_open PROVE swaps[i].at < now
    OBVIOUS
  <2>1. swaps # << >>
    BY <1>5
  <2>2. window.start # -1 /\ window.start + VelocityWindow <= now /\ window.start \in Nat
    BY <1>1, <1>2, <2>1 DEF BuybackInv, WindowIsRecent, window_is_open
  <2>3. CASE swaps[i].at >= window.start
    <3>1. swaps[i].at < window.start + VelocityWindow
      BY <1>6, <2>3 DEF BuybackInv, WindowsAddUp
    <3> QED BY <1>1, <1>2, <1>10, <2>2, <3>1
  <2>4. CASE ~(swaps[i].at >= window.start)
    BY <1>1, <1>2, <1>10, <2>2, <2>4
  <2> QED BY <2>3, <2>4
<1>14. PICK f, g : f = [i \in DOMAIN swaps |-> swaps[i].amount] /\ g = [i \in DOMAIN t |-> t[i].amount]
  OBVIOUS
<1>15. /\ \A i \in 1 .. n : f[i] \in Int /\ g[i] = f[i]
       /\ g[n + 1] = a
  BY <1>4, <1>6, <1>10, <1>14
<1>16. WindowsAddUp'
  <2>1. lifetime = SumFunctionOnSet(f, 1 .. n)
    BY <1>6, <1>14 DEF BuybackInv, WindowsAddUp, swapped
  <2>2. lifetime' = SumFunctionOnSet(g, 1 .. n + 1)
    <3>1. \A i \in 1 .. n : f[i] \in Int /\ g[i] = f[i]
      BY <1>15
    <3>2. g[n + 1] \in Int
      BY <1>1, <1>15
    <3>3. /\ SumFunctionOnSet(g, 1 .. n + 1) = SumFunctionOnSet(f, 1 .. n) + g[n + 1]
          /\ SumFunctionOnSet(f, 1 .. n) \in Int
      BY <3>1, <3>2, SumNext
    <3> QED BY <1>3, <1>15, <2>1, <3>3
  <2>3. PICK I : I = IF window_is_open THEN {i \in 1 .. n : swaps[i].at >= window.start} ELSE {}
    OBVIOUS
  <2>4. I \subseteq 1 .. n /\ IsFiniteSet(I) /\ n + 1 \notin I
    <3>1. I \subseteq 1 .. n
      BY <2>3
    <3>2. IsFiniteSet(1 .. n)
      BY <1>6, FS_Interval
    <3>3. IsFiniteSet(I)
      BY <3>1, <3>2, FS_Subset
    <3>4. n + 1 \notin 1 .. n
      BY <1>6
    <3> QED BY <3>1, <3>3, <3>4
  <2>5. {i \in 1 .. n + 1 : t[i].at >= window'.start} = I \cup {n + 1}
    <3>1. ASSUME NEW i \in 1 .. n PROVE t[i].at >= window'.start <=> i \in I
      <4>1. t[i].at = swaps[i].at /\ swaps[i].at \in Nat
        BY <1>6, <1>10
      <4>2. CASE window_is_open
        BY <1>8, <2>3, <4>1, <4>2
      <4>3. CASE ~window_is_open
        <5>1. swaps[i].at < now /\ window'.start = now /\ i \notin I
          BY <1>8, <1>12, <2>3, <4>3
        <5> QED BY <1>2, <4>1, <5>1
      <4> QED BY <4>2, <4>3
    <3>2. t[n + 1].at >= window'.start
      BY <1>2, <1>4, <1>6, <1>8
    <3>3. \A i \in 1 .. n + 1 : i \in 1 .. n \/ i = n + 1
      BY <1>6
    <3>4. \A i \in 1 .. n + 1 : t[i].at >= window'.start <=> (i \in I \/ i = n + 1)
      BY <2>4, <3>1, <3>2, <3>3
    <3>5. I \cup {n + 1} \subseteq 1 .. n + 1
      <4>1. n + 1 \in 1 .. n + 1
        BY <1>6
      <4>2. \A i \in 1 .. n : i \in 1 .. n + 1
        BY <1>6
      <4> QED BY <2>4, <4>1, <4>2
    <3> HIDE DEF WindowIsRecent, WindowsAddUp
    <3> QED BY ONLY <3>4, <3>5
  <2>6. window'.volume = SumFunctionOnSet(g, I \cup {n + 1})
    <3>1. current_volume = SumFunctionOnSet(f, I)
      <4>1. CASE window_is_open
        <5>1. {i \in DOMAIN swaps : swaps[i].at >= window.start} = I
          BY <1>6, <2>3, <4>1
        <5> QED BY <1>14, <4>1, <5>1 DEF BuybackInv, WindowsAddUp, swapped, current_volume
      <4>2. CASE ~window_is_open
        BY <2>3, <4>2, SumEmpty DEF current_volume
      <4> QED BY <4>1, <4>2
    <3>2. \A i \in I : f[i] \in Int /\ g[i] = f[i]
      BY <1>15, <2>4
    <3>3. /\ SumFunctionOnSet(g, I \cup {n + 1}) = SumFunctionOnSet(f, I) + g[n + 1]
          /\ SumFunctionOnSet(f, I) \in Int
      <4>1. g[n + 1] \in Int
        BY <1>1, <1>15
      <4> QED BY <2>4, <3>2, <4>1, SumAdd
    <3> QED BY <1>7, <1>8, <1>15, <3>1, <3>3
  <2>7. \A i \in I \cup {n + 1} : t[i].at < window'.start + VelocityWindow
    <3>1. ASSUME NEW i \in I PROVE t[i].at < window'.start + VelocityWindow
      <4>1. window_is_open /\ i \in 1 .. n /\ swaps[i].at >= window.start
        BY <2>3
      <4>2. swaps[i].at < window.start + VelocityWindow
        BY <1>6, <4>1 DEF BuybackInv, WindowsAddUp
      <4> QED BY <1>6, <1>8, <4>1, <4>2
    <3>2. now < window'.start + VelocityWindow
      <4>1. CASE window_is_open
        BY <1>8, <4>1 DEF window_is_open
      <4>2. CASE ~window_is_open
        <5>1. window'.start = now
          BY <1>8, <4>2
        <5> QED BY <1>1, <1>2, <5>1
      <4> QED BY <4>1, <4>2
    <3> QED BY <1>4, <1>6, <3>1, <3>2
  <2>8. DOMAIN swaps' = 1 .. n + 1 /\ swaps' = t /\ g = [i \in DOMAIN swaps |-> swaps[i].amount]'
    BY <1>5, <1>6, <1>14
  <2>9. {i \in DOMAIN swaps' : swaps'[i].at >= window'.start} = I \cup {n + 1}
    BY <2>5, <2>8
  <2>10. lifetime' = swapped(DOMAIN swaps)'
    BY <2>2, <2>8 DEF swapped
  <2>11. window'.volume = SumFunctionOnSet([i \in DOMAIN swaps' |-> swaps'[i].amount], {i \in DOMAIN swaps' : swaps'[i].at >= window'.start})
    BY <2>6, <2>8, <2>9
  <2>12. \A i \in {j \in DOMAIN swaps' : swaps'[j].at >= window'.start} : swaps'[i].at < window'.start + VelocityWindow
    BY <2>7, <2>8, <2>9
  <2> QED BY <2>10, <2>11, <2>12 DEF WindowsAddUp, swapped
<1>17. BurstsAreDeferred'
  <2>1. PICK x \in Nat, y \in Nat : x = xlm /\ x > 0 /\ y = lifetime + a /\ y > 0 /\ y = lifetime'
    BY <1>1, <1>2, <1>3, <1>4
  <2>2. x \in Nat \ {0} /\ y \in Nat \ {0} /\ v * 10000 \in Nat
    BY <2>1
  <2>3. (v * 10000) \div x \in Nat /\ v * 10000 < x * (((v * 10000) \div x) + 1)
    BY <2>2, DivBounds
  <2>4. (v * 10000) \div y \in Nat /\ v * 10000 < y * (((v * 10000) \div y) + 1)
    BY <2>2, DivBounds
  <2>5. ~(risk((v * 10000) \div x, (v * 10000) \div y) >= ResponseThreshold)
    BY <1>3, <1>7, <2>1 DEF stabilization_required
  <2>6. PICK p \in Nat, q \in Nat : p = (v * 10000) \div x /\ q = (v * 10000) \div y
    BY <2>3, <2>4
  <2>7. p <= VelocityWarn \/ q <= ConcentrationWarn
    BY <2>5, <2>6, RiskIsBounded
  <2>8. swaps'[Len(swaps')].reserve = x /\ window'.volume = v
    BY <1>4, <1>5, <1>6, <1>8, <2>1
  <2>9. CASE p <= VelocityWarn
    <3>1. v * 10000 < x * (p + 1)
      BY <2>3, <2>6
    <3>2. x * (p + 1) <= (VelocityWarn + 1) * x
      <4>1. PICK w \in Nat, k \in Nat : w = VelocityWarn /\ w = p + k
        <5>1. VelocityWarn - p \in Nat
          BY <1>1, <2>9
        <5> QED BY <1>1, <5>1
      <4>2. (w + 1) * x = x * (p + 1) + k * x /\ k * x \in Nat /\ x * (p + 1) \in Nat
        BY <4>1
      <4> QED BY <4>1, <4>2
    <3>3. v * 10000 < (VelocityWarn + 1) * x
      <4>1. v * 10000 \in Nat /\ x * (p + 1) \in Nat /\ (VelocityWarn + 1) * x \in Nat
        BY <1>1
      <4> QED BY <3>1, <3>2, <4>1
    <3> QED BY <2>8, <3>3 DEF BurstsAreDeferred
  <2>10. CASE q <= ConcentrationWarn
    <3>1. v * 10000 < y * (q + 1)
      BY <2>4, <2>6
    <3>2. y * (q + 1) <= (ConcentrationWarn + 1) * y
      <4>1. PICK w \in Nat, k \in Nat : w = ConcentrationWarn /\ w = q + k
        <5>1. ConcentrationWarn - q \in Nat
          BY <1>1, <2>10
        <5> QED BY <1>1, <5>1
      <4>2. (w + 1) * y = y * (q + 1) + k * y /\ k * y \in Nat /\ y * (q + 1) \in Nat
        BY <4>1
      <4> QED BY <4>1, <4>2
    <3>3. v * 10000 < (ConcentrationWarn + 1) * y
      <4>1. v * 10000 \in Nat /\ y * (q + 1) \in Nat /\ (ConcentrationWarn + 1) * y \in Nat
        BY <1>1
      <4> QED BY <3>1, <3>2, <4>1
    <3> QED BY <2>1, <2>8, <3>3 DEF BurstsAreDeferred
  <2> QED BY <2>7, <2>9, <2>10
<1>18. DeferralOutlastsWindow'
  <2>1. deferred.after <= n /\ deferred.after \in Nat
    BY <1>5 DEF BuybackInv, BuybackTypes, DeferralOutlastsWindow
  <2>2. Len(swaps') = n + 1 /\ deferred' = deferred
    BY <1>3, <1>5, <1>6
  <2> QED BY <2>1, <2>2 DEF DeferralOutlastsWindow
<1> QED BY <1>9, <1>11, <1>16, <1>17, <1>18 DEF BuybackInv

\* Every call of the buyback keeps its invariant.
LEMMA BuybackStep ==
  ASSUME BuybackInv, BuybackNext
  PROVE  BuybackInv'
<1>1. ASSUME BuybackTick PROVE BuybackInv'
  BY <1>1, BuybackRests DEF BuybackTick, CloseLedger, ClockMoves
<1>2. ASSUME execute_burn_queue \/ set_auto_burn_rate PROVE BuybackInv'
  <2>1. UNCHANGED <<xlm, lifetime, window, swaps, deferred>> /\ ClockMoves
    BY <1>2 DEF execute_burn_queue, set_auto_burn_rate, ClockMoves
  <2>2. now' \in Nat /\ WindowIsRecent' /\ WindowsAddUp' /\ BurstsAreDeferred'
    BY <2>1, WindowRests
  <2>3. BuybackTypes' /\ DeferralOutlastsWindow'
    BY <2>1, <2>2 DEF BuybackInv, BuybackTypes, DeferralOutlastsWindow
  <2> QED BY <2>2, <2>3 DEF BuybackInv
<1> QED BY <1>1, <1>2, DeferralStep, SwapStep DEF BuybackNext

-----------------------------------------------------------------------------
(* A list whose entries know their places, as stakers and staking keep one. *)

\* l lists the elements of P once each, and pos has the place of each.
PlacedIn(l, pos, P) ==
    /\ IsFiniteSet(P) /\ l \in Seq(P) /\ Len(l) = Cardinality(P)
    /\ DOMAIN pos = P /\ pos = [d \in P |-> pos[d]]
    /\ \A d \in P : pos[d] \in 1 .. Len(l) /\ l[pos[d]] = d
    /\ \A i \in 1 .. Len(l) : pos[l[i]] = i

\* What it means for a list of a known length.
LEMMA ListIs ==
  ASSUME NEW P, NEW l, NEW pos, PlacedIn(l, pos, P), NEW n, n = Len(l)
  PROVE  /\ IsFiniteSet(P) /\ l \in Seq(P) /\ n = Cardinality(P) /\ n \in Nat
         /\ DOMAIN pos = P /\ DOMAIN l = 1 .. n /\ pos = [d \in P |-> pos[d]]
         /\ \A c \in P : pos[c] \in 1 .. n /\ l[pos[c]] = c
         /\ \A i \in 1 .. n : l[i] \in P /\ pos[l[i]] = i
<1>1. l \in Seq(P)
  BY DEF PlacedIn
<1>2. n \in Nat /\ DOMAIN l = 1 .. n
  BY <1>1
<1>3. \A i \in 1 .. n : l[i] \in P
  BY <1>1, <1>2
<1>4. \A c \in P : pos[c] \in 1 .. n /\ l[pos[c]] = c
  BY DEF PlacedIn
<1>5. \A i \in 1 .. n : pos[l[i]] = i
  BY DEF PlacedIn
<1>6. IsFiniteSet(P) /\ n = Cardinality(P) /\ DOMAIN pos = P /\ pos = [d \in P |-> pos[d]]
  BY DEF PlacedIn
<1> QED BY <1>1, <1>2, <1>3, <1>4, <1>5, <1>6

\* A list with one entry more, at its end.
LEMMA ListGrows ==
  ASSUME NEW P, NEW l, NEW pos, PlacedIn(l, pos, P), NEW d, d \notin P
  PROVE  PlacedIn(Append(l, d), put(pos, d, Len(l) + 1), P \cup {d})
<1> PICK n : n = Len(l)
  OBVIOUS
<1> PICK Q : Q = P \cup {d}
  OBVIOUS
<1> PICK r : r = Append(l, d)
  OBVIOUS
<1> PICK q : q = put(pos, d, Len(l) + 1)
  OBVIOUS
<1>1. /\ IsFiniteSet(P) /\ l \in Seq(P) /\ n = Cardinality(P) /\ n \in Nat
      /\ DOMAIN pos = P /\ DOMAIN l = 1 .. n
      /\ \A e \in P : pos[e] \in 1 .. n /\ l[pos[e]] = e
      /\ \A i \in 1 .. n : l[i] \in P /\ pos[l[i]] = i
  BY ListIs
<1>2. /\ q = [e \in Q |-> IF e = d THEN n + 1 ELSE pos[e]]
      /\ DOMAIN q = Q /\ q[d] = n + 1 /\ \A e \in P : q[e] = pos[e]
  BY <1>1 DEF put
<1>3. q = [e \in Q |-> q[e]]
  BY <1>2
<1>4. l \in Seq(Q)
  BY <1>1
<1>5. r \in Seq(Q) /\ Len(r) = n + 1 /\ r[n + 1] = d /\ \A i \in 1 .. n : r[i] = l[i]
  BY <1>4
<1>6. IsFiniteSet(Q) /\ Cardinality(Q) = n + 1
  BY <1>1, FS_AddElement
<1>7. \A e \in Q : q[e] \in 1 .. n + 1 /\ r[q[e]] = e
  <2> SUFFICES ASSUME NEW e \in Q PROVE q[e] \in 1 .. n + 1 /\ r[q[e]] = e
    OBVIOUS
  <2>1. CASE e = d
    BY <1>2, <1>5, <2>1
  <2>2. CASE e \in P
    BY <1>1, <1>2, <1>5, <2>2
  <2> QED BY <2>1, <2>2
<1>8. \A i \in 1 .. n + 1 : q[r[i]] = i
  <2> SUFFICES ASSUME NEW i \in 1 .. n + 1 PROVE q[r[i]] = i
    OBVIOUS
  <2>1. CASE i = n + 1
    BY <1>2, <1>5, <2>1
  <2>2. CASE i \in 1 .. n
    BY <1>1, <1>2, <1>5, <2>2
  <2> QED BY <2>1, <2>2
<1>9. PlacedIn(r, q, Q)
  BY <1>2, <1>3, <1>5, <1>6, <1>7, <1>8 DEF PlacedIn
<1> QED BY <1>9

\* A list without one of its entries, whose place the last entry takes.
LEMMA ListShrinks ==
  ASSUME NEW P, NEW l, NEW pos, PlacedIn(l, pos, P), NEW d \in P,
         NEW m, m = moved_into(l, pos, pos[d])
  PROVE  PlacedIn(m.list, m.pos, P \ {d})
<1> PICK n : n = Len(l)
  OBVIOUS
<1> PICK k : k = pos[d]
  OBVIOUS
<1> PICK last : last = l[n]
  OBVIOUS
<1> PICK e : e = IF k # n THEN [l EXCEPT ![k] = last] ELSE l
  OBVIOUS
<1> PICK f : f = IF k # n THEN [pos EXCEPT ![last] = k] ELSE pos
  OBVIOUS
<1> PICK Q : Q = P \ {d}
  OBVIOUS
<1> PICK r : r = m.list
  OBVIOUS
<1> PICK q : q = m.pos
  OBVIOUS
<1>1. /\ IsFiniteSet(P) /\ l \in Seq(P) /\ n = Cardinality(P) /\ n \in Nat
      /\ DOMAIN pos = P /\ DOMAIN l = 1 .. n
      /\ \A c \in P : pos[c] \in 1 .. n /\ l[pos[c]] = c
      /\ \A i \in 1 .. n : l[i] \in P /\ pos[l[i]] = i
  BY ListIs
<1>2. k \in 1 .. n /\ l[k] = d /\ n \in 1 .. n /\ last \in P /\ pos[last] = n
  <2>1. k \in 1 .. n /\ l[k] = d
    BY <1>1
  <2>2. n \in 1 .. n
    BY <2>1
  <2> QED BY <1>1, <2>1, <2>2
<1>3. r = SubSeq(e, 1, n - 1) /\ q = del(f, d)
  BY <1>2 DEF moved_into
<1>4. e \in Seq(P) /\ Len(e) = n /\ (k # n => e[k] = last) /\ \A i \in 1 .. n : i # k => e[i] = l[i]
  BY <1>1, <1>2
<1>5. r \in Seq(P) /\ Len(r) = n - 1 /\ n - 1 \in Nat /\ \A i \in 1 .. n - 1 : r[i] = e[i]
  BY <1>2, <1>3, <1>4
<1>6. DOMAIN f = P /\ (k # n => f[last] = k) /\ \A c \in P : c # last => f[c] = pos[c]
  BY <1>1, <1>2
<1>7. q = [c \in Q |-> f[c]]
  BY <1>3, <1>6 DEF del
<1>8. DOMAIN q = Q /\ \A c \in Q : q[c] = f[c]
  BY <1>7
<1>9. q = [c \in Q |-> q[c]]
  BY <1>7
<1>10. IsFiniteSet(Q) /\ Cardinality(Q) = n - 1
  <2>1. IsFiniteSet(P) /\ d \in P
    BY <1>1
  <2>2. IsFiniteSet(P \ {d}) /\ Cardinality(P \ {d}) = Cardinality(P) - 1
    BY <2>1, FS_RemoveElement
  <2> QED BY <1>1, <2>2
<1>11. \A i \in 1 .. n - 1 : r[i] \in Q /\ q[r[i]] = i
  <2> SUFFICES ASSUME NEW i \in 1 .. n - 1 PROVE r[i] \in Q /\ q[r[i]] = i
    OBVIOUS
  <2>1. i \in 1 .. n /\ i # n /\ r[i] = e[i]
    BY <1>5
  <2>2. CASE i = k
    <3>1. r[i] = last /\ k # n /\ last # d
      BY <1>1, <1>2, <1>4, <2>1, <2>2
    <3> QED BY <1>2, <1>6, <1>8, <2>2, <3>1
  <2>3. CASE i # k
    <3>1. r[i] = l[i] /\ l[i] \in P /\ pos[l[i]] = i
      BY <1>1, <1>4, <2>1, <2>3
    <3>2. l[i] # d /\ l[i] # last
      BY <1>2, <2>1, <2>3, <3>1
    <3> QED BY <1>6, <1>8, <3>1, <3>2
  <2> QED BY <2>2, <2>3
<1>12. \A c \in Q : q[c] \in 1 .. n - 1 /\ r[q[c]] = c
  <2> SUFFICES ASSUME NEW c \in Q PROVE q[c] \in 1 .. n - 1 /\ r[q[c]] = c
    OBVIOUS
  <2>1. pos[c] \in 1 .. n /\ l[pos[c]] = c /\ c # d
    BY <1>1
  <2>2. CASE c = last
    <3>1. k # n
      BY <1>2, <2>1, <2>2
    <3>2. k \in 1 .. n - 1 /\ q[c] = k
      BY <1>2, <1>6, <1>8, <2>2, <3>1
    <3> QED BY <1>4, <1>5, <2>2, <3>1, <3>2
  <2>3. CASE c # last
    <3>1. q[c] = pos[c]
      BY <1>6, <1>8, <2>3
    <3>2. pos[c] # n /\ pos[c] # k
      BY <1>2, <2>1, <2>3
    <3>3. pos[c] \in 1 .. n - 1
      BY <2>1, <3>2
    <3> QED BY <1>4, <1>5, <2>1, <3>1, <3>2, <3>3
  <2> QED BY <2>2, <2>3
<1>13. r \in Seq(Q)
  BY <1>5, <1>11
<1>14. PlacedIn(r, q, Q)
  BY <1>5, <1>8, <1>9, <1>10, <1>11, <1>12, <1>13 DEF PlacedIn
<1> QED BY <1>14

\* An enumeration of a set names each of its members, once.
LEMMA Enumerated ==
  ASSUME NEW S, IsFiniteSet(S), NEW s \in SetToSeqs(S), NEW k, k = Cardinality(S)
  PROVE  /\ k \in Nat /\ s \in [1 .. k -> S] /\ \A i, j \in 1 .. k : i # j => s[i] # s[j]
         /\ \A e \in S : \E i \in 1 .. k : s[i] = e
<1>1. k \in Nat /\ s \in [1 .. k -> S] /\ \A i, j \in 1 .. k : i # j => s[i] # s[j]
  BY FS_CardinalityType DEF SetToSeqs
<1>2. s \in Injection(1 .. k, S)
  BY <1>1 DEF Injection, IsInjective
<1>3. 1 \in Int /\ k \in Int
  BY <1>1
<1>4. IsFiniteSet(1 .. k) /\ Cardinality(1 .. k) = IF 1 > k THEN 0 ELSE k - 1 + 1
  BY ONLY <1>3, FS_Interval
<1>5. Cardinality(1 .. k) = Cardinality(S)
  BY <1>1, <1>4
<1>6. s \in Surjection(1 .. k, S)
  BY <1>2, <1>5, FS_Injection
<1> QED BY <1>1, <1>6 DEF Surjection

\* q places what pos does, and the members of S after the first n as s enumerates them.
PlacesMore(q, P, pos, S, s, n) ==
    /\ q = [e \in P \cup S |-> q[e]]
    /\ \A e \in P : q[e] = pos[e]
    /\ \A e \in S : \E i \in DOMAIN s : s[i] = e /\ q[e] = n + i

\* A list with the members of a set appended, each once.
LEMMA ListJoins ==
  ASSUME NEW P, NEW l, NEW pos, PlacedIn(l, pos, P),
         NEW S, IsFiniteSet(S), S \cap P = {}, NEW s \in SetToSeqs(S),
         NEW n, n = Len(l), NEW q, PlacesMore(q, P, pos, S, s, n)
  PROVE  PlacedIn(l \o s, q, P \cup S)
<1> PICK k : k = Cardinality(S)
  OBVIOUS
<1> PICK Q : Q = P \cup S
  OBVIOUS
<1> PICK r : r = l \o s
  OBVIOUS
<1>1. /\ IsFiniteSet(P) /\ l \in Seq(P) /\ n = Cardinality(P) /\ n \in Nat
      /\ DOMAIN pos = P /\ DOMAIN l = 1 .. n
      /\ \A c \in P : pos[c] \in 1 .. n /\ l[pos[c]] = c
      /\ \A i \in 1 .. n : l[i] \in P /\ pos[l[i]] = i
  BY ListIs
<1>2. k \in Nat /\ s \in [1 .. k -> S] /\ \A i, j \in 1 .. k : i # j => s[i] # s[j]
  BY Enumerated
<1>3. DOMAIN s = 1 .. k /\ s \in Seq(S) /\ Len(s) = k
  <2>1. DOMAIN s = 1 .. k
    BY <1>2
  <2>2. s \in Seq(S)
    BY <1>2, SeqDef
  <2>3. Len(s) \in Nat /\ DOMAIN s = 1 .. Len(s)
    BY <2>2
  <2>4. Len(s) = k
    BY <1>2, <2>1, <2>3
  <2> QED BY <2>1, <2>2, <2>4
<1>5. \A e \in S : \E i \in 1 .. k : s[i] = e /\ q[e] = n + i
  BY <1>3 DEF PlacesMore
<1>6. \A e \in P : q[e] = pos[e]
  BY DEF PlacesMore
<1>7. /\ l \in Seq(Q) /\ s \in Seq(Q)
  BY <1>1, <1>3
<1>8. /\ r \in Seq(Q) /\ Len(r) = n + k
      /\ \A i \in 1 .. n : r[i] = l[i]
      /\ \A i \in 1 .. k : r[n + i] = s[i]
  <2>1. r \in Seq(Q) /\ Len(r) = n + k
    BY <1>1, <1>3, <1>7
  <2>2. \A i \in 1 .. n : r[i] = l[i]
    BY <1>1, <1>2, <1>3, <1>7
  <2>3. ASSUME NEW i \in 1 .. k PROVE r[n + i] = s[i]
    <3>1. n + i \in 1 .. Len(l) + Len(s) /\ n + i > Len(l) /\ n + i - Len(l) = i
      BY <1>1, <1>2, <1>3
    <3> QED BY <1>3, <1>7, <3>1
  <2> QED BY <2>1, <2>2, <2>3
<1>9. IsFiniteSet(Q) /\ Cardinality(Q) = n + k
  <2>1. IsFiniteSet(P \cup S) /\ Cardinality(P \cup S) = Cardinality(P) + Cardinality(S) - Cardinality(P \cap S)
    BY <1>1, FS_Union
  <2>2. Cardinality(P \cap S) = 0
    BY FS_EmptySet
  <2> QED BY <1>1, <1>2, <2>1, <2>2
<1>10. \A e \in Q : q[e] \in 1 .. n + k /\ r[q[e]] = e
  <2> SUFFICES ASSUME NEW e \in Q PROVE q[e] \in 1 .. n + k /\ r[q[e]] = e
    OBVIOUS
  <2>1. CASE e \in P
    BY <1>1, <1>2, <1>6, <1>8, <2>1
  <2>2. CASE e \in S
    <3>1. PICK i \in 1 .. k : q[e] = n + i /\ s[i] = e
      BY <1>5, <2>2
    <3> QED BY <1>1, <1>2, <1>8, <3>1
  <2> QED BY <2>1, <2>2
<1>11. \A i \in 1 .. n + k : q[r[i]] = i
  <2> SUFFICES ASSUME NEW i \in 1 .. n + k PROVE q[r[i]] = i
    OBVIOUS
  <2>1. CASE i \in 1 .. n
    BY <1>1, <1>6, <1>8, <2>1
  <2>2. CASE i \notin 1 .. n
    <3>1. PICK j \in 1 .. k : i = n + j
      <4>1. i - n \in 1 .. k /\ i = n + (i - n)
        BY <1>1, <1>2, <2>2
      <4> QED BY <4>1
    <3>2. r[i] = s[j] /\ s[j] \in S
      BY <1>2, <1>8, <3>1
    <3>3. PICK x \in 1 .. k : s[x] = s[j] /\ q[s[j]] = n + x
      BY <1>5, <3>2
    <3>4. x = j
      BY <1>2, <3>3
    <3> QED BY <3>1, <3>2, <3>3, <3>4
  <2> QED BY <2>1, <2>2
<1>12. q = [e \in Q |-> q[e]] /\ DOMAIN q = Q
  <2>1. q = [e \in Q |-> q[e]]
    BY DEF PlacesMore
  <2> QED BY <2>1
<1>13. PlacedIn(r, q, Q)
  BY <1>8, <1>9, <1>10, <1>11, <1>12 DEF PlacedIn
<1> QED BY <1>13

-----------------------------------------------------------------------------
(* Staking. *)

StakeRecord == [amount : Nat, staked_at : Nat, unlock_at : Nat]

\* The list places its members; but for founders who left and stakes written back or not
\* migrated, they are those with a stake; and the total lacks what rollbacks wrote.
StakesInv ==
    /\ stakes \in [DOMAIN stakes -> StakeRecord] /\ IsFiniteSet(DOMAIN stakes)
    /\ captured \in [DOMAIN captured -> StakeRecord] /\ IsFiniteSet(DOMAIN captured)
    /\ PlacedIn(roster, place, DOMAIN place)
    /\ legacy \subseteq Founders
    /\ DOMAIN place \subseteq DOMAIN stakes \cup Founders
    /\ DOMAIN stakes \subseteq DOMAIN place \cup legacy \cup rewritten
    /\ total_staked \in Int /\ written_back \in Int
    /\ total_staked + written_back = stake_sum(stakes)

\* Stakes add up to a number.
LEMMA StakeSumIsInt ==
  ASSUME NEW s, s \in [DOMAIN s -> StakeRecord], IsFiniteSet(DOMAIN s)
  PROVE  stake_sum(s) \in Int
<1>1. \A y \in StakeRecord : y.amount \in Int
  BY DEF StakeRecord
<1>2. PICK f : f = [x \in DOMAIN s |-> s[x].amount]
  OBVIOUS
<1>3. \A x \in DOMAIN s : f[x] \in Int
  BY <1>1, <1>2
<1>4. SumFunctionOnSet(f, DOMAIN s) \in Int
  BY <1>3, SumType
<1> QED BY <1>2, <1>4 DEF stake_sum

\* g sums what f does and also a.
GainsOne(S, f, g, a) ==
    /\ IsFiniteSet(S) /\ a \notin S /\ g[a] \in Int
    /\ \A x \in S : f[x] \in Int /\ g[x] = f[x]

\* The sum grows by the new value.
LEMMA SumGains ==
  ASSUME NEW S, NEW f, NEW g, NEW a, GainsOne(S, f, g, a)
  PROVE  /\ SumFunctionOnSet(g, S \cup {a}) = SumFunctionOnSet(f, S) + g[a]
         /\ SumFunctionOnSet(f, S) \in Int
<1>1. IsFiniteSet(S) /\ a \notin S /\ g[a] \in Int
  BY DEF GainsOne
<1>2. \A x \in S : f[x] \in Int /\ g[x] = f[x]
  BY DEF GainsOne
<1> QED BY <1>1, <1>2, SumAdd

\* t are the stakes s of P and r for m.
PutIn(P, s, m, r, t) ==
    IsFiniteSet(P) /\ s \in [P -> StakeRecord] /\ m \notin P /\ r \in StakeRecord /\ t = put(s, m, r)

\* A stake more.
LEMMA StakedMore ==
  ASSUME NEW P, NEW s, NEW m, NEW r, NEW t, PutIn(P, s, m, r, t), NEW v, v = r.amount,
         NEW Q, Q = P \cup {m}
  PROVE  t \in [Q -> StakeRecord] /\ DOMAIN t = Q /\ stake_sum(t) = stake_sum(s) + v
<1>0. IsFiniteSet(P) /\ s \in [P -> StakeRecord] /\ m \notin P /\ r \in StakeRecord /\ t = put(s, m, r)
  BY DEF PutIn
<1>1. \A y \in StakeRecord : y.amount \in Int
  BY DEF StakeRecord
<1>2. PICK f : f = [x \in P |-> s[x].amount]
  OBVIOUS
<1>3. \A x \in P : f[x] = s[x].amount /\ f[x] \in Int
  BY <1>0, <1>1, <1>2
<1>4. DOMAIN s = P /\ stake_sum(s) = SumFunctionOnSet(f, P)
  BY <1>0, <1>2 DEF stake_sum
<1>5. Q = P \cup {m}
  OBVIOUS
<1>6. t = [x \in Q |-> IF x = m THEN r ELSE s[x]]
  BY <1>0, <1>4, <1>5 DEF put
<1>7. DOMAIN t = Q /\ t \in [Q -> StakeRecord] /\ t[m] = r /\ \A x \in P : t[x] = s[x]
  BY <1>0, <1>5, <1>6
<1>8. PICK g : g = [x \in Q |-> t[x].amount]
  OBVIOUS
<1>9. g[m] = r.amount /\ g[m] \in Int /\ \A x \in P : f[x] \in Int /\ g[x] = f[x]
  BY <1>0, <1>1, <1>3, <1>5, <1>7, <1>8
<1>10. GainsOne(P, f, g, m)
  BY <1>0, <1>9 DEF GainsOne
<1>11. SumFunctionOnSet(g, P \cup {m}) = SumFunctionOnSet(f, P) + g[m]
  BY <1>10, SumGains
<1>12. stake_sum(t) = SumFunctionOnSet(g, Q)
  BY <1>7, <1>8 DEF stake_sum
<1> QED BY <1>4, <1>5, <1>7, <1>9, <1>11, <1>12

\* t are the stakes s of P without that of m.
TakenOut(P, s, m, t) == IsFiniteSet(P) /\ s \in [P -> StakeRecord] /\ m \in P /\ t = del(s, m)

\* A stake less.
LEMMA StakedLess ==
  ASSUME NEW P, NEW s, NEW m, NEW t, TakenOut(P, s, m, t), NEW v, v = s[m].amount, NEW Q, Q = P \ {m}
  PROVE  t \in [Q -> StakeRecord] /\ DOMAIN t = Q /\ stake_sum(t) = stake_sum(s) - v
<1>1. IsFiniteSet(P) /\ s \in [P -> StakeRecord] /\ m \in P /\ t = del(s, m)
  BY DEF TakenOut
<1>2. \A y \in StakeRecord : y.amount \in Int
  BY DEF StakeRecord
<1>3. PICK f : f = [x \in P |-> s[x].amount]
  OBVIOUS
<1>4. \A x \in P : f[x] = s[x].amount /\ f[x] \in Int
  BY <1>1, <1>2, <1>3
<1>5. DOMAIN s = P /\ stake_sum(s) = SumFunctionOnSet(f, P)
  BY <1>1, <1>3 DEF stake_sum
<1>6. Q = P \ {m}
  OBVIOUS
<1>7. t = [x \in Q |-> s[x]]
  BY <1>1, <1>5, <1>6 DEF del
<1>8. DOMAIN t = Q /\ t \in [Q -> StakeRecord] /\ \A x \in Q : t[x] = s[x]
  BY <1>1, <1>6, <1>7
<1>9. PICK g : g = [x \in Q |-> t[x].amount]
  OBVIOUS
<1>10. \A x \in P \ {m} : g[x] = f[x]
  BY <1>1, <1>4, <1>6, <1>8, <1>9
<1>11. LosesOne(P, f, g, m)
  BY <1>1, <1>4, <1>10 DEF LosesOne
<1>12. SumFunctionOnSet(g, P \ {m}) = SumFunctionOnSet(f, P) - f[m]
  BY <1>11, SumLoses
<1>13. stake_sum(t) = SumFunctionOnSet(g, Q)
  BY <1>8, <1>9 DEF stake_sum
<1> QED BY <1>1, <1>4, <1>5, <1>6, <1>8, <1>12, <1>13

\* Nobody is listed, and only founders have a stake.
LEMMA StakesStart == StakingInit => StakesInv
<1> SUFFICES ASSUME StakingInit PROVE StakesInv
  OBVIOUS
<1>1. DOMAIN place = {} /\ place = NothingStored /\ roster = << >> /\ captured = NothingStored
  BY DEF StakingInit, NothingStored
<1>2. legacy \subseteq Founders /\ IsFiniteSet(legacy)
  <2>1. legacy \subseteq Founders /\ IsFiniteSet(Founders)
    BY StakingAssumption DEF StakingInit
  <2> QED BY <2>1, FS_Subset
<1>3. stakes \in [legacy -> StakeRecord] /\ DOMAIN stakes = legacy
  <2>1. PICK a \in StakeAmounts, p \in LockPeriods :
            stakes = [m \in legacy |-> [amount |-> a, staked_at |-> 0, unlock_at |-> p]]
    BY DEF StakingInit
  <2>2. a \in Nat /\ p \in Nat /\ 0 \in Nat
    BY StakingAssumption
  <2>3. [amount |-> a, staked_at |-> 0, unlock_at |-> p] \in StakeRecord
    BY <2>2 DEF StakeRecord
  <2> QED BY <2>1, <2>3
<1>4. place = [d \in {} |-> place[d]]
  BY <1>1 DEF NothingStored
<1>5. PlacedIn(roster, place, {})
  <2>1. IsFiniteSet({}) /\ Cardinality({}) = 0
    BY FS_EmptySet
  <2>2. roster \in Seq({}) /\ Len(roster) = 0
    BY <1>1
  <2>3. \A i \in 1 .. 0 : FALSE
    OBVIOUS
  <2> QED BY <1>1, <1>4, <2>1, <2>2, <2>3 DEF PlacedIn
<1>6. captured \in [DOMAIN captured -> StakeRecord] /\ IsFiniteSet(DOMAIN captured)
  <2>1. DOMAIN captured = {}
    BY <1>1 DEF NothingStored
  <2>2. captured \in [{} -> StakeRecord]
    BY <1>1 DEF NothingStored
  <2> QED BY <2>1, <2>2, FS_EmptySet
<1>7. stake_sum(stakes) \in Int
  BY <1>2, <1>3, StakeSumIsInt
<1>8. total_staked = stake_sum(stakes) /\ written_back = 0
  BY DEF StakingInit
<1> QED BY <1>1, <1>2, <1>3, <1>5, <1>6, <1>7, <1>8 DEF StakesInv

\* Stakes, roster and total agree after a stake is made,
LEMMA StakeKeeps ==
  ASSUME now \in Nat, StakesInv, NEW m \in Stakers, NEW a \in StakeAmounts, NEW p \in LockPeriods,
         stake(m, a, p)
  PROVE  StakesInv'
<1>1. PICK P : P = DOMAIN stakes
  OBVIOUS
<1>2. IsFiniteSet(P) /\ stakes \in [P -> StakeRecord] /\ PlacedIn(roster, place, DOMAIN place)
  BY <1>1 DEF StakesInv
<1>3. PICK r : r = [amount |-> a, staked_at |-> now, unlock_at |-> now + p]
  OBVIOUS
<1>4. r \in StakeRecord /\ r.amount = a /\ a \in Nat
  <2>1. a \in Nat /\ now \in Nat /\ now + p \in Nat
    BY StakingAssumption
  <2> QED BY <1>3, <2>1 DEF StakeRecord
<1>5. /\ m \notin P /\ stakes' = put(stakes, m, r) /\ total_staked' = total_staked + a
      /\ listed(m) /\ UNCHANGED <<legacy, captured, rewritten, written_back>>
  BY <1>1, <1>3 DEF stake, rescue_state
<1>6. /\ stakes' \in [P \cup {m} -> StakeRecord] /\ DOMAIN stakes' = P \cup {m}
      /\ stake_sum(stakes') = stake_sum(stakes) + a
  <2>1. PICK s : s = stakes
    OBVIOUS
  <2>2. PICK t : t = stakes'
    OBVIOUS
  <2>3. PutIn(P, s, m, r, t)
    BY <1>2, <1>4, <1>5, <2>1, <2>2 DEF PutIn
  <2>4. PICK Q : Q = P \cup {m}
    OBVIOUS
  <2>5. t \in [Q -> StakeRecord] /\ DOMAIN t = Q /\ stake_sum(t) = stake_sum(s) + a
    BY <1>4, <2>3, <2>4, StakedMore
  <2> QED BY <2>1, <2>2, <2>4, <2>5
<1>7. PlacedIn(roster', place', DOMAIN place') /\ DOMAIN place' = DOMAIN place \cup {m}
  <2>1. CASE m \notin DOMAIN place
    <3>1. roster' = Append(roster, m) /\ place' = put(place, m, Len(roster) + 1)
      BY <1>5, <2>1 DEF listed
    <3>2. PlacedIn(roster', place', DOMAIN place \cup {m})
      BY <1>2, <2>1, <3>1, ListGrows
    <3> QED BY <3>1, <3>2 DEF put
  <2>2. CASE m \in DOMAIN place
    BY <1>2, <1>5, <2>2 DEF listed
  <2> QED BY <2>1, <2>2
<1>8. IsFiniteSet(P \cup {m})
  BY <1>2, FS_AddElement
<1>9. /\ DOMAIN place' \subseteq DOMAIN stakes' \cup Founders
      /\ DOMAIN stakes' \subseteq DOMAIN place' \cup legacy' \cup rewritten'
  BY <1>1, <1>5, <1>6, <1>7 DEF StakesInv
<1>10. /\ total_staked' \in Int /\ written_back' \in Int
       /\ total_staked' + written_back' = stake_sum(stakes')
  BY <1>4, <1>5, <1>6 DEF StakesInv
<1>11. legacy' \subseteq Founders /\ captured' \in [DOMAIN captured' -> StakeRecord] /\ IsFiniteSet(DOMAIN captured')
  BY <1>5 DEF StakesInv
<1> QED BY <1>6, <1>7, <1>8, <1>9, <1>10, <1>11 DEF StakesInv

\* after one is withdrawn,
LEMMA UnstakeKeeps ==
  ASSUME StakesInv, NEW m \in Stakers, unstake(m)
  PROVE  StakesInv'
<1>1. PICK P : P = DOMAIN stakes
  OBVIOUS
<1>2. IsFiniteSet(P) /\ stakes \in [P -> StakeRecord] /\ PlacedIn(roster, place, DOMAIN place)
  BY <1>1 DEF StakesInv
<1>3. PICK v : v = stakes[m].amount
  OBVIOUS
<1>4. /\ m \in P /\ stakes' = del(stakes, m) /\ total_staked' = total_staked - v
      /\ unlisted(m) /\ UNCHANGED <<legacy, captured, rewritten, written_back>>
  BY <1>1, <1>3 DEF unstake, rescue_state
<1>5. v \in Int
  BY <1>2, <1>3, <1>4 DEF StakeRecord
<1>6. /\ stakes' \in [P \ {m} -> StakeRecord] /\ DOMAIN stakes' = P \ {m}
      /\ stake_sum(stakes') = stake_sum(stakes) - v
  <2>1. PICK s : s = stakes
    OBVIOUS
  <2>2. PICK t : t = stakes'
    OBVIOUS
  <2>3. TakenOut(P, s, m, t)
    BY <1>2, <1>4, <2>1, <2>2 DEF TakenOut
  <2>4. PICK Q : Q = P \ {m}
    OBVIOUS
  <2>5. t \in [Q -> StakeRecord] /\ DOMAIN t = Q /\ stake_sum(t) = stake_sum(s) - v
    BY <1>3, <2>1, <2>3, <2>4, StakedLess
  <2> QED BY <2>1, <2>2, <2>4, <2>5
<1>7. PlacedIn(roster', place', DOMAIN place') /\ DOMAIN place' = DOMAIN place \ {m}
  <2>1. CASE m \in DOMAIN place
    <3>1. PICK r : r = moved_into(roster, place, place[m])
      OBVIOUS
    <3>2. roster' = r.list /\ place' = r.pos
      BY <1>4, <2>1, <3>1 DEF unlisted
    <3>3. PlacedIn(roster', place', DOMAIN place \ {m})
      BY <1>2, <2>1, <3>1, <3>2, ListShrinks
    <3>4. DOMAIN place' = DOMAIN place \ {m}
      BY <3>3 DEF PlacedIn
    <3> QED BY <3>3, <3>4
  <2>2. CASE m \notin DOMAIN place
    BY <1>2, <1>4, <2>2 DEF unlisted
  <2> QED BY <2>1, <2>2
<1>8. IsFiniteSet(P \ {m})
  BY <1>2, FS_Subset
<1>9. /\ DOMAIN place' \subseteq DOMAIN stakes' \cup Founders
      /\ DOMAIN stakes' \subseteq DOMAIN place' \cup legacy' \cup rewritten'
  BY <1>1, <1>4, <1>6, <1>7 DEF StakesInv
<1>10. /\ total_staked' \in Int /\ written_back' \in Int
       /\ total_staked' + written_back' = stake_sum(stakes')
  BY <1>4, <1>5, <1>6 DEF StakesInv
<1>11. legacy' \subseteq Founders /\ captured' \in [DOMAIN captured' -> StakeRecord] /\ IsFiniteSet(DOMAIN captured')
  BY <1>4 DEF StakesInv
<1> QED BY <1>6, <1>7, <1>8, <1>9, <1>10, <1>11 DEF StakesInv

\* after the old list was migrated,
LEMMA MigrationKeeps ==
  ASSUME StakesInv, migrate_stakers
  PROVE  StakesInv'
<1>1. PICK S : S = legacy \ DOMAIN place
  OBVIOUS
<1>2. IsFiniteSet(S) /\ S \cap DOMAIN place = {} /\ DOMAIN place \cup S = DOMAIN place \cup legacy
      /\ legacy \subseteq Founders
  <2>1. S \subseteq Founders /\ IsFiniteSet(Founders)
    BY <1>1, StakingAssumption DEF StakesInv
  <2>2. IsFiniteSet(S)
    BY <2>1, FS_Subset
  <2> QED BY <1>1, <2>2 DEF StakesInv
<1>3. PICK new \in SetToSeqs(S) :
         /\ roster' = roster \o new
         /\ place' = [m \in DOMAIN place \cup legacy |->
                        IF m \in DOMAIN place THEN place[m]
                        ELSE Len(roster) + CHOOSE i \in DOMAIN new : new[i] = m]
  BY <1>1 DEF migrate_stakers
<1>4. PICK q : q = place'
  OBVIOUS
<1>5. PICK n : n = Len(roster)
  OBVIOUS
<1>6. PlacedIn(roster \o new, q, DOMAIN place \cup S)
  <2>1. PICK P : P = DOMAIN place
    OBVIOUS
  <2>2. q = [m \in P \cup S |-> IF m \in P THEN place[m] ELSE n + CHOOSE i \in DOMAIN new : new[i] = m]
    BY <1>2, <1>3, <1>4, <1>5, <2>1
  <2>3. \A e \in S : \E i \in DOMAIN new : new[i] = e
    <3>1. PICK k : k = Cardinality(S)
      OBVIOUS
    <3>2. new \in [1 .. k -> S] /\ \A e \in S : \E i \in 1 .. k : new[i] = e
      BY <1>2, <3>1, Enumerated
    <3> QED BY <3>2
  <2>4. ASSUME NEW e \in S PROVE \E i \in DOMAIN new : new[i] = e /\ q[e] = n + i
    <3>1. PICK i : i = CHOOSE j \in DOMAIN new : new[j] = e
      OBVIOUS
    <3>2. i \in DOMAIN new /\ new[i] = e
      BY <2>3, <3>1
    <3>3. e \notin P
      BY <1>2, <2>1
    <3>4. q[e] = n + i
      BY <2>2, <3>1, <3>3
    <3> QED BY <3>2, <3>4
  <2>5. DOMAIN q = P \cup S /\ q = [e \in P \cup S |-> q[e]] /\ \A e \in P : q[e] = place[e]
    BY <2>2
  <2>6. PlacesMore(q, P, place, S, new, n)
    BY <2>4, <2>5 DEF PlacesMore
  <2>7. PlacedIn(roster, place, P) /\ S \cap P = {}
    BY <1>2, <2>1 DEF StakesInv
  <2>8. PlacedIn(roster \o new, q, P \cup S)
    BY <1>2, <1>5, <2>6, <2>7, ListJoins
  <2> QED BY <2>1, <2>8
<1>7. /\ legacy' = {}
      /\ UNCHANGED <<stakes, total_staked, captured, rewritten, written_back>>
  BY DEF migrate_stakers, rescue_state
<1>8. DOMAIN place' = DOMAIN place \cup legacy
  BY <1>3
<1>9. PlacedIn(roster', place', DOMAIN place')
  BY <1>2, <1>3, <1>4, <1>6, <1>8
<1> QED BY <1>2, <1>7, <1>8, <1>9 DEF StakesInv

\* and after a rollback wrote records back.
LEMMA WritingBackKeeps ==
  ASSUME StakesInv, rollback_to_snapshot
  PROVE  StakesInv'
<1>1. /\ stakes' = [m \in DOMAIN stakes \cup DOMAIN captured |->
                      IF m \in DOMAIN captured THEN captured[m] ELSE stakes[m]]
      /\ rewritten' = rewritten \cup DOMAIN captured
      /\ written_back' = written_back + (stake_sum(stakes') - stake_sum(stakes))
      /\ UNCHANGED <<roster, place, legacy, captured, total_staked>>
  BY DEF rollback_to_snapshot, list_state
<1>2. PICK t : t = stakes'
  OBVIOUS
<1>3. DOMAIN t = DOMAIN stakes \cup DOMAIN captured
  BY <1>1, <1>2
<1>4. t \in [DOMAIN t -> StakeRecord]
  BY <1>1, <1>2 DEF StakesInv
<1>5. IsFiniteSet(DOMAIN t)
  BY <1>3, FS_Union DEF StakesInv
<1>6. stake_sum(t) \in Int /\ stake_sum(stakes) \in Int
  BY <1>4, <1>5, StakeSumIsInt DEF StakesInv
<1>7. total_staked' \in Int /\ written_back' \in Int /\ total_staked' + written_back' = stake_sum(t)
  BY <1>1, <1>2, <1>6 DEF StakesInv
<1>8. /\ DOMAIN place' \subseteq DOMAIN stakes' \cup Founders
      /\ DOMAIN stakes' \subseteq DOMAIN place' \cup legacy' \cup rewritten'
  BY <1>1, <1>2, <1>3 DEF StakesInv
<1> QED BY <1>1, <1>2, <1>4, <1>5, <1>7, <1>8 DEF StakesInv

\* Stakes, roster and total agree after every call of the staking contract.
LEMMA StakesStep ==
  ASSUME now \in Nat, StakesInv, StakingNext
  PROVE  StakesInv'
<1>1. ASSUME UNCHANGED <<stakes, list_state, captured, rewritten, written_back, total_staked>> PROVE StakesInv'
  BY <1>1 DEF StakesInv, list_state
<1>2. CASE snapshot_state
  <2>1. /\ captured' = [m \in legacy \cap DOMAIN stakes |-> stakes[m]]
        /\ UNCHANGED <<stakes, list_state, rewritten, written_back, total_staked>>
    BY <1>2 DEF snapshot_state
  <2>2. captured' \in [DOMAIN captured' -> StakeRecord]
    BY <2>1 DEF StakesInv
  <2>3. IsFiniteSet(DOMAIN captured')
    <3>1. DOMAIN captured' \subseteq DOMAIN stakes
      BY <2>1
    <3> QED BY <3>1, FS_Subset DEF StakesInv
  <2> QED BY <2>1, <2>2, <2>3 DEF StakesInv, list_state
<1>3. ASSUME NEW m \in Stakers, claim_rewards(m) PROVE StakesInv'
  BY <1>1, <1>3 DEF claim_rewards, stake_state, rescue_state
<1>4. ASSUME NEW a \in Revenues, distribute_revenue(a) PROVE StakesInv'
  BY <1>1, <1>4 DEF distribute_revenue, stake_state, rescue_state
<1>5. ASSUME NEW a \in Revenues, NEW id, receive_treasury_distribution(id, a) PROVE StakesInv'
  BY <1>1, <1>5 DEF receive_treasury_distribution, stake_state, rescue_state
<1>6. ASSUME NEW a \in Revenues, NEW i, NEW j, distribute_revenue_batch(a, i, j) PROVE StakesInv'
  BY <1>1, <1>6 DEF distribute_revenue_batch, stake_state, rescue_state
<1>7. CASE StakingTick
  BY <1>1, <1>7 DEF StakingTick, staking_vars, stake_state, rescue_state
<1> QED BY StakeKeeps, UnstakeKeeps, MigrationKeeps, WritingBackKeeps,
           <1>2, <1>3, <1>4, <1>5, <1>6, <1>7 DEF StakingNext

\* The list and the total are those of the stakes.
LEMMA RosterAgrees == StakesInv => RosterIsExact
<1> SUFFICES ASSUME StakesInv PROVE RosterIsExact
  OBVIOUS
<1>1. PICK P : P = DOMAIN place
  OBVIOUS
<1>2. PICK n : n = Len(roster)
  OBVIOUS
<1>3. /\ n = Cardinality(P) /\ DOMAIN roster = 1 .. n
      /\ \A c \in P : place[c] \in 1 .. n /\ roster[place[c]] = c
      /\ \A i \in 1 .. n : roster[i] \in P
  BY <1>1, <1>2, ListIs DEF StakesInv
<1>4. Range(roster) = P
  BY <1>3 DEF Range
<1> QED BY <1>1, <1>2, <1>3, <1>4 DEF StakesInv, RosterIsExact

-----------------------------------------------------------------------------
(* Epochs and their rewards. *)

\* what the epochs s distribute
RewardSum(s) == SumFunctionOnSet([i \in DOMAIN s |-> s[i].reward], DOMAIN s)

\* What was collected in penalties and revenues is in an epoch's reward or in the pool.
EpochsInv ==
    /\ penalty_pool \in Int /\ penalties \in Int /\ revenues \in Int
    /\ \E S : epochs \in Seq(S)
    /\ \A i \in DOMAIN epochs : epochs[i].reward \in Int
    /\ PenaltiesReachEpochs

\* No epoch was closed.
LEMMA EpochsStart == StakingInit => EpochsInv
<1> SUFFICES ASSUME StakingInit PROVE EpochsInv
  OBVIOUS
<1>1. /\ epochs = << >> /\ DOMAIN epochs = {} /\ penalty_pool = 0 /\ penalties = 0 /\ revenues = 0
  BY DEF StakingInit
<1>2. \E S : epochs \in Seq(S)
  <2>1. epochs \in Seq({})
    BY <1>1
  <2> QED BY <2>1
<1>3. SumFunctionOnSet([i \in DOMAIN epochs |-> epochs[i].reward], DOMAIN epochs) = 0
  BY <1>1, SumEmpty
<1> QED BY <1>1, <1>2, <1>3 DEF EpochsInv, PenaltiesReachEpochs

\* An epoch closes with the penalties of the early leavers.
LEMMA EpochCloses ==
  ASSUME EpochsInv, NEW a \in Revenues, close_epoch(a), UNCHANGED penalties
  PROVE  EpochsInv' /\ Len(epochs) \in Nat /\ Len(epochs') = Len(epochs) + 1
<1>1. PICK c : /\ epochs' = Append(epochs, c) /\ c.reward = a + penalty_pool
  BY DEF close_epoch
<1>2. penalty_pool' = 0 /\ revenues' = revenues + a
  BY DEF close_epoch, emptied_pool
<1>3. PICK p : p = a + penalty_pool
  OBVIOUS
<1>4. a \in Int /\ p \in Int /\ penalty_pool \in Int /\ revenues \in Int /\ penalties \in Int
  BY <1>3, StakingAssumption DEF EpochsInv
<1>5. PICK S : epochs \in Seq(S)
  BY DEF EpochsInv
<1>6. PICK T : T = S \cup {c}
  OBVIOUS
<1>7. PICK s : s = epochs
  OBVIOUS
<1>8. PICK t : t = Append(s, c)
  OBVIOUS
<1>9. s \in Seq(T) /\ c \in T
  BY <1>5, <1>6, <1>7
<1>10. PICK n : n = Len(s)
  OBVIOUS
<1>11. /\ t \in Seq(T) /\ n \in Nat /\ Len(t) = n + 1 /\ DOMAIN s = 1 .. n /\ DOMAIN t = 1 .. n + 1
       /\ \A i \in 1 .. n : t[i] = s[i]
       /\ t[n + 1] = c
  BY <1>8, <1>9, <1>10, Appended
<1>12. \A i \in 1 .. n : s[i].reward \in Int
  BY <1>7, <1>11 DEF EpochsInv
<1>13. PICK f : f = [i \in DOMAIN s |-> s[i].reward]
  OBVIOUS
<1>14. PICK g : g = [i \in DOMAIN t |-> t[i].reward]
  OBVIOUS
<1>15. \A i \in 1 .. n : i \in 1 .. n + 1
  BY <1>11
<1>16. n + 1 \in 1 .. n + 1
  BY <1>11
<1>17. \A i \in 1 .. n : f[i] \in Int /\ g[i] = f[i]
  BY <1>11, <1>12, <1>13, <1>14, <1>15
<1>18. g[n + 1] = p /\ g[n + 1] \in Int
  BY <1>1, <1>3, <1>4, <1>11, <1>14, <1>16
<1>19. /\ SumFunctionOnSet(g, 1 .. n + 1) = SumFunctionOnSet(f, 1 .. n) + g[n + 1]
       /\ SumFunctionOnSet(f, 1 .. n) \in Int
  BY <1>11, <1>17, <1>18, SumNext
<1>20. RewardSum(s) = SumFunctionOnSet(f, 1 .. n) /\ RewardSum(t) = SumFunctionOnSet(g, 1 .. n + 1)
  BY <1>11, <1>13, <1>14 DEF RewardSum
<1>21. RewardSum(s) + penalty_pool = revenues + penalties
  BY <1>7 DEF EpochsInv, PenaltiesReachEpochs, RewardSum
<1>22. RewardSum(t) + 0 = (revenues + a) + penalties
  BY <1>3, <1>4, <1>18, <1>19, <1>20, <1>21
<1>23. epochs' = t
  BY <1>1, <1>7, <1>8
<1>24. PenaltiesReachEpochs'
  BY <1>2, <1>22, <1>23 DEF PenaltiesReachEpochs, RewardSum
<1>25. \A i \in 1 .. n + 1 : t[i].reward \in Int
  <2> SUFFICES ASSUME NEW i \in 1 .. n + 1 PROVE t[i].reward \in Int
    OBVIOUS
  <2>1. CASE i = n + 1
    BY <1>1, <1>3, <1>4, <1>11, <2>1
  <2>2. CASE i \in 1 .. n
    BY <1>11, <1>12, <2>2
  <2> QED BY <1>11, <2>1, <2>2
<1>26. \E V : epochs' \in Seq(V)
  BY <1>11, <1>23
<1>27. penalty_pool' \in Int /\ penalties' \in Int /\ revenues' \in Int
  BY <1>2, <1>4
<1> QED BY <1>7, <1>10, <1>11, <1>23, <1>24, <1>25, <1>26, <1>27 DEF EpochsInv

\* The penalty of an early leaver is an amount.
LEMMA PenaltyIsAmount ==
  ASSUME now \in Nat, NEW r \in StakeRecord
  PROVE  penalty_amount(r) \in Int
<1>1. /\ r.amount \in Nat /\ r.staked_at \in Nat /\ r.unlock_at \in Nat /\ MinStaking \in Nat \ {0}
  BY StakingAssumption DEF StakeRecord
<1>2. PICK h : h = now - r.staked_at
  OBVIOUS
<1>3. h \in Int
  BY <1>1, <1>2
<1>4. PICK b : b = IF h >= MinStaking THEN 1000 ELSE 1000 + ((MinStaking - h) * 4000) \div MinStaking
  OBVIOUS
<1>5. b \in Int
  BY <1>1, <1>3, <1>4
<1>6. PICK p : p = r.amount * b
  OBVIOUS
<1>7. p \in Int
  BY <1>1, <1>5, <1>6
<1>8. p \div 10000 \in Int
  BY <1>7
<1>9. penalty_amount(r) = IF now >= r.unlock_at THEN 0 ELSE p \div 10000
  BY <1>2, <1>4, <1>6 DEF penalty_amount
<1> QED BY <1>8, <1>9

\* Every penalty is in the pool or in the reward of an epoch after every call.
LEMMA EpochsStep ==
  ASSUME now \in Nat, StakesInv, EpochsInv, StakingNext
  PROVE  EpochsInv'
<1>1. ASSUME UNCHANGED epoch_state PROVE EpochsInv'
  BY <1>1 DEF EpochsInv, PenaltiesReachEpochs, epoch_state
<1>2. ASSUME NEW m \in Stakers, NEW a \in StakeAmounts, NEW p \in LockPeriods, stake(m, a, p)
      PROVE  EpochsInv'
  BY <1>1, <1>2 DEF stake
<1>3. ASSUME NEW m \in Stakers, unstake(m) PROVE EpochsInv'
  <2>1. PICK x : x = penalty_amount(stakes[m])
    OBVIOUS
  <2>2. x \in Int
    <3>1. stakes[m] \in StakeRecord
      BY <1>3 DEF StakesInv, unstake
    <3> QED BY <2>1, <3>1, PenaltyIsAmount
  <2>3. /\ penalty_pool' = penalty_pool + x /\ penalties' = penalties + x
        /\ UNCHANGED <<epochs, revenues>>
    BY <1>3, <2>1 DEF unstake
  <2>4. RewardSum(epochs) + penalty_pool = revenues + penalties
    BY DEF EpochsInv, PenaltiesReachEpochs, RewardSum
  <2>5. RewardSum(epochs) \in Int
    <3>1. PICK S : epochs \in Seq(S)
      BY DEF EpochsInv
    <3>2. PICK n \in Nat : DOMAIN epochs = 1 .. n
      BY <3>1
    <3>3. PICK f : f = [i \in 1 .. n |-> epochs[i].reward]
      OBVIOUS
    <3>4. \A i \in 1 .. n : f[i] \in Int
      BY <3>2, <3>3 DEF EpochsInv
    <3>5. 1 \in Int /\ n \in Int
      OBVIOUS
    <3>6. IsFiniteSet(1 .. n)
      BY ONLY <3>5, FS_Interval
    <3>7. SumFunctionOnSet(f, 1 .. n) \in Int
      BY <3>4, <3>6, SumType
    <3> QED BY <3>2, <3>3, <3>7 DEF RewardSum
  <2>6. RewardSum(epochs) + (penalty_pool + x) = revenues + (penalties + x)
    <3>1. penalty_pool \in Int /\ penalties \in Int /\ revenues \in Int
      BY DEF EpochsInv
    <3> QED BY <2>2, <2>4, <2>5, <3>1
  <2>7. PenaltiesReachEpochs'
    BY <2>3, <2>6 DEF PenaltiesReachEpochs, RewardSum
  <2> QED BY <2>2, <2>3, <2>7 DEF EpochsInv
<1>4. ASSUME NEW m \in Stakers, claim_rewards(m) PROVE EpochsInv'
  BY <1>1, <1>4 DEF claim_rewards
<1>5. ASSUME NEW a \in Revenues, distribute_revenue(a) PROVE EpochsInv'
  BY <1>5, EpochCloses DEF distribute_revenue
<1>6. ASSUME NEW a \in Revenues, NEW id, receive_treasury_distribution(id, a) PROVE EpochsInv'
  BY <1>6, EpochCloses DEF receive_treasury_distribution
<1>7. ASSUME NEW a \in Revenues, NEW i, NEW j, distribute_revenue_batch(a, i, j) PROVE EpochsInv'
  BY <1>1, <1>7 DEF distribute_revenue_batch
<1>8. CASE StakingTick
  BY <1>1, <1>8 DEF StakingTick, staking_vars
<1>9. CASE migrate_stakers \/ snapshot_state \/ rollback_to_snapshot
  BY <1>1, <1>9 DEF migrate_stakers, snapshot_state, rollback_to_snapshot
<1> QED BY <1>2, <1>3, <1>4, <1>5, <1>6, <1>7, <1>8, <1>9 DEF StakingNext

-----------------------------------------------------------------------------
(* Lockups and their payment. *)

\* settled_before of the staker j, for what is stored and the number of epochs.
Before(e, u, n, j) == Larger(stored(u, j, stored(e, j, n)), stored(e, j, n))

\* The epochs behind a staker are a number, and no fewer than what is stored for it.
LEMMA BeforeBounds ==
  ASSUME NEW e, e \in [DOMAIN e -> Nat], NEW u, u \in [DOMAIN u -> Nat], NEW n \in Nat, NEW j
  PROVE  /\ Before(e, u, n, j) \in Nat
         /\ j \notin DOMAIN e => Before(e, u, n, j) >= n
         /\ j \in DOMAIN e => Before(e, u, n, j) >= e[j]
         /\ j \in DOMAIN u => Before(e, u, n, j) >= u[j]
<1>1. PICK a : a = stored(e, j, n)
  OBVIOUS
<1>2. PICK b : b = stored(u, j, a)
  OBVIOUS
<1>3. a \in Nat /\ (j \notin DOMAIN e => a = n) /\ (j \in DOMAIN e => a = e[j])
  BY <1>1 DEF stored
<1>4. b \in Nat /\ (j \in DOMAIN u => b = u[j])
  BY <1>2, <1>3 DEF stored
<1>5. Before(e, u, n, j) = IF b > a THEN b ELSE a
  BY <1>1, <1>2 DEF Before, Larger
<1> QED BY <1>3, <1>4, <1>5

\* More epochs do not lower it.
LEMMA BeforeGrows ==
  ASSUME NEW e, e \in [DOMAIN e -> Nat], NEW u, u \in [DOMAIN u -> Nat],
         NEW n \in Nat, NEW k \in Nat, n <= k, NEW j
  PROVE  Before(e, u, n, j) <= Before(e, u, k, j)
<1>1. PICK a : a = stored(e, j, n)
  OBVIOUS
<1>2. PICK b : b = stored(u, j, a)
  OBVIOUS
<1>3. PICK c : c = stored(e, j, k)
  OBVIOUS
<1>4. PICK d : d = stored(u, j, c)
  OBVIOUS
<1>5. a \in Nat /\ c \in Nat /\ a <= c
  BY <1>1, <1>3 DEF stored
<1>6. b \in Nat /\ d \in Nat /\ b <= d
  BY <1>2, <1>4, <1>5 DEF stored
<1>7. Before(e, u, n, j) = IF b > a THEN b ELSE a
  BY <1>1, <1>2 DEF Before, Larger
<1>8. Before(e, u, k, j) = IF d > c THEN d ELSE c
  BY <1>3, <1>4 DEF Before, Larger
<1> QED BY <1>5, <1>6, <1>7, <1>8

\* It depends on what is stored for the staker alone.
LEMMA BeforeIsOwn ==
  ASSUME NEW e, NEW u, NEW n, NEW j, NEW d, NEW v,
         j \in DOMAIN d <=> j \in DOMAIN e, j \in DOMAIN e => d[j] = e[j],
         j \in DOMAIN v <=> j \in DOMAIN u, j \in DOMAIN u => v[j] = u[j]
  PROVE  Before(d, v, n, j) = Before(e, u, n, j)
<1>1. stored(d, j, n) = stored(e, j, n)
  BY DEF stored
<1>2. \A a : stored(v, j, a) = stored(u, j, a)
  BY DEF stored
<1> QED BY <1>1, <1>2 DEF Before

\* A lockup opens the lockup period after it was settled.
Sound(l) ==
    /\ l = [scaled |-> l.scaled, claimed |-> l.claimed, unlocks_at |-> l.unlocks_at,
            settled_at |-> l.settled_at]
    /\ l.settled_at \in Nat /\ l.unlocks_at = l.settled_at + RewardLockup

LockupTypes ==
    /\ now \in Nat /\ Len(epochs) \in Nat
    /\ entry_epoch \in [DOMAIN entry_epoch -> Nat]
    /\ settled_until \in [DOMAIN settled_until -> Nat]
    /\ next_claim \in [DOMAIN next_claim -> Nat]

\* The lockup at k is of an epoch that settling its staker has behind it.
IsBehind(k) ==
    /\ k = <<k[1], k[2]>> /\ k[2] \in Nat /\ k[2] < Len(epochs)
    /\ k[2] < Before(entry_epoch, settled_until, Len(epochs), k[1])

\* Every lockup is of an epoch its staker has behind it, and what is paid is one of them, once.
LockupsInv ==
    /\ LockupTypes
    /\ \A k \in DOMAIN lockups : IsBehind(k) /\ Sound(lockups[k])
    /\ DOMAIN payments \subseteq DOMAIN lockups
    /\ RewardPaidOnce

\* No reward is locked.
LEMMA LockupsStart == StakingInit => LockupsInv
<1> SUFFICES ASSUME StakingInit PROVE LockupsInv
  OBVIOUS
<1>1. /\ now = 0 /\ epochs = << >> /\ entry_epoch = NothingStored /\ settled_until = NothingStored
      /\ next_claim = NothingStored /\ lockups = NothingStored /\ payments = NothingStored
  BY DEF StakingInit
<1>2. DOMAIN NothingStored = {} /\ \A T : NothingStored \in [{} -> T]
  BY DEF NothingStored
<1>3. Len(epochs) = 0
  BY <1>1
<1>4. LockupTypes
  BY <1>1, <1>2, <1>3 DEF LockupTypes
<1>5. DOMAIN lockups = {} /\ DOMAIN payments = {}
  BY <1>1, <1>2
<1> QED BY <1>4, <1>5 DEF LockupsInv, RewardPaidOnce

\* What settling creates: lockups of closed epochs that were not settled, of the present.
LEMMA SettlementIsNew ==
  ASSUME LockupTypes, NEW m, NEW s, s = settlement(m), NEW b, b = settled_before(m),
         NEW x, x = settle_end(m)
  PROVE  /\ b = Before(entry_epoch, settled_until, Len(epochs), m) /\ b \in Nat /\ x \in Nat
         /\ \A e \in DOMAIN s : /\ e \in Nat /\ b <= e /\ e < x /\ x <= Len(epochs)
                                /\ Sound(s[e]) /\ s[e].claimed = FALSE
<1>1. b = Before(entry_epoch, settled_until, Len(epochs), m)
  BY DEF settled_before, entry_of, Before
<1>2. PICK n \in Nat : n = Len(epochs)
  BY DEF LockupTypes
<1>3. b \in Nat
  <2>1. PICK e : e = entry_epoch
    OBVIOUS
  <2>2. PICK u : u = settled_until
    OBVIOUS
  <2>3. e \in [DOMAIN e -> Nat] /\ u \in [DOMAIN u -> Nat]
    BY <2>1, <2>2 DEF LockupTypes
  <2>4. Before(e, u, n, m) \in Nat
    BY ONLY <2>3, BeforeBounds, n \in Nat
  <2> QED BY <1>1, <1>2, <2>1, <2>2, <2>4
<1>4. PICK a : a = claimed_before(m)
  OBVIOUS
<1>5. a \in Nat
  <2>1. PICK c : c = entry_of(m)
    OBVIOUS
  <2>2. c \in Nat
    BY <1>2, <2>1 DEF entry_of, stored, LockupTypes
  <2>3. PICK d : d = stored(next_claim, m, c)
    OBVIOUS
  <2>4. d \in Nat
    BY <2>2, <2>3 DEF stored, LockupTypes
  <2>5. a = IF d > c THEN d ELSE c
    BY <1>4, <2>1, <2>3 DEF claimed_before, Larger
  <2> QED BY <2>2, <2>4, <2>5
<1>6. PICK y : y = settle_start(m)
  OBVIOUS
<1>7. y \in Nat /\ b <= y
  <2>1. y = IF a > b THEN a ELSE b
    BY <1>4, <1>6 DEF settle_start, Larger
  <2> QED BY <1>3, <1>5, <2>1
<1>8. x \in Nat /\ (x > y => x <= n)
  <2>1. PICK z : z = y + MaxEpochsPerSettle
    OBVIOUS
  <2>2. z \in Nat
    BY <1>7, <2>1, StakingAssumption
  <2>3. PICK w : w = IF n < z THEN n ELSE z
    OBVIOUS
  <2>4. w \in Nat /\ w <= n
    BY <1>2, <2>2, <2>3
  <2>5. x = IF y > w THEN y ELSE w
    BY <1>2, <1>6, <2>1, <2>3 DEF settle_end, Larger, Smaller
  <2> QED BY <1>2, <1>7, <2>4, <2>5
<1>9. PICK bps : bps = IF m \in DOMAIN stakes THEN multiplier_bps(now - stakes[m].staked_at) ELSE 10000
  OBVIOUS
<1>10. PICK E : E = {e \in y .. x - 1 : base_share(m, e) > 0 /\ bps > 0}
  OBVIOUS
<1>11. s = [e \in E |-> [scaled |-> (base_share(m, e) * bps) \div 10000, claimed |-> FALSE,
                         unlocks_at |-> now + RewardLockup, settled_at |-> now]]
  BY <1>6, <1>9, <1>10 DEF settlement
<1>12. DOMAIN s = E
  BY <1>11
<1>13. \A e \in E : e \in Nat /\ b <= e /\ e < x /\ x <= n
  <2>1. \A e \in E : e \in y .. x - 1
    BY <1>10
  <2> QED BY <1>2, <1>3, <1>7, <1>8, <2>1
<1>14. ASSUME NEW e \in E PROVE Sound(s[e]) /\ s[e].claimed = FALSE
  <2>1. PICK v : v = (base_share(m, e) * bps) \div 10000
    OBVIOUS
  <2>2. s[e] = [scaled |-> v, claimed |-> FALSE, unlocks_at |-> now + RewardLockup, settled_at |-> now]
    BY <1>11, <1>14, <2>1
  <2>3. now \in Nat
    BY DEF LockupTypes
  <2> QED BY <2>2, <2>3 DEF Sound
<1> QED BY <1>1, <1>2, <1>3, <1>8, <1>12, <1>13, <1>14

\* ls are the lockups with those of m from the epoch b to before the epoch x.
SettledSo(ls, m, b, x) ==
    /\ DOMAIN lockups \subseteq DOMAIN ls
    /\ \A k \in DOMAIN lockups : ls[k] = lockups[k]
    /\ \A k \in DOMAIN ls \ DOMAIN lockups :
         /\ k = <<k[1], k[2]>> /\ k[1] = m /\ k[2] \in Nat
         /\ b <= k[2] /\ k[2] < x /\ x <= Len(epochs)
         /\ Sound(ls[k]) /\ ls[k].claimed = FALSE

\* The lockups after settling: those that were there, as they were, and the new ones.
LEMMA SettledAre ==
  ASSUME LockupsInv, NEW m, NEW ls, ls = settled_lockups(m), NEW b, b = settled_before(m),
         NEW x, x = settle_end(m)
  PROVE  SettledSo(ls, m, b, x)
<1>1. PICK s : s = settlement(m)
  OBVIOUS
<1>2. LockupTypes
  BY DEF LockupsInv
<1>3. /\ b = Before(entry_epoch, settled_until, Len(epochs), m) /\ b \in Nat /\ x \in Nat
      /\ \A e \in DOMAIN s : /\ e \in Nat /\ b <= e /\ e < x /\ x <= Len(epochs)
                             /\ Sound(s[e]) /\ s[e].claimed = FALSE
  BY <1>1, <1>2, SettlementIsNew
<1>4. PICK N : N = {<<m, e>> : e \in DOMAIN s}
  OBVIOUS
<1>5. PICK D : D = DOMAIN lockups
  OBVIOUS
<1>6. ls = [k \in D \cup N |-> IF k \in N THEN s[k[2]] ELSE lockups[k]]
  BY <1>1, <1>4, <1>5 DEF settled_lockups
<1>7. DOMAIN ls = D \cup N /\ ls = [k \in DOMAIN ls |-> ls[k]]
  BY <1>6
<1>8. \A k \in N : k = <<k[1], k[2]>> /\ k[1] = m /\ k[2] \in DOMAIN s
  BY <1>4
<1>9. \A k \in D : k \notin N
  <2> SUFFICES ASSUME NEW k \in D, k \in N PROVE FALSE
    OBVIOUS
  <2>1. k[1] = m /\ k[2] \in Nat /\ b <= k[2]
    BY <1>3, <1>8
  <2>2. k[2] < Before(entry_epoch, settled_until, Len(epochs), k[1])
    BY <1>5 DEF LockupsInv, IsBehind
  <2> QED BY <1>3, <2>1, <2>2
<1>10. \A k \in D : ls[k] = lockups[k]
  BY <1>6, <1>9
<1>11. \A k \in N : ls[k] = s[k[2]]
  BY <1>6
<1>12. \A k \in DOMAIN ls \ D : k \in N
  BY <1>7
<1> QED BY <1>3, <1>5, <1>7, <1>8, <1>10, <1>11, <1>12 DEF SettledSo

\* Whatever else a call does, once m is settled every lockup is of an epoch behind its staker.
LEMMA SettlingKeeps ==
  ASSUME LockupsInv, NEW m, NEW ls, ls = settled_lockups(m), UNCHANGED <<now, epochs>>,
         settled_until' = IF settle_end(m) > settled_before(m) THEN put(settled_until, m, settle_end(m))
                          ELSE settled_until,
         entry_epoch' = entry_epoch \/ entry_epoch' = del(entry_epoch, m),
         next_claim' = next_claim \/ next_claim' = del(next_claim, m)
           \/ next_claim' = put(next_claim, m, settle_end(m))
  PROVE  LockupTypes' /\ \A k \in DOMAIN ls : IsBehind(k)' /\ Sound(ls[k])
<1>1. PICK b : b = settled_before(m)
  OBVIOUS
<1>2. PICK x : x = settle_end(m)
  OBVIOUS
<1>3. LockupTypes
  BY DEF LockupsInv
<1>4. PICK n : n = Len(epochs)
  OBVIOUS
<1>5. n \in Nat /\ Len(epochs') = n
  BY <1>3, <1>4 DEF LockupTypes
<1>6. b = Before(entry_epoch, settled_until, n, m) /\ b \in Nat /\ x \in Nat
  <2>1. PICK s : s = settlement(m)
    OBVIOUS
  <2> QED BY <1>1, <1>2, <1>3, <1>4, <2>1, SettlementIsNew
<1>7. /\ DOMAIN lockups \subseteq DOMAIN ls
      /\ \A k \in DOMAIN lockups : ls[k] = lockups[k]
      /\ \A k \in DOMAIN ls \ DOMAIN lockups :
           /\ k = <<k[1], k[2]>> /\ k[1] = m /\ k[2] \in Nat
           /\ b <= k[2] /\ k[2] < x /\ x <= n
           /\ Sound(ls[k]) /\ ls[k].claimed = FALSE
  <2>1. SettledSo(ls, m, b, x)
    BY <1>1, <1>2, SettledAre
  <2> QED BY <1>4, <2>1 DEF SettledSo
<1>8. PICK e : e = entry_epoch
  OBVIOUS
<1>9. PICK u : u = settled_until
  OBVIOUS
<1>10. PICK d : d = entry_epoch'
  OBVIOUS
<1>11. PICK v : v = settled_until'
  OBVIOUS
<1>12. e \in [DOMAIN e -> Nat] /\ u \in [DOMAIN u -> Nat]
  BY <1>3, <1>8, <1>9 DEF LockupTypes
<1>13. v \in [DOMAIN v -> Nat]
  <2>1. CASE x > b
    <3>1. v = [j \in DOMAIN u \cup {m} |-> IF j = m THEN x ELSE u[j]]
      BY <1>1, <1>2, <1>9, <1>11, <2>1 DEF put
    <3> QED BY <1>6, <1>12, <3>1
  <2>2. CASE ~(x > b)
    BY <1>1, <1>2, <1>9, <1>11, <1>12, <2>2
  <2> QED BY <2>1, <2>2
<1>14. d \in [DOMAIN d -> Nat] /\ (d = e \/ m \notin DOMAIN d)
  <2>1. CASE entry_epoch' = entry_epoch
    BY <1>8, <1>10, <1>12, <2>1
  <2>2. CASE entry_epoch' = del(entry_epoch, m)
    <3>1. d = [j \in DOMAIN e \ {m} |-> e[j]]
      BY <1>8, <1>10, <2>2 DEF del
    <3> QED BY <1>12, <3>1
  <2> QED BY <2>1, <2>2
<1>15. next_claim' \in [DOMAIN next_claim' -> Nat]
  <2>1. next_claim \in [DOMAIN next_claim -> Nat]
    BY <1>3 DEF LockupTypes
  <2>2. CASE next_claim' = del(next_claim, m)
    <3>1. next_claim' = [j \in DOMAIN next_claim \ {m} |-> next_claim[j]]
      BY <2>2 DEF del
    <3> QED BY <2>1, <3>1
  <2>3. CASE next_claim' = put(next_claim, m, settle_end(m))
    <3>1. next_claim' = [j \in DOMAIN next_claim \cup {m} |-> IF j = m THEN x ELSE next_claim[j]]
      BY <1>2, <2>3 DEF put
    <3> QED BY <1>6, <2>1, <3>1
  <2> QED BY <2>1, <2>2, <2>3
<1>16. LockupTypes'
  BY <1>3, <1>5, <1>10, <1>11, <1>13, <1>14, <1>15 DEF LockupTypes
<1>17. ASSUME NEW j, j # m PROVE Before(d, v, n, j) = Before(e, u, n, j)
  <2>1. (j \in DOMAIN d <=> j \in DOMAIN e) /\ (j \in DOMAIN e => d[j] = e[j])
    <3>1. CASE entry_epoch' = entry_epoch
      BY <1>8, <1>10, <3>1
    <3>2. CASE entry_epoch' = del(entry_epoch, m)
      <4>1. d = [i \in DOMAIN e \ {m} |-> e[i]]
        BY <1>8, <1>10, <3>2 DEF del
      <4> QED BY <1>17, <4>1
    <3> QED BY <3>1, <3>2
  <2>2. (j \in DOMAIN v <=> j \in DOMAIN u) /\ (j \in DOMAIN u => v[j] = u[j])
    <3>1. CASE x > b
      <4>1. v = [i \in DOMAIN u \cup {m} |-> IF i = m THEN x ELSE u[i]]
        BY <1>1, <1>2, <1>9, <1>11, <3>1 DEF put
      <4> QED BY <1>17, <4>1
    <3>2. CASE ~(x > b)
      BY <1>1, <1>2, <1>9, <1>11, <3>2
    <3> QED BY <3>1, <3>2
  <2> QED BY <2>1, <2>2, BeforeIsOwn
<1>18. ASSUME NEW j \in Nat, j < n, j < b \/ j < x PROVE j < Before(d, v, n, m)
  <2>1. /\ Before(d, v, n, m) \in Nat
        /\ m \notin DOMAIN d => Before(d, v, n, m) >= n
        /\ m \in DOMAIN v => Before(d, v, n, m) >= v[m]
    BY <1>5, <1>13, <1>14, BeforeBounds
  <2>2. CASE m \notin DOMAIN d
    BY <1>5, <1>18, <2>1, <2>2
  <2>3. CASE d = e /\ x > b
    <3>1. v = [i \in DOMAIN u \cup {m} |-> IF i = m THEN x ELSE u[i]]
      BY <1>1, <1>2, <1>9, <1>11, <2>3 DEF put
    <3>2. m \in DOMAIN v /\ v[m] = x
      BY <3>1
    <3> QED BY <1>6, <1>18, <2>1, <2>3, <3>2
  <2>4. CASE d = e /\ ~(x > b)
    <3>1. v = u
      BY <1>1, <1>2, <1>9, <1>11, <2>4
    <3>2. Before(d, v, n, m) = b
      BY <1>6, <1>8, <1>9, <2>4, <3>1
    <3> QED BY <1>6, <1>18, <2>4, <3>2
  <2> QED BY <1>14, <2>2, <2>3, <2>4
<1>19. ASSUME NEW k \in DOMAIN ls PROVE IsBehind(k)' /\ Sound(ls[k])
  <2>1. CASE k \in DOMAIN lockups
    <3>1. /\ k = <<k[1], k[2]>> /\ k[2] \in Nat /\ k[2] < n
          /\ k[2] < Before(e, u, n, k[1]) /\ Sound(ls[k])
      BY <1>4, <1>7, <1>8, <1>9, <2>1 DEF LockupsInv, IsBehind
    <3>2. k[2] < Before(d, v, n, k[1])
      <4>1. CASE k[1] = m
        BY <1>6, <1>8, <1>9, <1>18, <3>1, <4>1
      <4>2. CASE k[1] # m
        BY <1>17, <3>1, <4>2
      <4> QED BY <4>1, <4>2
    <3> QED BY <1>5, <1>10, <1>11, <3>1, <3>2 DEF IsBehind
  <2>2. CASE k \notin DOMAIN lockups
    <3>1. /\ k = <<k[1], k[2]>> /\ k[1] = m /\ k[2] \in Nat
          /\ k[2] < x /\ x <= n /\ Sound(ls[k])
      BY <1>7, <2>2
    <3>2. k[2] < n
      BY <1>5, <1>6, <3>1
    <3>3. k[2] < Before(d, v, n, k[1])
      BY <1>18, <3>1, <3>2
    <3> QED BY <1>5, <1>10, <1>11, <3>1, <3>2, <3>3 DEF IsBehind
  <2> QED BY <2>1, <2>2
<1> QED BY <1>16, <1>19

\* Nothing is settled by the others: time, epochs and stakes go on.
LEMMA LockupsWait ==
  ASSUME LockupsInv, now' \in Nat, Len(epochs') \in Nat, Len(epochs) <= Len(epochs'),
         UNCHANGED <<settled_until, lockups, payments>>,
         \/ UNCHANGED <<entry_epoch, next_claim>>
         \/ \E m : /\ m \notin DOMAIN entry_epoch
                   /\ entry_epoch' = put(entry_epoch, m, Len(epochs) + 1)
                   /\ next_claim' = put(next_claim, m, Len(epochs) + 1)
  PROVE  LockupsInv'
<1>1. PICK n \in Nat : n = Len(epochs)
  BY DEF LockupsInv, LockupTypes
<1>2. PICK k \in Nat : k = Len(epochs')
  OBVIOUS
<1>3. PICK e : e = entry_epoch
  OBVIOUS
<1>4. PICK d : d = entry_epoch'
  OBVIOUS
<1>5. PICK u : u = settled_until
  OBVIOUS
<1>6. e \in [DOMAIN e -> Nat] /\ u \in [DOMAIN u -> Nat] /\ next_claim \in [DOMAIN next_claim -> Nat]
  BY <1>3, <1>5 DEF LockupsInv, LockupTypes
<1>7. /\ d \in [DOMAIN d -> Nat] /\ next_claim' \in [DOMAIN next_claim' -> Nat]
      /\ \A j : Before(e, u, n, j) <= Before(d, u, k, j) \/ Before(d, u, k, j) > n
  <2>1. CASE UNCHANGED <<entry_epoch, next_claim>>
    <3>1. d = e
      BY <1>3, <1>4, <2>1
    <3>2. \A j : Before(e, u, n, j) <= Before(e, u, k, j)
      BY <1>1, <1>2, <1>6, BeforeGrows
    <3> QED BY <1>6, <2>1, <3>1, <3>2
  <2>2. ASSUME NEW m, m \notin DOMAIN entry_epoch,
               entry_epoch' = put(entry_epoch, m, Len(epochs) + 1),
               next_claim' = put(next_claim, m, Len(epochs) + 1)
        PROVE  /\ d \in [DOMAIN d -> Nat] /\ next_claim' \in [DOMAIN next_claim' -> Nat]
               /\ \A j : Before(e, u, n, j) <= Before(d, u, k, j) \/ Before(d, u, k, j) > n
    <3>1. n + 1 \in Nat
      OBVIOUS
    <3>2. d = [i \in DOMAIN e \cup {m} |-> IF i = m THEN n + 1 ELSE e[i]]
      BY <1>1, <1>3, <1>4, <2>2 DEF put
    <3>3. next_claim' = [i \in DOMAIN next_claim \cup {m} |-> IF i = m THEN n + 1 ELSE next_claim[i]]
      BY <1>1, <2>2 DEF put
    <3>4. d \in [DOMAIN d -> Nat] /\ next_claim' \in [DOMAIN next_claim' -> Nat]
      BY <1>6, <3>1, <3>2, <3>3
    <3>5. ASSUME NEW j PROVE Before(e, u, n, j) <= Before(d, u, k, j) \/ Before(d, u, k, j) > n
      <4>1. CASE j = m
        <5>1. j \in DOMAIN d /\ d[j] = n + 1
          BY <3>2, <4>1
        <5>2. Before(d, u, k, j) >= d[j] /\ Before(d, u, k, j) \in Nat
          BY <1>2, <1>6, <3>4, <5>1, BeforeBounds
        <5> QED BY <5>1, <5>2
      <4>2. CASE j # m
        <5>1. (j \in DOMAIN d <=> j \in DOMAIN e) /\ (j \in DOMAIN e => d[j] = e[j])
          BY <3>2, <4>2
        <5>2. Before(d, u, k, j) = Before(e, u, k, j)
          BY <5>1, BeforeIsOwn
        <5> QED BY <1>1, <1>2, <1>6, <5>2, BeforeGrows
      <4> QED BY <4>1, <4>2
    <3> QED BY <3>4, <3>5
  <2> QED BY <2>1, <2>2
<1>8. LockupTypes'
  BY <1>4, <1>5, <1>6, <1>7 DEF LockupTypes
<1>9. ASSUME NEW q \in DOMAIN lockups PROVE IsBehind(q)' /\ Sound(lockups[q])
  <2>1. /\ q = <<q[1], q[2]>> /\ q[2] \in Nat /\ q[2] < n
        /\ q[2] < Before(e, u, n, q[1]) /\ Sound(lockups[q])
    BY <1>1, <1>3, <1>5 DEF LockupsInv, IsBehind
  <2>2. q[2] < k
    BY <1>1, <1>2, <2>1
  <2>3. Before(e, u, n, q[1]) \in Nat /\ Before(d, u, k, q[1]) \in Nat
    BY <1>6, <1>7, BeforeBounds
  <2>4. q[2] < Before(d, u, k, q[1])
    BY <1>7, <2>1, <2>3
  <2> QED BY <1>2, <1>4, <1>5, <2>1, <2>2, <2>4 DEF IsBehind
<1> QED BY <1>8, <1>9 DEF LockupsInv, RewardPaidOnce

\* A claim pays what is unlocked and was not paid.
LEMMA ClaimPaysOnce ==
  ASSUME LockupsInv, NEW m \in Stakers, claim_rewards(m)
  PROVE  LockupsInv'
<1>1. PICK ls : ls = settled_lockups(m)
  OBVIOUS
<1>2. PICK paid : paid = {k \in looked_at(m, ls) : claimable(ls[k])}
  OBVIOUS
<1>3. /\ lockups' = [k \in DOMAIN ls |-> IF k \in paid THEN [ls[k] EXCEPT !.claimed = TRUE] ELSE ls[k]]
      /\ payments' = [k \in DOMAIN payments \cup paid |->
             [times |-> stored(payments, k, [times |-> 0]).times + (IF k \in paid THEN 1 ELSE 0),
              last  |-> IF k \in paid THEN now ELSE payments[k].last]]
  BY <1>1, <1>2 DEF claim_rewards
<1>4. LockupTypes' /\ \A k \in DOMAIN ls : IsBehind(k)' /\ Sound(ls[k])
  <2>1. /\ UNCHANGED <<now, epochs>>
        /\ settled_until' = IF settle_end(m) > settled_before(m) THEN put(settled_until, m, settle_end(m))
                            ELSE settled_until
        /\ entry_epoch' = entry_epoch
        /\ next_claim' = next_claim \/ next_claim' = put(next_claim, m, settle_end(m))
    BY DEF claim_rewards, settle_epoch_rewards, stake_state, epoch_state
  <2> QED BY <1>1, <2>1, SettlingKeeps
<1>5. /\ DOMAIN lockups \subseteq DOMAIN ls
      /\ \A k \in DOMAIN lockups : ls[k] = lockups[k]
  <2>1. PICK b : b = settled_before(m)
    OBVIOUS
  <2>2. PICK x : x = settle_end(m)
    OBVIOUS
  <2>3. SettledSo(ls, m, b, x)
    BY <1>1, <2>1, <2>2, SettledAre
  <2> QED BY <2>3 DEF SettledSo
<1>6. \A k \in paid : k \in DOMAIN ls /\ ~ls[k].claimed /\ ls[k].unlocks_at <= now
  BY <1>2 DEF looked_at, claimable
<1>7. \A k \in DOMAIN payments : /\ k \in DOMAIN ls /\ k \notin paid /\ ls[k].claimed
                                 /\ payments[k].times = 1 /\ payments[k].last >= ls[k].settled_at + RewardLockup
  BY <1>5, <1>6 DEF LockupsInv, RewardPaidOnce
<1>8. DOMAIN lockups' = DOMAIN ls /\ DOMAIN payments' = DOMAIN payments \cup paid
  BY <1>3
<1>9. ASSUME NEW k \in DOMAIN ls
      PROVE  /\ Sound(lockups'[k]) /\ lockups'[k].settled_at = ls[k].settled_at
             /\ k \in paid => lockups'[k].claimed = TRUE
             /\ k \notin paid => lockups'[k] = ls[k]
  <2>1. CASE k \notin paid
    BY <1>3, <1>4, <2>1
  <2>2. CASE k \in paid
    <3>1. PICK l : l = ls[k]
      OBVIOUS
    <3>2. l = [scaled |-> l.scaled, claimed |-> l.claimed, unlocks_at |-> l.unlocks_at,
               settled_at |-> l.settled_at]
          /\ l.settled_at \in Nat /\ l.unlocks_at = l.settled_at + RewardLockup
      BY <1>4, <3>1 DEF Sound
    <3>3. PICK c : c = [l EXCEPT !.claimed = TRUE]
      OBVIOUS
    <3>4. c = [scaled |-> l.scaled, claimed |-> TRUE, unlocks_at |-> l.unlocks_at,
               settled_at |-> l.settled_at]
      BY <3>2, <3>3
    <3>5. lockups'[k] = c
      BY <1>3, <1>9, <2>2, <3>1, <3>3
    <3>6. c.settled_at = l.settled_at /\ c.claimed = TRUE /\ c.unlocks_at = l.unlocks_at /\ c.scaled = l.scaled
      BY <3>4
    <3>7. Sound(c)
      BY <3>2, <3>4, <3>6 DEF Sound
    <3> QED BY <2>2, <3>1, <3>5, <3>6, <3>7
  <2> QED BY <2>1, <2>2
<1>10. ASSUME NEW k \in DOMAIN payments'
       PROVE  /\ payments'[k].times = 1 /\ lockups'[k].claimed
              /\ payments'[k].last >= lockups'[k].settled_at + RewardLockup
  <2>1. payments'[k] = [times |-> stored(payments, k, [times |-> 0]).times + (IF k \in paid THEN 1 ELSE 0),
                        last  |-> IF k \in paid THEN now ELSE payments[k].last]
    BY <1>3, <1>8
  <2>2. CASE k \in DOMAIN payments
    <3>1. stored(payments, k, [times |-> 0]) = payments[k] /\ k \notin paid
      BY <1>7, <2>2 DEF stored
    <3>2. payments'[k].times = 1 /\ payments'[k].last = payments[k].last
      BY <1>7, <2>1, <2>2, <3>1
    <3> QED BY <1>7, <1>9, <2>2, <3>1, <3>2
  <2>3. CASE k \notin DOMAIN payments
    <3>1. k \in paid /\ k \in DOMAIN ls
      BY <1>6, <1>8, <2>3
    <3>2. stored(payments, k, [times |-> 0]) = [times |-> 0]
      BY <2>3 DEF stored
    <3>3. payments'[k].times = 1 /\ payments'[k].last = now
      BY <2>1, <3>1, <3>2
    <3>4. ls[k].unlocks_at = ls[k].settled_at + RewardLockup /\ ls[k].unlocks_at <= now
      BY <1>4, <1>6, <3>1 DEF Sound
    <3> QED BY <1>9, <3>1, <3>3, <3>4
  <2> QED BY <2>2, <2>3
<1>11. DOMAIN payments' \subseteq DOMAIN lockups'
  BY <1>6, <1>7, <1>8
<1> QED BY <1>4, <1>8, <1>9, <1>10, <1>11 DEF LockupsInv, RewardPaidOnce

\* Every call of the staking contract keeps the lockups' invariant.
LEMMA LockupsStep ==
  ASSUME LockupsInv, EpochsInv, StakingNext,
         DOMAIN entry_epoch \subseteq DOMAIN stakes
  PROVE  LockupsInv' /\ DOMAIN entry_epoch' \subseteq DOMAIN stakes'
<1>1. now \in Nat /\ Len(epochs) \in Nat
  BY DEF LockupsInv, LockupTypes
<1>2. ASSUME NEW m \in Stakers, NEW a \in StakeAmounts, NEW p \in LockPeriods, stake(m, a, p)
      PROVE  LockupsInv' /\ DOMAIN entry_epoch' \subseteq DOMAIN stakes'
  <2>1. /\ m \notin DOMAIN entry_epoch /\ entry_epoch' = put(entry_epoch, m, Len(epochs) + 1)
        /\ next_claim' = put(next_claim, m, Len(epochs) + 1)
        /\ UNCHANGED <<now, epochs, settled_until, lockups, payments>>
        /\ DOMAIN stakes' = DOMAIN stakes \cup {m}
    BY <1>2 DEF stake, epoch_state, put
  <2>2. DOMAIN entry_epoch' = DOMAIN entry_epoch \cup {m}
    BY <2>1 DEF put
  <2>3. LockupsInv'
    BY <1>1, <2>1, LockupsWait
  <2> QED BY <2>1, <2>2, <2>3
<1>3. ASSUME NEW m \in Stakers, unstake(m)
      PROVE  LockupsInv' /\ DOMAIN entry_epoch' \subseteq DOMAIN stakes'
  <2>1. PICK ls : ls = settled_lockups(m)
    OBVIOUS
  <2>2. /\ UNCHANGED <<now, epochs, payments>> /\ lockups' = ls
        /\ settled_until' = IF settle_end(m) > settled_before(m) THEN put(settled_until, m, settle_end(m))
                            ELSE settled_until
        /\ entry_epoch' = del(entry_epoch, m) /\ next_claim' = del(next_claim, m)
        /\ stakes' = del(stakes, m)
    BY <1>3, <2>1 DEF unstake, settle_epoch_rewards
  <2>3. LockupTypes' /\ \A k \in DOMAIN ls : IsBehind(k)' /\ Sound(ls[k])
    BY <2>1, <2>2, SettlingKeeps
  <2>4. /\ DOMAIN lockups \subseteq DOMAIN ls
        /\ \A k \in DOMAIN lockups : ls[k] = lockups[k]
    <3>1. PICK b : b = settled_before(m)
      OBVIOUS
    <3>2. PICK x : x = settle_end(m)
      OBVIOUS
    <3>3. SettledSo(ls, m, b, x)
      BY <2>1, <3>1, <3>2, SettledAre
    <3> QED BY <3>3 DEF SettledSo
  <2>5. DOMAIN payments' \subseteq DOMAIN lockups' /\ RewardPaidOnce'
    BY <2>2, <2>4 DEF LockupsInv, RewardPaidOnce
  <2>6. DOMAIN entry_epoch' \subseteq DOMAIN stakes'
    BY <2>2 DEF del
  <2> QED BY <2>2, <2>3, <2>5, <2>6 DEF LockupsInv
<1>4. ASSUME NEW m \in Stakers, claim_rewards(m)
      PROVE  LockupsInv' /\ DOMAIN entry_epoch' \subseteq DOMAIN stakes'
  <2>1. UNCHANGED <<entry_epoch, stakes>>
    BY <1>4 DEF claim_rewards, stake_state
  <2> QED BY <1>4, <2>1, ClaimPaysOnce
<1>5. ASSUME now' \in Nat, Len(epochs') \in Nat, Len(epochs) <= Len(epochs'),
             UNCHANGED <<stakes, entry_epoch, next_claim, settled_until, lockups, payments>>
      PROVE  LockupsInv' /\ DOMAIN entry_epoch' \subseteq DOMAIN stakes'
  <2>1. LockupsInv'
    BY <1>5, LockupsWait
  <2> QED BY <1>5, <2>1
<1>6. ASSUME NEW a \in Revenues, distribute_revenue(a)
      PROVE  LockupsInv' /\ DOMAIN entry_epoch' \subseteq DOMAIN stakes'
  <2>1. /\ close_epoch(a) /\ UNCHANGED penalties /\ now' = now
        /\ UNCHANGED <<stakes, entry_epoch, next_claim, settled_until, lockups, payments>>
    BY <1>6 DEF distribute_revenue, stake_state, reward_state
  <2>2. Len(epochs') = Len(epochs) + 1
    BY <2>1, EpochCloses
  <2>3. Len(epochs') \in Nat /\ Len(epochs) <= Len(epochs')
    BY <1>1, <2>2
  <2> QED BY <1>1, <1>5, <2>1, <2>3
<1>7. ASSUME NEW a \in Revenues, NEW id, receive_treasury_distribution(id, a)
      PROVE  LockupsInv' /\ DOMAIN entry_epoch' \subseteq DOMAIN stakes'
  <2>1. /\ close_epoch(a) /\ UNCHANGED penalties /\ now' = now
        /\ UNCHANGED <<stakes, entry_epoch, next_claim, settled_until, lockups, payments>>
    BY <1>7 DEF receive_treasury_distribution, stake_state, reward_state
  <2>2. Len(epochs') = Len(epochs) + 1
    BY <2>1, EpochCloses
  <2>3. Len(epochs') \in Nat /\ Len(epochs) <= Len(epochs')
    BY <1>1, <2>2
  <2> QED BY <1>1, <1>5, <2>1, <2>3
<1>8. ASSUME NEW a \in Revenues, NEW i, NEW j, distribute_revenue_batch(a, i, j)
      PROVE  LockupsInv' /\ DOMAIN entry_epoch' \subseteq DOMAIN stakes'
  <2>1. /\ UNCHANGED <<now, epochs, stakes, entry_epoch, next_claim, settled_until, lockups, payments>>
    BY <1>8 DEF distribute_revenue_batch, stake_state, epoch_state
  <2> QED BY <1>1, <1>5, <2>1
<1>9. CASE StakingTick
  <2>1. /\ now' = now + 1
        /\ UNCHANGED <<epochs, stakes, entry_epoch, next_claim, settled_until, lockups, payments>>
    BY <1>9 DEF StakingTick, CloseLedger, staking_vars, stake_state, epoch_state, reward_state
  <2> QED BY <1>1, <1>5, <2>1
<1>10. CASE migrate_stakers \/ snapshot_state \/ rollback_to_snapshot
  <2>1. /\ UNCHANGED <<now, epochs, entry_epoch, next_claim, settled_until, lockups, payments>>
        /\ DOMAIN stakes \subseteq DOMAIN stakes'
    BY <1>10 DEF migrate_stakers, snapshot_state, rollback_to_snapshot, epoch_state, reward_state
  <2>2. LockupsInv'
    BY <1>1, <2>1, LockupsWait
  <2> QED BY <2>1, <2>2
<1> QED BY <1>2, <1>3, <1>4, <1>6, <1>7, <1>8, <1>9, <1>10 DEF StakingNext

-----------------------------------------------------------------------------
(* Staking as a whole. *)

\* Those with an entry epoch have a stake, and each part of staking keeps its own invariant.
StakingInv == StakesInv /\ EpochsInv /\ LockupsInv /\ DOMAIN entry_epoch \subseteq DOMAIN stakes

\* The invariant of staking holds at first,
LEMMA StakingStarts == StakingInit => StakingInv
<1> SUFFICES ASSUME StakingInit PROVE StakingInv
  OBVIOUS
<1>1. DOMAIN entry_epoch \subseteq DOMAIN stakes
  BY DEF StakingInit, NothingStored
<1> QED BY <1>1, StakesStart, EpochsStart, LockupsStart DEF StakingInv

\* it waits while time passes,
LEMMA StakingRests == ASSUME StakingInv, ClockMoves, UNCHANGED staking_vars PROVE StakingInv'
<1>1. UNCHANGED <<stakes, roster, place, legacy, captured, rewritten, written_back, total_staked,
                  entry_epoch, epoch_state, next_claim, settled_until, lockups, payments>>
  BY DEF staking_vars, stake_state, list_state, rescue_state, reward_state
<1>2. UNCHANGED <<epochs, penalty_pool, penalties, revenues>>
  BY <1>1 DEF epoch_state
<1>3. now' \in Nat /\ Len(epochs) \in Nat
  BY DEF StakingInv, LockupsInv, LockupTypes, ClockMoves
<1>4. LockupsInv'
  BY <1>1, <1>2, <1>3, LockupsWait DEF StakingInv
<1>5. StakesInv'
  BY <1>1 DEF StakingInv, StakesInv
<1>6. EpochsInv'
  BY <1>2 DEF StakingInv, EpochsInv, PenaltiesReachEpochs
<1> QED BY <1>1, <1>4, <1>5, <1>6 DEF StakingInv

\* and every call keeps it.
LEMMA StakingStep == StakingInv /\ StakingNext => StakingInv'
<1> SUFFICES ASSUME StakingInv, StakingNext PROVE StakingInv'
  OBVIOUS
<1>1. now \in Nat
  BY DEF StakingInv, LockupsInv, LockupTypes
<1>2. StakesInv' /\ EpochsInv'
  BY <1>1, StakesStep, EpochsStep DEF StakingInv
<1>3. LockupsInv' /\ DOMAIN entry_epoch' \subseteq DOMAIN stakes'
  BY LockupsStep DEF StakingInv
<1> QED BY <1>2, <1>3 DEF StakingInv

-----------------------------------------------------------------------------
(* Bounties. *)

BountyRecord ==
    [reward : Nat, shares : Seq(Nat), deadline : Nat, completed : SUBSET Nat,
     status : {"Open", "Claimed", "PartiallyVerified", "Verified", "Disputed", "Refunded"}]

ClaimRecord == [claimed_at : Nat, status : {"Pending", "Verified", "Disputed"}]

PaidRecord == [learners : [BountyLearners -> Nat], returned : Nat]

\* all the milestones of a bounty, each rounded down, and what it paid
Worth(b) == SumFunctionOnSet([i \in DOMAIN b.shares |-> milestone_reward(b, i)], DOMAIN b.shares)
PaidOut(p) == SumFunctionOnSet(p.learners, BountyLearners) + p.returned

Finished(b) == b.status \in {"Verified", "Refunded"}

BountyTypes ==
    /\ now \in Nat /\ bounty_funds \in Nat
    /\ bounties \in Seq(BountyRecord) /\ bounty_paid \in Seq(PaidRecord)
    /\ Len(bounty_paid) = Len(bounties)
    /\ bounty_claims \in [DOMAIN bounty_claims -> ClaimRecord]
    /\ \A c \in DOMAIN bounty_claims :
         c[1] \in DOMAIN bounties /\ c[2] \in BountyLearners /\ c = <<c[1], c[2]>>

\* A bounty has paid for the milestones that are completed, and for all when it is finished.
EntryIsSound(b, p) ==
    /\ b.completed \subseteq DOMAIN b.shares
    /\ SumFunctionOnSet(b.shares, DOMAIN b.shares) = 10000
    /\ Finished(b) => PaidOut(p) = Worth(b)
    /\ ~Finished(b) => PaidOut(p) = Worth(b) - remaining(b) /\ p.returned = 0

\* Each bounty's payments agree with its status, and the contract holds what is left of all.
BountyBooks ==
    /\ \A id \in DOMAIN bounties : EntryIsSound(bounties[id], bounty_paid[id])
    /\ bounty_funds = SumFunctionOnSet([id \in DOMAIN bounties |-> bounties[id].reward - PaidOut(bounty_paid[id])],
                                       DOMAIN bounties)

\* A learner without a verified claim was paid nothing.
ClaimsAreUnpaid ==
    \A id \in DOMAIN bounties, l \in BountyLearners :
        (<<id, l>> \in DOMAIN bounty_claims => bounty_claims[<<id, l>>].status # "Verified")
          => bounty_paid[id].learners[l] = 0

\* The three together.
BountyInv == BountyTypes /\ BountyBooks /\ ClaimsAreUnpaid

\* A disputed claim is not a verified one, and only those are paid.
LEMMA DisputedStaysUnpaid == BountyInv => DisputedIsUnpaid
<1> SUFFICES ASSUME BountyInv, NEW c \in DOMAIN bounty_claims, bounty_claims[c].status = "Disputed"
             PROVE  bounty_paid[c[1]].learners[c[2]] = 0
  BY DEF DisputedIsUnpaid
<1>1. c[1] \in DOMAIN bounties /\ c[2] \in BountyLearners /\ c = <<c[1], c[2]>>
  BY DEF BountyInv, BountyTypes
<1>2. bounty_claims[<<c[1], c[2]>>].status # "Verified"
  BY <1>1
<1> QED BY <1>1, <1>2 DEF BountyInv, ClaimsAreUnpaid

\* What the milestones are worth is the reward but for less than one unit each.
LEMMA WorthOfShares ==
  ASSUME NEW b \in BountyRecord, SumFunctionOnSet(b.shares, DOMAIN b.shares) = 10000
  PROVE  /\ Worth(b) \in Nat /\ Worth(b) <= b.reward /\ b.reward < Worth(b) + Len(b.shares)
         /\ IsFiniteSet(DOMAIN b.shares)
         /\ \A i \in DOMAIN b.shares : milestone_reward(b, i) \in Nat
<1> DEFINE n == Len(b.shares)
           r == b.reward
           s == b.shares
           S == 1 .. n
<1>2. n \in Nat /\ r \in Nat /\ s \in Seq(Nat) /\ DOMAIN s = S /\ \A i \in S : s[i] \in Nat
  BY DEF BountyRecord
<1> DEFINE m == [i \in S |-> milestone_reward(b, i)]
<1>4. \A i \in S : m[i] = (r * s[i]) \div 10000
  BY DEF milestone_reward
<1>5. \A i \in S : m[i] \in Nat /\ 10000 * m[i] <= r * s[i] /\ r * s[i] + 1 <= 10000 * (m[i] + 1)
  <2> SUFFICES ASSUME NEW i \in S
               PROVE  m[i] \in Nat /\ 10000 * m[i] <= r * s[i] /\ r * s[i] + 1 <= 10000 * (m[i] + 1)
    OBVIOUS
  <2>1. PICK x \in Nat : x = r * s[i]
    BY <1>2
  <2>2. m[i] = x \div 10000
    BY <1>4, <2>1
  <2>3. x \div 10000 \in Nat /\ 10000 * (x \div 10000) <= x /\ x < 10000 * ((x \div 10000) + 1)
    BY <2>1
  <2> QED BY <2>1, <2>2, <2>3
<1>6. IsFiniteSet(S) /\ Cardinality(S) = n
  <2> HIDE DEF n
  <2>1. 1 \in Int /\ n \in Int
    BY <1>2
  <2>2. IsFiniteSet(1 .. n) /\ Cardinality(1 .. n) = IF 1 > n THEN 0 ELSE n - 1 + 1
    BY ONLY <2>1, FS_Interval
  <2> QED BY <1>2, <2>2
<1> DEFINE rs == [i \in S |-> r * s[i]]
           rs1 == [i \in S |-> r * s[i] + 1]
           m10 == [i \in S |-> 10000 * m[i]]
           m1 == [i \in S |-> m[i] + 1]
           m110 == [i \in S |-> 10000 * (m[i] + 1)]
           sum(f) == SumFunctionOnSet(f, S)
<1>7. /\ \A i \in S : m[i] = milestone_reward(b, i) /\ rs[i] = r * s[i] /\ rs1[i] = r * s[i] + 1
      /\ \A i \in S : m10[i] = 10000 * m[i] /\ m1[i] = m[i] + 1 /\ m110[i] = 10000 * (m[i] + 1)
  OBVIOUS
<1>17. sum(s) = 10000
  BY <1>2
<1>18. n > 0
  <2>1. CASE n = 0
    <3>1. S = {}
      BY <2>1
    <3> QED BY <1>17, <3>1, SumEmpty
  <2> QED BY <1>2, <2>1
<1>19. Worth(b) = sum(m)
  BY <1>2 DEF Worth
<1> HIDE DEF n, r, s, S, m, rs, rs1, m10, m1, m110
<1>9. sum(m) \in Nat
  <2>1. \A i \in S : m[i] \in Int /\ m[i] \in Nat
    BY <1>5
  <2> QED BY <1>6, <2>1, SumType
<1>10. sum(rs) = r * sum(s)
  <2>1. r \in Int
    BY <1>2
  <2>2. \A i \in S : s[i] \in Int /\ rs[i] = r * s[i]
    BY <1>2, <1>7
  <2> QED BY <1>6, <2>1, <2>2, SumScaled
<1>11. sum(m10) = 10000 * sum(m)
  <2>1. \A i \in S : m[i] \in Int /\ m10[i] = 10000 * m[i]
    BY <1>5, <1>7
  <2>2. 10000 \in Int
    OBVIOUS
  <2> QED BY <1>6, <2>1, <2>2, SumScaled
<1>12. sum(m10) <= sum(rs)
  <2>1. \A i \in S : r * s[i] \in Int
    BY <1>2
  <2>2. \A i \in S : m10[i] \in Int /\ rs[i] \in Int /\ m10[i] <= rs[i]
    BY <1>5, <1>7, <2>1
  <2> QED BY <1>6, <2>2, SumAtMost
<1>13. sum(rs1) = sum(rs) + n
  <2>1. \A i \in S : rs[i] \in Int /\ rs1[i] = rs[i] + 1
    BY <1>2, <1>7
  <2> QED BY <1>6, <2>1, SumPlusOnes
<1>14. sum(m1) = sum(m) + n
  <2>1. \A i \in S : m[i] \in Int /\ m1[i] = m[i] + 1
    BY <1>5, <1>7
  <2> QED BY <1>6, <2>1, SumPlusOnes
<1>15. sum(m110) = 10000 * sum(m1)
  <2>1. \A i \in S : m1[i] \in Int /\ m110[i] = 10000 * m1[i]
    BY <1>5, <1>7
  <2>2. 10000 \in Int
    OBVIOUS
  <2> QED BY <1>6, <2>1, <2>2, SumScaled
<1>16. sum(rs1) <= sum(m110)
  <2>1. \A i \in S : r * s[i] \in Int
    BY <1>2
  <2>2. \A i \in S : rs1[i] \in Int /\ m110[i] \in Int /\ rs1[i] <= m110[i]
    BY <1>5, <1>7, <2>1
  <2> QED BY <1>6, <2>2, SumAtMost
<1> HIDE DEF sum
<1>20. sum(m) <= r /\ r < sum(m) + n
  BY <1>2, <1>9, <1>10, <1>11, <1>12, <1>13, <1>14, <1>15, <1>16, <1>17, <1>18
<1>21. \A i \in S : milestone_reward(b, i) \in Nat
  BY <1>5, <1>7
<1> QED BY <1>2, <1>6, <1>9, <1>19, <1>20, <1>21 DEF n, r, s

\* What remains of a bounty, and what remains after a milestone more.
LEMMA WorthRemaining ==
  ASSUME NEW b \in BountyRecord, SumFunctionOnSet(b.shares, DOMAIN b.shares) = 10000,
         b.completed \subseteq DOMAIN b.shares
  PROVE  /\ remaining(b) \in Nat /\ remaining(b) <= Worth(b)
         /\ b.completed = {} => remaining(b) = Worth(b)
         /\ \A i \in DOMAIN b.shares \ b.completed, c \in BountyRecord :
              c.reward = b.reward /\ c.shares = b.shares /\ c.completed = b.completed \cup {i}
                => remaining(c) = remaining(b) - milestone_reward(b, i) /\ Worth(c) = Worth(b)
<1> DEFINE D == DOMAIN b.shares
           m == [i \in D |-> milestone_reward(b, i)]
<1>1. D = DOMAIN b.shares /\ m = [i \in D |-> milestone_reward(b, i)]
  OBVIOUS
<1> HIDE DEF D, m
<1>2. IsFiniteSet(D) /\ \A i \in D : m[i] \in Nat /\ m[i] \in Int /\ m[i] = milestone_reward(b, i)
  BY <1>1, WorthOfShares
<1>3. Worth(b) = SumFunctionOnSet(m, D)
  BY <1>1 DEF Worth
<1>4. remaining(b) = SumFunctionOnSet(m, D \ b.completed)
  BY <1>1 DEF remaining
<1>5. PICK C : C = b.completed /\ C \in SUBSET D
  BY <1>1
<1>6. IsFiniteSet(C) /\ IsFiniteSet(D \ C)
  BY <1>2, <1>5, FS_Subset
<1>7. SumFunctionOnSet(m, C) \in Nat /\ SumFunctionOnSet(m, D \ C) \in Nat
  BY <1>2, <1>5, <1>6, SumType
<1>8. SumFunctionOnSet(m, D) = SumFunctionOnSet(m, C) + SumFunctionOnSet(m, D \ C)
  BY <1>2, <1>5, SumSplit
<1>9. ASSUME NEW i \in D \ C, NEW c \in BountyRecord,
             c.reward = b.reward /\ c.shares = b.shares /\ c.completed = C \cup {i}
      PROVE  remaining(c) = remaining(b) - milestone_reward(b, i) /\ Worth(c) = Worth(b)
  <2>1. \A j \in D : milestone_reward(c, j) = milestone_reward(b, j)
    BY <1>9 DEF milestone_reward
  <2>2. [j \in DOMAIN c.shares |-> milestone_reward(c, j)] = m
    BY <1>1, <1>9, <2>1
  <2>3. Worth(c) = Worth(b)
    BY <1>1, <1>3, <1>9, <2>2 DEF Worth
  <2>4. remaining(c) = SumFunctionOnSet(m, D \ (C \cup {i}))
    BY <1>1, <1>9, <2>2 DEF remaining
  <2>5. PICK R : R = D \ C /\ i \in R /\ IsFiniteSet(R) /\ R \ {i} = D \ (C \cup {i})
    BY <1>6
  <2>6. \A x \in R : m[x] \in Int
    BY <1>2, <2>5
  <2>7. SumFunctionOnSet(m, R) = m[i] + SumFunctionOnSet(m, R \ {i})
    BY <2>5, <2>6, SumRemove
  <2>8. IsFiniteSet(R \ {i}) /\ \A x \in R \ {i} : m[x] \in Int
    BY <2>5, <2>6, FS_RemoveElement
  <2>9. SumFunctionOnSet(m, R \ {i}) \in Int
    BY <2>8, SumType
  <2>10. remaining(c) = SumFunctionOnSet(m, R \ {i}) /\ remaining(b) = SumFunctionOnSet(m, R)
    BY <1>4, <1>5, <2>4, <2>5
  <2>11. m[i] \in Int /\ m[i] = milestone_reward(b, i)
    BY <1>2
  <2> QED BY <2>3, <2>7, <2>9, <2>10, <2>11
<1>10. C = {} => SumFunctionOnSet(m, D \ C) = SumFunctionOnSet(m, D)
  OBVIOUS
<1>11. remaining(b) = SumFunctionOnSet(m, D \ C)
  BY <1>4, <1>5
<1>12. remaining(b) \in Nat /\ remaining(b) <= Worth(b) /\ (C = {} => remaining(b) = Worth(b))
  BY <1>3, <1>7, <1>8, <1>10, <1>11
<1> QED BY <1>1, <1>5, <1>9, <1>12

\* No bounty is posted.
LEMMA BountyStarts == BountyInit => BountyInv
<1> SUFFICES ASSUME BountyInit PROVE BountyInv
  OBVIOUS
<1>1. /\ now = 0 /\ bounty_funds = 0 /\ bounties = << >> /\ bounty_claims = NothingStored
      /\ bounty_paid = << >>
  BY DEF BountyInit
<1>2. DOMAIN bounty_claims = {}
  BY <1>1 DEF NothingStored
<1>3. bounty_claims \in [DOMAIN bounty_claims -> ClaimRecord]
  BY <1>1, <1>2 DEF NothingStored
<1>4. BountyTypes
  BY <1>1, <1>2, <1>3 DEF BountyTypes
<1>5. DOMAIN bounties = {}
  BY <1>1
<1>6. BountyBooks
  BY <1>1, <1>5, SumEmpty DEF BountyBooks
<1> QED BY <1>4, <1>5, <1>6 DEF BountyInv, ClaimsAreUnpaid

\* The books of the bounties do not depend on the time.
LEMMA BountyRests ==
  ASSUME BountyInv, ClockMoves, UNCHANGED bounty_vars PROVE BountyInv'
<1>1. now' \in Nat
  BY DEF BountyInv, BountyTypes, ClockMoves
<1>2. /\ bounty_funds' = bounty_funds /\ bounties' = bounties /\ bounty_claims' = bounty_claims
      /\ bounty_paid' = bounty_paid
  BY DEF bounty_vars
<1>3. BountyTypes'
  BY <1>1, <1>2 DEF BountyInv, BountyTypes
<1>4. BountyBooks'
  BY <1>2 DEF BountyInv, BountyBooks
<1> QED BY <1>2, <1>3, <1>4 DEF BountyInv, ClaimsAreUnpaid

\* What a bounty paid is a number; another payment or a return adds to it.
PaidMore(p, l, a) == [p EXCEPT !.learners[l] = @ + a]
Returned(p, a) == [p EXCEPT !.returned = a]

\* A payment to a learner adds to what was paid for the bounty.
LEMMA PaidAdds ==
  ASSUME NEW p \in PaidRecord, NEW a \in Nat
  PROVE  /\ PaidOut(p) \in Nat
         /\ \A l \in BountyLearners :
              /\ PaidMore(p, l, a) \in PaidRecord /\ PaidOut(PaidMore(p, l, a)) = PaidOut(p) + a
              /\ PaidMore(p, l, a).returned = p.returned
              /\ \A k \in BountyLearners \ {l} : PaidMore(p, l, a).learners[k] = p.learners[k]
         /\ Returned(p, a) \in PaidRecord /\ Returned(p, a).learners = p.learners
         /\ p.returned = 0 => PaidOut(Returned(p, a)) = PaidOut(p) + a
<1>1. IsFiniteSet(BountyLearners)
  BY BountyAssumption
<1>2. /\ p.learners \in [BountyLearners -> Nat] /\ p.returned \in Nat
      /\ \A l \in BountyLearners : p.learners[l] \in Nat /\ p.learners[l] \in Int
  BY DEF PaidRecord
<1>3. SumFunctionOnSet(p.learners, BountyLearners) \in Nat
  BY <1>1, <1>2, SumType
<1>4. PaidOut(p) \in Nat
  BY <1>2, <1>3 DEF PaidOut
<1>5. ASSUME NEW l \in BountyLearners
      PROVE  /\ PaidMore(p, l, a) \in PaidRecord /\ PaidOut(PaidMore(p, l, a)) = PaidOut(p) + a
             /\ PaidMore(p, l, a).returned = p.returned
             /\ \A k \in BountyLearners \ {l} : PaidMore(p, l, a).learners[k] = p.learners[k]
  <2> DEFINE f == p.learners
             g == PaidMore(p, l, a).learners
  <2>1. PaidMore(p, l, a) = [p EXCEPT !.learners = [f EXCEPT ![l] = f[l] + a]]
    BY DEF PaidMore
  <2>2. g = [f EXCEPT ![l] = f[l] + a] /\ PaidMore(p, l, a).returned = p.returned
    BY <2>1 DEF PaidRecord
  <2>3. PaidMore(p, l, a) \in PaidRecord
    BY <1>2, <2>1 DEF PaidRecord
  <2>4. \A k \in BountyLearners \ {l} : f[k] = g[k]
    BY <1>2, <2>2
  <2>5. g[l] = f[l] + a /\ \A k \in BountyLearners : f[k] \in Int /\ g[k] \in Int
    BY <1>2, <2>2
  <2>6. f[l] \in Nat
    BY <1>2
  <2> HIDE DEF f, g
  <2>7. SumFunctionOnSet(g, BountyLearners) = SumFunctionOnSet(f, BountyLearners) + (g[l] - f[l])
    BY <1>1, <2>4, <2>5, SumChange
  <2>8. SumFunctionOnSet(f, BountyLearners) \in Nat
    BY <1>3 DEF f
  <2>9. PaidOut(PaidMore(p, l, a)) = SumFunctionOnSet(g, BountyLearners) + p.returned
    BY <2>2 DEF PaidOut, g
  <2>10. PaidOut(p) = SumFunctionOnSet(f, BountyLearners) + p.returned
    BY DEF PaidOut, f
  <2>11. PaidOut(PaidMore(p, l, a)) = PaidOut(p) + a
    BY <1>2, <2>5, <2>6, <2>7, <2>8, <2>9, <2>10
  <2>12. \A k \in BountyLearners \ {l} : PaidMore(p, l, a).learners[k] = p.learners[k]
    BY <2>4 DEF f, g
  <2> QED BY <2>2, <2>3, <2>11, <2>12
<1>6. /\ Returned(p, a) \in PaidRecord /\ Returned(p, a).learners = p.learners
      /\ Returned(p, a).returned = a
  BY DEF PaidRecord, Returned
<1>7. p.returned = 0 => PaidOut(Returned(p, a)) = PaidOut(p) + a
  BY <1>3, <1>6 DEF PaidOut
<1> QED BY <1>4, <1>5, <1>6, <1>7

\* One bounty changes, and the contract's balance by what it pays.
LEMMA BountySettles ==
  ASSUME BountyInv, NEW id \in DOMAIN bounties, NEW b \in BountyRecord, NEW p \in PaidRecord,
         EntryIsSound(b, p), b.reward = bounties[id].reward,
         bounties' = [bounties EXCEPT ![id] = b], bounty_paid' = [bounty_paid EXCEPT ![id] = p],
         bounty_funds' \in Nat, bounty_funds' = bounty_funds - (PaidOut(p) - PaidOut(bounty_paid[id]))
  PROVE  /\ bounties' \in Seq(BountyRecord) /\ bounty_paid' \in Seq(PaidRecord)
         /\ Len(bounty_paid') = Len(bounties') /\ DOMAIN bounties' = DOMAIN bounties
         /\ bounty_paid'[id] = p /\ \A j \in DOMAIN bounties \ {id} : bounty_paid'[j] = bounty_paid[j]
         /\ BountyBooks'
<1>1. /\ bounties \in Seq(BountyRecord) /\ bounty_paid \in Seq(PaidRecord)
      /\ Len(bounty_paid) = Len(bounties) /\ bounty_funds \in Nat
  BY DEF BountyInv, BountyTypes
<1> DEFINE D == DOMAIN bounties
<1>2. D = 1 .. Len(bounties) /\ Len(bounties) \in Nat /\ D = DOMAIN bounty_paid
  BY <1>1
<1>3. /\ bounties' \in Seq(BountyRecord) /\ bounty_paid' \in Seq(PaidRecord)
      /\ Len(bounties') = Len(bounties) /\ Len(bounty_paid') = Len(bounty_paid)
      /\ DOMAIN bounties' = D /\ DOMAIN bounty_paid' = D
  BY <1>1, <1>2
<1>4. /\ bounties'[id] = b /\ bounty_paid'[id] = p
      /\ \A j \in D \ {id} : bounties'[j] = bounties[j] /\ bounty_paid'[j] = bounty_paid[j]
  BY <1>1, <1>2
<1>5. \A j \in D : /\ bounties[j] \in BountyRecord /\ bounty_paid[j] \in PaidRecord
                   /\ bounties[j].reward \in Nat
  <2>1. \A j \in D : bounties[j] \in BountyRecord /\ bounty_paid[j] \in PaidRecord
    BY <1>1, <1>2
  <2>2. \A x \in BountyRecord : x.reward \in Nat
    BY DEF BountyRecord
  <2> QED BY <2>1, <2>2
<1>6. \A j \in D : EntryIsSound(bounties'[j], bounty_paid'[j])
  <2> SUFFICES ASSUME NEW j \in D PROVE EntryIsSound(bounties'[j], bounty_paid'[j])
    OBVIOUS
  <2>1. CASE j = id
    BY <1>4, <2>1
  <2>2. CASE j # id
    BY <1>4, <2>2 DEF BountyInv, BountyBooks
  <2> QED BY <2>1, <2>2
<1>7. \A j \in D : PaidOut(bounty_paid[j]) \in Nat
  BY <1>5, PaidAdds
<1>8. PaidOut(p) \in Nat
  BY PaidAdds
<1>9. IsFiniteSet(D)
  <2>1. PICK n \in Nat : n = Len(bounties)
    BY <1>2
  <2>2. 1 \in Int /\ n \in Int
    BY <2>1
  <2>3. IsFiniteSet(1 .. n)
    BY ONLY <2>2, FS_Interval
  <2> QED BY <1>2, <2>1, <2>3
<1>10. PICK f : f = [j \in D |-> bounties[j].reward - PaidOut(bounty_paid[j])]
  OBVIOUS
<1>11. PICK g : g = [j \in D |-> bounties'[j].reward - PaidOut(bounty_paid'[j])]
  OBVIOUS
<1>12. bounty_funds = SumFunctionOnSet(f, D)
  BY <1>10 DEF BountyInv, BountyBooks
<1>13. \A j \in D : f[j] \in Int
  BY <1>5, <1>7, <1>10
<1>14. \A j \in D \ {id} : g[j] = f[j]
  BY <1>4, <1>10, <1>11
<1>15. f[id] = bounties[id].reward - PaidOut(bounty_paid[id]) /\ g[id] = bounties[id].reward - PaidOut(p)
  BY <1>4, <1>10, <1>11
<1>16. \A j \in D : g[j] \in Int
  BY <1>5, <1>8, <1>13, <1>14, <1>15
<1>17. SumFunctionOnSet(g, D) = SumFunctionOnSet(f, D) + (g[id] - f[id])
  <2> HIDE DEF D
  <2>1. id \in D
    BY DEF D
  <2> QED BY <1>9, <1>13, <1>14, <1>16, <2>1, SumChange
<1>18. SumFunctionOnSet(f, D) \in Int
  BY <1>9, <1>13, SumType
<1>19. bounty_funds' = SumFunctionOnSet(g, D)
  BY <1>5, <1>7, <1>8, <1>12, <1>15, <1>17, <1>18
<1>20. BountyBooks'
  BY <1>3, <1>6, <1>11, <1>19 DEF BountyBooks
<1> QED BY <1>1, <1>3, <1>4, <1>20

WithStatus(b, s) == [b EXCEPT !.status = s]
WithClaimStatus(c, s) == [c EXCEPT !.status = s]

\* The status has no part in what a bounty is worth.
LEMMA StatusCounts ==
  ASSUME NEW b \in BountyRecord, NEW p,
         NEW s \in {"Open", "Claimed", "PartiallyVerified", "Verified", "Disputed", "Refunded"}
  PROVE  /\ WithStatus(b, s) \in BountyRecord /\ WithStatus(b, s).reward = b.reward
         /\ Worth(WithStatus(b, s)) = Worth(b) /\ remaining(WithStatus(b, s)) = remaining(b)
         /\ ~Finished(b) /\ s \notin {"Verified", "Refunded"} /\ EntryIsSound(b, p)
              => EntryIsSound(WithStatus(b, s), p)
<1>1. PICK c : c = WithStatus(b, s)
  OBVIOUS
<1>2. /\ c \in BountyRecord /\ c.reward = b.reward /\ c.shares = b.shares /\ c.completed = b.completed
      /\ c.status = s
  BY <1>1 DEF WithStatus, BountyRecord
<1>3. \A i : milestone_reward(c, i) = milestone_reward(b, i)
  BY <1>2 DEF milestone_reward
<1>4. [i \in DOMAIN c.shares |-> milestone_reward(c, i)] = [i \in DOMAIN b.shares |-> milestone_reward(b, i)]
  BY <1>2, <1>3
<1>5. Worth(c) = Worth(b) /\ remaining(c) = remaining(b)
  BY <1>2, <1>4 DEF Worth, remaining
<1>6. ~Finished(b) /\ s \notin {"Verified", "Refunded"} /\ EntryIsSound(b, p) => EntryIsSound(c, p)
  BY <1>2, <1>5 DEF EntryIsSound, Finished
<1> QED BY <1>1, <1>2, <1>5, <1>6

\* A claim is made, or gets another status.
LEMMA ClaimMade ==
  ASSUME BountyInv, NEW id \in DOMAIN bounties, NEW l \in BountyLearners, NEW c \in ClaimRecord,
         bounty_claims' = put(bounty_claims, <<id, l>>, c)
  PROVE  /\ bounty_claims' \in [DOMAIN bounty_claims' -> ClaimRecord]
         /\ DOMAIN bounty_claims' = DOMAIN bounty_claims \cup {<<id, l>>}
         /\ bounty_claims'[<<id, l>>] = c
         /\ \A k \in DOMAIN bounty_claims \ {<<id, l>>} : bounty_claims'[k] = bounty_claims[k]
         /\ \A k \in DOMAIN bounty_claims' :
              k[1] \in DOMAIN bounties /\ k[2] \in BountyLearners /\ k = <<k[1], k[2]>>
<1>1. PICK k : k = <<id, l>>
  OBVIOUS
<1>2. bounty_claims \in [DOMAIN bounty_claims -> ClaimRecord]
  BY DEF BountyInv, BountyTypes
<1>3. PICK S : S = DOMAIN bounty_claims
  OBVIOUS
<1>4. bounty_claims' = [x \in S \cup {k} |-> IF x = k THEN c ELSE bounty_claims[x]]
  BY <1>1, <1>3 DEF put
<1>5. /\ DOMAIN bounty_claims' = S \cup {k} /\ bounty_claims'[k] = c
      /\ \A x \in S \ {k} : bounty_claims'[x] = bounty_claims[x]
      /\ bounty_claims' \in [S \cup {k} -> ClaimRecord]
  BY <1>2, <1>3, <1>4
<1>6. \A x \in S : x[1] \in DOMAIN bounties /\ x[2] \in BountyLearners /\ x = <<x[1], x[2]>>
  BY <1>3 DEF BountyInv, BountyTypes
<1>7. k[1] = id /\ k[2] = l /\ k = <<k[1], k[2]>>
  BY <1>1
<1>8. \A x \in S \cup {k} : x[1] \in DOMAIN bounties /\ x[2] \in BountyLearners /\ x = <<x[1], x[2]>>
  BY <1>6, <1>7
<1> QED BY <1>1, <1>3, <1>5, <1>8

\* One claim is marked with a status, the others stay as they are.
LEMMA ClaimMarked ==
  ASSUME BountyInv, NEW id \in DOMAIN bounties, NEW l \in BountyLearners,
         <<id, l>> \in DOMAIN bounty_claims, NEW s \in {"Pending", "Verified", "Disputed"},
         bounty_claims' = [bounty_claims EXCEPT ![<<id, l>>] = WithClaimStatus(@, s)]
  PROVE  /\ bounty_claims' \in [DOMAIN bounty_claims' -> ClaimRecord]
         /\ DOMAIN bounty_claims' = DOMAIN bounty_claims
         /\ bounty_claims'[<<id, l>>].status = s
         /\ \A k \in DOMAIN bounty_claims \ {<<id, l>>} : bounty_claims'[k] = bounty_claims[k]
<1>1. PICK k : k = <<id, l>>
  OBVIOUS
<1>2. bounty_claims \in [DOMAIN bounty_claims -> ClaimRecord]
  BY DEF BountyInv, BountyTypes
<1>3. PICK c : c = WithClaimStatus(bounty_claims[k], s)
  OBVIOUS
<1>4. c \in ClaimRecord /\ c.status = s
  <2>1. bounty_claims[k] \in ClaimRecord
    BY <1>1, <1>2
  <2> QED BY <1>3, <2>1 DEF ClaimRecord, WithClaimStatus
<1>5. bounty_claims' = [bounty_claims EXCEPT ![k] = c]
  BY <1>1, <1>3
<1>6. /\ DOMAIN bounty_claims' = DOMAIN bounty_claims /\ bounty_claims'[k] = c
      /\ \A x \in DOMAIN bounty_claims \ {k} : bounty_claims'[x] = bounty_claims[x]
      /\ bounty_claims' \in [DOMAIN bounty_claims -> ClaimRecord]
  BY <1>1, <1>2, <1>4, <1>5
<1> QED BY <1>1, <1>4, <1>6

\* A bounty that is posted starts with nothing paid.
LEMMA BountyPosted ==
  ASSUME BountyInv, NEW r \in BountyRewards, NEW s \in MilestoneShares, NEW d \in BountyDeadlines,
         post_bounty(r, s, d)
  PROVE  BountyInv'
<1>1. /\ bounties \in Seq(BountyRecord) /\ bounty_paid \in Seq(PaidRecord)
      /\ Len(bounty_paid) = Len(bounties) /\ bounty_funds \in Nat /\ now \in Nat
      /\ bounty_claims \in [DOMAIN bounty_claims -> ClaimRecord]
  BY DEF BountyInv, BountyTypes
<1>2. r \in Nat /\ s \in Seq(Nat) /\ d \in Nat
  BY BountyAssumption
<1>3. PICK b : b = [reward |-> r, shares |-> s, deadline |-> now + d, completed |-> {}, status |-> "Open"]
  OBVIOUS
<1>4. PICK p : p = [learners |-> [l \in BountyLearners |-> 0], returned |-> 0]
  OBVIOUS
<1>5. /\ bounties' = Append(bounties, b) /\ bounty_paid' = Append(bounty_paid, p)
      /\ bounty_funds' = bounty_funds + r
      /\ now' = now /\ bounty_claims' = bounty_claims
      /\ SumFunctionOnSet(s, DOMAIN s) = 10000
  BY <1>3, <1>4 DEF post_bounty
<1>6. /\ b \in BountyRecord /\ b.reward = r /\ b.shares = s /\ b.completed = {} /\ ~Finished(b)
      /\ p \in PaidRecord /\ p.returned = 0 /\ \A l \in BountyLearners : p.learners[l] = 0
  BY <1>1, <1>2, <1>3, <1>4 DEF BountyRecord, PaidRecord, Finished
<1>7. PaidOut(p) = 0
  <2>1. p.learners = [l \in BountyLearners |-> 0]
    BY <1>4
  <2>2. SumFunctionOnSet(p.learners, BountyLearners) = 0
    BY <2>1, SumZero, BountyAssumption
  <2> QED BY <1>6, <2>2 DEF PaidOut
<1>8. EntryIsSound(b, p)
  <2>1. Worth(b) \in Nat /\ remaining(b) = Worth(b)
    BY <1>5, <1>6, WorthOfShares, WorthRemaining
  <2> QED BY <1>5, <1>6, <1>7, <2>1 DEF EntryIsSound
<1>9. PICK n \in Nat : n = Len(bounties)
  BY <1>1
<1>10. PICK t, u : t = bounties' /\ u = bounty_paid'
  OBVIOUS
<1>11. /\ t \in Seq(BountyRecord) /\ Len(t) = n + 1
       /\ DOMAIN bounties = 1 .. n /\ DOMAIN t = 1 .. n + 1
       /\ \A i \in 1 .. n : t[i] = bounties[i] /\ bounties[i] \in BountyRecord
       /\ t[n + 1] = b
  <2>1. t = Append(bounties, b)
    BY <1>5, <1>10
  <2> QED BY <1>1, <1>6, <1>9, <2>1, Appended
<1>12. /\ u \in Seq(PaidRecord) /\ Len(u) = n + 1
       /\ \A i \in 1 .. n : u[i] = bounty_paid[i] /\ bounty_paid[i] \in PaidRecord
       /\ u[n + 1] = p
  <2>1. u = Append(bounty_paid, p)
    BY <1>5, <1>10
  <2> QED BY <1>1, <1>6, <1>9, <2>1, Appended
<1>13. BountyTypes'
  <2>1. \A c \in DOMAIN bounty_claims :
          c[1] \in 1 .. n + 1 /\ c[2] \in BountyLearners /\ c = <<c[1], c[2]>>
    <3>1. \A c \in DOMAIN bounty_claims :
            c[1] \in 1 .. n /\ c[2] \in BountyLearners /\ c = <<c[1], c[2]>>
      BY <1>11 DEF BountyInv, BountyTypes
    <3> QED BY <1>9, <3>1
  <2>2. bounty_funds' \in Nat
    BY <1>1, <1>2, <1>5
  <2> QED BY <1>1, <1>5, <1>10, <1>11, <1>12, <2>1, <2>2 DEF BountyTypes
<1>14. \A i \in 1 .. n + 1 : EntryIsSound(t[i], u[i])
  <2>1. \A i \in 1 .. n : EntryIsSound(t[i], u[i])
    BY <1>11, <1>12 DEF BountyInv, BountyBooks
  <2>2. \A i \in 1 .. n + 1 : i \in 1 .. n \/ i = n + 1
    BY <1>9
  <2> QED BY <1>8, <1>11, <1>12, <2>1, <2>2
<1>15. PICK f : f = [i \in DOMAIN bounties |-> bounties[i].reward - PaidOut(bounty_paid[i])]
  OBVIOUS
<1>16. PICK g : g = [i \in DOMAIN t |-> t[i].reward - PaidOut(u[i])]
  OBVIOUS
<1>17. \A i \in 1 .. n : f[i] \in Int /\ g[i] = f[i]
  <2> SUFFICES ASSUME NEW i \in 1 .. n PROVE f[i] \in Int /\ g[i] = f[i]
    OBVIOUS
  <2>1. i \in 1 .. n + 1
    BY <1>9
  <2>2. PaidOut(bounty_paid[i]) \in Nat
    BY <1>12, PaidAdds
  <2>3. bounties[i].reward \in Nat
    BY <1>11 DEF BountyRecord
  <2> QED BY <1>11, <1>12, <1>15, <1>16, <2>1, <2>2, <2>3
<1>18. g[n + 1] = r
  <2>1. n + 1 \in 1 .. n + 1
    BY <1>9
  <2> QED BY <1>2, <1>6, <1>7, <1>11, <1>12, <1>16, <2>1
<1>19. bounty_funds = SumFunctionOnSet(f, 1 .. n)
  BY <1>11, <1>15 DEF BountyInv, BountyBooks
<1>20. bounty_funds' = SumFunctionOnSet(g, 1 .. n + 1)
  <2>1. g[n + 1] \in Int
    BY <1>2, <1>18
  <2>2. /\ SumFunctionOnSet(g, 1 .. n + 1) = SumFunctionOnSet(f, 1 .. n) + g[n + 1]
        /\ SumFunctionOnSet(f, 1 .. n) \in Int
    BY <1>17, <2>1, SumNext
  <2> QED BY <1>5, <1>18, <1>19, <2>2
<1>21. BountyBooks'
  BY <1>10, <1>11, <1>14, <1>16, <1>20 DEF BountyBooks
<1>22. ClaimsAreUnpaid'
  <2>1. ASSUME NEW i \in 1 .. n + 1, NEW l \in BountyLearners,
               <<i, l>> \in DOMAIN bounty_claims => bounty_claims[<<i, l>>].status # "Verified"
        PROVE  u[i].learners[l] = 0
    <3>1. CASE i \in 1 .. n
      BY <1>11, <1>12, <2>1, <3>1 DEF BountyInv, ClaimsAreUnpaid
    <3>2. CASE i = n + 1
      BY <1>6, <1>12, <3>2
    <3> QED BY <1>9, <3>1, <3>2
  <2>2. bounty_claims' = bounty_claims /\ DOMAIN bounties' = 1 .. n + 1 /\ bounty_paid' = u
    BY <1>5, <1>10, <1>11
  <2> QED BY <2>1, <2>2 DEF ClaimsAreUnpaid
<1> QED BY <1>13, <1>21, <1>22 DEF BountyInv

\* What an active bounty is.
LEMMA ActiveBounty ==
  ASSUME BountyInv, NEW id \in DOMAIN bounties, bounty_active(id)
  PROVE  /\ bounties[id] \in BountyRecord /\ bounty_paid[id] \in PaidRecord
         /\ ~Finished(bounties[id]) /\ EntryIsSound(bounties[id], bounty_paid[id])
         /\ bounties \in Seq(BountyRecord) /\ bounty_paid \in Seq(PaidRecord) /\ bounty_funds \in Nat
         /\ now \in Nat /\ bounty_claims \in [DOMAIN bounty_claims -> ClaimRecord]
         /\ DOMAIN bounty_paid = DOMAIN bounties
<1>1. /\ bounties \in Seq(BountyRecord) /\ bounty_paid \in Seq(PaidRecord)
      /\ Len(bounty_paid) = Len(bounties) /\ bounty_funds \in Nat
      /\ now \in Nat /\ bounty_claims \in [DOMAIN bounty_claims -> ClaimRecord]
  BY DEF BountyInv, BountyTypes
<1>2. bounties[id] \in BountyRecord /\ bounty_paid[id] \in PaidRecord
  BY <1>1
<1>3. ~Finished(bounties[id])
  BY DEF bounty_active, Finished
<1>4. EntryIsSound(bounties[id], bounty_paid[id])
  BY DEF BountyInv, BountyBooks
<1> QED BY <1>1, <1>2, <1>3, <1>4

\* A step that pays nothing gives a bounty and a claim another status.
LEMMA BountyMarked ==
  ASSUME BountyInv, NEW id \in DOMAIN bounties, bounty_active(id),
         NEW s \in {"Open", "Claimed", "PartiallyVerified", "Disputed"},
         bounties' = [bounties EXCEPT ![id] = WithStatus(@, s)],
         UNCHANGED <<now, bounty_funds, bounty_paid>>
  PROVE  /\ DOMAIN bounties' = DOMAIN bounties /\ BountyBooks'
         /\ bounties' \in Seq(BountyRecord) /\ bounty_paid' \in Seq(PaidRecord)
         /\ Len(bounty_paid') = Len(bounties')
<1>1. /\ bounties[id] \in BountyRecord /\ bounty_paid[id] \in PaidRecord
      /\ ~Finished(bounties[id]) /\ EntryIsSound(bounties[id], bounty_paid[id])
      /\ bounty_paid \in Seq(PaidRecord) /\ bounty_funds \in Nat /\ DOMAIN bounty_paid = DOMAIN bounties
  BY ActiveBounty
<1>2. PICK b : b = WithStatus(bounties[id], s)
  OBVIOUS
<1>3. PICK p : p = bounty_paid[id]
  OBVIOUS
<1>4. b \in BountyRecord /\ b.reward = bounties[id].reward /\ EntryIsSound(b, p) /\ p \in PaidRecord
  <2>1. s \in {"Open", "Claimed", "PartiallyVerified", "Verified", "Disputed", "Refunded"}
    OBVIOUS
  <2>2. /\ b \in BountyRecord /\ b.reward = bounties[id].reward
        /\ Worth(b) = Worth(bounties[id]) /\ remaining(b) = remaining(bounties[id])
        /\ ~Finished(bounties[id]) /\ s \notin {"Verified", "Refunded"} /\ EntryIsSound(bounties[id], p)
             => EntryIsSound(b, p)
    BY <1>1, <1>2, <2>1, StatusCounts
  <2>3. s \notin {"Verified", "Refunded"}
    OBVIOUS
  <2> QED BY <1>1, <1>3, <2>2, <2>3
<1>5. bounties' = [bounties EXCEPT ![id] = b]
  BY <1>2
<1>6. bounty_paid' = [bounty_paid EXCEPT ![id] = p]
  BY <1>1, <1>3
<1>7. PaidOut(p) \in Nat
  BY <1>4, PaidAdds
<1>8. bounty_funds' \in Nat /\ bounty_funds' = bounty_funds - (PaidOut(p) - PaidOut(bounty_paid[id]))
  BY <1>1, <1>3, <1>7
<1>9. /\ bounties' \in Seq(BountyRecord) /\ bounty_paid' \in Seq(PaidRecord)
      /\ Len(bounty_paid') = Len(bounties') /\ DOMAIN bounties' = DOMAIN bounties
      /\ bounty_paid'[id] = p /\ \A j \in DOMAIN bounties \ {id} : bounty_paid'[j] = bounty_paid[j]
      /\ BountyBooks'
  BY <1>4, <1>5, <1>6, <1>8, BountySettles
<1> QED BY <1>9

\* A claim costs nothing.
LEMMA BountyClaimed ==
  ASSUME BountyInv, NEW id \in DOMAIN bounties, NEW l \in BountyLearners, claim_bounty(l, id)
  PROVE  BountyInv'
<1>1. PICK s : s = IF bounties[id].status = "Open" THEN "Claimed" ELSE bounties[id].status
  OBVIOUS
<1>2. PICK c : c = [claimed_at |-> now, status |-> "Pending"]
  OBVIOUS
<1>3. /\ bounty_active(id) /\ <<id, l>> \notin DOMAIN bounty_claims
      /\ bounty_claims' = put(bounty_claims, <<id, l>>, c)
      /\ bounties' = [bounties EXCEPT ![id] = WithStatus(@, s)]
      /\ UNCHANGED <<now, bounty_funds, bounty_paid>>
  BY <1>1, <1>2 DEF claim_bounty, WithStatus
<1>4. /\ bounties[id] \in BountyRecord /\ ~Finished(bounties[id]) /\ now \in Nat /\ bounty_funds \in Nat
  BY <1>3, ActiveBounty
<1>5. s \in {"Open", "Claimed", "PartiallyVerified", "Disputed"}
  BY <1>1, <1>4 DEF BountyRecord, Finished
<1>6. /\ DOMAIN bounties' = DOMAIN bounties /\ BountyBooks'
      /\ bounties' \in Seq(BountyRecord) /\ bounty_paid' \in Seq(PaidRecord)
      /\ Len(bounty_paid') = Len(bounties')
  BY <1>3, <1>5, BountyMarked
<1>7. c \in ClaimRecord
  BY <1>2, <1>4 DEF ClaimRecord
<1>8. /\ bounty_claims' \in [DOMAIN bounty_claims' -> ClaimRecord]
      /\ DOMAIN bounty_claims' = DOMAIN bounty_claims \cup {<<id, l>>}
      /\ bounty_claims'[<<id, l>>] = c
      /\ \A k \in DOMAIN bounty_claims \ {<<id, l>>} : bounty_claims'[k] = bounty_claims[k]
      /\ \A k \in DOMAIN bounty_claims' :
           k[1] \in DOMAIN bounties /\ k[2] \in BountyLearners /\ k = <<k[1], k[2]>>
  BY <1>3, <1>7, ClaimMade
<1>9. BountyTypes'
  BY <1>3, <1>4, <1>6, <1>8 DEF BountyTypes
<1>10. ASSUME NEW j \in DOMAIN bounties, NEW k \in BountyLearners,
              <<j, k>> \in DOMAIN bounty_claims' => bounty_claims'[<<j, k>>].status # "Verified"
       PROVE  bounty_paid[j].learners[k] = 0
  <2>1. CASE <<j, k>> = <<id, l>>
    <3>1. <<j, k>> \notin DOMAIN bounty_claims
      BY <1>3, <2>1
    <3> QED BY <3>1 DEF BountyInv, ClaimsAreUnpaid
  <2>2. CASE <<j, k>> # <<id, l>>
    <3>1. <<j, k>> \in DOMAIN bounty_claims => bounty_claims[<<j, k>>].status # "Verified"
      BY <1>8, <1>10, <2>2
    <3> QED BY <3>1 DEF BountyInv, ClaimsAreUnpaid
  <2> QED BY <2>1, <2>2
<1>11. ClaimsAreUnpaid'
  BY <1>3, <1>6, <1>10 DEF ClaimsAreUnpaid
<1> QED BY <1>6, <1>9, <1>11 DEF BountyInv

\* Nor does a dispute.
LEMMA BountyDisputed ==
  ASSUME BountyInv, NEW id \in DOMAIN bounties, NEW l \in BountyLearners, dispute_completion(l, id)
  PROVE  BountyInv'
<1>3. /\ bounty_active(id) /\ <<id, l>> \in DOMAIN bounty_claims
      /\ bounty_claims[<<id, l>>].status = "Pending"
      /\ bounty_claims' = [bounty_claims EXCEPT ![<<id, l>>] = WithClaimStatus(@, "Disputed")]
      /\ bounties' = [bounties EXCEPT ![id] = WithStatus(@, "Disputed")]
      /\ UNCHANGED <<now, bounty_funds, bounty_paid>>
  BY DEF dispute_completion, WithStatus, WithClaimStatus
<1>4. /\ bounties[id] \in BountyRecord /\ ~Finished(bounties[id]) /\ now \in Nat /\ bounty_funds \in Nat
  BY <1>3, ActiveBounty
<1>6. /\ DOMAIN bounties' = DOMAIN bounties /\ BountyBooks'
      /\ bounties' \in Seq(BountyRecord) /\ bounty_paid' \in Seq(PaidRecord)
      /\ Len(bounty_paid') = Len(bounties')
  <2>1. "Disputed" \in {"Open", "Claimed", "PartiallyVerified", "Disputed"}
    OBVIOUS
  <2> QED BY <1>3, <2>1, BountyMarked
<1>8. /\ bounty_claims' \in [DOMAIN bounty_claims' -> ClaimRecord]
      /\ DOMAIN bounty_claims' = DOMAIN bounty_claims
      /\ bounty_claims'[<<id, l>>].status = "Disputed"
      /\ \A k \in DOMAIN bounty_claims \ {<<id, l>>} : bounty_claims'[k] = bounty_claims[k]
  <2>1. "Disputed" \in {"Pending", "Verified", "Disputed"}
    OBVIOUS
  <2> QED BY <1>3, <2>1, ClaimMarked
<1>9. BountyTypes'
  <2>1. \A k \in DOMAIN bounty_claims :
          k[1] \in DOMAIN bounties /\ k[2] \in BountyLearners /\ k = <<k[1], k[2]>>
    BY DEF BountyInv, BountyTypes
  <2> QED BY <1>3, <1>4, <1>6, <1>8, <2>1 DEF BountyTypes
<1>10. ASSUME NEW j \in DOMAIN bounties, NEW k \in BountyLearners,
              <<j, k>> \in DOMAIN bounty_claims' => bounty_claims'[<<j, k>>].status # "Verified"
       PROVE  bounty_paid[j].learners[k] = 0
  <2>1. <<j, k>> \in DOMAIN bounty_claims => bounty_claims[<<j, k>>].status # "Verified"
    <3>1. CASE <<j, k>> = <<id, l>>
      BY <1>3, <3>1
    <3>2. CASE <<j, k>> # <<id, l>>
      BY <1>8, <1>10, <3>2
    <3> QED BY <3>1, <3>2
  <2> QED BY <2>1 DEF BountyInv, ClaimsAreUnpaid
<1>11. ClaimsAreUnpaid'
  BY <1>3, <1>6, <1>10 DEF ClaimsAreUnpaid
<1> QED BY <1>6, <1>9, <1>11 DEF BountyInv

\* A verification: the claim is verified, its learner paid, the bounty's record b.
LEMMA BountyVerified ==
  ASSUME BountyInv, NEW id \in DOMAIN bounties, NEW l \in BountyLearners, verifiable(l, id),
         NEW b \in BountyRecord, NEW a \in Nat, b.reward = bounties[id].reward,
         EntryIsSound(b, PaidMore(bounty_paid[id], l, a)),
         pay_learner(l, id, a), now' = now,
         bounties' = [bounties EXCEPT ![id] = b],
         bounty_claims' = [bounty_claims EXCEPT ![<<id, l>>] = WithClaimStatus(@, "Verified")]
  PROVE  BountyInv'
<1>1. bounty_active(id) /\ <<id, l>> \in DOMAIN bounty_claims
  BY DEF verifiable
<1>2. /\ bounties[id] \in BountyRecord /\ bounty_paid[id] \in PaidRecord /\ now \in Nat /\ bounty_funds \in Nat
  BY <1>1, ActiveBounty
<1>3. PICK p : p = PaidMore(bounty_paid[id], l, a)
  OBVIOUS
<1>4. /\ p \in PaidRecord /\ PaidOut(p) = PaidOut(bounty_paid[id]) + a /\ PaidOut(bounty_paid[id]) \in Nat
      /\ \A k \in BountyLearners \ {l} : p.learners[k] = bounty_paid[id].learners[k]
  BY <1>2, <1>3, PaidAdds
<1>5. /\ bounty_paid' = [bounty_paid EXCEPT ![id] = p]
      /\ bounty_funds' = bounty_funds - a /\ a <= bounty_funds
  BY <1>3 DEF pay_learner, PaidMore
<1>6. EntryIsSound(b, p)
  BY <1>3
<1>7. bounty_funds' \in Nat /\ bounty_funds' = bounty_funds - (PaidOut(p) - PaidOut(bounty_paid[id]))
  BY <1>2, <1>4, <1>5
<1>8. /\ bounties' \in Seq(BountyRecord) /\ bounty_paid' \in Seq(PaidRecord)
      /\ Len(bounty_paid') = Len(bounties') /\ DOMAIN bounties' = DOMAIN bounties
      /\ bounty_paid'[id] = p /\ \A j \in DOMAIN bounties \ {id} : bounty_paid'[j] = bounty_paid[j]
      /\ BountyBooks'
  BY <1>4, <1>5, <1>6, <1>7, BountySettles
<1>9. /\ bounty_claims' \in [DOMAIN bounty_claims' -> ClaimRecord]
      /\ DOMAIN bounty_claims' = DOMAIN bounty_claims
      /\ bounty_claims'[<<id, l>>].status = "Verified"
      /\ \A k \in DOMAIN bounty_claims \ {<<id, l>>} : bounty_claims'[k] = bounty_claims[k]
  <2>1. "Verified" \in {"Pending", "Verified", "Disputed"}
    OBVIOUS
  <2> QED BY <1>1, <2>1, ClaimMarked
<1>10. BountyTypes'
  <2>1. \A k \in DOMAIN bounty_claims :
          k[1] \in DOMAIN bounties /\ k[2] \in BountyLearners /\ k = <<k[1], k[2]>>
    BY DEF BountyInv, BountyTypes
  <2> QED BY <1>2, <1>7, <1>8, <1>9, <2>1 DEF BountyTypes
<1>11. ASSUME NEW j \in DOMAIN bounties, NEW k \in BountyLearners,
              <<j, k>> \in DOMAIN bounty_claims' => bounty_claims'[<<j, k>>].status # "Verified"
       PROVE  bounty_paid'[j].learners[k] = 0
  <2>1. <<j, k>> # <<id, l>>
    BY <1>1, <1>9, <1>11
  <2>2. <<j, k>> \in DOMAIN bounty_claims => bounty_claims[<<j, k>>].status # "Verified"
    BY <1>9, <1>11, <2>1
  <2>3. bounty_paid[j].learners[k] = 0
    BY <2>2 DEF BountyInv, ClaimsAreUnpaid
  <2>4. CASE j = id
    <3>1. k # l
      BY <2>1, <2>4
    <3> QED BY <1>4, <1>8, <2>3, <2>4, <3>1
  <2>5. CASE j # id
    BY <1>8, <2>3, <2>5
  <2> QED BY <2>4, <2>5
<1>12. ClaimsAreUnpaid'
  BY <1>8, <1>11 DEF ClaimsAreUnpaid
<1> QED BY <1>8, <1>10, <1>12 DEF BountyInv

\* A completion pays what remains.
LEMMA BountyCompleted ==
  ASSUME BountyInv, NEW id \in DOMAIN bounties, NEW l \in BountyLearners, verify_completion(l, id)
  PROVE  BountyInv'
<1>1. verifiable(l, id) /\ bounty_active(id)
  BY DEF verify_completion, verifiable
<1>2. PICK o : o = bounties[id]
  OBVIOUS
<1>3. PICK q : q = bounty_paid[id]
  OBVIOUS
<1>4. PICK a : a = remaining(o)
  OBVIOUS
<1>5. PICK b : b = [o EXCEPT !.status = "Verified", !.completed = DOMAIN o.shares]
  OBVIOUS
<1>6. /\ pay_learner(l, id, a) /\ now' = now
      /\ bounties' = [bounties EXCEPT ![id] = b]
      /\ bounty_claims' = [bounty_claims EXCEPT ![<<id, l>>] = WithClaimStatus(@, "Verified")]
  BY <1>2, <1>4, <1>5 DEF verify_completion, WithClaimStatus
<1>7. o \in BountyRecord /\ q \in PaidRecord /\ ~Finished(o) /\ EntryIsSound(o, q)
  BY <1>1, <1>2, <1>3, ActiveBounty
<1>8. /\ b \in BountyRecord /\ b.reward = o.reward /\ b.shares = o.shares
      /\ b.completed = DOMAIN o.shares /\ b.status = "Verified"
  <2>1. DOMAIN o.shares \in SUBSET Nat
    BY <1>7 DEF BountyRecord
  <2> QED BY <1>5, <1>7, <2>1 DEF BountyRecord
<1>9. /\ SumFunctionOnSet(o.shares, DOMAIN o.shares) = 10000 /\ o.completed \subseteq DOMAIN o.shares
      /\ PaidOut(q) = Worth(o) - remaining(o) /\ q.returned = 0
  BY <1>7 DEF EntryIsSound
<1>10. Worth(o) \in Nat /\ a \in Nat
  BY <1>4, <1>7, <1>9, WorthOfShares, WorthRemaining
<1>11. PICK p : p = PaidMore(q, l, a)
  OBVIOUS
<1>12. PaidOut(p) = PaidOut(q) + a /\ PaidOut(q) \in Nat
  BY <1>7, <1>10, <1>11, PaidAdds
<1>13. Worth(b) = Worth(o)
  <2>1. \A i : milestone_reward(b, i) = milestone_reward(o, i)
    BY <1>8 DEF milestone_reward
  <2>2. [i \in DOMAIN b.shares |-> milestone_reward(b, i)] = [i \in DOMAIN o.shares |-> milestone_reward(o, i)]
    BY <1>8, <2>1
  <2> QED BY <1>8, <2>2 DEF Worth
<1>14. EntryIsSound(b, p)
  <2>1. PaidOut(p) = Worth(b)
    BY <1>4, <1>9, <1>10, <1>12, <1>13
  <2> QED BY <1>8, <1>9, <2>1 DEF EntryIsSound, Finished
<1>15. EntryIsSound(b, PaidMore(bounty_paid[id], l, a)) /\ b.reward = bounties[id].reward
  BY <1>2, <1>3, <1>8, <1>11, <1>14
<1> QED BY <1>1, <1>6, <1>8, <1>10, <1>15, BountyVerified

\* A milestone pays its share of the reward.
LEMMA MilestoneVerified ==
  ASSUME BountyInv, NEW id \in DOMAIN bounties, NEW l \in BountyLearners,
         NEW i \in DOMAIN bounties[id].shares, verify_milestone(l, id, i)
  PROVE  BountyInv'
<1>1. verifiable(l, id) /\ bounty_active(id)
  BY DEF verify_milestone, verifiable
<1>2. PICK o : o = bounties[id]
  OBVIOUS
<1>3. PICK q : q = bounty_paid[id]
  OBVIOUS
<1>4. PICK c : c = [o EXCEPT !.completed = @ \cup {i}]
  OBVIOUS
<1>5. PICK s : s = IF c.completed = DOMAIN c.shares THEN "Verified" ELSE "PartiallyVerified"
  OBVIOUS
<1>16. PICK b : b = WithStatus(c, s)
  OBVIOUS
<1>17. PICK a : a = milestone_reward(c, i)
  OBVIOUS
<1>6. /\ pay_learner(l, id, a) /\ now' = now
      /\ bounties' = [bounties EXCEPT ![id] = b]
      /\ bounty_claims' = [bounty_claims EXCEPT ![<<id, l>>] = WithClaimStatus(@, "Verified")]
      /\ i \in DOMAIN c.shares \ o.completed
  BY <1>2, <1>4, <1>5, <1>16, <1>17 DEF verify_milestone, WithClaimStatus, WithStatus, claim_after_milestone
<1>7. o \in BountyRecord /\ q \in PaidRecord /\ ~Finished(o) /\ EntryIsSound(o, q)
  BY <1>1, <1>2, <1>3, ActiveBounty
<1>8. /\ SumFunctionOnSet(o.shares, DOMAIN o.shares) = 10000 /\ o.completed \subseteq DOMAIN o.shares
      /\ PaidOut(q) = Worth(o) - remaining(o) /\ q.returned = 0
  BY <1>7 DEF EntryIsSound
<1>9. /\ c \in BountyRecord /\ c.reward = o.reward /\ c.shares = o.shares
      /\ c.completed = o.completed \cup {i} /\ c.status = o.status
  <2>1. i \in Nat
    BY <1>2, <1>7 DEF BountyRecord
  <2> QED BY <1>4, <1>7, <2>1 DEF BountyRecord
<1>10. a = milestone_reward(o, i)
  BY <1>9, <1>17 DEF milestone_reward
<1>11. /\ a \in Nat /\ Worth(o) \in Nat /\ remaining(o) \in Nat
       /\ remaining(c) = remaining(o) - a /\ Worth(c) = Worth(o)
  <2>1. /\ Worth(o) \in Nat /\ Worth(o) <= o.reward /\ o.reward < Worth(o) + Len(o.shares)
        /\ IsFiniteSet(DOMAIN o.shares)
        /\ \A j \in DOMAIN o.shares : milestone_reward(o, j) \in Nat
    BY <1>7, <1>8, WorthOfShares
  <2>2. /\ remaining(o) \in Nat /\ remaining(o) <= Worth(o)
        /\ o.completed = {} => remaining(o) = Worth(o)
        /\ \A j \in DOMAIN o.shares \ o.completed, d \in BountyRecord :
             d.reward = o.reward /\ d.shares = o.shares /\ d.completed = o.completed \cup {j}
               => remaining(d) = remaining(o) - milestone_reward(o, j) /\ Worth(d) = Worth(o)
    BY <1>7, <1>8, WorthRemaining
  <2>3. i \in DOMAIN o.shares \ o.completed
    BY <1>6, <1>9
  <2>4. remaining(c) = remaining(o) - milestone_reward(o, i) /\ Worth(c) = Worth(o)
    BY <1>9, <2>2, <2>3
  <2> QED BY <1>10, <2>1, <2>2, <2>3, <2>4
<1>12. s \in {"Open", "Claimed", "PartiallyVerified", "Verified", "Disputed", "Refunded"}
  BY <1>5
<1>13. /\ b \in BountyRecord /\ b.reward = c.reward
       /\ Worth(b) = Worth(c) /\ remaining(b) = remaining(c)
  BY <1>9, <1>12, <1>16, StatusCounts
<1>14. b.completed = c.completed /\ b.shares = c.shares /\ b.status = s
  BY <1>9, <1>16 DEF WithStatus, BountyRecord
<1>15. PICK p : p = PaidMore(q, l, a)
  OBVIOUS
<1>18. PaidOut(p) = PaidOut(q) + a /\ PaidOut(q) \in Nat /\ p.returned = q.returned
  BY <1>7, <1>11, <1>15, PaidAdds
<1>19. PaidOut(p) = Worth(b) - remaining(b)
  BY <1>8, <1>11, <1>13, <1>18
<1>20. b.completed = DOMAIN b.shares => remaining(b) = 0
  <2> SUFFICES ASSUME b.completed = DOMAIN b.shares PROVE remaining(b) = 0
    OBVIOUS
  <2>1. DOMAIN b.shares \ b.completed = {}
    OBVIOUS
  <2> QED BY <2>1, SumEmpty DEF remaining
<1>21. EntryIsSound(b, p)
  <2>1. b.completed \subseteq DOMAIN b.shares /\ SumFunctionOnSet(b.shares, DOMAIN b.shares) = 10000
    BY <1>6, <1>8, <1>9, <1>14
  <2>2. Finished(b) => PaidOut(p) = Worth(b)
    BY <1>5, <1>9, <1>11, <1>13, <1>14, <1>19, <1>20 DEF Finished
  <2> QED BY <1>8, <1>18, <1>19, <2>1, <2>2 DEF EntryIsSound
<1>22. EntryIsSound(b, PaidMore(bounty_paid[id], l, a)) /\ b.reward = bounties[id].reward
  BY <1>2, <1>3, <1>9, <1>13, <1>15, <1>21
<1> QED BY <1>1, <1>6, <1>11, <1>13, <1>22, BountyVerified

\* A refund returns what remains to the poster.
LEMMA BountyRefunded ==
  ASSUME BountyInv, NEW id \in DOMAIN bounties, refund_bounty(id)
  PROVE  BountyInv'
<1>1. bounty_active(id)
  BY DEF refund_bounty
<1>2. PICK o : o = bounties[id]
  OBVIOUS
<1>3. PICK q : q = bounty_paid[id]
  OBVIOUS
<1>4. PICK a : a = remaining(o)
  OBVIOUS
<1>5. PICK b : b = WithStatus(o, "Refunded")
  OBVIOUS
<1>16. PICK p : p = Returned(q, a)
  OBVIOUS
<1>6. /\ a <= bounty_funds /\ bounty_funds' = bounty_funds - a
      /\ bounties' = [bounties EXCEPT ![id] = b]
      /\ bounty_paid' = [bounty_paid EXCEPT ![id] = p]
      /\ now' = now /\ bounty_claims' = bounty_claims
  BY <1>2, <1>3, <1>4, <1>5, <1>16 DEF refund_bounty, bounty_refund, WithStatus, Returned
<1>7. /\ o \in BountyRecord /\ q \in PaidRecord /\ ~Finished(o) /\ EntryIsSound(o, q)
      /\ bounty_funds \in Nat /\ now \in Nat
  BY <1>1, <1>2, <1>3, ActiveBounty
<1>8. /\ b \in BountyRecord /\ b.reward = o.reward
      /\ Worth(b) = Worth(o) /\ remaining(b) = remaining(o)
  <2>1. "Refunded" \in {"Open", "Claimed", "PartiallyVerified", "Verified", "Disputed", "Refunded"}
    OBVIOUS
  <2> QED BY <1>5, <1>7, <2>1, StatusCounts
<1>9. /\ SumFunctionOnSet(o.shares, DOMAIN o.shares) = 10000 /\ o.completed \subseteq DOMAIN o.shares
      /\ PaidOut(q) = Worth(o) - remaining(o) /\ q.returned = 0
  BY <1>7 DEF EntryIsSound
<1>10. Worth(o) \in Nat /\ a \in Nat
  BY <1>4, <1>7, <1>9, WorthOfShares, WorthRemaining
<1>11. b.completed = o.completed /\ b.shares = o.shares /\ b.status = "Refunded"
  BY <1>5, <1>7 DEF WithStatus, BountyRecord
<1>12. PaidOut(p) = PaidOut(q) + a /\ PaidOut(q) \in Nat /\ p \in PaidRecord /\ p.learners = q.learners
  <2>1. PaidOut(q) \in Nat
    BY <1>7, PaidAdds
  <2>2. /\ Returned(q, a) \in PaidRecord /\ Returned(q, a).learners = q.learners
        /\ q.returned = 0 => PaidOut(Returned(q, a)) = PaidOut(q) + a
    BY <1>7, <1>10, PaidAdds
  <2> QED BY <1>9, <1>16, <2>1, <2>2
<1>13. PaidOut(p) = Worth(b)
  BY <1>4, <1>8, <1>9, <1>10, <1>12
<1>14. EntryIsSound(b, p)
  BY <1>9, <1>11, <1>13 DEF EntryIsSound, Finished
<1>15. bounty_funds' \in Nat /\ bounty_funds' = bounty_funds - (PaidOut(p) - PaidOut(bounty_paid[id]))
  BY <1>3, <1>6, <1>7, <1>10, <1>12
<1>17. b.reward = bounties[id].reward
  BY <1>2, <1>8
<1>18. /\ bounties' \in Seq(BountyRecord) /\ bounty_paid' \in Seq(PaidRecord)
       /\ Len(bounty_paid') = Len(bounties') /\ DOMAIN bounties' = DOMAIN bounties
       /\ bounty_paid'[id] = p /\ \A j \in DOMAIN bounties \ {id} : bounty_paid'[j] = bounty_paid[j]
       /\ BountyBooks'
  BY <1>6, <1>8, <1>12, <1>14, <1>15, <1>17, BountySettles
<1>19. BountyTypes'
  <2>1. /\ bounty_claims \in [DOMAIN bounty_claims -> ClaimRecord]
        /\ \A k \in DOMAIN bounty_claims :
             k[1] \in DOMAIN bounties /\ k[2] \in BountyLearners /\ k = <<k[1], k[2]>>
    BY DEF BountyInv, BountyTypes
  <2> QED BY <1>6, <1>7, <1>15, <1>18, <2>1 DEF BountyTypes
<1>20. ASSUME NEW j \in DOMAIN bounties, NEW k \in BountyLearners,
              <<j, k>> \in DOMAIN bounty_claims => bounty_claims[<<j, k>>].status # "Verified"
       PROVE  bounty_paid'[j].learners[k] = 0
  <2>1. bounty_paid[j].learners[k] = 0
    BY <1>20 DEF BountyInv, ClaimsAreUnpaid
  <2>2. CASE j = id
    BY <1>3, <1>12, <1>18, <2>1, <2>2
  <2>3. CASE j # id
    BY <1>18, <2>1, <2>3
  <2> QED BY <2>2, <2>3
<1>21. ClaimsAreUnpaid'
  BY <1>6, <1>18, <1>20 DEF ClaimsAreUnpaid
<1> QED BY <1>18, <1>19, <1>21 DEF BountyInv

\* Every call of the bounty contract keeps its invariant.
LEMMA BountyStep == BountyInv /\ BountyNext => BountyInv'
<1> SUFFICES ASSUME BountyInv, BountyNext PROVE BountyInv'
  OBVIOUS
<1>1. ASSUME NEW r \in BountyRewards, NEW s \in MilestoneShares, NEW p \in BountyDeadlines,
             post_bounty(r, s, p)
      PROVE  BountyInv'
  BY <1>1, BountyPosted
<1>2. ASSUME NEW id \in DOMAIN bounties, NEW l \in BountyLearners, claim_bounty(l, id)
      PROVE  BountyInv'
  BY <1>2, BountyClaimed
<1>3. ASSUME NEW id \in DOMAIN bounties, NEW l \in BountyLearners, verify_completion(l, id)
      PROVE  BountyInv'
  BY <1>3, BountyCompleted
<1>4. ASSUME NEW id \in DOMAIN bounties, NEW l \in BountyLearners,
             NEW i \in DOMAIN bounties[id].shares, verify_milestone(l, id, i)
      PROVE  BountyInv'
  BY <1>4, MilestoneVerified
<1>5. ASSUME NEW id \in DOMAIN bounties, NEW l \in BountyLearners, dispute_completion(l, id)
      PROVE  BountyInv'
  BY <1>5, BountyDisputed
<1>6. ASSUME NEW id \in DOMAIN bounties, refund_bounty(id)
      PROVE  BountyInv'
  BY <1>6, BountyRefunded
<1>7. CASE BountyTick
  <2>1. ClockMoves /\ UNCHANGED bounty_vars
    BY <1>7 DEF BountyTick, CloseLedger, ClockMoves
  <2> QED BY <2>1, BountyRests
<1> QED BY <1>1, <1>2, <1>3, <1>4, <1>5, <1>6, <1>7 DEF BountyNext

\* A bounty pays no more than its reward, and once it is closed only dust is left.
LEMMA BountiesSettle == BountyInv => BountiesAreSeparate /\ OnlyDustIsLeft
<1> SUFFICES ASSUME BountyInv PROVE BountiesAreSeparate /\ OnlyDustIsLeft
  OBVIOUS
<1>1. \A id : bounty_payments(id) = PaidOut(bounty_paid[id])
  BY DEF bounty_payments, PaidOut
<1>2. ASSUME NEW id \in DOMAIN bounties
      PROVE  /\ bounty_payments(id) <= bounties[id].reward
             /\ ~bounty_active(id) => bounties[id].reward - bounty_payments(id) < Len(bounties[id].shares)
  <2>1. PICK b : b = bounties[id]
    OBVIOUS
  <2>2. PICK p : p = bounty_paid[id]
    OBVIOUS
  <2>3. b \in BountyRecord /\ p \in PaidRecord
    BY <2>1, <2>2 DEF BountyInv, BountyTypes
  <2>4. EntryIsSound(b, p)
    BY <2>1, <2>2 DEF BountyInv, BountyBooks
  <2>5. b.completed \subseteq DOMAIN b.shares /\ SumFunctionOnSet(b.shares, DOMAIN b.shares) = 10000
    BY <2>4 DEF EntryIsSound
  <2>6. Worth(b) \in Nat /\ Worth(b) <= b.reward /\ b.reward < Worth(b) + Len(b.shares)
    BY <2>3, <2>5, WorthOfShares
  <2>7. remaining(b) \in Nat
    BY <2>3, <2>5, WorthRemaining
  <2>8. b.reward \in Nat /\ Len(b.shares) \in Nat
    BY <2>3 DEF BountyRecord
  <2>9. PaidOut(p) = Worth(b) \/ PaidOut(p) = Worth(b) - remaining(b)
    BY <2>4 DEF EntryIsSound
  <2>10. ~bounty_active(id) => PaidOut(p) = Worth(b)
    BY <2>1, <2>4 DEF EntryIsSound, Finished, bounty_active
  <2>11. PaidOut(p) <= b.reward
    BY <2>6, <2>7, <2>8, <2>9
  <2>12. ~bounty_active(id) => b.reward - PaidOut(p) < Len(b.shares)
    BY <2>6, <2>8, <2>10
  <2> QED BY <1>1, <2>1, <2>2, <2>11, <2>12
<1>3. BountiesAreSeparate
  <2>1. [id \in DOMAIN bounties |-> bounties[id].reward - bounty_payments(id)] =
          [id \in DOMAIN bounties |-> bounties[id].reward - PaidOut(bounty_paid[id])]
    BY <1>1
  <2> QED BY <1>2, <2>1 DEF BountiesAreSeparate, BountyInv, BountyBooks
<1>4. OnlyDustIsLeft
  BY <1>2 DEF OnlyDustIsLeft
<1> QED BY <1>3, <1>4

-----------------------------------------------------------------------------
(* Subscriptions. *)

SubRecord ==
    [next_billing : Nat, used : Nat, status : {"Active", "Paused", "Cancelled", "Expired"},
     allowance : Nat]

HistoryRecord == [since : Nat, payments : Nat, sessions : Nat, authorized : Nat, pulled : Nat]

StreamRecord ==
    [start : Nat, deposit : Nat, withdrawn : Nat, active : BOOLEAN, ended_at : Nat,
     paid : Nat, refunded : Nat]

\* A subscription and its history at the time t: every payment bought a month and the sessions of
\* one, and what was pulled and what is left of the allowance is what was authorized.
SubIsSound(s, h, t) ==
    /\ h.since <= t
    /\ s.next_billing = h.since + h.payments * Month
    /\ h.payments * Month <= Month + (t - h.since) + RenewalGrace
    /\ h.pulled + s.allowance <= h.authorized
    /\ s.used <= SessionsPerMonth
    /\ h.sessions + SessionsPerMonth <= h.payments * SessionsPerMonth + s.used

\* Every subscription agrees with its history.
SubsInv ==
    /\ now \in Nat
    /\ subs \in Seq(SubRecord) /\ sub_history \in Seq(HistoryRecord) /\ Len(sub_history) = Len(subs)
    /\ \A i \in DOMAIN subs : SubIsSound(subs[i], sub_history[i], now)

\* what a stream has earned at the time t
EarnedAt(st, t) ==
    LET e == ((IF st.active THEN t ELSE st.ended_at) - st.start) * StreamRate
    IN  IF e < st.deposit THEN e ELSE st.deposit

\* A stream has paid what was withdrawn, no more than it earned, and the rest when it ended.
StreamIsSound(st, t) ==
    /\ st.start <= t /\ st.withdrawn = st.paid
    /\ st.active => st.refunded = 0 /\ st.paid <= EarnedAt(st, t)
    /\ ~st.active => st.paid + st.refunded = st.deposit /\ st.paid = EarnedAt(st, t)

Kept(st) == st.deposit - (st.paid + st.refunded)

\* The contract holds what the streams keep and what the mentors earned.
StreamsInv ==
    /\ now \in Nat /\ wallet \in Nat /\ mentor_revenue \in Nat /\ sub_escrow \in Nat
    /\ streams \in Seq(StreamRecord)
    /\ \A i \in DOMAIN streams : StreamIsSound(streams[i], now)
    /\ sub_escrow = mentor_revenue + SumFunctionOnSet([i \in DOMAIN streams |-> Kept(streams[i])],
                                                      DOMAIN streams)

\* Subscriptions and streams.
SubscriptionInv == SubsInv /\ StreamsInv

\* What the invariant says of a subscription: the allowance, the months, the sessions.
LEMMA AllowanceIsRespected == SubsInv => AllowanceIsTheLimit /\ MonthsAreChargedOnce /\ SessionsArePaid
<1> SUFFICES ASSUME SubsInv, NEW i \in DOMAIN subs
             PROVE  /\ sub_history[i].pulled <= sub_history[i].authorized
                    /\ sub_history[i].payments <= 1 + (now - sub_history[i].since + RenewalGrace) \div Month
                    /\ sub_history[i].sessions <= sub_history[i].payments * SessionsPerMonth
  BY DEF AllowanceIsTheLimit, MonthsAreChargedOnce, SessionsArePaid
<1>1. PICK s : s = subs[i]
  OBVIOUS
<1>2. PICK h : h = sub_history[i]
  OBVIOUS
<1>3. s \in SubRecord /\ h \in HistoryRecord /\ SubIsSound(s, h, now) /\ now \in Nat
  <2>1. i \in DOMAIN sub_history
    BY DEF SubsInv
  <2> QED BY <1>1, <1>2, <2>1 DEF SubsInv
<1>4. /\ s.allowance \in Nat /\ s.used \in Nat
      /\ h.since \in Nat /\ h.payments \in Nat /\ h.sessions \in Nat /\ h.authorized \in Nat /\ h.pulled \in Nat
  BY <1>3 DEF SubRecord, HistoryRecord
<1>5. /\ h.since <= now
      /\ h.payments * Month <= Month + (now - h.since) + RenewalGrace
      /\ h.pulled + s.allowance <= h.authorized
      /\ s.used <= SessionsPerMonth
      /\ h.sessions + SessionsPerMonth <= h.payments * SessionsPerMonth + s.used
  BY <1>3 DEF SubIsSound
<1>6. h.pulled <= h.authorized
  BY <1>4, <1>5
<1>7. h.payments * SessionsPerMonth \in Nat /\ SessionsPerMonth \in Nat /\ Month \in Nat \ {0} /\ RenewalGrace \in Nat
  BY <1>4, SubscriptionAssumption
<1>8. h.sessions <= h.payments * SessionsPerMonth
  BY <1>4, <1>5, <1>7
<1>9. h.payments <= 1 + (now - h.since + RenewalGrace) \div Month
  <2>1. PICK x : x = now - h.since + RenewalGrace
    OBVIOUS
  <2>2. x \in Nat
    BY <1>3, <1>4, <1>5, <1>7, <2>1
  <2>3. PICK q : q = x \div Month
    OBVIOUS
  <2>4. q \in Nat /\ x < Month * (q + 1)
    BY <1>7, <2>2, <2>3, DivBounds
  <2>5. h.payments * Month <= Month + x
    BY <1>3, <1>4, <1>5, <1>7, <2>1
  <2>6. ASSUME h.payments >= q + 2 PROVE FALSE
    <3>1. PICK k \in Nat : h.payments = q + 2 + k
      <4>1. h.payments - (q + 2) \in Nat
        BY <1>4, <2>4, <2>6
      <4>2. h.payments = q + 2 + (h.payments - (q + 2))
        BY <1>4, <2>4
      <4> QED BY <4>1, <4>2
    <3>2. h.payments * Month = Month * (q + 1) + Month + k * Month
      BY <1>7, <2>4, <3>1
    <3>3. k * Month \in Nat /\ Month * (q + 1) \in Nat
      BY <1>7, <2>4, <3>1
    <3> QED BY <1>7, <2>2, <2>4, <2>5, <3>2, <3>3
  <2> QED BY <1>4, <2>1, <2>3, <2>4, <2>6
<1> QED BY <1>2, <1>6, <1>8, <1>9

\* A subscription ages.
LEMMA SubAges ==
  ASSUME NEW s \in SubRecord, NEW h \in HistoryRecord, NEW t \in Nat, NEW u \in Nat, t <= u,
         SubIsSound(s, h, t)
  PROVE  SubIsSound(s, h, u)
<1>1. h.since \in Nat /\ h.payments \in Nat
  BY DEF HistoryRecord
<1>2. h.payments * Month \in Nat /\ Month \in Nat /\ RenewalGrace \in Nat
  BY <1>1, SubscriptionAssumption
<1>3. h.since <= u /\ h.payments * Month <= Month + (u - h.since) + RenewalGrace
  BY <1>1, <1>2 DEF SubIsSound
<1> QED BY <1>3 DEF SubIsSound

\* One subscription changes.
LEMMA SubChanges ==
  ASSUME SubsInv, now' = now, NEW i \in DOMAIN subs, NEW s \in SubRecord, NEW h \in HistoryRecord,
         SubIsSound(s, h, now),
         subs' = [subs EXCEPT ![i] = s], sub_history' = [sub_history EXCEPT ![i] = h]
  PROVE  SubsInv'
<1>1. /\ subs \in Seq(SubRecord) /\ sub_history \in Seq(HistoryRecord) /\ Len(sub_history) = Len(subs)
      /\ now \in Nat
  BY DEF SubsInv
<1>2. DOMAIN subs = 1 .. Len(subs) /\ DOMAIN sub_history = 1 .. Len(subs) /\ Len(subs) \in Nat
  BY <1>1
<1>3. /\ subs' \in Seq(SubRecord) /\ sub_history' \in Seq(HistoryRecord)
      /\ Len(subs') = Len(subs) /\ Len(sub_history') = Len(sub_history)
      /\ DOMAIN subs' = DOMAIN subs
  BY <1>1, <1>2
<1>4. \A j \in DOMAIN subs : SubIsSound(subs'[j], sub_history'[j], now)
  <2> SUFFICES ASSUME NEW j \in DOMAIN subs PROVE SubIsSound(subs'[j], sub_history'[j], now)
    OBVIOUS
  <2>1. CASE j = i
    <3>1. subs'[j] = s /\ sub_history'[j] = h
      BY <1>1, <1>2, <2>1
    <3> QED BY <3>1
  <2>2. CASE j # i
    <3>1. subs'[j] = subs[j] /\ sub_history'[j] = sub_history[j]
      BY <1>1, <1>2, <2>2
    <3> QED BY <3>1 DEF SubsInv
  <2> QED BY <2>1, <2>2
<1> QED BY <1>1, <1>3, <1>4 DEF SubsInv

\* Subscriptions wait while time passes.
LEMMA SubsRest ==
  ASSUME SubsInv, ClockMoves, UNCHANGED <<subs, sub_history>> PROVE SubsInv'
<1>1. now \in Nat /\ now' \in Nat /\ now <= now'
  BY DEF SubsInv, ClockMoves
<1>2. ASSUME NEW i \in DOMAIN subs PROVE SubIsSound(subs[i], sub_history[i], now')
  <2>1. subs[i] \in SubRecord /\ sub_history[i] \in HistoryRecord /\ SubIsSound(subs[i], sub_history[i], now)
    <3>1. i \in DOMAIN sub_history
      BY DEF SubsInv
    <3> QED BY <3>1 DEF SubsInv
  <2> QED BY <1>1, <2>1, SubAges
<1> QED BY <1>1, <1>2 DEF SubsInv

\* What a stream has earned grows with the time up to the deposit, and it stops with the stream.
LEMMA EarnedGrows ==
  ASSUME NEW st \in StreamRecord, NEW t \in Nat, NEW u \in Nat, st.start <= t, t <= u, st.active
  PROVE  EarnedAt(st, t) \in Nat /\ EarnedAt(st, t) <= EarnedAt(st, u) /\ EarnedAt(st, u) <= st.deposit
<1>1. st.start \in Nat /\ st.deposit \in Nat /\ StreamRate \in Nat
  BY SubscriptionAssumption DEF StreamRecord
<1>2. PICK x \in Nat : x = t - st.start
  BY <1>1
<1>3. PICK y \in Nat : y = u - st.start
  BY <1>1
<1>4. PICK k \in Nat : y = x + k
  <2>1. y - x \in Nat
    BY <1>1, <1>2, <1>3
  <2>2. y = x + (y - x)
    OBVIOUS
  <2> QED BY <2>1, <2>2
<1>5. PICK a \in Nat : a = x * StreamRate
  BY <1>1
<1>6. PICK b \in Nat : b = y * StreamRate
  BY <1>1
<1>7. a <= b
  <2>1. b = a + k * StreamRate /\ k * StreamRate \in Nat
    BY <1>1, <1>4, <1>5, <1>6
  <2> QED BY <2>1
<1>8. /\ EarnedAt(st, t) = IF a < st.deposit THEN a ELSE st.deposit
      /\ EarnedAt(st, u) = IF b < st.deposit THEN b ELSE st.deposit
  BY <1>2, <1>3, <1>5, <1>6 DEF EarnedAt
<1> QED BY <1>1, <1>7, <1>8

\* What a stream has earned grows with the time.
LEMMA StreamAges ==
  ASSUME NEW st \in StreamRecord, NEW t \in Nat, NEW u \in Nat, t <= u, StreamIsSound(st, t)
  PROVE  StreamIsSound(st, u)
<1>1. st.start \in Nat /\ st.paid \in Nat
  BY DEF StreamRecord
<1>2. CASE st.active
  <2>1. EarnedAt(st, t) \in Nat /\ EarnedAt(st, t) <= EarnedAt(st, u) /\ EarnedAt(st, u) <= st.deposit
    BY <1>2, EarnedGrows DEF StreamIsSound
  <2>2. st.deposit \in Nat
    BY DEF StreamRecord
  <2>3. EarnedAt(st, u) = st.deposit \/ EarnedAt(st, u) < st.deposit
    BY <2>1, <2>2 DEF EarnedAt
  <2>4. EarnedAt(st, u) \in Nat
    <3>1. u <= u /\ st.start <= u
      BY <1>1 DEF StreamIsSound
    <3> QED BY <1>2, <3>1, EarnedGrows
  <2> QED BY <1>1, <1>2, <2>1, <2>4 DEF StreamIsSound
<1>3. CASE ~st.active
  <2>1. EarnedAt(st, u) = EarnedAt(st, t)
    BY <1>3 DEF EarnedAt
  <2> QED BY <1>1, <1>3, <2>1 DEF StreamIsSound
<1> QED BY <1>2, <1>3

\* So streams stay sound while time passes.
LEMMA StreamsRest ==
  ASSUME StreamsInv, ClockMoves, UNCHANGED <<wallet, mentor_revenue, sub_escrow, streams>>
  PROVE  StreamsInv'
<1>1. now \in Nat /\ now' \in Nat /\ now <= now'
  BY DEF StreamsInv, ClockMoves
<1>2. ASSUME NEW i \in DOMAIN streams PROVE StreamIsSound(streams[i], now')
  <2>1. streams[i] \in StreamRecord /\ StreamIsSound(streams[i], now)
    BY DEF StreamsInv
  <2> QED BY <1>1, <2>1, StreamAges
<1> QED BY <1>1, <1>2 DEF StreamsInv

\* A payment for a subscription reaches the escrow and the mentors' books alike.
LEMMA StreamsArePaidApart ==
  ASSUME StreamsInv, UNCHANGED <<now, streams>>, route_payment(Price)
  PROVE  StreamsInv'
<1>1. /\ now \in Nat /\ wallet \in Nat /\ mentor_revenue \in Nat /\ sub_escrow \in Nat
      /\ Price \in Nat /\ SubFee \in 0 .. 10000
  BY SubscriptionAssumption DEF StreamsInv
<1>2. PICK fee : fee = (Price * SubFee) \div 10000
  OBVIOUS
<1>3. fee \in Nat /\ fee <= Price
  <2>1. SubFee \in Nat /\ SubFee <= 10000 /\ 10000 \in Nat \ {0}
    BY <1>1
  <2>2. PICK x : x = SubFee
    OBVIOUS
  <2>3. PICK d : d = 10000
    OBVIOUS
  <2>4. (Price * x) \div d \in Nat /\ (Price * x) \div d <= Price /\ ((Price * x) \div d) * d <= Price * x
    <3>1. x \in Nat /\ x <= d /\ d \in Nat \ {0}
      BY <2>1, <2>2, <2>3
    <3> QED BY <1>1, <3>1, ShareAtMost
  <2> QED BY <1>2, <2>2, <2>3, <2>4
<1>4. PICK m \in Nat : m = Price - fee
  BY <1>1, <1>3
<1>5. /\ Price <= wallet /\ wallet' = wallet - Price
      /\ sub_escrow' = sub_escrow + m /\ mentor_revenue' = mentor_revenue + m
  BY <1>2, <1>4 DEF route_payment
<1>6. PICK v : v = SumFunctionOnSet([i \in DOMAIN streams |-> Kept(streams[i])], DOMAIN streams)
  OBVIOUS
<1>7. sub_escrow = mentor_revenue + v
  BY <1>6 DEF StreamsInv
<1>8. v \in Int
  <2>1. PICK f : f = [i \in DOMAIN streams |-> Kept(streams[i])]
    OBVIOUS
  <2>2. PICK n \in Nat : n = Len(streams)
    BY DEF StreamsInv
  <2>3. PICK S : S = DOMAIN streams
    OBVIOUS
  <2>4. IsFiniteSet(S)
    <3>1. 1 \in Int /\ n \in Int
      BY <2>2
    <3>2. IsFiniteSet(1 .. n)
      BY ONLY <3>1, FS_Interval
    <3> QED BY <2>2, <2>3, <3>2 DEF StreamsInv
  <2>5. \A i \in S : f[i] \in Int
    <3>1. \A i \in S : streams[i] \in StreamRecord
      BY <2>3 DEF StreamsInv
    <3>2. \A x \in StreamRecord : Kept(x) \in Int
      BY DEF StreamRecord, Kept
    <3> QED BY <2>1, <2>3, <3>1, <3>2
  <2> QED BY <1>6, <2>1, <2>3, <2>4, <2>5, SumType
<1>9. sub_escrow' = mentor_revenue' + v /\ sub_escrow' \in Nat /\ mentor_revenue' \in Nat /\ wallet' \in Nat
  BY <1>1, <1>3, <1>4, <1>5, <1>7, <1>8
<1>10. now' = now /\ streams' = streams
  OBVIOUS
<1>11. sub_escrow' = mentor_revenue' + SumFunctionOnSet([i \in DOMAIN streams' |-> Kept(streams'[i])], DOMAIN streams')
  BY <1>6, <1>9, <1>10
<1>12. \A i \in DOMAIN streams : StreamIsSound(streams[i], now)
  BY DEF StreamsInv
<1>13. streams \in Seq(StreamRecord)
  BY DEF StreamsInv
<1> QED BY <1>1, <1>9, <1>10, <1>11, <1>12, <1>13 DEF StreamsInv

\* A new subscription is paid for one month.
LEMMA SubscribeStep == SubscriptionInv /\ subscribe => SubscriptionInv'
<1> SUFFICES ASSUME SubscriptionInv, subscribe PROVE SubscriptionInv'
  OBVIOUS
<1>1. StreamsInv'
  BY StreamsArePaidApart DEF SubscriptionInv, subscribe
<1>2. /\ subs \in Seq(SubRecord) /\ sub_history \in Seq(HistoryRecord) /\ Len(sub_history) = Len(subs)
      /\ now \in Nat /\ \A i \in DOMAIN subs : SubIsSound(subs[i], sub_history[i], now)
  BY DEF SubscriptionInv, SubsInv
<1>3. PICK s : s = [next_billing |-> now + Month, used |-> 0, status |-> "Active", allowance |-> 0]
  OBVIOUS
<1>4. PICK h : h = [since |-> now, payments |-> 1, sessions |-> 0, authorized |-> 0, pulled |-> 0]
  OBVIOUS
<1>5. /\ s \in SubRecord /\ s.next_billing = now + Month /\ s.used = 0 /\ s.allowance = 0
      /\ h \in HistoryRecord /\ h.since = now /\ h.payments = 1 /\ h.sessions = 0
      /\ h.authorized = 0 /\ h.pulled = 0
  BY <1>2, <1>3, <1>4, SubscriptionAssumption DEF SubRecord, HistoryRecord
<1>6. SubIsSound(s, h, now)
  BY <1>2, <1>5, SubscriptionAssumption DEF SubIsSound
<1>7. PICK n \in Nat : n = Len(subs)
  BY <1>2
<1>8. PICK t : t = subs'
  OBVIOUS
<1>9. PICK u : u = sub_history'
  OBVIOUS
<1>10. /\ t \in Seq(SubRecord) /\ Len(t) = n + 1
       /\ DOMAIN subs = 1 .. n /\ DOMAIN t = 1 .. n + 1
       /\ \A i \in 1 .. n : t[i] = subs[i] /\ subs[i] \in SubRecord
       /\ t[n + 1] = s
  <2>1. t = Append(subs, s)
    BY <1>3, <1>8 DEF subscribe
  <2> QED BY <1>2, <1>5, <1>7, <2>1, Appended
<1>11. /\ u \in Seq(HistoryRecord) /\ Len(u) = n + 1
       /\ \A i \in 1 .. n : u[i] = sub_history[i] /\ sub_history[i] \in HistoryRecord
       /\ u[n + 1] = h
  <2>1. u = Append(sub_history, h)
    BY <1>4, <1>9 DEF subscribe
  <2> QED BY <1>2, <1>5, <1>7, <2>1, Appended
<1>12. \A i \in 1 .. n + 1 : SubIsSound(t[i], u[i], now)
  <2>1. \A i \in 1 .. n : SubIsSound(t[i], u[i], now)
    BY <1>2, <1>10, <1>11
  <2>2. \A i \in 1 .. n + 1 : i \in 1 .. n \/ i = n + 1
    BY <1>7
  <2> QED BY <1>6, <1>10, <1>11, <2>1, <2>2
<1>13. now' = now
  BY DEF subscribe
<1>14. SubsInv'
  BY <1>2, <1>8, <1>9, <1>10, <1>11, <1>12, <1>13 DEF SubsInv
<1> QED BY <1>1, <1>14 DEF SubscriptionInv

\* A step of one subscription, with the streams left alone or the payment routed.
LEMMA SubStep ==
  ASSUME SubscriptionInv, NEW i \in DOMAIN subs,
         \/ renew_expires(i) \/ renew(i) \/ cancel_subscription(i) \/ pause_subscription(i)
         \/ use_session(i) \/ check_expiry(i) \/ \E max \in Allowances : authorize_renewal(i, max)
  PROVE  SubscriptionInv'
<1>1. PICK s : s = subs[i]
  OBVIOUS
<1>2. PICK h : h = sub_history[i]
  OBVIOUS
<1>3. /\ s \in SubRecord /\ h \in HistoryRecord /\ SubIsSound(s, h, now) /\ now \in Nat
      /\ subs \in Seq(SubRecord) /\ sub_history \in Seq(HistoryRecord)
      /\ DOMAIN sub_history = DOMAIN subs
  <2>1. /\ subs \in Seq(SubRecord) /\ sub_history \in Seq(HistoryRecord)
        /\ Len(sub_history) = Len(subs) /\ now \in Nat /\ SubIsSound(subs[i], sub_history[i], now)
    BY DEF SubscriptionInv, SubsInv
  <2>2. subs[i] \in SubRecord /\ sub_history[i] \in HistoryRecord /\ DOMAIN sub_history = DOMAIN subs
    BY <2>1
  <2> QED BY <1>1, <1>2, <2>1, <2>2
<1>4. /\ s.allowance \in Nat /\ s.used \in Nat /\ s.next_billing \in Nat
      /\ h.since \in Nat /\ h.payments \in Nat /\ h.sessions \in Nat /\ h.authorized \in Nat /\ h.pulled \in Nat
  BY <1>3 DEF SubRecord, HistoryRecord
<1>5. /\ h.since <= now
      /\ s.next_billing = h.since + h.payments * Month
      /\ h.payments * Month <= Month + (now - h.since) + RenewalGrace
      /\ h.pulled + s.allowance <= h.authorized
      /\ s.used <= SessionsPerMonth
      /\ h.sessions + SessionsPerMonth <= h.payments * SessionsPerMonth + s.used
  BY <1>3 DEF SubIsSound
<1>6. /\ Price \in Nat /\ SessionsPerMonth \in Nat /\ Month \in Nat /\ RenewalGrace \in Nat
      /\ Allowances \subseteq Nat
      /\ h.payments * SessionsPerMonth \in Nat /\ h.payments * Month \in Nat
  BY <1>4, SubscriptionAssumption
<1>7. SubsInv /\ StreamsInv
  BY DEF SubscriptionInv
\* The steps that only change the status, or take the allowance away.
<1>8. ASSUME NEW c \in SubRecord, c.next_billing = s.next_billing, c.used = s.used,
             c.allowance = s.allowance \/ c.allowance = 0,
             subs' = [subs EXCEPT ![i] = c],
             UNCHANGED <<now, wallet, sub_escrow, mentor_revenue, streams, sub_history>>
      PROVE  SubscriptionInv'
  <2>1. SubIsSound(c, h, now)
    BY <1>4, <1>5, <1>8 DEF SubIsSound
  <2>2. sub_history' = [sub_history EXCEPT ![i] = h]
    BY <1>2, <1>3, <1>8
  <2>3. SubsInv'
    BY <1>3, <1>7, <1>8, <2>1, <2>2, SubChanges
  <2>4. ClockMoves
    BY <1>8 DEF ClockMoves
  <2>5. StreamsInv'
    BY <1>7, <1>8, <2>4, StreamsRest
  <2> QED BY <2>3, <2>5 DEF SubscriptionInv
<1>9. ASSUME renew_expires(i) PROVE SubscriptionInv'
  <2>1. PICK c : c = expired(s)
    OBVIOUS
  <2>2. c \in SubRecord /\ c.next_billing = s.next_billing /\ c.used = s.used /\ c.allowance = 0
    BY <1>3, <2>1 DEF expired, SubRecord
  <2>3. /\ subs' = [subs EXCEPT ![i] = c]
        /\ UNCHANGED <<now, wallet, sub_escrow, mentor_revenue, streams, sub_history>>
    BY <1>1, <1>9, <2>1 DEF renew_expires
  <2> QED BY <1>8, <2>2, <2>3
<1>10. ASSUME cancel_subscription(i) \/ pause_subscription(i) \/ check_expiry(i) PROVE SubscriptionInv'
  <2>1. PICK x \in {"Paused", "Cancelled", "Expired"} :
          /\ subs' = [subs EXCEPT ![i].status = x]
          /\ UNCHANGED <<now, wallet, sub_escrow, mentor_revenue, streams, sub_history>>
    BY <1>10 DEF cancel_subscription, pause_subscription, check_expiry
  <2>2. PICK c : c = [s EXCEPT !.status = x]
    OBVIOUS
  <2>3. /\ c \in SubRecord /\ c.next_billing = s.next_billing /\ c.used = s.used
        /\ c.allowance = s.allowance
    BY <1>3, <2>2 DEF SubRecord
  <2>4. subs' = [subs EXCEPT ![i] = c]
    BY <1>1, <2>1, <2>2
  <2> QED BY <1>8, <2>1, <2>3, <2>4
<1>11. ASSUME use_session(i) PROVE SubscriptionInv'
  <2>1. /\ s.used < SessionsPerMonth
        /\ subs' = [subs EXCEPT ![i].used = @ + 1]
        /\ sub_history' = [sub_history EXCEPT ![i].sessions = @ + 1]
        /\ UNCHANGED <<now, wallet, sub_escrow, mentor_revenue, streams>>
    BY <1>1, <1>11 DEF use_session, sessions_left
  <2>2. PICK c : c = [s EXCEPT !.used = @ + 1]
    OBVIOUS
  <2>3. PICK g : g = [h EXCEPT !.sessions = @ + 1]
    OBVIOUS
  <2>4. /\ c \in SubRecord /\ c.next_billing = s.next_billing /\ c.used = s.used + 1
        /\ c.allowance = s.allowance
    <3>1. PICK x \in Nat : x = s.used + 1
      BY <1>4
    <3>2. c = [s EXCEPT !.used = x]
      BY <2>2, <3>1
    <3> QED BY <1>3, <3>1, <3>2 DEF SubRecord
  <2>5. /\ g \in HistoryRecord /\ g.since = h.since /\ g.payments = h.payments
        /\ g.sessions = h.sessions + 1 /\ g.authorized = h.authorized /\ g.pulled = h.pulled
    <3>1. PICK x \in Nat : x = h.sessions + 1
      BY <1>4
    <3>2. g = [h EXCEPT !.sessions = x]
      BY <2>3, <3>1
    <3> QED BY <1>3, <3>1, <3>2 DEF HistoryRecord
  <2>6. SubIsSound(c, g, now)
    BY <1>4, <1>5, <1>6, <2>1, <2>4, <2>5 DEF SubIsSound
  <2>7. subs' = [subs EXCEPT ![i] = c] /\ sub_history' = [sub_history EXCEPT ![i] = g]
    BY <1>1, <1>2, <2>1, <2>2, <2>3
  <2>8. SubsInv'
    BY <1>7, <2>1, <2>4, <2>5, <2>6, <2>7, SubChanges
  <2>9. ClockMoves
    BY <2>1 DEF ClockMoves
  <2>10. StreamsInv'
    BY <1>7, <2>1, <2>9, StreamsRest
  <2> QED BY <2>8, <2>10 DEF SubscriptionInv
<1>12. ASSUME NEW max \in Allowances, authorize_renewal(i, max) PROVE SubscriptionInv'
  <2>1. /\ subs' = [subs EXCEPT ![i].allowance = max]
        /\ sub_history' = [sub_history EXCEPT ![i].authorized = max, ![i].pulled = 0]
        /\ UNCHANGED <<now, wallet, sub_escrow, mentor_revenue, streams>>
    BY <1>12 DEF authorize_renewal
  <2>2. PICK c : c = [s EXCEPT !.allowance = max]
    OBVIOUS
  <2>3. PICK g : g = [h EXCEPT !.authorized = max, !.pulled = 0]
    OBVIOUS
  <2>10. max \in Nat
    BY <1>6
  <2>4. /\ c \in SubRecord /\ c.next_billing = s.next_billing /\ c.used = s.used
        /\ c.allowance = max
    BY <1>3, <2>2, <2>10 DEF SubRecord
  <2>5. /\ g \in HistoryRecord /\ g.since = h.since /\ g.payments = h.payments
        /\ g.sessions = h.sessions /\ g.authorized = max /\ g.pulled = 0
    BY <1>3, <2>3, <2>10 DEF HistoryRecord
  <2>6. SubIsSound(c, g, now)
    BY <1>4, <1>5, <1>6, <2>4, <2>5, <2>10 DEF SubIsSound
  <2>7. subs' = [subs EXCEPT ![i] = c] /\ sub_history' = [sub_history EXCEPT ![i] = g]
    BY <1>1, <1>2, <1>3, <2>1, <2>2, <2>3
  <2>8. SubsInv'
    BY <1>7, <2>1, <2>4, <2>5, <2>6, <2>7, SubChanges
  <2>9. ClockMoves
    BY <2>1 DEF ClockMoves
  <2>11. StreamsInv'
    BY <1>7, <2>1, <2>9, StreamsRest
  <2> QED BY <2>8, <2>11 DEF SubscriptionInv
<1>13. ASSUME renew(i) PROVE SubscriptionInv'
  <2>1. /\ now + RenewalGrace >= s.next_billing /\ s.allowance >= Price
        /\ subs' = [subs EXCEPT ![i].allowance = allowance_after(s),
                                ![i].next_billing = next_billing_after(s), ![i].used = 0]
        /\ sub_history' = [sub_history EXCEPT ![i].payments = @ + 1, ![i].pulled = @ + Price]
        /\ route_payment(Price) /\ UNCHANGED <<now, streams>>
    BY <1>1, <1>13 DEF renew
  <2>2. PICK c : c = [s EXCEPT !.allowance = allowance_after(s), !.next_billing = next_billing_after(s), !.used = 0]
    OBVIOUS
  <2>3. PICK g : g = [h EXCEPT !.payments = @ + 1, !.pulled = @ + Price]
    OBVIOUS
  <2>4. /\ c \in SubRecord /\ c.next_billing = s.next_billing + Month /\ c.used = 0
        /\ c.allowance = s.allowance - Price
    <3>1. s.allowance - Price \in Nat /\ s.next_billing + Month \in Nat
      BY <1>4, <1>6, <2>1
    <3>2. allowance_after(s) = s.allowance - Price /\ next_billing_after(s) = s.next_billing + Month
      BY DEF allowance_after, next_billing_after
    <3> QED BY <1>3, <2>2, <3>1, <3>2 DEF SubRecord
  <2>5. /\ g \in HistoryRecord /\ g.since = h.since /\ g.payments = h.payments + 1
        /\ g.sessions = h.sessions /\ g.authorized = h.authorized /\ g.pulled = h.pulled + Price
    <3>1. PICK x \in Nat : x = h.payments + 1
      BY <1>4
    <3>2. PICK y \in Nat : y = h.pulled + Price
      BY <1>4, <1>6
    <3>3. g = [h EXCEPT !.payments = x, !.pulled = y]
      BY <2>3, <3>1, <3>2
    <3> QED BY <1>3, <3>1, <3>2, <3>3 DEF HistoryRecord
  <2>6. SubIsSound(c, g, now)
    <3>1. /\ (h.payments + 1) * Month = h.payments * Month + Month
          /\ (h.payments + 1) * SessionsPerMonth = h.payments * SessionsPerMonth + SessionsPerMonth
      BY <1>4, <1>6
    <3>2. /\ g.since <= now
          /\ c.next_billing = g.since + g.payments * Month
          /\ g.payments * Month <= Month + (now - g.since) + RenewalGrace
      <4>1. PICK m \in Nat : m = h.payments * Month
        BY <1>6
      <4>2. g.payments * Month = m + Month
        BY <2>5, <3>1, <4>1
      <4>3. s.next_billing = h.since + m
        BY <1>5, <4>1
      <4>4. /\ h.since <= now /\ h.since \in Nat /\ now \in Nat /\ Month \in Nat /\ RenewalGrace \in Nat
            /\ now + RenewalGrace >= s.next_billing
            /\ c.next_billing = s.next_billing + Month /\ g.since = h.since
        BY <1>3, <1>4, <1>5, <1>6, <2>1, <2>4, <2>5
      <4> QED BY ONLY <4>1, <4>2, <4>3, <4>4
    <3>3. g.pulled + c.allowance <= g.authorized /\ c.used <= SessionsPerMonth
      BY <1>4, <1>5, <1>6, <2>1, <2>4, <2>5
    <3>4. g.sessions + SessionsPerMonth <= g.payments * SessionsPerMonth + c.used
      BY <1>4, <1>5, <1>6, <2>4, <2>5, <3>1
    <3> QED BY <3>2, <3>3, <3>4 DEF SubIsSound
  <2>7. subs' = [subs EXCEPT ![i] = c] /\ sub_history' = [sub_history EXCEPT ![i] = g]
    BY <1>1, <1>2, <1>3, <2>1, <2>2, <2>3
  <2>8. SubsInv'
    BY <1>7, <2>1, <2>4, <2>5, <2>6, <2>7, SubChanges
  <2>9. StreamsInv'
    BY <1>7, <2>1, StreamsArePaidApart
  <2> QED BY <2>8, <2>9 DEF SubscriptionInv
<1> QED BY <1>9, <1>10, <1>11, <1>12, <1>13

\* Subscriptions and streams wait while time passes.
LEMMA SubscriptionRests ==
  ASSUME SubscriptionInv, ClockMoves, UNCHANGED subscription_vars PROVE SubscriptionInv'
<1>1. UNCHANGED <<subs, sub_history>> /\ UNCHANGED <<wallet, mentor_revenue, sub_escrow, streams>>
  BY DEF subscription_vars
<1> QED BY <1>1, SubsRest, StreamsRest DEF SubscriptionInv

\* There is no subscription and no stream.
LEMMA SubscriptionStarts == SubscriptionInit => SubscriptionInv
<1> SUFFICES ASSUME SubscriptionInit PROVE SubscriptionInv
  OBVIOUS
<1>1. /\ now = 0 /\ wallet = Wallet /\ sub_escrow = 0 /\ mentor_revenue = 0
      /\ subs = << >> /\ streams = << >> /\ sub_history = << >>
  BY DEF SubscriptionInit
<1>2. SubsInv
  BY <1>1 DEF SubsInv
<1>3. DOMAIN streams = {}
  BY <1>1
<1>4. StreamsInv
  BY <1>1, <1>3, SumEmpty, SubscriptionAssumption DEF StreamsInv
<1> QED BY <1>2, <1>4 DEF SubscriptionInv

\* A stream starts with its deposit unpaid.
LEMMA StreamStarted ==
  ASSUME SubscriptionInv, NEW d \in StreamDeposits, subscribe_streaming(d)
  PROVE  SubscriptionInv'
<1>1. /\ now \in Nat /\ wallet \in Nat /\ mentor_revenue \in Nat /\ sub_escrow \in Nat
      /\ streams \in Seq(StreamRecord) /\ \A i \in DOMAIN streams : StreamIsSound(streams[i], now)
      /\ d \in Nat
  BY SubscriptionAssumption DEF SubscriptionInv, StreamsInv
<1>2. PICK e : e = [start |-> now, deposit |-> d, withdrawn |-> 0, active |-> TRUE,
                    ended_at |-> 0, paid |-> 0, refunded |-> 0]
  OBVIOUS
<1>3. /\ d <= wallet /\ wallet' = wallet - d /\ sub_escrow' = sub_escrow + d
      /\ streams' = Append(streams, e)
      /\ UNCHANGED <<now, mentor_revenue, subs, sub_history>>
  BY <1>2 DEF subscribe_streaming
<1>4. /\ e \in StreamRecord /\ e.start = now /\ e.deposit = d /\ e.withdrawn = 0 /\ e.active
      /\ e.paid = 0 /\ e.refunded = 0
  BY <1>1, <1>2 DEF StreamRecord
<1>5. StreamIsSound(e, now)
  <2>1. EarnedAt(e, now) \in Nat
    <3>1. e.start <= now /\ now <= now
      BY <1>1, <1>4
    <3> QED BY <1>1, <1>4, <3>1, EarnedGrows
  <2> QED BY <1>1, <1>4, <2>1 DEF StreamIsSound
<1>6. Kept(e) = d
  BY <1>1, <1>4 DEF Kept
<1>7. PICK n \in Nat : n = Len(streams)
  BY <1>1
<1>8. PICK t : t = streams'
  OBVIOUS
<1>9. /\ t \in Seq(StreamRecord) /\ Len(t) = n + 1
      /\ DOMAIN streams = 1 .. n /\ DOMAIN t = 1 .. n + 1
      /\ \A i \in 1 .. n : t[i] = streams[i] /\ streams[i] \in StreamRecord
      /\ t[n + 1] = e
  <2>1. t = Append(streams, e)
    BY <1>3, <1>8
  <2> QED BY <1>1, <1>4, <1>7, <2>1, Appended
<1>10. \A i \in 1 .. n + 1 : StreamIsSound(t[i], now)
  <2>1. \A i \in 1 .. n : StreamIsSound(t[i], now)
    BY <1>1, <1>9
  <2>2. \A i \in 1 .. n + 1 : i \in 1 .. n \/ i = n + 1
    BY <1>7
  <2> QED BY <1>5, <1>9, <2>1, <2>2
<1>11. PICK f : f = [i \in DOMAIN streams |-> Kept(streams[i])]
  OBVIOUS
<1>12. PICK g : g = [i \in DOMAIN t |-> Kept(t[i])]
  OBVIOUS
<1>13. \A i \in 1 .. n : f[i] \in Int /\ g[i] = f[i]
  <2>1. \A x \in StreamRecord : Kept(x) \in Int
    BY DEF StreamRecord, Kept
  <2>2. \A i \in 1 .. n : i \in 1 .. n + 1
    BY <1>7
  <2> QED BY <1>9, <1>11, <1>12, <2>1, <2>2
<1>14. g[n + 1] = d
  <2>1. n + 1 \in 1 .. n + 1
    BY <1>7
  <2> QED BY <1>6, <1>9, <1>12, <2>1
<1>15. sub_escrow = mentor_revenue + SumFunctionOnSet(f, 1 .. n)
  BY <1>9, <1>11 DEF SubscriptionInv, StreamsInv
<1>16. sub_escrow' = mentor_revenue + SumFunctionOnSet(g, 1 .. n + 1)
  <2>1. g[n + 1] \in Int
    BY <1>1, <1>14
  <2>2. /\ SumFunctionOnSet(g, 1 .. n + 1) = SumFunctionOnSet(f, 1 .. n) + g[n + 1]
        /\ SumFunctionOnSet(f, 1 .. n) \in Int
    BY <1>13, <2>1, SumNext
  <2> QED BY <1>1, <1>3, <1>14, <1>15, <2>2
<1>17. wallet' \in Nat /\ sub_escrow' \in Nat
  BY <1>1, <1>3
<1>18. StreamsInv'
  BY <1>1, <1>3, <1>8, <1>9, <1>10, <1>12, <1>16, <1>17 DEF StreamsInv
<1>19. SubsInv'
  <2>1. ClockMoves
    BY <1>3 DEF ClockMoves
  <2> QED BY <1>3, <2>1, SubsRest DEF SubscriptionInv
<1> QED BY <1>18, <1>19 DEF SubscriptionInv

\* One stream changes, and the escrow by what leaves it.
LEMMA StreamChanges ==
  ASSUME StreamsInv, now' = now, mentor_revenue' = mentor_revenue, wallet' \in Nat,
         NEW i \in DOMAIN streams, NEW e \in StreamRecord, StreamIsSound(e, now),
         streams' = [streams EXCEPT ![i] = e],
         sub_escrow' \in Nat, sub_escrow' = sub_escrow - (Kept(streams[i]) - Kept(e))
  PROVE  StreamsInv'
<1>1. /\ now \in Nat /\ mentor_revenue \in Nat /\ sub_escrow \in Nat
      /\ streams \in Seq(StreamRecord) /\ \A j \in DOMAIN streams : StreamIsSound(streams[j], now)
  BY DEF StreamsInv
<1>2. PICK n \in Nat : n = Len(streams)
  BY <1>1
<1>3. PICK S : S = DOMAIN streams
  OBVIOUS
<1>4. S = 1 .. n /\ IsFiniteSet(S)
  <2>1. 1 \in Int /\ n \in Int
    BY <1>2
  <2>2. IsFiniteSet(1 .. n)
    BY ONLY <2>1, FS_Interval
  <2> QED BY <1>1, <1>2, <1>3, <2>2
<1>5. PICK t : t = streams'
  OBVIOUS
<1>6. /\ t \in Seq(StreamRecord) /\ DOMAIN t = S /\ t[i] = e
      /\ \A j \in S \ {i} : t[j] = streams[j]
  BY <1>1, <1>3, <1>5
<1>7. \A j \in S : streams[j] \in StreamRecord
  BY <1>1, <1>3
<1>8. \A x \in StreamRecord : Kept(x) \in Int
  BY DEF StreamRecord, Kept
<1>9. PICK f : f = [j \in S |-> Kept(streams[j])]
  OBVIOUS
<1>10. PICK g : g = [j \in S |-> Kept(t[j])]
  OBVIOUS
<1>11. i \in S /\ g[i] = Kept(e) /\ f[i] = Kept(streams[i])
  BY <1>3, <1>6, <1>9, <1>10
<1>12. \A j \in S \ {i} : f[j] = g[j]
  BY <1>6, <1>9, <1>10
<1>13. \A j \in S : f[j] \in Int
  BY <1>7, <1>8, <1>9
<1>14. \A j \in S : g[j] \in Int
  <2>1. g[i] \in Int
    BY <1>8, <1>11
  <2> QED BY <1>12, <1>13, <2>1
<1>15. SumFunctionOnSet(g, S) = SumFunctionOnSet(f, S) + (g[i] - f[i])
  BY <1>4, <1>11, <1>12, <1>13, <1>14, SumChange
<1>16. SumFunctionOnSet(f, S) \in Int
  BY <1>4, <1>13, SumType
<1>17. sub_escrow = mentor_revenue + SumFunctionOnSet(f, S)
  BY <1>3, <1>9 DEF StreamsInv
<1>18. f[i] \in Int /\ g[i] \in Int
  BY <1>11, <1>13, <1>14
<1>19. sub_escrow' = mentor_revenue + SumFunctionOnSet(g, S)
  BY <1>1, <1>11, <1>15, <1>16, <1>17, <1>18
<1>20. \A j \in S : StreamIsSound(t[j], now)
  BY <1>1, <1>3, <1>6
<1> QED BY <1>1, <1>5, <1>6, <1>10, <1>19, <1>20 DEF StreamsInv

\* A withdrawal pays what the stream has earned and was not paid.
LEMMA StreamPaid ==
  ASSUME SubscriptionInv, NEW i \in DOMAIN streams, withdraw_earned(i) \/ cancel_streaming(i)
  PROVE  SubscriptionInv'
<1>1. PICK st : st = streams[i]
  OBVIOUS
<1>2. /\ now \in Nat /\ wallet \in Nat /\ mentor_revenue \in Nat /\ sub_escrow \in Nat
      /\ streams \in Seq(StreamRecord) /\ st \in StreamRecord /\ StreamIsSound(st, now)
  BY <1>1 DEF SubscriptionInv, StreamsInv
<1>3. /\ st.start \in Nat /\ st.deposit \in Nat /\ st.withdrawn \in Nat /\ st.paid \in Nat
      /\ st.refunded \in Nat /\ st.active \in BOOLEAN
  BY <1>2 DEF StreamRecord
<1>4. PICK e : e = EarnedAt(st, now)
  OBVIOUS
<1>5. earned(st) = e
  BY <1>4 DEF earned, EarnedAt
<1>6. /\ st.start <= now /\ st.withdrawn = st.paid
      /\ st.active => st.refunded = 0 /\ st.paid <= e
      /\ ~st.active => st.paid + st.refunded = st.deposit /\ st.paid = e
  BY <1>2, <1>4 DEF StreamIsSound
<1>7. st.active => e \in Nat /\ e <= st.deposit
  <2> SUFFICES ASSUME st.active PROVE e \in Nat /\ e <= st.deposit
    OBVIOUS
  <2>1. now <= now
    BY <1>2
  <2> QED BY <1>2, <1>4, <1>6, <2>1, EarnedGrows
<1>8. StreamsInv
  BY DEF SubscriptionInv
<1>9. CASE withdraw_earned(i)
  <2>1. /\ e - st.withdrawn > 0 /\ e - st.withdrawn <= sub_escrow
        /\ streams' = [streams EXCEPT ![i].withdrawn = @ + (e - st.withdrawn), ![i].paid = @ + (e - st.withdrawn)]
        /\ sub_escrow' = sub_escrow - (e - st.withdrawn)
        /\ UNCHANGED <<now, wallet, mentor_revenue, subs, sub_history>>
    BY <1>1, <1>5, <1>9 DEF withdraw_earned
  <2>2. st.active
    BY <1>3, <1>6, <2>1
  <2>3. e \in Nat /\ e <= st.deposit /\ st.paid <= e /\ st.refunded = 0
    BY <1>6, <1>7, <2>2
  <2>4. PICK c : c = [st EXCEPT !.withdrawn = e, !.paid = e]
    OBVIOUS
  <2>5. /\ c \in StreamRecord /\ c.start = st.start /\ c.deposit = st.deposit /\ c.withdrawn = e
        /\ c.active = st.active /\ c.ended_at = st.ended_at /\ c.paid = e /\ c.refunded = st.refunded
    BY <1>2, <2>3, <2>4 DEF StreamRecord
  <2>6. streams' = [streams EXCEPT ![i] = c]
    <3>1. st.withdrawn + (e - st.withdrawn) = e /\ st.paid + (e - st.withdrawn) = e
      BY <1>3, <1>6, <2>3
    <3>2. streams' = [streams EXCEPT ![i] = [st EXCEPT !.withdrawn = st.withdrawn + (e - st.withdrawn),
                                                       !.paid = st.paid + (e - st.withdrawn)]]
      BY <1>1, <2>1
    <3> QED BY <2>4, <3>1, <3>2
  <2>7. EarnedAt(c, now) = e
    BY <1>4, <2>5 DEF EarnedAt
  <2>8. StreamIsSound(c, now)
    BY <1>6, <2>2, <2>3, <2>5, <2>7 DEF StreamIsSound
  <2>9. Kept(streams[i]) - Kept(c) = e - st.withdrawn
    BY <1>1, <1>3, <1>6, <2>3, <2>5 DEF Kept
  <2>10. sub_escrow' \in Nat
    BY <1>2, <1>3, <2>1, <2>3
  <2>11. StreamsInv'
    BY <1>2, <1>8, <2>1, <2>5, <2>6, <2>8, <2>9, <2>10, StreamChanges
  <2>12. SubsInv'
    <3>1. ClockMoves
      BY <2>1 DEF ClockMoves
    <3> QED BY <2>1, <3>1, SubsRest DEF SubscriptionInv
  <2> QED BY <2>11, <2>12 DEF SubscriptionInv
<1>10. CASE cancel_streaming(i)
  <2>1. PICK due : due = e - st.withdrawn
    OBVIOUS
  <2>2. PICK r : r = st.deposit - e
    OBVIOUS
  <2>3. /\ st.active /\ due + r <= sub_escrow
        /\ streams' = [streams EXCEPT ![i] = [st EXCEPT !.active = FALSE, !.ended_at = now, !.withdrawn = e,
                                                        !.paid = @ + due, !.refunded = r]]
        /\ sub_escrow' = sub_escrow - due - r /\ wallet' = wallet + r
        /\ UNCHANGED <<now, mentor_revenue, subs, sub_history>>
    BY <1>1, <1>5, <1>10, <2>1, <2>2 DEF cancel_streaming, learner_refund
  <2>4. /\ e \in Nat /\ e <= st.deposit /\ st.paid <= e /\ st.refunded = 0
        /\ r \in Nat /\ due \in Nat /\ st.paid + due = e
    BY <1>3, <1>6, <1>7, <2>1, <2>2, <2>3
  <2>5. PICK c : c = [st EXCEPT !.active = FALSE, !.ended_at = now, !.withdrawn = e, !.paid = e, !.refunded = r]
    OBVIOUS
  <2>6. /\ c \in StreamRecord /\ c.start = st.start /\ c.deposit = st.deposit /\ c.withdrawn = e
        /\ c.active = FALSE /\ c.ended_at = now /\ c.paid = e /\ c.refunded = r
    BY <1>2, <2>4, <2>5 DEF StreamRecord
  <2>7. streams' = [streams EXCEPT ![i] = c]
    BY <2>3, <2>4, <2>5
  <2>8. EarnedAt(c, now) = e
    BY <1>4, <2>3, <2>6 DEF EarnedAt
  <2>9. StreamIsSound(c, now)
    BY <1>3, <1>6, <2>2, <2>4, <2>6, <2>8 DEF StreamIsSound
  <2>10. Kept(streams[i]) - Kept(c) = due + r
    BY <1>1, <1>3, <2>1, <2>2, <2>4, <2>6 DEF Kept
  <2>11. sub_escrow' \in Nat /\ wallet' \in Nat /\ sub_escrow' = sub_escrow - (Kept(streams[i]) - Kept(c))
    BY <1>2, <2>3, <2>4, <2>10
  <2>12. StreamsInv'
    BY <1>8, <2>3, <2>6, <2>7, <2>9, <2>11, StreamChanges
  <2>13. SubsInv'
    <3>1. ClockMoves
      BY <2>3 DEF ClockMoves
    <3> QED BY <2>3, <3>1, SubsRest DEF SubscriptionInv
  <2> QED BY <2>12, <2>13 DEF SubscriptionInv
<1> QED BY <1>9, <1>10

\* Every call of the subscription contract keeps its invariant.
LEMMA SubscriptionStep == SubscriptionInv /\ SubscriptionNext => SubscriptionInv'
<1> SUFFICES ASSUME SubscriptionInv, SubscriptionNext PROVE SubscriptionInv'
  OBVIOUS
<1>1. CASE subscribe
  BY <1>1, SubscribeStep
<1>2. ASSUME NEW i \in DOMAIN subs,
             \/ renew_expires(i) \/ renew(i) \/ cancel_subscription(i) \/ pause_subscription(i)
             \/ use_session(i) \/ check_expiry(i) \/ \E max \in Allowances : authorize_renewal(i, max)
      PROVE  SubscriptionInv'
  BY <1>2, SubStep
<1>3. ASSUME NEW d \in StreamDeposits, subscribe_streaming(d) PROVE SubscriptionInv'
  BY <1>3, StreamStarted
<1>4. ASSUME NEW i \in DOMAIN streams, withdraw_earned(i) \/ cancel_streaming(i) PROVE SubscriptionInv'
  BY <1>4, StreamPaid
<1>5. CASE SubscriptionTick
  <2>1. ClockMoves /\ UNCHANGED subscription_vars
    BY <1>5 DEF SubscriptionTick, CloseLedger, ClockMoves
  <2> QED BY <2>1, SubscriptionRests
<1> QED BY <1>1, <1>2, <1>3, <1>4, <1>5 DEF SubscriptionNext

\* A stream that is sound pays no more than its deposit.
LEMMA StreamsPayOnce == StreamsInv => StreamsPayTheirDeposit
<1> SUFFICES ASSUME StreamsInv PROVE StreamsPayTheirDeposit
  OBVIOUS
<1>1. \A i \in DOMAIN streams : streams[i] \in StreamRecord /\ StreamIsSound(streams[i], now)
  BY DEF StreamsInv
<1>2. ASSUME NEW st \in StreamRecord, StreamIsSound(st, now)
      PROVE  st.paid + st.refunded <= st.deposit /\ (~st.active => st.paid + st.refunded = st.deposit)
  <2>1. /\ st.start \in Nat /\ st.deposit \in Nat /\ st.paid \in Nat /\ st.refunded \in Nat /\ now \in Nat
    BY <1>2 DEF StreamRecord, StreamsInv
  <2>2. CASE st.active
    <3>1. EarnedAt(st, now) \in Nat /\ EarnedAt(st, now) <= st.deposit
      <4>1. now <= now /\ st.start <= now
        BY <1>2, <2>1 DEF StreamIsSound
      <4> QED BY <1>2, <2>1, <2>2, <4>1, EarnedGrows
    <3> QED BY <1>2, <2>1, <2>2, <3>1 DEF StreamIsSound
  <2>3. CASE ~st.active
    BY <1>2, <2>1, <2>3 DEF StreamIsSound
  <2> QED BY <2>2, <2>3
<1>3. sub_escrow >= mentor_revenue
  <2>1. PICK S : S = DOMAIN streams
    OBVIOUS
  <2>2. PICK f : f = [j \in S |-> Kept(streams[j])]
    OBVIOUS
  <2>3. IsFiniteSet(S)
    <3>1. PICK n \in Nat : n = Len(streams)
      BY DEF StreamsInv
    <3>2. 1 \in Int /\ n \in Int
      BY <3>1
    <3>3. IsFiniteSet(1 .. n)
      BY ONLY <3>2, FS_Interval
    <3> QED BY <2>1, <3>1, <3>3 DEF StreamsInv
  <2>4. \A j \in S : f[j] \in Nat
    <3>1. ASSUME NEW st \in StreamRecord, StreamIsSound(st, now) PROVE Kept(st) \in Nat
      <4>1. st.paid + st.refunded <= st.deposit
        BY <1>2, <3>1
      <4>2. st.deposit \in Nat /\ st.paid \in Nat /\ st.refunded \in Nat
        BY DEF StreamRecord
      <4> QED BY <4>1, <4>2 DEF Kept
    <3> QED BY <1>1, <2>1, <2>2, <3>1
  <2>5. SumFunctionOnSet(f, S) \in Nat
    <3>1. \A j \in S : f[j] \in Int
      BY <2>4
    <3> QED BY <2>3, <2>4, <3>1, SumType
  <2>6. sub_escrow = mentor_revenue + SumFunctionOnSet(f, S) /\ mentor_revenue \in Nat
    BY <2>1, <2>2 DEF StreamsInv
  <2> QED BY <2>5, <2>6
<1> QED BY <1>1, <1>2, <1>3 DEF StreamsPayTheirDeposit


-----------------------------------------------------------------------------
(* The insurance pool.                                                     *)

InsuranceInv ==
    /\ insurance_tokens \in Int /\ pool_balance \in Int /\ claims_paid \in Int /\ yield_booked \in Int
    /\ provider_shares \in [Providers -> Int]
    /\ SharesAreTheCover

\* Every call changes the shares, the pool and the claims by amounts that cancel out.
LEMMA InsuranceStep ==
  ASSUME InsuranceInv, [InsuranceNext]_<<now, insurance_vars>>
  PROVE  InsuranceInv'
<1> DEFINE sum(f) == SumFunctionOnSet(f, Providers)
<1>1. sum(provider_shares) \in Int
  BY InsuranceAssumption, SumType DEF InsuranceInv
<1>2. ASSUME NEW p \in Providers, NEW v \in Int,
             provider_shares' = [provider_shares EXCEPT ![p] = provider_shares[p] + v]
      PROVE  /\ provider_shares' \in [Providers -> Int]
             /\ sum(provider_shares') = sum(provider_shares) + v
  <2> PICK f \in [Providers -> Int] : f = provider_shares
    BY DEF InsuranceInv
  <2> PICK w \in Int : w = f[p] + v
    OBVIOUS
  <2>1. /\ sum([f EXCEPT ![p] = w]) = sum(f) + (w - f[p])
        /\ [f EXCEPT ![p] = w] \in [Providers -> Int]
    BY InsuranceAssumption, SumUpdate
  <2> QED BY <1>1, <1>2, <2>1
<1> HIDE DEF sum
<1>3. ASSUME NEW p \in Providers, NEW a \in PremiumAmounts,
             \/ insurance_deposit(p, a)
             \/ insurance_withdraw(p, a)
             \/ insurance_accrue_yield(p, a)
      PROVE  InsuranceInv'
  <2>1. a \in Int /\ -a \in Int
    BY InsuranceAssumption
  <2>2. CASE insurance_deposit(p, a)
    <3>1. provider_shares' = [provider_shares EXCEPT ![p] = provider_shares[p] + a]
      BY <2>2 DEF insurance_deposit
    <3>2. /\ provider_shares' \in [Providers -> Int]
          /\ sum(provider_shares') = sum(provider_shares) + a
      BY <1>2, <2>1, <3>1
    <3> QED BY <1>1, <2>1, <2>2, <3>2 DEF insurance_deposit, InsuranceInv, SharesAreTheCover, sum
  <2>3. CASE insurance_withdraw(p, a)
    <3>1. provider_shares' = [provider_shares EXCEPT ![p] = provider_shares[p] - a]
      BY <2>3 DEF insurance_withdraw, shares_after_withdraw
    <3>2. provider_shares[p] - a = provider_shares[p] + (-a)
      BY <2>1 DEF InsuranceInv
    <3>3. /\ provider_shares' \in [Providers -> Int]
          /\ sum(provider_shares') = sum(provider_shares) + (-a)
      BY <1>2, <2>1, <3>1, <3>2
    <3> QED BY <1>1, <2>1, <2>3, <3>3 DEF insurance_withdraw, InsuranceInv, SharesAreTheCover, sum
  <2>4. CASE insurance_accrue_yield(p, a)
    <3>1. provider_shares' = [provider_shares EXCEPT ![p] = provider_shares[p] + a]
      BY <2>4 DEF insurance_accrue_yield
    <3>2. /\ provider_shares' \in [Providers -> Int]
          /\ sum(provider_shares') = sum(provider_shares) + a
      BY <1>2, <2>1, <3>1
    <3> QED BY <1>1, <2>1, <2>4, <3>2 DEF insurance_accrue_yield, InsuranceInv, SharesAreTheCover, sum
  <2> QED BY <1>3, <2>2, <2>3, <2>4
<1>4. ASSUME NEW a \in PremiumAmounts, insurance_claim(a)
      PROVE  InsuranceInv'
  BY <1>1, <1>4, InsuranceAssumption DEF insurance_claim, InsuranceInv, SharesAreTheCover, sum
<1>5. CASE \/ \E p \in Providers : set_withdraw_lock(p)
           \/ InsuranceTick
           \/ UNCHANGED <<now, insurance_vars>>
  BY <1>5 DEF set_withdraw_lock, InsuranceTick, insurance_vars, InsuranceInv, SharesAreTheCover
<1> QED BY <1>3, <1>4, <1>5 DEF InsuranceNext

\* The shares of all providers are what is in the pool plus what learners were paid, and the
\* pool is covered by tokens except for booked yield, for any providers and amounts.
THEOREM SharesStayCovered == InsuranceSpec => []SharesAreTheCover
<1>1. InsuranceInit => InsuranceInv
  <2> SUFFICES ASSUME InsuranceInit PROVE InsuranceInv
    OBVIOUS
  <2>1. provider_shares = [p \in Providers |-> 0]
    BY DEF InsuranceInit
  <2>2. SumFunctionOnSet(provider_shares, Providers) = 0
    BY <2>1, InsuranceAssumption, SumZero
  <2> QED BY <2>1, <2>2 DEF InsuranceInit, InsuranceInv, SharesAreTheCover
<1>2. InsuranceInv /\ [InsuranceNext]_<<now, insurance_vars>> => InsuranceInv'
  BY InsuranceStep
<1>3. InsuranceInv => SharesAreTheCover
  BY DEF InsuranceInv
<1> QED BY <1>1, <1>2, <1>3, PTL DEF InsuranceSpec

-----------------------------------------------------------------------------
(* The lending pool: its loans.                                            *)

LoanRecord == [n : Nat, amount : Int, fee : Int, due_at : Nat, repaid : BOOLEAN]

AuctionRecord == [loan : LoanRecord, started_at : Nat]

LoanTypes ==
    /\ now \in Nat
    /\ closings \in Seq(Nat)
    /\ DOMAIN loans \subseteq PoolBorrowers /\ loans \in [DOMAIN loans -> LoanRecord]
    /\ DOMAIN auctions \subseteq DOMAIN loans /\ auctions \in [DOMAIN auctions -> AuctionRecord]
    /\ \A b \in DOMAIN auctions : auctions[b].started_at <= now
    /\ recovered \subseteq 1 .. Len(closings)
    /\ IsFiniteSet(written_off) /\ written_off \subseteq LoanRecord

\* The numbers of the loans recorded under a borrower, as current loan or in an auction.
Numbers(b) ==
    {loans[d].n : d \in DOMAIN loans \cap {b}} \cup {auctions[d].loan.n : d \in DOMAIN auctions \cap {b}}

\* A number was given, and to one borrower.
NumbersAreOwn ==
    /\ \A b \in PoolBorrowers : Numbers(b) \subseteq 1 .. Len(closings)
    /\ \A b, c \in PoolBorrowers : b # c => Numbers(b) \cap Numbers(c) = {}

\* A loan that is due was neither closed nor paid, one that was written off was closed, and no
\* auction of it is left.
OpenIsUnclosed ==
    /\ \A b \in PoolBorrowers :
         unpaid(b) => closings[loans[b].n] = 0 /\ loans[b].n \notin recovered
    /\ \A x \in written_off : x.n \in 1 .. Len(closings) /\ closings[x.n] # 0
    /\ \A b \in DOMAIN auctions, x \in written_off : auctions[b].loan.n # x.n

LoansInv ==
    /\ LoanTypes /\ NumbersAreOwn /\ OpenIsUnclosed
    /\ ClosedOnce /\ BadDebtIsUnrecovered /\ bad_debt \in Int

\* What is recorded under a borrower has one of the borrower's numbers.
LEMMA NumbersHold ==
  ASSUME LoanTypes
  PROVE  /\ \A b \in DOMAIN loans :
              b \in PoolBorrowers /\ loans[b] \in LoanRecord /\ loans[b].n \in Numbers(b)
         /\ \A b \in DOMAIN auctions :
              /\ b \in PoolBorrowers /\ b \in DOMAIN loans
              /\ auctions[b] \in AuctionRecord /\ auctions[b].loan.n \in Numbers(b)
BY DEF LoanTypes, Numbers

\* Closing a loan that is due: what happens to the records and the counts.
LEMMA CloseLoan ==
  ASSUME LoansInv, NEW b \in PoolBorrowers, unpaid(b), close_loan(b)
  PROVE  /\ DOMAIN loans' = DOMAIN loans /\ loans' \in [DOMAIN loans -> LoanRecord]
         /\ loans'[b].repaid /\ \A c \in DOMAIN loans : loans'[c].n = loans[c].n
         /\ \A c \in DOMAIN loans : c # b => loans'[c] = loans[c]
         /\ closings' \in Seq(Nat) /\ Len(closings') = Len(closings)
         /\ loans[b].n \in 1 .. Len(closings) /\ closings'[loans[b].n] = 1
         /\ \A i \in 1 .. Len(closings) : i # loans[b].n => closings'[i] = closings[i]
<1> PICK r : r = loans[b]
  OBVIOUS
<1> PICK k : k = r.n
  OBVIOUS
<1>1. b \in DOMAIN loans /\ r \in LoanRecord /\ k \in Nat /\ closings[k] = 0
  BY DEF LoansInv, LoanTypes, OpenIsUnclosed, unpaid, LoanRecord
<1>2. k \in 1 .. Len(closings) /\ closings \in Seq(Nat)
  BY <1>1, NumbersHold DEF LoansInv, LoanTypes, NumbersAreOwn
<1> PICK q : q = [r EXCEPT !.repaid = TRUE]
  OBVIOUS
<1>3. q \in LoanRecord /\ q.repaid /\ q.n = r.n
  BY <1>1 DEF LoanRecord
<1>4. loans' = [loans EXCEPT ![b] = q]
  BY DEF close_loan
<1>5. closings' = [closings EXCEPT ![k] = 1]
  BY <1>1, <1>2 DEF close_loan
<1>6. loans \in [DOMAIN loans -> LoanRecord]
  BY DEF LoansInv, LoanTypes
<1>7. /\ DOMAIN loans' = DOMAIN loans /\ loans' \in [DOMAIN loans -> LoanRecord]
      /\ loans'[b] = q /\ \A c \in DOMAIN loans : c # b => loans'[c] = loans[c]
  BY <1>1, <1>3, <1>4, <1>6
<1>8. /\ closings' \in Seq(Nat) /\ Len(closings') = Len(closings) /\ closings'[k] = 1
      /\ \A i \in 1 .. Len(closings) : i # k => closings'[i] = closings[i]
  BY <1>2, <1>5
<1> QED BY <1>2, <1>3, <1>7, <1>8

\* A borrower's numbers after some of them went.
LEMMA FewerNumbers ==
  ASSUME NumbersAreOwn, Len(closings') = Len(closings),
         \A c \in PoolBorrowers : Numbers(c)' \subseteq Numbers(c)
  PROVE  NumbersAreOwn'
BY DEF NumbersAreOwn

\* Closing a loan, with its auction going on or not, leaves the other loans that are due and
\* the numbers written off before.
LEMMA ClosedLoan ==
  ASSUME LoansInv, NEW b \in PoolBorrowers, unpaid(b), close_loan(b), now' = now,
         auctions' = auctions \/ auctions' = del(auctions, b)
  PROVE  /\ NumbersAreOwn' /\ ClosedOnce'
         /\ DOMAIN loans' \subseteq PoolBorrowers /\ loans' \in [DOMAIN loans' -> LoanRecord]
         /\ closings' \in Seq(Nat) /\ Len(closings') = Len(closings)
         /\ loans[b].n \in 1 .. Len(closings) /\ closings'[loans[b].n] # 0
         /\ DOMAIN auctions' \subseteq DOMAIN loans' /\ auctions' \in [DOMAIN auctions' -> AuctionRecord]
         /\ DOMAIN auctions' \subseteq DOMAIN auctions
         /\ \A c \in DOMAIN auctions' : auctions'[c] = auctions[c]
         /\ \A c \in PoolBorrowers :
              unpaid(c)' => /\ loans'[c].n = loans[c].n /\ loans[c].n # loans[b].n
                            /\ closings'[loans[c].n] = 0 /\ loans[c].n \notin recovered
         /\ \A x \in written_off : /\ x.n \in 1 .. Len(closings') /\ closings'[x.n] # 0
                                   /\ x.n # loans[b].n
<1>1. LoanTypes /\ NumbersAreOwn /\ OpenIsUnclosed /\ ClosedOnce
  BY DEF LoansInv
<1>2. /\ DOMAIN loans' = DOMAIN loans /\ loans' \in [DOMAIN loans -> LoanRecord]
      /\ loans'[b].repaid /\ \A c \in DOMAIN loans : loans'[c].n = loans[c].n
      /\ \A c \in DOMAIN loans : c # b => loans'[c] = loans[c]
      /\ closings' \in Seq(Nat) /\ Len(closings') = Len(closings)
      /\ loans[b].n \in 1 .. Len(closings) /\ closings'[loans[b].n] = 1
      /\ \A i \in 1 .. Len(closings) : i # loans[b].n => closings'[i] = closings[i]
  BY CloseLoan
<1>3. /\ auctions \in [DOMAIN auctions -> AuctionRecord] /\ DOMAIN auctions \subseteq DOMAIN loans
      /\ DOMAIN loans \subseteq PoolBorrowers /\ Len(closings) \in Nat
  BY <1>1 DEF LoanTypes
<1>4. /\ DOMAIN auctions' \subseteq DOMAIN auctions /\ auctions' \in [DOMAIN auctions' -> AuctionRecord]
      /\ \A c \in DOMAIN auctions' : auctions'[c] = auctions[c]
  BY <1>3 DEF del
<1>5. \A c \in PoolBorrowers : Numbers(c)' \subseteq Numbers(c)
  BY <1>2, <1>4 DEF Numbers
<1>6. NumbersAreOwn'
  BY <1>1, <1>2, <1>5, FewerNumbers
<1>7. ClosedOnce'
  <2>1. DOMAIN closings' = 1 .. Len(closings) /\ DOMAIN closings = 1 .. Len(closings)
    BY <1>1, <1>2 DEF LoanTypes
  <2> QED BY <1>1, <1>2, <2>1 DEF ClosedOnce
<1>8. b \in DOMAIN loans /\ closings[loans[b].n] = 0
  BY <1>1 DEF OpenIsUnclosed, unpaid
<1>9. ASSUME NEW c \in PoolBorrowers, unpaid(c)'
      PROVE  /\ loans'[c].n = loans[c].n /\ loans[c].n # loans[b].n
             /\ closings'[loans[c].n] = 0 /\ loans[c].n \notin recovered
  <2>1. c \in DOMAIN loans /\ c # b /\ unpaid(c)
    BY <1>2, <1>9 DEF unpaid
  <2>2. closings[loans[c].n] = 0 /\ loans[c].n \notin recovered
    BY <1>1, <2>1 DEF OpenIsUnclosed
  <2>3. loans[c].n \in Numbers(c) /\ loans[b].n \in Numbers(b)
    BY <1>1, <1>8, <2>1, NumbersHold
  <2>4. loans[c].n # loans[b].n /\ loans[c].n \in 1 .. Len(closings)
    BY <1>1, <2>1, <2>3 DEF NumbersAreOwn
  <2> QED BY <1>2, <2>1, <2>2, <2>4
<1>10. ASSUME NEW x \in written_off
       PROVE  x.n \in 1 .. Len(closings') /\ closings'[x.n] # 0 /\ x.n # loans[b].n
  BY <1>1, <1>2, <1>8, <1>10 DEF OpenIsUnclosed
<1> QED BY <1>2, <1>3, <1>4, <1>6, <1>7, <1>9, <1>10

\* A repaid loan was not closed before, and is not written off later.
LEMMA RepayStep ==
  ASSUME LoansInv, NEW b \in PoolBorrowers, repay(b)
  PROVE  LoansInv'
<1>1. /\ unpaid(b) /\ close_loan(b) /\ UNCHANGED <<now, auctions, written_off, bad_debt>>
      /\ recovered' = recovered \cup {loans[b].n}
  BY DEF repay
<1>2. LoansInv
  OBVIOUS
<1>3. /\ NumbersAreOwn' /\ ClosedOnce'
      /\ DOMAIN loans' \subseteq PoolBorrowers /\ loans' \in [DOMAIN loans' -> LoanRecord]
      /\ closings' \in Seq(Nat) /\ Len(closings') = Len(closings)
      /\ loans[b].n \in 1 .. Len(closings)
      /\ DOMAIN auctions' \subseteq DOMAIN loans' /\ auctions' \in [DOMAIN auctions' -> AuctionRecord]
      /\ \A c \in PoolBorrowers :
           unpaid(c)' => /\ loans'[c].n = loans[c].n /\ loans[c].n # loans[b].n
                         /\ closings'[loans[c].n] = 0 /\ loans[c].n \notin recovered
      /\ \A x \in written_off : /\ x.n \in 1 .. Len(closings') /\ closings'[x.n] # 0
                                /\ x.n # loans[b].n
  BY <1>1, ClosedLoan
<1>4. LoanTypes'
  BY <1>1, <1>3 DEF LoansInv, LoanTypes
<1>5. OpenIsUnclosed'
  BY <1>1, <1>3 DEF LoansInv, OpenIsUnclosed
<1>6. BadDebtIsUnrecovered' /\ bad_debt' \in Int
  BY <1>1, <1>3 DEF LoansInv, BadDebtIsUnrecovered, owed
<1> QED BY <1>3, <1>4, <1>5, <1>6 DEF LoansInv

\* The admin closes a loan that is past due.
LEMMA LiquidateStep ==
  ASSUME LoansInv, NEW b \in PoolBorrowers, liquidate(b)
  PROVE  LoansInv'
<1>1. unpaid(b) /\ close_loan(b) /\ UNCHANGED <<now, auctions, written_off, bad_debt, recovered>>
  BY DEF liquidate, overdue
<1>2. /\ NumbersAreOwn' /\ ClosedOnce'
      /\ DOMAIN loans' \subseteq PoolBorrowers /\ loans' \in [DOMAIN loans' -> LoanRecord]
      /\ closings' \in Seq(Nat) /\ Len(closings') = Len(closings)
      /\ DOMAIN auctions' \subseteq DOMAIN loans' /\ auctions' \in [DOMAIN auctions' -> AuctionRecord]
      /\ \A c \in PoolBorrowers :
           unpaid(c)' => /\ loans'[c].n = loans[c].n
                         /\ closings'[loans[c].n] = 0 /\ loans[c].n \notin recovered
      /\ \A x \in written_off : x.n \in 1 .. Len(closings') /\ closings'[x.n] # 0
  BY <1>1, ClosedLoan
<1>3. LoanTypes'
  BY <1>1, <1>2 DEF LoansInv, LoanTypes
<1>4. OpenIsUnclosed'
  BY <1>1, <1>2 DEF LoansInv, OpenIsUnclosed
<1>5. BadDebtIsUnrecovered' /\ bad_debt' \in Int
  BY <1>1 DEF LoansInv, BadDebtIsUnrecovered, owed
<1> QED BY <1>2, <1>3, <1>4, <1>5 DEF LoansInv

\* A loan is written off unpaid, its auction ends, and it was not written off before.
LEMMA ForceStep ==
  ASSUME LoansInv, NEW b \in PoolBorrowers, force_liquidate(b)
  PROVE  LoansInv'
<1> PICK r : r = loans[b]
  OBVIOUS
<1>1. /\ unpaid(b) /\ close_loan(b) /\ UNCHANGED <<now, recovered>> /\ auctions' = del(auctions, b)
      /\ bad_debt' = bad_debt + owed(r) /\ written_off' = written_off \cup {r}
  BY DEF force_liquidate, ended_auction
<1>2. /\ NumbersAreOwn' /\ ClosedOnce'
      /\ DOMAIN loans' \subseteq PoolBorrowers /\ loans' \in [DOMAIN loans' -> LoanRecord]
      /\ closings' \in Seq(Nat) /\ Len(closings') = Len(closings)
      /\ r.n \in 1 .. Len(closings) /\ closings'[r.n] # 0
      /\ DOMAIN auctions' \subseteq DOMAIN loans' /\ auctions' \in [DOMAIN auctions' -> AuctionRecord]
      /\ DOMAIN auctions' \subseteq DOMAIN auctions
      /\ \A c \in DOMAIN auctions' : auctions'[c] = auctions[c]
      /\ \A c \in PoolBorrowers :
           unpaid(c)' => /\ loans'[c].n = loans[c].n
                         /\ closings'[loans[c].n] = 0 /\ loans[c].n \notin recovered
      /\ \A x \in written_off : /\ x.n \in 1 .. Len(closings') /\ closings'[x.n] # 0
                                /\ x.n # r.n
  BY <1>1, ClosedLoan
<1>3. LoanTypes /\ NumbersAreOwn /\ OpenIsUnclosed /\ BadDebtIsUnrecovered /\ bad_debt \in Int
  BY DEF LoansInv
<1>4. b \in DOMAIN loans /\ r \in LoanRecord /\ r.n \notin recovered /\ r.n \in Numbers(b)
  BY <1>1, <1>3, NumbersHold DEF unpaid, OpenIsUnclosed
<1>5. ASSUME NEW c \in DOMAIN auctions'
      PROVE  auctions'[c].loan.n # r.n
  <2>1. c \in DOMAIN auctions /\ c # b /\ auctions'[c] = auctions[c]
    BY <1>1, <1>2, <1>5 DEF del
  <2>2. auctions[c].loan.n \in Numbers(c) /\ c \in PoolBorrowers
    BY <1>3, <2>1, NumbersHold
  <2> QED BY <1>3, <1>4, <2>1, <2>2 DEF NumbersAreOwn
<1>6. IsFiniteSet(written_off) /\ IsFiniteSet(written_off') /\ written_off' \subseteq LoanRecord
  BY <1>1, <1>3, <1>4, FS_AddElement DEF LoanTypes
<1>7. LoanTypes'
  BY <1>1, <1>2, <1>3, <1>6 DEF LoanTypes
<1>8. OpenIsUnclosed'
  <2>1. \A c \in PoolBorrowers :
          unpaid(c)' => closings'[loans'[c].n] = 0 /\ loans'[c].n \notin recovered'
    BY <1>1, <1>2
  <2>2. \A x \in written_off' : x.n \in 1 .. Len(closings') /\ closings'[x.n] # 0
    BY <1>1, <1>2
  <2>3. ASSUME NEW c \in DOMAIN auctions', NEW x \in written_off'
        PROVE  auctions'[c].loan.n # x.n
    BY <1>1, <1>2, <1>3, <1>5 DEF OpenIsUnclosed
  <2> QED BY <2>1, <2>2, <2>3 DEF OpenIsUnclosed
<1>9. BadDebtIsUnrecovered' /\ bad_debt' \in Int
  <2> DEFINE f == [x \in written_off |-> owed(x)]
             g == [x \in written_off \cup {r} |-> owed(x)]
  <2>1. r \notin written_off
    BY <1>2
  <2>2. \A x \in LoanRecord : owed(x) \in Int
    BY DEF owed, LoanRecord
  <2>3. /\ g[r] \in Int /\ g[r] = owed(r)
        /\ \A x \in written_off : f[x] \in Int /\ g[x] = f[x]
    BY <1>3, <1>4, <2>2 DEF LoanTypes
  <2> HIDE DEF f, g
  <2>4. /\ SumFunctionOnSet(g, written_off \cup {r}) = SumFunctionOnSet(f, written_off) + g[r]
        /\ SumFunctionOnSet(f, written_off) \in Int
    BY <1>6, <2>1, <2>3, SumAdd
  <2>5. bad_debt = SumFunctionOnSet(f, written_off) /\ \A x \in written_off : x.n \notin recovered
    BY <1>3 DEF BadDebtIsUnrecovered, f
  <2>6. bad_debt' = SumFunctionOnSet(g, written_off \cup {r}) /\ bad_debt' \in Int
    BY <1>1, <2>3, <2>4, <2>5
  <2>7. \A x \in written_off' : x.n \notin recovered'
    BY <1>1, <1>4, <2>5
  <2>8. bad_debt' = SumFunctionOnSet([x \in written_off' |-> owed(x)], written_off')
    BY <1>1, <2>6 DEF g
  <2> QED BY <2>6, <2>7, <2>8 DEF BadDebtIsUnrecovered, owed
<1> QED BY <1>2, <1>7, <1>8, <1>9 DEF LoansInv

\* An auction begins with a copy of a loan that is due.
LEMMA StartStep ==
  ASSUME LoansInv, NEW b \in PoolBorrowers, start_liquidation_auction(b)
  PROVE  LoansInv'
<1> PICK r : r = [loan |-> loans[b], started_at |-> now]
  OBVIOUS
<1>1. /\ unpaid(b) /\ b \notin DOMAIN auctions /\ auctions' = put(auctions, b, r)
      /\ UNCHANGED <<now, loans, closings, written_off, bad_debt, recovered>>
  BY DEF start_liquidation_auction, overdue
<1>2. LoanTypes /\ NumbersAreOwn /\ OpenIsUnclosed
  BY DEF LoansInv
<1>3. /\ b \in DOMAIN loans /\ loans[b] \in LoanRecord /\ closings[loans[b].n] = 0
      /\ r \in AuctionRecord /\ r.loan = loans[b] /\ r.started_at = now /\ now \in Nat
  BY <1>1, <1>2 DEF LoanTypes, OpenIsUnclosed, unpaid, AuctionRecord
<1>4. /\ DOMAIN auctions' = DOMAIN auctions \cup {b} /\ auctions'[b] = r
      /\ \A c \in DOMAIN auctions : c # b => auctions'[c] = auctions[c]
      /\ auctions' \in [DOMAIN auctions' -> AuctionRecord]
  BY <1>1, <1>2, <1>3 DEF put, LoanTypes
<1>5. LoanTypes'
  <2>1. \A c \in DOMAIN auctions' : auctions'[c].started_at <= now'
    BY <1>1, <1>2, <1>3, <1>4 DEF LoanTypes
  <2> QED BY <1>1, <1>2, <1>3, <1>4, <2>1 DEF LoanTypes
<1>6. NumbersAreOwn'
  <2>1. \A c \in PoolBorrowers : Numbers(c)' \subseteq Numbers(c)
    BY <1>1, <1>3, <1>4 DEF Numbers
  <2> QED BY <1>1, <1>2, <2>1, FewerNumbers
<1>7. OpenIsUnclosed'
  <2>1. ASSUME NEW c \in DOMAIN auctions', NEW x \in written_off
        PROVE  auctions'[c].loan.n # x.n
    BY <1>1, <1>2, <1>3, <1>4 DEF OpenIsUnclosed
  <2>2. \A c \in PoolBorrowers : unpaid(c)' => unpaid(c)
    BY <1>1 DEF unpaid
  <2> QED BY <1>1, <1>2, <2>1, <2>2 DEF OpenIsUnclosed
<1>8. ClosedOnce' /\ BadDebtIsUnrecovered' /\ bad_debt' \in Int
  BY <1>1 DEF LoansInv, ClosedOnce, BadDebtIsUnrecovered, owed
<1> QED BY <1>5, <1>6, <1>7, <1>8 DEF LoansInv

\* An auction ends with a payment, and its copy of the loan, now repaid, is the borrower's loan.
LEMMA ExecuteAuctionStep ==
  ASSUME LoansInv, NEW b \in PoolBorrowers, execute_liquidation(b)
  PROVE  LoansInv'
<1> PICK k : k = auctions[b].loan.n
  OBVIOUS
<1> PICK q : q = [auctions[b].loan EXCEPT !.repaid = TRUE]
  OBVIOUS
<1>1. /\ b \in DOMAIN auctions /\ auctions' = del(auctions, b)
      /\ recovered' = recovered \cup {k} /\ loans' = [loans EXCEPT ![b] = q]
      /\ UNCHANGED <<now, closings, written_off, bad_debt>>
  BY DEF execute_liquidation, auctioned_loan
<1>2. LoanTypes /\ NumbersAreOwn /\ OpenIsUnclosed
  BY DEF LoansInv
<1>3. b \in DOMAIN loans /\ auctions[b] \in AuctionRecord /\ k \in Numbers(b)
  BY <1>1, <1>2, NumbersHold
<1>4. q \in LoanRecord /\ q.repaid /\ q.n = k
  BY <1>3 DEF AuctionRecord, LoanRecord
<1>5. k \in 1 .. Len(closings)
  BY <1>2, <1>3 DEF NumbersAreOwn
<1>6. /\ DOMAIN loans' = DOMAIN loans /\ loans' \in [DOMAIN loans' -> LoanRecord] /\ loans'[b] = q
      /\ \A c \in DOMAIN loans : c # b => loans'[c] = loans[c]
  BY <1>1, <1>2, <1>3, <1>4 DEF LoanTypes
<1>7. /\ DOMAIN auctions' = DOMAIN auctions \ {b} /\ auctions' \in [DOMAIN auctions' -> AuctionRecord]
      /\ \A c \in DOMAIN auctions' : auctions'[c] = auctions[c]
  BY <1>1, <1>2 DEF LoanTypes, del
<1>8. LoanTypes'
  BY <1>1, <1>2, <1>5, <1>6, <1>7 DEF LoanTypes
<1>9. NumbersAreOwn'
  <2>1. \A c \in PoolBorrowers : Numbers(c)' \subseteq Numbers(c)
    <3> SUFFICES ASSUME NEW c \in PoolBorrowers, NEW n \in Numbers(c)' PROVE n \in Numbers(c)
      OBVIOUS
    <3>1. CASE c = b
      <4>1. n = q.n
        BY <1>6, <1>7, <3>1 DEF Numbers
      <4> QED BY <1>3, <1>4, <3>1, <4>1
    <3>2. CASE c # b
      BY <1>6, <1>7, <3>2 DEF Numbers
    <3> QED BY <3>1, <3>2
  <2> QED BY <1>1, <1>2, <2>1, FewerNumbers
<1>10. OpenIsUnclosed'
  <2>1. ASSUME NEW c \in PoolBorrowers, unpaid(c)'
        PROVE  closings'[loans'[c].n] = 0 /\ loans'[c].n \notin recovered'
    <3>1. c # b /\ c \in DOMAIN loans /\ loans'[c] = loans[c] /\ unpaid(c)
      BY <1>4, <1>6, <2>1 DEF unpaid
    <3>2. loans[c].n \in Numbers(c)
      BY <1>2, <3>1, NumbersHold
    <3>3. loans[c].n # k
      BY <1>2, <1>3, <3>1, <3>2 DEF NumbersAreOwn
    <3> QED BY <1>1, <1>2, <3>1, <3>3 DEF OpenIsUnclosed
  <2> QED BY <1>1, <1>2, <1>7, <2>1 DEF OpenIsUnclosed
<1>11. ClosedOnce' /\ bad_debt' \in Int
  BY <1>1 DEF LoansInv, ClosedOnce
<1>12. BadDebtIsUnrecovered'
  <2>1. \A x \in written_off : x.n # k
    BY <1>1, <1>2 DEF OpenIsUnclosed
  <2> QED BY <1>1, <2>1 DEF LoansInv, BadDebtIsUnrecovered, owed
<1> QED BY <1>8, <1>9, <1>10, <1>11, <1>12 DEF LoansInv

\* A new loan has a number of its own, whatever it replaces.
LEMMA BorrowStep ==
  ASSUME LoansInv, NEW b \in PoolBorrowers, NEW a \in PoolAmounts,
         NEW rate \in InterestRates, borrow(b, a, rate)
  PROVE  LoansInv'
<1> PICK n : n = Len(closings) + 1
  OBVIOUS
<1> PICK r : r = [n |-> n, amount |-> a, fee |-> compute_fee(a, rate),
                  due_at |-> now + LoanTerm, repaid |-> FALSE]
  OBVIOUS
<1>1. /\ loans' = put(loans, b, r) /\ closings' = Append(closings, 0)
      /\ UNCHANGED <<now, auctions, written_off, bad_debt, recovered>>
  BY DEF borrow
<1>2. LoanTypes /\ NumbersAreOwn /\ OpenIsUnclosed /\ ClosedOnce
  BY DEF LoansInv
<1>3. closings \in Seq(Nat) /\ Len(closings) \in Nat /\ n \in Nat /\ now \in Nat
  BY <1>2 DEF LoanTypes
<1>4. r \in LoanRecord /\ r.n = n /\ ~r.repaid
  <2>1. a \in Int /\ compute_fee(a, rate) \in Int
    BY LendingAssumption DEF compute_fee
  <2>2. now + LoanTerm \in Nat
    BY <1>3, LendingAssumption
  <2> QED BY <1>3, <2>1, <2>2 DEF LoanRecord
<1>5. /\ closings' \in Seq(Nat) /\ Len(closings') = n /\ closings'[n] = 0
      /\ \A i \in 1 .. Len(closings) : closings'[i] = closings[i]
  BY <1>1, <1>3
<1>6. /\ DOMAIN loans' = DOMAIN loans \cup {b} /\ loans'[b] = r
      /\ \A c \in DOMAIN loans : c # b => loans'[c] = loans[c]
      /\ loans' \in [DOMAIN loans' -> LoanRecord]
  BY <1>1, <1>2, <1>4 DEF put, LoanTypes
<1>7. LoanTypes'
  <2>1. recovered' \subseteq 1 .. Len(closings')
    <3>1. 1 .. Len(closings) \subseteq 1 .. n
      BY <1>3
    <3> QED BY <1>1, <1>2, <1>5, <3>1 DEF LoanTypes
  <2>2. /\ auctions' = auctions /\ now' = now /\ written_off' = written_off
        /\ DOMAIN auctions \subseteq DOMAIN loans'
    BY <1>1, <1>2, <1>6 DEF LoanTypes
  <2>3. DOMAIN loans' \subseteq PoolBorrowers
    BY <1>2, <1>6 DEF LoanTypes
  <2> QED BY <1>2, <1>5, <1>6, <2>1, <2>2, <2>3 DEF LoanTypes
<1>8. /\ Numbers(b)' \subseteq Numbers(b) \cup {n}
      /\ \A c \in PoolBorrowers : c # b => Numbers(c)' \subseteq Numbers(c)
  <2>1. DOMAIN auctions' = DOMAIN auctions /\ auctions' = auctions
    BY <1>1
  <2>2. Numbers(b)' \subseteq Numbers(b) \cup {n}
    BY <1>4, <1>6, <2>1 DEF Numbers
  <2>3. \A c \in PoolBorrowers : c # b => Numbers(c)' \subseteq Numbers(c)
    BY <1>6, <2>1 DEF Numbers
  <2> QED BY <2>2, <2>3
<1>9. NumbersAreOwn'
  <2>1. n \notin 1 .. Len(closings) /\ n \in 1 .. n /\ 1 .. Len(closings) \subseteq 1 .. n
    BY <1>3
  <2> QED BY <1>2, <1>5, <1>8, <2>1 DEF NumbersAreOwn
<1>10. OpenIsUnclosed'
  <2>1. ASSUME NEW c \in PoolBorrowers, unpaid(c)'
        PROVE  closings'[loans'[c].n] = 0 /\ loans'[c].n \notin recovered'
    <3>1. CASE c = b
      BY <1>1, <1>2, <1>3, <1>4, <1>5, <1>6, <3>1 DEF LoanTypes
    <3>2. CASE c # b
      <4>1. c \in DOMAIN loans /\ loans'[c] = loans[c] /\ unpaid(c)
        BY <1>6, <2>1, <3>2 DEF unpaid
      <4>2. loans[c].n \in 1 .. Len(closings)
        BY <1>2, <4>1, NumbersHold DEF NumbersAreOwn
      <4> QED BY <1>1, <1>2, <1>5, <4>1, <4>2 DEF OpenIsUnclosed
    <3> QED BY <3>1, <3>2
  <2>2. \A x \in written_off' : x.n \in 1 .. Len(closings') /\ closings'[x.n] # 0
    BY <1>1, <1>2, <1>3, <1>5 DEF OpenIsUnclosed
  <2>3. \A c \in DOMAIN auctions', x \in written_off' : auctions'[c].loan.n # x.n
    BY <1>1, <1>2 DEF OpenIsUnclosed
  <2> QED BY <2>1, <2>2, <2>3 DEF OpenIsUnclosed
<1>11. ClosedOnce'
  <2>1. DOMAIN closings' = 1 .. n /\ DOMAIN closings = 1 .. Len(closings)
    BY <1>3, <1>5
  <2>2. \A i \in DOMAIN closings' : i \in DOMAIN closings \/ i = n
    BY <1>3, <2>1
  <2>3. \A i \in DOMAIN closings : closings'[i] = closings[i] /\ closings[i] \leq 1
    BY <1>2, <1>5, <2>1 DEF ClosedOnce
  <2> QED BY <1>5, <2>2, <2>3 DEF ClosedOnce
<1>12. BadDebtIsUnrecovered' /\ bad_debt' \in Int
  BY <1>1 DEF LoansInv, BadDebtIsUnrecovered, owed
<1> QED BY <1>7, <1>9, <1>10, <1>11, <1>12 DEF LoansInv

\* Every step keeps the invariant of the loans.
LEMMA LoansStep ==
  ASSUME LoansInv, [LendingNext]_<<now, lending_vars>>
  PROVE  LoansInv'
<1>1. CASE /\ UNCHANGED <<closings, loans, auctions, written_off, bad_debt, recovered>>
           /\ now' \in {now, now + 1}
  <2>1. now \in Nat /\ now' \in Nat /\ now <= now'
    BY <1>1 DEF LoansInv, LoanTypes
  <2>2. \A b \in DOMAIN auctions : auctions[b].started_at <= now'
    <3> SUFFICES ASSUME NEW b \in DOMAIN auctions PROVE auctions[b].started_at <= now'
      OBVIOUS
    <3>1. auctions[b].started_at \in Nat /\ auctions[b].started_at <= now
      BY DEF LoansInv, LoanTypes, AuctionRecord
    <3> QED BY <2>1, <3>1
  <2>3. LoanTypes'
    BY <1>1, <2>1, <2>2 DEF LoansInv, LoanTypes
  <2>4. NumbersAreOwn'
    <3>1. \A b \in PoolBorrowers : Numbers(b)' \subseteq Numbers(b)
      BY <1>1 DEF Numbers
    <3> QED BY <1>1, <3>1, FewerNumbers DEF LoansInv
  <2>6. OpenIsUnclosed'
    BY <1>1 DEF LoansInv, OpenIsUnclosed, unpaid
  <2>5. ClosedOnce' /\ BadDebtIsUnrecovered' /\ bad_debt' \in Int
    BY <1>1 DEF LoansInv, ClosedOnce, BadDebtIsUnrecovered, owed
  <2> QED BY <2>3, <2>4, <2>5, <2>6 DEF LoansInv
<1>2. CASE \/ \E l \in PoolLenders :
                \/ \E a \in PoolAmounts : deposit_liquidity(l, a) \/ withdraw(l, a)
                \/ \E a \in PoolYields : distribute_yield(l, a)
           \/ \E a \in PoolYields : accrue_yield(a)
           \/ LendingTick
           \/ UNCHANGED <<now, lending_vars>>
  BY <1>1, <1>2 DEF deposit_liquidity, withdraw, distribute_yield, accrue_yield, LendingTick,
                    CloseLedger, lending_vars
<1> QED BY <1>2, BorrowStep, RepayStep, LiquidateStep, StartStep, ExecuteAuctionStep, ForceStep
        DEF LendingNext

\* At first there is no loan.
LEMMA LoansInit == LendingInit => LoansInv
<1> SUFFICES ASSUME LendingInit PROVE LoansInv
  OBVIOUS
<1>1. /\ now = 0 /\ closings = << >> /\ recovered = {} /\ written_off = {} /\ bad_debt = 0
      /\ DOMAIN loans = {} /\ DOMAIN auctions = {}
      /\ loans \in [DOMAIN loans -> LoanRecord] /\ auctions \in [DOMAIN auctions -> AuctionRecord]
  BY DEF LendingInit, NothingStored
<1>2. LoanTypes
  BY <1>1, FS_EmptySet DEF LoanTypes
<1>3. \A b \in PoolBorrowers : Numbers(b) = {}
  BY <1>1 DEF Numbers
<1>4. NumbersAreOwn /\ OpenIsUnclosed
  BY <1>1, <1>3 DEF NumbersAreOwn, OpenIsUnclosed, unpaid
<1>5. ClosedOnce
  BY <1>1 DEF ClosedOnce
<1>6. BadDebtIsUnrecovered
  BY <1>1, SumEmpty DEF BadDebtIsUnrecovered
<1> QED BY <1>1, <1>2, <1>4, <1>5, <1>6 DEF LoansInv

-----------------------------------------------------------------------------
(* The lending pool: its money.                                            *)

MoneyInv ==
    /\ pool_tokens \in Int /\ liquidity \in Int /\ lp_tokens \in Int /\ accrued \in Int
    /\ lender_balance \in [PoolLenders -> Int]
    /\ PoolBacksLiquidity

\* What an auction brings is a number, also when the duration of auctions is 0.
LEMMA PaymentIsNumber ==
  ASSUME LoanTypes, NEW b \in DOMAIN auctions
  PROVE  payment(b) \in Int
<1> PICK x \in AuctionRecord : x = auctions[b]
  BY DEF LoanTypes
<1> PICK total \in Int : total = owed(x.loan)
  BY DEF owed, AuctionRecord, LoanRecord
<1> PICK elapsed \in Nat : elapsed = now - auctions[b].started_at
  BY DEF LoanTypes, AuctionRecord
<1> PICK d : d = get_auction_discount(b)
  OBVIOUS
<1>1. d = IF elapsed >= AuctionDuration THEN MaxAuctionDiscount
          ELSE (MaxAuctionDiscount * elapsed) \div AuctionDuration
  BY DEF get_auction_discount
<1>2. d \in Int
  <2>1. MaxAuctionDiscount \in Nat /\ AuctionDuration \in Nat
    BY LendingAssumption
  <2>2. PICK m \in Int : m = MaxAuctionDiscount * elapsed
    BY <2>1
  <2>3. CASE elapsed < AuctionDuration
    <3>1. AuctionDuration > 0
      BY <2>1, <2>3
    <3>2. m \div AuctionDuration \in Int
      BY <2>1, <3>1
    <3> QED BY <1>1, <2>1, <2>2, <2>3, <3>2
  <2> QED BY <1>1, <2>1, <2>3
<1>3. PICK m \in Int : m = total * d
  BY <1>2
<1>4. m \div 10000 \in Int
  OBVIOUS
<1>5. payment(b) = total - m \div 10000
  BY <1>3 DEF payment
<1> QED BY <1>4, <1>5

\* The tokens and the liquidity change by the same amount, and LP tokens by what a lender gets.
LEMMA MoneyStep ==
  ASSUME LoanTypes, MoneyInv, [LendingNext]_<<now, lending_vars>>
  PROVE  MoneyInv'
<1> DEFINE sum(f) == SumFunctionOnSet(f, PoolLenders)
<1>1. sum(lender_balance) \in Int
  BY LendingAssumption, SumType DEF MoneyInv
<1>2. ASSUME NEW l \in PoolLenders, NEW v \in Int,
             lender_balance' = [lender_balance EXCEPT ![l] = lender_balance[l] + v]
      PROVE  /\ lender_balance' \in [PoolLenders -> Int]
             /\ sum(lender_balance') = sum(lender_balance) + v
  <2> PICK f \in [PoolLenders -> Int] : f = lender_balance
    BY DEF MoneyInv
  <2> PICK w \in Int : w = f[l] + v
    OBVIOUS
  <2>1. /\ sum([f EXCEPT ![l] = w]) = sum(f) + (w - f[l])
        /\ [f EXCEPT ![l] = w] \in [PoolLenders -> Int]
    BY LendingAssumption, SumUpdate
  <2> QED BY <1>1, <1>2, <2>1
<1> HIDE DEF sum
<1>3. ASSUME NEW l \in PoolLenders, NEW a \in PoolAmounts, deposit_liquidity(l, a)
      PROVE  MoneyInv'
  <2>1. a \in Int
    BY LendingAssumption
  <2>2. lender_balance' = [lender_balance EXCEPT ![l] = lender_balance[l] + a]
    BY <1>3 DEF deposit_liquidity
  <2>3. lender_balance' \in [PoolLenders -> Int] /\ sum(lender_balance') = sum(lender_balance) + a
    BY <1>2, <2>1, <2>2
  <2> QED BY <1>1, <1>3, <2>1, <2>3 DEF deposit_liquidity, MoneyInv, PoolBacksLiquidity, sum
<1>4. ASSUME NEW l \in PoolLenders, NEW a \in PoolAmounts, withdraw(l, a)
      PROVE  MoneyInv'
  <2>1. a \in Int /\ -a \in Int
    BY LendingAssumption
  <2>2. lender_balance' = [lender_balance EXCEPT ![l] = lender_balance[l] - a]
    BY <1>4 DEF withdraw
  <2>3. lender_balance[l] - a = lender_balance[l] + (-a)
    BY <2>1 DEF MoneyInv
  <2>4. lender_balance' \in [PoolLenders -> Int] /\ sum(lender_balance') = sum(lender_balance) + (-a)
    BY <1>2, <2>1, <2>2, <2>3
  <2> QED BY <1>1, <1>4, <2>1, <2>4 DEF withdraw, MoneyInv, PoolBacksLiquidity, sum
<1>5. ASSUME NEW l \in PoolLenders, NEW a \in PoolYields, distribute_yield(l, a)
      PROVE  MoneyInv'
  <2>1. a \in Int
    BY LendingAssumption
  <2>2. lender_balance' = [lender_balance EXCEPT ![l] = lender_balance[l] + a]
    BY <1>5 DEF distribute_yield
  <2>3. lender_balance' \in [PoolLenders -> Int] /\ sum(lender_balance') = sum(lender_balance) + a
    BY <1>2, <2>1, <2>2
  <2> QED BY <1>1, <1>5, <2>1, <2>3 DEF distribute_yield, MoneyInv, PoolBacksLiquidity, sum
<1>6. ASSUME NEW a \in PoolYields, accrue_yield(a)
      PROVE  MoneyInv'
  BY <1>6, LendingAssumption DEF accrue_yield, MoneyInv, PoolBacksLiquidity
<1>7. ASSUME NEW v \in Int, pool_tokens' = pool_tokens + v, liquidity' = liquidity + v,
             UNCHANGED <<lp_tokens, lender_balance, accrued>>
      PROVE  MoneyInv'
  BY <1>7 DEF MoneyInv, PoolBacksLiquidity
<1>8. ASSUME NEW b \in PoolBorrowers, NEW a \in PoolAmounts,
             NEW rate \in InterestRates, borrow(b, a, rate)
      PROVE  MoneyInv'
  BY <1>8, LendingAssumption DEF borrow, MoneyInv, PoolBacksLiquidity
<1>9. ASSUME NEW b \in PoolBorrowers, repay(b)
      PROVE  MoneyInv'
  <2>1. owed(loans[b]) \in Int
    BY <1>9 DEF repay, unpaid, LoanTypes, LoanRecord, owed
  <2> QED BY <1>7, <1>9, <2>1 DEF repay
<1>10. ASSUME NEW b \in PoolBorrowers, execute_liquidation(b)
       PROVE  MoneyInv'
  <2>1. payment(b) \in Int
    BY <1>10, PaymentIsNumber DEF execute_liquidation
  <2> QED BY <1>7, <1>10, <2>1 DEF execute_liquidation, restored
<1>11. CASE \/ \E b \in PoolBorrowers :
                 liquidate(b) \/ start_liquidation_auction(b) \/ force_liquidate(b)
            \/ LendingTick
            \/ UNCHANGED <<now, lending_vars>>
  <2>1. UNCHANGED <<pool_tokens, liquidity, lp_tokens, lender_balance, accrued>>
    BY <1>11 DEF liquidate, start_liquidation_auction, force_liquidate, LendingTick, lending_vars
  <2> QED BY <2>1 DEF MoneyInv, PoolBacksLiquidity
<1> QED BY <1>3, <1>4, <1>5, <1>6, <1>8, <1>9, <1>10, <1>11 DEF LendingNext

-----------------------------------------------------------------------------
(* The lending pool: what a borrower may take in one ledger.               *)

LedgerAmount == [ledger : Nat, amount : Int]

LedgerLoan == [n : Nat, borrower : PoolBorrowers, amount : Int, reserve : Int]

CapTypes ==
    /\ block_snapshot \in LedgerAmount /\ block_snapshot.ledger <= sequence
    /\ block_borrows \in [PoolBorrowers -> LedgerAmount]
    /\ \A b \in PoolBorrowers : block_borrows[b].ledger <= sequence
    /\ IsFiniteSet(ledger_loans) /\ ledger_loans \subseteq LedgerLoan
    /\ \A x \in ledger_loans : x.n <= Len(closings)

\* The snapshot and the totals of the code are those of the loans of this ledger.
CapInv ==
    /\ CapTypes
    /\ block_snapshot.ledger = sequence <=> ledger_loans # {}
    /\ \A x \in ledger_loans : x.reserve = block_snapshot.amount
    /\ \A b \in PoolBorrowers : block_total(b) = borrowed_now(b)
    /\ BorrowCapHolds

\* A loan is added to the total of its borrower only.
LEMMA BorrowedMore ==
  ASSUME CapTypes, NEW r \in LedgerLoan, r \notin ledger_loans,
         ledger_loans' = ledger_loans \cup {r}, NEW b \in PoolBorrowers
  PROVE  borrowed_now(b)' = IF r.borrower = b THEN borrowed_now(b) + r.amount ELSE borrowed_now(b)
<1> DEFINE mine == {x \in ledger_loans : x.borrower = b}
           theirs == {x \in ledger_loans \cup {r} : x.borrower = b}
           f == [x \in mine |-> x.amount]
           g == [x \in theirs |-> x.amount]
<1>1. borrowed_now(b) = SumFunctionOnSet(f, mine) /\ borrowed_now(b)' = SumFunctionOnSet(g, theirs)
  BY DEF borrowed_now
<1>2. CASE r.borrower = b
  <2>1. IsFiniteSet(mine)
    BY FS_Subset DEF CapTypes
  <2>2. theirs = mine \cup {r} /\ r \notin mine
    BY <1>2
  <2>3. g[r] = r.amount /\ g[r] \in Int
    BY <2>2 DEF LedgerLoan
  <2>4. \A x \in mine : f[x] \in Int /\ g[x] = f[x]
    BY <2>2 DEF CapTypes, LedgerLoan
  <2>5. SumFunctionOnSet(g, mine \cup {r}) = SumFunctionOnSet(f, mine) + g[r]
    <3> PICK S, p, q : S = mine /\ p = f /\ q = g
      OBVIOUS
    <3>1. IsFiniteSet(S)
      BY <2>1
    <3>2. r \notin S
      BY <2>2
    <3>3. q[r] \in Int
      BY <2>3
    <3>4. \A x \in S : p[x] \in Int /\ q[x] = p[x]
      BY <2>4
    <3>5. /\ SumFunctionOnSet(q, S \cup {r}) = SumFunctionOnSet(p, S) + q[r]
          /\ SumFunctionOnSet(p, S) \in Int
      BY ONLY <3>1, <3>2, <3>3, <3>4, SumAdd, Zenon
    <3> QED BY <3>5
  <2> QED BY <1>1, <1>2, <2>2, <2>3, <2>5
<1>3. CASE r.borrower # b
  <2>1. mine = theirs
    BY <1>3
  <2> QED BY <1>1, <1>3, <2>1
<1> QED BY <1>2, <1>3

\* Steps that leave the ledger's loans alone, and the clock.
LEMMA CapRests ==
  ASSUME CapInv, UNCHANGED <<now, block_snapshot, block_borrows, ledger_loans>>,
         Len(closings') = Len(closings)
  PROVE  CapInv'
<1>1. CapTypes'
  BY DEF CapInv, CapTypes, sequence
<1>2. \A b \in PoolBorrowers : block_total(b)' = block_total(b)
  BY DEF block_total, sequence
<1>3. \A b \in PoolBorrowers : borrowed_now(b)' = borrowed_now(b)
  BY DEF borrowed_now
<1>4. BorrowCapHolds'
  BY <1>3 DEF CapInv, BorrowCapHolds, CapTypes, LedgerLoan
<1> QED BY <1>1, <1>2, <1>3, <1>4 DEF CapInv, sequence

\* In a new ledger nothing is borrowed yet.
LEMMA CapTick ==
  ASSUME CapInv, now \in Nat, LendingTick
  PROVE  CapInv'
<1>1. /\ now' = now + 1 /\ ledger_loans' = {} /\ sequence \in Nat /\ sequence' = sequence + 1
      /\ UNCHANGED <<block_snapshot, block_borrows, closings>>
  BY DEF LendingTick, CloseLedger, sequence
<1>2. CapTypes
  BY DEF CapInv
<1>3. block_snapshot.ledger \in Nat /\ \A b \in PoolBorrowers : block_borrows[b].ledger \in Nat
  BY <1>2 DEF CapTypes, LedgerAmount
<1>4. /\ block_snapshot'.ledger < sequence'
      /\ \A b \in PoolBorrowers : block_borrows'[b].ledger < sequence'
  BY <1>1, <1>2, <1>3 DEF CapTypes
<1>5. CapTypes'
  <2>1. \A b \in PoolBorrowers : block_borrows'[b].ledger <= sequence'
    BY <1>1, <1>3, <1>4
  <2> QED BY <1>1, <1>2, <1>3, <1>4, <2>1, FS_EmptySet DEF CapTypes
<1>6. \A b \in PoolBorrowers : block_total(b)' = 0
  <2>1. ASSUME NEW b \in PoolBorrowers PROVE block_borrows'[b].ledger # sequence'
    BY <1>1, <1>3, <1>4
  <2> QED BY <2>1 DEF block_total
<1>7. \A b \in PoolBorrowers : borrowed_now(b)' = 0
  <2> SUFFICES ASSUME NEW b \in PoolBorrowers PROVE borrowed_now(b)' = 0
    OBVIOUS
  <2>1. {x \in ledger_loans' : x.borrower = b} = {}
    BY <1>1
  <2> QED BY <2>1, SumEmpty DEF borrowed_now
<1>8. BorrowCapHolds'
  BY <1>1 DEF BorrowCapHolds
<1>9. block_snapshot'.ledger # sequence'
  BY <1>1, <1>3, <1>4
<1> QED BY <1>1, <1>5, <1>6, <1>7, <1>8, <1>9 DEF CapInv

\* A loan is held against the liquidity before the first one of its ledger.
LEMMA CapBorrow ==
  ASSUME CapInv, now \in Nat, liquidity \in Int, closings \in Seq(Nat),
         NEW b \in PoolBorrowers, NEW a \in PoolAmounts,
         NEW rate \in InterestRates, borrow(b, a, rate)
  PROVE  CapInv'
<1> PICK base : base = reference_liquidity
  OBVIOUS
<1> PICK total : total = block_total(b) + a
  OBVIOUS
<1> PICK n : n = Len(closings) + 1
  OBVIOUS
<1> PICK before : before = IF ledger_loans = {} THEN liquidity
                           ELSE (CHOOSE x \in ledger_loans : TRUE).reserve
  OBVIOUS
<1> PICK r : r = [n |-> n, borrower |-> b, amount |-> a, reserve |-> before]
  OBVIOUS
<1>1. /\ total * 10000 <= base * BlockBorrowCap
      /\ block_snapshot' = [ledger |-> sequence, amount |-> base]
      /\ block_borrows' = [block_borrows EXCEPT ![b] = [ledger |-> sequence, amount |-> total]]
      /\ ledger_loans' = ledger_loans \cup {r}
      /\ closings' = Append(closings, 0) /\ now' = now
  BY DEF borrow
<1>2. CapTypes /\ a \in Int /\ sequence \in Nat /\ sequence' = sequence /\ Len(closings) \in Nat
  BY <1>1, LendingAssumption DEF CapInv, sequence
<1>3. before = base /\ base \in Int
  <2>1. CASE ledger_loans = {}
    BY <2>1 DEF CapInv, reference_liquidity
  <2>2. CASE ledger_loans # {}
    <3>1. PICK x \in ledger_loans : before = x.reserve
      BY <2>2
    <3>2. base = block_snapshot.amount
      BY <2>2 DEF CapInv, reference_liquidity
    <3> QED BY <1>2, <3>1, <3>2 DEF CapInv, CapTypes, LedgerAmount
  <2> QED BY <2>1, <2>2
<1>4. total \in Int
  BY <1>2 DEF block_total, CapTypes, LedgerAmount
<1>5. r \in LedgerLoan /\ r \notin ledger_loans /\ r.n = n /\ r.borrower = b
      /\ r.amount = a /\ r.reserve = base
  <2>1. n \in Nat
    BY <1>2
  <2>2. \A x \in ledger_loans : x.n \in Nat /\ x.n <= Len(closings)
    BY <1>2 DEF CapTypes, LedgerLoan
  <2>3. r.n = n /\ r.borrower = b /\ r.amount = a /\ r.reserve = base
    BY <1>3
  <2>4. r \notin ledger_loans
    BY <1>2, <2>2, <2>3
  <2> QED BY <1>2, <1>3, <2>1, <2>3, <2>4 DEF LedgerLoan
<1>6. CapTypes'
  <2>1. IsFiniteSet(ledger_loans')
    <3>1. IsFiniteSet(ledger_loans)
      BY <1>2 DEF CapTypes
    <3>2. IsFiniteSet(ledger_loans \cup {r})
      BY <3>1, FS_AddElement
    <3> QED BY <1>1, <3>2
  <2>2. Len(closings') = n
    BY <1>1
  <2>3. ASSUME NEW x \in ledger_loans' PROVE x.n <= n
    <3>1. CASE x = r
      BY <1>2, <1>5, <3>1
    <3>2. CASE x \in ledger_loans
      BY <1>2, <3>2 DEF CapTypes, LedgerLoan
    <3> QED BY <1>1, <3>1, <3>2
  <2>4. PICK q : q = [ledger |-> sequence, amount |-> total]
    OBVIOUS
  <2>5. q \in LedgerAmount /\ q.ledger = sequence
    BY <1>2, <1>4, <2>4 DEF LedgerAmount
  <2>6. /\ block_borrows' \in [PoolBorrowers -> LedgerAmount]
        /\ \A c \in PoolBorrowers : block_borrows'[c].ledger <= sequence
    BY <1>1, <1>2, <2>4, <2>5 DEF CapTypes
  <2>7. block_snapshot' \in LedgerAmount /\ block_snapshot'.ledger <= sequence
    BY <1>1, <1>2, <1>3 DEF LedgerAmount
  <2> QED BY <1>1, <1>2, <1>5, <2>1, <2>2, <2>3, <2>6, <2>7 DEF CapTypes
<1>7. \A c \in PoolBorrowers : borrowed_now(c)' = IF c = b THEN total ELSE borrowed_now(c)
  <2> SUFFICES ASSUME NEW c \in PoolBorrowers
               PROVE  borrowed_now(c)' = IF c = b THEN total ELSE borrowed_now(c)
    OBVIOUS
  <2>1. borrowed_now(c)' = IF r.borrower = c THEN borrowed_now(c) + r.amount ELSE borrowed_now(c)
    BY <1>1, <1>2, <1>5, BorrowedMore
  <2>2. block_total(b) = borrowed_now(b)
    BY DEF CapInv
  <2> QED BY <1>5, <2>1, <2>2
<1>8. \A c \in PoolBorrowers : block_total(c)' = IF c = b THEN total ELSE block_total(c)
  BY <1>1, <1>2 DEF block_total, CapTypes
<1>9. \A x \in ledger_loans' : x.reserve = base
  <2>1. ASSUME NEW x \in ledger_loans PROVE x.reserve = base
    BY <2>1 DEF CapInv, reference_liquidity
  <2> QED BY <1>1, <1>5, <2>1
<1>10. BorrowCapHolds'
  <2> SUFFICES ASSUME NEW x \in ledger_loans'
               PROVE  borrowed_now(x.borrower)' * 10000 <= x.reserve * BlockBorrowCap
    BY DEF BorrowCapHolds
  <2> PICK c : c = x.borrower
    OBVIOUS
  <2>1. c \in PoolBorrowers /\ x.reserve = base
    BY <1>6, <1>9 DEF CapTypes, LedgerLoan
  <2>2. CASE c = b
    BY <1>1, <1>7, <2>1, <2>2
  <2>3. CASE c # b
    <3>1. x \in ledger_loans
      BY <1>1, <1>5, <2>3
    <3>2. borrowed_now(c) * 10000 <= base * BlockBorrowCap
      BY <2>1, <3>1 DEF CapInv, BorrowCapHolds
    <3> QED BY <1>7, <2>1, <2>3, <3>2
  <2> QED BY <2>2, <2>3
<1>11. /\ block_snapshot'.ledger = sequence' /\ ledger_loans' # {}
       /\ block_snapshot'.amount = base
  BY <1>1, <1>2
<1>12. \A c \in PoolBorrowers : block_total(c)' = borrowed_now(c)'
  BY <1>7, <1>8 DEF CapInv
<1> QED BY <1>6, <1>9, <1>10, <1>11, <1>12 DEF CapInv

\* Every step of the pool keeps its loans, its money and its cap.
LendingInv == LoansInv /\ MoneyInv /\ CapInv

LEMMA CapStep ==
  ASSUME LendingInv, [LendingNext]_<<now, lending_vars>>
  PROVE  CapInv'
<1>1. /\ now \in Nat /\ liquidity \in Int /\ closings \in Seq(Nat) /\ LoansInv /\ CapInv
  BY DEF LendingInv, LoansInv, LoanTypes, MoneyInv
<1>2. CASE \E b \in PoolBorrowers, a \in PoolAmounts, rate \in InterestRates : borrow(b, a, rate)
  BY <1>1, <1>2, CapBorrow
<1>3. CASE LendingTick
  BY <1>1, <1>3, CapTick
<1>4. CASE \E b \in PoolBorrowers : repay(b) \/ liquidate(b) \/ force_liquidate(b)
  <2>1. PICK b \in PoolBorrowers : repay(b) \/ liquidate(b) \/ force_liquidate(b)
    BY <1>4
  <2>2. unpaid(b) /\ close_loan(b) /\ UNCHANGED <<now, block_snapshot, block_borrows, ledger_loans>>
    BY <2>1 DEF repay, liquidate, force_liquidate, overdue
  <2>3. Len(closings') = Len(closings)
    BY <1>1, <2>2, CloseLoan
  <2> QED BY <1>1, <2>2, <2>3, CapRests
<1>5. CASE \/ \E l \in PoolLenders :
                \/ \E a \in PoolAmounts : deposit_liquidity(l, a) \/ withdraw(l, a)
                \/ \E a \in PoolYields : distribute_yield(l, a)
           \/ \E b \in PoolBorrowers : start_liquidation_auction(b) \/ execute_liquidation(b)
           \/ \E a \in PoolYields : accrue_yield(a)
           \/ UNCHANGED <<now, lending_vars>>
  <2>1. UNCHANGED <<now, block_snapshot, block_borrows, ledger_loans, closings>>
    BY <1>5 DEF deposit_liquidity, withdraw, distribute_yield, accrue_yield,
                start_liquidation_auction, execute_liquidation, lending_vars
  <2> QED BY <1>1, <2>1, CapRests
<1> QED BY <1>2, <1>3, <1>4, <1>5 DEF LendingNext

\* For any lenders, borrowers, amounts, rates and terms: the pool's liquidity is its tokens and
\* the yield announced, a borrower's loans of one ledger stay under the cap of the liquidity
\* before the first, a loan is closed once, and bad debt is what was written off and not paid.
THEOREM LendingSound == LendingSpec => []LendingIsSound
<1>1. LendingInit => LendingInv
  <2> SUFFICES ASSUME LendingInit PROVE LendingInv
    OBVIOUS
  <2>1. MoneyInv
    <3>1. lender_balance = [l \in PoolLenders |-> 0]
      BY DEF LendingInit
    <3>2. SumFunctionOnSet(lender_balance, PoolLenders) = 0
      BY <3>1, LendingAssumption, SumZero
    <3> QED BY <3>1, <3>2 DEF LendingInit, MoneyInv, PoolBacksLiquidity
  <2>2. CapInv
    <3>1. /\ now = 0 /\ sequence = 1 /\ ledger_loans = {}
          /\ block_snapshot = [ledger |-> 0, amount |-> 0]
          /\ block_borrows = [b \in PoolBorrowers |-> [ledger |-> 0, amount |-> 0]]
      BY DEF LendingInit, sequence
    <3>2. CapTypes
      BY <3>1, FS_EmptySet DEF CapTypes, LedgerAmount
    <3>3. \A b \in PoolBorrowers : block_total(b) = 0
      BY <3>1 DEF block_total
    <3>4. \A b \in PoolBorrowers : borrowed_now(b) = 0
      <4> SUFFICES ASSUME NEW b \in PoolBorrowers PROVE borrowed_now(b) = 0
        OBVIOUS
      <4>1. {x \in ledger_loans : x.borrower = b} = {}
        BY <3>1
      <4> QED BY <4>1, SumEmpty DEF borrowed_now
    <3> QED BY <3>1, <3>2, <3>3, <3>4 DEF CapInv, BorrowCapHolds
  <2> QED BY <2>1, <2>2, LoansInit DEF LendingInv
<1>2. LendingInv /\ [LendingNext]_<<now, lending_vars>> => LendingInv'
  <2> SUFFICES ASSUME LendingInv, [LendingNext]_<<now, lending_vars>> PROVE LendingInv'
    OBVIOUS
  <2>1. LoansInv /\ MoneyInv /\ LoanTypes
    BY DEF LendingInv, LoansInv
  <2> QED BY <2>1, LoansStep, MoneyStep, CapStep DEF LendingInv
<1>3. LendingInv => LendingIsSound
  BY DEF LendingInv, LoansInv, MoneyInv, CapInv, LendingIsSound
<1> QED BY <1>1, <1>2, <1>3, PTL DEF LendingSpec

-----------------------------------------------------------------------------
(* Collateralised loans: what the contract holds.                          *)

Position == [collateral : Nat, debt : Nat \ {0}, borrowed_at : Nat, opened_at_price : Nat]

MarketTypes ==
    /\ now \in Nat /\ quote \in [price : Nat, at : Nat]
    /\ mnt_held \in Int /\ usdc_held \in Int /\ interest_vault \in Int
    /\ IsFiniteSet(DOMAIN positions) /\ positions \in [DOMAIN positions -> Position]
    /\ \A d \in DOMAIN positions : positions[d].borrowed_at <= now

HoldingsInv == CollateralIsHeld /\ InterestIsCovered

\* What is owed is the debt and interest, which is never negative.
LEMMA DebtGrows ==
  ASSUME MarketTypes, NEW d \in DOMAIN positions
  PROVE  /\ positions[d] \in Position
         /\ get_current_debt(d) \in Nat /\ positions[d].debt <= get_current_debt(d)
         /\ now = positions[d].borrowed_at => get_current_debt(d) = positions[d].debt
<1> PICK p \in Position : p = positions[d]
  BY DEF MarketTypes
<1> PICK days \in Nat : days = now - p.borrowed_at
  BY DEF MarketTypes, Position
<1>1. p.debt \in Nat /\ p.borrowed_at \in Nat /\ DailyInterest \in Nat /\ now \in Nat
  BY CollateralAssumption DEF Position, MarketTypes
<1> PICK m \in Nat : m = p.debt * DailyInterest
  BY <1>1
<1> PICK i \in Nat : i = m * days
  OBVIOUS
<1>2. get_current_debt(d) = p.debt + i \div 10000
  BY DEF get_current_debt
<1>3. i \div 10000 \in Nat
  OBVIOUS
<1>4. ASSUME now = p.borrowed_at PROVE get_current_debt(d) = p.debt
  <2>1. days = 0
    BY <1>1, <1>4
  <2>2. i = 0
    BY <2>1
  <2>3. i \div 10000 = 0
    BY <2>2
  <2> QED BY <1>1, <1>2, <2>3
<1> QED BY <1>1, <1>2, <1>3, <1>4

\* The sums when a position is opened.
LEMMA SumsOpened ==
  ASSUME MarketTypes, NEW d, d \notin DOMAIN positions, NEW p \in Position,
         positions' = put(positions, d, p)
  PROVE  /\ DOMAIN positions' = DOMAIN positions \cup {d} /\ IsFiniteSet(DOMAIN positions')
         /\ positions' \in [DOMAIN positions' -> Position]
         /\ positions'[d] = p /\ \A c \in DOMAIN positions : positions'[c] = positions[c]
         /\ SumFunctionOnSet(pledged, DOMAIN positions) \in Int
         /\ SumFunctionOnSet(lent, DOMAIN positions) \in Int
         /\ SumFunctionOnSet(pledged, DOMAIN positions)' =
              SumFunctionOnSet(pledged, DOMAIN positions) + p.collateral
         /\ SumFunctionOnSet(lent, DOMAIN positions)' =
              SumFunctionOnSet(lent, DOMAIN positions) + p.debt
<1> PICK S : S = DOMAIN positions
  OBVIOUS
<1>1. IsFiniteSet(S) /\ positions \in [S -> Position]
  BY DEF MarketTypes
<1>2. /\ DOMAIN positions' = S \cup {d} /\ positions'[d] = p
      /\ \A c \in S : positions'[c] = positions[c]
      /\ positions' \in [S \cup {d} -> Position]
  BY <1>1 DEF put
<1>3. IsFiniteSet(S \cup {d})
  BY <1>1, FS_AddElement
<1>4. ASSUME NEW f, NEW g, \A c \in S : f[c] \in Int /\ g[c] = f[c], g[d] \in Int
      PROVE  /\ SumFunctionOnSet(g, S \cup {d}) = SumFunctionOnSet(f, S) + g[d]
             /\ SumFunctionOnSet(f, S) \in Int
  <2>1. IsFiniteSet(S)
    BY <1>1
  <2>2. d \notin S
    OBVIOUS
  <2>3. g[d] \in Int
    BY <1>4
  <2>4. \A c \in S : f[c] \in Int /\ g[c] = f[c]
    BY <1>4
  <2> QED BY ONLY <2>1, <2>2, <2>3, <2>4, SumAdd, Zenon
<1>5. /\ SumFunctionOnSet(pledged, S) \in Int
      /\ SumFunctionOnSet(pledged, DOMAIN positions)' = SumFunctionOnSet(pledged, S) + p.collateral
  <2> PICK f : f = [c \in S |-> positions[c].collateral]
    OBVIOUS
  <2> PICK g : g = [c \in S \cup {d} |-> positions'[c].collateral]
    OBVIOUS
  <2>1. \A c \in S : f[c] \in Int /\ g[c] = f[c]
    BY <1>1, <1>2 DEF Position
  <2>2. g[d] = p.collateral /\ g[d] \in Int
    BY <1>2 DEF Position
  <2>3. /\ SumFunctionOnSet(g, S \cup {d}) = SumFunctionOnSet(f, S) + g[d]
        /\ SumFunctionOnSet(f, S) \in Int
    BY <1>4, <2>1, <2>2
  <2>4. pledged = f /\ pledged' = g
    BY <1>2 DEF pledged
  <2> QED BY <1>2, <2>2, <2>3, <2>4
<1>6. /\ SumFunctionOnSet(lent, S) \in Int
      /\ SumFunctionOnSet(lent, DOMAIN positions)' = SumFunctionOnSet(lent, S) + p.debt
  <2> PICK f : f = [c \in S |-> positions[c].debt]
    OBVIOUS
  <2> PICK g : g = [c \in S \cup {d} |-> positions'[c].debt]
    OBVIOUS
  <2>1. \A c \in S : f[c] \in Int /\ g[c] = f[c]
    BY <1>1, <1>2 DEF Position
  <2>2. g[d] = p.debt /\ g[d] \in Int
    BY <1>2 DEF Position
  <2>3. /\ SumFunctionOnSet(g, S \cup {d}) = SumFunctionOnSet(f, S) + g[d]
        /\ SumFunctionOnSet(f, S) \in Int
    BY <1>4, <2>1, <2>2
  <2>4. lent = f /\ lent' = g
    BY <1>2 DEF lent
  <2> QED BY <1>2, <2>2, <2>3, <2>4
<1> QED BY <1>2, <1>3, <1>5, <1>6

\* The sums when a position is closed.
LEMMA SumsClosed ==
  ASSUME MarketTypes, NEW d \in DOMAIN positions, positions' = del(positions, d)
  PROVE  /\ DOMAIN positions' = DOMAIN positions \ {d} /\ IsFiniteSet(DOMAIN positions')
         /\ positions' \in [DOMAIN positions' -> Position]
         /\ \A c \in DOMAIN positions' : positions'[c] = positions[c]
         /\ SumFunctionOnSet(pledged, DOMAIN positions) \in Int
         /\ SumFunctionOnSet(lent, DOMAIN positions) \in Int
         /\ SumFunctionOnSet(pledged, DOMAIN positions)' =
              SumFunctionOnSet(pledged, DOMAIN positions) - positions[d].collateral
         /\ SumFunctionOnSet(lent, DOMAIN positions)' =
              SumFunctionOnSet(lent, DOMAIN positions) - positions[d].debt
<1> PICK S : S = DOMAIN positions
  OBVIOUS
<1>1. IsFiniteSet(S) /\ positions \in [S -> Position] /\ d \in S
  BY DEF MarketTypes
<1>2. /\ DOMAIN positions' = S \ {d} /\ \A c \in S \ {d} : positions'[c] = positions[c]
      /\ positions' \in [S \ {d} -> Position]
  BY <1>1 DEF del
<1>3. IsFiniteSet(S \ {d})
  BY <1>1, FS_RemoveElement
<1>4. ASSUME NEW f, NEW g, \A c \in S : f[c] \in Int, \A c \in S \ {d} : g[c] = f[c]
      PROVE  /\ SumFunctionOnSet(g, S \ {d}) = SumFunctionOnSet(f, S) - f[d]
             /\ SumFunctionOnSet(f, S) \in Int
  <2>1. IsFiniteSet(S)
    BY <1>1
  <2>2. d \in S
    BY <1>1
  <2>3. \A c \in S : f[c] \in Int
    BY <1>4
  <2>4. \A c \in S \ {d} : g[c] = f[c]
    BY <1>4
  <2> QED BY <2>1, <2>2, <2>3, <2>4, SumDrop
<1>5. /\ SumFunctionOnSet(pledged, S) \in Int
      /\ SumFunctionOnSet(pledged, DOMAIN positions)' =
           SumFunctionOnSet(pledged, S) - positions[d].collateral
  <2> PICK f : f = [c \in S |-> positions[c].collateral]
    OBVIOUS
  <2> PICK g : g = [c \in S \ {d} |-> positions'[c].collateral]
    OBVIOUS
  <2>1. \A c \in S : f[c] \in Int
    BY <1>1 DEF Position
  <2>2. \A c \in S \ {d} : g[c] = f[c]
    BY <1>2
  <2>3. /\ SumFunctionOnSet(g, S \ {d}) = SumFunctionOnSet(f, S) - f[d]
        /\ SumFunctionOnSet(f, S) \in Int
    BY <1>4, <2>1, <2>2
  <2>4. pledged = f /\ pledged' = g /\ f[d] = positions[d].collateral
    BY <1>1, <1>2 DEF pledged
  <2> QED BY <1>2, <2>3, <2>4
<1>6. /\ SumFunctionOnSet(lent, S) \in Int
      /\ SumFunctionOnSet(lent, DOMAIN positions)' =
           SumFunctionOnSet(lent, S) - positions[d].debt
  <2> PICK f : f = [c \in S |-> positions[c].debt]
    OBVIOUS
  <2> PICK g : g = [c \in S \ {d} |-> positions'[c].debt]
    OBVIOUS
  <2>1. \A c \in S : f[c] \in Int
    BY <1>1 DEF Position
  <2>2. \A c \in S \ {d} : g[c] = f[c]
    BY <1>2
  <2>3. /\ SumFunctionOnSet(g, S \ {d}) = SumFunctionOnSet(f, S) - f[d]
        /\ SumFunctionOnSet(f, S) \in Int
    BY <1>4, <2>1, <2>2
  <2>4. lent = f /\ lent' = g /\ f[d] = positions[d].debt
    BY <1>1, <1>2 DEF lent
  <2> QED BY <1>2, <2>3, <2>4
<1> QED BY <1>2, <1>3, <1>5, <1>6

\* More collateral for a position: the sum grows, and so does nothing else.
LEMMA SumsToppedUp ==
  ASSUME MarketTypes, NEW d \in DOMAIN positions, NEW a \in Nat,
         positions' = [positions EXCEPT ![d].collateral = @ + a]
  PROVE  /\ DOMAIN positions' = DOMAIN positions /\ IsFiniteSet(DOMAIN positions')
         /\ positions' \in [DOMAIN positions' -> Position]
         /\ \A c \in DOMAIN positions : c # d => positions'[c] = positions[c]
         /\ positions'[d] = [positions[d] EXCEPT !.collateral = positions[d].collateral + a]
         /\ lent' = lent
         /\ SumFunctionOnSet(pledged, DOMAIN positions) \in Int
         /\ SumFunctionOnSet(pledged, DOMAIN positions)' =
              SumFunctionOnSet(pledged, DOMAIN positions) + a
<1> PICK S : S = DOMAIN positions
  OBVIOUS
<1> PICK p \in Position : p = positions[d]
  BY DEF MarketTypes
<1> PICK v \in Nat : v = p.collateral + a
  BY DEF Position
<1> PICK q : q = [p EXCEPT !.collateral = v]
  OBVIOUS
<1>1. IsFiniteSet(S) /\ positions \in [S -> Position] /\ d \in S
  BY DEF MarketTypes
<1>2. q \in Position /\ q.collateral = v /\ q.debt = p.debt
  BY DEF Position
<1>3. positions' = [positions EXCEPT ![d] = q]
  OBVIOUS
<1>4. /\ DOMAIN positions' = S /\ positions' \in [S -> Position] /\ positions'[d] = q
      /\ \A c \in S : c # d => positions'[c] = positions[c]
  BY <1>1, <1>2, <1>3
<1>5. lent' = lent
  <2>1. \A c \in S : positions'[c].debt = positions[c].debt
    BY <1>2, <1>4
  <2> QED BY <1>4, <2>1 DEF lent
<1> PICK f : f = [c \in S |-> positions[c].collateral]
  OBVIOUS
<1> PICK g : g = [f EXCEPT ![d] = v]
  OBVIOUS
<1>6. f \in [S -> Int] /\ f[d] = p.collateral
  BY <1>1 DEF Position
<1>7. /\ SumFunctionOnSet(g, S) = SumFunctionOnSet(f, S) + (v - f[d])
      /\ SumFunctionOnSet(f, S) \in Int
  BY <1>1, <1>6, SumUpdate
<1>8. pledged = f
  BY DEF pledged
<1>9. pledged' = g
  <2>1. pledged' = [c \in S |-> positions'[c].collateral]
    BY <1>4 DEF pledged
  <2>2. \A c \in S : positions'[c].collateral = g[c]
    BY <1>2, <1>4, <1>6
  <2>3. g = [c \in S |-> g[c]]
    BY <1>6
  <2> QED BY <2>1, <2>2, <2>3
<1>10. v - f[d] = a
  BY <1>6 DEF Position
<1> QED BY <1>1, <1>2, <1>4, <1>5, <1>7, <1>8, <1>9, <1>10

\* What is sold and what the protocol keeps make up the collateral.
LEMMA SoldWhole ==
  ASSUME MarketTypes, NEW d \in DOMAIN positions
  PROVE  mnt_held - collateral_sold(d) - protocol_fee(d) = mnt_held - positions[d].collateral
<1> PICK c \in Nat : c = positions[d].collateral
  BY DEF MarketTypes, Position
<1>1. PICK m \in Nat : m = c * LiquidationFee
  BY CollateralAssumption
<1>2. PICK fee \in Int : fee = m \div 10000
  OBVIOUS
<1>3. protocol_fee(d) = fee /\ collateral_sold(d) = c - fee /\ mnt_held \in Int
  BY <1>1, <1>2 DEF protocol_fee, collateral_sold, MarketTypes
<1> QED BY <1>3

\* Every step keeps the collateral and covers the interest.
LEMMA HoldingsStep ==
  ASSUME MarketTypes, HoldingsInv, [CollateralNext]_<<now, collateral_vars>>
  PROVE  MarketTypes' /\ HoldingsInv'
<1> PICK held : held = SumFunctionOnSet(pledged, DOMAIN positions)
  OBVIOUS
<1> PICK out : out = SumFunctionOnSet(lent, DOMAIN positions)
  OBVIOUS
<1>1. /\ mnt_held = held /\ usdc_held + out >= InitialUsdc + interest_vault
      /\ mnt_held \in Int /\ usdc_held \in Int /\ interest_vault \in Int /\ InitialUsdc \in Nat
      /\ now \in Nat
  BY CollateralAssumption DEF HoldingsInv, CollateralIsHeld, InterestIsCovered, MarketTypes
<1>2. ASSUME NEW d \in Debtors, NEW c \in Collaterals, NEW a \in Debts, open_loan(d, c, a)
      PROVE  MarketTypes' /\ HoldingsInv'
  <2> PICK p : p = [collateral |-> c, debt |-> a, borrowed_at |-> now, opened_at_price |-> quote.price]
    OBVIOUS
  <2>1. /\ d \notin DOMAIN positions /\ positions' = put(positions, d, p)
        /\ mnt_held' = mnt_held + c /\ usdc_held' = usdc_held - a
        /\ UNCHANGED <<now, quote, interest_vault>>
    BY <1>2 DEF open_loan
  <2>2. c \in Nat /\ a \in Nat \ {0} /\ quote.price \in Nat
    BY CollateralAssumption DEF MarketTypes
  <2>3. p \in Position /\ p.collateral = c /\ p.debt = a /\ p.borrowed_at = now
    BY <1>1, <2>2 DEF Position
  <2>4. /\ DOMAIN positions' = DOMAIN positions \cup {d} /\ IsFiniteSet(DOMAIN positions')
        /\ positions' \in [DOMAIN positions' -> Position]
        /\ positions'[d] = p /\ \A e \in DOMAIN positions : positions'[e] = positions[e]
        /\ held \in Int /\ out \in Int
        /\ SumFunctionOnSet(pledged, DOMAIN positions)' = held + c
        /\ SumFunctionOnSet(lent, DOMAIN positions)' = out + a
    BY <2>1, <2>3, SumsOpened
  <2>5. \A e \in DOMAIN positions' : positions'[e].borrowed_at <= now'
    BY <1>1, <2>1, <2>3, <2>4 DEF MarketTypes
  <2>6. MarketTypes'
    BY <1>1, <2>1, <2>2, <2>4, <2>5 DEF MarketTypes
  <2> QED BY <1>1, <2>1, <2>2, <2>4, <2>6 DEF HoldingsInv, CollateralIsHeld, InterestIsCovered
<1>3. ASSUME NEW d \in DOMAIN positions, positions' = del(positions, d),
             mnt_held' = mnt_held - positions[d].collateral,
             usdc_held' = usdc_held + get_current_debt(d),
             \/ interest_vault' = interest_vault + (get_current_debt(d) - positions[d].debt)
             \/ interest_vault' = interest_vault,
             UNCHANGED <<now, quote>>
      PROVE  MarketTypes' /\ HoldingsInv'
  <2> PICK c : c = positions[d].collateral
    OBVIOUS
  <2> PICK a : a = positions[d].debt
    OBVIOUS
  <2> PICK due : due = get_current_debt(d)
    OBVIOUS
  <2>1. positions[d] \in Position /\ due \in Nat /\ a <= due
    BY DebtGrows
  <2>2. c \in Nat /\ a \in Nat
    BY <2>1 DEF Position
  <2>3. /\ DOMAIN positions' = DOMAIN positions \ {d} /\ IsFiniteSet(DOMAIN positions')
        /\ positions' \in [DOMAIN positions' -> Position]
        /\ \A e \in DOMAIN positions' : positions'[e] = positions[e]
        /\ held \in Int /\ out \in Int
        /\ SumFunctionOnSet(pledged, DOMAIN positions)' = held - c
        /\ SumFunctionOnSet(lent, DOMAIN positions)' = out - a
    BY <1>3, SumsClosed
  <2>4. \A e \in DOMAIN positions' : positions'[e].borrowed_at <= now'
    BY <1>3, <2>3 DEF MarketTypes
  <2>5. /\ mnt_held' \in Int /\ mnt_held' = held - c
        /\ usdc_held' \in Int /\ interest_vault' \in Int
        /\ usdc_held' + (out - a) >= InitialUsdc + interest_vault'
    BY <1>1, <1>3, <2>1, <2>2, <2>3
  <2>6. MarketTypes'
    BY <1>1, <1>3, <2>3, <2>4, <2>5 DEF MarketTypes
  <2> QED BY <2>3, <2>5, <2>6 DEF HoldingsInv, CollateralIsHeld, InterestIsCovered
<1>4. ASSUME NEW d \in Debtors, repay_loan(d)
      PROVE  MarketTypes' /\ HoldingsInv'
  BY <1>3, <1>4 DEF repay_loan, vault_after
<1>5. ASSUME NEW d \in Debtors, liquidate_position(d)
      PROVE  MarketTypes' /\ HoldingsInv'
  BY <1>3, <1>5, SoldWhole DEF liquidate_position
<1>6. ASSUME NEW d \in Debtors, NEW a \in Collaterals, add_collateral(d, a)
      PROVE  MarketTypes' /\ HoldingsInv'
  <2>1. /\ d \in DOMAIN positions /\ a \in Nat
        /\ positions' = [positions EXCEPT ![d].collateral = @ + a] /\ mnt_held' = mnt_held + a
        /\ UNCHANGED <<now, quote, usdc_held, interest_vault>>
    BY <1>6, CollateralAssumption DEF add_collateral
  <2>2. /\ DOMAIN positions' = DOMAIN positions /\ IsFiniteSet(DOMAIN positions')
        /\ positions' \in [DOMAIN positions' -> Position]
        /\ \A c \in DOMAIN positions : c # d => positions'[c] = positions[c]
        /\ positions'[d] = [positions[d] EXCEPT !.collateral = positions[d].collateral + a]
        /\ lent' = lent /\ held \in Int
        /\ SumFunctionOnSet(pledged, DOMAIN positions)' = held + a
    BY <2>1, SumsToppedUp
  <2>3. positions[d] \in Position
    BY <2>1 DEF MarketTypes
  <2>4. positions'[d].borrowed_at = positions[d].borrowed_at
    BY <2>2, <2>3 DEF Position
  <2>5. \A e \in DOMAIN positions' : positions'[e].borrowed_at <= now'
    BY <2>1, <2>2, <2>4 DEF MarketTypes
  <2>6. MarketTypes'
    BY <1>1, <2>1, <2>2, <2>5 DEF MarketTypes
  <2> QED BY <1>1, <2>1, <2>2, <2>6 DEF HoldingsInv, CollateralIsHeld, InterestIsCovered
<1>7. ASSUME UNCHANGED <<mnt_held, usdc_held, interest_vault, positions>>,
             now' \in {now, now + 1}, quote' \in [price : Nat, at : Nat]
      PROVE  MarketTypes' /\ HoldingsInv'
  <2>1. now' \in Nat /\ now <= now'
    BY <1>1, <1>7
  <2>2. \A d \in DOMAIN positions : positions[d].borrowed_at <= now'
    <3> SUFFICES ASSUME NEW d \in DOMAIN positions PROVE positions[d].borrowed_at <= now'
      OBVIOUS
    <3>1. positions[d].borrowed_at \in Nat /\ positions[d].borrowed_at <= now
      BY DEF MarketTypes, Position
    <3> QED BY <1>1, <2>1, <3>1
  <2>3. MarketTypes'
    BY <1>7, <2>1, <2>2 DEF MarketTypes
  <2> QED BY <1>7, <2>3 DEF HoldingsInv, CollateralIsHeld, InterestIsCovered, pledged, lent
<1>8. CASE \/ \E p \in Prices : oracle_price(p)
           \/ \E b \in BOOLEAN : set_halted(b)
           \/ \E t \in Staleness : set_max_price_staleness(t)
           \/ CollateralTick
           \/ UNCHANGED <<now, collateral_vars>>
  <2>1. UNCHANGED <<mnt_held, usdc_held, interest_vault, positions>> /\ now' \in {now, now + 1}
    BY <1>8 DEF oracle_price, set_halted, set_max_price_staleness, CollateralTick, CloseLedger,
                collateral_vars
  <2>2. quote' \in [price : Nat, at : Nat]
    <3>1. quote' = quote \/ \E p \in Prices : quote' = [price |-> p, at |-> now]
      BY <1>8 DEF oracle_price, set_halted, set_max_price_staleness, CollateralTick,
                  collateral_vars
    <3> QED BY <1>1, <3>1, CollateralAssumption DEF MarketTypes
  <2> QED BY <1>7, <2>1, <2>2
<1> QED BY <1>2, <1>4, <1>5, <1>6, <1>8 DEF CollateralNext

-----------------------------------------------------------------------------
(* Collateralised loans: the lists.                                        *)

\* The slots and the index are inverse to each other.
ListInv ==
    /\ position_index \in Seq(DOMAIN positions)
    /\ PositionsAreListed
    /\ \A i \in 1 .. Len(position_index) : position_slot[position_index[i]] = i
    /\ position_slot = [d \in DOMAIN positions |-> position_slot[d]]

\* What the lists say, entry by entry.
LEMMA ListFacts ==
  ASSUME ListInv
  PROVE  /\ position_index \in Seq(DOMAIN positions)
         /\ Len(position_index) = Cardinality(DOMAIN positions)
         /\ DOMAIN position_slot = DOMAIN positions
         /\ DOMAIN position_index = 1 .. Len(position_index)
         /\ \A d \in DOMAIN positions : /\ position_slot[d] \in 1 .. Len(position_index)
                                        /\ position_index[position_slot[d]] = d
         /\ \A i \in 1 .. Len(position_index) : /\ position_index[i] \in DOMAIN positions
                                                /\ position_slot[position_index[i]] = i
<1>1. position_index \in Seq(DOMAIN positions) /\ PositionsAreListed
  BY DEF ListInv
<1>2. DOMAIN position_index = 1 .. Len(position_index)
  BY <1>1
<1>3. \A i \in 1 .. Len(position_index) : position_index[i] \in DOMAIN positions
  BY <1>1
<1>4. \A i \in 1 .. Len(position_index) : position_slot[position_index[i]] = i
  BY DEF ListInv
<1> QED BY <1>1, <1>2, <1>3, <1>4 DEF PositionsAreListed

\* A new position is the last of the index.
LEMMA ListOpened ==
  ASSUME ListInv, IsFiniteSet(DOMAIN positions), NEW d, d \notin DOMAIN positions,
         DOMAIN positions' = DOMAIN positions \cup {d},
         position_index' = Append(position_index, d),
         position_slot' = put(position_slot, d, Len(position_index) + 1)
  PROVE  ListInv'
<1> PICK n \in Nat : n = Len(position_index)
  BY DEF ListInv
<1> PICK P : P = DOMAIN positions
  OBVIOUS
<1>1. /\ position_index \in Seq(P) /\ n = Cardinality(P) /\ DOMAIN position_slot = P
      /\ DOMAIN position_index = 1 .. n
      /\ \A e \in P : position_slot[e] \in 1 .. n /\ position_index[position_slot[e]] = e
      /\ \A i \in 1 .. n : position_index[i] \in P /\ position_slot[position_index[i]] = i
  BY ListFacts
<1>2. /\ DOMAIN position_slot' = P \cup {d} /\ position_slot'[d] = n + 1
      /\ \A e \in P : position_slot'[e] = position_slot[e]
      /\ position_slot' = [e \in P \cup {d} |-> position_slot'[e]]
  BY <1>1 DEF put
<1>3. /\ position_index' \in Seq(P \cup {d}) /\ Len(position_index') = n + 1
      /\ position_index'[n + 1] = d /\ \A i \in 1 .. n : position_index'[i] = position_index[i]
  <2>1. position_index \in Seq(P \cup {d})
    BY <1>1
  <2> QED BY <1>1, <2>1
<1>4. Cardinality(P \cup {d}) = n + 1
  BY <1>1, FS_AddElement
<1>5. DOMAIN position_index' = 1 .. n + 1
  BY <1>3
<1>6. PositionsAreListed'
  <2>1. ASSUME NEW e \in P \cup {d}
        PROVE  position_slot'[e] \in 1 .. n + 1 /\ position_index'[position_slot'[e]] = e
    <3>1. CASE e = d
      BY <1>2, <1>3, <3>1
    <3>2. CASE e \in P
      BY <1>1, <1>2, <1>3, <3>2
    <3> QED BY <3>1, <3>2
  <2> QED BY <1>2, <1>3, <1>4, <1>5, <2>1 DEF PositionsAreListed
<1>7. \A i \in 1 .. n + 1 : position_slot'[position_index'[i]] = i
  <2> SUFFICES ASSUME NEW i \in 1 .. n + 1 PROVE position_slot'[position_index'[i]] = i
    OBVIOUS
  <2>1. CASE i = n + 1
    BY <1>2, <1>3, <2>1
  <2>2. CASE i \in 1 .. n
    BY <1>1, <1>2, <1>3, <2>2
  <2> QED BY <2>1, <2>2
<1> QED BY <1>2, <1>3, <1>6, <1>7 DEF ListInv

\* The last entry moves into the slot of the one that leaves.
LEMMA ListClosed ==
  ASSUME ListInv, IsFiniteSet(DOMAIN positions), NEW d \in DOMAIN positions,
         DOMAIN positions' = DOMAIN positions \ {d}, deindex_position(d)
  PROVE  ListInv'
<1> PICK n \in Nat : n = Len(position_index)
  BY DEF ListInv
<1> PICK P : P = DOMAIN positions
  OBVIOUS
<1> PICK k : k = position_slot[d]
  OBVIOUS
<1> PICK moved : moved = position_index[n]
  OBVIOUS
<1> PICK e : e = [position_index EXCEPT ![k] = moved]
  OBVIOUS
<1> PICK f : f = [position_slot EXCEPT ![moved] = k]
  OBVIOUS
<1>1. /\ position_index \in Seq(P) /\ n = Cardinality(P) /\ DOMAIN position_slot = P
      /\ DOMAIN position_index = 1 .. n
      /\ \A c \in P : position_slot[c] \in 1 .. n /\ position_index[position_slot[c]] = c
      /\ \A i \in 1 .. n : position_index[i] \in P /\ position_slot[position_index[i]] = i
  BY ListFacts
<1>2. /\ position_index' = SubSeq(e, 1, n - 1) /\ position_slot' = del(f, d)
  BY DEF deindex_position, slots_without
<1>3. d \in P /\ k \in 1 .. n /\ position_index[k] = d /\ n \in 1 .. n /\ moved \in P
      /\ position_slot[moved] = n
  <2>1. d \in P /\ k \in 1 .. n /\ position_index[k] = d
    BY <1>1
  <2>2. n \in 1 .. n
    BY <2>1
  <2> QED BY <1>1, <2>1, <2>2
<1>4. /\ e \in Seq(P) /\ Len(e) = n /\ e[k] = moved
      /\ \A i \in 1 .. n : i # k => e[i] = position_index[i]
  BY <1>1, <1>3
<1>5. /\ position_index' \in Seq(P) /\ Len(position_index') = n - 1 /\ n - 1 \in Nat
      /\ \A i \in 1 .. n - 1 : position_index'[i] = e[i]
  BY <1>2, <1>3, <1>4
<1>6. /\ DOMAIN f = P /\ f[moved] = k /\ \A c \in P : c # moved => f[c] = position_slot[c]
  BY <1>1, <1>3
<1>7. /\ DOMAIN position_slot' = P \ {d} /\ \A c \in P \ {d} : position_slot'[c] = f[c]
      /\ position_slot' = [c \in P \ {d} |-> position_slot'[c]]
  <2>1. position_slot' = [c \in P \ {d} |-> f[c]]
    BY <1>2, <1>6 DEF del
  <2> QED BY <2>1
<1>8. Cardinality(P \ {d}) = n - 1
  <2>1. IsFiniteSet(P) /\ d \in P
    BY <1>3
  <2>2. Cardinality(P \ {d}) = Cardinality(P) - 1
    BY <2>1, FS_RemoveElement
  <2> QED BY <1>1, <2>2
<1>9. \A i \in 1 .. n - 1 :
        position_index'[i] \in P \ {d} /\ position_slot'[position_index'[i]] = i
  <2> SUFFICES ASSUME NEW i \in 1 .. n - 1
               PROVE  position_index'[i] \in P \ {d} /\ position_slot'[position_index'[i]] = i
    OBVIOUS
  <2>1. i \in 1 .. n /\ i # n /\ position_index'[i] = e[i]
    BY <1>5
  <2>2. CASE i = k
    <3>1. e[i] = moved /\ moved # d
      BY <1>3, <1>4, <2>1, <2>2
    <3> QED BY <1>3, <1>6, <1>7, <2>1, <2>2, <3>1
  <2>3. CASE i # k
    <3>1. e[i] = position_index[i] /\ position_index[i] \in P /\ position_slot[position_index[i]] = i
      BY <1>1, <1>4, <2>1, <2>3
    <3>2. position_index[i] # d /\ position_index[i] # moved
      BY <1>3, <2>1, <2>3, <3>1
    <3> QED BY <1>6, <1>7, <2>1, <3>1, <3>2
  <2> QED BY <2>2, <2>3
<1>10. \A c \in P \ {d} :
         position_slot'[c] \in 1 .. n - 1 /\ position_index'[position_slot'[c]] = c
  <2> SUFFICES ASSUME NEW c \in P \ {d}
               PROVE  position_slot'[c] \in 1 .. n - 1 /\ position_index'[position_slot'[c]] = c
    OBVIOUS
  <2>1. position_slot[c] \in 1 .. n /\ position_index[position_slot[c]] = c
    BY <1>1
  <2>2. CASE c = moved
    <3>1. k # n
      BY <1>3, <2>2
    <3>2. k \in 1 .. n - 1
      BY <1>3, <3>1
    <3> QED BY <1>4, <1>5, <1>6, <1>7, <2>2, <3>2
  <2>3. CASE c # moved
    <3>1. position_slot'[c] = position_slot[c]
      BY <1>6, <1>7, <2>3
    <3>2. position_slot[c] # n /\ position_slot[c] # k
      BY <1>3, <2>1, <2>3
    <3>3. position_slot[c] \in 1 .. n - 1
      BY <2>1, <3>2
    <3> QED BY <1>4, <1>5, <2>1, <3>1, <3>2, <3>3
  <2> QED BY <2>2, <2>3
<1>11. position_index' \in Seq(P \ {d})
  BY <1>5, <1>9
<1>12. DOMAIN position_index' = 1 .. n - 1
  BY <1>5
<1>13. PositionsAreListed'
  BY <1>5, <1>7, <1>8, <1>10, <1>12 DEF PositionsAreListed
<1> QED BY <1>5, <1>7, <1>9, <1>11, <1>13 DEF ListInv

\* Counting on: the numbers from 1, and one more.
LEMMA CountedOn ==
  ASSUME NEW n \in Nat, NEW s \in Seq(Nat), Len(s) = n, \A i \in 1 .. n : s[i] = i,
         NEW t, t = Append(s, n + 1)
  PROVE  t \in Seq(Nat) /\ Len(t) = n + 1 /\ \A i \in 1 .. (n + 1) : t[i] = i
<1>1. n + 1 \in Nat
  OBVIOUS
<1>2. /\ t \in Seq(Nat) /\ Len(t) = Len(s) + 1
      /\ \A i \in 1 .. Len(s) : t[i] = s[i]
      /\ t[Len(s) + 1] = n + 1
  BY <1>1, AppendProperties
<1>3. ASSUME NEW i \in 1 .. (n + 1) PROVE t[i] = i
  <2>1. CASE i = n + 1
    BY <1>2, <2>1
  <2>2. CASE i \in 1 .. n
    BY <1>2, <2>2
  <2> QED BY <2>1, <2>2
<1> QED BY <1>2, <1>3

\* The k numbers that end with n.
IsWindow(s, n, k) == s \in Seq(Nat) /\ Len(s) = k /\ \A i \in 1 .. k : s[i] = n - k + i

\* A window of numbers moves on by one.
LEMMA WindowMoved ==
  ASSUME NEW n \in Nat, NEW k \in Nat, k # 0, k <= n, NEW s, IsWindow(s, n, k)
  PROVE  IsWindow(Append(Tail(s), n + 1), n + 1, k) /\ Head(s) = n - k + 1
<1> PICK t : t = Append(Tail(s), n + 1)
  OBVIOUS
<1>0. s \in Seq(Nat) /\ Len(s) = k /\ \A i \in 1 .. k : s[i] = n - k + i
  BY DEF IsWindow
<1> PICK r : r = Tail(s)
  OBVIOUS
<1>1. s # << >>
  <2>1. Len(<< >>) = 0
    OBVIOUS
  <2> QED BY <1>0, <2>1
<1>2. r \in Seq(Nat) /\ Len(r) = k - 1 /\ \A i \in 1 .. (k - 1) : r[i] = s[i + 1]
  BY <1>0, <1>1, HeadTailProperties
<1>3. /\ t \in Seq(Nat) /\ Len(t) = Len(r) + 1
      /\ \A i \in 1 .. Len(r) : t[i] = r[i]
      /\ t[Len(r) + 1] = n + 1
  BY <1>2, AppendProperties
<1>4. ASSUME NEW i \in 1 .. k PROVE t[i] = (n + 1) - k + i
  <2>1. CASE i = k
    <3>1. Len(r) + 1 = k
      BY <1>2
    <3> QED BY <1>3, <2>1, <3>1
  <2>2. CASE i # k
    <3>1. i \in 1 .. (k - 1)
      BY <2>2
    <3> PICK m \in 1 .. k : m = i + 1
      BY <3>1
    <3>2. t[i] = s[m]
      BY <1>2, <1>3, <3>1
    <3>3. s[m] = n - k + m
      BY <1>0
    <3>4. n - k + m = (n + 1) - k + i
      OBVIOUS
    <3>5. t[i] = n - k + m
      BY ONLY <3>2, <3>3
    <3> QED BY ONLY <3>4, <3>5
  <2> QED BY <2>1, <2>2
<1>5. Head(s) = s[1]
  BY <1>0, <1>1
<1>6. Head(s) = n - k + 1
  BY <1>0, <1>5
<1>7. Len(t) = k
  BY <1>2, <1>3
<1> QED BY <1>3, <1>4, <1>6, <1>7 DEF IsWindow

\* The same for the set of the numbers.
LEMMA IntervalMoved ==
  ASSUME NEW n \in Nat, NEW k \in Nat \ {0}, k <= n
  PROVE  /\ (((n - k + 1) .. n) \ {n - k + 1}) \cup {n + 1} = ((n + 1) - k + 1) .. (n + 1)
         /\ (1 .. n) \cup {n + 1} = 1 .. (n + 1)
OBVIOUS

\* The index of snapshots holds the last ones.
SnapshotInv ==
    /\ loan_snapshots.next \in Nat /\ loan_snapshots.index \in Seq(Nat)
    /\ SnapshotsAreLatest

\* A snapshot makes room for itself.
LEMMA SnapshotTaken ==
  ASSUME SnapshotInv, loan_snapshots' = snapshot_taken
  PROVE  SnapshotInv'
<1> PICK n \in Nat : n = loan_snapshots.next
  BY DEF SnapshotInv
<1> PICK kept : kept = IF n < KeptSnapshots THEN n ELSE KeptSnapshots
  OBVIOUS
<1> PICK index \in Seq(Nat) : index = loan_snapshots.index
  BY DEF SnapshotInv
<1> PICK metas : metas = loan_snapshots.metas
  OBVIOUS
<1>1. KeptSnapshots \in Nat \ {0} /\ kept \in Nat /\ kept <= n
  BY CollateralAssumption
<1>2. /\ Len(index) = kept /\ metas = (n - kept + 1) .. n
      /\ \A i \in 1 .. kept : index[i] = n - kept + i
  BY DEF SnapshotInv, SnapshotsAreLatest
<1>3. /\ loan_snapshots'.next = n + 1 /\ n + 1 \in Nat
      /\ loan_snapshots'.index =
           Append(IF Len(index) >= KeptSnapshots THEN Tail(index) ELSE index, n + 1)
      /\ loan_snapshots'.metas =
           (IF Len(index) >= KeptSnapshots THEN metas \ {Head(index)} ELSE metas) \cup {n + 1}
  BY DEF snapshot_taken, evict
<1> PICK after : after = IF n + 1 < KeptSnapshots THEN n + 1 ELSE KeptSnapshots
  OBVIOUS
<1>4. ASSUME NEW t \in Seq(Nat), loan_snapshots'.index = t, Len(t) = after,
             \A i \in 1 .. after : t[i] = (n + 1) - after + i,
             loan_snapshots'.metas = ((n + 1) - after + 1) .. (n + 1)
      PROVE  SnapshotInv'
  BY <1>3, <1>4 DEF SnapshotInv, SnapshotsAreLatest
<1>5. CASE n < KeptSnapshots
  <2>1. kept = n /\ ~(Len(index) >= KeptSnapshots) /\ after = n + 1
    BY <1>1, <1>2, <1>5
  <2>2. \A i \in 1 .. n : index[i] = i
    <3>1. \A i \in 1 .. n : n - kept + i = i
      BY <2>1
    <3> QED BY <1>2, <2>1, <3>1
  <2> PICK t : t = Append(index, n + 1)
    OBVIOUS
  <2>3. t \in Seq(Nat) /\ Len(t) = n + 1 /\ \A i \in 1 .. (n + 1) : t[i] = i
    <3>1. Len(index) = n
      BY <1>2, <2>1
    <3>2. t = Append(index, n + 1)
      OBVIOUS
    <3> QED BY ONLY <2>2, <3>1, <3>2, CountedOn
  <2>4. \A i \in 1 .. after : t[i] = (n + 1) - after + i
    <3>1. \A i \in 1 .. (n + 1) : (n + 1) - after + i = i
      BY <2>1
    <3> QED BY <2>1, <2>3, <3>1
  <2>5. loan_snapshots'.metas = ((n + 1) - after + 1) .. (n + 1)
    <3>1. (n - kept) + 1 = 1 /\ ((n + 1) - after) + 1 = 1
      BY <2>1
    <3>2. (1 .. n) \cup {n + 1} = 1 .. (n + 1)
      OBVIOUS
    <3> QED BY <1>2, <1>3, <2>1, <3>1, <3>2
  <2> QED BY <1>3, <1>4, <2>1, <2>3, <2>4, <2>5
<1>6. CASE ~(n < KeptSnapshots)
  <2>1. /\ kept \in Nat \ {0} /\ kept <= n /\ kept = KeptSnapshots
        /\ Len(index) >= KeptSnapshots /\ after = kept
    BY <1>1, <1>2, <1>6
  <2> PICK t : t = Append(Tail(index), n + 1)
    OBVIOUS
  <2>2. IsWindow(t, n + 1, kept) /\ Head(index) = n - kept + 1
    <3>1. IsWindow(index, n, kept)
      BY <1>2 DEF IsWindow
    <3>2. kept \in Nat /\ kept # 0 /\ kept <= n
      BY <2>1
    <3>3. IsWindow(Append(Tail(index), n + 1), n + 1, kept) /\ Head(index) = n - kept + 1
      BY <3>1, <3>2, WindowMoved
    <3> QED BY <3>3
  <2>3. loan_snapshots'.metas = ((n + 1) - after + 1) .. (n + 1)
    <3>1. (((n - kept + 1) .. n) \ {n - kept + 1}) \cup {n + 1} = ((n + 1) - kept + 1) .. (n + 1)
      BY <2>1, IntervalMoved
    <3>2. loan_snapshots'.metas = (metas \ {Head(index)}) \cup {n + 1}
      BY <1>3, <2>1
    <3> QED BY <1>2, <2>1, <2>2, <3>1, <3>2
  <2> QED BY <1>3, <1>4, <2>1, <2>2, <2>3 DEF IsWindow
<1> QED BY <1>5, <1>6

-----------------------------------------------------------------------------
(* Collateralised loans: what may be sold.                                 *)

\* A product grows with its factors.
LEMMA ProductMonotone ==
  ASSUME NEW a \in Nat, NEW b \in Nat, NEW p \in Nat, NEW q \in Nat, a <= b, p <= q
  PROVE  a * p * 10000 <= b * q * 10000
<1>1. PICK m \in Nat, n \in Nat : b = a + m /\ q = p + n
  <2>1. b - a \in Nat /\ q - p \in Nat
    OBVIOUS
  <2> QED BY <2>1
<1>2. b * q = a * p + (a * n + m * p + m * n)
  BY <1>1
<1>3. a * n \in Nat /\ m * p \in Nat /\ m * n \in Nat /\ a * p \in Nat
  BY <1>1
<1> QED BY <1>2, <1>3

\* compute_ratio_bps at the price p
Ratio(c, p, d) == (c * p * 10000) \div d

\* Ratios grow with the collateral and the price.
LEMMA RatioMonotone ==
  ASSUME NEW a \in Nat, NEW b \in Nat, NEW p \in Nat, NEW q \in Nat, a <= b, p <= q,
         NEW d \in Nat \ {0}
  PROVE  Ratio(a, p, d) \in Int /\ Ratio(b, q, d) \in Int /\ Ratio(a, p, d) <= Ratio(b, q, d)
<1> PICK x \in Nat, y \in Nat : x = a * p * 10000 /\ y = b * q * 10000
  OBVIOUS
<1>1. x <= y
  BY ProductMonotone
<1>2. x \div d <= y \div d /\ x \div d \in Int /\ y \div d \in Int
  BY <1>1, DivMonotone
<1> QED BY <1>2 DEF Ratio

\* At the price of its opening a position has the ratio that opening requires.
SafelyOpened ==
    \A d \in DOMAIN positions :
        Ratio(positions[d].collateral, positions[d].opened_at_price, positions[d].debt) >= MinRatio

\* In the ledger of its opening, at its price or a higher one, nobody can take a position.
LEMMA SalesNeedDecline ==
  ASSUME MarketTypes, SafelyOpened, NEW d \in DOMAIN positions, ~loan_healthy(d)
  PROVE  quote.price < positions[d].opened_at_price \/ now > positions[d].borrowed_at
<1> SUFFICES ASSUME ~(quote.price < positions[d].opened_at_price), ~(now > positions[d].borrowed_at)
             PROVE  FALSE
  OBVIOUS
<1> PICK p \in Position : p = positions[d]
  BY DEF MarketTypes
<1> PICK price \in Nat : price = quote.price
  BY DEF MarketTypes
<1>1. /\ p.collateral \in Nat /\ p.opened_at_price \in Nat /\ p.debt \in Nat \ {0}
      /\ p.opened_at_price <= price
  BY DEF Position
<1>2. get_current_debt(d) = p.debt
  <2>1. p.borrowed_at <= now /\ now \in Nat /\ p.borrowed_at \in Nat
    BY DEF MarketTypes, Position
  <2>2. now = p.borrowed_at
    BY <2>1
  <2> QED BY <2>2, DebtGrows
<1> PICK r : r = Ratio(p.collateral, p.opened_at_price, p.debt)
  OBVIOUS
<1> PICK s : s = Ratio(p.collateral, price, p.debt)
  OBVIOUS
<1>3. r \in Int /\ s \in Int /\ r <= s
  <2>1. p.collateral <= p.collateral
    BY <1>1
  <2> QED BY <1>1, <2>1, RatioMonotone
<1>4. r >= MinRatio
  BY DEF SafelyOpened
<1>5. ~(s >= LiquidationThreshold)
  BY <1>2 DEF loan_healthy, compute_ratio_bps, Ratio
<1> QED BY <1>3, <1>4, <1>5, CollateralAssumption

\* Openings satisfy the required ratio, and more collateral only raises it.
LEMMA SafetyStep ==
  ASSUME MarketTypes, SafelyOpened, [CollateralNext]_<<now, collateral_vars>>
  PROVE  SafelyOpened'
<1> DEFINE Safe(p) == Ratio(p.collateral, p.opened_at_price, p.debt) >= MinRatio
<1>1. \A d \in DOMAIN positions : positions[d] \in Position /\ Safe(positions[d])
  BY DEF MarketTypes, SafelyOpened
<1>2. ASSUME \A d \in DOMAIN positions' : Safe(positions'[d])
      PROVE  SafelyOpened'
  BY <1>2 DEF SafelyOpened
<1>3. ASSUME NEW d \in Debtors, NEW c \in Collaterals, NEW a \in Debts, open_loan(d, c, a)
      PROVE  SafelyOpened'
  <2> PICK p : p = [collateral |-> c, debt |-> a, borrowed_at |-> now, opened_at_price |-> quote.price]
    OBVIOUS
  <2>1. positions' = put(positions, d, p) /\ compute_ratio_bps(c, a) >= MinRatio
    BY <1>3 DEF open_loan
  <2>2. Safe(p)
    BY <2>1 DEF compute_ratio_bps, Ratio
  <2> HIDE DEF Safe
  <2>3. \A e \in DOMAIN positions' : Safe(positions'[e])
    BY <1>1, <2>1, <2>2 DEF put
  <2> QED BY <1>2, <2>3
<1>4. ASSUME NEW d \in Debtors, positions' = del(positions, d)
      PROVE  SafelyOpened'
  <2> HIDE DEF Safe
  <2>1. \A e \in DOMAIN positions' : Safe(positions'[e])
    BY <1>1, <1>4 DEF del
  <2> QED BY <1>2, <2>1
<1>5. ASSUME NEW d \in Debtors, NEW a \in Collaterals, add_collateral(d, a)
      PROVE  SafelyOpened'
  <2>1. /\ d \in DOMAIN positions /\ a \in Nat
        /\ positions' = [positions EXCEPT ![d].collateral = @ + a]
    BY <1>5, CollateralAssumption DEF add_collateral
  <2>2. /\ DOMAIN positions' = DOMAIN positions
        /\ \A e \in DOMAIN positions : e # d => positions'[e] = positions[e]
        /\ positions'[d] = [positions[d] EXCEPT !.collateral = positions[d].collateral + a]
    BY <2>1, SumsToppedUp
  <2> PICK p \in Position : p = positions[d]
    BY <1>1, <2>1
  <2> PICK q : q = positions'[d]
    OBVIOUS
  <2> PICK c \in Nat, o \in Nat, w \in Nat \ {0} :
           c = p.collateral /\ o = p.opened_at_price /\ w = p.debt
    BY DEF Position
  <2> PICK v \in Nat : v = c + a
    BY <2>1
  <2>3. q.collateral = v /\ q.opened_at_price = o /\ q.debt = w
    BY <2>2 DEF Position
  <2>4. Safe(q)
    <3>1. c <= v /\ o <= o
      BY <2>1
    <3>2. Ratio(c, o, w) \in Int /\ Ratio(v, o, w) \in Int /\ Ratio(c, o, w) <= Ratio(v, o, w)
      BY <3>1, RatioMonotone
    <3>3. Ratio(c, o, w) >= MinRatio
      BY <1>1, <2>1
    <3>4. Ratio(v, o, w) >= MinRatio
      BY <3>2, <3>3, CollateralAssumption
    <3> QED BY <2>3, <3>4
  <2> HIDE DEF Safe
  <2>5. \A e \in DOMAIN positions' : Safe(positions'[e])
    BY <1>1, <2>2, <2>4
  <2> QED BY <1>2, <2>5
<1>6. CASE UNCHANGED positions
  BY <1>6 DEF SafelyOpened
<1>7. CASE \/ \E p \in Prices : oracle_price(p)
           \/ \E b \in BOOLEAN : set_halted(b)
           \/ \E t \in Staleness : set_max_price_staleness(t)
           \/ CollateralTick
           \/ UNCHANGED <<now, collateral_vars>>
  BY <1>6, <1>7 DEF oracle_price, set_halted, set_max_price_staleness, CollateralTick,
                    collateral_vars
<1>8. CASE \E d \in Debtors : repay_loan(d) \/ liquidate_position(d)
  BY <1>4, <1>8 DEF repay_loan, liquidate_position
<1> QED BY <1>3, <1>5, <1>7, <1>8 DEF CollateralNext

\* A sale is recorded with the price and the ledger in which the position could be taken.
LEMMA SalesStep ==
  ASSUME MarketTypes, SafelyOpened, SalesFollowDecline,
         [CollateralNext]_<<now, collateral_vars>>
  PROVE  SalesFollowDecline'
<1>1. ASSUME NEW d \in Debtors, liquidate_position(d)
      PROVE  SalesFollowDecline'
  <2> PICK s : s = [position |-> positions[d], at |-> now, price |-> quote.price]
    OBVIOUS
  <2>1. sales' = sales \cup {s} /\ d \in DOMAIN positions /\ ~loan_healthy(d)
    BY <1>1 DEF liquidate_position
  <2>2. s.price < s.position.opened_at_price \/ s.at > s.position.borrowed_at
    BY <2>1, SalesNeedDecline
  <2> QED BY <2>1, <2>2 DEF SalesFollowDecline
<1>2. CASE UNCHANGED sales
  BY <1>2 DEF SalesFollowDecline
<1>3. ASSUME ~\E d \in Debtors : liquidate_position(d)
      PROVE  UNCHANGED sales
  BY <1>3 DEF CollateralNext, open_loan, repay_loan, add_collateral, oracle_price, set_halted,
              set_max_price_staleness, CollateralTick, collateral_vars
<1> QED BY <1>1, <1>2, <1>3

\* The lists and the snapshots change together with the positions.
LEMMA ListsStep ==
  ASSUME MarketTypes, ListInv, SnapshotInv, [CollateralNext]_<<now, collateral_vars>>
  PROVE  ListInv' /\ SnapshotInv'
<1>1. ASSUME NEW d \in Debtors, NEW c \in Collaterals, NEW a \in Debts, open_loan(d, c, a)
      PROVE  ListInv' /\ SnapshotInv'
  <2>1. /\ d \notin DOMAIN positions /\ DOMAIN positions' = DOMAIN positions \cup {d}
        /\ position_index' = Append(position_index, d)
        /\ position_slot' = put(position_slot, d, Len(position_index) + 1)
        /\ loan_snapshots' = snapshot_taken /\ IsFiniteSet(DOMAIN positions)
    BY <1>1 DEF open_loan, put, MarketTypes
  <2> QED BY <2>1, ListOpened, SnapshotTaken
<1>2. ASSUME NEW d \in Debtors, repay_loan(d) \/ liquidate_position(d)
      PROVE  ListInv' /\ SnapshotInv'
  <2>1. /\ d \in DOMAIN positions /\ positions' = del(positions, d) /\ deindex_position(d)
        /\ loan_snapshots' = snapshot_taken /\ IsFiniteSet(DOMAIN positions)
    BY <1>2 DEF repay_loan, liquidate_position, MarketTypes
  <2>2. DOMAIN positions' = DOMAIN positions \ {d}
    BY <2>1 DEF del
  <2> QED BY <2>1, <2>2, ListClosed, SnapshotTaken
<1>3. CASE /\ DOMAIN positions' = DOMAIN positions
           /\ UNCHANGED <<position_index, position_slot, loan_snapshots>>
  BY <1>3 DEF ListInv, PositionsAreListed, SnapshotInv, SnapshotsAreLatest
<1>4. ASSUME NEW d \in Debtors, NEW a \in Collaterals, add_collateral(d, a)
      PROVE  ListInv' /\ SnapshotInv'
  BY <1>3, <1>4 DEF add_collateral
<1>5. CASE \/ \E p \in Prices : oracle_price(p)
           \/ \E b \in BOOLEAN : set_halted(b)
           \/ \E t \in Staleness : set_max_price_staleness(t)
           \/ CollateralTick
           \/ UNCHANGED <<now, collateral_vars>>
  BY <1>3, <1>5 DEF oracle_price, set_halted, set_max_price_staleness, CollateralTick,
                    collateral_vars
<1> QED BY <1>1, <1>2, <1>4, <1>5 DEF CollateralNext

CollateralInv ==
    /\ MarketTypes /\ HoldingsInv
    /\ ListInv /\ SnapshotInv
    /\ SafelyOpened /\ SalesFollowDecline

\* For any borrowers, amounts, prices and terms with the liquidation threshold at or below the
\* ratio for opening: the contract holds the collateral of the open positions, its interest is
\* covered, every position is listed once, the last snapshots are kept, and a position is sold
\* only after its decline.
THEOREM CollateralSound == CollateralSpec => []CollateralIsSound
<1>1. CollateralInit => CollateralInv
  <2> SUFFICES ASSUME CollateralInit PROVE CollateralInv
    OBVIOUS
  <2>1. /\ now = 0 /\ mnt_held = 0 /\ usdc_held = InitialUsdc /\ interest_vault = 0
        /\ DOMAIN positions = {} /\ positions \in [DOMAIN positions -> Position]
        /\ position_index = << >> /\ position_slot = NothingStored /\ sales = {}
        /\ loan_snapshots = [next |-> 0, index |-> << >>, metas |-> {}]
    BY DEF CollateralInit, NothingStored
  <2>2. MarketTypes
    <3>1. quote \in [price : Nat, at : Nat]
      BY CollateralAssumption DEF CollateralInit
    <3> QED BY <2>1, <3>1, FS_EmptySet, CollateralAssumption DEF MarketTypes
  <2>3. HoldingsInv
    <3>1. SumFunctionOnSet(pledged, {}) = 0 /\ SumFunctionOnSet(lent, {}) = 0
      BY SumEmpty
    <3> QED BY <2>1, <3>1, CollateralAssumption DEF HoldingsInv, CollateralIsHeld, InterestIsCovered
  <2>4. Len(<< >>) = 0 /\ DOMAIN << >> = {}
    OBVIOUS
  <2>5. ListInv
    <3>1. Cardinality({}) = 0
      BY FS_EmptySet
    <3>2. DOMAIN position_slot = {} /\ position_slot = [d \in {} |-> position_slot[d]]
      BY <2>1 DEF NothingStored
    <3>3. PositionsAreListed
      BY <2>1, <2>4, <3>1, <3>2 DEF PositionsAreListed
    <3> QED BY <2>1, <2>4, <3>2, <3>3 DEF ListInv
  <2>6. SnapshotInv
    <3>1. /\ loan_snapshots.next = 0 /\ loan_snapshots.index = << >> /\ loan_snapshots.metas = {}
          /\ << >> \in Seq(Nat)
      BY <2>1
    <3>2. 0 < KeptSnapshots
      BY CollateralAssumption
    <3> QED BY <2>4, <3>1, <3>2 DEF SnapshotInv, SnapshotsAreLatest
  <2> QED BY <2>1, <2>2, <2>3, <2>5, <2>6 DEF CollateralInv, SafelyOpened, SalesFollowDecline
<1>2. CollateralInv /\ [CollateralNext]_<<now, collateral_vars>> => CollateralInv'
  BY HoldingsStep, ListsStep, SafetyStep, SalesStep DEF CollateralInv
<1>3. CollateralInv => CollateralIsSound
  BY DEF CollateralInv, CollateralIsSound, HoldingsInv, ListInv, SnapshotInv
<1> QED BY <1>1, <1>2, <1>3, PTL DEF CollateralSpec
=============================================================================
