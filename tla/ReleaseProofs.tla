---------------------------- MODULE ReleaseProofs ----------------------------
(***************************************************************************)
(* Proofs about the two contracts that release escrowed money on terms of  *)
(* their own. MilestoneEscrow, for every set of plans: the books of every  *)
(* milestone escrow, the solvency of the one token pool that it shares     *)
(* with the standard escrows, and its refinement of Deposits.              *)
(* EmergencyRelease, for every number of escrows, signers and proposals:   *)
(* the break-glass path stays a last resort, settles an escrow once and    *)
(* completely, and never exceeds the circuit breaker's share of the pool,  *)
(* whatever calls of the ordinary life cycle happen in between.            *)
(***************************************************************************)
EXTENDS MilestoneEscrow, EmergencyRelease, EscrowProofs

-----------------------------------------------------------------------------
(* Plans and what is left of them.                                         *)

MilestoneStatuses == {"Pending", "Completed", "Disputed"}

StatusTables == UNION {[1 .. n -> MilestoneStatuses] : n \in Nat}

MilestoneRecord ==
    [mentor : Users, learner : Users, total_amount : Nat, milestones : Plans,
     milestone_statuses : StatusTables,
     status : {"Active", "Released", "Disputed"}, platform_fee : Nat, net_amount : Nat]

\* The milestones of a record that are still to be paid, and their sum.
Unpaid(m) == DOMAIN m.milestones \ InStatus(m, "Completed")
Open(m) == amount_of(m.milestones, Unpaid(m))

\* What the books of one escrow say: its record m and what was paid for it, p.
Entry(m, p) ==
    /\ m \in MilestoneRecord /\ p \in Nat
    /\ m.milestones # << >>
    /\ m.milestone_statuses \in [DOMAIN m.milestones -> MilestoneStatuses]
    /\ m.platform_fee + m.net_amount = p
    /\ p + Open(m) = m.total_amount
    /\ m.status = "Released" <=> InStatus(m, "Completed") = DOMAIN m.milestones
    /\ m.status = "Disputed" <=> InStatus(m, "Disputed") # {}
    /\ Cardinality(InStatus(m, "Disputed")) <= 1

\* What was completed in the record m is completed in the record r.
KeepsCompleted(m, r) == InStatus(m, "Completed") \subseteq InStatus(r, "Completed")

\* A plan is a finite table of positive amounts.
LEMMA PlanTyped ==
    ASSUME NEW plan \in Plans
    PROVE  /\ plan \in Seq(Nat \ {0}) /\ Len(plan) \in Nat /\ DOMAIN plan = 1 .. Len(plan)
           /\ IsFiniteSet(DOMAIN plan)
           /\ \A i \in DOMAIN plan : plan[i] \in Nat \ {0}
<1>1. plan \in Seq(Nat \ {0})
  BY PlansAssumption
<1>2. Len(plan) \in Nat /\ DOMAIN plan = 1 .. Len(plan) /\ \A i \in DOMAIN plan : plan[i] \in Nat \ {0}
  BY <1>1
<1>3. IsFiniteSet(1 .. Len(plan))
  BY <1>2, FS_Interval
<1> QED BY <1>1, <1>2, <1>3

\* The sum of some milestones of a plan is a natural number, and each of them is part of it.
LEMMA AmountTyped ==
    ASSUME NEW plan \in Plans, NEW S \in SUBSET DOMAIN plan
    PROVE  /\ IsFiniteSet(S) /\ amount_of(plan, S) \in Nat
           /\ \A i \in S : amount_of(plan, S) = plan[i] + amount_of(plan, S \ {i})
           /\ \A i \in S : plan[i] <= amount_of(plan, S)
           /\ S = {} => amount_of(plan, S) = 0
<1>1. IsFiniteSet(S) /\ \A i \in S : plan[i] \in Nat
  BY PlanTyped, FS_Subset
<1>2. amount_of(plan, S) \in Nat
  BY <1>1, SumType DEF amount_of
<1>3. ASSUME NEW i \in S
      PROVE  amount_of(plan, S) = plan[i] + amount_of(plan, S \ {i}) /\ plan[i] <= amount_of(plan, S)
  BY <1>1, SumRemove, SumAtLeast DEF amount_of
<1>4. S = {} => amount_of(plan, S) = 0
  BY SumEmpty DEF amount_of
<1> QED BY <1>1, <1>2, <1>3, <1>4

\* The record of a new milestone escrow.
NewMilestones(m, l, plan) ==
    [mentor |-> m, learner |-> l, total_amount |-> amount_of(plan, DOMAIN plan),
     milestones |-> plan, milestone_statuses |-> [i \in DOMAIN plan |-> "Pending"],
     status |-> "Active", platform_fee |-> 0, net_amount |-> 0]

LEMMA NewEntry ==
    ASSUME NEW m \in Users, NEW l \in Users, NEW plan \in Plans, plan # << >>
    PROVE  LET r == NewMilestones(m, l, plan) IN
           Entry(r, 0) /\ Open(r) = r.total_amount /\ r.status = "Active"
<1> DEFINE r == NewMilestones(m, l, plan)
           total == amount_of(plan, DOMAIN plan)
<1>1. total \in Nat
  BY AmountTyped
<1>2. /\ r.mentor = m /\ r.learner = l /\ r.total_amount = total /\ r.milestones = plan
      /\ r.milestone_statuses = [i \in DOMAIN plan |-> "Pending"]
      /\ r.status = "Active" /\ r.platform_fee = 0 /\ r.net_amount = 0
  BY DEF NewMilestones
<1>3. r.milestone_statuses \in [DOMAIN plan -> MilestoneStatuses]
  BY <1>2 DEF MilestoneStatuses
<1>4. Len(plan) \in Nat /\ DOMAIN plan = 1 .. Len(plan) /\ DOMAIN plan # {}
  <2>1. plan \in Seq(Nat \ {0}) /\ Len(plan) \in Nat /\ DOMAIN plan = 1 .. Len(plan)
    BY PlanTyped
  <2>2. Len(plan) # 0
    BY <2>1
  <2>3. 1 \in 1 .. Len(plan)
    BY <2>1, <2>2
  <2> QED BY <2>1, <2>3
<1>5. r \in MilestoneRecord
  <2>1. r.milestone_statuses \in StatusTables
    BY <1>3, <1>4 DEF StatusTables
  <2> HIDE DEF total
  <2> QED BY <1>1, <1>2, <2>1 DEF MilestoneRecord, NewMilestones
<1> HIDE DEF r
<1>6. InStatus(r, "Completed") = {} /\ InStatus(r, "Disputed") = {}
  BY <1>2 DEF InStatus
<1>7. Open(r) = total
  BY <1>2, <1>6 DEF Open, Unpaid
<1> HIDE DEF total
<1>8. Entry(r, 0)
  <2>1. r.platform_fee + r.net_amount = 0 /\ 0 + Open(r) = r.total_amount
    BY <1>1, <1>2, <1>7
  <2>2. r.status = "Released" <=> InStatus(r, "Completed") = DOMAIN r.milestones
    BY <1>2, <1>4, <1>6
  <2>3. r.status = "Disputed" <=> InStatus(r, "Disputed") # {}
    BY <1>2, <1>6
  <2>4. Cardinality(InStatus(r, "Disputed")) <= 1
    BY <1>6, FS_EmptySet
  <2> QED BY <1>2, <1>3, <1>5, <2>1, <2>2, <2>3, <2>4 DEF Entry
<1>9. Open(r) = r.total_amount /\ r.status = "Active"
  BY <1>2, <1>7
<1> QED BY <1>8, <1>9 DEF r

\* Paying a milestone that is open keeps the entry: what is paid is what was still open of
\* it, and the escrow is released exactly when nothing is left.
LEMMA CompletedEntry ==
    ASSUME NEW m, NEW p, Entry(m, p), NEW i, milestone_open(m, i), NEW f \in 0 .. m.milestones[i]
    PROVE  LET r == completed_record(m, i, f)
               a == m.milestones[i]
           IN  /\ Entry(r, p + a)
               /\ a \in Nat \ {0} /\ Open(m) \in Nat /\ Open(r) \in Nat /\ Open(m) = a + Open(r)
               /\ IF completes(m, i) THEN r.status = "Released" /\ Open(r) = 0
                                     ELSE r.status = "Active" /\ Open(r) > 0
               /\ KeepsCompleted(m, r)
<1> DEFINE r == completed_record(m, i, f)
           a == m.milestones[i]
           plan == m.milestones
           st == [m.milestone_statuses EXCEPT ![i] = "Completed"]
<1>1. /\ m \in MilestoneRecord /\ plan \in Plans /\ m.status = "Active" /\ i \in DOMAIN plan
      /\ m.milestone_statuses \in [DOMAIN plan -> MilestoneStatuses]
      /\ m.milestone_statuses[i] = "Pending" /\ p \in Nat
  BY DEF Entry, MilestoneRecord, milestone_open
<1>2. /\ r.mentor = m.mentor /\ r.learner = m.learner /\ r.total_amount = m.total_amount
      /\ r.milestones = plan /\ r.milestone_statuses = st
      /\ r.status = (IF completes(m, i) THEN "Released" ELSE "Active")
      /\ r.platform_fee = m.platform_fee + f /\ r.net_amount = m.net_amount + (a - f)
      /\ r = [[m EXCEPT !.platform_fee = m.platform_fee + f, !.net_amount = m.net_amount + (a - f),
                         !.status = r.status] EXCEPT !.milestone_statuses = st]
  BY <1>1 DEF completed_record, MilestoneRecord
<1>3. st \in [DOMAIN plan -> MilestoneStatuses] /\ st[i] = "Completed"
      /\ \A j \in DOMAIN plan \ {i} : st[j] = m.milestone_statuses[j]
  BY <1>1 DEF MilestoneStatuses
<1>4. Len(plan) \in Nat /\ DOMAIN plan = 1 .. Len(plan) /\ a \in Nat \ {0}
  BY <1>1, PlanTyped
<1> HIDE DEF r, st
<1>5. InStatus(r, "Completed") = InStatus(m, "Completed") \cup {i}
  BY <1>1, <1>2, <1>3 DEF InStatus
<1>6. InStatus(r, "Disputed") = {} /\ InStatus(m, "Disputed") = {}
  <2>1. InStatus(m, "Disputed") = {}
    BY <1>1 DEF Entry
  <2> QED BY <1>1, <1>2, <1>3, <2>1 DEF InStatus
<1>7. Unpaid(r) = Unpaid(m) \ {i} /\ i \in Unpaid(m) /\ Unpaid(m) \subseteq DOMAIN plan
      /\ Unpaid(r) \subseteq DOMAIN plan
  BY <1>1, <1>2, <1>5 DEF Unpaid, InStatus
<1>8. Open(m) \in Nat /\ Open(r) \in Nat /\ Open(m) = a + Open(r)
  <2>1. amount_of(plan, Unpaid(m)) = a + amount_of(plan, Unpaid(m) \ {i})
    BY <1>1, <1>7, AmountTyped
  <2>2. amount_of(plan, Unpaid(m)) \in Nat /\ amount_of(plan, Unpaid(r)) \in Nat
    BY <1>1, <1>7, AmountTyped
  <2> QED BY <1>2, <1>7, <2>1, <2>2 DEF Open
<1>9. completes(m, i) <=> InStatus(r, "Completed") = DOMAIN plan
  BY <1>1, <1>5 DEF completes, InStatus
<1>10. IF completes(m, i) THEN Open(r) = 0 ELSE Open(r) > 0
  <2>1. CASE completes(m, i)
    <3>1. Unpaid(r) = {}
      BY <1>2, <1>9, <2>1 DEF Unpaid
    <3> QED BY <1>1, <1>2, <2>1, <3>1, AmountTyped DEF Open
  <2>2. CASE ~completes(m, i)
    <3>1. PICK j \in Unpaid(r) : TRUE
      BY <1>1, <1>2, <1>5, <1>9, <2>2 DEF Unpaid, InStatus
    <3>2. plan[j] <= amount_of(plan, Unpaid(r)) /\ plan[j] \in Nat \ {0}
      BY <1>1, <1>7, <3>1, AmountTyped, PlanTyped
    <3> QED BY <1>2, <1>8, <2>2, <3>2 DEF Open
  <2> QED BY <2>1, <2>2
<1>11. m.platform_fee \in Nat /\ m.net_amount \in Nat /\ m.total_amount \in Nat
       /\ m.platform_fee + m.net_amount = p /\ p + Open(m) = m.total_amount
  BY <1>1 DEF Entry, MilestoneRecord
<1>12. Entry(r, p + a)
  <2>1. r.platform_fee \in Nat /\ r.net_amount \in Nat /\ r.platform_fee + r.net_amount = p + a
    <3>1. f \in Nat /\ a \in Nat /\ a - f \in Nat /\ p \in Nat
      BY <1>1, <1>4
    <3>2. r.platform_fee = m.platform_fee + f /\ r.net_amount = m.net_amount + (a - f)
      BY <1>2
    <3>3. m.platform_fee \in Nat /\ m.net_amount \in Nat /\ m.platform_fee + m.net_amount = p
      BY <1>11
    <3> HIDE DEF a
    <3> QED BY <3>1, <3>2, <3>3
  <2>2. p + a + Open(r) = r.total_amount
    <3>1. r.total_amount = m.total_amount
      BY <1>2
    <3> HIDE DEF a
    <3> QED BY <1>1, <1>4, <1>8, <1>11, <3>1
  <2>3. st \in StatusTables
    BY <1>3, <1>4 DEF StatusTables
  <2>4. r.status \in {"Active", "Released", "Disputed"} /\ r.status # "Disputed"
    BY <1>2
  <2>5. r \in MilestoneRecord
    BY <1>1, <1>2, <2>1, <2>3, <2>4 DEF MilestoneRecord
  <2>6. r.status = "Released" <=> InStatus(r, "Completed") = DOMAIN r.milestones
    BY <1>2, <1>9
  <2>7. r.status = "Disputed" <=> InStatus(r, "Disputed") # {}
    BY <1>6, <2>4
  <2>8. Cardinality(InStatus(r, "Disputed")) <= 1
    BY <1>6, FS_EmptySet
  <2>9. r.milestones # << >> /\ r.milestone_statuses \in [DOMAIN r.milestones -> MilestoneStatuses]
    BY <1>2, <1>3 DEF Entry
  <2>10. p + a \in Nat
    BY <1>1, <1>4
  <2> QED BY <2>1, <2>2, <2>5, <2>6, <2>7, <2>8, <2>9, <2>10 DEF Entry
<1>13. KeepsCompleted(m, r)
  BY <1>5 DEF KeepsCompleted
<1> QED BY <1>2, <1>4, <1>8, <1>10, <1>12, <1>13 DEF r

\* The record after milestone i was disputed.
DisputedRecord(m, i) == [m EXCEPT !.milestone_statuses[i] = "Disputed", !.status = "Disputed"]

\* A dispute freezes the escrow and leaves what is open of it as it is.
LEMMA DisputedEntry ==
    ASSUME NEW m, NEW p, Entry(m, p), NEW i, milestone_open(m, i)
    PROVE  LET r == DisputedRecord(m, i)
           IN  Entry(r, p) /\ Open(r) = Open(m) /\ r.status = "Disputed" /\ KeepsCompleted(m, r)
<1> DEFINE r == DisputedRecord(m, i)
           plan == m.milestones
           st == [m.milestone_statuses EXCEPT ![i] = "Disputed"]
<1>1. /\ m \in MilestoneRecord /\ plan \in Plans /\ m.status = "Active" /\ i \in DOMAIN plan
      /\ m.milestone_statuses \in [DOMAIN plan -> MilestoneStatuses]
      /\ m.milestone_statuses[i] = "Pending"
  BY DEF Entry, MilestoneRecord, milestone_open
<1>2. /\ r.mentor = m.mentor /\ r.learner = m.learner /\ r.total_amount = m.total_amount
      /\ r.milestones = plan /\ r.milestone_statuses = st /\ r.status = "Disputed"
      /\ r.platform_fee = m.platform_fee /\ r.net_amount = m.net_amount
      /\ r = [[m EXCEPT !.status = "Disputed"] EXCEPT !.milestone_statuses = st]
  BY <1>1 DEF DisputedRecord, MilestoneRecord
<1>3. st \in [DOMAIN plan -> MilestoneStatuses] /\ st[i] = "Disputed"
      /\ \A j \in DOMAIN plan \ {i} : st[j] = m.milestone_statuses[j]
  BY <1>1 DEF MilestoneStatuses
<1>4. Len(plan) \in Nat /\ DOMAIN plan = 1 .. Len(plan)
  BY <1>1, PlanTyped
<1> HIDE DEF r, st
<1>5. InStatus(r, "Completed") = InStatus(m, "Completed") /\ i \notin InStatus(m, "Completed")
  BY <1>1, <1>2, <1>3 DEF InStatus
<1>6. InStatus(r, "Disputed") = {i}
  <2>1. InStatus(m, "Disputed") = {}
    BY <1>1 DEF Entry
  <2> QED BY <1>1, <1>2, <1>3, <2>1 DEF InStatus
<1>7. Open(r) = Open(m)
  BY <1>2, <1>5 DEF Open, Unpaid
<1>8. Entry(r, p)
  <2>1. st \in StatusTables
    BY <1>3, <1>4 DEF StatusTables
  <2>2. r \in MilestoneRecord
    BY <1>1, <1>2, <2>1 DEF MilestoneRecord
  <2>3. r.status # "Released" /\ InStatus(r, "Completed") # DOMAIN r.milestones
    BY <1>1, <1>2, <1>5
  <2>4. Cardinality(InStatus(r, "Disputed")) <= 1
    <3>1. Cardinality({i}) = 1
      BY FS_Singleton
    <3> QED BY <1>6, <3>1
  <2>5. InStatus(r, "Disputed") # {}
    BY <1>6
  <2>6. r.milestones # << >> /\ r.milestone_statuses \in [DOMAIN r.milestones -> MilestoneStatuses]
    BY <1>2, <1>3 DEF Entry
  <2>7. r.platform_fee + r.net_amount = p /\ p + Open(r) = r.total_amount /\ p \in Nat
    BY <1>2, <1>7 DEF Entry
  <2> QED BY <1>2, <2>2, <2>3, <2>4, <2>5, <2>6, <2>7 DEF Entry
<1>9. KeepsCompleted(m, r)
  BY <1>5 DEF KeepsCompleted
<1> QED BY <1>2, <1>7, <1>8, <1>9 DEF r

-----------------------------------------------------------------------------
(* The invariant. What the standard escrows hold is part of it: the two    *)
(* kinds share the contract's balance, so neither is solvent by itself.    *)

Entries ==
    /\ mescrows \in Seq(MilestoneRecord) /\ mpaid \in Seq(Nat)
    /\ Len(mpaid) = Len(mescrows) /\ Len(mescrows) <= MaxMilestoneEscrows
    /\ \A id \in MilestoneIds : Entry(mescrows[id], mpaid[id])

MInv == IInv /\ SharesArePositive /\ Entries /\ PoolSolvency

\* What the milestone escrows hold together.
MilestonesHold == SumFunctionOnSet([id \in MilestoneIds |-> MilestoneHeld(id)], MilestoneIds)

\* The entries say what the books of the milestone escrows have to.
LEMMA EntriesMean == MInv => MilestoneBooks
<1> SUFFICES ASSUME MInv PROVE MilestoneBooks
  OBVIOUS
<1>1. \A id \in MilestoneIds : Entry(mescrows[id], mpaid[id])
  BY DEF MInv, Entries
<1>2. MilestoneConservation
  BY <1>1 DEF MilestoneConservation, MilestoneHeld, Entry, Open, Unpaid
<1>3. MilestoneStatusAgrees
  BY <1>1 DEF MilestoneStatusAgrees, Entry
<1> QED BY <1>2, <1>3 DEF MilestoneBooks, MInv

\* A step of milestone escrows leaves the standard ones alone.
LEMMA StandardKept ==
    ASSUME IInv, SharesArePositive, UNCHANGED standard, balance' \in [Address -> Nat],
           log' \in [EscrowIds -> Seq(LogEntry)]
    PROVE  IInv' /\ SharesArePositive' /\ AllHeld' = AllHeld
<1>1. Books /\ Rest
  BY Parts
<1>2. UNCHANGED <<escrow_count, escrows, paid>>
  BY DEF standard
<1>3. Books'
  BY <1>1, <1>2 DEF Books, FundConservation, SessionArithmetic, PaidOut, Held
<1>4. Rest'
  BY <1>1 DEF Rest, standard
<1>5. SharesArePositive'
  BY <1>2 DEF SharesArePositive
<1>6. AllHeld' = AllHeld
  BY <1>2 DEF AllHeld, Held
<1> QED BY <1>3, <1>4, <1>5, <1>6, Parts

\* A step of the standard escrows keeps every session worth something.
LEMMA SharesStayPositive ==
    ASSUME IInv, SharesArePositive, [Next]_vars
    PROVE  SharesArePositive'
<1>1. Books
  BY Parts
<1>2. ASSUME NEW id \in EscrowIds, NEW r, escrows' = [escrows EXCEPT ![id] = r],
             r.quoted_token_amount >= r.total_sessions
      PROVE  SharesArePositive'
  <2>1. \A i \in EscrowIds : escrows'[i] = IF i = id THEN r ELSE escrows[i]
    BY <1>1, <1>2 DEF Books
  <2> QED BY <1>2, <2>1 DEF SharesArePositive
<1>3. CASE AnyDeposit
  <2>1. PICK m \in Users, l \in Users, a \in Nat \ {0}, s \in SessionIds \cup {PathPay},
             t \in Nat, n \in Nat \ {0} : create_escrow_internal(m, l, a, s, t, n)
    BY <1>3 DEF AnyDeposit
  <2> DEFINE r == [mentor |-> m, learner |-> l, amount |-> a, session_id |-> s,
                   status |-> "Active", created_at |-> now, platform_fee |-> 0, net_amount |-> 0,
                   session_end_time |-> t, quoted_token_amount |-> a,
                   total_sessions |-> n, sessions_completed |-> 0]
  <2>2. PICK id \in EscrowIds : id = escrow_count + 1
    BY <2>1 DEF create_escrow_internal
  <2>3. escrows' = [escrows EXCEPT ![id] = r] /\ a >= n
    BY <2>1, <2>2 DEF create_escrow_internal
  <2>4. r.quoted_token_amount >= r.total_sessions
    BY <2>3
  <2> HIDE DEF r
  <2> QED BY <1>2, <2>3, <2>4
<1>4. ASSUME NEW id \in EscrowIds, NEW r, escrows' = [escrows EXCEPT ![id] = r],
             SameTerms(escrows[id], r), escrows[id].status # "None"
      PROVE  SharesArePositive'
  BY <1>2, <1>4 DEF SharesArePositive, SameTerms
<1>5. ASSUME NEW id \in EscrowIds, Pays(id) PROVE SharesArePositive'
  <2>1. ASSUME NEW r \in EscrowRecord, NEW t \in Nat, NEW m \in Nat, NEW actor \in Actors,
               Releases(id, r, t, m, actor)
        PROVE  SharesArePositive'
    BY <1>4, <2>1 DEF Releases
  <2>2. ASSUME NEW r \in EscrowRecord, NEW m \in Nat, NEW l \in Nat, Settles(id, r, m, l)
        PROVE  SharesArePositive'
    BY <1>4, <2>2 DEF Settles, Live
  <2> QED BY <1>5, <2>1, <2>2 DEF Pays
<1>6. ASSUME NEW id \in EscrowIds, NEW c \in Users, dispute(c, id) PROVE SharesArePositive'
  <2> DEFINE r == [escrows[id] EXCEPT !.status = "Disputed"]
  <2>1. escrows' = [escrows EXCEPT ![id] = r] /\ escrows[id].status = "Active"
    BY <1>6 DEF dispute
  <2>2. escrows[id] \in EscrowRecord
    BY <1>1 DEF Books
  <2>3. SameTerms(escrows[id], r)
    BY <2>2 DEF SameTerms, EscrowRecord
  <2> HIDE DEF r
  <2> QED BY <1>4, <2>1, <2>3
<1>7. CASE Frame
  BY <1>7 DEF Frame, SharesArePositive
<1> QED BY <1>3, <1>5, <1>6, <1>7, StepKinds

-----------------------------------------------------------------------------
(* What a step of the milestone escrows is: a new escrow, a milestone paid *)
(* or a milestone disputed.                                                *)

\* The standard escrows are left alone; balances and logs keep their types.
Outside ==
    /\ UNCHANGED standard
    /\ balance' \in [Address -> Nat]
    /\ log' \in [EscrowIds -> Seq(LogEntry)]

\* A milestone escrow with record r is added.
Adds(r) ==
    /\ Len(mescrows) < MaxMilestoneEscrows
    /\ mescrows' = Append(mescrows, r) /\ mpaid' = Append(mpaid, 0)
    /\ Entry(r, 0) /\ r.status = "Active" /\ Open(r) \in Nat \ {0}
    /\ balance'[Contract] = balance[Contract] + Open(r)

\* The active escrow id gets the record r, and a is paid from it.
Alters(id, r, a) ==
    LET m == mescrows[id] IN
    /\ m.status = "Active"
    /\ mescrows' = [mescrows EXCEPT ![id] = r]
    /\ mpaid' = [mpaid EXCEPT ![id] = mpaid[id] + a]
    /\ Entry(r, mpaid[id] + a) /\ KeepsCompleted(m, r)
    /\ a \in Nat /\ Open(m) \in Nat /\ Open(r) \in Nat /\ Open(m) = a + Open(r)
    /\ balance'[Contract] = balance[Contract] - a
    /\ \/ a = 0 /\ r.status = "Disputed"
       \/ a > 0 /\ r.status = "Active" /\ Open(r) > 0
       \/ a > 0 /\ r.status = "Released" /\ Open(r) = 0

\* What the shape of the books says.
LEMMA BooksTyped ==
    ASSUME IInv
    PROVE  /\ balance \in [Address -> Nat] /\ log \in [EscrowIds -> Seq(LogEntry)] /\ TypeOK
           /\ Users \subseteq Address /\ Contract \in Address /\ Treasury \in Address
           /\ Users \subseteq Actors
<1>1. Books /\ Rest
  BY Parts
<1>2. balance \in [Address -> Nat] /\ log \in [EscrowIds -> Seq(LogEntry)]
  BY <1>1 DEF Books, Rest
<1>3. TypeOK
  BY DEF IInv
<1> QED BY <1>2, <1>3 DEF Address, Actors

LEMMA CreateAdds ==
    ASSUME MInv, NEW m \in Users, NEW l \in Users, NEW plan \in Plans,
           create_milestone_escrow(m, l, plan)
    PROVE  Outside /\ \E r : Adds(r)
<1> DEFINE n == Len(mescrows) + 1
           total == amount_of(plan, DOMAIN plan)
           b == credit(balance, l, -total)
           r == NewMilestones(m, l, plan)
<1>1. /\ n <= MaxMilestoneEscrows /\ plan # << >> /\ balance[l] >= total
      /\ balance' = credit(b, Contract, total)
      /\ transition_status(n, "Pending", "Active", l)
      /\ mescrows' = Append(mescrows, r) /\ mpaid' = Append(mpaid, 0)
      /\ UNCHANGED standard
  BY DEF create_milestone_escrow, NewMilestones
<1>2. /\ balance \in [Address -> Nat] /\ log \in [EscrowIds -> Seq(LogEntry)]
      /\ l \in Address /\ Contract \in Address /\ l \in Actors
  BY BooksTyped DEF MInv
<1>3. Entry(r, 0) /\ Open(r) = r.total_amount /\ r.status = "Active"
  BY <1>1, NewEntry
<1>4. r.total_amount = total
  BY DEF NewMilestones
<1> HIDE DEF r
<1>5. total \in Nat \ {0}
  <2>1. total \in Nat
    BY AmountTyped
  <2>2. 1 \in DOMAIN plan
    <3>1. Len(plan) \in Nat /\ DOMAIN plan = 1 .. Len(plan) /\ plan \in Seq(Nat \ {0})
      BY PlanTyped
    <3>2. Len(plan) # 0
      BY <1>1, <3>1
    <3> QED BY <3>1, <3>2
  <2>3. plan[1] <= total /\ plan[1] \in Nat \ {0}
    BY <2>2, AmountTyped, PlanTyped
  <2> HIDE DEF total
  <2> QED BY <2>1, <2>3
<1> HIDE DEF total
<1>6. b \in [Address -> Nat] /\ b[Contract] = balance[Contract]
  <2>1. balance[l] + (-total) \in Nat /\ -total \in Int
    BY <1>1, <1>2, <1>5
  <2>2. b \in [Address -> Nat]
    BY <1>2, <2>1, CreditTyped
  <2>3. b[Contract] = balance[Contract]
    BY <1>2, AddressAssumption DEF credit
  <2> QED BY <2>2, <2>3
<1> HIDE DEF b
<1>7. balance' \in [Address -> Nat]
  <2>1. b[Contract] + total \in Nat
    BY <1>2, <1>5, <1>6
  <2> QED BY <1>1, <1>5, <1>6, <2>1, CreditTyped
<1>8. balance'[Contract] = balance[Contract] + total
  BY <1>1, <1>2, <1>6 DEF credit
<1>9. Len(mescrows) \in Nat
  BY DEF MInv, Entries
<1>10. log' \in [EscrowIds -> Seq(LogEntry)]
  <2>1. n \in EscrowIds
    BY <1>1, <1>9, MilestoneBoundAssumption, LimitsAssumption DEF EscrowIds
  <2> HIDE DEF n
  <2> QED BY <1>1, <1>2, <2>1, TransitionTyped
<1>11. Len(mescrows) < MaxMilestoneEscrows
  BY <1>1, <1>9, MilestoneBoundAssumption, LimitsAssumption
<1>12. Adds(r)
  BY <1>1, <1>3, <1>4, <1>5, <1>8, <1>11 DEF Adds
<1> QED BY <1>1, <1>7, <1>10, <1>12 DEF Outside

\* The ids of the milestone escrows are among those that have a log.
LEMMA MilestoneIdsLogged ==
    ASSUME MInv, NEW id \in MilestoneIds
    PROVE  /\ id \in EscrowIds /\ Entry(mescrows[id], mpaid[id])
           /\ mescrows[id] \in MilestoneRecord /\ mpaid[id] \in Nat
<1>1. Len(mescrows) \in Nat /\ Len(mescrows) <= MaxMilestoneEscrows
  BY DEF MInv, Entries
<1>2. id \in EscrowIds
  BY <1>1, MilestoneBoundAssumption, LimitsAssumption DEF MilestoneIds, EscrowIds
<1>3. Entry(mescrows[id], mpaid[id])
  BY DEF MInv, Entries
<1> QED BY <1>2, <1>3 DEF Entry

\* The parties of a milestone escrow are users.
LEMMA PartiesAreUsers ==
    ASSUME NEW m \in MilestoneRecord
    PROVE  m.mentor \in Users /\ m.learner \in Users
BY DEF MilestoneRecord

LEMMA CompleteAlters ==
    ASSUME MInv, NEW id \in MilestoneIds, NEW i, complete_milestone(id, i)
    PROVE  Outside /\ \E r, a : Alters(id, r, a)
<1> DEFINE m == mescrows[id]
           a == m.milestones[i]
<1>1. PICK bps \in release_rates(a) :
        LET fee == fee_of(a, bps) IN
        /\ balance' = credit(credit(credit(balance, Contract, -a), Treasury, fee),
                             m.mentor, a - fee)
        /\ mescrows' = [mescrows EXCEPT ![id] = completed_record(m, i, fee)]
  BY DEF complete_milestone
<1> DEFINE fee == fee_of(a, bps)
           r == completed_record(m, i, fee)
           b == credit(balance, Contract, -a)
           c == credit(b, Treasury, fee)
<1>2. /\ milestone_open(m, i) /\ balance[Contract] >= a
      /\ balance' = credit(c, m.mentor, a - fee)
      /\ mescrows' = [mescrows EXCEPT ![id] = r]
      /\ mpaid' = [mpaid EXCEPT ![id] = mpaid[id] + a]
      /\ transition_status(id, m.status, "Released", m.learner) \/ UNCHANGED log
      /\ UNCHANGED standard
  BY <1>1 DEF complete_milestone
<1>3. id \in EscrowIds /\ Entry(m, mpaid[id]) /\ m \in MilestoneRecord /\ mpaid[id] \in Nat
  BY MilestoneIdsLogged
<1>4. /\ balance \in [Address -> Nat] /\ log \in [EscrowIds -> Seq(LogEntry)] /\ TypeOK
      /\ m.mentor \in Address /\ Contract \in Address /\ Treasury \in Address
      /\ m.learner \in Actors /\ m.mentor # Contract
  BY <1>3, BooksTyped, PartiesAreUsers, AddressAssumption DEF MInv
<1>5. m.status = "Active" /\ i \in DOMAIN m.milestones /\ m.milestones \in Plans
  BY <1>2, <1>3 DEF milestone_open, MilestoneRecord
<1>6. a \in Nat \ {0}
  BY <1>5, PlanTyped
<1>7. fee \in 0 .. a
  BY <1>1, <1>4, <1>6, RatesBounded, FeeBounded
<1> HIDE DEF m
<1>8. /\ Entry(r, mpaid[id] + a) /\ Open(m) \in Nat /\ Open(r) \in Nat /\ Open(m) = a + Open(r)
      /\ IF completes(m, i) THEN r.status = "Released" /\ Open(r) = 0
                            ELSE r.status = "Active" /\ Open(r) > 0
      /\ KeepsCompleted(m, r)
  BY <1>2, <1>3, <1>7, CompletedEntry
<1> HIDE DEF a, fee, r
<1>9. b \in [Address -> Nat] /\ b[Contract] = balance[Contract] - a
  <2>1. balance[Contract] + (-a) \in Nat
    BY <1>2, <1>4, <1>6
  <2>2. b \in [Address -> Nat]
    BY <1>4, <1>6, <2>1, CreditTyped
  <2>3. b[Contract] = balance[Contract] - a
    BY <1>4, <1>6 DEF credit
  <2> QED BY <2>2, <2>3
<1> HIDE DEF b
<1>10. c \in [Address -> Nat] /\ c[Contract] = b[Contract]
  <2>1. b[Treasury] + fee \in Nat /\ fee \in Int
    BY <1>4, <1>7, <1>9
  <2>2. c \in [Address -> Nat]
    BY <1>9, <2>1, CreditTyped
  <2>3. c[Contract] = b[Contract]
    BY <1>4, <1>9, AddressAssumption DEF credit
  <2> QED BY <2>2, <2>3
<1> HIDE DEF c
<1>11. balance' \in [Address -> Nat] /\ balance'[Contract] = c[Contract]
  <2>1. a - fee \in Nat
    BY <1>6, <1>7
  <2>2. c[m.mentor] + (a - fee) \in Nat /\ a - fee \in Int
    BY <1>4, <1>10, <2>1
  <2>3. balance' \in [Address -> Nat]
    BY <1>2, <1>10, <2>2, CreditTyped
  <2>4. balance'[Contract] = c[Contract]
    BY <1>2, <1>4, <1>10 DEF credit
  <2> QED BY <2>3, <2>4
<1>12. log' \in [EscrowIds -> Seq(LogEntry)]
  BY <1>2, <1>3, <1>4, TransitionTyped
<1>13. Alters(id, r, a)
  <2>1. \/ a > 0 /\ r.status = "Active" /\ Open(r) > 0
        \/ a > 0 /\ r.status = "Released" /\ Open(r) = 0
    BY <1>6, <1>8
  <2>2. balance'[Contract] = balance[Contract] - a
    BY <1>9, <1>10, <1>11
  <2> QED BY <1>2, <1>5, <1>6, <1>8, <2>1, <2>2 DEF Alters, m
<1> QED BY <1>2, <1>11, <1>12, <1>13 DEF Outside

LEMMA DisputeAlters ==
    ASSUME MInv, NEW id \in MilestoneIds, NEW i, NEW S, dispute_milestone(S, id, i)
    PROVE  Outside /\ \E r, a : Alters(id, r, a)
<1> DEFINE m == mescrows[id]
           r == DisputedRecord(m, i)
<1>1. /\ milestone_open(m, i)
      /\ mescrows' = [mescrows EXCEPT ![id] = r]
      /\ transition_status(id, m.status, "Disputed", m.learner)
      /\ UNCHANGED standard /\ UNCHANGED balance /\ UNCHANGED mpaid
  BY DEF dispute_milestone, DisputedRecord
<1>2. id \in EscrowIds /\ Entry(m, mpaid[id]) /\ m \in MilestoneRecord /\ mpaid[id] \in Nat
  BY MilestoneIdsLogged
<1>3. /\ balance \in [Address -> Nat] /\ log \in [EscrowIds -> Seq(LogEntry)]
      /\ m.learner \in Actors /\ Contract \in Address
  BY <1>2, BooksTyped, PartiesAreUsers DEF MInv
<1>4. Entry(r, mpaid[id]) /\ Open(r) = Open(m) /\ r.status = "Disputed" /\ KeepsCompleted(m, r)
  BY <1>1, <1>2, DisputedEntry
<1>5. Open(m) \in Nat
  BY <1>2, AmountTyped DEF Open, Unpaid, MilestoneRecord
<1>6. m.status = "Active"
  BY <1>1 DEF milestone_open
<1> HIDE DEF r
<1>7. log' \in [EscrowIds -> Seq(LogEntry)]
  BY <1>1, <1>2, <1>3, TransitionTyped
<1>8. mpaid' = [mpaid EXCEPT ![id] = mpaid[id] + 0] /\ mpaid[id] + 0 = mpaid[id]
  <2>1. mpaid \in Seq(Nat)
    BY DEF MInv, Entries
  <2> QED BY <1>1, <1>2, <2>1
<1>9. balance'[Contract] = balance[Contract] - 0
  BY <1>1, <1>3
<1>10. Alters(id, r, 0)
  <2>1. Entry(r, mpaid[id] + 0)
    BY <1>4, <1>8
  <2>2. Open(r) \in Nat /\ Open(m) = 0 + Open(r)
    BY <1>4, <1>5
  <2> QED BY <1>1, <1>4, <1>5, <1>6, <1>8, <1>9, <2>1, <2>2 DEF Alters
<1> QED BY <1>1, <1>3, <1>7, <1>10 DEF Outside

\* What a step of the milestone escrows is.
LEMMA MilestoneKinds ==
    ASSUME MInv, Milestones
    PROVE  Outside /\ ((\E r : Adds(r)) \/ \E id \in MilestoneIds : \E r, a : Alters(id, r, a))
<1>1. ASSUME NEW m \in Users, NEW l \in Users, NEW plan \in Plans,
             create_milestone_escrow(m, l, plan)
      PROVE  Outside /\ \E r : Adds(r)
  BY <1>1, CreateAdds
<1>2. ASSUME NEW id \in MilestoneIds, NEW i, complete_milestone(id, i)
      PROVE  Outside /\ \E r, a : Alters(id, r, a)
  BY <1>2, CompleteAlters
<1>3. ASSUME NEW id \in MilestoneIds, NEW i, NEW S, dispute_milestone(S, id, i)
      PROVE  Outside /\ \E r, a : Alters(id, r, a)
  BY <1>3, DisputeAlters
<1> QED BY <1>1, <1>2, <1>3 DEF Milestones

-----------------------------------------------------------------------------
(* Every step keeps the invariant and is a step of the deposits.           *)

\* The three components of the refinement, for the number i.
Stage(i) == MilestoneStage(i)
Left(i)  == IF i \in MilestoneIds THEN MilestoneHeld(i) ELSE 0
Given(i) == IF i \in MilestoneIds THEN mpaid[i] ELSE 0

Slots == 1 .. MaxMilestoneEscrows

\* The milestone escrow with number i is as it was.
Unmoved(i) == Stage(i)' = Stage(i) /\ Left(i)' = Left(i) /\ Given(i)' = Given(i)

\* It is the only one that moves, the way a deposit does.
Moved(id) ==
    /\ \A i \in Slots \ {id} : Unmoved(i)
    /\ \/ /\ Stage(id) = "unused" /\ Stage(id)' = "open"
          /\ Left(id)' > 0 /\ Given(id)' = Given(id)
       \/ /\ Stage(id) = "open" /\ Stage(id)' = "open"
          /\ Left(id)' \in 1 .. (Left(id) - 1)
          /\ Given(id)' = Given(id) + (Left(id) - Left(id)')
       \/ /\ Stage(id) = "open" /\ Stage(id)' = "closed"
          /\ Left(id)' = 0 /\ Given(id)' = Given(id) + Left(id)

\* Only active milestone escrows are paid from, and what is completed stays so.
PaysActive ==
    \A id \in MilestoneIds :
        /\ mpaid'[id] # mpaid[id] => mescrows[id].status = "Active"
        /\ KeepsCompleted(mescrows[id], mescrows'[id])

\* What milestone escrows hold are natural numbers, and so is their sum.
LEMMA MilestonesHeldTyped ==
    ASSUME MInv
    PROVE  /\ \A id \in MilestoneIds : MilestoneHeld(id) = Open(mescrows[id]) /\ Open(mescrows[id]) \in Nat
           /\ IsFiniteSet(MilestoneIds) /\ MilestonesHold \in Nat /\ AllHeld \in Nat
           /\ balance[Contract] = AllHeld + MilestonesHold /\ balance[Contract] \in Nat
           /\ Len(mescrows) \in Nat
<1> DEFINE f == [id \in MilestoneIds |-> MilestoneHeld(id)]
           g == [id \in EscrowIds |-> Held(id)]
<1>1. \A id \in MilestoneIds : MilestoneHeld(id) = Open(mescrows[id]) /\ Open(mescrows[id]) \in Nat
  <2> SUFFICES ASSUME NEW id \in MilestoneIds
               PROVE  MilestoneHeld(id) = Open(mescrows[id]) /\ Open(mescrows[id]) \in Nat
    OBVIOUS
  <2>1. mescrows[id] \in MilestoneRecord
    BY MilestoneIdsLogged
  <2>2. MilestoneHeld(id) = Open(mescrows[id])
    BY DEF MilestoneHeld, Open, Unpaid
  <2> QED BY <2>1, <2>2, AmountTyped DEF Open, Unpaid, MilestoneRecord
<1>2. Len(mescrows) \in Nat
  BY DEF MInv, Entries
<1>3. IsFiniteSet(MilestoneIds) /\ IsFiniteSet(EscrowIds)
  BY <1>2, FS_Interval, LimitsAssumption DEF MilestoneIds, EscrowIds
<1>4. MilestonesHold \in Nat
  <2>1. \A id \in MilestoneIds : f[id] \in Nat
    BY <1>1
  <2> HIDE DEF f
  <2>2. SumFunctionOnSet(f, MilestoneIds) \in Nat
    BY <1>3, <2>1, SumType
  <2> QED BY <2>2 DEF MilestonesHold, f
<1>5. AllHeld \in Nat
  <2>1. \A id \in EscrowIds : g[id] \in Nat
    BY HoldingsTyped DEF MInv
  <2> HIDE DEF g
  <2>2. SumFunctionOnSet(g, EscrowIds) \in Nat
    BY <1>3, <2>1, SumType
  <2> QED BY <2>2 DEF AllHeld, g
<1>6. balance[Contract] = AllHeld + MilestonesHold
  BY DEF MInv, PoolSolvency, AllHeld, MilestonesHold
<1> QED BY <1>1, <1>2, <1>3, <1>4, <1>5, <1>6

\* A new milestone escrow: its deposit is the contract's gain.
LEMMA AddsKeeps ==
    ASSUME MInv, NEW r, Outside, Adds(r)
    PROVE  MInv' /\ PaysActive /\ \E id \in Slots : Moved(id)
<1>1. /\ mescrows \in Seq(MilestoneRecord) /\ mpaid \in Seq(Nat) /\ Len(mpaid) = Len(mescrows)
      /\ Len(mescrows) \in Nat /\ Len(mescrows) < MaxMilestoneEscrows /\ MaxMilestoneEscrows \in Nat
      /\ \A i \in MilestoneIds : Entry(mescrows[i], mpaid[i])
  BY MilestoneBoundAssumption, LimitsAssumption DEF MInv, Entries, Adds
<1>2. r \in MilestoneRecord /\ Entry(r, 0) /\ r.status = "Active" /\ Open(r) \in Nat \ {0}
  BY DEF Adds, Entry
<1>3. PICK n \in Slots : n = Len(mescrows) + 1
  BY <1>1 DEF Slots
<1>4. /\ mescrows' \in Seq(MilestoneRecord) /\ Len(mescrows') = n
      /\ mescrows'[n] = r /\ \A i \in MilestoneIds : mescrows'[i] = mescrows[i]
  BY <1>1, <1>2, <1>3 DEF Adds, MilestoneIds
<1>5. /\ mpaid' \in Seq(Nat) /\ Len(mpaid') = n
      /\ mpaid'[n] = 0 /\ \A i \in MilestoneIds : mpaid'[i] = mpaid[i]
  BY <1>1, <1>3 DEF Adds, MilestoneIds
<1>6. MilestoneIds' = MilestoneIds \cup {n} /\ n \notin MilestoneIds /\ MilestoneIds = MilestoneIds' \ {n}
  BY <1>1, <1>3, <1>4 DEF MilestoneIds
<1>7. Entries'
  <2>1. \A i \in MilestoneIds' : Entry(mescrows'[i], mpaid'[i])
    BY <1>1, <1>2, <1>4, <1>5, <1>6
  <2>2. n <= MaxMilestoneEscrows
    BY <1>1, <1>3
  <2> QED BY <1>4, <1>5, <2>1, <2>2 DEF Entries
<1>8. \A i \in MilestoneIds : MilestoneHeld(i)' = MilestoneHeld(i)
  BY <1>4 DEF MilestoneHeld, InStatus
<1>9. MilestoneHeld(n)' = Open(r) /\ mescrows'[n].status = "Active"
  BY <1>2, <1>4 DEF MilestoneHeld, Open, Unpaid, InStatus
<1>10. MilestonesHold' = MilestonesHold + Open(r)
  <2> DEFINE f == [i \in MilestoneIds |-> MilestoneHeld(i)]
             g == [i \in MilestoneIds' |-> MilestoneHeld(i)']
  <2>1. \A i \in MilestoneIds' : g[i] \in Int
    BY <1>2, <1>6, <1>8, <1>9, MilestonesHeldTyped
  <2>2. \A i \in MilestoneIds : f[i] = g[i]
    BY <1>6, <1>8
  <2>3. g[n] = Open(r) /\ n \in MilestoneIds'
    BY <1>6, <1>9
  <2>4. IsFiniteSet(MilestoneIds')
    BY <1>4, <1>3, FS_Interval DEF MilestoneIds, Slots
  <2> HIDE DEF f, g
  <2>5. SumFunctionOnSet(g, MilestoneIds') = g[n] + SumFunctionOnSet(g, MilestoneIds' \ {n})
    BY <2>1, <2>3, <2>4, SumRemove
  <2>6. IsFiniteSet(MilestoneIds)
    BY MilestonesHeldTyped
  <2>7. SumFunctionOnSet(f, MilestoneIds) = SumFunctionOnSet(g, MilestoneIds)
    BY <2>2, <2>6, SumSame
  <2>8. MilestonesHold' = Open(r) + MilestonesHold
    BY <1>6, <2>3, <2>5, <2>7 DEF MilestonesHold, f, g
  <2> QED BY <1>2, <2>8, MilestonesHeldTyped
<1>11. IInv' /\ SharesArePositive' /\ AllHeld' = AllHeld
  BY StandardKept DEF MInv, Outside
<1>12. PoolSolvency'
  <2>1. balance'[Contract] = balance[Contract] + Open(r)
    BY DEF Adds
  <2>2. balance'[Contract] = AllHeld' + MilestonesHold'
    BY <1>2, <1>10, <1>11, <2>1, MilestonesHeldTyped
  <2> QED BY <2>2 DEF PoolSolvency, AllHeld, MilestonesHold
<1>13. PaysActive
  BY <1>4, <1>5 DEF PaysActive, KeepsCompleted
<1>14. Moved(n)
  <2>1. \A i \in Slots \ {n} : Unmoved(i)
    BY <1>4, <1>5, <1>6, <1>8 DEF Unmoved, Stage, Left, Given, MilestoneStage
  <2>2. Stage(n) = "unused" /\ Given(n) = 0
    BY <1>6 DEF Stage, MilestoneStage, Given
  <2>3. Stage(n)' = "open" /\ Left(n)' > 0 /\ Given(n)' = 0
    BY <1>2, <1>5, <1>6, <1>9 DEF Stage, MilestoneStage, Left, Given
  <2> QED BY <2>1, <2>2, <2>3 DEF Moved
<1> QED BY <1>7, <1>11, <1>12, <1>13, <1>14 DEF MInv

\* A payment or dispute of one milestone: what the contract pays is no longer open.
LEMMA AltersKeeps ==
    ASSUME MInv, NEW n \in MilestoneIds, NEW r, NEW a, Outside, Alters(n, r, a)
    PROVE  MInv' /\ PaysActive /\ (Moved(n) \/ \A i \in Slots : Unmoved(i))
<1>1. /\ mescrows \in Seq(MilestoneRecord) /\ mpaid \in Seq(Nat) /\ Len(mpaid) = Len(mescrows)
      /\ Len(mescrows) \in Nat /\ Len(mescrows) <= MaxMilestoneEscrows
      /\ \A i \in MilestoneIds : Entry(mescrows[i], mpaid[i])
  BY DEF MInv, Entries
<1>2. /\ r \in MilestoneRecord /\ mescrows[n].status = "Active" /\ mpaid[n] \in Nat
      /\ Entry(r, mpaid[n] + a) /\ a \in Nat /\ mpaid[n] + a \in Nat
      /\ Open(mescrows[n]) \in Nat /\ Open(r) \in Nat /\ Open(mescrows[n]) = a + Open(r)
  BY MilestoneIdsLogged DEF Alters, Entry
<1>3. /\ mescrows' \in Seq(MilestoneRecord) /\ Len(mescrows') = Len(mescrows)
      /\ mescrows'[n] = r /\ \A i \in MilestoneIds \ {n} : mescrows'[i] = mescrows[i]
  BY <1>1, <1>2 DEF Alters, MilestoneIds
<1>4. /\ mpaid' \in Seq(Nat) /\ Len(mpaid') = Len(mpaid)
      /\ mpaid'[n] = mpaid[n] + a /\ \A i \in MilestoneIds \ {n} : mpaid'[i] = mpaid[i]
  BY <1>1, <1>2 DEF Alters, MilestoneIds
<1>5. MilestoneIds' = MilestoneIds
  BY <1>3 DEF MilestoneIds
<1>6. Entries'
  <2>1. \A i \in MilestoneIds' : Entry(mescrows'[i], mpaid'[i])
    BY <1>1, <1>2, <1>3, <1>4, <1>5
  <2> QED BY <1>1, <1>3, <1>4, <2>1 DEF Entries
<1>7. \A i \in MilestoneIds \ {n} : MilestoneHeld(i)' = MilestoneHeld(i)
  BY <1>3 DEF MilestoneHeld, InStatus
<1>8. MilestoneHeld(n)' = Open(r) /\ MilestoneHeld(n) = Open(mescrows[n])
  BY <1>3 DEF MilestoneHeld, Open, Unpaid, InStatus
<1>9. MilestonesHold' = MilestonesHold - a
  <2> DEFINE f == [i \in MilestoneIds |-> MilestoneHeld(i)]
             g == [i \in MilestoneIds |-> MilestoneHeld(i)']
  <2>1. \A i \in MilestoneIds : f[i] \in Int /\ g[i] \in Int
    BY <1>2, <1>7, <1>8, MilestonesHeldTyped
  <2>2. \A i \in MilestoneIds \ {n} : f[i] = g[i]
    BY <1>7
  <2>3. g[n] = Open(r) /\ f[n] = Open(mescrows[n])
    BY <1>8
  <2>4. IsFiniteSet(MilestoneIds)
    BY MilestonesHeldTyped
  <2> HIDE DEF f, g
  <2>5. SumFunctionOnSet(g, MilestoneIds) = SumFunctionOnSet(f, MilestoneIds) + (g[n] - f[n])
    BY <2>1, <2>2, <2>4, SumChange
  <2>6. MilestonesHold = SumFunctionOnSet(f, MilestoneIds)
    BY DEF MilestonesHold, f
  <2>7. MilestonesHold' = SumFunctionOnSet(g, MilestoneIds)
    BY <1>5 DEF MilestonesHold, g
  <2>8. MilestonesHold \in Nat
    BY MilestonesHeldTyped
  <2> QED BY <1>2, <2>3, <2>5, <2>6, <2>7, <2>8
<1>10. IInv' /\ SharesArePositive' /\ AllHeld' = AllHeld
  BY StandardKept DEF MInv, Outside
<1>11. PoolSolvency'
  <2>1. balance'[Contract] = balance[Contract] - a
    BY DEF Alters
  <2>2. balance'[Contract] = AllHeld' + MilestonesHold'
    BY <1>2, <1>9, <1>10, <2>1, MilestonesHeldTyped
  <2> QED BY <2>2 DEF PoolSolvency, AllHeld, MilestonesHold
<1>12. PaysActive
  BY <1>2, <1>3, <1>4 DEF PaysActive, KeepsCompleted, Alters
<1>13. \A i \in Slots \ {n} : Unmoved(i)
  BY <1>3, <1>4, <1>5, <1>7 DEF Unmoved, Stage, Left, Given, MilestoneStage
<1>14. /\ Stage(n) = "open" /\ Left(n) = a + Open(r) /\ Given(n) = mpaid[n]
       /\ Left(n)' = Open(r) /\ Given(n)' = mpaid[n] + a
       /\ Stage(n)' = IF r.status = "Released" THEN "closed" ELSE "open"
  BY <1>2, <1>3, <1>4, <1>5, <1>8 DEF Stage, MilestoneStage, Left, Given
<1>15. Moved(n) \/ \A i \in Slots : Unmoved(i)
  <2>1. CASE a = 0 /\ r.status = "Disputed"
    BY <1>2, <1>13, <1>14, <2>1 DEF Unmoved
  <2>2. CASE a > 0 /\ r.status = "Active" /\ Open(r) > 0
    BY <1>2, <1>13, <1>14, <2>2 DEF Moved
  <2>3. CASE a > 0 /\ r.status = "Released" /\ Open(r) = 0
    BY <1>2, <1>13, <1>14, <2>3 DEF Moved
  <2> QED BY <2>1, <2>2, <2>3 DEF Alters
<1> QED BY <1>6, <1>10, <1>11, <1>12, <1>15 DEF MInv

\* A step of the standard escrows, or none, leaves the milestone escrows alone.
LEMMA StandardStep ==
    ASSUME MInv, [Next]_vars, UNCHANGED mvars
    PROVE  MInv' /\ PaysActive /\ \A i \in Slots : Unmoved(i)
<1>1. mescrows' = mescrows /\ mpaid' = mpaid
  BY DEF mvars
<1>2. IInv' /\ SharesArePositive'
  BY NextIInv, SharesStayPositive DEF MInv
<1>3. Entries'
  BY <1>1 DEF MInv, Entries, MilestoneIds
<1>4. MilestonesHold' = MilestonesHold
  BY <1>1 DEF MilestonesHold, MilestoneHeld, MilestoneIds, InStatus
<1>5. PoolSolvency'
  <2>1. balance'[Contract] = balance[Contract] + (AllHeld' - AllHeld)
    BY StepHeld DEF MInv
  <2>2. AllHeld' \in Nat
    BY <1>2, NextHeldTyped
  <2>3. balance'[Contract] = AllHeld' + MilestonesHold'
    BY <1>4, <2>1, <2>2, MilestonesHeldTyped
  <2> QED BY <2>3 DEF PoolSolvency, AllHeld, MilestonesHold
<1>6. PaysActive /\ \A i \in Slots : Unmoved(i)
  BY <1>1 DEF PaysActive, KeepsCompleted, Unmoved, Stage, Left, Given, MilestoneStage, MilestoneHeld,
              MilestoneIds, InStatus
<1> QED BY <1>2, <1>3, <1>5, <1>6 DEF MInv

\* What every step of the two kinds together keeps and does.
LEMMA MilestoneStep ==
    ASSUME MInv, [MilestoneNext]_<<vars, mvars>>
    PROVE  /\ MInv' /\ PaysActive
           /\ (\E id \in Slots : Moved(id)) \/ \A i \in Slots : Unmoved(i)
<1>1. CASE Milestones
  <2>1. ASSUME NEW id \in MilestoneIds PROVE id \in Slots
    BY MilestoneBoundAssumption, LimitsAssumption DEF MInv, Entries, MilestoneIds, Slots
  <2> QED BY <1>1, <2>1, MilestoneKinds, AddsKeeps, AltersKeeps
<1>2. CASE [Next]_vars /\ UNCHANGED mvars
  BY <1>2, StandardStep
<1> QED BY <1>1, <1>2 DEF MilestoneNext

LEMMA InitMInv == MilestoneInit => MInv
<1> SUFFICES ASSUME MilestoneInit PROVE MInv
  OBVIOUS
<1>1. IInv /\ SharesArePositive
  BY InitIInv, InitLedger, LedgerMeans DEF MilestoneInit
<1>2. mescrows = << >> /\ mpaid = << >> /\ Len(<< >>) = 0
  BY DEF MilestoneInit
<1>3. MilestoneIds = {}
  BY <1>2 DEF MilestoneIds
<1>4. Entries
  <2>1. << >> \in Seq(MilestoneRecord) /\ << >> \in Seq(Nat)
    OBVIOUS
  <2> QED BY <1>2, <1>3, <2>1, MilestoneBoundAssumption, LimitsAssumption DEF Entries
<1>5. PoolSolvency
  <2> DEFINE f == [i \in EscrowIds |-> Held(i)]
             z == [i \in EscrowIds |-> 0]
             h == [i \in MilestoneIds |-> MilestoneHeld(i)]
  <2>1. f = z
    BY DEF MilestoneInit, Init, Held, Blank, Live
  <2>2. balance[Contract] = 0
    BY AddressAssumption DEF MilestoneInit, Init
  <2>3. IsFiniteSet(EscrowIds)
    BY LimitsAssumption, FS_Interval DEF EscrowIds
  <2>4. SumFunctionOnSet(z, EscrowIds) = 0
    BY <2>3, SumZero
  <2> HIDE DEF h
  <2>5. SumFunctionOnSet(h, MilestoneIds) = 0
    BY <1>3, SumEmpty
  <2> QED BY <2>1, <2>2, <2>4, <2>5 DEF PoolSolvency, h
<1> QED BY <1>1, <1>4, <1>5 DEF MInv

\* The invariant of both kinds of escrows holds in every reachable state.
THEOREM MilestoneInvariant == MilestoneSpec => []MInv
BY InitMInv, MilestoneStep, PTL DEF MilestoneSpec

\* Every milestone is paid at most once and in full, in whatever order the learner accepts
\* them and however the fee changes in between, the status of an escrow follows from its
\* milestones, and the pool that both kinds share covers what both still owe.
THEOREM MilestoneBookkeeping == MilestoneSpec => []MilestoneBooks
BY MilestoneInvariant, EntriesMean, PTL

\* No call pays from a released or disputed milestone escrow, and no milestone that was paid
\* is disputed or paid again.
THEOREM DisputedUnpaid == MilestoneSpec => DisputeStopsPayments
<1>1. MInv /\ [MilestoneNext]_<<vars, mvars>> => [PaysActive]_<<vars, mvars>>
  BY MilestoneStep
<1> QED BY <1>1, MilestoneInvariant, PTL DEF MilestoneSpec, DisputeStopsPayments, PaysActive, KeepsCompleted

\* Every step of the milestone escrows is a step of the abstract deposits or none.
LEMMA MilestoneStepRefines ==
    ASSUME MInv, [MilestoneNext]_<<vars, mvars>>
    PROVE  [MilestoneDeposit!DepositsNext]_<<
               [id \in 1 .. MaxMilestoneEscrows |-> MilestoneStage(id)],
               [id \in 1 .. MaxMilestoneEscrows |->
                    IF id \in MilestoneIds THEN MilestoneHeld(id) ELSE 0],
               [id \in 1 .. MaxMilestoneEscrows |-> IF id \in MilestoneIds THEN mpaid[id] ELSE 0]>>
<1> DEFINE stage == [id \in 1 .. MaxMilestoneEscrows |-> MilestoneStage(id)]
           left  == [id \in 1 .. MaxMilestoneEscrows |->
                        IF id \in MilestoneIds THEN MilestoneHeld(id) ELSE 0]
           given == [id \in 1 .. MaxMilestoneEscrows |->
                        IF id \in MilestoneIds THEN mpaid[id] ELSE 0]
<1>1. CASE \A i \in Slots : Unmoved(i)
  <2>1. stage' = stage /\ left' = left /\ given' = given
    BY <1>1 DEF Slots, Unmoved, Stage, Left, Given
  <2> QED BY <2>1
<1>2. ASSUME NEW id \in Slots, Moved(id) PROVE MilestoneDeposit!DepositsNext
  <2>1. /\ stage' = [stage EXCEPT ![id] = Stage(id)']
        /\ left' = [left EXCEPT ![id] = Left(id)']
        /\ given' = [given EXCEPT ![id] = Given(id)']
    BY <1>2 DEF Moved, Unmoved, Slots, Stage, Left, Given
  <2>2. /\ stage[id] = Stage(id) /\ left[id] = Left(id) /\ given[id] = Given(id)
        /\ left'[id] = Left(id)'
    BY DEF Slots, Stage, Left, Given
  <2> HIDE DEF stage, left, given
  <2>3. CASE Stage(id) = "unused" /\ Stage(id)' = "open" /\ Left(id)' > 0 /\ Given(id)' = Given(id)
    <3>1. given' = given
      BY <2>1, <2>2, <2>3 DEF given
    <3>2. MilestoneDeposit!Open(id)
      BY <2>1, <2>2, <2>3, <3>1 DEF MilestoneDeposit!Open, stage, left, given
    <3> QED BY <3>2 DEF MilestoneDeposit!DepositsNext, Slots
  <2>4. CASE /\ Stage(id) = "open" /\ Stage(id)' = "open"
             /\ Left(id)' \in 1 .. (Left(id) - 1)
             /\ Given(id)' = Given(id) + (Left(id) - Left(id)')
    <3>1. stage' = stage
      BY <2>1, <2>2, <2>4 DEF stage
    <3>2. MilestoneDeposit!PayPart(id)
      BY <2>1, <2>2, <2>4, <3>1 DEF MilestoneDeposit!PayPart, stage, left, given
    <3> QED BY <3>2 DEF MilestoneDeposit!DepositsNext, Slots
  <2>5. CASE /\ Stage(id) = "open" /\ Stage(id)' = "closed"
             /\ Left(id)' = 0 /\ Given(id)' = Given(id) + Left(id)
    <3>1. MilestoneDeposit!Close(id)
      BY <2>1, <2>2, <2>5 DEF MilestoneDeposit!Close, stage, left, given
    <3> QED BY <3>1 DEF MilestoneDeposit!DepositsNext, Slots
  <2> QED BY <1>2, <2>3, <2>4, <2>5 DEF Moved
<1> QED BY <1>1, <1>2, MilestoneStep

\* Milestone escrows keep the promise of the abstract deposits too.
THEOREM MilestoneRefinement == MilestoneSpec => MilestonesImplementDeposits
<1>1. MilestoneInit => MilestoneDeposit!DepositsInit
  <2> SUFFICES ASSUME MilestoneInit PROVE MilestoneDeposit!DepositsInit
    OBVIOUS
  <2>1. MilestoneIds = {}
    <3>1. mescrows = << >> /\ Len(<< >>) = 0
      BY DEF MilestoneInit
    <3> QED BY <3>1 DEF MilestoneIds
  <2> QED BY <2>1 DEF MilestoneDeposit!DepositsInit, MilestoneStage
<1> QED BY <1>1, MilestoneStepRefines, MilestoneInvariant, PTL
        DEF MilestoneSpec, MilestonesImplementDeposits, MilestoneDeposit!DepositsSpec

-----------------------------------------------------------------------------
(* The strengthened invariant.                                             *)

ActionRecord ==
    [escrow_id : EscrowIds, amount : Int, reason : Reasons, execute_after : Int,
     approvals : SUBSET Signers, executed : BOOLEAN, failed : BOOLEAN]

\* An action is on a known escrow, and the parameters of a failed one are barred.
ActionsKnown ==
    /\ actions \in Seq(ActionRecord)
    /\ \A k \in ActionIds : escrows[actions[k].escrow_id].status # "None"
    /\ \A k \in ActionIds : actions[k].failed => params(actions[k]) \in failed_params

\* What the actions say about the escrows they name.
ActionsHold == LastResort /\ ExecutedIsSettled

\* The sum of those payments of the list p that have a number in S.
payments_sum(p, S) == SumFunctionOnSet([j \in S |-> p[j].amount], S)

\* The numbers of the payments of the list p in the window that starts at w.
Window(p, w) == {j \in 1 .. Len(p) : p[j].window = w}

Payment == [window : Int, amount : Int, pool : Int]

Breaker == [window_start : Int, released : Int, set : BOOLEAN]

\* The breaker holds what was paid in its window, which is the latest one.
CircuitHolds ==
    /\ payments \in Seq(Payment)
    /\ circuit \in Breaker
    /\ ~circuit.set => payments = << >>
    /\ circuit.set => circuit.released = payments_sum(payments, Window(payments, circuit.window_start))
    /\ \A j \in 1 .. Len(payments) : payments[j].window <= circuit.window_start

EInv == Loose /\ ActionsKnown /\ ActionsHold /\ CircuitHolds /\ WindowCap

-----------------------------------------------------------------------------
(* Steps that leave the actions or the breaker alone.                      *)

\* Records and failures that evolve as in an ordinary call keep what the actions say.
LEMMA ActionsEvolve ==
    ASSUME Loose, ActionsKnown, ActionsHold, RecordsEvolve, FailuresEvolve,
           UNCHANGED <<actions, failed_params>>
    PROVE  ActionsKnown' /\ ActionsHold'
<1> DEFINE id(k) == actions[k].escrow_id
<1>1. \A k \in ActionIds : id(k) \in EscrowIds
  <2>1. \A k \in ActionIds : actions[k] \in ActionRecord
    BY DEF ActionsKnown, ActionIds
  <2> QED BY <2>1 DEF ActionRecord
<1>2. \A k \in ActionIds : Evolves(escrows[id(k)], escrows'[id(k)])
  BY <1>1 DEF ActionsKnown, RecordsEvolve
<1>3. ActionsKnown'
  <2>1. \A k \in ActionIds : escrows'[id(k)].status # "None"
    BY <1>2 DEF Evolves
  <2> QED BY <2>1 DEF ActionsKnown, ActionIds, params
<1>4. LastResort'
  <2> SUFFICES ASSUME NEW k \in ActionIds, escrows'[id(k)].status = "Active"
               PROVE  failures'[id(k)].attempt_number = MaxAttempts
    BY DEF LastResort, ActionIds
  <2>1. escrows[id(k)].status = "Active"
    BY <1>2 DEF Evolves
  <2>2. failures[id(k)].attempt_number = MaxAttempts
    BY <2>1 DEF ActionsHold, LastResort
  <2>3. failures[id(k)].attempt_number >= MaxAttempts
    BY <2>2, LimitsAssumption
  <2>4. failures'[id(k)] = failures[id(k)]
    BY <1>1, <2>3 DEF FailuresEvolve
  <2> QED BY <2>2, <2>4
<1>5. ExecutedIsSettled'
  <2> SUFFICES ASSUME NEW k \in ActionIds, actions[k].executed
               PROVE  /\ escrows'[id(k)].status = "Released"
                      /\ failures'[id(k)] = NoFailure /\ id(k) \notin watchlist'
                      /\ \A j \in ActionIds \ {k} : ~(actions[j].executed /\ id(j) = id(k))
    BY DEF ExecutedIsSettled, ActionIds
  <2>1. /\ escrows[id(k)].status = "Released"
        /\ failures[id(k)] = NoFailure /\ id(k) \notin watchlist
        /\ \A j \in ActionIds \ {k} : ~(actions[j].executed /\ id(j) = id(k))
    BY DEF ActionsHold, ExecutedIsSettled
  <2>2. escrows'[id(k)] = escrows[id(k)]
    BY <1>2, <2>1 DEF Evolves, Terminal
  <2>3. failures'[id(k)] = failures[id(k)] /\ id(k) \notin watchlist'
    BY <1>1, <2>1 DEF FailuresEvolve
  <2> QED BY <2>1, <2>2, <2>3
<1> QED BY <1>3, <1>4, <1>5 DEF ActionsHold

\* A step without an emergency release keeps what the breaker says.
LEMMA CircuitKept ==
    ASSUME CircuitHolds, WindowCap, UNCHANGED <<circuit, payments>>
    PROVE  CircuitHolds' /\ WindowCap'
BY DEF CircuitHolds, WindowCap, Window

\* An action changes without its escrow, parameters or execution, and what fails is barred.
LEMMA ActionChanges ==
    ASSUME Loose, ActionsKnown, ActionsHold, NEW k \in ActionIds, NEW a \in ActionRecord,
           params(a) = params(actions[k]), a.executed = actions[k].executed,
           actions' = [actions EXCEPT ![k] = a], UNCHANGED vars,
           failed_params \subseteq failed_params', a.failed => params(a) \in failed_params'
    PROVE  ActionsKnown' /\ ActionsHold'
<1>1. /\ ActionIds' = ActionIds /\ actions' \in Seq(ActionRecord)
      /\ \A j \in ActionIds : actions'[j] = IF j = k THEN a ELSE actions[j]
  BY DEF ActionsKnown, ActionIds
<1>2. a.escrow_id = actions[k].escrow_id
  BY DEF params
<1>3. \A j \in ActionIds : /\ actions'[j].escrow_id = actions[j].escrow_id
                           /\ actions'[j].executed = actions[j].executed
                           /\ params(actions'[j]) = params(actions[j])
  BY <1>1, <1>2
<1>4. UNCHANGED <<escrows, failures, watchlist>>
  BY DEF vars
<1>5. \A j \in ActionIds : actions'[j].failed => params(actions'[j]) \in failed_params'
  BY <1>1, <1>3 DEF ActionsKnown
<1>6. \A j \in ActionIds : escrows'[actions'[j].escrow_id].status # "None"
  BY <1>3, <1>4 DEF ActionsKnown
<1>7. ActionsKnown'
  BY <1>1, <1>5, <1>6 DEF ActionsKnown, params
<1>8. LastResort'
  BY <1>1, <1>3, <1>4 DEF ActionsHold, LastResort
<1>9. ExecutedIsSettled'
  BY <1>1, <1>3, <1>4 DEF ActionsHold, ExecutedIsSettled
<1> QED BY <1>7, <1>8, <1>9 DEF ActionsHold

-----------------------------------------------------------------------------
(* Proposal, approval and failure.                                         *)

LEMMA ProposeKeeps ==
    ASSUME Loose, ActionsKnown, ActionsHold, NEW s \in Signers, NEW id \in EscrowIds,
           NEW r \in Reasons, propose_emergency_action(s, id, r)
    PROVE  ActionsKnown' /\ ActionsHold'
<1> DEFINE a == [escrow_id |-> id, amount |-> escrows[id].amount, reason |-> r,
                 execute_after |-> now + EmergencyTimelock, approvals |-> {s},
                 executed |-> FALSE, failed |-> FALSE]
           n == Len(actions)
<1>1. /\ actions' = Append(actions, a) /\ exhausted(id) /\ escrows[id].status = "Active"
      /\ UNCHANGED <<vars, failed_params>>
  BY DEF propose_emergency_action
<1>2. a \in ActionRecord
  <2>1. escrows[id] \in LooseRecord /\ now \in Nat
    BY DEF Loose
  <2>2. escrows[id].amount \in Int /\ now + EmergencyTimelock \in Int
    BY <2>1, EmergencyAssumption DEF LooseRecord
  <2> QED BY <2>2 DEF ActionRecord
<1>3. a.escrow_id = id /\ ~a.executed /\ ~a.failed
  OBVIOUS
<1> HIDE DEF a
<1>4. /\ actions' \in Seq(ActionRecord) /\ ActionIds' = ActionIds \cup {n + 1}
      /\ n + 1 \notin ActionIds
      /\ actions'[n + 1] = a /\ \A j \in ActionIds : actions'[j] = actions[j]
  BY <1>1, <1>2 DEF ActionsKnown, ActionIds
<1>5. UNCHANGED <<escrows, failures, watchlist>>
  BY <1>1 DEF vars
<1>6. failures[id].attempt_number = MaxAttempts
  <2>1. failures[id] \in FailureRecord /\ failures[id].attempt_number >= MaxAttempts
    BY <1>1 DEF Loose, exhausted
  <2> QED BY <2>1, LimitsAssumption DEF FailureRecord
<1> HIDE DEF n
<1>7. ActionsKnown'
  <2>1. \A j \in ActionIds' : escrows'[actions'[j].escrow_id].status # "None"
    BY <1>1, <1>3, <1>4, <1>5 DEF ActionsKnown
  <2>2. \A j \in ActionIds' : actions'[j].failed => params(actions'[j]) \in failed_params'
    BY <1>1, <1>3, <1>4 DEF ActionsKnown
  <2> QED BY <1>4, <2>1, <2>2 DEF ActionsKnown, params
<1>8. LastResort'
  BY <1>3, <1>4, <1>5, <1>6 DEF ActionsHold, LastResort
<1>9. ExecutedIsSettled'
  BY <1>3, <1>4, <1>5 DEF ActionsHold, ExecutedIsSettled
<1> QED BY <1>7, <1>8, <1>9 DEF ActionsHold

LEMMA ApproveKeeps ==
    ASSUME Loose, ActionsKnown, ActionsHold, NEW s \in Signers, NEW k \in ActionIds,
           approve_emergency_action(s, k)
    PROVE  ActionsKnown' /\ ActionsHold'
<1> DEFINE a == [actions[k] EXCEPT !.approvals = @ \cup {s}]
<1>1. actions[k] \in ActionRecord
  BY DEF ActionsKnown, ActionIds
<1>2. actions' = [actions EXCEPT ![k] = a] /\ UNCHANGED <<vars, failed_params>>
  BY DEF approve_emergency_action
<1>3. /\ a \in ActionRecord /\ params(a) = params(actions[k])
      /\ a.executed = actions[k].executed /\ a.failed = actions[k].failed
  BY <1>1 DEF ActionRecord, params
<1> HIDE DEF a
<1>4. a.failed => params(a) \in failed_params'
  BY <1>2, <1>3 DEF ActionsKnown
<1> QED BY <1>2, <1>3, <1>4, ActionChanges

LEMMA FailureKeeps ==
    ASSUME Loose, ActionsKnown, ActionsHold, NEW u \in Responders, NEW k \in ActionIds,
           execute_emergency_action_failed(u, k)
    PROVE  ActionsKnown' /\ ActionsHold'
<1> DEFINE a == [actions[k] EXCEPT !.failed = TRUE]
<1>1. actions[k] \in ActionRecord
  BY DEF ActionsKnown, ActionIds
<1>2. /\ actions' = [actions EXCEPT ![k] = a] /\ UNCHANGED vars
      /\ failed_params' = failed_params \cup {params(actions[k])}
  BY DEF execute_emergency_action_failed
<1>3. a \in ActionRecord /\ params(a) = params(actions[k]) /\ a.executed = actions[k].executed
  BY <1>1 DEF ActionRecord, params
<1> HIDE DEF a
<1>4. params(a) \in failed_params' /\ failed_params \subseteq failed_params'
  BY <1>2, <1>3
<1> QED BY <1>2, <1>3, <1>4, ActionChanges

-----------------------------------------------------------------------------
(* The circuit breaker.                                                    *)

LEMMA PoolTyped ==
    ASSUME Loose
    PROVE  active_pool_total \in Int
<1> DEFINE f == [i \in EscrowIds |-> IF escrows[i].status = "Active" THEN escrows[i].amount ELSE 0]
<1>1. \A i \in EscrowIds : f[i] \in Int
  BY DEF Loose, LooseRecord
<1>2. IsFiniteSet(EscrowIds)
  BY LimitsAssumption, FS_Interval DEF EscrowIds
<1> HIDE DEF f
<1>3. SumFunctionOnSet(f, EscrowIds) \in Int
  BY <1>1, <1>2, SumType
<1> QED BY <1>3 DEF active_pool_total, f

\* The breaker a release meets holds the payments of its window, which is the latest one.
LEMMA BreakerCounts ==
    ASSUME Loose, CircuitHolds
    PROVE  LET c == current_circuit IN
           /\ c \in Breaker /\ c.set
           /\ c.released = payments_sum(payments, Window(payments, c.window_start))
           /\ \A j \in 1 .. Len(payments) : payments[j].window <= c.window_start
<1> DEFINE Fits(c) == /\ c \in Breaker /\ c.set
                      /\ c.released = payments_sum(payments, Window(payments, c.window_start))
                      /\ \A j \in 1 .. Len(payments) : payments[j].window <= c.window_start
           fresh == [window_start |-> now, released |-> 0, set |-> TRUE]
<1>1. /\ now \in Int /\ fresh \in Breaker
      /\ fresh.set /\ fresh.window_start = now /\ fresh.released = 0
  BY DEF Loose, Breaker
<1>2. \A j \in 1 .. Len(payments) : payments[j].window \in Int
  <2>1. \A j \in 1 .. Len(payments) : payments[j] \in Payment
    BY DEF CircuitHolds
  <2> QED BY <2>1 DEF Payment
<1> HIDE DEF fresh
<1>3. ASSUME \A j \in 1 .. Len(payments) : payments[j].window < now
      PROVE  Fits(fresh)
  <2>1. Window(payments, now) = {}
    BY <1>1, <1>2, <1>3 DEF Window
  <2>2. payments_sum(payments, Window(payments, now)) = 0
    BY <2>1, SumEmpty DEF payments_sum
  <2> QED BY <1>1, <1>2, <1>3, <2>2
<1>4. Fits(stored_circuit)
  <2>1. CASE circuit.set
    BY <2>1 DEF stored_circuit, CircuitHolds
  <2>2. CASE ~circuit.set
    <3>1. Len(payments) = 0
      BY <2>2 DEF CircuitHolds
    <3> QED BY <1>3, <2>2, <3>1 DEF stored_circuit, fresh
  <2> QED BY <2>1, <2>2
<1>5. CASE now - stored_circuit.window_start >= CircuitWindow
  <2>1. stored_circuit.window_start \in Int
    BY <1>4 DEF Breaker
  <2>2. stored_circuit.window_start < now
    BY <1>1, <1>5, <2>1, EmergencyAssumption
  <2>3. \A j \in 1 .. Len(payments) : payments[j].window < now
    BY <1>1, <1>2, <1>4, <2>1, <2>2
  <2> HIDE DEF Fits
  <2>4. Fits(current_circuit)
    BY <1>3, <1>5, <2>3 DEF current_circuit, fresh
  <2> QED BY <2>4 DEF Fits
<1>6. CASE ~(now - stored_circuit.window_start >= CircuitWindow)
  BY <1>4, <1>6 DEF current_circuit
<1> QED BY <1>5, <1>6

\* A payment appended to a list, and the payments of its window.
Booked(p, r) ==
    LET q == Append(p, r)
        W == Window(p, r.window)
    IN  /\ q \in Seq(Payment) /\ Len(q) = Len(p) + 1
        /\ q[Len(p) + 1] = r /\ \A j \in 1 .. Len(p) : q[j] = p[j]
        /\ Window(q, r.window) = W \cup {Len(p) + 1}
        /\ payments_sum(q, W \cup {Len(p) + 1}) = r.amount + payments_sum(p, W)

LEMMA PaymentAppended ==
    ASSUME NEW p \in Seq(Payment), NEW r \in Payment
    PROVE  Booked(p, r)
<1> PICK q : q = Append(p, r)
  OBVIOUS
<1>1. PICK n \in Nat : n = Len(p)
  OBVIOUS
<1> DEFINE W == Window(p, r.window)
<1>2. /\ q \in Seq(Payment) /\ Len(q) = n + 1
      /\ q[n + 1] = r /\ \A j \in 1 .. n : q[j] = p[j] /\ p[j] \in Payment
  BY <1>1
<1>3. 1 .. Len(q) = (1 .. n) \cup {n + 1} /\ n + 1 \notin 1 .. n
  BY <1>2
<1>4. W \subseteq 1 .. n /\ n + 1 \notin W /\ IsFiniteSet(W)
  <2>1. IsFiniteSet(1 .. n)
    BY FS_Interval
  <2> QED BY <1>1, <1>3, <2>1, FS_Subset DEF Window
<1>5. Window(q, r.window) = W \cup {n + 1}
  BY <1>1, <1>2, <1>3 DEF Window
<1> DEFINE f == [j \in W \cup {n + 1} |-> q[j].amount]
           g == [j \in W |-> p[j].amount]
<1>6. IsFiniteSet(W \cup {n + 1}) /\ (W \cup {n + 1}) \ {n + 1} = W
  BY <1>4, FS_AddElement
<1>7. r.amount \in Int /\ \A j \in 1 .. n : p[j].amount \in Int
  BY <1>2 DEF Payment
<1>8. f[n + 1] = r.amount /\ \A j \in W : f[j] = g[j] /\ f[j] \in Int
  BY <1>2, <1>4, <1>7
<1>9. \A j \in W \cup {n + 1} : f[j] \in Int
  BY <1>7, <1>8
<1> HIDE DEF f, g
<1>10. SumFunctionOnSet(f, W \cup {n + 1}) = f[n + 1] + SumFunctionOnSet(f, (W \cup {n + 1}) \ {n + 1})
  BY <1>6, <1>9, SumRemove
<1>11. SumFunctionOnSet(f, W) = SumFunctionOnSet(g, W)
  BY <1>4, <1>8, SumSame
<1>12. SumFunctionOnSet(f, W \cup {n + 1}) = r.amount + SumFunctionOnSet(g, W)
  BY <1>6, <1>8, <1>10, <1>11
<1>13. payments_sum(q, W \cup {n + 1}) = r.amount + payments_sum(p, W)
  BY <1>12 DEF f, g, payments_sum
<1> QED BY <1>1, <1>2, <1>5, <1>13 DEF Booked

\* A release within the cap is booked in the latest window.
LEMMA BreakerPays ==
    ASSUME Loose, CircuitHolds, WindowCap, NEW a \in Int, within_cap(a),
           circuit' = [current_circuit EXCEPT !.released = @ + a],
           payments' = Append(payments, [window |-> current_circuit.window_start, amount |-> a,
                                         pool |-> active_pool_total])
    PROVE  CircuitHolds' /\ WindowCap'
<1>1. PICK c \in Breaker : c = current_circuit
  BY BreakerCounts
<1>2. /\ c.set /\ c.released = payments_sum(payments, Window(payments, c.window_start))
      /\ \A j \in 1 .. Len(payments) : payments[j].window <= c.window_start
  BY <1>1, BreakerCounts
<1>3. PICK pool \in Int : pool = active_pool_total
  BY PoolTyped
<1>4. c.released \in Int /\ c.window_start \in Int
  BY DEF Breaker
<1>5. PICK total \in Int : total = c.released + a
  BY <1>4
<1>6. 10 * total <= pool
  <2>1. total <= pool \div 10
    BY <1>1, <1>3, <1>5 DEF within_cap
  <2> QED BY <2>1
<1>7. PICK r \in Payment : r = [window |-> c.window_start, amount |-> a, pool |-> pool]
  BY <1>4 DEF Payment
<1>8. payments' = Append(payments, r) /\ r.window = c.window_start /\ r.amount = a /\ r.pool = pool
  BY <1>1, <1>3, <1>7
<1>9. /\ circuit' \in Breaker /\ circuit'.set /\ circuit'.window_start = r.window
      /\ circuit'.released = total
  <2>1. circuit' = [c EXCEPT !.released = total]
    BY <1>1, <1>5
  <2> QED BY <1>2, <1>8, <2>1 DEF Breaker
<1>10. PICK W : W = Window(payments, r.window)
  OBVIOUS
<1>11. PICK n \in Nat : n = Len(payments)
  BY DEF CircuitHolds
<1>12. payments \in Seq(Payment)
  BY DEF CircuitHolds
<1>13. /\ payments' \in Seq(Payment) /\ Len(payments') = n + 1
       /\ payments'[n + 1] = r /\ \A j \in 1 .. n : payments'[j] = payments[j]
       /\ Window(payments', r.window) = W \cup {n + 1}
       /\ payments_sum(payments', W \cup {n + 1}) = r.amount + payments_sum(payments, W)
  <2>1. Booked(payments, r)
    BY <1>12, PaymentAppended
  <2> QED BY <1>8, <1>10, <1>11, <2>1 DEF Booked
<1>14. payments_sum(payments', W \cup {n + 1}) = total
  BY <1>2, <1>4, <1>5, <1>8, <1>10, <1>13
<1>15. CircuitHolds'
  <2>1. payments_sum(payments, Window(payments, circuit.window_start))' = total
    BY <1>9, <1>13, <1>14
  <2>2. \A j \in 1 .. n : payments[j].window <= r.window
    BY <1>2, <1>8, <1>11
  <2>3. \A j \in 1 .. n + 1 : payments'[j].window <= circuit'.window_start
    BY <1>4, <1>8, <1>9, <1>13, <2>2
  <2> QED BY <1>9, <1>13, <2>1, <2>3 DEF CircuitHolds
<1>16. WindowCap'
  <2> DEFINE V(p, i) == {j \in 1 .. i : p[j].window = p[i].window}
             capped(p, i) == 10 * payments_sum(p, V(p, i)) <= p[i].pool
  <2>1. V(payments', n + 1) = W \cup {n + 1}
    BY <1>13 DEF Window
  <2>2. \A i \in 1 .. n : V(payments', i) = V(payments, i)
    BY <1>13
  <2>3. ASSUME NEW i \in 1 .. n
        PROVE  payments_sum(payments', V(payments, i)) = payments_sum(payments, V(payments, i))
    <3>1. [j \in V(payments, i) |-> payments'[j].amount] = [j \in V(payments, i) |-> payments[j].amount]
      BY <1>13
    <3> QED BY <3>1 DEF payments_sum
  <2>4. \A i \in 1 .. n : capped(payments, i)
    BY <1>11 DEF WindowCap, payments_sum
  <2> HIDE DEF V
  <2>5. \A i \in 1 .. n : capped(payments', i)
    BY <1>13, <2>2, <2>3, <2>4
  <2>6. capped(payments', n + 1)
    BY <1>6, <1>8, <1>13, <1>14, <2>1
  <2> HIDE DEF capped
  <2>7. \A i \in 1 .. n + 1 : capped(payments', i)
    BY <2>5, <2>6
  <2> QED BY <1>13, <2>7 DEF capped, V, WindowCap, payments_sum
<1> QED BY <1>15, <1>16

-----------------------------------------------------------------------------
(* Execution, and the invariant of the whole.                              *)

\* A successful execution settles its escrow, which no other action can have settled.
LEMMA ExecuteSettles ==
    ASSUME Loose, ActionsKnown, ActionsHold, NEW u, NEW k \in ActionIds,
           execute_emergency_action_ok(u, k)
    PROVE  Loose' /\ ActionsKnown' /\ ActionsHold'
<1> DEFINE id(j) == actions[j].escrow_id
<1>1. \A j \in ActionIds : actions[j] \in ActionRecord /\ id(j) \in EscrowIds
  <2>1. \A j \in ActionIds : actions[j] \in ActionRecord
    BY DEF ActionsKnown, ActionIds
  <2> QED BY <2>1 DEF ActionRecord
<1>2. PICK x \in EscrowIds : x = id(k)
  BY <1>1
<1>3. /\ do_release(x, fee_bps, u)
      /\ failures' = [failures EXCEPT ![x] = NoFailure] /\ watchlist' = watchlist \ {x}
      /\ actions' = [actions EXCEPT ![k].executed = TRUE]
      /\ UNCHANGED <<now, escrow_count, fee_bps, fee_schedule, failed_params>>
  BY <1>2 DEF execute_emergency_action_ok, clear_failure, sessions, config
<1>4. fee_bps \in Int
  BY DEF Loose, MAX_FEE_BPS
<1>5. /\ escrows' \in [EscrowIds -> LooseRecord] /\ escrows'[x].status = "Released"
      /\ \A i \in EscrowIds : i > escrow_count' => escrows'[i] = Blank
      /\ RecordsEvolve /\ escrows[x].status = "Active"
  BY <1>3, <1>4, LooseRelease
<1>6. NoFailure \in FailureRecord
  BY LimitsAssumption DEF NoFailure, FailureRecord
<1>7. Loose'
  BY <1>3, <1>5, <1>6 DEF Loose
<1>8. /\ failures'[x] = NoFailure /\ \A i \in EscrowIds \ {x} : failures'[i] = failures[i]
      /\ x \notin watchlist' /\ \A i \in watchlist' : i \in watchlist
  BY <1>3 DEF Loose
<1>9. /\ actions' \in Seq(ActionRecord) /\ ActionIds' = ActionIds /\ actions'[k].executed
      /\ \A j \in ActionIds : /\ actions'[j].escrow_id = id(j) /\ params(actions'[j]) = params(actions[j])
                              /\ actions'[j].failed = actions[j].failed
                              /\ j # k => actions'[j].executed = actions[j].executed
  <2> DEFINE a == [actions[k] EXCEPT !.executed = TRUE]
  <2>1. /\ a \in ActionRecord /\ a.escrow_id = id(k) /\ params(a) = params(actions[k])
        /\ a.failed = actions[k].failed /\ a.executed
    BY <1>1 DEF ActionRecord, params
  <2>2. actions' = [actions EXCEPT ![k] = a]
    BY <1>3
  <2> HIDE DEF a
  <2>3. actions' \in Seq(ActionRecord) /\ Len(actions') = Len(actions)
    BY <2>1, <2>2 DEF ActionsKnown, ActionIds
  <2>4. \A j \in ActionIds : actions'[j] = IF j = k THEN a ELSE actions[j]
    BY <2>2 DEF ActionsKnown, ActionIds
  <2> QED BY <2>1, <2>3, <2>4 DEF ActionIds
<1>10. \A j \in ActionIds : Evolves(escrows[id(j)], escrows'[id(j)])
  BY <1>1, <1>5 DEF ActionsKnown, RecordsEvolve
<1>11. ActionsKnown'
  <2>1. \A j \in ActionIds' : escrows'[actions'[j].escrow_id].status # "None"
    BY <1>9, <1>10 DEF Evolves
  <2>2. ASSUME NEW j \in ActionIds', actions'[j].failed PROVE params(actions'[j]) \in failed_params'
    <3>1. j \in ActionIds /\ actions[j].failed /\ params(actions'[j]) = params(actions[j])
      BY <1>9, <2>2
    <3>2. params(actions[j]) \in failed_params
      BY <3>1 DEF ActionsKnown
    <3> QED BY <1>3, <3>1, <3>2
  <2> QED BY <1>9, <2>1, <2>2 DEF ActionsKnown, params
<1>12. LastResort'
  <2> SUFFICES ASSUME NEW j \in ActionIds, escrows'[id(j)].status = "Active"
               PROVE  failures'[id(j)].attempt_number = MaxAttempts
    BY <1>9 DEF LastResort
  <2>1. escrows[id(j)].status = "Active" /\ id(j) # x
    BY <1>5, <1>10 DEF Evolves
  <2>2. failures[id(j)].attempt_number = MaxAttempts
    BY <2>1 DEF ActionsHold, LastResort
  <2> QED BY <1>1, <1>8, <2>1, <2>2
<1>13. \A j \in ActionIds : actions[j].executed =>
            /\ escrows[id(j)].status = "Released"
            /\ failures[id(j)] = NoFailure /\ id(j) \notin watchlist
            /\ \A i \in ActionIds \ {j} : ~(actions[i].executed /\ id(i) = id(j))
  BY DEF ActionsHold, ExecutedIsSettled
<1>14. \A j \in ActionIds : actions[j].executed => id(j) # x
  BY <1>5, <1>13
<1>15. \A j \in ActionIds : actions'[j].executed =>
            \A i \in ActionIds \ {j} : ~(actions'[i].executed /\ id(i) = id(j))
  BY <1>2, <1>9, <1>13, <1>14
<1>16. \A j \in ActionIds : actions'[j].executed =>
            /\ escrows'[id(j)].status = "Released"
            /\ failures'[id(j)] = NoFailure /\ id(j) \notin watchlist'
  <2> SUFFICES ASSUME NEW j \in ActionIds, actions'[j].executed
               PROVE  /\ escrows'[id(j)].status = "Released"
                      /\ failures'[id(j)] = NoFailure /\ id(j) \notin watchlist'
    OBVIOUS
  <2>1. CASE j = k
    BY <1>2, <1>5, <1>8, <2>1
  <2>2. CASE j # k
    <3>1. actions[j].executed
      BY <1>9, <2>2
    <3>2. /\ id(j) # x /\ escrows[id(j)].status = "Released"
          /\ failures[id(j)] = NoFailure /\ id(j) \notin watchlist
      BY <1>13, <1>14, <3>1
    <3>3. escrows'[id(j)] = escrows[id(j)]
      BY <1>10, <3>2 DEF Evolves, Terminal
    <3> QED BY <1>1, <1>8, <3>2, <3>3
  <2> QED BY <2>1, <2>2
<1>17. ExecutedIsSettled'
  BY <1>9, <1>15, <1>16 DEF ExecutedIsSettled
<1> QED BY <1>7, <1>11, <1>12, <1>17 DEF ActionsHold

\* A successful execution respects the breaker.
LEMMA ExecutePays ==
    ASSUME Loose, ActionsKnown, CircuitHolds, WindowCap, NEW u, NEW k \in ActionIds,
           execute_emergency_action_ok(u, k)
    PROVE  CircuitHolds' /\ WindowCap'
<1>1. actions[k] \in ActionRecord
  BY DEF ActionsKnown, ActionIds
<1>2. PICK a \in Int : a = actions[k].amount
  BY <1>1 DEF ActionRecord
<1>3. /\ within_cap(a) /\ circuit' = [current_circuit EXCEPT !.released = @ + a]
      /\ payments' = Append(payments, [window |-> current_circuit.window_start, amount |-> a,
                                       pool |-> active_pool_total])
  BY <1>2 DEF execute_emergency_action_ok, executable
<1> QED BY <1>3, BreakerPays

LEMMA EmergencyInitial == EmergencyInit => EInv
<1> SUFFICES ASSUME EmergencyInit PROVE EInv
  OBVIOUS
<1>1. Loose /\ actions = << >> /\ payments = << >> /\ circuit = [window_start |-> 0, released |-> 0, set |-> FALSE]
  BY InitLoose DEF EmergencyInit, EmergencyStart, NoCircuit
<1>2. Len(actions) = 0 /\ Len(payments) = 0
  BY <1>1
<1>3. ActionsKnown /\ ActionsHold
  BY <1>1, <1>2 DEF ActionsKnown, ActionsHold, LastResort, ExecutedIsSettled, ActionIds
<1>4. CircuitHolds /\ WindowCap
  BY <1>1, <1>2 DEF CircuitHolds, WindowCap, Breaker
<1> QED BY <1>1, <1>3, <1>4 DEF EInv

\* A step that is not an emergency action: the contract's own calls, time, or nothing.
LEMMA OrdinaryKeeps ==
    ASSUME EInv, [Next]_vars, UNCHANGED evars
    PROVE  EInv'
<1>1. Loose' /\ RecordsEvolve /\ FailuresEvolve
  BY LooseStep DEF EInv
<1>2. UNCHANGED <<actions, failed_params, circuit, payments>>
  BY DEF evars
<1>3. ActionsKnown' /\ ActionsHold'
  BY <1>1, <1>2, ActionsEvolve DEF EInv
<1>4. CircuitHolds' /\ WindowCap'
  BY <1>2, CircuitKept DEF EInv
<1> QED BY <1>1, <1>3, <1>4 DEF EInv

\* A step of the break-glass path.
LEMMA EmergencyKeeps ==
    ASSUME EInv, Emergency
    PROVE  EInv'
<1> USE DEF EInv
<1>1. ASSUME UNCHANGED <<vars, circuit, payments>>, ActionsKnown', ActionsHold'
      PROVE  EInv'
  <2>1. Loose'
    BY <1>1, LooseStep
  <2>2. CircuitHolds' /\ WindowCap'
    BY <1>1, CircuitKept
  <2> QED BY <1>1, <2>1, <2>2
<1>2. ASSUME UNCHANGED <<vars, actions, failed_params, circuit, payments>>
      PROVE  EInv'
  <2>1. RecordsEvolve /\ FailuresEvolve
    BY <1>2, LooseStep
  <2>2. ActionsKnown' /\ ActionsHold'
    BY <1>2, <2>1, ActionsEvolve
  <2> QED BY <1>1, <1>2, <2>2
<1>3. ASSUME NEW S \in SUBSET Signers, set_emergency_signers(S) PROVE EInv'
  BY <1>2, <1>3 DEF set_emergency_signers
<1>4. ASSUME NEW u \in Responders, grant_emergency_admin(u) PROVE EInv'
  BY <1>2, <1>4 DEF grant_emergency_admin
<1>5. ASSUME NEW s \in Signers, NEW id \in EscrowIds, NEW r \in Reasons,
             propose_emergency_action(s, id, r)
      PROVE  EInv'
  <2>1. UNCHANGED <<vars, circuit, payments>>
    BY <1>5 DEF propose_emergency_action
  <2>2. ActionsKnown' /\ ActionsHold'
    BY <1>5, ProposeKeeps
  <2> QED BY <1>1, <2>1, <2>2
<1>6. ASSUME NEW s \in Signers, NEW k \in ActionIds, approve_emergency_action(s, k)
      PROVE  EInv'
  <2>1. UNCHANGED <<vars, circuit, payments>>
    BY <1>6 DEF approve_emergency_action
  <2>2. ActionsKnown' /\ ActionsHold'
    BY <1>6, ApproveKeeps
  <2> QED BY <1>1, <2>1, <2>2
<1>7. ASSUME NEW u \in Responders, NEW k \in ActionIds, execute_emergency_action_ok(u, k)
      PROVE  EInv'
  <2>1. Loose' /\ ActionsKnown' /\ ActionsHold'
    BY <1>7, ExecuteSettles
  <2>2. CircuitHolds' /\ WindowCap'
    BY <1>7, ExecutePays
  <2> QED BY <2>1, <2>2
<1>8. ASSUME NEW u \in Responders, NEW k \in ActionIds, execute_emergency_action_failed(u, k)
      PROVE  EInv'
  <2>1. UNCHANGED <<vars, circuit, payments>>
    BY <1>8 DEF execute_emergency_action_failed
  <2>2. ActionsKnown' /\ ActionsHold'
    BY <1>8, FailureKeeps
  <2> QED BY <1>1, <2>1, <2>2
<1> QED BY <1>3, <1>4, <1>5, <1>6, <1>7, <1>8 DEF Emergency

\* The strengthened invariant holds whatever calls of the two paths happen in which order.
THEOREM EmergencyInvariant == EmergencySpec => []EInv
<1>1. EInv /\ [EmergencyNext]_<<vars, evars>> => EInv'
  <2> SUFFICES ASSUME EInv, [EmergencyNext]_<<vars, evars>> PROVE EInv'
    OBVIOUS
  <2>1. Emergency \/ ([Next]_vars /\ UNCHANGED evars)
    BY DEF EmergencyNext, Ordinary
  <2> QED BY <2>1, EmergencyKeeps, OrdinaryKeeps
<1> QED BY <1>1, EmergencyInitial, PTL DEF EmergencySpec

-----------------------------------------------------------------------------
(* What the break-glass path promises.                                     *)

\* The emergency release of the escrow contract is a last resort, settles an escrow once and
\* completely, and stays within a tenth of the active pool in every window of the breaker.
THEOREM Containment == EmergencySpec => []EmergencyIsContained
<1>1. EInv => EmergencyIsContained
  BY DEF EInv, ActionsHold, EmergencyIsContained
<1> QED BY <1>1, EmergencyInvariant, PTL

\* The contract's record of failed parameters is permanent: no action that shares them with
\* a failed one is executed later, whoever proposes it.
THEOREM FailuresStay == EmergencySpec => FailureIsPermanent
<1> DEFINE Permanent ==
        \A k \in ActionIds :
          (actions'[k].executed /\ ~actions[k].executed) =>
             \A j \in ActionIds : actions[j].failed => params(actions[j]) # params(actions[k])
<1>1. EInv /\ [EmergencyNext]_<<vars, evars>> => [Permanent]_<<vars, evars>>
  <2> SUFFICES ASSUME EInv, EmergencyNext, NEW k \in ActionIds,
                      actions'[k].executed, ~actions[k].executed, NEW j \in ActionIds,
                      actions[j].failed
               PROVE  params(actions[j]) # params(actions[k])
    OBVIOUS
  <2>1. params(actions[j]) \in failed_params /\ actions \in Seq(ActionRecord)
    BY DEF EInv, ActionsKnown
  <2>2. actions[k] \in ActionRecord
    BY <2>1 DEF ActionIds
  <2>3. CASE Ordinary
    BY <2>3 DEF Ordinary, evars
  <2>4. CASE Emergency
    <3>1. ASSUME NEW u \in Responders, NEW i \in ActionIds, execute_emergency_action_ok(u, i)
          PROVE  params(actions[j]) # params(actions[k])
      <4>1. actions' = [actions EXCEPT ![i].executed = TRUE] /\ params(actions[i]) \notin failed_params
        BY <3>1 DEF execute_emergency_action_ok, attempted
      <4>2. i = k
        BY <2>1, <4>1 DEF ActionIds
      <4> QED BY <2>1, <4>1, <4>2
    <3>2. ASSUME NEW u \in Responders, NEW i \in ActionIds, execute_emergency_action_failed(u, i)
          PROVE  FALSE
      <4>1. actions' = [actions EXCEPT ![i].failed = TRUE]
        BY <3>2 DEF execute_emergency_action_failed
      <4> QED BY <2>1, <2>2, <4>1 DEF ActionIds, ActionRecord
    <3>3. ASSUME NEW s \in Signers, NEW i \in ActionIds, approve_emergency_action(s, i)
          PROVE  FALSE
      <4>1. actions' = [actions EXCEPT ![i].approvals = @ \cup {s}]
        BY <3>3 DEF approve_emergency_action
      <4> QED BY <2>1, <2>2, <4>1 DEF ActionIds, ActionRecord
    <3>4. ASSUME NEW s \in Signers, NEW id \in EscrowIds, NEW r \in Reasons,
                 propose_emergency_action(s, id, r)
          PROVE  FALSE
      <4>1. PICK a : actions' = Append(actions, a)
        BY <3>4 DEF propose_emergency_action
      <4> QED BY <2>1, <4>1 DEF ActionIds
    <3>5. ASSUME UNCHANGED actions PROVE FALSE
      BY <3>5
    <3> QED BY <2>4, <3>1, <3>2, <3>3, <3>4, <3>5 DEF Emergency, set_emergency_signers,
         grant_emergency_admin
  <2> QED BY <2>3, <2>4 DEF EmergencyNext
<1>2. EmergencySpec => [][Permanent]_<<vars, evars>>
  BY <1>1, EmergencyInvariant, PTL DEF EmergencySpec
<1> QED BY <1>2 DEF FailureIsPermanent
=============================================================================
