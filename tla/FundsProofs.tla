----------------------------- MODULE FundsProofs -----------------------------
(***************************************************************************)
(* Proofs about the contracts that hold tokens of their own, and what they *)
(* promise together: vesting, the bridge and operations across chains,     *)
(* performance bonds, allowances, streaks and upkeep, and the composition  *)
(* MCFunds with the contracts of PaymentProofs.                            *)
(***************************************************************************)
EXTENDS MCFunds, PaymentProofs

-----------------------------------------------------------------------------
(* Vesting. *)

ScheduleRecord ==
    [beneficiary : Beneficiaries, total : Nat, claimed : Nat, cliff_end : Nat, vesting_end : Nat,
     grant : Nat]

GrantRecord == [beneficiary : Beneficiaries, total : Nat, paid : Nat, returned : Nat]

\* vested at the time t
VestedAt(s, t) ==
    IF t < s.cliff_end + CliffTolerance THEN 0
    ELSE IF t >= s.vesting_end THEN s.total
    ELSE (s.total * (t - s.cliff_end - CliffTolerance)) \div (s.vesting_end - s.cliff_end)

\* What has vested grows with the time, up to the total.
LEMMA VestedGrows ==
  ASSUME NEW s \in ScheduleRecord, NEW t \in Nat, NEW u \in Nat, t <= u
  PROVE  /\ VestedAt(s, t) \in Nat /\ VestedAt(s, t) <= s.total
         /\ VestedAt(s, t) <= VestedAt(s, u)
<1>1. /\ s.total \in Nat /\ s.cliff_end \in Nat /\ s.vesting_end \in Nat /\ CliffTolerance \in Nat
  BY VestingAssumption DEF ScheduleRecord
<1> DEFINE since(v) == v - s.cliff_end - CliffTolerance
           d == s.vesting_end - s.cliff_end
           part(v) == (s.total * since(v)) \div d
<1>2. ASSUME NEW v \in Nat, ~(v < s.cliff_end + CliffTolerance), ~(v >= s.vesting_end)
      PROVE  /\ VestedAt(s, v) = part(v) /\ since(v) \in Nat /\ d \in Nat \ {0}
             /\ part(v) \in Nat /\ part(v) <= s.total
  <2>1. VestedAt(s, v) = part(v)
    BY <1>2 DEF VestedAt
  <2>2. since(v) \in Nat /\ d \in Nat \ {0} /\ since(v) <= d
    BY <1>1, <1>2
  <2> QED BY <1>1, <2>1, <2>2, ShareAtMost
<1>3. CASE t < s.cliff_end + CliffTolerance
  <2>1. VestedAt(s, t) = 0
    BY <1>3 DEF VestedAt
  <2>2. VestedAt(s, u) \in Nat
    <3>1. CASE ~(u < s.cliff_end + CliffTolerance) /\ ~(u >= s.vesting_end)
      BY <1>2, <3>1
    <3>2. CASE u < s.cliff_end + CliffTolerance \/ u >= s.vesting_end
      BY <1>1, <3>2 DEF VestedAt
    <3> QED BY <3>1, <3>2
  <2> QED BY <1>1, <2>1, <2>2
<1>4. CASE ~(t < s.cliff_end + CliffTolerance) /\ t >= s.vesting_end
  <2>1. VestedAt(s, t) = s.total
    BY <1>4 DEF VestedAt
  <2>2. ~(u < s.cliff_end + CliffTolerance) /\ u >= s.vesting_end
    BY <1>1, <1>4
  <2>3. VestedAt(s, u) = s.total
    BY <2>2 DEF VestedAt
  <2> QED BY <1>1, <2>1, <2>3
<1>5. CASE ~(t < s.cliff_end + CliffTolerance) /\ ~(t >= s.vesting_end)
  <2>1. ~(u < s.cliff_end + CliffTolerance)
    BY <1>1, <1>5
  <2>2. CASE u >= s.vesting_end
    <3>1. VestedAt(s, u) = s.total
      BY <2>1, <2>2 DEF VestedAt
    <3> QED BY <1>2, <1>5, <3>1
  <2>3. CASE ~(u >= s.vesting_end)
    <3>1. since(t) <= since(u) /\ since(t) \in Nat /\ since(u) \in Nat /\ d \in Nat \ {0}
      BY <1>1, <1>2, <1>5, <2>1, <2>3
    <3>2. part(t) <= part(u)
      BY <1>1, <3>1, ShareGrows
    <3> QED BY <1>2, <1>5, <2>1, <2>3, <3>2
  <2> QED BY <2>2, <2>3
<1> QED BY <1>3, <1>4, <1>5

VestingTypes ==
    /\ now \in Nat /\ next_schedule \in Nat /\ vesting_funds \in Int
    /\ schedules \in [DOMAIN schedules -> ScheduleRecord]
    /\ grants \in Seq(GrantRecord)

\* The schedule s stands for the grant it stems from, which nothing was returned of.
StandsForGrant(s) ==
    /\ s.grant \in DOMAIN grants
    /\ grants[s.grant].total = s.total
    /\ grants[s.grant].paid = s.claimed
    /\ grants[s.grant].returned = 0

\* A schedule stands for one grant, no grant has two, and what is claimed has vested.
VestingInv ==
    /\ VestingTypes
    /\ \A id \in DOMAIN schedules : StandsForGrant(schedules[id])
    /\ \A id, other \in DOMAIN schedules : schedules[id].grant = schedules[other].grant => id = other
    /\ \A id \in DOMAIN schedules : schedules[id].claimed <= VestedAt(schedules[id], now)
    /\ GrantsAreBounded

\* No grant, no payment: the books of vesting agree at first.
LEMMA VestingStarts == VestingInit => VestingInv
<1> SUFFICES ASSUME VestingInit PROVE VestingInv
  OBVIOUS
<1>1. DOMAIN schedules = {} /\ grants = << >>
  BY DEF VestingInit, NothingStored
<1>2. schedules \in [DOMAIN schedules -> ScheduleRecord]
  BY <1>1 DEF VestingInit, NothingStored
<1>3. GrantsAreBounded
  BY <1>1 DEF GrantsAreBounded
<1> QED BY <1>1, <1>2, <1>3, VestingAssumption DEF VestingInit, VestingInv, VestingTypes

\* What holds of the schedules goes on to hold while time passes and nobody calls.
LEMMA VestingRests ==
  ASSUME VestingInv, ClockMoves, UNCHANGED vesting_vars
  PROVE  VestingInv'
<1> USE DEF vesting_vars
<1>1. now \in Nat /\ now' \in Nat /\ now <= now'
  BY DEF VestingInv, VestingTypes, ClockMoves
<1>2. ASSUME NEW id \in DOMAIN schedules
      PROVE  schedules[id].claimed <= VestedAt(schedules[id], now')
  <2> PICK s \in ScheduleRecord : s = schedules[id]
    BY DEF VestingInv, VestingTypes
  <2>1. s.claimed <= VestedAt(s, now) /\ s.claimed \in Nat
    BY DEF VestingInv, ScheduleRecord
  <2>2. VestedAt(s, now) <= VestedAt(s, now') /\ VestedAt(s, now) \in Nat /\ VestedAt(s, now') \in Nat
    BY <1>1, VestedGrows
  <2> QED BY <2>1, <2>2
<1> QED BY <1>1, <1>2 DEF VestingInv, VestingTypes, StandsForGrant, GrantsAreBounded

\* A new grant with its schedule, under an unused id or in place of another schedule.
LEMMA GrantingKeepsBooks ==
  ASSUME VestingInv, UNCHANGED <<now, vesting_funds>>, next_schedule' \in Nat,
         NEW id \in Nat, NEW b \in Beneficiaries, NEW total \in Nat,
         NEW cliff_end \in Nat, NEW vesting_end \in Nat,
         granted(id, b, total, cliff_end, vesting_end)
  PROVE  VestingInv'
<1> DEFINE g == [beneficiary |-> b, total |-> total, paid |-> 0, returned |-> 0]
           s == [beneficiary |-> b, total |-> total, claimed |-> 0, cliff_end |-> cliff_end,
                 vesting_end |-> vesting_end, grant |-> Len(grants) + 1]
<1>1. /\ grants' = Append(grants, g)
      /\ schedules' = put(schedules, id, s)
  BY DEF granted
<1>2. g \in GrantRecord /\ s \in ScheduleRecord
  BY DEF GrantRecord, ScheduleRecord, VestingInv, VestingTypes
<1>3. /\ g.total = total /\ g.paid = 0 /\ g.returned = 0
      /\ s.total = total /\ s.claimed = 0 /\ s.grant = Len(grants) + 1
  OBVIOUS
<1> HIDE DEF g, s
<1>4. /\ DOMAIN schedules' = DOMAIN schedules \cup {id}
      /\ schedules'[id] = s
      /\ \A k \in DOMAIN schedules \ {id} : schedules'[k] = schedules[k]
  BY <1>1 DEF put
<1>5. /\ grants' \in Seq(GrantRecord) /\ Len(grants') = Len(grants) + 1
      /\ \A i \in DOMAIN grants : grants'[i] = grants[i]
      /\ grants'[Len(grants) + 1] = g
      /\ DOMAIN grants = 1 .. Len(grants) /\ DOMAIN grants' = 1 .. (Len(grants) + 1)
      /\ Len(grants) \in Nat
  BY <1>1, <1>2 DEF VestingInv, VestingTypes
<1>6. VestingTypes'
  <2>1. schedules' \in [DOMAIN schedules' -> ScheduleRecord]
    BY <1>1, <1>2 DEF VestingInv, VestingTypes, put
  <2> QED BY <1>5, <2>1 DEF VestingInv, VestingTypes
<1>7. ASSUME NEW k \in DOMAIN schedules' PROVE StandsForGrant(schedules[k])'
  <2>1. CASE k = id
    BY <1>3, <1>4, <1>5, <2>1 DEF StandsForGrant
  <2>2. CASE k # id
    BY <1>4, <1>5, <2>2 DEF StandsForGrant, VestingInv
  <2> QED BY <2>1, <2>2
<1>8. ASSUME NEW k \in DOMAIN schedules', NEW j \in DOMAIN schedules',
             schedules'[k].grant = schedules'[j].grant
      PROVE  k = j
  <2>1. \A i \in DOMAIN schedules : schedules[i].grant \in 1 .. Len(grants)
    BY <1>5 DEF VestingInv, StandsForGrant
  <2>2. \A i \in DOMAIN schedules : schedules[i].grant # Len(grants) + 1
    BY <1>5, <2>1
  <2> QED BY <1>3, <1>4, <1>8, <2>2 DEF VestingInv
<1>9. ASSUME NEW k \in DOMAIN schedules' PROVE schedules'[k].claimed <= VestedAt(schedules'[k], now')
  <2>1. CASE k = id
    <3>1. VestedAt(s, now) \in Nat
      BY <1>2, VestedGrows DEF VestingInv, VestingTypes
    <3> QED BY <1>3, <1>4, <2>1, <3>1
  <2>2. CASE k # id
    BY <1>4, <2>2 DEF VestingInv
  <2> QED BY <2>1, <2>2
<1>10. GrantsAreBounded'
  <2> SUFFICES ASSUME NEW i \in DOMAIN grants'
               PROVE  grants'[i].paid + grants'[i].returned <= grants'[i].total
    BY DEF GrantsAreBounded
  <2>1. CASE i = Len(grants) + 1
    BY <1>3, <1>5, <2>1
  <2>2. CASE i \in DOMAIN grants
    BY <1>5, <2>2 DEF VestingInv, GrantsAreBounded
  <2> QED BY <1>5, <2>1, <2>2
<1> QED BY <1>6, <1>7, <1>8, <1>9, <1>10 DEF VestingInv

\* What claim and revoke have in common: the schedule and the grant of one id change.
LEMMA GrantIsOwn ==
  ASSUME VestingInv, NEW id \in DOMAIN schedules
  PROVE  /\ schedules[id] \in ScheduleRecord /\ schedules[id].grant \in DOMAIN grants
         /\ grants[schedules[id].grant] \in GrantRecord
         /\ grants[schedules[id].grant].total = schedules[id].total
         /\ grants[schedules[id].grant].paid = schedules[id].claimed
         /\ schedules[id].claimed \in Nat /\ schedules[id].total \in Nat
         /\ vested(schedules[id]) = VestedAt(schedules[id], now)
         /\ VestedAt(schedules[id], now) \in Nat
         /\ schedules[id].claimed <= VestedAt(schedules[id], now)
         /\ VestedAt(schedules[id], now) <= schedules[id].total
         /\ \A k \in DOMAIN schedules \ {id} : schedules[k].grant # schedules[id].grant
<1>1. schedules[id] \in ScheduleRecord /\ now \in Nat
  BY DEF VestingInv, VestingTypes
<1>2. schedules[id].grant \in DOMAIN grants /\ grants \in Seq(GrantRecord)
  BY DEF VestingInv, VestingTypes, StandsForGrant
<1>3. grants[schedules[id].grant] \in GrantRecord
  BY <1>2
<1>4. vested(schedules[id]) = VestedAt(schedules[id], now)
  BY DEF vested, VestedAt
<1>5. schedules[id].claimed \in Nat /\ schedules[id].total \in Nat
  BY <1>1 DEF ScheduleRecord
<1> QED BY <1>1, <1>2, <1>3, <1>4, <1>5, VestedGrows DEF VestingInv, StandsForGrant

\* A claim pays what has vested since the last one, and no more.
LEMMA ClaimingKeepsBooks ==
  ASSUME VestingInv, NEW id \in DOMAIN schedules, claim(id)
  PROVE  VestingInv'
<1> DEFINE s == schedules[id]
           g == grants[s.grant]
           due == claimable_amount(s)
<1>1. /\ s \in ScheduleRecord /\ s.grant \in DOMAIN grants /\ g \in GrantRecord
      /\ g.total = s.total /\ g.paid = s.claimed /\ s.claimed \in Nat /\ s.total \in Nat
      /\ VestedAt(s, now) \in Nat /\ VestedAt(s, now) <= s.total
      /\ due = VestedAt(s, now) - s.claimed
      /\ \A k \in DOMAIN schedules \ {id} : schedules[k].grant # s.grant
  BY GrantIsOwn DEF claimable_amount
<1>2. due \in Nat /\ s.claimed + due = VestedAt(s, now)
  BY <1>1, GrantIsOwn
<1>3. PICK v \in Nat : v = VestedAt(s, now)
  BY <1>1
<1>4. /\ vesting_funds' = vesting_funds - due
      /\ UNCHANGED <<now, next_schedule>>
  BY DEF claim
<1>5. PICK s2 \in ScheduleRecord, g2 \in GrantRecord :
        /\ schedules' = [schedules EXCEPT ![id] = s2]
        /\ grants' = [grants EXCEPT ![s.grant] = g2]
        /\ s2.claimed = v /\ s2.grant = s.grant /\ s2.total = s.total /\ VestedAt(s2, now) = v
        /\ g2.paid = v /\ g2.total = g.total /\ g2.returned = g.returned
  <2> DEFINE s2 == [s EXCEPT !.claimed = v]
             g2 == [g EXCEPT !.paid = v]
  <2>1. s2 \in ScheduleRecord /\ g2 \in GrantRecord
    BY <1>1, <1>3 DEF ScheduleRecord, GrantRecord
  <2>2. /\ schedules' = [schedules EXCEPT ![id] = s2]
        /\ grants' = [grants EXCEPT ![s.grant] = g2]
    BY <1>1, <1>2, <1>3 DEF claim
  <2>3. /\ s2.claimed = v /\ s2.grant = s.grant /\ s2.total = s.total /\ VestedAt(s2, now) = v
        /\ g2.paid = v /\ g2.total = g.total /\ g2.returned = g.returned
    BY <1>1, <1>3 DEF ScheduleRecord, GrantRecord, VestedAt
  <2> QED BY <2>1, <2>2, <2>3
<1>6. g.returned = 0
  BY DEF VestingInv, StandsForGrant
<1>7. /\ DOMAIN schedules' = DOMAIN schedules /\ schedules'[id] = s2
      /\ \A k \in DOMAIN schedules \ {id} : schedules'[k] = schedules[k]
      /\ schedules' \in [DOMAIN schedules -> ScheduleRecord]
  BY <1>5 DEF VestingInv, VestingTypes
<1>8. /\ DOMAIN grants' = DOMAIN grants /\ grants'[s.grant] = g2
      /\ \A i \in DOMAIN grants \ {s.grant} : grants'[i] = grants[i]
      /\ grants' \in Seq(GrantRecord)
  BY <1>1, <1>5 DEF VestingInv, VestingTypes
<1> HIDE DEF s, g, due
<1>9. VestingTypes'
  BY <1>2, <1>4, <1>7, <1>8 DEF VestingInv, VestingTypes
<1>10. ASSUME NEW k \in DOMAIN schedules' PROVE StandsForGrant(schedules[k])'
  <2>1. CASE k = id
    BY <1>1, <1>5, <1>6, <1>7, <1>8, <2>1 DEF StandsForGrant
  <2>2. CASE k # id
    BY <1>1, <1>7, <1>8, <2>2 DEF StandsForGrant, VestingInv
  <2> QED BY <2>1, <2>2
<1>11. ASSUME NEW k \in DOMAIN schedules' PROVE schedules'[k].claimed <= VestedAt(schedules'[k], now')
  BY <1>3, <1>4, <1>5, <1>7 DEF VestingInv
<1>12. GrantsAreBounded'
  <2> SUFFICES ASSUME NEW i \in DOMAIN grants
               PROVE  grants'[i].paid + grants'[i].returned <= grants'[i].total
    BY <1>8 DEF GrantsAreBounded
  <2>1. CASE i = s.grant
    BY <1>1, <1>3, <1>5, <1>6, <1>8, <2>1
  <2>2. CASE i # s.grant
    BY <1>8, <2>2 DEF VestingInv, GrantsAreBounded
  <2> QED BY <2>1, <2>2
<1>13. ASSUME NEW k \in DOMAIN schedules', NEW j \in DOMAIN schedules',
              schedules'[k].grant = schedules'[j].grant
       PROVE  k = j
  <2>1. \A i \in DOMAIN schedules' : schedules'[i].grant = schedules[i].grant
    BY <1>5, <1>7 DEF s
  <2> QED BY <1>7, <1>13, <2>1 DEF VestingInv
<1> QED BY <1>9, <1>10, <1>11, <1>12, <1>13 DEF VestingInv

\* A revocation returns what is not claimed, and takes the grant's schedule away.
LEMMA RevokingKeepsBooks ==
  ASSUME VestingInv, NEW id \in DOMAIN schedules, revoke(id)
  PROVE  VestingInv'
<1> DEFINE s == schedules[id]
           g == grants[s.grant]
           left == unvested(s)
<1>1. /\ s \in ScheduleRecord /\ s.grant \in DOMAIN grants /\ g \in GrantRecord
      /\ g.total = s.total /\ g.paid = s.claimed /\ s.claimed \in Nat /\ s.total \in Nat
      /\ left = s.total - VestedAt(s, now) /\ left \in Nat /\ s.claimed + left <= s.total
      /\ \A k \in DOMAIN schedules \ {id} : schedules[k].grant # s.grant
  BY GrantIsOwn DEF unvested
<1>2. /\ schedules' = [k \in DOMAIN schedules \ {id} |-> schedules[k]]
      /\ grants' = [grants EXCEPT ![s.grant] = [g EXCEPT !.returned = left]]
      /\ vesting_funds' = vesting_funds - left
      /\ UNCHANGED <<now, next_schedule>>
  BY <1>1 DEF revoke, del
<1>3. /\ [g EXCEPT !.returned = left] \in GrantRecord
      /\ [g EXCEPT !.returned = left].paid = g.paid /\ [g EXCEPT !.returned = left].total = g.total
      /\ [g EXCEPT !.returned = left].returned = left
  BY <1>1 DEF GrantRecord
<1> PICK g2 : g2 = [g EXCEPT !.returned = left]
  OBVIOUS
<1> HIDE DEF left, g
<1>4. /\ DOMAIN schedules' = DOMAIN schedules \ {id}
      /\ \A k \in DOMAIN schedules' : schedules'[k] = schedules[k] /\ schedules[k].grant # s.grant
      /\ schedules' \in [DOMAIN schedules' -> ScheduleRecord]
  BY <1>1, <1>2 DEF VestingInv, VestingTypes
<1>5. /\ DOMAIN grants' = DOMAIN grants /\ grants'[s.grant] = g2
      /\ \A i \in DOMAIN grants \ {s.grant} : grants'[i] = grants[i]
      /\ grants' \in Seq(GrantRecord)
  BY <1>1, <1>2, <1>3 DEF VestingInv, VestingTypes
<1>6. VestingTypes'
  BY <1>1, <1>2, <1>4, <1>5 DEF VestingInv, VestingTypes
<1>7. ASSUME NEW k \in DOMAIN schedules' PROVE StandsForGrant(schedules[k])'
  BY <1>4, <1>5 DEF StandsForGrant, VestingInv
<1>8. GrantsAreBounded'
  BY <1>1, <1>3, <1>5 DEF VestingInv, GrantsAreBounded
<1> QED BY <1>2, <1>4, <1>6, <1>7, <1>8 DEF VestingInv

\* Every call of the vesting contract keeps its invariant.
LEMMA VestingStep ==
  ASSUME VestingInv, VestingNext
  PROVE  VestingInv'
<1>1. ASSUME NEW b \in Beneficiaries, NEW t \in GrantTotals, NEW c \in Cliffs, NEW d \in Durations,
             NEW s \in 0 .. MaxVestingTime, create_schedule(b, t, c, d, s)
      PROVE  VestingInv'
  <2> DEFINE begin == IF s = 0 THEN now ELSE s
  <2>1. begin \in Nat /\ c \in Nat /\ d \in Nat /\ t \in Nat /\ next_schedule + 1 \in Nat
    BY VestingAssumption DEF VestingInv, VestingTypes
  <2>2. /\ granted(next_schedule + 1, b, t, begin + c, begin + c + d)
        /\ next_schedule' = next_schedule + 1 /\ UNCHANGED <<now, vesting_funds>>
    BY <1>1 DEF create_schedule
  <2> HIDE DEF begin
  <2>3. begin + c \in Nat /\ begin + c + d \in Nat
    BY <2>1
  <2> QED BY <2>1, <2>2, <2>3, GrantingKeepsBooks
<1>2. ASSUME NEW leaf \in Leaves, claim_vesting_merkle(leaf)
      PROVE  VestingInv'
  <2> DEFINE begin == IF leaf.start = 0 THEN now ELSE leaf.start
  <2>1. leaf.beneficiary \in Beneficiaries /\ leaf.total \in Nat /\ leaf.cliff \in Nat
        /\ leaf.duration \in Nat /\ leaf.start \in Nat
    BY VestingAssumption
  <2>2. begin \in Nat /\ next_schedule \in Nat
    BY <2>1 DEF VestingInv, VestingTypes
  <2>3. /\ granted(next_schedule, leaf.beneficiary, leaf.total, begin + leaf.cliff,
                   begin + leaf.duration)
        /\ next_schedule' = next_schedule + 1 /\ UNCHANGED <<now, vesting_funds>>
    BY <1>2 DEF claim_vesting_merkle
  <2> HIDE DEF begin
  <2>4. next_schedule' \in Nat /\ begin + leaf.cliff \in Nat /\ begin + leaf.duration \in Nat
    BY <2>1, <2>2, <2>3
  <2> QED BY <2>1, <2>2, <2>3, <2>4, GrantingKeepsBooks
<1>3. ASSUME VestingTick PROVE VestingInv'
  BY <1>3, VestingRests DEF VestingTick, CloseLedger, ClockMoves
<1> QED BY <1>1, <1>2, <1>3, ClaimingKeepsBooks, RevokingKeepsBooks DEF VestingNext

\* What is claimed has vested by now, which is what ClaimsFollowTime says of it.
LEMMA VestingIsTimely == VestingInv => ClaimsFollowTime
<1> SUFFICES ASSUME VestingInv, NEW id \in DOMAIN schedules
             PROVE  LET s == schedules[id] IN
                    /\ now < s.cliff_end => s.claimed = 0
                    /\ (s.cliff_end <= now /\ now < s.vesting_end) =>
                           s.claimed * (s.vesting_end - s.cliff_end) <= s.total * (now - s.cliff_end)
  BY DEF ClaimsFollowTime
<1> PICK s \in ScheduleRecord : s = schedules[id]
  BY DEF VestingInv, VestingTypes
<1>1. /\ s.claimed \in Nat /\ s.total \in Nat /\ s.cliff_end \in Nat /\ s.vesting_end \in Nat
      /\ s.claimed <= VestedAt(s, now) /\ now \in Nat /\ CliffTolerance \in Nat
  BY VestingAssumption DEF VestingInv, VestingTypes, ScheduleRecord
<1>2. CASE now < s.cliff_end + CliffTolerance
  <2>1. s.claimed = 0
    BY <1>1, <1>2 DEF VestedAt
  <2>2. ASSUME s.cliff_end <= now /\ now < s.vesting_end
        PROVE  s.claimed * (s.vesting_end - s.cliff_end) <= s.total * (now - s.cliff_end)
    <3>1. PICK k \in Nat, d \in Nat : k = now - s.cliff_end /\ d = s.vesting_end - s.cliff_end
      BY <1>1, <2>2
    <3>2. s.total * k \in Nat /\ 0 * d = 0
      BY <1>1
    <3> QED BY <2>1, <3>1, <3>2
  <2> QED BY <2>1, <2>2
<1>3. CASE ~(now < s.cliff_end + CliffTolerance) /\ now < s.vesting_end
  <2>1. PICK x \in Nat, d \in Nat \ {0} :
          x = now - s.cliff_end - CliffTolerance /\ d = s.vesting_end - s.cliff_end /\ x <= d
    BY <1>1, <1>3
  <2>2. VestedAt(s, now) = (s.total * x) \div d
    BY <1>1, <1>3, <2>1 DEF VestedAt
  <2>3. PICK q \in Nat : q = VestedAt(s, now) /\ q * d <= s.total * x /\ s.claimed <= q
    BY <1>1, <2>1, <2>2, ShareAtMost
  <2>4. s.claimed * d <= q * d
    <3>1. PICK k \in Nat : q = s.claimed + k
      <4>1. q - s.claimed \in Nat
        BY <1>1, <2>3
      <4> QED BY <1>1, <4>1
    <3>2. q * d = s.claimed * d + k * d /\ k * d \in Nat /\ s.claimed * d \in Nat
      BY <1>1, <3>1
    <3> QED BY <3>2
  <2>5. s.total * x <= s.total * (now - s.cliff_end)
    <3>1. now - s.cliff_end = x + CliffTolerance
      BY <1>1, <2>1
    <3>2. s.total * (x + CliffTolerance) = s.total * x + s.total * CliffTolerance
      BY <1>1
    <3>3. s.total * x \in Nat /\ s.total * CliffTolerance \in Nat
      BY <1>1
    <3> QED BY <3>1, <3>2, <3>3
  <2>6. s.claimed * d <= s.total * (now - s.cliff_end)
    <3>1. /\ s.claimed * d \in Nat /\ q * d \in Nat /\ s.total * x \in Nat
          /\ s.total * (now - s.cliff_end) \in Int
      BY <1>1
    <3> QED BY <2>3, <2>4, <2>5, <3>1
  <2> QED BY <1>1, <1>3, <2>1, <2>6
<1>4. CASE ~(now < s.vesting_end) /\ ~(now < s.cliff_end + CliffTolerance)
  BY <1>1, <1>4
<1> QED BY <1>2, <1>3, <1>4

\* A revocation leaves in the contract what has vested.
LEMMA RevocationSpares ==
  ASSUME VestingInv, [VestingNext]_vesting_vars, NEW id \in DOMAIN schedules \ DOMAIN schedules'
  PROVE  LET s == schedules[id]
             over == now >= s.cliff_end + CliffTolerance /\ now >= s.vesting_end
             share == IF over THEN s.total ELSE s.claimed
         IN  vesting_funds - vesting_funds' <= s.total - share
<1>1. revoke(id)
  <2>1. ASSUME NEW k \in DOMAIN schedules, claim(k) PROVE FALSE
    BY <2>1 DEF claim
  <2>2. ASSUME NEW k \in DOMAIN schedules, revoke(k) PROVE k = id
    BY <2>2 DEF revoke, del
  <2>3. ASSUME NEW b \in Beneficiaries, NEW t \in GrantTotals, NEW c \in Cliffs, NEW d \in Durations,
               NEW s \in 0 .. MaxVestingTime, create_schedule(b, t, c, d, s)
        PROVE  FALSE
    BY <2>3 DEF create_schedule, granted, put
  <2>4. ASSUME NEW leaf \in Leaves, claim_vesting_merkle(leaf) PROVE FALSE
    BY <2>4 DEF claim_vesting_merkle, granted, put
  <2>5. CASE VestingTick \/ UNCHANGED vesting_vars
    BY <2>5 DEF VestingTick, vesting_vars
  <2> QED BY <2>1, <2>2, <2>3, <2>4, <2>5 DEF VestingNext
<1>2. vesting_funds - vesting_funds' = schedules[id].total - VestedAt(schedules[id], now)
  BY <1>1, GrantIsOwn DEF revoke, unvested, VestingInv, VestingTypes
<1>3. ASSUME now >= schedules[id].cliff_end + CliffTolerance, now >= schedules[id].vesting_end
      PROVE  VestedAt(schedules[id], now) = schedules[id].total
  <2>1. schedules[id].cliff_end \in Nat /\ now \in Nat
    BY DEF VestingInv, VestingTypes, ScheduleRecord
  <2> QED BY <1>3, <2>1, VestingAssumption DEF VestedAt
<1> QED BY <1>2, <1>3, GrantIsOwn

-----------------------------------------------------------------------------
(* Operations across chains. *)

OperationRecord ==
    [prepared : Nat, committed : Nat, expires_at : Nat, ended_at : Nat,
     phase : {"Prepared", "Committing", "RollingBack"} \cup Terminal]

\* An operation is committed with two votes, before it expires.
XChainInv ==
    /\ now \in Nat
    /\ xops \in [DOMAIN xops -> OperationRecord]
    /\ CommitsAreInTime

\* No operation across chains has begun.
LEMMA XChainStarts == XChainInit /\ now = 0 => XChainInv
BY DEF XChainInit, XChainInv, NothingStored, CommitsAreInTime

\* The invariant reads the operations and the clock, and an operation does not age.
LEMMA XChainRests ==
  ASSUME XChainInv, ClockMoves, UNCHANGED xchain_vars
  PROVE  XChainInv'
BY DEF XChainInv, ClockMoves, xchain_vars, CommitsAreInTime

\* One operation takes another record, as the steps of the protocol have it.
LEMMA OperationMoves ==
  ASSUME XChainInv, UNCHANGED now, NEW id \in DOMAIN xops, NEW op \in OperationRecord,
         xops' = [xops EXCEPT ![id] = op],
         op.phase = "Committed" => op.committed >= 2 /\ op.ended_at <= op.expires_at
  PROVE  XChainInv'
<1>1. /\ DOMAIN xops' = DOMAIN xops /\ xops'[id] = op
      /\ \A k \in DOMAIN xops \ {id} : xops'[k] = xops[k]
      /\ xops' \in [DOMAIN xops -> OperationRecord]
  BY DEF XChainInv
<1> QED BY <1>1 DEF XChainInv, CommitsAreInTime

\* Every call of the protocol across chains keeps its invariant.
LEMMA XChainStep ==
  ASSUME XChainInv, XChainNext
  PROVE  XChainInv'
<1> USE DEF Terminal
<1>1. ASSUME NEW r \in Relayers, NEW c \in BridgeChains, begin_bridge_atomic_op(r, c, Stellar)
      PROVE  XChainInv'
  <2> PICK id : id = <<c, Stellar, now>>
    OBVIOUS
  <2>1. PICK op \in OperationRecord :
          xops' = put(xops, id, op) /\ op.phase = "Prepared" /\ UNCHANGED now
    <3> DEFINE op == [prepared |-> 0, committed |-> 0, phase |-> "Prepared",
                      expires_at |-> now + XChainTimeout, ended_at |-> 0]
    <3>1. op \in OperationRecord
      BY CrossChainAssumption DEF OperationRecord, XChainInv
    <3>2. xops' = put(xops, <<c, Stellar, now>>, op) /\ op.phase = "Prepared" /\ UNCHANGED now
      BY <1>1 DEF begin_bridge_atomic_op
    <3> QED BY <3>1, <3>2
  <2>2. /\ DOMAIN xops' = DOMAIN xops \cup {id} /\ xops'[id] = op
        /\ \A k \in DOMAIN xops \ {id} : xops'[k] = xops[k]
        /\ xops' \in [DOMAIN xops' -> OperationRecord]
    BY <2>1 DEF put, XChainInv
  <2> QED BY <2>1, <2>2 DEF XChainInv, CommitsAreInTime
<1>2. ASSUME NEW r \in Relayers, NEW id \in DOMAIN xops, acknowledge_bridge_prepare(r, id)
      PROVE  XChainInv'
  <2> PICK op \in OperationRecord : op = xops[id]
    BY DEF XChainInv
  <2> DEFINE n == op.prepared + 1
             next == [op EXCEPT !.prepared = n, !.phase = IF n >= 2 THEN "Committing" ELSE op.phase]
  <2>1. next \in OperationRecord /\ (next.phase = "Committed" => op.phase = "Committed")
    <3>1. op.prepared \in Nat /\ n \in Nat
      BY DEF OperationRecord
    <3>2. CASE n >= 2
      BY <3>1, <3>2 DEF OperationRecord
    <3>3. CASE ~(n >= 2)
      <4>1. next = [op EXCEPT !.prepared = n, !.phase = op.phase]
        BY <3>3
      <4> QED BY <3>1, <4>1 DEF OperationRecord
    <3> QED BY <3>2, <3>3
  <2>2. xops' = [xops EXCEPT ![id] = next] /\ UNCHANGED now /\ op.phase # "Committed"
    BY <1>2 DEF acknowledge_bridge_prepare, check_not_terminal
  <2> QED BY <2>1, <2>2, OperationMoves
<1>3. ASSUME NEW r \in Relayers, NEW id \in DOMAIN xops, confirm_bridge_commit(r, id)
      PROVE  XChainInv'
  <2> PICK op \in OperationRecord : op = xops[id]
    BY DEF XChainInv
  <2> DEFINE n == op.committed + 1
             next == [op EXCEPT !.committed = n,
                                !.phase = IF n >= 2 THEN "Committed" ELSE op.phase,
                                !.ended_at = IF n >= 2 THEN now ELSE op.ended_at]
  <2>1. xops' = [xops EXCEPT ![id] = next] /\ UNCHANGED now
        /\ op.phase # "Committed" /\ now <= op.expires_at
    BY <1>3 DEF confirm_bridge_commit, check_not_terminal, check_not_expired
  <2>2. /\ next \in OperationRecord
        /\ next.phase = "Committed" => next.committed >= 2 /\ next.ended_at <= next.expires_at
    <3>1. op.committed \in Nat /\ n \in Nat /\ now \in Nat
      BY DEF OperationRecord, XChainInv
    <3>2. CASE n >= 2
      <4>1. next = [op EXCEPT !.committed = n, !.phase = "Committed", !.ended_at = now]
        BY <3>2
      <4> QED BY <2>1, <3>1, <3>2, <4>1 DEF OperationRecord
    <3>3. CASE ~(n >= 2)
      <4>1. next = [op EXCEPT !.committed = n, !.phase = op.phase, !.ended_at = op.ended_at]
        BY <3>3
      <4> QED BY <2>1, <3>1, <4>1 DEF OperationRecord
    <3> QED BY <3>2, <3>3
  <2> QED BY <2>1, <2>2, OperationMoves
<1>4. ASSUME NEW id \in DOMAIN xops, rollback_bridge_op(id)
      PROVE  XChainInv'
  <2> PICK op \in OperationRecord : op = xops[id]
    BY DEF XChainInv
  <2> DEFINE next == [op EXCEPT !.phase = "RollingBack"]
  <2>1. next \in OperationRecord /\ next.phase = "RollingBack"
    BY DEF OperationRecord
  <2>2. xops' = [xops EXCEPT ![id] = next] /\ UNCHANGED now
    BY <1>4 DEF rollback_bridge_op
  <2> QED BY <2>1, <2>2, OperationMoves
<1>5. ASSUME NEW id \in DOMAIN xops, confirm_bridge_rollback(id)
      PROVE  XChainInv'
  <2> PICK op \in OperationRecord : op = xops[id]
    BY DEF XChainInv
  <2> DEFINE next == [op EXCEPT !.phase = "RolledBack", !.ended_at = now]
  <2>1. next \in OperationRecord /\ next.phase = "RolledBack"
    BY DEF OperationRecord, XChainInv
  <2>2. xops' = [xops EXCEPT ![id] = next] /\ UNCHANGED now
    BY <1>5 DEF confirm_bridge_rollback
  <2> QED BY <2>1, <2>2, OperationMoves
<1>6. CASE \/ \E r \in Relayers, m \in Messages, e \in EscrowContracts : receive_and_fund_escrow(r, m, e)
           \/ \E r \in Relayers : set_relayer(r)
           \/ ChainControl
           \/ XChainTick
  <2>1. UNCHANGED xops /\ ClockMoves
    BY <1>6 DEF receive_and_fund_escrow, set_relayer, ChainControl, emergency_isolate_chain,
                lift_bridge_chain_isolation, XChainTick, CloseLedger, ClockMoves, xchain_vars
  <2> QED BY <2>1 DEF XChainInv, CommitsAreInTime, ClockMoves
<1> QED BY <1>1, <1>2, <1>3, <1>4, <1>5, <1>6 DEF XChainNext

\* No step of the protocol touches a finished operation.
LEMMA FinishedIsLeftAlone ==
  ASSUME XChainNext, NEW id \in DOMAIN xops, xops[id].phase \in Terminal
  PROVE  xops'[id] = xops[id]
<1> USE DEF Terminal
<1>1. ASSUME NEW r \in Relayers, NEW c \in BridgeChains, begin_bridge_atomic_op(r, c, Stellar)
      PROVE  xops'[id] = xops[id]
  BY <1>1 DEF begin_bridge_atomic_op, put
<1>2. ASSUME NEW r \in Relayers, NEW k \in DOMAIN xops, acknowledge_bridge_prepare(r, k)
      PROVE  xops'[id] = xops[id]
  BY <1>2 DEF acknowledge_bridge_prepare, check_not_terminal
<1>3. ASSUME NEW r \in Relayers, NEW k \in DOMAIN xops, confirm_bridge_commit(r, k)
      PROVE  xops'[id] = xops[id]
  BY <1>3 DEF confirm_bridge_commit, check_not_terminal
<1>4. ASSUME NEW k \in DOMAIN xops, rollback_bridge_op(k)
      PROVE  xops'[id] = xops[id]
  BY <1>4 DEF rollback_bridge_op, check_not_terminal
<1>5. ASSUME NEW k \in DOMAIN xops, confirm_bridge_rollback(k)
      PROVE  xops'[id] = xops[id]
  BY <1>5 DEF confirm_bridge_rollback
<1>6. CASE \/ \E r \in Relayers, m \in Messages, e \in EscrowContracts : receive_and_fund_escrow(r, m, e)
           \/ \E r \in Relayers : set_relayer(r)
           \/ ChainControl
           \/ XChainTick
  BY <1>6 DEF receive_and_fund_escrow, set_relayer, ChainControl, emergency_isolate_chain,
              lift_bridge_chain_isolation, XChainTick, xchain_vars
<1> QED BY <1>1, <1>2, <1>3, <1>4, <1>5, <1>6 DEF XChainNext

\* A relayed message is used up, so that no other takes its nonce.
MessagesInv ==
    /\ funded \in Seq([message : Messages, escrow : EscrowContracts])
    /\ \A i \in DOMAIN funded : <<funded[i].message.chain, funded[i].message.nonce>> \in used_nonces
    /\ MessagesFundOnce

\* No message has been received.
LEMMA MessagesStart == BridgeInit => MessagesInv
BY DEF BridgeInit, MessagesInv, MessagesFundOnce

\* The invariant reads the messages and the nonces only.
LEMMA MessagesRest ==
  ASSUME MessagesInv, UNCHANGED <<funded, used_nonces>>
  PROVE  MessagesInv'
BY DEF MessagesInv, MessagesFundOnce

\* A message funds an escrow only with a nonce that was not used.
LEMMA MessagesStep ==
  ASSUME MessagesInv, XChainNext
  PROVE  MessagesInv'
<1>1. ASSUME NEW r \in Relayers, NEW m \in Messages, NEW e \in EscrowContracts,
             receive_and_fund_escrow(r, m, e)
      PROVE  MessagesInv'
  <2>1. /\ funded' = Append(funded, [message |-> m, escrow |-> e])
        /\ used_nonces' = used_nonces \cup {<<m.chain, m.nonce>>}
        /\ <<m.chain, m.nonce>> \notin used_nonces
    BY <1>1 DEF receive_and_fund_escrow, nonce_is_new
  <2>2. /\ funded' \in Seq([message : Messages, escrow : EscrowContracts])
        /\ DOMAIN funded = 1 .. Len(funded) /\ DOMAIN funded' = 1 .. Len(funded) + 1
        /\ \A i \in DOMAIN funded : funded'[i] = funded[i]
        /\ funded'[Len(funded) + 1].message = m
        /\ Len(funded) \in Nat
    BY <2>1 DEF MessagesInv
  <2>3. ASSUME NEW i \in DOMAIN funded'
        PROVE  <<funded'[i].message.chain, funded'[i].message.nonce>> \in used_nonces'
    BY <2>1, <2>2 DEF MessagesInv
  <2>4. ASSUME NEW i \in DOMAIN funded', NEW j \in DOMAIN funded',
               funded'[i].message.chain = funded'[j].message.chain,
               funded'[i].message.nonce = funded'[j].message.nonce
        PROVE  i = j
    <3>1. \A k \in DOMAIN funded :
            <<funded[k].message.chain, funded[k].message.nonce>> # <<m.chain, m.nonce>>
      BY <2>1 DEF MessagesInv
    <3> QED BY <2>2, <2>4, <3>1 DEF MessagesInv, MessagesFundOnce
  <2> QED BY <2>2, <2>3, <2>4 DEF MessagesInv, MessagesFundOnce
<1>2. ASSUME NEW r \in Relayers, NEW c \in BridgeChains, begin_bridge_atomic_op(r, c, Stellar)
      PROVE  MessagesInv'
  BY <1>2, MessagesRest DEF begin_bridge_atomic_op, bridge_vars
<1>3. ASSUME NEW r \in Relayers, NEW id \in DOMAIN xops,
             acknowledge_bridge_prepare(r, id) \/ confirm_bridge_commit(r, id)
      PROVE  MessagesInv'
  BY <1>3, MessagesRest DEF acknowledge_bridge_prepare, confirm_bridge_commit, bridge_vars
<1>4. ASSUME NEW id \in DOMAIN xops, rollback_bridge_op(id) \/ confirm_bridge_rollback(id)
      PROVE  MessagesInv'
  BY <1>4, MessagesRest DEF rollback_bridge_op, confirm_bridge_rollback, bridge_vars
<1>5. CASE (\E r \in Relayers : set_relayer(r)) \/ ChainControl \/ XChainTick
  BY <1>5, MessagesRest DEF set_relayer, ChainControl, emergency_isolate_chain,
     lift_bridge_chain_isolation, XChainTick, bridge_vars
<1> QED BY <1>1, <1>2, <1>3, <1>4, <1>5 DEF XChainNext

-----------------------------------------------------------------------------
(* Bridged tokens and their routes. *)

RouteRecord ==
    [chain : BridgeChains \cup {Stellar}, amount : Nat, net : Int, escrow : EscrowContracts]

VaaRecord == [vaa : Vaas, amount : Nat, at : Nat]

BridgeTypes ==
    /\ now \in Nat
    /\ vaa_list \in Seq(VaaRecord)
    /\ IsFiniteSet(processed_vaas)
    /\ minted \in Int /\ purse \in Int /\ fees_taken \in Int
    /\ deposits_in \in [EscrowContracts -> Int]
    /\ router \in [escrow : EscrowContracts, fee : Nat, approved : BOOLEAN]
    /\ scheduled \subseteq [escrow : EscrowContracts, due : Nat]
    /\ IsFiniteSet(DOMAIN routes) /\ routes \in [DOMAIN routes -> RouteRecord]

\* What was minted is in the purse, with the escrow contracts, or was a fee; and every payment
\* was routed once.
BridgeInv == BridgeTypes /\ BridgedTokensAreConserved /\ RoutedOnce

\* Nothing has been bridged.
LEMMA BridgeStarts == BridgeInit /\ RouterInit => BridgeInv
<1> SUFFICES ASSUME BridgeInit, RouterInit PROVE BridgeInv
  OBVIOUS
<1>1. router \in [escrow : EscrowContracts, fee : Nat, approved : BOOLEAN]
  BY CrossChainAssumption DEF RouterInit
<1>2. DOMAIN routes = {} /\ routes \in [DOMAIN routes -> RouteRecord]
  BY DEF RouterInit, NothingStored
<1>3. IsFiniteSet({}) /\ Cardinality({}) = 0
  BY FS_EmptySet
<1>4. BridgeTypes
  BY <1>1, <1>2, <1>3 DEF BridgeInit, RouterInit, BridgeTypes
<1>5. SumFunctionOnSet(deposits_in, EscrowContracts) = 0
  BY CrossChainAssumption, SumZero DEF RouterInit
<1>6. DOMAIN vaa_list = {} /\ Len(vaa_list) = 0
  BY DEF BridgeInit
<1>7. BridgedTokensAreConserved
  BY <1>3, <1>5, <1>6, SumEmpty DEF BridgeInit, RouterInit, BridgedTokensAreConserved, vaa_total
<1>8. ASSUME NEW e \in EscrowContracts
      PROVE  deposits_in[e] = SumFunctionOnSet([v \in DOMAIN routes |-> routes[v].net],
                                               {v \in DOMAIN routes : routes[v].escrow = e})
  <2>1. {v \in DOMAIN routes : routes[v].escrow = e} = {}
    BY <1>2
  <2> QED BY <2>1, SumEmpty DEF RouterInit
<1>9. RoutedOnce
  BY <1>2, <1>3, <1>8 DEF RouterInit, RoutedOnce
<1> QED BY <1>4, <1>7, <1>9 DEF BridgeInv

\* Calls that leave tokens and routes alone.
LEMMA BridgeRests ==
  ASSUME BridgeInv, ClockMoves,
         UNCHANGED <<vaa_list, processed_vaas, minted, purse, fees_taken, deposits_in, routes,
                     route_count>>,
         router' \in [escrow : EscrowContracts, fee : Nat, approved : BOOLEAN],
         scheduled' \subseteq [escrow : EscrowContracts, due : Nat]
  PROVE  BridgeInv'
<1>1. BridgeTypes'
  BY DEF BridgeInv, BridgeTypes, ClockMoves
<1>2. BridgedTokensAreConserved'
  BY DEF BridgeInv, BridgedTokensAreConserved, vaa_total
<1>3. RoutedOnce'
  BY DEF BridgeInv, RoutedOnce
<1> QED BY <1>1, <1>2, <1>3 DEF BridgeInv

\* A message that is processed mints what it carries into the purse.
LEMMA MintingKeepsBooks ==
  ASSUME BridgeInv, NEW v \in Vaas, NEW a \in BridgeAmounts, NEW c \in BridgeChains,
         receive_bridged_asset(v, a, c)
  PROVE  BridgeInv'
<1> DEFINE entry == [vaa |-> v, amount |-> a, at |-> now]
           f == [i \in DOMAIN vaa_list |-> vaa_list[i].amount]
           g == [i \in DOMAIN vaa_list' |-> vaa_list'[i].amount]
           n == Len(vaa_list)
<1>1. /\ v \notin processed_vaas /\ processed_vaas' = processed_vaas \cup {v}
      /\ vaa_list' = Append(vaa_list, entry)
      /\ minted' = minted + a /\ purse' = purse + a
      /\ UNCHANGED <<now, router, routes, route_count, scheduled, fees_taken, deposits_in>>
  BY DEF receive_bridged_asset, vaa_is_new
<1>2. a \in Nat /\ entry \in VaaRecord /\ entry.amount = a
  BY CrossChainAssumption DEF BridgeInv, BridgeTypes, VaaRecord
<1> HIDE DEF entry
<1>3. /\ vaa_list' \in Seq(VaaRecord) /\ Len(vaa_list') = n + 1
      /\ DOMAIN vaa_list = 1 .. n /\ DOMAIN vaa_list' = 1 .. n + 1 /\ n \in Nat
      /\ \A i \in 1 .. n : vaa_list'[i] = vaa_list[i] /\ vaa_list[i] \in VaaRecord
      /\ vaa_list'[n + 1] = entry
  BY <1>1, <1>2, Appended DEF BridgeInv, BridgeTypes
<1>4. /\ IsFiniteSet(processed_vaas') /\ Cardinality(processed_vaas') = Cardinality(processed_vaas) + 1
  BY <1>1, FS_AddElement DEF BridgeInv, BridgeTypes
<1>5. SumFunctionOnSet(g, DOMAIN vaa_list') = SumFunctionOnSet(f, DOMAIN vaa_list) + a
  <2>1. /\ g[n + 1] = a /\ g[n + 1] \in Int
        /\ \A i \in 1 .. n : f[i] \in Int /\ g[i] = f[i]
    BY <1>2, <1>3 DEF VaaRecord
  <2> HIDE DEF f, g
  <2> QED BY <1>3, <2>1, SumNext
<1>6. BridgeTypes'
  BY <1>1, <1>2, <1>3, <1>4 DEF BridgeInv, BridgeTypes
<1>7. BridgedTokensAreConserved'
  <2>1. SumFunctionOnSet(deposits_in, EscrowContracts) \in Int
    BY CrossChainAssumption, SumType DEF BridgeInv, BridgeTypes
  <2>2. vaa_total' = vaa_total + a
    BY <1>5 DEF vaa_total
  <2>3. minted' = vaa_total'
    BY <1>1, <2>2 DEF BridgeInv, BridgedTokensAreConserved
  <2>4. Cardinality(processed_vaas') = Len(vaa_list')
    BY <1>3, <1>4 DEF BridgeInv, BridgedTokensAreConserved
  <2>5. minted' = purse' + fees_taken' + SumFunctionOnSet(deposits_in', EscrowContracts)
    <3>1. deposits_in' = deposits_in /\ fees_taken' = fees_taken
      BY <1>1
    <3>2. minted = purse + fees_taken + SumFunctionOnSet(deposits_in, EscrowContracts)
      BY DEF BridgeInv, BridgedTokensAreConserved
    <3>3. purse \in Int /\ fees_taken \in Int
      BY DEF BridgeInv, BridgeTypes
    <3> QED BY <1>1, <1>2, <2>1, <3>1, <3>2, <3>3
  <2> QED BY <2>3, <2>4, <2>5 DEF BridgedTokensAreConserved
<1>8. RoutedOnce'
  BY <1>1 DEF BridgeInv, RoutedOnce
<1> QED BY <1>6, <1>7, <1>8 DEF BridgeInv

\* A routed payment moves from the purse to one escrow contract and to the fees.
LEMMA RoutingKeepsBooks ==
  ASSUME BridgeInv, NEW c \in BridgeChains \cup {Stellar}, NEW v \in Vaas, NEW a \in BridgeAmounts,
         route_bridged(c, v, a)
  PROVE  BridgeInv'
<1> DEFINE e == router.escrow
<1>1. a \in Nat /\ router.fee \in Nat /\ e \in EscrowContracts
  BY CrossChainAssumption DEF BridgeInv, BridgeTypes
<1>2. calculate_fee(a) \in Int
  <2>1. PICK m \in Nat : m = a * router.fee
    BY <1>1
  <2>2. m \div 10000 \in Int
    OBVIOUS
  <2> QED BY <2>1, <2>2 DEF calculate_fee
<1>3. PICK fee \in Int, net \in Int, r \in RouteRecord :
        /\ v \notin DOMAIN routes
        /\ c # Stellar => v \in processed_vaas
        /\ purse' = purse - fee - net
        /\ fees_taken' = fees_taken + fee
        /\ deposits_in' = [deposits_in EXCEPT ![e] = deposits_in[e] + net]
        /\ r.chain = c /\ r.net = net /\ r.escrow = e
        /\ routes' = put(routes, v, r)
        /\ route_count' = route_count + 1
        /\ UNCHANGED <<now, router, scheduled, vaa_list, processed_vaas, minted>>
  <2> DEFINE fee == IF c = Stellar THEN calculate_fee(a) ELSE 0
             net == a - calculate_fee(a)
             r == [chain |-> c, amount |-> a, net |-> net, escrow |-> e]
  <2>1. fee \in Int /\ net \in Int
    BY <1>1, <1>2
  <2>2. r \in RouteRecord
    BY <1>1, <2>1 DEF RouteRecord
  <2> QED BY <2>1, <2>2 DEF route_bridged, net_amount, tx_is_new, bridge_vars
<1> HIDE DEF e
<1>4. /\ DOMAIN routes' = DOMAIN routes \cup {v} /\ routes'[v] = r
      /\ \A k \in DOMAIN routes : routes'[k] = routes[k]
      /\ IsFiniteSet(DOMAIN routes') /\ Cardinality(DOMAIN routes') = Cardinality(DOMAIN routes) + 1
      /\ routes' \in [DOMAIN routes' -> RouteRecord]
  <2>1. /\ DOMAIN routes' = DOMAIN routes \cup {v} /\ routes'[v] = r
        /\ \A k \in DOMAIN routes : routes'[k] = routes[k]
        /\ routes' \in [DOMAIN routes' -> RouteRecord]
    BY <1>3 DEF put, BridgeInv, BridgeTypes
  <2>2. IsFiniteSet(DOMAIN routes) /\ v \notin DOMAIN routes
    BY <1>3 DEF BridgeInv, BridgeTypes
  <2>3. /\ IsFiniteSet(DOMAIN routes \cup {v})
        /\ Cardinality(DOMAIN routes \cup {v}) = Cardinality(DOMAIN routes) + 1
    BY <2>2, FS_AddElement
  <2> QED BY <2>1, <2>3
<1>5. /\ deposits_in' \in [EscrowContracts -> Int]
      /\ SumFunctionOnSet(deposits_in', EscrowContracts) = SumFunctionOnSet(deposits_in, EscrowContracts) + net
      /\ SumFunctionOnSet(deposits_in, EscrowContracts) \in Int
      /\ deposits_in'[e] = deposits_in[e] + net
      /\ \A k \in EscrowContracts \ {e} : deposits_in'[k] = deposits_in[k]
  <2> PICK f \in [EscrowContracts -> Int] : f = deposits_in
    BY DEF BridgeInv, BridgeTypes
  <2> PICK w \in Int : w = f[e] + net
    BY <1>1
  <2>1. /\ SumFunctionOnSet([f EXCEPT ![e] = w], EscrowContracts)
             = SumFunctionOnSet(f, EscrowContracts) + (w - f[e])
        /\ SumFunctionOnSet(f, EscrowContracts) \in Int
    <3>1. IsFiniteSet(EscrowContracts)
      BY CrossChainAssumption
    <3> QED BY <1>1, <3>1, SumUpdate
  <2>2. w - f[e] = net
    BY <1>1
  <2> QED BY <1>1, <1>3, <2>1, <2>2
<1>6. BridgeTypes'
  <2>1. purse' \in Int /\ fees_taken' \in Int
    BY <1>3 DEF BridgeInv, BridgeTypes
  <2>2. UNCHANGED <<now, router, scheduled, vaa_list, processed_vaas, minted>>
    BY <1>3
  <2> QED BY <1>4, <1>5, <2>1, <2>2 DEF BridgeInv, BridgeTypes
<1>7. BridgedTokensAreConserved'
  <2>1. UNCHANGED vaa_total
    BY <1>3 DEF vaa_total
  <2>2. purse' + fees_taken' = purse + fees_taken - net /\ purse \in Int /\ fees_taken \in Int
    BY <1>3 DEF BridgeInv, BridgeTypes
  <2>3. UNCHANGED <<vaa_list, processed_vaas, minted>>
    BY <1>3
  <2>4. minted' = vaa_total' /\ Cardinality(processed_vaas') = Len(vaa_list')
    BY <2>1, <2>3 DEF BridgeInv, BridgedTokensAreConserved
  <2>5. minted' = purse' + fees_taken' + SumFunctionOnSet(deposits_in', EscrowContracts)
    <3>1. minted = purse + fees_taken + SumFunctionOnSet(deposits_in, EscrowContracts)
      BY DEF BridgeInv, BridgedTokensAreConserved
    <3>2. PICK sum \in Int : sum = SumFunctionOnSet(deposits_in, EscrowContracts)
      BY <1>5
    <3>3. purse' \in Int /\ fees_taken' \in Int
      BY <1>3, <2>2
    <3> QED BY <1>3, <1>5, <2>2, <2>3, <3>1, <3>2, <3>3
  <2> QED BY <2>4, <2>5 DEF BridgedTokensAreConserved
<1>8. ASSUME NEW k \in EscrowContracts
      PROVE  deposits_in'[k] = SumFunctionOnSet([x \in DOMAIN routes' |-> routes'[x].net],
                                                {x \in DOMAIN routes' : routes'[x].escrow = k})
  <2> DEFINE f == [x \in DOMAIN routes |-> routes[x].net]
             g == [x \in DOMAIN routes' |-> routes'[x].net]
             S == {x \in DOMAIN routes : routes[x].escrow = k}
             T == {x \in DOMAIN routes' : routes'[x].escrow = k}
  <2>1. /\ \A x \in S : f[x] \in Int /\ g[x] = f[x]
        /\ v \notin S /\ g[v] = net
    BY <1>3, <1>4 DEF BridgeInv, BridgeTypes, RouteRecord
  <2>2. IsFiniteSet(S)
    BY FS_Subset DEF BridgeInv, BridgeTypes
  <2>3. deposits_in[k] = SumFunctionOnSet(f, S)
    BY DEF BridgeInv, RoutedOnce
  <2>4. CASE k = e
    <3>1. T = S \cup {v}
      BY <1>3, <1>4, <2>4
    <3> HIDE DEF f, g, S, T
    <3>2. SumFunctionOnSet(g, S \cup {v}) = SumFunctionOnSet(f, S) + g[v]
      <4>1. v \notin S /\ g[v] \in Int
        BY <1>3, <2>1
      <4>2. \A x \in S : f[x] \in Int /\ g[x] = f[x]
        BY <2>1
      <4>3. GainsOne(S, f, g, v)
        BY <2>2, <4>1, <4>2 DEF GainsOne
      <4> QED BY ONLY <4>3, SumGains
    <3> QED BY <1>5, <2>1, <2>3, <2>4, <3>1, <3>2 DEF g, T
  <2>5. CASE k # e
    <3>1. T = S
      BY <1>3, <1>4, <2>5
    <3> HIDE DEF f, g, S, T
    <3>2. SumFunctionOnSet(g, S) = SumFunctionOnSet(f, S)
      BY <2>1, <2>2, SumSame
    <3> QED BY <1>5, <2>3, <2>5, <3>1, <3>2 DEF g, T
  <2> QED BY <2>4, <2>5
<1>9. RoutedOnce'
  <2>1. route_count' = Cardinality(DOMAIN routes')
    BY <1>3, <1>4 DEF BridgeInv, RoutedOnce
  <2>2. \A x \in DOMAIN routes' : routes'[x].chain # Stellar => x \in processed_vaas'
    BY <1>3, <1>4 DEF BridgeInv, RoutedOnce
  <2> QED BY <1>8, <2>1, <2>2 DEF RoutedOnce
<1> QED BY <1>6, <1>7, <1>9 DEF BridgeInv

\* Every call of the bridge and its router keeps their books.
LEMMA BridgeStep ==
  ASSUME BridgeInv, BridgeNext
  PROVE  BridgeInv'
<1> USE DEF ClockMoves
<1>1. /\ router \in [escrow : EscrowContracts, fee : Nat, approved : BOOLEAN]
      /\ scheduled \subseteq [escrow : EscrowContracts, due : Nat] /\ now \in Nat
  BY DEF BridgeInv, BridgeTypes
<1>2. CASE set_router(router_admin) \/ set_router(router_chain_admin)
  <2>1. UNCHANGED <<now, routes, route_count, scheduled, purse, fees_taken, deposits_in, bridge_vars>>
    BY <1>2 DEF set_router
  <2>2. CASE set_router(router_admin)
    <3>1. CASE \E f \in RouterFees : router' = [router EXCEPT !.fee = f]
      <4>1. router' \in [escrow : EscrowContracts, fee : Nat, approved : BOOLEAN]
        <5>1. PICK f \in RouterFees : router' = [router EXCEPT !.fee = f]
          BY <3>1
        <5>2. f \in Nat
          BY CrossChainAssumption
        <5> QED BY <1>1, <5>1, <5>2
      <4> QED BY <1>1, <2>1, <4>1, BridgeRests DEF bridge_vars
    <3>2. CASE \E b \in BOOLEAN : router' = [router EXCEPT !.approved = b]
      <4>1. router' \in [escrow : EscrowContracts, fee : Nat, approved : BOOLEAN]
        BY <1>1, <3>2
      <4> QED BY <1>1, <2>1, <4>1, BridgeRests DEF bridge_vars
    <3> QED BY <2>2, <3>1, <3>2 DEF set_router, router_admin
  <2>3. CASE set_router(router_chain_admin)
    <3>1. UNCHANGED router
      BY <2>3 DEF set_router, router_chain_admin
    <3> QED BY <1>1, <2>1, <3>1, BridgeRests DEF bridge_vars
  <2> QED BY <1>2, <2>2, <2>3
<1>3. ASSUME NEW e \in EscrowContracts, schedule_escrow_contract(e) PROVE BridgeInv'
  <2>1. scheduled' \subseteq [escrow : EscrowContracts, due : Nat]
    <3>1. [escrow |-> e, due |-> now + RouterDelay] \in [escrow : EscrowContracts, due : Nat]
      BY <1>1, CrossChainAssumption
    <3> QED BY <1>1, <1>3, <3>1 DEF schedule_escrow_contract
  <2> QED BY <1>1, <1>3, <2>1, BridgeRests DEF schedule_escrow_contract, bridge_vars
<1>4. ASSUME NEW call \in scheduled, set_escrow_contract(call) PROVE BridgeInv'
  <2>1. call.escrow \in EscrowContracts
    BY <1>1
  <2>2. /\ router' \in [escrow : EscrowContracts, fee : Nat, approved : BOOLEAN]
        /\ scheduled' \subseteq scheduled
    <3>1. router' = [router EXCEPT !.escrow = call.escrow] /\ scheduled' = scheduled \ {call}
      BY <1>4 DEF set_escrow_contract
    <3> QED BY <1>1, <2>1, <3>1
  <2> QED BY <1>1, <1>4, <2>2, BridgeRests DEF set_escrow_contract, bridge_vars
<1>5. ASSUME NEW c \in BridgeChains, set_bridge_chains(c) PROVE BridgeInv'
  BY <1>1, <1>5, BridgeRests DEF set_bridge_chains, router_vars
<1>6. CASE set_l2
  BY <1>1, <1>6, BridgeRests DEF set_l2, router_vars
<1>7. CASE BridgeTick
  BY <1>1, <1>7, BridgeRests DEF BridgeTick, CloseLedger, bridge_vars
<1> QED BY <1>2, <1>3, <1>4, <1>5, <1>6, <1>7, MintingKeepsBooks, RoutingKeepsBooks DEF BridgeNext

-----------------------------------------------------------------------------
(* Onboarding and rent. *)

\* A mentor counts as onboarded when every step is done.
OnboardingInv ==
    \A u \in DOMAIN onboarding.status :
        onboarding.status[u].complete <=> onboarding.status[u].done = Steps

OnboardingTypes ==
    /\ onboarding \in [status : [DOMAIN onboarding.status -> [done : SUBSET Steps, complete : BOOLEAN]],
                       extended : SUBSET Users]

RentTypes ==
    rent \in [balance : [DOMAIN rent.balance -> Nat], threshold : [DOMAIN rent.threshold -> Nat]]

\* A mentor is through its onboarding with all its steps done, and rents are amounts.
UpkeepInv == OnboardingTypes /\ OnboardingInv /\ RentTypes

\* No mentor is being onboarded and no contract's rent is known.
LEMMA UpkeepStarts == OnboardingInit /\ RentInit => UpkeepInv
BY DEF OnboardingInit, RentInit, UpkeepInv, OnboardingTypes, OnboardingInv, RentTypes, NothingStored

\* The invariant reads these two records only.
LEMMA UpkeepRests ==
  ASSUME UpkeepInv, UNCHANGED <<onboarding, rent>>
  PROVE  UpkeepInv'
BY DEF UpkeepInv, OnboardingTypes, OnboardingInv, RentTypes

\* The step of the onboarding contract: one mentor's status is written, with the flag it deserves.
LEMMA OnboardingMoves ==
  ASSUME UpkeepInv, NEW u \in Users, NEW s \in [done : SUBSET Steps, complete : BOOLEAN],
         s.complete <=> s.done = Steps, UNCHANGED rent,
         NEW ext \in SUBSET Users,
         onboarding' = [status |-> put(onboarding.status, u, s), extended |-> ext]
  PROVE  UpkeepInv'
<1>1. /\ onboarding'.status = put(onboarding.status, u, s) /\ onboarding'.extended = ext
  OBVIOUS
<1>2. /\ DOMAIN onboarding'.status = DOMAIN onboarding.status \cup {u}
      /\ onboarding'.status[u] = s
      /\ \A k \in DOMAIN onboarding.status \ {u} : onboarding'.status[k] = onboarding.status[k]
      /\ onboarding'.status \in [DOMAIN onboarding'.status -> [done : SUBSET Steps, complete : BOOLEAN]]
  BY <1>1 DEF put, UpkeepInv, OnboardingTypes
<1>3. OnboardingTypes'
  BY <1>1, <1>2 DEF OnboardingTypes
<1>4. OnboardingInv'
  BY <1>2 DEF OnboardingInv, UpkeepInv
<1> QED BY <1>3, <1>4 DEF UpkeepInv, RentTypes

\* Every step of an onboarding and every top-up keeps the invariant.
LEMMA UpkeepStep ==
  ASSUME UpkeepInv, UpkeepNext
  PROVE  UpkeepInv'
<1>1. ASSUME NEW u \in Users, init_mentor(u), UNCHANGED rent PROVE UpkeepInv'
  <2> DEFINE s == [done |-> {}, complete |-> FALSE]
  <2>1. s \in [done : SUBSET Steps, complete : BOOLEAN] /\ (s.complete <=> s.done = Steps)
    BY DEF Steps
  <2>2. onboarding' = [status |-> put(onboarding.status, u, s), extended |-> onboarding.extended \cup {u}]
    BY <1>1 DEF init_mentor, UpkeepInv, OnboardingTypes
  <2>3. onboarding.extended \cup {u} \in SUBSET Users
    BY DEF UpkeepInv, OnboardingTypes
  <2> QED BY <1>1, <2>1, <2>2, <2>3, OnboardingMoves
<1>2. ASSUME NEW u \in DOMAIN onboarding.status, NEW step \in Steps, complete_onboarding_step(u, step),
             UNCHANGED rent
      PROVE  UpkeepInv'
  <2> DEFINE done == onboarding.status[u].done \cup {step}
             s == [done |-> done, complete |-> remaining_steps(done) = {}]
  <2>1. done \in SUBSET Steps
    BY DEF UpkeepInv, OnboardingTypes
  <2>2. /\ s \in [done : SUBSET Steps, complete : BOOLEAN]
        /\ s.complete <=> s.done = Steps
    BY <2>1 DEF remaining_steps
  <2>3. onboarding' = [onboarding EXCEPT !.status = [onboarding.status EXCEPT ![u] = s]]
    BY <1>2 DEF complete_onboarding_step, UpkeepInv, OnboardingTypes
  <2> HIDE DEF s
  <2>4. /\ onboarding'.status = [onboarding.status EXCEPT ![u] = s]
        /\ onboarding'.extended = onboarding.extended
        /\ onboarding' = [status |-> onboarding'.status, extended |-> onboarding'.extended]
    BY <2>3 DEF UpkeepInv, OnboardingTypes
  <2>5. /\ DOMAIN onboarding'.status = DOMAIN onboarding.status /\ onboarding'.status[u] = s
        /\ \A k \in DOMAIN onboarding.status \ {u} : onboarding'.status[k] = onboarding.status[k]
        /\ onboarding'.status \in [DOMAIN onboarding'.status -> [done : SUBSET Steps, complete : BOOLEAN]]
    BY <2>2, <2>4 DEF UpkeepInv, OnboardingTypes
  <2>6. OnboardingTypes'
    BY <2>4, <2>5 DEF UpkeepInv, OnboardingTypes
  <2>7. OnboardingInv'
    BY <2>2, <2>5 DEF UpkeepInv, OnboardingInv
  <2> QED BY <1>2, <2>6, <2>7 DEF UpkeepInv, RentTypes
<1>3. ASSUME NEW c \in {"c1"}, UNCHANGED onboarding,
             \/ \E a \in RentAmounts : deposit_rent(c, a)
             \/ auto_topup(c)
             \/ \E t \in RentThresholds : set_auto_topup_threshold(c, t)
      PROVE  UpkeepInv'
  <2>1. OnboardingTypes' /\ OnboardingInv'
    BY <1>3 DEF UpkeepInv, OnboardingTypes, OnboardingInv
  <2>2. \A k : stored(rent.balance, k, 0) \in Nat /\ stored(rent.threshold, k, 3 * MonthlyRent) \in Nat
    BY RewardsAssumption DEF UpkeepInv, RentTypes, stored
  <2>3. ASSUME NEW x \in Nat
        PROVE  /\ [rent EXCEPT !.balance = put(rent.balance, c, x)] =
                      [balance |-> put(rent.balance, c, x), threshold |-> rent.threshold]
               /\ [rent EXCEPT !.threshold = put(rent.threshold, c, x)] =
                      [balance |-> rent.balance, threshold |-> put(rent.threshold, c, x)]
               /\ put(rent.balance, c, x) \in [DOMAIN put(rent.balance, c, x) -> Nat]
               /\ put(rent.threshold, c, x) \in [DOMAIN put(rent.threshold, c, x) -> Nat]
               /\ rent.balance \in [DOMAIN rent.balance -> Nat]
               /\ rent.threshold \in [DOMAIN rent.threshold -> Nat]
    BY DEF UpkeepInv, RentTypes, put
  <2>7. ASSUME NEW b, NEW t, b \in [DOMAIN b -> Nat], t \in [DOMAIN t -> Nat],
               rent' = [balance |-> b, threshold |-> t]
        PROVE  RentTypes'
    <3>1. rent'.balance = b /\ rent'.threshold = t
      BY <2>7
    <3> QED BY <2>7, <3>1 DEF RentTypes
  <2>4. ASSUME NEW a \in RentAmounts, deposit_rent(c, a) PROVE RentTypes'
    <3>1. PICK x \in Nat : x = stored(rent.balance, c, 0) + a
      BY <2>2, RewardsAssumption
    <3>2. rent' = [balance |-> put(rent.balance, c, x), threshold |-> rent.threshold]
      BY <2>3, <2>4, <3>1 DEF deposit_rent
    <3> QED BY <2>3, <2>7, <3>1, <3>2
  <2>5. ASSUME auto_topup(c) PROVE RentTypes'
    <3>1. PICK x \in Nat : x = topped_up(stored(rent.threshold, c, 3 * MonthlyRent))
      BY <2>2, RewardsAssumption DEF topped_up
    <3>2. rent' = [balance |-> put(rent.balance, c, x), threshold |-> rent.threshold]
      BY <2>3, <2>5, <3>1 DEF auto_topup
    <3> QED BY <2>3, <2>7, <3>1, <3>2
  <2>6. ASSUME NEW t \in RentThresholds, set_auto_topup_threshold(c, t) PROVE RentTypes'
    <3>1. t \in Nat
      BY RewardsAssumption
    <3>2. rent' = [balance |-> rent.balance, threshold |-> put(rent.threshold, c, t)]
      BY <2>3, <2>6, <3>1 DEF set_auto_topup_threshold
    <3> QED BY <2>3, <2>7, <3>1, <3>2
  <2> QED BY <1>3, <2>1, <2>4, <2>5, <2>6 DEF UpkeepInv
<1> QED BY <1>1, <1>2, <1>3 DEF UpkeepNext

\* A balance that grows by anything but a deposit was topped up above the threshold.
LEMMA TopupIsEnough ==
  ASSUME UpkeepInv, UpkeepNext, NEW c \in DOMAIN rent'.balance,
         ~(UNCHANGED rent),
         rent'.balance[c] > stored(rent.balance, c, 0),
         rent'.balance[c] - stored(rent.balance, c, 0) \notin RentAmounts
  PROVE  rent'.balance[c] >= stored(rent.threshold, c, 3 * MonthlyRent)
<1>1. \A k : stored(rent.balance, k, 0) \in Nat /\ stored(rent.threshold, k, 3 * MonthlyRent) \in Nat
  BY RewardsAssumption DEF UpkeepInv, RentTypes, stored
<1>2. rent.balance \in [DOMAIN rent.balance -> Nat] /\ DOMAIN rent = {"balance", "threshold"}
  BY DEF UpkeepInv, RentTypes
<1>3. ASSUME NEW d \in {"c1"}, NEW x \in Nat, rent' = [rent EXCEPT !.balance = put(rent.balance, d, x)]
      PROVE  c = d /\ rent'.balance[c] = x
  <2>1. rent'.balance = put(rent.balance, d, x)
    BY <1>2, <1>3 DEF UpkeepInv, RentTypes
  <2>2. ASSUME c # d PROVE FALSE
    <3>1. c \in DOMAIN rent.balance /\ rent'.balance[c] = rent.balance[c]
      BY <2>1, <2>2 DEF put
    <3> QED BY <1>2, <3>1 DEF stored
  <2> QED BY <2>1, <2>2 DEF put
<1>4. ASSUME NEW d \in {"c1"}, NEW a \in RentAmounts, deposit_rent(d, a) PROVE FALSE
  <2>1. PICK x \in Nat : x = stored(rent.balance, d, 0) + a
    BY <1>1, RewardsAssumption
  <2>2. c = d /\ rent'.balance[c] = x
    BY <1>3, <1>4, <2>1 DEF deposit_rent
  <2> QED BY <1>1, <2>1, <2>2, RewardsAssumption
<1>5. ASSUME NEW d \in {"c1"}, auto_topup(d)
      PROVE  rent'.balance[c] >= stored(rent.threshold, c, 3 * MonthlyRent)
  <2>1. PICK x \in Nat : x = topped_up(stored(rent.threshold, d, 3 * MonthlyRent))
    BY <1>1, RewardsAssumption DEF topped_up
  <2>2. c = d /\ rent'.balance[c] = x
    BY <1>3, <1>5, <2>1 DEF auto_topup
  <2> QED BY <1>1, <2>1, <2>2, RewardsAssumption DEF topped_up
<1>6. ASSUME NEW d \in {"c1"}, NEW t \in RentThresholds, set_auto_topup_threshold(d, t) PROVE FALSE
  <2>1. rent'.balance = rent.balance
    BY <1>2, <1>6 DEF set_auto_topup_threshold, UpkeepInv, RentTypes
  <2> QED BY <1>2, <2>1 DEF stored
<1> QED BY <1>4, <1>5, <1>6 DEF UpkeepNext

-----------------------------------------------------------------------------
(* Performance bonds. *)

BondRecord == [amount : Nat, posted_at : Nat, last_slash_at : Nat, slash_count : Nat]
SlashRecord == [amount : Nat, at : Nat, nth : Nat]

BondTypes ==
    /\ now \in Nat
    /\ IsFiniteSet(DOMAIN bonds.bond) /\ DOMAIN bonds.bond \subseteq Users
    /\ DOMAIN bonds.bond \subseteq DOMAIN bonds.posted
    /\ bonds \in [bond : [DOMAIN bonds.bond -> BondRecord], index : Seq(Users),
                  slashes : [Users -> Seq(SlashRecord)], slash_count : [Users -> Nat],
                  perfect : [Users -> Nat], cooldown : Nat, held : Int, insured : Int,
                  posted : [DOMAIN bonds.posted -> Nat]]

slash_amounts(h) == [i \in DOMAIN h |-> h[i].amount]

\* The record b of a bond of which p was posted, with the mentor's slashes h: the last of them are
\* the ones it counts, with what is left they make up what was posted, and the bond has been left
\* alone since the latest.
BondIsSound(b, h, p) ==
    LET before == Len(h) - b.slash_count IN
    /\ b.slash_count <= Len(h) /\ b.last_slash_at <= clock
    /\ b.slash_count > 0 => b.last_slash_at > 0
    /\ b.amount + SumFunctionOnSet(slash_amounts(h), before + 1 .. Len(h)) = p
    /\ \A i \in before + 1 .. Len(h) : h[i].nth = i - before /\ h[i].at <= b.last_slash_at

bond_amounts == [u \in DOMAIN bonds.bond |-> bonds.bond[u].amount]

\* The contract holds the sum of the bonds, lists every bonded mentor, and each bond is sound.
BondsInv ==
    /\ BondTypes
    /\ bonds.held = SumFunctionOnSet(bond_amounts, DOMAIN bonds.bond)
    /\ \A u \in DOMAIN bonds.bond :
         /\ \E i \in DOMAIN bonds.index : bonds.index[i] = u
         /\ BondIsSound(bonds.bond[u], bonds.slashes[u], bonds.posted[u])
    /\ \A u \in Users : Len(bonds.slashes[u]) = bonds.slash_count[u]

\* The books of each bond, taken together, are BondsAreHeld.
LEMMA BondsAreSound == BondsInv => BondsAreHeld
BY DEF BondsInv, BondIsSound, BondsAreHeld, bond_amounts, slash_amounts, BondTypes

\* No bond is posted.
LEMMA BondsStart == BondsInit /\ now = 0 => BondsInv
<1> SUFFICES ASSUME BondsInit, now = 0 PROVE BondsInv
  OBVIOUS
<1>1. /\ bonds.bond = NothingStored /\ bonds.index = << >> /\ bonds.slashes = [u \in Users |-> << >>]
      /\ bonds.slash_count = [u \in Users |-> 0] /\ bonds.perfect = [u \in Users |-> 0]
      /\ bonds.cooldown = 1 /\ bonds.held = 0 /\ bonds.insured = 0 /\ bonds.posted = NothingStored
  BY DEF BondsInit
<1>2. DOMAIN bonds.bond = {} /\ DOMAIN bonds.posted = {}
  BY <1>1 DEF NothingStored
<1>3. BondTypes
  <2>1. IsFiniteSet({})
    BY FS_EmptySet
  <2>2. [u \in Users |-> << >>] \in [Users -> Seq(SlashRecord)]
    OBVIOUS
  <2>3. NothingStored \in [{} -> BondRecord] /\ NothingStored \in [{} -> Nat]
    BY DEF NothingStored
  <2> QED BY <1>1, <1>2, <2>1, <2>2, <2>3 DEF BondTypes, BondsInit
<1>4. SumFunctionOnSet(bond_amounts, {}) = 0
  BY SumEmpty
<1> QED BY <1>1, <1>2, <1>3, <1>4 DEF BondsInv

\* A bond's books do not depend on the time but for the last slash, which is past.
LEMMA BondsRest ==
  ASSUME BondsInv, ClockMoves, UNCHANGED bonds
  PROVE  BondsInv'
<1>1. now \in Nat /\ now' \in Nat /\ now <= now'
  BY DEF BondsInv, BondTypes, ClockMoves
<1>2. BondTypes'
  BY <1>1 DEF BondsInv, BondTypes
<1>3. UNCHANGED bond_amounts
  BY DEF bond_amounts
<1>4. ASSUME NEW u \in DOMAIN bonds.bond
      PROVE  BondIsSound(bonds.bond[u], bonds.slashes[u], bonds.posted[u])'
  <2>1. BondIsSound(bonds.bond[u], bonds.slashes[u], bonds.posted[u])
    BY DEF BondsInv
  <2>2. bonds.bond[u].last_slash_at <= clock => bonds.bond[u].last_slash_at <= clock'
    BY <1>1 DEF clock, BondsInv, BondTypes, BondRecord
  <2> QED BY <2>1, <2>2 DEF BondIsSound, slash_amounts
<1> QED BY <1>2, <1>3, <1>4 DEF BondsInv

SlashOf(b, a) == [amount |-> a, at |-> clock, nth |-> b.slash_count + 1]

\* A slash keeps a bond and its slashes together what was posted.
LEMMA SlashingKeepsBond ==
  ASSUME now \in Nat, NEW b \in BondRecord, NEW h \in Seq(SlashRecord), NEW p,
         BondIsSound(b, h, p), NEW a \in Nat, a <= b.amount,
         NEW e, e = SlashOf(b, a),
         NEW h2, h2 = Append(h, e),
         NEW c, c = slashed_bond(b, a)
  PROVE  c \in BondRecord /\ h2 \in Seq(SlashRecord) /\ BondIsSound(c, h2, p)
<1>1. /\ b.amount \in Nat /\ b.slash_count \in Nat /\ clock \in Nat /\ clock > 0
      /\ b.last_slash_at <= clock /\ b.last_slash_at \in Nat
  BY DEF BondRecord, clock, BondIsSound
<1>2. c = [amount |-> b.amount - a, posted_at |-> b.posted_at, last_slash_at |-> clock,
           slash_count |-> b.slash_count + 1]
  BY DEF slashed_bond, BondRecord
<1>3. c \in BondRecord
  BY <1>1, <1>2 DEF BondRecord
<1>4. e \in SlashRecord /\ e.amount = a /\ e.at = clock /\ e.nth = b.slash_count + 1
  BY <1>1 DEF SlashRecord, SlashOf
<1>5. /\ h2 \in Seq(SlashRecord) /\ Len(h) \in Nat /\ Len(h2) = Len(h) + 1
      /\ DOMAIN h = 1 .. Len(h) /\ DOMAIN h2 = 1 .. Len(h) + 1
      /\ \A i \in 1 .. Len(h) : h2[i] = h[i] /\ h[i] \in SlashRecord
      /\ h2[Len(h) + 1] = e
  BY <1>4, Appended
<1>6. PICK n \in Nat, m \in Nat : n = Len(h) /\ m = Len(h) - b.slash_count + 1 /\ 1 <= m /\ m <= n + 1
  <2>1. b.slash_count <= Len(h)
    BY DEF BondIsSound
  <2>2. PICK n : n = Len(h)
    OBVIOUS
  <2>3. PICK s : s = b.slash_count
    OBVIOUS
  <2>4. n \in Nat /\ s \in Nat /\ s <= n
    BY <1>1, <1>5, <2>1, <2>2, <2>3
  <2>5. PICK m : m = n - s + 1
    OBVIOUS
  <2>6. m \in Nat /\ 1 <= m /\ m <= n + 1
    BY ONLY <2>4, <2>5
  <2> QED BY <2>2, <2>3, <2>4, <2>5, <2>6
<1> DEFINE f == slash_amounts(h)
           g == slash_amounts(h2)
<1>7. \A i \in m .. n : f[i] \in Int /\ g[i] = f[i]
  <2>1. \A i \in m .. n : i \in DOMAIN h /\ i \in DOMAIN h2 /\ h2[i] = h[i] /\ h[i].amount \in Nat
    <3>1. \A x \in SlashRecord : x.amount \in Nat
      BY DEF SlashRecord
    <3>2. \A i \in m .. n : i \in 1 .. Len(h) /\ i \in 1 .. Len(h) + 1
      BY <1>6
    <3> QED BY <1>5, <3>1, <3>2
  <2> QED BY <2>1 DEF slash_amounts
<1>8. g[n + 1] = a
  BY <1>4, <1>5, <1>6 DEF slash_amounts
<1>9. /\ SumFunctionOnSet(g, m .. n + 1) = SumFunctionOnSet(f, m .. n) + a
      /\ SumFunctionOnSet(f, m .. n) \in Int
  <2>1. m \in Int /\ n \in Int /\ m <= n + 1 /\ g[n + 1] \in Int
    BY <1>6, <1>8
  <2> HIDE DEF f, g
  <2>2. /\ SumFunctionOnSet(g, m .. n + 1) = SumFunctionOnSet(f, m .. n) + g[n + 1]
        /\ SumFunctionOnSet(f, m .. n) \in Int
    BY <1>7, <2>1, SumExtends
  <2> QED BY <1>8, <2>2
<1>10. b.amount + SumFunctionOnSet(f, m .. n) = p
  BY <1>6 DEF BondIsSound
<1> HIDE DEF f, g
<1>11. Len(h2) - c.slash_count + 1 = m /\ Len(h2) = n + 1
  BY <1>1, <1>2, <1>5, <1>6
<1>12. c.amount + SumFunctionOnSet(g, m .. n + 1) = p
  BY <1>1, <1>2, <1>9, <1>10
<1>13. \A i \in m .. n : h[i].nth = i - (m - 1) /\ h[i].at <= b.last_slash_at
  <2>1. PICK k : k = Len(h) - b.slash_count
    OBVIOUS
  <2>2. \A i \in k + 1 .. Len(h) : h[i].nth = i - k /\ h[i].at <= b.last_slash_at
    BY <2>1 DEF BondIsSound
  <2>3. k + 1 = m /\ k = m - 1 /\ Len(h) = n
    BY <1>1, <1>5, <1>6, <2>1
  <2> QED BY ONLY <2>2, <2>3
<1>14. ASSUME NEW i \in m .. n + 1
       PROVE  h2[i].nth = i - (m - 1) /\ h2[i].at <= c.last_slash_at
  <2>1. CASE i = n + 1
    <3>1. h2[i] = e /\ b.slash_count + 1 = n + 1 - (m - 1) /\ c.last_slash_at = clock
      BY <1>1, <1>2, <1>5, <1>6, <2>1
    <3>2. h2[i].nth = b.slash_count + 1 /\ h2[i].at = clock
      BY <1>4, <3>1
    <3>3. h2[i].nth = i - (m - 1)
      <4>1. i - (m - 1) = n + 1 - (m - 1)
        BY <2>1
      <4> QED BY <3>1, <3>2, <4>1, Zenon
    <3>4. clock <= clock
      BY <1>1
    <3> QED BY <3>1, <3>2, <3>3, <3>4
  <2>2. CASE i \in m .. n
    <3>1. h2[i] = h[i] /\ h[i].at \in Nat
      BY <1>5, <1>6, <2>2 DEF SlashRecord
    <3>2. h[i].nth = i - (m - 1) /\ h[i].at <= b.last_slash_at /\ c.last_slash_at = clock
      BY <1>2, <1>13, <2>2
    <3>3. h[i].at <= clock
      <4>1. PICK x \in Nat, y \in Nat, z \in Nat : x = h[i].at /\ y = b.last_slash_at /\ z = clock
        BY <1>1, <3>1
      <4> QED BY <1>1, <3>2, <4>1
    <3> QED BY <3>1, <3>2, <3>3
  <2>3. i = n + 1 \/ i \in m .. n
    BY <1>6
  <2> QED BY <2>1, <2>2, <2>3
<1>15. BondIsSound(c, h2, p)
  <2>1. c.slash_count <= Len(h2) /\ c.last_slash_at <= clock /\ c.last_slash_at > 0
    BY <1>1, <1>2, <1>5, <1>6
  <2>2. Len(h2) - c.slash_count = m - 1 /\ (m - 1) + 1 = m
    BY <1>1, <1>2, <1>5, <1>6
  <2>3. c.amount + SumFunctionOnSet(slash_amounts(h2), Len(h2) - c.slash_count + 1 .. Len(h2)) = p
    BY <1>11, <1>12 DEF g
  <2>4. \A i \in Len(h2) - c.slash_count + 1 .. Len(h2) :
          h2[i].nth = i - (Len(h2) - c.slash_count) /\ h2[i].at <= c.last_slash_at
    BY <1>11, <1>14, <2>2
  <2> QED BY <2>1, <2>3, <2>4 DEF BondIsSound
<1> QED BY <1>3, <1>5, <1>15

\* What BondsInv says of the contract's record.
BondStore(r) ==
    /\ r \in [bond : [DOMAIN r.bond -> BondRecord], index : Seq(Users),
              slashes : [Users -> Seq(SlashRecord)], slash_count : [Users -> Nat],
              perfect : [Users -> Nat], cooldown : Nat, held : Int, insured : Int,
              posted : [DOMAIN r.posted -> Nat]]
    /\ IsFiniteSet(DOMAIN r.bond) /\ DOMAIN r.bond \subseteq Users
    /\ DOMAIN r.bond \subseteq DOMAIN r.posted
    /\ r.held = SumFunctionOnSet([u \in DOMAIN r.bond |-> r.bond[u].amount], DOMAIN r.bond)

BondsIndexed(bond, index) == \A u \in DOMAIN bond : \E i \in DOMAIN index : index[i] = u

BondsSound(bond, slashes, posted) ==
    \A u \in DOMAIN bond : BondIsSound(bond[u], slashes[u], posted[u])

SlashesCounted(slashes, count) == \A u \in Users : Len(slashes[u]) = count[u]

\* What the invariant says of the record of one mentor.
LEMMA BondsInvSays ==
  BondsInv <=> /\ now \in Nat /\ BondStore(bonds) /\ BondsIndexed(bonds.bond, bonds.index)
               /\ BondsSound(bonds.bond, bonds.slashes, bonds.posted)
               /\ SlashesCounted(bonds.slashes, bonds.slash_count)
<1>1. BondTypes /\ bonds.held = SumFunctionOnSet(bond_amounts, DOMAIN bonds.bond)
        <=> now \in Nat /\ BondStore(bonds)
  BY DEF BondTypes, BondStore, bond_amounts
<1>2. (\A u \in DOMAIN bonds.bond :
         /\ \E i \in DOMAIN bonds.index : bonds.index[i] = u
         /\ BondIsSound(bonds.bond[u], bonds.slashes[u], bonds.posted[u]))
      <=> /\ BondsIndexed(bonds.bond, bonds.index)
          /\ BondsSound(bonds.bond, bonds.slashes, bonds.posted)
  BY DEF BondsIndexed, BondsSound
<1>3. (\A u \in Users : Len(bonds.slashes[u]) = bonds.slash_count[u])
      <=> SlashesCounted(bonds.slashes, bonds.slash_count)
  BY DEF SlashesCounted
<1> QED BY <1>1, <1>2, <1>3 DEF BondsInv

\* Every call of the bond contract keeps its invariant.
LEMMA BondsStep ==
  ASSUME BondsInv, BondsNext
  PROVE  BondsInv'
<1>1. /\ bonds.bond \in [DOMAIN bonds.bond -> BondRecord] /\ bonds.index \in Seq(Users)
      /\ bonds.slashes \in [Users -> Seq(SlashRecord)] /\ bonds.slash_count \in [Users -> Nat]
      /\ bonds.perfect \in [Users -> Nat] /\ bonds.cooldown \in Nat /\ bonds.held \in Int
      /\ bonds.insured \in Int /\ bonds.posted \in [DOMAIN bonds.posted -> Nat]
      /\ IsFiniteSet(DOMAIN bonds.bond) /\ DOMAIN bonds.bond \subseteq Users
      /\ DOMAIN bonds.bond \subseteq DOMAIN bonds.posted
      /\ now \in Nat /\ clock \in Nat
  BY DEF BondsInv, BondTypes, clock
<1>2. /\ bonds.held = SumFunctionOnSet(bond_amounts, DOMAIN bonds.bond)
      /\ \A u \in DOMAIN bonds.bond :
           /\ bonds.bond[u] \in BondRecord /\ bonds.bond[u].amount \in Nat
           /\ \E i \in DOMAIN bonds.index : bonds.index[i] = u
           /\ BondIsSound(bonds.bond[u], bonds.slashes[u], bonds.posted[u])
      /\ \A u \in Users : Len(bonds.slashes[u]) = bonds.slash_count[u]
  BY <1>1 DEF BondsInv, BondRecord
<1>0. /\ BondStore(bonds) /\ BondsIndexed(bonds.bond, bonds.index)
      /\ BondsSound(bonds.bond, bonds.slashes, bonds.posted)
      /\ SlashesCounted(bonds.slashes, bonds.slash_count)
  BY BondsInvSays
<1>3. ASSUME BondTick PROVE BondsInv'
  <2>1. ClockMoves /\ UNCHANGED bonds
    BY <1>3 DEF BondTick, CloseLedger, ClockMoves
  <2> QED BY <2>1, BondsRest
<1>4. ASSUME UNCHANGED now, NEW r, bonds' = r, BondStore(r), BondsIndexed(r.bond, r.index),
             BondsSound(r.bond, r.slashes, r.posted), SlashesCounted(r.slashes, r.slash_count)
      PROVE  BondsInv'
  <2>1. BondTypes'
    BY <1>1, <1>4 DEF BondTypes, BondStore
  <2>2. bond_amounts' = [u \in DOMAIN r.bond |-> r.bond[u].amount]
    BY <1>4 DEF bond_amounts
  <2>3. \A u \in DOMAIN r.bond : BondIsSound(r.bond[u], r.slashes[u], r.posted[u])'
    <3>1. UNCHANGED clock
      BY <1>4 DEF clock
    <3> QED BY <1>4, <3>1 DEF BondIsSound, BondsSound
  <2>4. bonds'.held = SumFunctionOnSet(bond_amounts', DOMAIN bonds'.bond)
    BY <1>4, <2>2 DEF BondStore
  <2> QED BY <1>4, <2>1, <2>3, <2>4 DEF BondsInv, BondsIndexed, SlashesCounted
<1>5. ASSUME UNCHANGED now, NEW c \in CooldownChoices, set_param(c) PROVE BondsInv'
  <2>1. c \in Nat
    BY RewardsAssumption
  <2>2. PICK r : r = [bonds EXCEPT !.cooldown = c]
    OBVIOUS
  <2>3. /\ r.bond = bonds.bond /\ r.index = bonds.index /\ r.slashes = bonds.slashes
        /\ r.posted = bonds.posted /\ r.slash_count = bonds.slash_count /\ r.held = bonds.held
        /\ BondStore(r)
    BY <1>0, <2>1, <2>2 DEF BondStore
  <2> QED BY <1>0, <1>4, <1>5, <2>2, <2>3 DEF set_param
<1>6. ASSUME UNCHANGED now, NEW u \in Users, record_perfect_session(u) PROVE BondsInv'
  <2>1. bonds.perfect[u] + 1 \in Nat
    BY <1>1
  <2>2. PICK r : r = [bonds EXCEPT !.perfect[u] = @ + 1]
    OBVIOUS
  <2>3. /\ r.bond = bonds.bond /\ r.index = bonds.index /\ r.slashes = bonds.slashes
        /\ r.posted = bonds.posted /\ r.slash_count = bonds.slash_count /\ r.held = bonds.held
        /\ BondStore(r)
    BY <1>0, <2>1, <2>2 DEF BondStore
  <2> QED BY <1>0, <1>4, <1>6, <2>2, <2>3 DEF record_perfect_session
<1>7. ASSUME UNCHANGED now, NEW u \in Users, NEW a \in BondAmounts, post_bond(u, a) PROVE BondsInv'
  <2>1. a \in Nat /\ u \notin DOMAIN bonds.bond
    BY <1>7, RewardsAssumption DEF post_bond
  <2>2. PICK b : b = [amount |-> a, posted_at |-> clock, last_slash_at |-> 0, slash_count |-> 0]
    OBVIOUS
  <2>17. b \in BondRecord /\ b.amount = a /\ b.last_slash_at = 0 /\ b.slash_count = 0
    BY <1>1, <2>1, <2>2 DEF BondRecord
  <2>3. PICK m : m = put(bonds.bond, u, b)
    OBVIOUS
  <2>4. PICK q : q = put(bonds.posted, u, a)
    OBVIOUS
  <2>5. /\ m \in [DOMAIN bonds.bond \cup {u} -> BondRecord]
        /\ DOMAIN m = DOMAIN bonds.bond \cup {u} /\ m[u] = b
        /\ \A x \in DOMAIN bonds.bond : x # u => m[x] = bonds.bond[x]
    <3>1. bonds.bond \in [DOMAIN bonds.bond -> BondRecord]
      BY <1>1
    <3> QED BY <3>1, <2>3, <2>17 DEF put
  <2>6. /\ q \in [DOMAIN bonds.posted \cup {u} -> Nat] /\ q[u] = a
        /\ DOMAIN q = DOMAIN bonds.posted \cup {u}
        /\ \A x \in DOMAIN bonds.posted : x # u => q[x] = bonds.posted[x]
    <3>1. bonds.posted \in [DOMAIN bonds.posted -> Nat]
      BY <1>1
    <3> QED BY <3>1, <2>1, <2>4 DEF put
  <2> DEFINE f == [v \in DOMAIN m |-> m[v].amount]
  <2>7. SumFunctionOnSet(f, DOMAIN m) = bonds.held + a
    <3>1. \A v \in DOMAIN bonds.bond : bond_amounts[v] \in Int /\ f[v] = bond_amounts[v]
      BY <1>2, <2>1, <2>5 DEF bond_amounts
    <3>2. f[u] = a
      BY <2>17, <2>5
    <3> HIDE DEF f
    <3>3. f[u] \in Int /\ IsFiniteSet(DOMAIN bonds.bond) /\ u \notin DOMAIN bonds.bond
      BY <1>1, <2>1, <3>2
    <3>4. SumFunctionOnSet(f, DOMAIN bonds.bond \cup {u})
            = SumFunctionOnSet(bond_amounts, DOMAIN bonds.bond) + f[u]
      BY <3>1, <3>3, SumAdd
    <3> QED BY <1>2, <2>5, <3>2, <3>4
  <2>8. PICK j : j = Append(bonds.index, u)
    OBVIOUS
  <2>9. /\ j \in Seq(Users) /\ Len(bonds.index) \in Nat
        /\ DOMAIN bonds.index = 1 .. Len(bonds.index) /\ DOMAIN j = 1 .. Len(bonds.index) + 1
        /\ \A i \in 1 .. Len(bonds.index) : j[i] = bonds.index[i]
        /\ j[Len(bonds.index) + 1] = u
    BY <1>1, <2>8, Appended
  <2>10. PICK r : r = [bond |-> m, index |-> j, slashes |-> bonds.slashes,
                       slash_count |-> bonds.slash_count, perfect |-> bonds.perfect,
                       cooldown |-> bonds.cooldown, held |-> bonds.held + a,
                       insured |-> bonds.insured, posted |-> q]
    OBVIOUS
  <2>11. bonds' = r
    <3>1. bonds = [bond |-> bonds.bond, index |-> bonds.index, slashes |-> bonds.slashes,
                   slash_count |-> bonds.slash_count, perfect |-> bonds.perfect,
                   cooldown |-> bonds.cooldown, held |-> bonds.held, insured |-> bonds.insured,
                   posted |-> bonds.posted]
      BY <1>0 DEF BondStore
    <3>2. bonds' = [bonds EXCEPT !.bond = m, !.index = j, !.held = @ + a, !.posted = q]
      BY <1>7, <2>2, <2>3, <2>4, <2>8 DEF post_bond
    <3>3. bonds' = [bond |-> m, index |-> j, slashes |-> bonds.slashes,
                       slash_count |-> bonds.slash_count, perfect |-> bonds.perfect,
                       cooldown |-> bonds.cooldown, held |-> bonds.held + a,
                       insured |-> bonds.insured, posted |-> q]
      BY <3>1, <3>2
    <3> QED BY <2>10, <3>3
  <2>12. /\ r.bond = m /\ r.slashes = bonds.slashes /\ r.slash_count = bonds.slash_count
         /\ r.held = bonds.held + a /\ r.posted = q /\ r.index = j
    BY <2>10
  <2>13. BondStore(r)
    <3>4. IsFiniteSet(DOMAIN m)
      <4>1. IsFiniteSet(DOMAIN bonds.bond \cup {u})
        BY <1>1, FS_AddElement
      <4> QED BY <4>1, <2>5
    <3>1. IsFiniteSet(DOMAIN m) /\ DOMAIN m \subseteq Users /\ bonds.held + a \in Int
      BY <1>1, <2>1, <2>5, <3>4
    <3>2. r.held = SumFunctionOnSet([v \in DOMAIN r.bond |-> r.bond[v].amount], DOMAIN r.bond)
      BY <2>7, <2>12
    <3>3. r \in [bond : [DOMAIN m -> BondRecord], index : Seq(Users),
              slashes : [Users -> Seq(SlashRecord)], slash_count : [Users -> Nat],
              perfect : [Users -> Nat], cooldown : Nat, held : Int, insured : Int,
              posted : [DOMAIN q -> Nat]]
      BY <1>1, <2>5, <2>6, <2>9, <2>10, <3>1
    <3>5. DOMAIN m \subseteq DOMAIN q
      BY <1>1, <2>5, <2>6
    <3> QED BY <2>12, <3>1, <3>2, <3>3, <3>5 DEF BondStore
  <2>14. BondsIndexed(m, j)
    <3> SUFFICES ASSUME NEW v \in DOMAIN m PROVE \E i \in DOMAIN j : j[i] = v
      BY DEF BondsIndexed
    <3>1. CASE v = u
      BY <2>9, <3>1
    <3>2. CASE v # u
      <4>1. PICK i \in DOMAIN bonds.index : bonds.index[i] = v
        BY <1>2, <2>5, <3>2
      <4>2. i \in DOMAIN j /\ j[i] = v
        BY <2>9, <4>1
      <4> QED BY <4>2
    <3> QED BY <3>1, <3>2
  <2>15. ASSUME NEW v \in DOMAIN m PROVE BondIsSound(m[v], bonds.slashes[v], q[v])
    <3>1. CASE v = u
      <4>1. PICK h \in Seq(SlashRecord), n \in Nat : h = bonds.slashes[v] /\ n = Len(h)
        BY <1>1, <3>1
      <4>2. b.slash_count <= Len(h) /\ b.last_slash_at <= clock /\ ~(b.slash_count > 0)
        BY <1>1, <2>17, <4>1
      <4>3. n - 0 + 1 .. n = {}
        OBVIOUS
      <4>4. SumFunctionOnSet(slash_amounts(h), n - 0 + 1 .. n) = 0
        BY <4>3, SumEmpty
      <4>5. a + 0 = a
        BY <2>1
      <4>6. BondIsSound(b, h, a)
        BY <2>17, <4>1, <4>2, <4>3, <4>4, <4>5 DEF BondIsSound
      <4> QED BY <2>5, <2>6, <3>1, <4>1, <4>6
    <3>2. CASE v # u
      <4>1. v \in DOMAIN bonds.bond /\ m[v] = bonds.bond[v]
        BY <2>5, <3>2
      <4>2. q[v] = bonds.posted[v]
        BY <1>1, <2>6, <3>2, <4>1
      <4> QED BY <1>2, <4>1, <4>2
    <3> QED BY <3>1, <3>2
  <2>16. BondsSound(r.bond, r.slashes, r.posted)
    BY <2>12, <2>15 DEF BondsSound
  <2> QED BY <1>0, <1>4, <1>7, <2>11, <2>12, <2>13, <2>14, <2>16
<1>8. ASSUME UNCHANGED now, NEW u \in DOMAIN bonds.bond, release_bond(u) PROVE BondsInv'
  <2>1. PICK x \in Nat : x = bonds.bond[u].amount
    BY <1>2
  <2>2. PICK m : m = del(bonds.bond, u)
    OBVIOUS
  <2>3. /\ m \in [DOMAIN bonds.bond \ {u} -> BondRecord] /\ DOMAIN m = DOMAIN bonds.bond \ {u}
        /\ \A v \in DOMAIN m : m[v] = bonds.bond[v]
    <3>1. bonds.bond \in [DOMAIN bonds.bond -> BondRecord]
      BY <1>1
    <3> QED BY <2>2, <3>1 DEF del
  <2> DEFINE f == [v \in DOMAIN m |-> m[v].amount]
  <2>4. SumFunctionOnSet(f, DOMAIN m) = bonds.held - x
    <3>1. PICK B, g : B = DOMAIN bonds.bond /\ g = [v \in B \ {u} |-> m[v].amount]
      OBVIOUS
    <3>2. \A v \in B : bond_amounts[v] \in Int /\ bond_amounts[v] = bonds.bond[v].amount
      BY <1>2, <3>1 DEF bond_amounts
    <3>3. \A v \in B \ {u} : g[v] = bond_amounts[v]
      BY <2>3, <3>1, <3>2
    <3>4. IsFiniteSet(B) /\ u \in B
      BY <1>1, <3>1
    <3>5. SumFunctionOnSet(g, B \ {u}) = SumFunctionOnSet(bond_amounts, B) - bond_amounts[u]
      <4>1. PICK h : h = bond_amounts
        OBVIOUS
      <4>2. \A v \in B : h[v] \in Int
        BY <3>2, <4>1
      <4>3. \A v \in B \ {u} : g[v] = h[v]
        BY <3>3, <4>1
      <4>4. LosesOne(B, h, g, u)
        BY <3>4, <4>2, <4>3 DEF LosesOne
      <4>5. SumFunctionOnSet(g, B \ {u}) = SumFunctionOnSet(h, B) - h[u]
        BY <4>4, SumLoses
      <4> QED BY <4>1, <4>5
    <3>6. g = f
      BY <2>3, <3>1
    <3> QED BY <1>2, <2>1, <2>3, <3>1, <3>2, <3>4, <3>5, <3>6
  <2>5. PICK r : r = [bonds EXCEPT !.bond = m, !.held = @ - x]
    OBVIOUS
  <2>6. /\ r.bond = m /\ r.slashes = bonds.slashes /\ r.slash_count = bonds.slash_count
        /\ r.held = bonds.held - x /\ r.posted = bonds.posted /\ r.index = bonds.index
    BY <1>0, <2>5 DEF BondStore
  <2>7. BondStore(r)
    <3>1. IsFiniteSet(DOMAIN m)
      <4>1. IsFiniteSet(DOMAIN bonds.bond \ {u})
        BY <1>1, FS_RemoveElement
      <4> QED BY <2>3, <4>1
    <3>2. DOMAIN m \subseteq Users /\ DOMAIN m \subseteq DOMAIN r.posted
      BY <1>1, <2>3, <2>6
    <3>3. r.held = SumFunctionOnSet([v \in DOMAIN r.bond |-> r.bond[v].amount], DOMAIN r.bond)
      BY <2>4, <2>6
    <3>4. bonds.held - x \in Int
      BY <1>1, <2>1
    <3>5. r \in [bond : [DOMAIN m -> BondRecord], index : Seq(Users),
              slashes : [Users -> Seq(SlashRecord)], slash_count : [Users -> Nat],
              perfect : [Users -> Nat], cooldown : Nat, held : Int, insured : Int,
              posted : [DOMAIN bonds.posted -> Nat]]
      BY <1>0, <2>3, <2>5, <3>4 DEF BondStore
    <3> QED BY <2>6, <3>1, <3>2, <3>3, <3>5 DEF BondStore
  <2>8. BondsIndexed(r.bond, r.index) /\ BondsSound(r.bond, r.slashes, r.posted)
    BY <1>0, <2>3, <2>6 DEF BondsIndexed, BondsSound
  <2>9. bonds' = r
    BY <1>8, <2>1, <2>2, <2>5 DEF release_bond
  <2> QED BY <1>0, <1>4, <1>8, <2>6, <2>7, <2>8, <2>9
<1>9. ASSUME UNCHANGED now, NEW u \in DOMAIN bonds.bond, NEW cut \in BondAmounts, slash_bond(u, cut)
      PROVE  BondsInv'
  <2>1. PICK o : o = bonds.bond[u]
    OBVIOUS
  <2>2. PICK h : h = bonds.slashes[u]
    OBVIOUS
  <2>3. PICK b : b = slashed_bond(o, cut)
    OBVIOUS
  <2>4. PICK e : e = SlashOf(o, cut)
    OBVIOUS
  <2>5. PICK h2 : h2 = Append(h, e)
    OBVIOUS
  <2>6. /\ u \in Users /\ o \in BondRecord /\ h \in Seq(SlashRecord) /\ cut \in Nat /\ cut <= o.amount
        /\ BondIsSound(o, h, bonds.posted[u])
    BY <1>1, <1>2, <1>9, <2>1, <2>2, RewardsAssumption DEF slash_bond
  <2>7. b \in BondRecord /\ h2 \in Seq(SlashRecord) /\ BondIsSound(b, h2, bonds.posted[u])
    <3>1. now \in Nat
      BY <1>1
    <3> QED BY <2>3, <2>4, <2>5, <2>6, <3>1, SlashingKeepsBond
  <2>8. /\ b.amount = o.amount - cut /\ b.slash_count = o.slash_count + 1
        /\ o.amount \in Nat /\ o.slash_count \in Nat
    BY <2>3, <2>6 DEF slashed_bond, BondRecord
  <2>9. PICK m : m = IF b.amount = 0 THEN del(bonds.bond, u) ELSE put(bonds.bond, u, b)
    OBVIOUS
  <2>10. PICK s : s = [bonds.slashes EXCEPT ![u] = h2]
    OBVIOUS
  <2>11. PICK n : n = [bonds.slash_count EXCEPT ![u] = @ + 1]
    OBVIOUS
  <2>12. /\ s \in [Users -> Seq(SlashRecord)] /\ s[u] = h2
         /\ \A v \in Users : v # u => s[v] = bonds.slashes[v]
    BY <1>1, <2>6, <2>7, <2>10
  <2>13. /\ n \in [Users -> Nat] /\ n[u] = bonds.slash_count[u] + 1
         /\ \A v \in Users : v # u => n[v] = bonds.slash_count[v]
    <3>1. bonds.slash_count[u] + 1 \in Nat
      BY <1>1, <2>6
    <3> QED BY <1>1, <2>6, <2>11, <3>1
  <2>14. SlashesCounted(s, n)
    <3>1. Len(h2) = Len(h) + 1
      BY <2>5, <2>6
    <3>2. Len(h) = bonds.slash_count[u]
      BY <1>2, <2>2, <2>6
    <3> QED BY <1>2, <2>12, <2>13, <3>1, <3>2 DEF SlashesCounted
  <2>15. PICK p : p = [bonds.perfect EXCEPT ![u] = 0]
    OBVIOUS
  <2>16. p \in [Users -> Nat]
    BY <1>1, <2>6, <2>15
  <2>17. PICK r : r = [bond |-> m, index |-> bonds.index, slashes |-> s, slash_count |-> n,
                       perfect |-> p, cooldown |-> bonds.cooldown, held |-> bonds.held - cut,
                       insured |-> bonds.insured + cut, posted |-> bonds.posted]
    OBVIOUS
  <2>18. bonds' = r
    <3>1. bonds = [bond |-> bonds.bond, index |-> bonds.index, slashes |-> bonds.slashes,
                   slash_count |-> bonds.slash_count, perfect |-> bonds.perfect,
                   cooldown |-> bonds.cooldown, held |-> bonds.held, insured |-> bonds.insured,
                   posted |-> bonds.posted]
      BY <1>0 DEF BondStore
    <3>2. bonds' = [bonds EXCEPT !.bond = m, !.slashes = s, !.slash_count = n, !.perfect = p,
                                 !.held = @ - cut, !.insured = @ + cut]
      <4>1. slashed_bond(bonds.bond[u], cut) = b
        BY <2>1, <2>3
      <4>2. bonds' = [bonds EXCEPT
         !.bond = IF b.amount = 0 THEN del(@, u) ELSE put(@, u, b),
         !.slashes[u] = Append(@, [amount |-> cut, at |-> clock, nth |-> b.slash_count]),
         !.slash_count[u] = @ + 1, !.perfect[u] = 0,
         !.held = @ - cut, !.insured = @ + cut]
        BY <1>9, <4>1 DEF slash_bond
      <4>3. [amount |-> cut, at |-> clock, nth |-> b.slash_count] = e
        BY <2>4, <2>8 DEF SlashOf
      <4>4. /\ DOMAIN bonds = {"bond", "index", "slashes", "slash_count", "perfect", "cooldown",
                               "held", "insured", "posted"}
        BY <3>1
      <4> QED BY <2>2, <2>5, <2>9, <2>10, <2>11, <2>15, <4>2, <4>3, <4>4
    <3>3. bonds' = [bond |-> m, index |-> bonds.index, slashes |-> s, slash_count |-> n,
                       perfect |-> p, cooldown |-> bonds.cooldown, held |-> bonds.held - cut,
                       insured |-> bonds.insured + cut, posted |-> bonds.posted]
      BY <3>1, <3>2
    <3> QED BY <2>17, <3>3
  <2>19. /\ r.bond = m /\ r.slashes = s /\ r.slash_count = n
         /\ r.held = bonds.held - cut /\ r.posted = bonds.posted /\ r.index = bonds.index
    BY <2>17
  <2>20. ASSUME NEW S, S \subseteq DOMAIN bonds.bond, m \in [S -> BondRecord],
                SumFunctionOnSet([v \in S |-> m[v].amount], S) = bonds.held - cut,
                \A v \in S : IF v = u THEN m[v] = b ELSE m[v] = bonds.bond[v]
         PROVE  BondsInv'
    <3>1. DOMAIN m = S
      BY <2>20
    <3>2. IsFiniteSet(S)
      BY <1>1, <2>20, FS_Subset
    <3>3. DOMAIN m \subseteq Users /\ DOMAIN m \subseteq DOMAIN r.posted /\ IsFiniteSet(DOMAIN m)
      BY <1>1, <2>19, <2>20, <3>1, <3>2
    <3>4. r.held = SumFunctionOnSet([v \in DOMAIN r.bond |-> r.bond[v].amount], DOMAIN r.bond)
      BY <2>19, <2>20, <3>1
    <3>5. bonds.held - cut \in Int /\ bonds.insured + cut \in Int
      BY <1>1, <2>6
    <3>6. r \in [bond : [DOMAIN m -> BondRecord], index : Seq(Users),
              slashes : [Users -> Seq(SlashRecord)], slash_count : [Users -> Nat],
              perfect : [Users -> Nat], cooldown : Nat, held : Int, insured : Int,
              posted : [DOMAIN bonds.posted -> Nat]]
      BY <1>1, <2>12, <2>13, <2>16, <2>17, <2>20, <3>1, <3>5
    <3>7. BondStore(r)
      BY <2>19, <3>3, <3>4, <3>6 DEF BondStore
    <3>8. BondsIndexed(r.bond, r.index)
      BY <1>0, <2>19, <2>20, <3>1 DEF BondsIndexed
    <3>9. ASSUME NEW v \in S PROVE BondIsSound(m[v], s[v], bonds.posted[v])
      <4>1. CASE v = u
        BY <2>7, <2>12, <2>20, <4>1
      <4>2. CASE v # u
        <5>1. v \in DOMAIN bonds.bond /\ v \in Users /\ m[v] = bonds.bond[v] /\ s[v] = bonds.slashes[v]
          BY <1>1, <2>12, <2>20, <4>2
        <5> QED BY <1>2, <5>1
      <4> QED BY <4>1, <4>2
    <3>10. BondsSound(r.bond, r.slashes, r.posted)
      BY <2>19, <3>1, <3>9 DEF BondsSound
    <3> QED BY <1>4, <1>9, <2>14, <2>18, <2>19, <3>7, <3>8, <3>10
  <2>21. CASE b.amount = 0
    <3>0. PICK S : S = DOMAIN bonds.bond \ {u}
      OBVIOUS
    <3>1. m = del(bonds.bond, u)
      BY <2>9, <2>21
    <3>2. m \in [S -> BondRecord] /\ \A v \in S : m[v] = bonds.bond[v]
      <4>1. bonds.bond \in [DOMAIN bonds.bond -> BondRecord]
        BY <1>1
      <4> QED BY <3>0, <3>1, <4>1 DEF del
    <3>3. PICK B, g : B = DOMAIN bonds.bond /\ g = [v \in B \ {u} |-> m[v].amount]
      OBVIOUS
    <3>4. \A v \in B : bond_amounts[v] \in Int /\ bond_amounts[v] = bonds.bond[v].amount
      BY <1>2, <3>3 DEF bond_amounts
    <3>5. \A v \in B \ {u} : g[v] = bond_amounts[v]
      BY <3>0, <3>2, <3>3, <3>4
    <3>6. IsFiniteSet(B) /\ u \in B
      BY <1>1, <3>3
    <3>7. SumFunctionOnSet(g, B \ {u}) = SumFunctionOnSet(bond_amounts, B) - bond_amounts[u]
      <4>1. PICK k : k = bond_amounts
        OBVIOUS
      <4>2. \A v \in B : k[v] \in Int
        BY <3>4, <4>1
      <4>3. \A v \in B \ {u} : g[v] = k[v]
        BY <3>5, <4>1
      <4>4. LosesOne(B, k, g, u)
        BY <3>6, <4>2, <4>3 DEF LosesOne
      <4>5. SumFunctionOnSet(g, B \ {u}) = SumFunctionOnSet(k, B) - k[u]
        BY <4>4, SumLoses
      <4> QED BY <4>1, <4>5
    <3>11. bond_amounts[u] = cut
      BY <2>1, <2>6, <2>8, <2>21, <3>4, <3>6
    <3>8. SumFunctionOnSet([v \in S |-> m[v].amount], S) = bonds.held - cut
      BY <1>2, <3>0, <3>3, <3>7, <3>11
    <3>9. S \subseteq DOMAIN bonds.bond /\ \A v \in S : v # u
      BY <3>0
    <3>10. \A v \in S : IF v = u THEN m[v] = b ELSE m[v] = bonds.bond[v]
      BY <3>2, <3>9
    <3> QED BY <2>20, <3>2, <3>8, <3>9, <3>10
  <2>22. CASE b.amount # 0
    <3>1. m = put(bonds.bond, u, b)
      BY <2>9, <2>22
    <3>2. /\ m \in [DOMAIN bonds.bond -> BondRecord] /\ m[u] = b
          /\ \A v \in DOMAIN bonds.bond : v # u => m[v] = bonds.bond[v]
      <4>1. bonds.bond \in [DOMAIN bonds.bond -> BondRecord]
        BY <1>1
      <4>2. DOMAIN bonds.bond \cup {u} = DOMAIN bonds.bond
        OBVIOUS
      <4> QED BY <2>7, <3>1, <4>1, <4>2 DEF put
    <3>3. PICK B, g : B = DOMAIN bonds.bond /\ g = [v \in B |-> m[v].amount]
      OBVIOUS
    <3>4. \A v \in B : bond_amounts[v] \in Int /\ g[v] \in Int
      BY <1>2, <3>2, <3>3 DEF bond_amounts, BondRecord
    <3>5. \A v \in B \ {u} : bond_amounts[v] = g[v]
      BY <3>2, <3>3 DEF bond_amounts
    <3>6. IsFiniteSet(B) /\ u \in B
      BY <1>1, <3>3
    <3>7. SumFunctionOnSet(g, B) = SumFunctionOnSet(bond_amounts, B) + (g[u] - bond_amounts[u])
      BY <3>4, <3>5, <3>6, SumChange
    <3>8. g[u] = o.amount - cut /\ bond_amounts[u] = o.amount
      BY <2>1, <2>8, <3>2, <3>3 DEF bond_amounts
    <3>9. SumFunctionOnSet(g, B) = bonds.held - cut
      BY <1>1, <1>2, <2>6, <2>8, <3>3, <3>7, <3>8
    <3>10. \A v \in B : IF v = u THEN m[v] = b ELSE m[v] = bonds.bond[v]
      BY <3>2, <3>3
    <3>11. B \subseteq DOMAIN bonds.bond /\ m \in [B -> BondRecord]
      BY <3>2, <3>3
    <3> QED BY <2>20, <3>3, <3>9, <3>10, <3>11
  <2> QED BY <2>21, <2>22
<1> QED BY <1>1, <1>3, <1>5, <1>6, <1>7, <1>8, <1>9 DEF BondsNext

\* A bond that leaves without having been used up is released, after its cooldown.
LEMMA BondCools ==
  ASSUME BondsInv, BondsNext, NEW u \in DOMAIN bonds.bond,
         u \notin DOMAIN bonds'.bond, bonds'.insured = bonds.insured,
         NEW i \in DOMAIN bonds.slashes[u],
         i > Len(bonds.slashes[u]) - bonds.bond[u].slash_count
  PROVE  clock >= bonds.slashes[u][i].at + bonds.cooldown
<1>1. /\ bonds.bond \in [DOMAIN bonds.bond -> BondRecord] /\ bonds.slashes \in [Users -> Seq(SlashRecord)]
      /\ bonds.cooldown \in Nat /\ bonds.insured \in Int /\ u \in Users
      /\ BondIsSound(bonds.bond[u], bonds.slashes[u], bonds.posted[u])
      /\ clock \in Nat
  BY DEF BondsInv, BondTypes, clock
<1>2. DOMAIN bonds = {"bond", "index", "slashes", "slash_count", "perfect", "cooldown", "held", "insured", "posted"}
  BY DEF BondsInv, BondTypes
<1>3. release_bond(u)
  <2>1. ASSUME BondTick \/ \E c \in CooldownChoices : set_param(c) PROVE FALSE
    BY <1>2, <2>1 DEF BondTick, set_param
  <2>2. ASSUME NEW v \in Users, record_perfect_session(v) PROVE FALSE
    BY <1>2, <2>2 DEF record_perfect_session
  <2>3. ASSUME NEW v \in Users, NEW a \in BondAmounts, post_bond(v, a) PROVE FALSE
    <3>1. PICK b : bonds'.bond = put(bonds.bond, v, b)
      BY <1>2, <2>3 DEF post_bond
    <3> QED BY <3>1 DEF put
  <2>4. ASSUME NEW v \in DOMAIN bonds.bond, NEW a \in BondAmounts, slash_bond(v, a) PROVE FALSE
    <3>1. bonds'.insured = bonds.insured + a
      BY <1>2, <2>4 DEF slash_bond
    <3> QED BY <1>1, <3>1, RewardsAssumption
  <2>5. ASSUME NEW v \in DOMAIN bonds.bond, release_bond(v) PROVE v = u
    <3>1. bonds'.bond = del(bonds.bond, v)
      BY <1>2, <2>5 DEF release_bond
    <3> QED BY <3>1 DEF del
  <2> QED BY <2>1, <2>2, <2>3, <2>4, <2>5 DEF BondsNext
<1>4. PICK b \in BondRecord : b = bonds.bond[u]
  BY <1>1
<1>5. PICK h \in Seq(SlashRecord) : h = bonds.slashes[u]
  BY <1>1
<1>6. PICK n \in Nat, k \in Nat, c \in Nat : n = Len(h) /\ k = b.slash_count /\ c = bonds.cooldown
  BY <1>1 DEF BondRecord
<1>7. i \in n - k + 1 .. n /\ k > 0 /\ i \in 1 .. n
  BY <1>4, <1>5, <1>6
<1>8. h[i].at <= b.last_slash_at /\ b.last_slash_at > 0
  BY <1>1, <1>4, <1>5, <1>6, <1>7 DEF BondIsSound
<1>9. clock >= b.last_slash_at + c
  BY <1>3, <1>4, <1>6, <1>8 DEF release_bond, cooled
<1>10. h[i].at \in Nat /\ b.last_slash_at \in Nat
  <2>1. h[i] \in SlashRecord
    BY <1>6, <1>7
  <2> QED BY <2>1 DEF BondRecord, SlashRecord
<1> QED BY <1>1, <1>5, <1>6, <1>8, <1>9, <1>10

-----------------------------------------------------------------------------
(* Recurring allowances. *)

AllowanceRecord == [amount : Nat, periods : Nat, secs : Nat, used : Nat, last_pull : Nat]
PullRecord == [amount : Nat, at : Nat]

PulledSum(p) == SumFunctionOnSet([i \in DOMAIN p |-> p[i].amount], DOMAIN p)

\* An allowance and its pulls.
PullsAreSound(r, p) ==
    /\ Len(p) = r.used /\ r.used <= r.periods
    /\ PulledSum(p) <= r.amount * r.used
    /\ \A i \in DOMAIN p : p[i].at <= r.last_pull
    /\ \A i, j \in DOMAIN p : i < j => p[j].at >= p[i].at + r.secs

AllowancesTyped(x) ==
    /\ x = [record |-> x.record, pulls |-> x.pulls]
    /\ DOMAIN x.pulls = DOMAIN x.record
    /\ x.record \in [DOMAIN x.record -> AllowanceRecord]
    /\ x.pulls \in [DOMAIN x.record -> Seq(PullRecord)]
    /\ \A k \in DOMAIN x.record : PullsAreSound(x.record[k], x.pulls[k])

\* Every allowance agrees with its pulls.
AllowancesInv == now \in Nat /\ AllowancesTyped(allowances)

\* No allowance is given.
LEMMA AllowancesStart == AllowancesInit /\ now = 0 => AllowancesInv
<1> SUFFICES ASSUME AllowancesInit, now = 0 PROVE AllowancesInv
  OBVIOUS
<1>1. /\ allowances.record = NothingStored /\ allowances.pulls = NothingStored
      /\ allowances = [record |-> allowances.record, pulls |-> allowances.pulls]
  BY DEF AllowancesInit
<1>2. DOMAIN NothingStored = {} /\ \A T : NothingStored \in [{} -> T]
  BY DEF NothingStored
<1> QED BY <1>1, <1>2 DEF AllowancesInv, AllowancesTyped

\* An allowance waits while time passes.
LEMMA AllowancesRest == ASSUME AllowancesInv, ClockMoves, UNCHANGED allowances PROVE AllowancesInv'
BY DEF AllowancesInv, ClockMoves

\* The sum of pulls grows by a pull.
LEMMA PulledNext ==
  ASSUME NEW p \in Seq(PullRecord), NEW e \in PullRecord, NEW t, t = Append(p, e)
  PROVE  PulledSum(t) = PulledSum(p) + e.amount /\ PulledSum(p) \in Int /\ PulledSum(<< >>) = 0
<1>1. PICK n \in Nat : n = Len(p)
  OBVIOUS
<1>2. /\ t \in Seq(PullRecord) /\ Len(t) = n + 1
      /\ DOMAIN p = 1 .. n /\ DOMAIN t = 1 .. n + 1
      /\ \A i \in 1 .. n : t[i] = p[i] /\ p[i] \in PullRecord
      /\ t[n + 1] = e
  BY <1>1, Appended
<1>3. PICK f : f = [i \in DOMAIN p |-> p[i].amount]
  OBVIOUS
<1>4. PICK g : g = [i \in DOMAIN t |-> t[i].amount]
  OBVIOUS
<1>5. \A x \in PullRecord : x.amount \in Int
  BY DEF PullRecord
<1>6. \A i \in 1 .. n : f[i] \in Int /\ g[i] = f[i]
  <2>1. \A i \in 1 .. n : i \in 1 .. n + 1
    BY <1>1
  <2> QED BY <1>2, <1>3, <1>4, <1>5, <2>1
<1>7. g[n + 1] = e.amount /\ g[n + 1] \in Int
  <2>1. n + 1 \in 1 .. n + 1
    BY <1>1
  <2> QED BY <1>2, <1>4, <1>5, <2>1
<1>8. /\ SumFunctionOnSet(g, 1 .. n + 1) = SumFunctionOnSet(f, 1 .. n) + g[n + 1]
      /\ SumFunctionOnSet(f, 1 .. n) \in Int
  BY <1>6, <1>7, SumNext
<1>9. PulledSum(p) = SumFunctionOnSet(f, 1 .. n) /\ PulledSum(t) = SumFunctionOnSet(g, 1 .. n + 1)
  BY <1>2, <1>3, <1>4 DEF PulledSum
<1>10. PulledSum(<< >>) = 0
  <2>1. DOMAIN << >> = {}
    OBVIOUS
  <2> QED BY <2>1, SumEmpty DEF PulledSum
<1> QED BY <1>7, <1>8, <1>9, <1>10

\* An allowance changes, together with its pulls.
LEMMA AllowanceChanges ==
  ASSUME AllowancesInv, NEW k, NEW r \in AllowanceRecord, NEW p \in Seq(PullRecord),
         PullsAreSound(r, p), NEW x, x = [record |-> x.record, pulls |-> x.pulls],
         \/ x.record = put(allowances.record, k, r) /\ x.pulls = put(allowances.pulls, k, p)
         \/ /\ k \in DOMAIN allowances.record
            /\ x.record = [allowances.record EXCEPT ![k] = r] /\ x.pulls = [allowances.pulls EXCEPT ![k] = p]
  PROVE  AllowancesTyped(x)
<1>1. PICK S : S = DOMAIN allowances.record
  OBVIOUS
<1>2. PICK f : f = allowances.record
  OBVIOUS
<1>3. PICK g : g = allowances.pulls
  OBVIOUS
<1>4. /\ DOMAIN f = S /\ DOMAIN g = S /\ f \in [S -> AllowanceRecord] /\ g \in [S -> Seq(PullRecord)]
      /\ \A j \in S : PullsAreSound(f[j], g[j])
  BY <1>1, <1>2, <1>3 DEF AllowancesInv, AllowancesTyped
<1>5. x.record = [j \in S \cup {k} |-> IF j = k THEN r ELSE f[j]]
      /\ x.pulls = [j \in S \cup {k} |-> IF j = k THEN p ELSE g[j]]
  <2>1. CASE x.record = put(allowances.record, k, r) /\ x.pulls = put(allowances.pulls, k, p)
    BY <1>2, <1>3, <1>4, <2>1 DEF put
  <2>2. CASE /\ k \in DOMAIN allowances.record
             /\ x.record = [allowances.record EXCEPT ![k] = r] /\ x.pulls = [allowances.pulls EXCEPT ![k] = p]
    <3>1. k \in S /\ S \cup {k} = S /\ x.record = [f EXCEPT ![k] = r] /\ x.pulls = [g EXCEPT ![k] = p]
      BY <1>1, <1>2, <1>3, <2>2
    <3>2. x.record = [j \in S |-> IF j = k THEN r ELSE f[j]] /\ x.pulls = [j \in S |-> IF j = k THEN p ELSE g[j]]
      BY <1>4, <3>1
    <3> QED BY <3>1, <3>2
  <2> QED BY <2>1, <2>2
<1>6. PICK T : T = S \cup {k}
  OBVIOUS
<1>7. DOMAIN x.record = T /\ DOMAIN x.pulls = T
  BY <1>5, <1>6
<1>8. x.record \in [T -> AllowanceRecord] /\ x.pulls \in [T -> Seq(PullRecord)]
  BY <1>4, <1>5, <1>6
<1>9. \A j \in T : PullsAreSound(x.record[j], x.pulls[j])
  <2> SUFFICES ASSUME NEW j \in T PROVE PullsAreSound(x.record[j], x.pulls[j])
    OBVIOUS
  <2>1. CASE j = k
    <3>1. x.record[j] = r /\ x.pulls[j] = p
      BY <1>5, <1>6, <2>1
    <3> QED BY <3>1
  <2>2. CASE j # k
    <3>1. x.record[j] = f[j] /\ x.pulls[j] = g[j] /\ j \in S
      BY <1>5, <1>6, <2>2
    <3> QED BY <1>4, <3>1
  <2> QED BY <2>1, <2>2
<1> QED BY <1>7, <1>8, <1>9 DEF AllowancesTyped

\* Every call of the allowance contract keeps its invariant.
LEMMA AllowancesStep == AllowancesInv /\ AllowancesNext => AllowancesInv'
<1> SUFFICES ASSUME AllowancesInv, AllowancesNext PROVE AllowancesInv'
  OBVIOUS
<1>1. /\ now \in Nat /\ AllowancesTyped(allowances)
      /\ allowances = [record |-> allowances.record, pulls |-> allowances.pulls]
      /\ DOMAIN allowances.pulls = DOMAIN allowances.record
      /\ allowances.record \in [DOMAIN allowances.record -> AllowanceRecord]
      /\ allowances.pulls \in [DOMAIN allowances.record -> Seq(PullRecord)]
  BY DEF AllowancesInv, AllowancesTyped
<1>2. CASE AllowanceTick
  <2>1. ClockMoves /\ UNCHANGED allowances
    BY <1>2 DEF AllowanceTick, CloseLedger, ClockMoves
  <2> QED BY <2>1, AllowancesRest
<1>3. ASSUME NEW u \in Users, NEW s \in {"s1"}, NEW t \in AllowanceTerms, authorize(u, s, t), now' = now
      PROVE  AllowancesInv'
  <2>1. PICK r : r = [amount |-> t.amount, periods |-> t.periods, secs |-> t.secs, used |-> 0, last_pull |-> 0]
    OBVIOUS
  <2>2. r \in AllowanceRecord /\ r.used = 0 /\ r.amount \in Nat /\ r.periods \in Nat
    <3>1. t \in [amount : Nat, periods : Nat, secs : Nat]
      BY RewardsAssumption
    <3> QED BY <2>1, <3>1 DEF AllowanceRecord
  <2>3. PICK p : p = << >>
    OBVIOUS
  <2>4. p \in Seq(PullRecord) /\ PullsAreSound(r, p)
    <3>1. p \in Seq(PullRecord) /\ DOMAIN p = {} /\ Len(p) = 0
      BY <2>3
    <3>2. PulledSum(p) = 0
      BY <3>1, SumEmpty DEF PulledSum
    <3>3. r.amount * r.used = 0
      BY <2>2
    <3> QED BY <2>2, <3>1, <3>2, <3>3 DEF PullsAreSound
  <2>5. PICK x : x = allowances'
    OBVIOUS
  <2>6. /\ x = [record |-> x.record, pulls |-> x.pulls]
        /\ x.record = put(allowances.record, <<u, s>>, r) /\ x.pulls = put(allowances.pulls, <<u, s>>, p)
    BY <1>1, <1>3, <2>1, <2>3, <2>5 DEF authorize
  <2>7. AllowancesTyped(x)
    BY <2>2, <2>4, <2>6, AllowanceChanges
  <2> QED BY <1>1, <1>3, <2>5, <2>7 DEF AllowancesInv
<1>4. ASSUME NEW k \in DOMAIN allowances.record, NEW a \in PullAmounts, pull_payment(k, a), now' = now
      PROVE  AllowancesInv'
  <2>1. PICK r : r = allowances.record[k]
    OBVIOUS
  <2>2. PICK p : p = allowances.pulls[k]
    OBVIOUS
  <2>3. r \in AllowanceRecord /\ p \in Seq(PullRecord) /\ PullsAreSound(r, p) /\ a \in Nat
    BY <1>1, <2>1, <2>2, RewardsAssumption DEF AllowancesTyped
  <2>4. /\ r.amount \in Nat /\ r.periods \in Nat /\ r.secs \in Nat /\ r.used \in Nat /\ r.last_pull \in Nat
    BY <2>3 DEF AllowanceRecord
  <2>5. PICK e : e = [amount |-> a, at |-> now]
    OBVIOUS
  <2>6. e \in PullRecord /\ e.amount = a /\ e.at = now
    BY <1>1, <2>3, <2>5 DEF PullRecord
  <2>7. PICK q : q = Append(p, e)
    OBVIOUS
  <2>8. PICK s : s = [r EXCEPT !.used = r.used + 1, !.last_pull = now]
    OBVIOUS
  <2>9. /\ s \in AllowanceRecord /\ s.amount = r.amount /\ s.periods = r.periods /\ s.secs = r.secs
        /\ s.used = r.used + 1 /\ s.last_pull = now
    <3>1. PICK y \in Nat : y = r.used + 1
      BY <2>4
    <3> QED BY <1>1, <2>3, <2>8, <3>1 DEF AllowanceRecord
  <2>10. r.used < r.periods /\ a <= r.amount /\ (r.used > 0 => now >= r.last_pull + r.secs)
    BY <1>4, <2>1 DEF pull_payment, pull_is_due
  <2>11. PICK x : x = allowances'
    OBVIOUS
  <2>12. /\ x = [record |-> x.record, pulls |-> x.pulls]
         /\ x.record = [allowances.record EXCEPT ![k] = s] /\ x.pulls = [allowances.pulls EXCEPT ![k] = q]
    <3>1. /\ x = [record |-> x.record, pulls |-> x.pulls]
          /\ x.pulls = [allowances.pulls EXCEPT ![k] = Append(@, e)]
      BY <1>1, <1>4, <2>5, <2>11 DEF pull_payment
    <3>2. x.record = [allowances.record EXCEPT ![k].used = @ + 1, ![k].last_pull = now]
      BY <1>1, <1>4, <2>11 DEF pull_payment
    <3>3. PICK f : f = allowances.record
      OBVIOUS
    <3>4. f \in [DOMAIN f -> AllowanceRecord] /\ k \in DOMAIN f /\ r = f[k]
      BY <1>1, <1>4, <2>1, <3>3
    <3>5. x.record = [f EXCEPT ![k] = s]
      BY <2>8, <3>2, <3>3, <3>4
    <3> QED BY <1>1, <2>2, <2>7, <3>1, <3>3, <3>5
  <2>13. /\ Len(p) = r.used /\ r.used <= r.periods
         /\ PulledSum(p) <= r.amount * r.used
         /\ \A i \in DOMAIN p : p[i].at <= r.last_pull
         /\ \A i, j \in DOMAIN p : i < j => p[j].at >= p[i].at + r.secs
    BY <2>3 DEF PullsAreSound
  <2>14. PICK n \in Nat : n = r.used
    BY <2>4
  <2>15. /\ q \in Seq(PullRecord) /\ Len(q) = n + 1
         /\ DOMAIN p = 1 .. n /\ DOMAIN q = 1 .. n + 1
         /\ \A i \in 1 .. n : q[i] = p[i] /\ p[i] \in PullRecord
         /\ q[n + 1] = e
    BY <2>3, <2>6, <2>7, <2>13, <2>14, Appended
  <2>16. PulledSum(q) = PulledSum(p) + a /\ PulledSum(p) \in Int
    BY <2>3, <2>6, <2>7, PulledNext
  <2>17. PulledSum(q) <= s.amount * s.used
    <3>1. PICK m \in Nat : m = r.amount * r.used
      BY <2>4
    <3>2. r.amount * (r.used + 1) = m + r.amount
      BY <2>4, <3>1
    <3>3. PulledSum(p) <= m
      BY <2>13, <3>1
    <3>4. s.amount * s.used = m + r.amount
      BY <2>9, <3>2
    <3> QED BY <2>3, <2>4, <2>10, <2>16, <3>3, <3>4
  <2>18. \A i \in 1 .. n : p[i].at \in Nat /\ p[i].at <= r.last_pull
    <3>1. \A y \in PullRecord : y.at \in Nat
      BY DEF PullRecord
    <3> QED BY <2>13, <2>15, <3>1
  <2>19. \A i \in 1 .. n : n > 0
    BY <2>14
  <2>20. \A i \in 1 .. n : p[i].at + s.secs <= now
    BY <1>1, <2>4, <2>9, <2>10, <2>14, <2>18, <2>19
  <2>21. \A i \in 1 .. n + 1 : q[i].at <= s.last_pull
    <3>1. \A i \in 1 .. n : q[i].at <= now
      BY <1>1, <2>4, <2>9, <2>15, <2>18, <2>20
    <3>2. \A i \in 1 .. n + 1 : i \in 1 .. n \/ i = n + 1
      BY <2>14
    <3> QED BY <1>1, <2>6, <2>9, <2>15, <3>1, <3>2
  <2>22. \A i, j \in 1 .. n + 1 : i < j => q[j].at >= q[i].at + s.secs
    <3> SUFFICES ASSUME NEW i \in 1 .. n + 1, NEW j \in 1 .. n + 1, i < j
                 PROVE  q[j].at >= q[i].at + s.secs
      OBVIOUS
    <3>1. i \in 1 .. n
      BY <2>14
    <3>2. CASE j \in 1 .. n
      BY <2>9, <2>13, <2>15, <3>1, <3>2
    <3>3. CASE j = n + 1
      <4>1. q[j].at = now /\ q[i].at = p[i].at /\ p[i].at + s.secs <= now
        BY <2>6, <2>15, <2>20, <3>1, <3>3
      <4> QED BY <1>1, <2>4, <2>9, <2>18, <3>1, <4>1
    <3> QED BY <2>14, <3>2, <3>3
  <2>23. PullsAreSound(s, q)
    <3>1. Len(q) = s.used /\ s.used <= s.periods
      BY <2>4, <2>9, <2>10, <2>14, <2>15
    <3> QED BY <2>15, <2>17, <2>21, <2>22, <3>1 DEF PullsAreSound
  <2>24. AllowancesTyped(x)
    <3>1. k \in DOMAIN allowances.record /\ s \in AllowanceRecord /\ q \in Seq(PullRecord)
      BY <2>9, <2>15
    <3>2. PullsAreSound(s, q) /\ x = [record |-> x.record, pulls |-> x.pulls]
      BY <2>12, <2>23
    <3>3. x.record = [allowances.record EXCEPT ![k] = s] /\ x.pulls = [allowances.pulls EXCEPT ![k] = q]
      BY <2>12
    <3> QED BY <3>1, <3>2, <3>3, AllowanceChanges
  <2> QED BY <1>1, <1>4, <2>11, <2>24 DEF AllowancesInv
<1>5. ASSUME NEW k \in DOMAIN allowances.record, revoke_allowance(k), now' = now
      PROVE  AllowancesInv'
  <2>1. PICK x : x = allowances'
    OBVIOUS
  <2>2. /\ x = [record |-> x.record, pulls |-> x.pulls]
        /\ x.record = del(allowances.record, k) /\ x.pulls = del(allowances.pulls, k)
    BY <1>1, <1>5, <2>1 DEF revoke_allowance
  <2>3. PICK S : S = DOMAIN allowances.record \ {k}
    OBVIOUS
  <2>4. /\ DOMAIN x.record = S /\ DOMAIN x.pulls = S
        /\ x.record \in [S -> AllowanceRecord] /\ x.pulls \in [S -> Seq(PullRecord)]
        /\ \A j \in S : x.record[j] = allowances.record[j] /\ x.pulls[j] = allowances.pulls[j]
    BY <1>1, <2>2, <2>3 DEF del
  <2>5. \A j \in S : PullsAreSound(x.record[j], x.pulls[j])
    BY <1>1, <2>3, <2>4 DEF AllowancesTyped
  <2>6. AllowancesTyped(x)
    <3>1. /\ x.record \in [DOMAIN x.record -> AllowanceRecord]
          /\ x.pulls \in [DOMAIN x.record -> Seq(PullRecord)]
          /\ DOMAIN x.pulls = DOMAIN x.record
      BY <2>4
    <3>2. \A j \in DOMAIN x.record : PullsAreSound(x.record[j], x.pulls[j])
      BY <2>4, <2>5
    <3> QED BY <2>2, <3>1, <3>2 DEF AllowancesTyped
  <2> QED BY <1>1, <1>5, <2>1, <2>6 DEF AllowancesInv
<1> QED BY <1>2, <1>3, <1>4, <1>5 DEF AllowancesNext

\* Its pulls are spaced, counted and bounded as PullsAreSpaced says.
LEMMA PullsStaySpaced == AllowancesInv => PullsAreSpaced
<1> SUFFICES ASSUME AllowancesInv, NEW k \in DOMAIN allowances.record
             PROVE  LET r == allowances.record[k]
                        p == allowances.pulls[k]
                    IN  /\ Len(p) = r.used /\ r.used <= r.periods
                        /\ SumFunctionOnSet([i \in DOMAIN p |-> p[i].amount], DOMAIN p) <= r.amount * r.periods
                        /\ \A i, j \in DOMAIN p : i < j => p[j].at >= p[i].at + r.secs
  BY DEF PullsAreSpaced
<1>1. PICK r : r = allowances.record[k]
  OBVIOUS
<1>2. PICK p : p = allowances.pulls[k]
  OBVIOUS
<1>3. r \in AllowanceRecord /\ p \in Seq(PullRecord) /\ PullsAreSound(r, p)
  BY <1>1, <1>2 DEF AllowancesInv, AllowancesTyped
<1>4. r.amount \in Nat /\ r.used \in Nat /\ r.periods \in Nat
  BY <1>3 DEF AllowanceRecord
<1>5. /\ Len(p) = r.used /\ r.used <= r.periods /\ PulledSum(p) <= r.amount * r.used
      /\ \A i, j \in DOMAIN p : i < j => p[j].at >= p[i].at + r.secs
  BY <1>3 DEF PullsAreSound
<1>6. r.amount * r.used <= r.amount * r.periods
  <2>1. PICK c \in Nat : c = r.periods - r.used
    BY <1>4, <1>5
  <2>2. r.periods = r.used + c
    BY <1>4, <1>5, <2>1
  <2>3. r.amount * r.periods = r.amount * r.used + r.amount * c
    BY <1>4, <2>1, <2>2
  <2>4. r.amount * c \in Nat /\ r.amount * r.used \in Nat
    BY <1>4, <2>1
  <2> QED BY <2>3, <2>4
<1>7. PulledSum(p) \in Int
  <2>1. PICK e : e = [amount |-> 0, at |-> 0]
    OBVIOUS
  <2>2. e \in PullRecord
    BY <2>1 DEF PullRecord
  <2> QED BY <1>3, <2>2, PulledNext
<1>8. PulledSum(p) <= r.amount * r.periods
  <2>1. r.amount * r.used \in Nat /\ r.amount * r.periods \in Nat
    BY <1>4
  <2> QED BY <1>5, <1>6, <1>7, <2>1
<1> QED BY <1>1, <1>2, <1>5, <1>8 DEF PulledSum

-----------------------------------------------------------------------------
(* Leaderboards. *)

\* Entries of a leaderboard with one entry for everybody in it.
BoardEntry == [who : Users, n : Nat]
NamesOnce(lb) == \A i, j \in DOMAIN lb : lb[i].who = lb[j].who => i = j
Falls(lb) == \A i, j \in DOMAIN lb : i < j => lb[i].n >= lb[j].n

\* The ranks of the entries are a permutation.
LEMMA RanksPermute ==
  ASSUME NEW lb \in Seq(BoardEntry), NEW m, m = Len(lb)
  PROVE  /\ m \in Nat /\ DOMAIN lb = 1 .. m
         /\ \A i \in 1 .. m : rank_of(lb, i) \in 1 .. m
         /\ \A i, j \in 1 .. m : comes_before(lb, i, j) => rank_of(lb, i) < rank_of(lb, j)
         /\ \A i, j \in 1 .. m : rank_of(lb, i) = rank_of(lb, j) => i = j
         /\ \A k \in 1 .. m : \E i \in 1 .. m : rank_of(lb, i) = k
<1>1. m \in Nat /\ DOMAIN lb = 1 .. m /\ \A i \in 1 .. m : lb[i] \in BoardEntry
  OBVIOUS
<1>2. \A i \in 1 .. m : lb[i].n \in Nat
  BY <1>1 DEF BoardEntry
<1>3. PICK D : D = 1 .. m
  OBVIOUS
<1>4. IsFiniteSet(D) /\ Cardinality(D) = m
  <2>1. 1 \in Int /\ m \in Int
    BY <1>1
  <2>2. IsFiniteSet(1 .. m) /\ Cardinality(1 .. m) = IF 1 > m THEN 0 ELSE m - 1 + 1
    BY ONLY <2>1, FS_Interval
  <2> QED BY <1>1, <1>3, <2>2
<1>5. PICK c : c = [i \in D |-> {j \in D : comes_before(lb, j, i)}]
  OBVIOUS
<1>6. \A i \in D : c[i] = {j \in D : comes_before(lb, j, i)} /\ rank_of(lb, i) = Cardinality(c[i]) + 1
  BY <1>1, <1>3, <1>5 DEF rank_of
<1>7. \A i, j \in D : ~comes_before(lb, i, j) => i = j \/ comes_before(lb, j, i)
  BY <1>1, <1>2, <1>3 DEF comes_before
<1>8. \A i \in D : ~comes_before(lb, i, i)
  BY <1>1, <1>2, <1>3 DEF comes_before
<1>9. \A i, j, k \in D : comes_before(lb, i, j) /\ comes_before(lb, j, k) => comes_before(lb, i, k)
  BY <1>1, <1>2, <1>3 DEF comes_before
<1>10. \A i \in D : IsFiniteSet(c[i]) /\ Cardinality(c[i]) \in Nat
  <2> SUFFICES ASSUME NEW i \in D PROVE IsFiniteSet(c[i]) /\ Cardinality(c[i]) \in Nat
    OBVIOUS
  <2>1. c[i] \in SUBSET D
    BY <1>6
  <2>2. IsFiniteSet(c[i])
    BY <1>4, <2>1, FS_Subset
  <2> QED BY <2>2, FS_CardinalityType
<1>11. ASSUME NEW i \in D PROVE rank_of(lb, i) \in 1 .. m
  <2>1. c[i] \in SUBSET D /\ i \notin c[i]
    BY <1>6, <1>8
  <2>2. Cardinality(c[i]) <= Cardinality(D) /\ (Cardinality(D) = Cardinality(c[i]) => D = c[i])
    BY <1>4, <2>1, FS_Subset
  <2>3. Cardinality(c[i]) < m
    BY <1>1, <1>4, <1>10, <2>1, <2>2
  <2>4. rank_of(lb, i) = Cardinality(c[i]) + 1 /\ Cardinality(c[i]) \in Nat
    BY <1>6, <1>10
  <2> QED BY <1>1, <2>3, <2>4
<1>12. ASSUME NEW i \in D, NEW j \in D, comes_before(lb, i, j) PROVE rank_of(lb, i) < rank_of(lb, j)
  <2>1. c[i] \in SUBSET c[j] /\ i \in c[j] /\ i \notin c[i]
    BY <1>6, <1>8, <1>9, <1>12
  <2>2. IsFiniteSet(c[j]) /\ Cardinality(c[j]) \in Nat /\ Cardinality(c[i]) \in Nat
    BY <1>10
  <2>3. Cardinality(c[i]) <= Cardinality(c[j]) /\ (Cardinality(c[j]) = Cardinality(c[i]) => c[j] = c[i])
    BY <2>1, <2>2, FS_Subset
  <2>4. Cardinality(c[i]) # Cardinality(c[j])
    BY <2>1, <2>3
  <2>5. Cardinality(c[i]) < Cardinality(c[j])
    BY <2>2, <2>3, <2>4
  <2>6. rank_of(lb, i) = Cardinality(c[i]) + 1 /\ rank_of(lb, j) = Cardinality(c[j]) + 1
    BY <1>6
  <2> QED BY <2>2, <2>5, <2>6
<1>13. ASSUME NEW i \in D, NEW j \in D, rank_of(lb, i) = rank_of(lb, j) PROVE i = j
  <2>1. rank_of(lb, i) \in Int /\ rank_of(lb, j) \in Int
    BY <1>11
  <2>2. ~comes_before(lb, i, j) /\ ~comes_before(lb, j, i)
    BY <1>12, <1>13, <2>1
  <2> QED BY <1>7, <2>2
<1>14. ASSUME NEW k \in D, \A i \in D : rank_of(lb, i) # k PROVE FALSE
  <2>1. PICK R : R = D \ {k}
    OBVIOUS
  <2>2. IsFiniteSet(R) /\ Cardinality(R) = Cardinality(D) - 1
    BY <1>4, <2>1, FS_RemoveElement
  <2>3. PICK f : f = [i \in D |-> rank_of(lb, i)]
    OBVIOUS
  <2>4. f \in [D -> R]
    <3>1. \A i \in D : rank_of(lb, i) \in R
      BY <1>3, <1>11, <1>14, <2>1
    <3> QED BY <2>3, <3>1
  <2>5. Cardinality(R) < Cardinality(D)
    BY <1>1, <1>4, <2>2
  <2>6. \E x, y \in D : x # y /\ f[x] = f[y]
    BY <1>4, <2>2, <2>4, <2>5, FS_PigeonHole
  <2> QED BY <1>13, <2>3, <2>6
<1> QED BY <1>1, <1>3, <1>11, <1>12, <1>13, <1>14

\* s holds the entries of lb in the order of pi.
Permuted(s, lb, pi, m) ==
    /\ s \in Seq(BoardEntry) /\ Len(s) = m /\ DOMAIN s = 1 .. m
    /\ \A k \in 1 .. m : pi[k] \in 1 .. m /\ s[k] = lb[pi[k]]
    /\ \A j, k \in 1 .. m : pi[j] = pi[k] => j = k
    /\ \A i \in 1 .. m : \E k \in 1 .. m : pi[k] = i

\* Sorting permutes the entries so that they fall.
LEMMA Sorted ==
  ASSUME NEW lb \in Seq(BoardEntry), NEW m, m = Len(lb), NEW s, s = sort_leaderboard(lb)
  PROVE  Falls(s) /\ m \in Nat /\ \E pi : Permuted(s, lb, pi, m)
<1>1. /\ m \in Nat /\ DOMAIN lb = 1 .. m
      /\ \A i \in 1 .. m : rank_of(lb, i) \in 1 .. m
      /\ \A i, j \in 1 .. m : comes_before(lb, i, j) => rank_of(lb, i) < rank_of(lb, j)
      /\ \A i, j \in 1 .. m : rank_of(lb, i) = rank_of(lb, j) => i = j
      /\ \A k \in 1 .. m : \E i \in 1 .. m : rank_of(lb, i) = k
  BY RanksPermute
<1>2. PICK pi : pi = [k \in 1 .. m |-> CHOOSE i \in 1 .. m : rank_of(lb, i) = k]
  OBVIOUS
<1>3. \A k \in 1 .. m : pi[k] \in 1 .. m /\ rank_of(lb, pi[k]) = k
  BY <1>1, <1>2
<1>4. s = [k \in 1 .. m |-> lb[pi[k]]]
  BY <1>1, <1>2 DEF sort_leaderboard
<1>5. \A i \in 1 .. m : lb[i] \in BoardEntry
  BY <1>1
<1>6. \A k \in 1 .. m : s[k] = lb[pi[k]] /\ s[k] \in BoardEntry
  BY <1>3, <1>4, <1>5
<1>7. s \in Seq(BoardEntry) /\ Len(s) = m /\ DOMAIN s = 1 .. m
  BY <1>1, <1>4, <1>6
<1>8. \A j, k \in 1 .. m : pi[j] = pi[k] => j = k
  BY <1>3
<1>9. \A i \in 1 .. m : \E k \in 1 .. m : pi[k] = i
  <2> SUFFICES ASSUME NEW i \in 1 .. m PROVE \E k \in 1 .. m : pi[k] = i
    OBVIOUS
  <2>1. PICK k \in 1 .. m : k = rank_of(lb, i)
    BY <1>1
  <2>2. rank_of(lb, pi[k]) = rank_of(lb, i) /\ pi[k] \in 1 .. m
    BY <1>3, <2>1
  <2>3. pi[k] = i
    BY <1>1, <2>2
  <2> QED BY <2>3
<1>10. Permuted(s, lb, pi, m)
  BY <1>3, <1>6, <1>7, <1>8, <1>9 DEF Permuted
<1>11. ASSUME NEW i \in 1 .. m, NEW j \in 1 .. m, i < j PROVE s[i].n >= s[j].n
  <2>1. PICK x \in 1 .. m : x = pi[i] /\ rank_of(lb, x) = i
    BY <1>3
  <2>2. PICK y \in 1 .. m : y = pi[j] /\ rank_of(lb, y) = j
    BY <1>3
  <2>3. ~comes_before(lb, y, x)
    <3>1. \A a, b \in 1 .. m : comes_before(lb, a, b) => rank_of(lb, a) < rank_of(lb, b)
      BY <1>1
    <3>2. comes_before(lb, y, x) => rank_of(lb, y) < rank_of(lb, x)
      BY <3>1
    <3>3. rank_of(lb, y) = j /\ rank_of(lb, x) = i
      BY <2>1, <2>2
    <3> QED BY <1>1, <1>11, <3>2, <3>3
  <2>4. lb[x].n \in Nat /\ lb[y].n \in Nat
    BY <1>5 DEF BoardEntry
  <2>5. ~(lb[y].n > lb[x].n)
    BY <2>3 DEF comes_before
  <2> QED BY <1>6, <2>1, <2>2, <2>4, <2>5
<1> QED BY <1>1, <1>7, <1>10, <1>11 DEF Falls

\* The entries of t are those of lb and e, which is its learner's only one.
Enters(t, lb, e) ==
    /\ t \in Seq(BoardEntry) /\ NamesOnce(t)
    /\ \A i \in DOMAIN t : t[i] = e \/ (t[i].who # e.who /\ \E j \in DOMAIN lb : lb[j] = t[i])

\* An entry is replaced, added, or takes the last place, and the names stay apart.
LEMMA EnteredOnce ==
  ASSUME NEW lb \in Seq(BoardEntry), NamesOnce(lb), NEW e \in BoardEntry, NEW limit \in Nat \ {0},
         NEW t, t = entered(lb, e, limit)
  PROVE  Enters(t, lb, e)
<1>1. PICK m \in Nat : m = Len(lb)
  OBVIOUS
<1>2. DOMAIN lb = 1 .. m /\ \A i \in 1 .. m : lb[i] \in BoardEntry
  BY <1>1
<1>3. PICK at : at = {i \in DOMAIN lb : lb[i].who = e.who}
  OBVIOUS
<1>4. CASE at # {}
  <2>1. PICK i \in 1 .. m : lb[i].who = e.who
    BY <1>2, <1>3, <1>4
  <2>2. at = {i}
    BY <1>2, <1>3, <2>1 DEF NamesOnce
  <2>3. Min(at) = i
    <3>1. i \in Int
      OBVIOUS
    <3>2. \A x \in {i} : x = i
      OBVIOUS
    <3>3. i \in {i} /\ i <= i
      BY <3>1
    <3> QED BY <2>2, <3>2, <3>3 DEF Min
  <2>4. t = [lb EXCEPT ![i] = e]
    BY <1>3, <1>4, <2>3 DEF entered
  <2>5. /\ t \in Seq(BoardEntry) /\ DOMAIN t = 1 .. m /\ t[i] = e
        /\ \A j \in 1 .. m : j # i => t[j] = lb[j]
    BY <1>1, <1>2, <2>4
  <2>6. \A j \in 1 .. m : j # i => lb[j].who # e.who
    BY <1>2, <2>1 DEF NamesOnce
  <2>7. NamesOnce(t)
    BY <1>2, <2>5, <2>6 DEF NamesOnce
  <2>8. \A j \in 1 .. m : t[j] = e \/ (t[j].who # e.who /\ \E k \in 1 .. m : lb[k] = t[j])
    BY <2>5, <2>6
  <2> QED BY <1>2, <2>5, <2>7, <2>8 DEF Enters
<1>5. CASE at = {} /\ m < limit
  <2>1. t = Append(lb, e)
    BY <1>1, <1>3, <1>5 DEF entered
  <2>2. /\ t \in Seq(BoardEntry) /\ DOMAIN t = 1 .. m + 1 /\ t[m + 1] = e
        /\ \A j \in 1 .. m : t[j] = lb[j]
    BY <1>1, <2>1, Appended
  <2>3. \A j \in 1 .. m : lb[j].who # e.who
    BY <1>2, <1>3, <1>5
  <2>4. \A j \in 1 .. m + 1 : j \in 1 .. m \/ j = m + 1
    OBVIOUS
  <2>5. NamesOnce(t)
    <3> SUFFICES ASSUME NEW i \in 1 .. m + 1, NEW j \in 1 .. m + 1, t[i].who = t[j].who PROVE i = j
      BY <2>2 DEF NamesOnce
    <3>1. CASE i \in 1 .. m /\ j \in 1 .. m
      BY <1>2, <2>2, <3>1 DEF NamesOnce
    <3>2. CASE i = m + 1 /\ j = m + 1
      BY <3>2
    <3>3. CASE i \in 1 .. m /\ j = m + 1
      BY <2>2, <2>3, <3>3
    <3>4. CASE i = m + 1 /\ j \in 1 .. m
      BY <2>2, <2>3, <3>4
    <3> QED BY <2>4, <3>1, <3>2, <3>3, <3>4
  <2>6. \A j \in 1 .. m + 1 : t[j] = e \/ (t[j].who # e.who /\ \E k \in 1 .. m : lb[k] = t[j])
    BY <2>2, <2>3, <2>4
  <2> QED BY <1>2, <2>2, <2>5, <2>6 DEF Enters
<1>6. CASE at = {} /\ ~(m < limit)
  <2>1. m \in 1 .. m
    BY <1>6
  <2>2. \A j \in 1 .. m : lb[j].who # e.who
    BY <1>2, <1>3, <1>6
  <2>3. CASE e.n > lb[m].n
    <3>1. t = [lb EXCEPT ![m] = e]
      BY <1>1, <1>3, <1>6, <2>3 DEF entered
    <3>2. /\ t \in Seq(BoardEntry) /\ DOMAIN t = 1 .. m /\ t[m] = e
          /\ \A j \in 1 .. m : j # m => t[j] = lb[j]
      BY <1>1, <1>2, <2>1, <3>1
    <3>3. NamesOnce(t)
      BY <1>2, <2>2, <3>2 DEF NamesOnce
    <3>4. \A j \in 1 .. m : t[j] = e \/ (t[j].who # e.who /\ \E k \in 1 .. m : lb[k] = t[j])
      BY <2>2, <3>2
    <3> QED BY <1>2, <3>2, <3>3, <3>4 DEF Enters
  <2>4. CASE ~(e.n > lb[m].n)
    <3>1. t = lb
      BY <1>1, <1>3, <1>6, <2>4 DEF entered
    <3>2. \A j \in DOMAIN t : t[j].who # e.who /\ \E k \in DOMAIN lb : lb[k] = t[j]
      BY <1>2, <2>2, <3>1
    <3> QED BY <3>1, <3>2 DEF Enters
  <2> QED BY <2>3, <2>4
<1> QED BY <1>4, <1>5, <1>6

-----------------------------------------------------------------------------
(* Streaks of weekly sessions. *)

StreakRecord == [current : Nat, longest : Nat, last : Nat, claimed : BOOLEAN]

\* A learner's record, the weeks counted for it and the number of its claims.
StreakIsSound(r, w, c) ==
    /\ c + (IF r.current > 0 /\ ~r.claimed THEN 1 ELSE 0) <= Cardinality(w)
    /\ IsFiniteSet(w) /\ \A x \in w : x \in Nat /\ x <= r.last
    /\ r.current = 0 => r.last = 0
    /\ \A x \in (r.last - r.current + 1) .. r.last : x \in w \/ x = 0
    /\ r.current > 0 => r.last - r.current \notin w \ {0}
    /\ r.current <= r.longest

BoardAgrees(lb, f) ==
    /\ lb \in Seq(BoardEntry) /\ NamesOnce(lb) /\ Falls(lb)
    /\ \A i \in DOMAIN lb : lb[i].n = f[lb[i].who].current

\* The records x: every streak is sound and the leaderboard names those with the longest, once each.
StreaksHold(x) ==
    /\ x = [record |-> x.record, board |-> x.board, weeks |-> x.weeks, claims |-> x.claims]
    /\ x.record \in [Users -> StreakRecord]
    /\ DOMAIN x.weeks = Users /\ x.weeks = [u \in Users |-> x.weeks[u]]
    /\ x.claims \in [Users -> Seq(Nat)]
    /\ \A u \in Users : StreakIsSound(x.record[u], x.weeks[u], Len(x.claims[u]))
    /\ BoardAgrees(x.board, x.record)

StreaksInv == StreaksHold(streaks)

\* No session has been recorded.
LEMMA StreaksStart == StreaksInit => StreaksInv
<1> SUFFICES ASSUME StreaksInit PROVE StreaksInv
  OBVIOUS
<1>1. PICK r : r = [current |-> 0, longest |-> 0, last |-> 0, claimed |-> FALSE]
  OBVIOUS
<1>2. PICK x : x = streaks
  OBVIOUS
<1>3. x = [record |-> [u \in Users |-> r], board |-> << >>, weeks |-> [u \in Users |-> {}],
           claims |-> [u \in Users |-> << >>]]
  BY <1>1, <1>2 DEF StreaksInit
<1>4. /\ x.record = [u \in Users |-> r] /\ x.board = << >> /\ x.weeks = [u \in Users |-> {}]
      /\ x.claims = [u \in Users |-> << >>]
      /\ x = [record |-> x.record, board |-> x.board, weeks |-> x.weeks, claims |-> x.claims]
  BY <1>3
<1>5. r \in StreakRecord /\ r.current = 0 /\ r.longest = 0 /\ r.last = 0
  BY <1>1 DEF StreakRecord
<1>6. << >> \in Seq(Nat) /\ << >> \in Seq(BoardEntry) /\ Len(<< >>) = 0 /\ DOMAIN << >> = {}
  OBVIOUS
<1>7. x.record \in [Users -> StreakRecord] /\ x.claims \in [Users -> Seq(Nat)]
  BY <1>4, <1>5, <1>6
<1>8. DOMAIN x.weeks = Users /\ x.weeks = [u \in Users |-> x.weeks[u]]
  BY <1>4
<1>9. StreakIsSound(r, {}, 0)
  <2>1. IsFiniteSet({}) /\ Cardinality({}) = 0
    BY FS_EmptySet
  <2>2. \A y \in (0 - 0 + 1) .. 0 : FALSE
    OBVIOUS
  <2> QED BY <1>5, <2>1, <2>2 DEF StreakIsSound
<1>10. \A u \in Users : StreakIsSound(x.record[u], x.weeks[u], Len(x.claims[u]))
  <2> SUFFICES ASSUME NEW u \in Users PROVE StreakIsSound(x.record[u], x.weeks[u], Len(x.claims[u]))
    OBVIOUS
  <2>1. x.record[u] = r /\ x.weeks[u] = {} /\ x.claims[u] = << >>
    BY <1>4
  <2> QED BY <1>6, <1>9, <2>1
<1>11. BoardAgrees(x.board, x.record)
  BY <1>4, <1>6 DEF BoardAgrees, NamesOnce, Falls
<1> QED BY <1>2, <1>4, <1>7, <1>8, <1>10, <1>11 DEF StreaksInv, StreaksHold

\* The greater of two numbers.
LEMMA MaxOfTwo ==
  ASSUME NEW a \in Int, NEW b \in Int
  PROVE  Max({a, b}) = IF a >= b THEN a ELSE b
<1>1. PICK x : x = IF a >= b THEN a ELSE b
  OBVIOUS
<1>2. x \in {a, b} /\ \A y \in {a, b} : x >= y
  BY <1>1
<1>3. \A z \in {a, b} : (\A y \in {a, b} : z >= y) => z = x
  BY <1>1
<1>4. Max({a, b}) = x
  BY <1>2, <1>3 DEF Max
<1> QED BY <1>1, <1>4

\* A learner's streak and claims change.
LEMMA StreakChanges ==
  ASSUME StreaksInv, NEW u \in Users, NEW r \in StreakRecord, NEW w, NEW c \in Seq(Nat),
         StreakIsSound(r, w, Len(c)), NEW lb, BoardAgrees(lb, [streaks.record EXCEPT ![u] = r]),
         NEW x, x = [record |-> [streaks.record EXCEPT ![u] = r], board |-> lb,
                     weeks |-> [streaks.weeks EXCEPT ![u] = w], claims |-> [streaks.claims EXCEPT ![u] = c]]
  PROVE  StreaksHold(x)
<1>1. PICK f : f = streaks.record
  OBVIOUS
<1>2. PICK g : g = streaks.weeks
  OBVIOUS
<1>3. PICK h : h = streaks.claims
  OBVIOUS
<1>4. /\ f \in [Users -> StreakRecord] /\ DOMAIN g = Users /\ g = [v \in Users |-> g[v]]
      /\ h \in [Users -> Seq(Nat)]
      /\ \A v \in Users : StreakIsSound(f[v], g[v], Len(h[v]))
  BY <1>1, <1>2, <1>3 DEF StreaksInv, StreaksHold
<1>5. /\ x.record = [f EXCEPT ![u] = r] /\ x.weeks = [g EXCEPT ![u] = w]
      /\ x.claims = [h EXCEPT ![u] = c] /\ x.board = lb
      /\ x = [record |-> x.record, board |-> x.board, weeks |-> x.weeks, claims |-> x.claims]
  BY <1>1, <1>2, <1>3
<1>6. x.record \in [Users -> StreakRecord] /\ x.claims \in [Users -> Seq(Nat)]
  BY <1>4, <1>5
<1>7. x.weeks = [v \in Users |-> IF v = u THEN w ELSE g[v]]
  BY <1>4, <1>5
<1>8. DOMAIN x.weeks = Users /\ x.weeks = [v \in Users |-> x.weeks[v]]
  BY <1>7
<1>9. ASSUME NEW v \in Users PROVE StreakIsSound(x.record[v], x.weeks[v], Len(x.claims[v]))
  <2>1. CASE v = u
    <3>1. x.record[v] = r /\ x.weeks[v] = w /\ x.claims[v] = c
      BY <1>4, <1>5, <1>7, <2>1
    <3> QED BY <3>1
  <2>2. CASE v # u
    <3>1. x.record[v] = f[v] /\ x.weeks[v] = g[v] /\ x.claims[v] = h[v]
      BY <1>4, <1>5, <1>7, <2>2
    <3> QED BY <1>4, <3>1
  <2> QED BY <2>1, <2>2
<1>10. BoardAgrees(x.board, x.record)
  BY <1>1, <1>5
<1> QED BY <1>5, <1>6, <1>8, <1>9, <1>10 DEF StreaksHold

\* A leaderboard that a learner's streak changes agrees with the records.
LEMMA BoardUpdates ==
  ASSUME NEW f \in [Users -> StreakRecord], NEW lb, BoardAgrees(lb, f), NEW u \in Users,
         NEW r \in StreakRecord, NEW c, c = r.current, NEW t, t = update_leaderboard(lb, u, c)
  PROVE  BoardAgrees(t, [f EXCEPT ![u] = r])
<1>1. PICK g : g = [f EXCEPT ![u] = r]
  OBVIOUS
<1>2. \A v \in Users : g[v] = IF v = u THEN r ELSE f[v]
  BY <1>1
<1>3. /\ lb \in Seq(BoardEntry) /\ NamesOnce(lb) /\ Falls(lb)
      /\ \A i \in DOMAIN lb : lb[i].n = f[lb[i].who].current
  BY DEF BoardAgrees
<1>4. \A i \in DOMAIN lb : lb[i] \in BoardEntry /\ lb[i].who \in Users
  <2>1. \A i \in DOMAIN lb : lb[i] \in BoardEntry
    BY <1>3
  <2>2. \A x \in BoardEntry : x.who \in Users
    BY DEF BoardEntry
  <2> QED BY <2>1, <2>2
<1>5. c \in Nat
  BY DEF StreakRecord
<1>6. PICK e : e = [who |-> u, n |-> c]
  OBVIOUS
<1>7. e \in BoardEntry /\ e.who = u /\ e.n = c
  BY <1>5, <1>6 DEF BoardEntry
<1>8. PICK next : next = entered(lb, e, StreakBoard)
  OBVIOUS
<1>9. PICK limit \in Nat \ {0} : limit = StreakBoard
  BY RewardsAssumption
<1>10. /\ next \in Seq(BoardEntry) /\ NamesOnce(next)
       /\ \A i \in DOMAIN next : next[i] = e \/ (next[i].who # e.who /\ \E j \in DOMAIN lb : lb[j] = next[i])
  <2>1. next = entered(lb, e, limit) /\ lb \in Seq(BoardEntry) /\ NamesOnce(lb) /\ e \in BoardEntry
    BY <1>3, <1>7, <1>8, <1>9
  <2>2. Enters(next, lb, e)
    BY ONLY <1>9, <2>1, EnteredOnce
  <2> QED BY <2>2 DEF Enters
<1>11. CASE (\A i \in DOMAIN lb : lb[i].who # u) /\ next = lb
  <2>1. t = lb
    BY <1>6, <1>8, <1>11 DEF update_leaderboard
  <2>2. \A i \in DOMAIN lb : lb[i].n = g[lb[i].who].current
    BY <1>2, <1>3, <1>4, <1>11
  <2> QED BY <1>1, <1>3, <2>1, <2>2 DEF BoardAgrees
<1>12. CASE ~((\A i \in DOMAIN lb : lb[i].who # u) /\ next = lb)
  <2>1. t = sort_leaderboard(next)
    BY <1>6, <1>8, <1>12 DEF update_leaderboard
  <2>2. PICK m : m = Len(next)
    OBVIOUS
  <2>3. Falls(t) /\ m \in Nat /\ \E pi : Permuted(t, next, pi, m)
    BY <1>10, <2>1, <2>2, Sorted
  <2>4. PICK pi : Permuted(t, next, pi, m)
    BY <2>3
  <2>5. /\ t \in Seq(BoardEntry) /\ DOMAIN t = 1 .. m
        /\ \A k \in 1 .. m : pi[k] \in 1 .. m /\ t[k] = next[pi[k]]
        /\ \A j, k \in 1 .. m : pi[j] = pi[k] => j = k
    BY <2>4 DEF Permuted
  <2>6. DOMAIN next = 1 .. m
    BY <1>10, <2>2
  <2>7. NamesOnce(t)
    <3> SUFFICES ASSUME NEW i \in 1 .. m, NEW j \in 1 .. m, t[i].who = t[j].who PROVE i = j
      BY <2>5 DEF NamesOnce
    <3>1. pi[i] \in DOMAIN next /\ pi[j] \in DOMAIN next /\ next[pi[i]].who = next[pi[j]].who
      BY <2>5, <2>6
    <3>2. pi[i] = pi[j]
      BY <1>10, <3>1 DEF NamesOnce
    <3> QED BY <2>5, <3>2
  <2>8. ASSUME NEW i \in DOMAIN next PROVE next[i].n = g[next[i].who].current
    <3>1. CASE next[i] = e
      BY <1>2, <1>7, <3>1
    <3>2. CASE next[i] # e
      <4>1. next[i].who # u /\ \E j \in DOMAIN lb : lb[j] = next[i]
        BY <1>7, <1>10, <3>2
      <4>2. PICK j \in DOMAIN lb : lb[j] = next[i]
        BY <4>1
      <4> QED BY <1>2, <1>3, <1>4, <4>1, <4>2
    <3> QED BY <3>1, <3>2
  <2>9. \A k \in DOMAIN t : t[k].n = g[t[k].who].current
    BY <2>5, <2>6, <2>8
  <2> QED BY <1>1, <2>3, <2>5, <2>7, <2>9 DEF BoardAgrees
<1> QED BY <1>11, <1>12

\* The invariant reads the streaks only.
LEMMA StreaksRest == StreaksInv /\ UNCHANGED streaks => StreaksInv'
<1> SUFFICES ASSUME StreaksInv, UNCHANGED streaks PROVE StreaksInv'
  OBVIOUS
<1> QED BY DEF StreaksInv, StreaksHold, StreakIsSound, BoardAgrees, NamesOnce, Falls, BoardEntry, StreakRecord

\* The streak of a learner is the run of weeks behind it, as StreaksAreWeeks says.
LEMMA StreaksAgree == StreaksInv => StreaksAreWeeks
<1> SUFFICES ASSUME StreaksInv PROVE StreaksAreWeeks
  OBVIOUS
<1>1. PICK f : f = streaks.record
  OBVIOUS
<1>2. PICK g : g = streaks.weeks
  OBVIOUS
<1>3. PICK h : h = streaks.claims
  OBVIOUS
<1>4. PICK lb : lb = streaks.board
  OBVIOUS
<1>5. f \in [Users -> StreakRecord] /\ h \in [Users -> Seq(Nat)]
  BY <1>1, <1>3 DEF StreaksInv, StreaksHold
<1>6. \A u \in Users : StreakIsSound(f[u], g[u], Len(h[u]))
  BY <1>1, <1>2, <1>3 DEF StreaksInv, StreaksHold
<1>7. BoardAgrees(lb, f)
  BY <1>1, <1>4 DEF StreaksInv, StreaksHold
<1>8. ASSUME NEW u \in Users
      PROVE  /\ Len(h[u]) <= Cardinality(g[u])
             /\ (f[u].last - f[u].current + 1)..f[u].last \subseteq g[u] \cup {0}
             /\ f[u].current > 0 => f[u].last - f[u].current \notin g[u] \ {0}
             /\ f[u].current <= f[u].longest
  <2>1. PICK r \in StreakRecord : r = f[u]
    BY <1>5
  <2>2. PICK w : w = g[u]
    OBVIOUS
  <2>3. PICK c \in Nat : c = Len(h[u])
    BY <1>5
  <2>4. StreakIsSound(r, w, c)
    BY <1>6, <2>1, <2>2, <2>3
  <2>5. c <= Cardinality(w)
    <3>1. Cardinality(w) \in Nat
      BY <2>4, FS_CardinalityType DEF StreakIsSound
    <3>2. c <= Cardinality(w) \/ c + 1 <= Cardinality(w)
      BY <2>4 DEF StreakIsSound
    <3> QED BY <3>1, <3>2
  <2>6. /\ (r.last - r.current + 1)..r.last \subseteq w \cup {0}
        /\ r.current > 0 => r.last - r.current \notin w \ {0}
        /\ r.current <= r.longest
    BY <2>4 DEF StreakIsSound
  <2> QED BY <2>1, <2>2, <2>3, <2>5, <2>6
<1>9. \A i \in DOMAIN lb : lb[i].n = f[lb[i].who].current
  BY <1>7 DEF BoardAgrees
<1>10. \A i, j \in DOMAIN lb : i < j => lb[i].who # lb[j].who /\ lb[i].n >= lb[j].n
  <2>1. DOMAIN lb = 1 .. Len(lb) /\ Len(lb) \in Nat
    BY <1>7 DEF BoardAgrees
  <2>2. \A i, j \in DOMAIN lb : i < j => lb[i].n >= lb[j].n
    BY <1>7 DEF BoardAgrees, Falls
  <2>3. \A i, j \in DOMAIN lb : i < j => i # j
    BY <2>1
  <2>4. \A i, j \in DOMAIN lb : lb[i].who = lb[j].who => i = j
    BY <1>7 DEF BoardAgrees, NamesOnce
  <2> QED BY <2>2, <2>3, <2>4
<1> QED BY <1>1, <1>2, <1>3, <1>4, <1>8, <1>9, <1>10 DEF StreaksAreWeeks

\* The record of a learner after a session in a week that counts.
after_session(r, week) ==
    [extended(r, week) EXCEPT !.last = week,
                              !.longest = Max({extended(r, week).current, extended(r, week).longest})]

\* A week that counts keeps a learner's streak sound.
LEMMA WeekCounts ==
  ASSUME NEW r \in StreakRecord, NEW w, NEW c \in Nat, StreakIsSound(r, w, c), NEW week \in Nat,
         NEW x, x = extended(r, week), x # r, NEW y, y = after_session(r, week), NEW v, v = w \cup {week}
  PROVE  y \in StreakRecord /\ y.current = x.current /\ StreakIsSound(y, v, c)
<1>1. /\ r.current \in Nat /\ r.longest \in Nat /\ r.last \in Nat /\ r.claimed \in BOOLEAN
      /\ r = [current |-> r.current, longest |-> r.longest, last |-> r.last, claimed |-> r.claimed]
  <2>1. \A z \in StreakRecord : /\ z.current \in Nat /\ z.longest \in Nat /\ z.last \in Nat
                                /\ z.claimed \in BOOLEAN
                                /\ z = [current |-> z.current, longest |-> z.longest, last |-> z.last,
                                        claimed |-> z.claimed]
    BY DEF StreakRecord
  <2> QED BY <2>1
<1>2. PICK n : n = IF week = r.last + 1 THEN r.current + 1 ELSE 1
  OBVIOUS
<1>3. week > r.last /\ x = [r EXCEPT !.current = n, !.claimed = FALSE]
  <2>1. CASE week = r.last + 1
    BY <1>1, <1>2, <2>1 DEF extended
  <2>2. CASE week > r.last + 1
    <3>1. week # r.last + 1 /\ week > r.last
      BY <1>1, <2>2
    <3> QED BY <1>2, <2>2, <3>1 DEF extended
  <2>3. CASE ~(week = r.last + 1) /\ ~(week > r.last + 1)
    BY <2>3 DEF extended
  <2> QED BY <2>1, <2>2, <2>3
<1>4. n \in Nat \ {0}
  BY <1>1, <1>2
<1>5. x = [current |-> n, longest |-> r.longest, last |-> r.last, claimed |-> FALSE]
  BY <1>1, <1>3
<1>6. x.current = n /\ x.longest = r.longest
  BY <1>5
<1>21. PICK l : l = Max({x.current, x.longest})
  OBVIOUS
<1>7. y = [x EXCEPT !.last = week, !.longest = l]
  BY <1>21 DEF after_session
<1>8. l \in Nat /\ n <= l
  <2>1. n \in Int /\ r.longest \in Int
    BY <1>1, <1>4
  <2>2. l = IF n >= r.longest THEN n ELSE r.longest
    BY <1>6, <1>21, <2>1, MaxOfTwo
  <2> QED BY <1>1, <1>4, <2>2
<1>9. y = [current |-> n, longest |-> l, last |-> week, claimed |-> FALSE]
  BY ONLY <1>5, <1>7
<1>10. y.current = n /\ y.longest = l /\ y.last = week /\ y.claimed = FALSE
  BY ONLY <1>9
<1>11. y \in StreakRecord
  <2>1. week \in Nat
    OBVIOUS
  <2> QED BY ONLY <1>4, <1>8, <1>9, <2>1 DEF StreakRecord
<1>12. /\ c <= Cardinality(w) /\ Cardinality(w) \in Nat
       /\ IsFiniteSet(w) /\ \A z \in w : z \in Nat /\ z <= r.last
       /\ r.current = 0 => r.last = 0
       /\ \A z \in (r.last - r.current + 1) .. r.last : z \in w \/ z = 0
       /\ r.current > 0 => r.last - r.current \notin w \ {0}
  <2>1. IsFiniteSet(w)
    BY DEF StreakIsSound
  <2>2. Cardinality(w) \in Nat
    BY <2>1, FS_CardinalityType
  <2>3. c <= Cardinality(w) \/ c + 1 <= Cardinality(w)
    BY DEF StreakIsSound
  <2> QED BY <2>1, <2>2, <2>3 DEF StreakIsSound
<1>13. v = w \cup {week}
  OBVIOUS
<1>14. week \notin w
  BY <1>1, <1>3, <1>12
<1>15. IsFiniteSet(v) /\ Cardinality(v) = Cardinality(w) + 1
  BY <1>12, <1>13, <1>14, FS_AddElement
<1>16. c + 1 <= Cardinality(v)
  BY <1>12, <1>15
<1>17. \A z \in v : z \in Nat /\ z <= week
  BY <1>1, <1>3, <1>12, <1>13
<1>18. \A z \in (week - n + 1) .. week : z \in v \/ z = 0
  <2>1. CASE week = r.last + 1
    <3>1. n = r.current + 1
      BY <1>2, <2>1
    <3>2. \A z \in (week - n + 1) .. week : z \in (r.last - r.current + 1) .. r.last \/ z = week
      BY <1>1, <2>1, <3>1
    <3> QED BY <1>12, <1>13, <3>2
  <2>2. CASE week # r.last + 1
    <3>1. n = 1
      BY <1>2, <2>2
    <3>2. \A z \in (week - n + 1) .. week : z = week
      BY <3>1
    <3> QED BY <1>13, <3>2
  <2> QED BY <2>1, <2>2
<1>19. week - n \notin v \ {0}
  <2>1. CASE week = r.last + 1
    <3>1. n = r.current + 1 /\ week - n = r.last - r.current /\ week - n # week
      BY <1>1, <1>2, <2>1
    <3>2. CASE r.current > 0
      BY <1>12, <1>13, <3>1, <3>2
    <3>3. CASE r.current = 0
      <4>1. week - n = 0
        BY <1>1, <1>12, <3>1, <3>3
      <4> QED BY <4>1
    <3> QED BY <1>1, <3>2, <3>3
  <2>2. CASE week # r.last + 1
    <3>1. n = 1 /\ week > r.last + 1
      BY <1>1, <1>2, <1>3, <2>2
    <3>2. week - 1 \notin w /\ week - 1 # week
      BY <1>1, <1>12, <3>1
    <3> QED BY <1>13, <3>1, <3>2
  <2> QED BY <2>1, <2>2
<1>20. StreakIsSound(y, v, c)
  BY <1>4, <1>8, <1>10, <1>15, <1>16, <1>17, <1>18, <1>19 DEF StreakIsSound
<1> QED BY <1>6, <1>10, <1>11, <1>13, <1>20

\* A reward uses up the week that it was not claimed for.
LEMMA RewardClaimed ==
  ASSUME NEW r \in StreakRecord, NEW w, NEW c \in Nat, StreakIsSound(r, w, c), ~r.claimed, r.current > 0,
         NEW y, y = [r EXCEPT !.claimed = TRUE]
  PROVE  y \in StreakRecord /\ y.current = r.current /\ StreakIsSound(y, w, c + 1)
<1>1. /\ r.current \in Nat /\ r.longest \in Nat /\ r.last \in Nat /\ r.claimed \in BOOLEAN
      /\ r = [current |-> r.current, longest |-> r.longest, last |-> r.last, claimed |-> r.claimed]
  <2>1. \A z \in StreakRecord : /\ z.current \in Nat /\ z.longest \in Nat /\ z.last \in Nat
                                /\ z.claimed \in BOOLEAN
                                /\ z = [current |-> z.current, longest |-> z.longest, last |-> z.last,
                                        claimed |-> z.claimed]
    BY DEF StreakRecord
  <2> QED BY <2>1
<1>2. y = [current |-> r.current, longest |-> r.longest, last |-> r.last, claimed |-> TRUE]
  BY <1>1
<1>3. y.current = r.current /\ y.longest = r.longest /\ y.last = r.last /\ y.claimed = TRUE
  BY <1>2
<1>4. y \in StreakRecord
  BY <1>1, <1>2 DEF StreakRecord
<1>5. IsFiniteSet(w) /\ Cardinality(w) \in Nat /\ c + 1 <= Cardinality(w)
  <2>1. IsFiniteSet(w)
    BY DEF StreakIsSound
  <2>2. c + (IF r.current > 0 /\ ~r.claimed THEN 1 ELSE 0) <= Cardinality(w)
    BY DEF StreakIsSound
  <2> QED BY <2>1, <2>2, FS_CardinalityType
<1>6. StreakIsSound(y, w, c + 1)
  <2>1. (c + 1) + (IF y.current > 0 /\ ~y.claimed THEN 1 ELSE 0) <= Cardinality(w)
    BY <1>3, <1>5
  <2> QED BY <1>3, <2>1 DEF StreakIsSound
<1> QED BY <1>3, <1>4, <1>6

\* Every call of the streak contract keeps its invariant.
LEMMA StreaksStep == StreaksInv /\ StreaksNext => StreaksInv'
<1> SUFFICES ASSUME StreaksInv, StreaksNext PROVE StreaksInv'
  OBVIOUS
<1>1. PICK f : f = streaks.record
  OBVIOUS
<1>2. PICK g : g = streaks.weeks
  OBVIOUS
<1>3. PICK h : h = streaks.claims
  OBVIOUS
<1>4. PICK lb : lb = streaks.board
  OBVIOUS
<1>5. /\ f \in [Users -> StreakRecord] /\ h \in [Users -> Seq(Nat)]
      /\ DOMAIN g = Users /\ g = [v \in Users |-> g[v]]
      /\ \A u \in Users : StreakIsSound(f[u], g[u], Len(h[u]))
      /\ BoardAgrees(lb, f)
      /\ streaks = [record |-> f, board |-> lb, weeks |-> g, claims |-> h]
  BY <1>1, <1>2, <1>3, <1>4 DEF StreaksInv, StreaksHold
<1>6. PICK x : x = streaks'
  OBVIOUS
<1>7. ASSUME NEW u \in Users, claim_streak_reward(u) PROVE StreaksInv'
  <2>1. PICK r \in StreakRecord : r = f[u]
    BY <1>5
  <2>2. PICK w : w = g[u]
    OBVIOUS
  <2>3. PICK d \in Seq(Nat) : d = h[u]
    BY <1>5
  <2>4. PICK c \in Nat : c = Len(d)
    OBVIOUS
  <2>5. ~r.claimed /\ r.current > 0
    BY <1>1, <1>7, <2>1 DEF claim_streak_reward
  <2>6. PICK n \in Nat : n = streak_reward(r.current)
    BY DEF streak_reward
  <2>7. PICK y : y = [r EXCEPT !.claimed = TRUE]
    OBVIOUS
  <2>8. StreakIsSound(r, w, c)
    BY <1>5, <2>1, <2>2, <2>3, <2>4
  <2>9. y \in StreakRecord /\ y.current = r.current /\ StreakIsSound(y, w, c + 1)
    BY ONLY <2>5, <2>7, <2>8, RewardClaimed
  <2>10. PICK e : e = Append(d, n)
    OBVIOUS
  <2>11. e \in Seq(Nat) /\ Len(e) = c + 1
    BY <2>4, <2>10
  <2>12. x = [streaks EXCEPT !.record[u].claimed = TRUE, !.claims[u] = Append(streaks.claims[u], n)]
    BY <1>1, <1>6, <1>7, <2>1, <2>6 DEF claim_streak_reward
  <2>13. x = [record |-> [f EXCEPT ![u] = y], board |-> lb, weeks |-> g, claims |-> [h EXCEPT ![u] = e]]
    <3>1. e = Append(streaks.claims[u], n)
      BY <1>3, <2>3, <2>10
    <3>2. x = [streaks EXCEPT !.record[u].claimed = TRUE, !.claims[u] = e]
      BY <2>12, <3>1
    <3>3. streaks = [record |-> f, board |-> lb, weeks |-> g, claims |-> h] /\ DOMAIN f = Users
      BY <1>5
    <3>4. x = [record |-> [f EXCEPT ![u] = [f[u] EXCEPT !.claimed = TRUE]], board |-> lb, weeks |-> g,
               claims |-> [h EXCEPT ![u] = e]]
      BY ONLY <3>2, <3>3
    <3> QED BY <2>1, <2>7, <3>4
  <2>14. g = [g EXCEPT ![u] = w]
    BY <1>5, <2>2
  <2>15. BoardAgrees(lb, [f EXCEPT ![u] = y])
    <3>1. PICK k : k = [f EXCEPT ![u] = y]
      OBVIOUS
    <3>2. \A v \in Users : k[v].current = f[v].current
      BY <1>5, <2>1, <2>9, <3>1
    <3>3. \A i \in DOMAIN lb : lb[i].who \in Users /\ lb[i].n = f[lb[i].who].current
      <4>1. \A i \in DOMAIN lb : lb[i] \in BoardEntry
        BY <1>5 DEF BoardAgrees
      <4>2. \A z \in BoardEntry : z.who \in Users
        BY DEF BoardEntry
      <4> QED BY <1>5, <4>1, <4>2 DEF BoardAgrees
    <3>4. \A i \in DOMAIN lb : lb[i].n = k[lb[i].who].current
      BY <3>2, <3>3
    <3> QED BY <1>5, <3>1, <3>4 DEF BoardAgrees
  <2>16. x = [record |-> [streaks.record EXCEPT ![u] = y], board |-> lb,
              weeks |-> [streaks.weeks EXCEPT ![u] = w], claims |-> [streaks.claims EXCEPT ![u] = e]]
    BY <1>1, <1>2, <1>3, <2>13, <2>14
  <2>17. StreakIsSound(y, w, Len(e))
    BY <2>9, <2>11
  <2>18. BoardAgrees(lb, [streaks.record EXCEPT ![u] = y])
    BY <1>1, <2>15
  <2>19. StreaksHold(x)
    BY <2>9, <2>11, <2>16, <2>17, <2>18, StreakChanges
  <2> QED BY <1>6, <2>19 DEF StreaksInv, StreaksHold
<1>8. ASSUME NEW u \in Users, NEW week \in 0 .. StreakWeeks, record_session(u, week) PROVE StreaksInv'
  <2>1. PICK r \in StreakRecord : r = f[u]
    BY <1>5
  <2>2. PICK w : w = g[u]
    OBVIOUS
  <2>3. PICK d \in Seq(Nat) : d = h[u]
    BY <1>5
  <2>4. PICK c \in Nat : c = Len(d)
    OBVIOUS
  <2>5. PICK z : z = extended(r, week)
    OBVIOUS
  <2>6. PICK y : y = after_session(r, week)
    OBVIOUS
  <2>7. z # r
    BY <1>1, <1>8, <2>1, <2>5 DEF record_session
  <2>8. StreakIsSound(r, w, c)
    BY <1>5, <2>1, <2>2, <2>3, <2>4
  <2>9. week \in Nat
    OBVIOUS
  <2>10. PICK v : v = w \cup {week}
    OBVIOUS
  <2>11. y \in StreakRecord /\ y.current = z.current /\ StreakIsSound(y, v, c)
    BY ONLY <2>1, <2>4, <2>5, <2>6, <2>7, <2>8, <2>9, <2>10, WeekCounts
  <2>12. PICK t : t = update_leaderboard(lb, u, z.current)
    OBVIOUS
  <2>13. BoardAgrees(t, [f EXCEPT ![u] = y])
    <3>1. PICK n : n = y.current
      OBVIOUS
    <3>2. t = update_leaderboard(lb, u, n)
      BY <2>11, <2>12, <3>1
    <3> QED BY <1>5, <2>11, <3>1, <3>2, BoardUpdates
  <2>14. x = [streaks EXCEPT !.record[u] = y, !.board = t, !.weeks[u] = v]
    BY <1>1, <1>2, <1>4, <1>6, <1>8, <2>1, <2>2, <2>5, <2>6, <2>10, <2>12 DEF record_session, after_session
  <2>15. x = [record |-> [f EXCEPT ![u] = y], board |-> t, weeks |-> [g EXCEPT ![u] = v], claims |-> h]
    BY <1>5, <2>14
  <2>16. h = [h EXCEPT ![u] = d]
    BY <1>5, <2>3
  <2>17. x = [record |-> [streaks.record EXCEPT ![u] = y], board |-> t,
              weeks |-> [streaks.weeks EXCEPT ![u] = v], claims |-> [streaks.claims EXCEPT ![u] = d]]
    BY <1>1, <1>2, <1>3, <2>15, <2>16
  <2>18. StreakIsSound(y, v, Len(d))
    BY <2>4, <2>11
  <2>19. BoardAgrees(t, [streaks.record EXCEPT ![u] = y])
    BY <1>1, <2>13
  <2>20. StreaksHold(x)
    BY <2>11, <2>17, <2>18, <2>19, StreakChanges
  <2> QED BY <1>6, <2>20 DEF StreaksInv, StreaksHold
<1> QED BY <1>7, <1>8 DEF StreaksNext

-----------------------------------------------------------------------------
(* The contracts together. *)

\* The insurance pool starts without shares.
LEMMA InsuranceStarts == InsuranceInit => InsuranceInv
<1> SUFFICES ASSUME InsuranceInit PROVE InsuranceInv
  OBVIOUS
<1>1. provider_shares = [p \in Providers |-> 0]
  BY DEF InsuranceInit
<1>2. SumFunctionOnSet(provider_shares, Providers) = 0
  BY <1>1, InsuranceAssumption, SumZero
<1> QED BY <1>1, <1>2 DEF InsuranceInit, InsuranceInv, SharesAreTheCover

\* The insurance pool's books do not depend on the clock.
LEMMA InsuranceKeeps ==
  ASSUME InsuranceInv, InsuranceNext \/ UNCHANGED insurance_vars
  PROVE  InsuranceInv'
<1>1. CASE InsuranceNext
  BY <1>1, InsuranceStep
<1>2. CASE UNCHANGED insurance_vars
  BY <1>2 DEF insurance_vars, InsuranceInv, SharesAreTheCover
<1> QED BY <1>1, <1>2

\* The clock stands still in a call and moves on by one between two.
LEMMA TreasuryClock == TreasuryNext => ClockMoves
BY DEF TreasuryNext, deposit, receive, allocate, distribute_to_stakers, batch_allocate, distribute_fee_revenue,
       set_multisig_threshold, approve_pending_allocation, schedule_staker_distribution,
       set_require_sched_distrib, treasury_propose_admin_change, add_authorized_caller,
       accept_admin_change, treasury_revoke_admin_emergency, cancel_admin_change, TreasuryTick,
       CloseLedger, ClockMoves

\* So it does in the buybacks,
LEMMA BuybackClock == BuybackNext => ClockMoves
BY DEF BuybackNext, defer_buyback, buyback_and_burn, settle_swap, execute_burn_queue, set_auto_burn_rate,
       BuybackTick, CloseLedger, ClockMoves

\* in staking,
LEMMA StakingClock == StakingNext => ClockMoves
BY DEF StakingNext, stake, unstake, claim_rewards, distribute_revenue, receive_treasury_distribution,
       distribute_revenue_batch, migrate_stakers, snapshot_state, rollback_to_snapshot,
       StakingTick, CloseLedger, ClockMoves

\* in the lending pool,
LEMMA LendingClock == LendingNext => ClockMoves
<1> USE DEF ClockMoves
<1>1. ASSUME NEW l \in PoolLenders, NEW a \in PoolAmounts, deposit_liquidity(l, a) \/ withdraw(l, a)
      PROVE  ClockMoves
  BY <1>1 DEF deposit_liquidity, withdraw
<1>2. ASSUME NEW l \in PoolLenders, NEW a \in PoolYields, distribute_yield(l, a) \/ accrue_yield(a)
      PROVE  ClockMoves
  BY <1>2 DEF distribute_yield, accrue_yield
<1>3. ASSUME NEW b \in PoolBorrowers, NEW a \in PoolAmounts,
             NEW rate \in InterestRates, borrow(b, a, rate)
      PROVE  ClockMoves
  BY <1>3 DEF borrow
<1>4. ASSUME NEW b \in PoolBorrowers, repay(b) \/ liquidate(b) \/ force_liquidate(b) PROVE ClockMoves
  BY <1>4 DEF repay, liquidate, force_liquidate
<1>5. ASSUME NEW b \in PoolBorrowers, start_liquidation_auction(b) \/ execute_liquidation(b)
      PROVE  ClockMoves
  BY <1>5 DEF start_liquidation_auction, execute_liquidation
<1>6. ASSUME NEW a \in PoolYields, accrue_yield(a) PROVE ClockMoves
  BY <1>6 DEF accrue_yield
<1>7. LendingTick => ClockMoves
  BY DEF LendingTick, CloseLedger
<1> QED BY <1>1, <1>2, <1>3, <1>4, <1>5, <1>6, <1>7 DEF LendingNext

\* in the market of collateral,
LEMMA CollateralClock == CollateralNext => ClockMoves
BY DEF CollateralNext, add_collateral, open_loan, repay_loan, liquidate_position, oracle_price,
       set_halted, set_max_price_staleness, CollateralTick, CloseLedger, ClockMoves

\* in vesting,
LEMMA VestingClock == VestingNext => ClockMoves
BY DEF VestingNext, create_schedule, claim_vesting_merkle, claim, revoke, VestingTick, CloseLedger, ClockMoves

\* in the insurance pool,
LEMMA InsuranceClock == InsuranceNext => ClockMoves
BY DEF InsuranceNext, insurance_deposit, insurance_withdraw, insurance_accrue_yield, set_withdraw_lock,
       insurance_claim, InsuranceTick, CloseLedger, ClockMoves

\* with bounties,
LEMMA BountyClock == BountyNext => ClockMoves
<1> USE DEF ClockMoves
<1>1. ASSUME NEW r \in BountyRewards, NEW s \in MilestoneShares, NEW p \in BountyDeadlines,
             post_bounty(r, s, p)
      PROVE  ClockMoves
  BY <1>1 DEF post_bounty
<1>2. ASSUME NEW id \in DOMAIN bounties, NEW l \in BountyLearners, claim_bounty(l, id) PROVE ClockMoves
  BY <1>2 DEF claim_bounty
<1>3. ASSUME NEW id \in DOMAIN bounties, NEW l \in BountyLearners, verify_completion(l, id)
      PROVE  ClockMoves
  BY <1>3 DEF verify_completion
<1>4. ASSUME NEW id \in DOMAIN bounties, NEW l \in BountyLearners, NEW i, verify_milestone(l, id, i)
      PROVE  ClockMoves
  BY <1>4 DEF verify_milestone
<1>5. ASSUME NEW id \in DOMAIN bounties, NEW l \in BountyLearners, dispute_completion(l, id)
      PROVE  ClockMoves
  BY <1>5 DEF dispute_completion
<1>6. ASSUME NEW id \in DOMAIN bounties, refund_bounty(id) PROVE ClockMoves
  BY <1>6 DEF refund_bounty
<1>7. BountyTick => ClockMoves
  BY DEF BountyTick, CloseLedger
<1> QED BY <1>1, <1>2, <1>3, <1>4, <1>5, <1>6, <1>7 DEF BountyNext

\* with subscriptions,
LEMMA SubscriptionClock == SubscriptionNext => ClockMoves
BY DEF SubscriptionNext, subscribe, renew_expires, renew, cancel_subscription, pause_subscription,
       use_session, check_expiry, authorize_renewal, subscribe_streaming, withdraw_earned, cancel_streaming,
       SubscriptionTick, CloseLedger, ClockMoves

\* The bridge and the operations across chains leave each other's books alone.
LEMMA BridgeClock ==
  BridgeNext => ClockMoves /\ UNCHANGED <<funded, used_nonces, xchain_vars>>
BY DEF BridgeNext, receive_bridged_asset, route_bridged, set_router, router_admin, router_chain_admin,
       schedule_escrow_contract, set_escrow_contract, set_bridge_chains, set_l2, BridgeTick, CloseLedger,
       ClockMoves, bridge_vars

\* The operations across chains leave the bridge's books alone.
LEMMA XChainClock ==
  XChainNext => ClockMoves /\ UNCHANGED <<vaa_list, processed_vaas, minted, router_vars>>
BY DEF XChainNext, receive_and_fund_escrow, begin_bridge_atomic_op, acknowledge_bridge_prepare,
       confirm_bridge_commit, rollback_bridge_op, confirm_bridge_rollback, set_relayer, ChainControl,
       emergency_isolate_chain, lift_bridge_chain_isolation, XChainTick, CloseLedger, ClockMoves, bridge_vars

\* And with the contracts that reward.
LEMMA RewardsClock ==
  ASSUME \/ ReferralNext \/ BondsNext \/ IsasNext \/ MarketsNext \/ StreaksNext
         \/ AllowancesNext \/ UpkeepNext
  PROVE  ClockMoves
BY DEF ReferralNext, ReferralTick, BondsNext, BondTick, IsasNext, IsaTick, MarketsNext, MarketTick,
       StreaksNext, AllowancesNext, AllowanceTick, UpkeepNext, CloseLedger, ClockMoves

\* The limits of the instance leave out steps and add none.
LEMMA LimitsOnlyLimit ==
  /\ TreasuryDeposits \/ TreasuryInflows => TreasuryNext
  /\ StakingAnew \/ StakingFounders => StakingNext
  /\ BridgeRoutes => BridgeNext
BY DEF TreasuryDeposits, TreasuryInflows, StakingAnew, StakingFounders, BridgeRoutes

\* One contract moves, and with it the clock at most.
LEMMA OneMoves ==
  ASSUME MCNext
  PROVE  /\ ClockMoves
         /\ TreasuryNext \/ UNCHANGED treasury_vars
         /\ BuybackNext \/ UNCHANGED buyback_vars
         /\ StakingNext \/ UNCHANGED staking_vars
         /\ VestingNext \/ UNCHANGED vesting_vars
         /\ InsuranceNext \/ UNCHANGED insurance_vars
         /\ BountyNext \/ UNCHANGED bounty_vars
         /\ SubscriptionNext \/ UNCHANGED subscription_vars
<1>1. ClockMoves
  BY TreasuryClock, BuybackClock, StakingClock, LendingClock, CollateralClock, VestingClock,
     InsuranceClock, BountyClock, SubscriptionClock, BridgeClock, XChainClock, RewardsClock,
     LimitsOnlyLimit
     DEF MCNext
<1> QED BY <1>1, LimitsOnlyLimit DEF MCNext, resting

\* Or one of the contracts that the bridge carries to, or one of those that reward.
LEMMA OneOfSeveralMoves ==
  ASSUME MCNext
  PROVE  /\ BridgeNext \/ XChainNext \/ UNCHANGED <<bridge_vars, router_vars, xchain_vars>>
         /\ BondsNext \/ UNCHANGED bonds
         /\ StreaksNext \/ UNCHANGED streaks
         /\ AllowancesNext \/ UNCHANGED allowances
         /\ UpkeepNext \/ UNCHANGED <<onboarding, rent>>
<1>1. BridgeNext \/ XChainNext \/ UNCHANGED <<bridge_vars, router_vars, xchain_vars>>
  BY LimitsOnlyLimit DEF MCNext, resting, CrossChainParts
<1>2. \/ ReferralNext \/ BondsNext \/ IsasNext \/ MarketsNext \/ StreaksNext \/ AllowancesNext \/ UpkeepNext
      \/ UNCHANGED reward_vars
  BY DEF MCNext, resting, RewardParts
<1>3. ReferralNext => UNCHANGED <<bonds, streaks, onboarding, allowances, rent>>
  BY DEF ReferralNext
<1>4. BondsNext => UNCHANGED <<streaks, onboarding, allowances, rent>>
  BY DEF BondsNext
<1>5. IsasNext => UNCHANGED <<bonds, streaks, onboarding, allowances, rent>>
  BY DEF IsasNext
<1>6. MarketsNext => UNCHANGED <<bonds, streaks, onboarding, allowances, rent>>
  BY DEF MarketsNext
<1>7. StreaksNext => UNCHANGED <<bonds, onboarding, allowances, rent>>
  BY DEF StreaksNext
<1>8. AllowancesNext => UNCHANGED <<bonds, streaks, onboarding, rent>>
  BY DEF AllowancesNext, AllowanceTick
<1>9. UpkeepNext => UNCHANGED <<bonds, streaks, allowances>>
  BY DEF UpkeepNext
<1>10. UNCHANGED reward_vars => UNCHANGED <<bonds, streaks, onboarding, allowances, rent>>
  BY DEF reward_vars
<1> QED BY <1>1, <1>2, <1>3, <1>4, <1>5, <1>6, <1>7, <1>8, <1>9, <1>10

\* What holds throughout: the inductive invariants of the contracts side by side.
FundsInv ==
    /\ TreasuryInv /\ BuybackInv /\ StakingInv /\ VestingInv /\ InsuranceInv /\ BountyInv
    /\ SubscriptionInv /\ BridgeInv /\ XChainInv /\ MessagesInv /\ BondsInv /\ StreaksInv
    /\ AllowancesInv /\ UpkeepInv

\* It holds at first.
LEMMA FundsStart == MCInit => FundsInv
<1> SUFFICES ASSUME MCInit PROVE FundsInv
  OBVIOUS
<1>1. /\ TreasuryInit /\ BuybackInit /\ StakingInit /\ VestingInit /\ InsuranceInit /\ BountyInit
      /\ SubscriptionInit /\ BridgeInit /\ RouterInit /\ XChainInit
      /\ BondsInit /\ StreaksInit /\ OnboardingInit /\ AllowancesInit /\ RentInit
  BY DEF MCInit, RewardsInit
<1>2. now = 0
  BY <1>1 DEF TreasuryInit
<1>3. TreasuryInv /\ BuybackInv /\ StakingInv /\ VestingInv /\ BountyInv /\ SubscriptionInv
  BY <1>1, TreasuryStarts, BuybackStarts, StakingStarts, VestingStarts, BountyStarts, SubscriptionStarts
<1>4. InsuranceInv
  BY <1>1, InsuranceStarts
<1>5. BridgeInv /\ XChainInv /\ MessagesInv
  BY <1>1, <1>2, BridgeStarts, XChainStarts, MessagesStart
<1>6. BondsInv /\ StreaksInv /\ AllowancesInv /\ UpkeepInv
  BY <1>1, <1>2, BondsStart, StreaksStart, AllowancesStart, UpkeepStarts
<1> QED BY <1>3, <1>4, <1>5, <1>6 DEF FundsInv

\* The invariants of the bridge's three parts through a step of any of them, or of none.
LEMMA CrossChainKeeps ==
  ASSUME BridgeInv, XChainInv, MessagesInv, ClockMoves,
         BridgeNext \/ XChainNext \/ UNCHANGED <<bridge_vars, router_vars, xchain_vars>>
  PROVE  BridgeInv' /\ XChainInv' /\ MessagesInv'
<1>1. CASE BridgeNext
  BY <1>1, BridgeStep, BridgeClock, XChainRests, MessagesRest
<1>2. CASE XChainNext
  <2>1. BridgeInv'
    <3>1. UNCHANGED <<vaa_list, processed_vaas, minted, purse, fees_taken, deposits_in, routes, route_count>>
          /\ UNCHANGED <<router, scheduled>>
      BY <1>2, XChainClock DEF router_vars
    <3>2. /\ router' \in [escrow : EscrowContracts, fee : Nat, approved : BOOLEAN]
          /\ scheduled' \subseteq [escrow : EscrowContracts, due : Nat]
      BY <3>1 DEF BridgeInv, BridgeTypes
    <3> QED BY <3>1, <3>2, BridgeRests
  <2> QED BY <1>2, <2>1, XChainStep, MessagesStep
<1>3. CASE UNCHANGED <<bridge_vars, router_vars, xchain_vars>>
  <2>1. UNCHANGED <<vaa_list, processed_vaas, minted, purse, fees_taken, deposits_in, routes, route_count>>
        /\ UNCHANGED <<router, scheduled>> /\ UNCHANGED <<funded, used_nonces>>
    BY <1>3 DEF router_vars, bridge_vars
  <2>2. /\ router' \in [escrow : EscrowContracts, fee : Nat, approved : BOOLEAN]
        /\ scheduled' \subseteq [escrow : EscrowContracts, due : Nat]
    BY <2>1 DEF BridgeInv, BridgeTypes
  <2>3. BridgeInv'
    BY <2>1, <2>2, BridgeRests
  <2>4. UNCHANGED xchain_vars
    BY <1>3
  <2> QED BY <2>1, <2>3, <2>4, XChainRests, MessagesRest
<1> QED BY <1>1, <1>2, <1>3

\* And every call of every contract keeps it.
LEMMA FundsStep == FundsInv /\ [MCNext]_funds_vars => FundsInv'
<1> SUFFICES ASSUME FundsInv, [MCNext]_funds_vars PROVE FundsInv'
  OBVIOUS
<1> USE DEF FundsInv
<1>1. /\ ClockMoves
      /\ TreasuryNext \/ UNCHANGED treasury_vars
      /\ BuybackNext \/ UNCHANGED buyback_vars
      /\ StakingNext \/ UNCHANGED staking_vars
      /\ VestingNext \/ UNCHANGED vesting_vars
      /\ InsuranceNext \/ UNCHANGED insurance_vars
      /\ BountyNext \/ UNCHANGED bounty_vars
      /\ SubscriptionNext \/ UNCHANGED subscription_vars
  <2>1. CASE MCNext
    BY ONLY <2>1, OneMoves
  <2>2. CASE UNCHANGED funds_vars
    BY ONLY <2>2 DEF funds_vars, ClockMoves
  <2> QED BY <2>1, <2>2
<1>2. /\ BridgeNext \/ XChainNext \/ UNCHANGED <<bridge_vars, router_vars, xchain_vars>>
      /\ BondsNext \/ UNCHANGED bonds
      /\ StreaksNext \/ UNCHANGED streaks
      /\ AllowancesNext \/ UNCHANGED allowances
      /\ UpkeepNext \/ UNCHANGED <<onboarding, rent>>
  <2>1. CASE MCNext
    BY ONLY <2>1, OneOfSeveralMoves
  <2>2. CASE UNCHANGED funds_vars
    BY ONLY <2>2 DEF funds_vars, reward_vars
  <2> QED BY <2>1, <2>2
<1>3. TreasuryInv'
  BY <1>1, TreasuryStep, TreasuryRests
<1>4. BuybackInv'
  BY <1>1, BuybackStep, BuybackRests
<1>5. StakingInv'
  BY <1>1, StakingStep, StakingRests
<1>6. VestingInv'
  BY <1>1, VestingStep, VestingRests
<1>7. InsuranceInv'
  BY <1>1, InsuranceKeeps
<1>8. BountyInv'
  BY <1>1, BountyStep, BountyRests
<1>9. SubscriptionInv'
  BY <1>1, SubscriptionStep, SubscriptionRests
<1>10. BridgeInv' /\ XChainInv' /\ MessagesInv'
  BY <1>1, <1>2, CrossChainKeeps
<1>11. BondsInv'
  BY <1>1, <1>2, BondsStep, BondsRest
<1>12. StreaksInv'
  BY <1>2, StreaksStep, StreaksRest
<1>13. AllowancesInv'
  BY <1>1, <1>2, AllowancesStep, AllowancesRest
<1>14. UpkeepInv'
  BY <1>2, UpkeepStep, UpkeepRests
<1> QED BY <1>3, <1>4, <1>5, <1>6, <1>7, <1>8, <1>9, <1>10, <1>11, <1>12, <1>13, <1>14

-----------------------------------------------------------------------------
(* What the contracts promise together. *)

\* The parts of TokensAreAccountedFor follow from the invariants of their contracts.
LEMMA FundsAddUp == FundsInv => TokensAreAccountedFor
<1> SUFFICES ASSUME FundsInv PROVE TokensAreAccountedFor
  OBVIOUS
<1>1. TreasuryBooks /\ WindowsAddUp
  BY DEF FundsInv, TreasuryInv, BuybackInv
<1>2. PenaltiesReachEpochs /\ RosterIsExact
  BY RosterAgrees DEF FundsInv, StakingInv, EpochsInv
<1>3. GrantsAreBounded /\ SharesAreTheCover
  BY DEF FundsInv, VestingInv, InsuranceInv
<1>4. BountiesAreSeparate /\ OnlyDustIsLeft
  BY BountiesSettle DEF FundsInv
<1>5. StreamsPayTheirDeposit
  BY StreamsPayOnce DEF FundsInv, SubscriptionInv
<1>6. BridgedTokensAreConserved /\ BondsAreHeld
  BY BondsAreSound DEF FundsInv, BridgeInv
<1> QED BY <1>1, <1>2, <1>3, <1>4, <1>5, <1>6 DEF TokensAreAccountedFor

\* And so do those of PaymentsAreDue.
LEMMA FundsPayWhatIsDue == FundsInv => PaymentsAreDue
<1> SUFFICES ASSUME FundsInv PROVE PaymentsAreDue
  OBVIOUS
<1>1. QueuedPaidOnce /\ DistributionsAreSpaced
  BY QueueIsPaidOnce DEF FundsInv, TreasuryInv, ReceiptsInv
<1>2. BurstsAreDeferred /\ RetryFindsNewWindow
  BY RetriesFindNewWindow DEF FundsInv, BuybackInv
<1>3. RewardPaidOnce
  BY DEF FundsInv, StakingInv, LockupsInv
<1>4. DisputedIsUnpaid
  BY DisputedStaysUnpaid DEF FundsInv
<1>5. AllowanceIsTheLimit /\ MonthsAreChargedOnce /\ SessionsArePaid
  BY AllowanceIsRespected DEF FundsInv, SubscriptionInv
<1>6. RoutedOnce /\ MessagesFundOnce /\ CommitsAreInTime
  BY DEF FundsInv, BridgeInv, MessagesInv, XChainInv
<1>7. StreaksAreWeeks /\ PullsAreSpaced
  BY StreaksAgree, PullsStaySpaced DEF FundsInv
<1>8. ClaimsFollowTime
  BY VestingIsTimely DEF FundsInv
<1> QED BY <1>1, <1>2, <1>3, <1>4, <1>5, <1>6, <1>7, <1>8 DEF PaymentsAreDue

\* The contracts that hold tokens keep books that agree with what they hold, whatever the
\* amounts, the addresses and the order of the calls.
THEOREM FundsAreAccountedFor == MCSpec => []TokensAreAccountedFor
<1> QED BY FundsStart, FundsStep, FundsAddUp, PTL DEF MCSpec

\* They pay what is due, once and not before it is due.
THEOREM FundsAreDue == MCSpec => []PaymentsAreDue
<1> QED BY FundsStart, FundsStep, FundsPayWhatIsDue, PTL DEF MCSpec

\* What is vested stays with the beneficiary, whichever contract moves.
LEMMA RevocationsSpare ==
  ASSUME FundsInv, [MCNext]_funds_vars
  PROVE  [\A id \in DOMAIN schedules \ DOMAIN schedules' :
            LET s == schedules[id]
                over == now >= s.cliff_end + CliffTolerance /\ now >= s.vesting_end
                share == IF over THEN s.total ELSE s.claimed
            IN  vesting_funds - vesting_funds' <= s.total - share]_<<now, vesting_vars>>
<1>1. CASE VestingNext
  BY <1>1, RevocationSpares DEF FundsInv
<1>2. CASE UNCHANGED vesting_vars
  BY <1>2 DEF vesting_vars
<1>3. CASE UNCHANGED funds_vars
  BY <1>3 DEF funds_vars
<1> QED BY <1>1, <1>2, <1>3, OneMoves

\* A finished operation across chains keeps its outcome.
LEMMA FinishedStays ==
  ASSUME FundsInv, [MCNext]_funds_vars
  PROVE  [\A id \in DOMAIN xops : xops[id].phase \in Terminal => xops'[id] = xops[id]]_xchain_vars
<1>1. CASE XChainNext
  BY <1>1, FinishedIsLeftAlone
<1>2. CASE BridgeNext
  BY <1>2, BridgeClock
<1>3. CASE UNCHANGED xchain_vars
  BY <1>3
<1>4. CASE UNCHANGED funds_vars
  BY <1>4 DEF funds_vars
<1> QED BY <1>1, <1>2, <1>3, <1>4, OneOfSeveralMoves

\* A bond leaves after its cooldown.
LEMMA BondsStay ==
  ASSUME FundsInv, [MCNext]_funds_vars
  PROVE  [\A u \in DOMAIN bonds.bond :
            (u \notin DOMAIN bonds'.bond /\ bonds'.insured = bonds.insured) =>
              \A i \in DOMAIN bonds.slashes[u] :
                i > Len(bonds.slashes[u]) - bonds.bond[u].slash_count =>
                  clock >= bonds.slashes[u][i].at + bonds.cooldown]_bonds
<1>1. CASE BondsNext
  BY <1>1, BondCools DEF FundsInv
<1>2. CASE UNCHANGED bonds
  BY <1>2
<1>3. CASE UNCHANGED funds_vars
  BY <1>3 DEF funds_vars, reward_vars
<1> QED BY <1>1, <1>2, <1>3, OneOfSeveralMoves

\* A top-up covers the rent.
LEMMA TopupsStaySufficient ==
  ASSUME FundsInv, [MCNext]_funds_vars
  PROVE  [\A c \in DOMAIN rent'.balance :
            LET before == stored(rent.balance, c, 0)
                threshold == stored(rent.threshold, c, 3 * MonthlyRent)
            IN  (before < threshold /\ rent'.balance[c] > before /\ rent'.balance[c] - before \notin RentAmounts)
                  => rent'.balance[c] >= threshold]_rent
<1>1. CASE UpkeepNext
  BY <1>1, TopupIsEnough DEF FundsInv
<1>2. CASE UNCHANGED rent
  BY <1>2
<1>3. CASE UNCHANGED funds_vars
  BY <1>3 DEF funds_vars, reward_vars
<1> QED BY <1>1, <1>2, <1>3, OneOfSeveralMoves

\* What a contract promised stands: vested amounts at a revocation, outcomes across chains, the
\* cooldown of a bond, the steps of an onboarding, the rent a top-up covers.
THEOREM FundsKeepPromises == MCSpec => PromisesStand
<1> DEFINE Spared ==
             \A id \in DOMAIN schedules \ DOMAIN schedules' :
               LET s == schedules[id]
                   over == now >= s.cliff_end + CliffTolerance /\ now >= s.vesting_end
                   share == IF over THEN s.total ELSE s.claimed
               IN  vesting_funds - vesting_funds' <= s.total - share
           OutcomeKept == \A id \in DOMAIN xops : xops[id].phase \in Terminal => xops'[id] = xops[id]
           Cooled ==
             \A u \in DOMAIN bonds.bond :
               (u \notin DOMAIN bonds'.bond /\ bonds'.insured = bonds.insured) =>
                 \A i \in DOMAIN bonds.slashes[u] :
                   i > Len(bonds.slashes[u]) - bonds.bond[u].slash_count =>
                     clock >= bonds.slashes[u][i].at + bonds.cooldown
           Complete ==
             \A u \in DOMAIN onboarding'.status :
               onboarding'.status[u].complete <=> onboarding'.status[u].done = Steps
           Covered ==
             \A c \in DOMAIN rent'.balance :
               LET before == stored(rent.balance, c, 0)
                   threshold == stored(rent.threshold, c, 3 * MonthlyRent)
               IN  (before < threshold /\ rent'.balance[c] > before
                      /\ rent'.balance[c] - before \notin RentAmounts)
                     => rent'.balance[c] >= threshold
<1>1. MCInit => FundsInv
  BY FundsStart
<1>2. FundsInv /\ [MCNext]_funds_vars => FundsInv'
  BY FundsStep
<1>3. FundsInv /\ [MCNext]_funds_vars => [Spared]_<<now, vesting_vars>>
  BY RevocationsSpare
<1>4. FundsInv /\ [MCNext]_funds_vars => [OutcomeKept]_xchain_vars
  BY FinishedStays
<1>5. FundsInv /\ [MCNext]_funds_vars => [Cooled]_bonds
  BY BondsStay
<1>6. FundsInv' => Complete
  BY DEF FundsInv, UpkeepInv, OnboardingInv
<1>7. FundsInv /\ [MCNext]_funds_vars => [Complete]_onboarding
  BY <1>2, <1>6
<1>8. FundsInv /\ [MCNext]_funds_vars => [Covered]_rent
  BY TopupsStaySufficient
<1>9. MCSpec => RevocationSparesVested
  BY <1>1, <1>2, <1>3, PTL DEF MCSpec, RevocationSparesVested
<1>10. MCSpec => TerminalIsImmutable
  BY <1>1, <1>2, <1>4, PTL DEF MCSpec, TerminalIsImmutable
<1>11. MCSpec => BondsCool
  BY <1>1, <1>2, <1>5, PTL DEF MCSpec, BondsCool
<1>12. MCSpec => OnboardingIsComplete
  BY <1>1, <1>2, <1>7, PTL DEF MCSpec, OnboardingIsComplete
<1>13. MCSpec => TopupsSuffice
  BY <1>1, <1>2, <1>8, PTL DEF MCSpec, TopupsSuffice
<1> QED BY <1>9, <1>10, <1>11, <1>12, <1>13 DEF PromisesStand
=============================================================================
