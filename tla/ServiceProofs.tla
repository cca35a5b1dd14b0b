---------------------------- MODULE ServiceProofs ----------------------------
(***************************************************************************)
(* Proofs about the contracts that decide and record, as MCServices        *)
(* composes them: what each one keeps of its decisions, and that they are  *)
(* made by those entitled to, in their time, and stand.                    *)
(***************************************************************************)
EXTENDS MCServices, Sums, SequenceTheorems

\* At most one ledger closes in a step.
ClockMoves == now' \in {now, now + 1}

-----------------------------------------------------------------------------
(* Cancellations by the admin of the governance. The stored times are      *)
(* those a window that ends now or later reaches.                          *)

\* How many of the first k times of the list s a period that ends at t reaches.
LateUpTo(s, k, t) == Cardinality({j \in 1 .. k : s[j] + EscalationWindow > t})

\* How many of all of them.
Late(s, t) == LateUpTo(s, Len(s), t)

LEMMA LateNext ==
  ASSUME NEW s, NEW k \in Nat, NEW t
  PROVE  /\ LateUpTo(s, k, t) \in Nat /\ LateUpTo(s, 0, t) = 0
         /\ s[k + 1] + EscalationWindow > t => LateUpTo(s, k + 1, t) = LateUpTo(s, k, t) + 1
         /\ ~(s[k + 1] + EscalationWindow > t) => LateUpTo(s, k + 1, t) = LateUpTo(s, k, t)
<1> DEFINE D(n) == {j \in 1 .. n : s[j] + EscalationWindow > t}
<1>1. IsFiniteSet(D(k)) /\ k + 1 \notin D(k)
  <2>1. IsFiniteSet(1 .. k)
    BY FS_Interval
  <2>2. D(k) \subseteq 1 .. k
    OBVIOUS
  <2> QED BY <2>1, <2>2, FS_Subset
<1>2. D(0) = {}
  OBVIOUS
<1>3. s[k + 1] + EscalationWindow > t => D(k + 1) = D(k) \cup {k + 1}
  OBVIOUS
<1>4. ~(s[k + 1] + EscalationWindow > t) => D(k + 1) = D(k)
  OBVIOUS
<1>5. \A n : LateUpTo(s, n, t) = Cardinality(D(n))
  BY DEF LateUpTo
<1> HIDE DEF D
<1>6. Cardinality(D(k)) \in Nat /\ Cardinality({}) = 0
  BY <1>1, FS_CardinalityType, FS_EmptySet
<1>7. Cardinality(D(k) \cup {k + 1}) = Cardinality(D(k)) + 1
  BY <1>1, FS_AddElement
<1> QED BY <1>2, <1>3, <1>4, <1>5, <1>6, <1>7

LEMMA LateAppend ==
  ASSUME NEW s \in Seq(Nat), NEW x \in Nat, NEW t
  PROVE  /\ Late(s, t) \in Nat
         /\ x + EscalationWindow > t => Late(Append(s, x), t) = Late(s, t) + 1
         /\ ~(x + EscalationWindow > t) => Late(Append(s, x), t) = Late(s, t)
<1> PICK n \in Nat : n = Len(s)
  OBVIOUS
<1> PICK q : q = Append(s, x)
  OBVIOUS
<1>1. Len(q) = n + 1 /\ q[n + 1] = x /\ \A j \in 1 .. n : q[j] = s[j]
  OBVIOUS
<1>2. LateUpTo(q, n, t) = LateUpTo(s, n, t)
  <2>1. {j \in 1 .. n : q[j] + EscalationWindow > t} = {j \in 1 .. n : s[j] + EscalationWindow > t}
    BY <1>1
  <2> QED BY <2>1 DEF LateUpTo
<1>3. /\ LateUpTo(q, n, t) \in Nat
      /\ x + EscalationWindow > t => LateUpTo(q, n + 1, t) = LateUpTo(q, n, t) + 1
      /\ ~(x + EscalationWindow > t) => LateUpTo(q, n + 1, t) = LateUpTo(q, n, t)
  BY <1>1, LateNext
<1> QED BY <1>1, <1>2, <1>3 DEF Late

\* Pruning forgets no time that a period which ends now or later reaches, and keeps no other.
LEMMA RecentKeeps ==
  ASSUME now \in Nat, NEW s \in Seq(Nat)
  PROVE  /\ recent(s) \in Seq(Nat) /\ Len(recent(s)) = Late(s, now)
         /\ \A t \in Nat : t >= now => Late(recent(s), t) = Late(s, t)
<1> PICK m \in Nat : m = now
  OBVIOUS
<1> DEFINE W == {s[i] : i \in Nat}
           V == Seq(W)
           b == << >>
           g == [p \in Nat \X V |->
                   IF s[p[1]] + EscalationWindow > m THEN Append(p[2], s[p[1]]) ELSE p[2]]
           Is(f) == f = [i \in Nat |->
                           IF i = 0 THEN << >>
                           ELSE IF s[i] + EscalationWindow > now THEN Append(f[i - 1], s[i])
                           ELSE f[i - 1]]
<1>1. b \in V /\ g \in [Nat \X V -> V]
  <2>1. \A i \in Nat : s[i] \in W
    OBVIOUS
  <2> HIDE DEF W
  <2>2. \A p \in Nat \X V : p[1] \in Nat /\ p[2] \in Seq(W) /\ Append(p[2], s[p[1]]) \in Seq(W)
    BY <2>1
  <2> QED BY <2>2
<1>2. PICK h : IsRecursive(h, V, b, g)
  <2> HIDE DEF V, b, g
  <2> QED BY <1>1, Recursion
<1>3. h \in [Nat -> V] /\ h = [i \in Nat |-> IF i = 0 THEN b ELSE g[<<i, h[i - 1]>>]]
  <2> HIDE DEF V, b, g
  <2> QED BY <1>2 DEF IsRecursive
<1>4. ASSUME NEW i \in Nat, i # 0
      PROVE  g[<<i, h[i - 1]>>] = IF s[i] + EscalationWindow > now THEN Append(h[i - 1], s[i]) ELSE h[i - 1]
  <2>1. i - 1 \in Nat
    BY <1>4
  <2> HIDE DEF V
  <2>2. <<i, h[i - 1]>> \in Nat \X V
    BY <1>3, <2>1
  <2> QED BY <2>2
<1>5. Is(h)
  <2> HIDE DEF V, g
  <2> QED BY <1>3, <1>4
<1>6. recent(s) = (CHOOSE f : Is(f))[Len(s)]
  BY DEF recent
<1> HIDE DEF Is, V, g, b
<1>7. PICK kept : Is(kept) /\ recent(s) = kept[Len(s)]
  BY <1>5, <1>6
<1>8. /\ kept[0] = << >>
      /\ \A i \in Nat : kept[i + 1] = IF s[i + 1] + EscalationWindow > now THEN Append(kept[i], s[i + 1])
                                      ELSE kept[i]
  <2>1. kept = [i \in Nat |-> IF i = 0 THEN << >>
                              ELSE IF s[i] + EscalationWindow > now THEN Append(kept[i - 1], s[i])
                              ELSE kept[i - 1]]
    BY <1>7 DEF Is
  <2>2. kept[0] = << >>
    BY <2>1
  <2>3. ASSUME NEW i \in Nat
        PROVE  kept[i + 1] = IF s[i + 1] + EscalationWindow > now THEN Append(kept[i], s[i + 1])
                             ELSE kept[i]
    <3> PICK j : j = i + 1
      OBVIOUS
    <3>1. j \in Nat /\ j # 0 /\ j - 1 = i
      OBVIOUS
    <3>2. kept[j] = IF s[j] + EscalationWindow > now THEN Append(kept[j - 1], s[j]) ELSE kept[j - 1]
      BY <2>1, <3>1
    <3> QED BY <3>1, <3>2
  <2> QED BY <2>2, <2>3
<1> DEFINE Right(i) == /\ kept[i] \in Seq(Nat) /\ Len(kept[i]) = LateUpTo(s, i, now)
                       /\ \A t \in Nat : t >= now => Late(kept[i], t) = LateUpTo(s, i, t)
           T == {i \in Nat : i <= Len(s) => Right(i)}
<1>9. Right(0)
  <2>1. << >> \in Seq(Nat) /\ Len(<< >>) = 0 /\ 0 \in Nat
    OBVIOUS
  <2>2. \A t : LateUpTo(s, 0, t) = 0 /\ LateUpTo(<< >>, 0, t) = 0
    BY <2>1, LateNext
  <2> QED BY <1>8, <2>1, <2>2 DEF Late
<1>10. ASSUME NEW i \in Nat, i + 1 <= Len(s), Right(i) PROVE Right(i + 1)
  <2>1. s[i + 1] \in Nat
    BY <1>10
  <2> PICK x \in Nat : x = s[i + 1]
    BY <2>1
  <2> PICK q \in Seq(Nat) : q = kept[i]
    BY <1>10
  <2>2. /\ Append(q, x) \in Seq(Nat) /\ Len(Append(q, x)) = Len(q) + 1
        /\ Len(q) = LateUpTo(s, i, now)
        /\ \A t \in Nat : t >= now => Late(q, t) = LateUpTo(s, i, t)
    BY <1>10
  <2> HIDE DEF Right
  <2>5. ASSUME NEW t \in Nat
        PROVE  /\ x + EscalationWindow > t => LateUpTo(s, i + 1, t) = LateUpTo(s, i, t) + 1
               /\ ~(x + EscalationWindow > t) => LateUpTo(s, i + 1, t) = LateUpTo(s, i, t)
               /\ Late(q, t) \in Nat
               /\ x + EscalationWindow > t => Late(Append(q, x), t) = Late(q, t) + 1
               /\ ~(x + EscalationWindow > t) => Late(Append(q, x), t) = Late(q, t)
    <3>1. /\ s[i + 1] + EscalationWindow > t => LateUpTo(s, i + 1, t) = LateUpTo(s, i, t) + 1
          /\ ~(s[i + 1] + EscalationWindow > t) => LateUpTo(s, i + 1, t) = LateUpTo(s, i, t)
      BY LateNext
    <3> QED BY <3>1, LateAppend
  <2>3. CASE x + EscalationWindow > now
    <3>1. kept[i + 1] = Append(q, x)
      BY <1>8, <2>3
    <3>2. LateUpTo(s, i + 1, now) = LateUpTo(s, i, now) + 1
      BY <2>3, <2>5
    <3>3. ASSUME NEW t \in Nat, t >= now PROVE Late(Append(q, x), t) = LateUpTo(s, i + 1, t)
      <4>1. Late(q, t) = LateUpTo(s, i, t)
        BY <2>2, <3>3
      <4>2. CASE x + EscalationWindow > t
        <5>1. /\ LateUpTo(s, i + 1, t) = LateUpTo(s, i, t) + 1
              /\ Late(Append(q, x), t) = Late(q, t) + 1
          BY <2>5, <4>2
        <5> QED BY <4>1, <5>1
      <4>3. CASE ~(x + EscalationWindow > t)
        <5>1. /\ LateUpTo(s, i + 1, t) = LateUpTo(s, i, t)
              /\ Late(Append(q, x), t) = Late(q, t)
          BY <2>5, <4>3
        <5> QED BY <4>1, <5>1
      <4> QED BY <4>2, <4>3
    <3>4. Append(q, x) \in Seq(Nat) /\ Len(Append(q, x)) = LateUpTo(s, i + 1, now)
      BY <2>2, <3>2
    <3> QED BY <3>1, <3>3, <3>4 DEF Right
  <2>4. CASE ~(x + EscalationWindow > now)
    <3>1. kept[i + 1] = q
      BY <1>8, <2>4
    <3>2. ASSUME NEW t \in Nat, t >= now PROVE LateUpTo(s, i + 1, t) = LateUpTo(s, i, t)
      <4>1. ~(x + EscalationWindow > t)
        BY <2>4, <3>2, GovernanceAssumption
      <4> QED BY <2>5, <4>1
    <3>3. LateUpTo(s, i + 1, now) = LateUpTo(s, i, now)
      BY <3>2
    <3>4. q \in Seq(Nat) /\ Len(q) = LateUpTo(s, i + 1, now)
      BY <2>2, <3>3
    <3>5. \A t \in Nat : t >= now => Late(q, t) = LateUpTo(s, i + 1, t)
      BY <2>2, <3>2
    <3> QED BY <3>1, <3>4, <3>5 DEF Right
  <2> QED BY <2>3, <2>4
<1>11. 0 \in T /\ \A i \in Nat : i \in T => i + 1 \in T
  <2> HIDE DEF Right
  <2>1. Len(s) \in Nat
    OBVIOUS
  <2>2. 0 \in T
    BY <1>9
  <2>3. ASSUME NEW i \in Nat, i \in T PROVE i + 1 \in T
    BY <1>10, <2>1, <2>3
  <2> QED BY <2>2, <2>3
<1> HIDE DEF T
<1>12. \A i \in Nat : i \in T
  BY <1>11, NatInduct
<1>13. Right(Len(s))
  <2>1. Len(s) \in Nat /\ Len(s) <= Len(s)
    OBVIOUS
  <2> HIDE DEF Right
  <2> QED BY <1>12, <2>1 DEF T
<1> QED BY <1>7, <1>13 DEF Late

\* How many of the first k cancellations in o are by the admin g and in a period that ends at t.
CancelsUpTo(o, k, g, t) ==
    Cardinality({j \in 1 .. k : o[j].by = g /\ o[j].at + EscalationWindow > t})

\* Whether the cancellation r is one of those.
InPeriod(r, g, t) == r.by = g /\ r.at + EscalationWindow > t

CancelRecord == [by : GovAdmins, action : GovActions, at : Nat, mandated : BOOLEAN]

LEMMA CancelsAppend ==
  ASSUME NEW o \in Seq(CancelRecord), NEW r \in CancelRecord, NEW g, NEW t
  PROVE  /\ CancelsUpTo(o, Len(o), g, t) \in Nat
         /\ InPeriod(r, g, t) =>
              CancelsUpTo(Append(o, r), Len(o) + 1, g, t) = CancelsUpTo(o, Len(o), g, t) + 1
         /\ ~InPeriod(r, g, t) =>
              CancelsUpTo(Append(o, r), Len(o) + 1, g, t) = CancelsUpTo(o, Len(o), g, t)
<1> PICK n \in Nat : n = Len(o)
  OBVIOUS
<1> PICK q : q = Append(o, r)
  OBVIOUS
<1>1. Len(q) = n + 1 /\ q[n + 1] = r /\ \A j \in 1 .. n : q[j] = o[j]
  OBVIOUS
<1> DEFINE D == {j \in 1 .. n : InPeriod(q[j], g, t)}
           E == {j \in 1 .. n + 1 : InPeriod(q[j], g, t)}
<1>3. CancelsUpTo(o, n, g, t) = Cardinality(D)
  <2>1. \A j \in 1 .. n : InPeriod(q[j], g, t) <=> (o[j].by = g /\ o[j].at + EscalationWindow > t)
    BY <1>1 DEF InPeriod
  <2>2. D = {j \in 1 .. n : o[j].by = g /\ o[j].at + EscalationWindow > t}
    BY <2>1
  <2> QED BY <2>2 DEF CancelsUpTo
<1>4. CancelsUpTo(q, n + 1, g, t) = Cardinality(E)
  BY DEF CancelsUpTo, InPeriod
<1>5. /\ InPeriod(r, g, t) => E = D \cup {n + 1}
      /\ ~InPeriod(r, g, t) => E = D
  <2>1. \A j : j \in 1 .. n + 1 <=> (j \in 1 .. n \/ j = n + 1)
    OBVIOUS
  <2> QED BY <1>1, <2>1
<1>6. IsFiniteSet(D) /\ n + 1 \notin D
  <2>1. IsFiniteSet(1 .. n)
    BY FS_Interval
  <2>2. D \subseteq 1 .. n
    OBVIOUS
  <2> QED BY <2>1, <2>2, FS_Subset
<1> HIDE DEF D, E
<1>7. Cardinality(D) \in Nat /\ Cardinality(D \cup {n + 1}) = Cardinality(D) + 1
  BY <1>6, FS_CardinalityType, FS_AddElement
<1> QED BY <1>3, <1>4, <1>5, <1>7

\* A later record does not change how many of the earlier ones are in a period.
LEMMA CancelsBefore ==
  ASSUME NEW o \in Seq(CancelRecord), NEW r \in CancelRecord, NEW k \in 1 .. Len(o), NEW g, NEW t
  PROVE  CancelsUpTo(Append(o, r), k, g, t) = CancelsUpTo(o, k, g, t)
<1> PICK q : q = Append(o, r)
  OBVIOUS
<1>1. \A j \in 1 .. k : q[j] = o[j]
  OBVIOUS
<1>2. {j \in 1 .. k : q[j].by = g /\ q[j].at + EscalationWindow > t}
        = {j \in 1 .. k : o[j].by = g /\ o[j].at + EscalationWindow > t}
  BY <1>1
<1> QED BY <1>2 DEF CancelsUpTo

-----------------------------------------------------------------------------
(* The votes of a proposal. What the contract adds up as they are cast is  *)
(* the power that the property recomputes from the votes.                  *)

Cast == [support : BOOLEAN, at : Nat]

\* The votes p holds: of known voters, cast while it was open.
VotesOK(p) ==
    /\ p.created_at \in Nat /\ p.voting_ends_at = p.created_at + VotingPeriod
    /\ p.votes \in [DOMAIN p.votes -> Cast] /\ DOMAIN p.votes \subseteq Voters
    /\ \A v \in DOMAIN p.votes : p.created_at <= p.votes[v].at /\ p.votes[v].at < p.voting_ends_at
    /\ p.votes_for = power_given(p, TRUE) /\ p.votes_against = power_given(p, FALSE)

Camp(p, support) == {v \in DOMAIN p.votes : p.votes[v].support = support /\ p.votes[v].at < p.voting_ends_at}
Powers(p) == [v \in Voters |-> power_cast(p, v)]

LEMMA CastIsNat ==
  ASSUME NEW p, VotesOK(p), NEW v \in DOMAIN p.votes
  PROVE  power_cast(p, v) \in Nat
<1>1. p.votes[v] \in Cast /\ v \in Voters /\ p.created_at \in Nat /\ p.created_at <= p.votes[v].at
  BY DEF VotesOK
<1> PICK e \in Int : e = (p.votes[v].at - p.created_at) * 10000
  BY <1>1 DEF Cast
<1> PICK w \in Nat : w = IF e < 3301 * VotingPeriod THEN 8000
                         ELSE IF e < 6601 * VotingPeriod THEN 10000 ELSE 11000
  OBVIOUS
<1> PICK u \in Nat : u = Power[v]
  BY <1>1, GovernanceAssumption
<1> PICK a \in Nat : a = u * w
  OBVIOUS
<1>2. power_cast(p, v) = a \div 10000
  BY DEF power_cast
<1>3. 10000 \in Nat \ {0}
  OBVIOUS
<1> QED BY <1>2, <1>3, DivBounds

\* The sums are over finite sets of natural numbers.
LEMMA CampIsFinite ==
  ASSUME NEW p, VotesOK(p), NEW support
  PROVE  /\ IsFiniteSet(Camp(p, support)) /\ Camp(p, support) \subseteq DOMAIN p.votes
         /\ \A x \in Camp(p, support) : Powers(p)[x] \in Nat /\ Powers(p)[x] = power_cast(p, x)
         /\ power_given(p, support) = SumFunctionOnSet(Powers(p), Camp(p, support))
<1>1. Camp(p, support) \subseteq DOMAIN p.votes
  BY DEF Camp
<1>2. DOMAIN p.votes \subseteq Voters
  BY DEF VotesOK
<1>3. IsFiniteSet(Camp(p, support))
  BY <1>1, <1>2, FS_Subset, GovernanceAssumption
<1>4. \A x \in Camp(p, support) : Powers(p)[x] \in Nat /\ Powers(p)[x] = power_cast(p, x)
  BY <1>1, <1>2, CastIsNat DEF Powers
<1>5. power_given(p, support) = SumFunctionOnSet(Powers(p), Camp(p, support))
  BY DEF power_given, Powers, Camp
<1> QED BY <1>1, <1>3, <1>4, <1>5

\* A quotient is below a bound where the dividend is below the multiple.
LEMMA QuotientBelow ==
  ASSUME NEW a \in Nat, NEW d \in Nat \ {0}, NEW k \in Nat
  PROVE  (a \div d <= k) <=> (a < (k + 1) * d)
<1>1. a \div d \in Nat /\ d * (a \div d) <= a /\ a < d * ((a \div d) + 1)
  BY DivBounds
<1> PICK q \in Nat : q = a \div d
  BY <1>1
<1>2. ASSUME q <= k PROVE a < (k + 1) * d
  <2>1. PICK j \in Nat : k = q + j
    <3>1. k - q \in Nat /\ k = q + (k - q)
      BY <1>2
    <3> QED BY <3>1
  <2>2. (k + 1) * d = d * (q + 1) + d * j /\ d * j \in Nat /\ d * (q + 1) \in Nat
    BY <2>1
  <2> QED BY <1>1, <2>2
<1>3. ASSUME ~(q <= k) PROVE ~(a < (k + 1) * d)
  <2>1. PICK j \in Nat : q = k + 1 + j
    <3>1. q - (k + 1) \in Nat /\ q = k + 1 + (q - (k + 1))
      BY <1>3
    <3> QED BY <3>1
  <2>2. d * q = (k + 1) * d + d * j /\ d * j \in Nat /\ (k + 1) * d \in Nat
    BY <2>1
  <2> QED BY <1>1, <2>2
<1> QED BY <1>2, <1>3

\* A vote is weighted by the part of the voting period it is cast in.
LEMMA WeightIsOfThePart ==
  ASSUME now \in Nat, NEW p, p.created_at \in Nat, p.created_at <= now,
         p.voting_ends_at = p.created_at + VotingPeriod
  PROVE  LET e == (now - p.created_at) * 10000 IN
         weight_bps(p) = IF e < 3301 * VotingPeriod THEN 8000
                         ELSE IF e < 6601 * VotingPeriod THEN 10000 ELSE 11000
<1> PICK e \in Nat : e = (now - p.created_at) * 10000
  <2>1. now - p.created_at \in Nat
    OBVIOUS
  <2> PICK x \in Nat : x = now - p.created_at
    BY <2>1
  <2> QED OBVIOUS
<1>1. VotingPeriod \in Nat \ {0} /\ p.voting_ends_at - p.created_at = VotingPeriod
  BY GovernanceAssumption
<1>2. /\ (e \div VotingPeriod <= 3300) <=> (e < (3300 + 1) * VotingPeriod)
      /\ (e \div VotingPeriod <= 6600) <=> (e < (6600 + 1) * VotingPeriod)
  BY <1>1, QuotientBelow
<1>3. weight_bps(p) = IF e \div VotingPeriod <= 3300 THEN 8000
                      ELSE IF e \div VotingPeriod <= 6600 THEN 10000 ELSE 11000
  BY <1>1 DEF weight_bps
<1> QED BY <1>2, <1>3

\* q is p with one more vote.
CountsVote(p, v, support, weighted, q) ==
    /\ VotesOK(p) /\ p.created_at <= now /\ now < p.voting_ends_at
    /\ v \in Voters /\ v \notin DOMAIN p.votes /\ support \in BOOLEAN
    /\ weighted = (Power[v] * weight_bps(p)) \div 10000
    /\ q.created_at = p.created_at /\ q.voting_ends_at = p.voting_ends_at
    /\ q.votes = put(p.votes, v, [support |-> support, at |-> now])
    /\ q.votes_for = IF support THEN p.votes_for + weighted ELSE p.votes_for
    /\ q.votes_against = IF support THEN p.votes_against ELSE p.votes_against + weighted

\* A vote adds its weight to its side.
LEMMA VoteCounts ==
  ASSUME now \in Nat, NEW p, NEW v, NEW support, NEW weighted, NEW q, CountsVote(p, v, support, weighted, q)
  PROVE  VotesOK(q)
<1> SUFFICES ASSUME VotesOK(p), p.created_at <= now, now < p.voting_ends_at,
                    v \in Voters, v \notin DOMAIN p.votes, support \in BOOLEAN,
                    weighted = (Power[v] * weight_bps(p)) \div 10000,
                    q.created_at = p.created_at, q.voting_ends_at = p.voting_ends_at,
                    q.votes = put(p.votes, v, [support |-> support, at |-> now]),
                    q.votes_for = IF support THEN p.votes_for + weighted ELSE p.votes_for,
                    q.votes_against = IF support THEN p.votes_against ELSE p.votes_against + weighted
             PROVE  VotesOK(q)
  BY DEF CountsVote
<1> PICK c : c = [support |-> support, at |-> now]
  OBVIOUS
<1>1. c \in Cast /\ c.support = support /\ c.at = now
  BY DEF Cast
<1>2. /\ DOMAIN q.votes = DOMAIN p.votes \cup {v} /\ q.votes[v] = c
      /\ \A w \in DOMAIN p.votes : q.votes[w] = p.votes[w]
      /\ q.votes \in [DOMAIN q.votes -> Cast]
  <2>1. \A w \in DOMAIN p.votes : p.votes[w] \in Cast
    BY DEF VotesOK
  <2>2. q.votes = [k \in DOMAIN p.votes \cup {v} |-> IF k = v THEN c ELSE p.votes[k]]
    BY DEF put
  <2> PICK e : e = q.votes
    OBVIOUS
  <2> PICK d : d = p.votes
    OBVIOUS
  <2>3. DOMAIN e = DOMAIN d \cup {v} /\ \A k \in DOMAIN e : e[k] \in Cast
    <3>1. e = [k \in DOMAIN d \cup {v} |-> IF k = v THEN c ELSE d[k]]
      BY <2>2
    <3>2. \A k \in DOMAIN d : d[k] \in Cast
      BY <2>1
    <3> QED BY ONLY <1>1, <3>1, <3>2
  <2>4. q.votes \in [DOMAIN p.votes \cup {v} -> Cast]
    BY <2>2, <2>3
  <2> QED BY <2>2, <2>3, <2>4
<1>3. power_cast(q, v) = weighted /\ weighted \in Nat
  <2>1. p.created_at \in Nat /\ p.voting_ends_at = p.created_at + VotingPeriod
    BY DEF VotesOK
  <2>2. LET e == (now - p.created_at) * 10000 IN
        weight_bps(p) = IF e < 3301 * VotingPeriod THEN 8000
                        ELSE IF e < 6601 * VotingPeriod THEN 10000 ELSE 11000
    BY <2>1, WeightIsOfThePart
  <2>3. q.votes[v].at = now
    BY <1>1, <1>2
  <2>4. power_cast(q, v) = (Power[v] * weight_bps(p)) \div 10000
    BY <2>2, <2>3 DEF power_cast
  <2>5. Power[v] \in Nat /\ weight_bps(p) \in Nat
    BY <2>2, GovernanceAssumption
  <2> PICK a \in Nat : a = Power[v] * weight_bps(p)
    BY <2>5
  <2>6. a \div 10000 \in Nat
    <3>1. 10000 \in Nat \ {0}
      OBVIOUS
    <3> QED BY <3>1, DivBounds
  <2> QED BY <2>4, <2>6
<1>4. \A w \in DOMAIN p.votes : power_cast(q, w) = power_cast(p, w)
  BY <1>2 DEF power_cast
<1>5. DOMAIN p.votes \subseteq Voters
  BY DEF VotesOK
<1>6. /\ Camp(q, support) = Camp(p, support) \cup {v}
      /\ \A s : s # support => Camp(q, s) = Camp(p, s)
  BY <1>1, <1>2 DEF Camp
<1>7. ASSUME NEW s
      PROVE  power_given(q, s) = IF s = support THEN power_given(p, s) + weighted ELSE power_given(p, s)
  <2> PICK f : f = Powers(p)
    OBVIOUS
  <2> PICK g : g = Powers(q)
    OBVIOUS
  <2> PICK S : S = Camp(p, s)
    OBVIOUS
  <2>1. /\ IsFiniteSet(S) /\ S \subseteq DOMAIN p.votes
        /\ \A x \in S : f[x] \in Nat /\ f[x] = power_cast(p, x)
        /\ power_given(p, s) = SumFunctionOnSet(f, S)
    BY CampIsFinite
  <2>2. power_given(q, s) = SumFunctionOnSet(g, Camp(q, s))
    BY DEF power_given, Powers, Camp
  <2>3. g[v] = weighted /\ \A x \in S : g[x] = f[x]
    BY <1>3, <1>4, <1>5, <2>1 DEF Powers
  <2>4. \A x \in S : f[x] \in Int /\ g[x] = f[x]
    BY <2>1, <2>3
  <2>5. CASE s = support
    <3>1. SumFunctionOnSet(g, S \cup {v}) = SumFunctionOnSet(f, S) + g[v]
      <4>2. IsFiniteSet(S)
        BY <2>1
      <4>3. v \notin S
        BY <2>1
      <4>4. g[v] \in Int
        BY <1>3, <2>3
      <4>5. \A x \in S : f[x] \in Int /\ g[x] = f[x]
        BY <2>4
      <4> QED BY ONLY <4>2, <4>3, <4>4, <4>5, SumAdd
    <3>2. Camp(q, s) = S \cup {v}
      BY <1>6, <2>5
    <3> QED BY <2>1, <2>2, <2>3, <2>5, <3>1, <3>2
  <2>6. CASE s # support
    <3>1. SumFunctionOnSet(g, S) = SumFunctionOnSet(f, S)
      <4>1. \A x \in S : f[x] = g[x]
        BY <2>3
      <4> QED BY ONLY <2>1, <4>1, SumSame
    <3> QED BY <1>6, <2>1, <2>2, <2>6, <3>1
  <2> QED BY <2>5, <2>6
<1>8. q.votes_for = power_given(q, TRUE) /\ q.votes_against = power_given(q, FALSE)
  <2>1. p.votes_for = power_given(p, TRUE) /\ p.votes_against = power_given(p, FALSE)
    BY DEF VotesOK
  <2>2. /\ power_given(q, support) = power_given(p, support) + weighted
        /\ \A s : s # support => power_given(q, s) = power_given(p, s)
    BY <1>7
  <2>3. CASE support = TRUE
    <3>1. q.votes_for = p.votes_for + weighted /\ q.votes_against = p.votes_against
      BY <2>3
    <3>2. FALSE # support
      BY <2>3
    <3>3. power_given(q, FALSE) = power_given(p, FALSE)
      BY ONLY <2>2, <3>2
    <3>4. power_given(q, TRUE) = power_given(p, TRUE) + weighted
      BY ONLY <2>2, <2>3
    <3> QED BY ONLY <2>1, <3>1, <3>3, <3>4, Zenon
  <2>4. CASE support = FALSE
    <3>1. q.votes_for = p.votes_for /\ q.votes_against = p.votes_against + weighted
      BY <2>4
    <3>2. TRUE # support
      BY <2>4
    <3>3. power_given(q, TRUE) = power_given(p, TRUE)
      BY ONLY <2>2, <3>2
    <3>4. power_given(q, FALSE) = power_given(p, FALSE) + weighted
      BY ONLY <2>2, <2>4
    <3> QED BY ONLY <2>1, <3>1, <3>3, <3>4, Zenon
  <2> QED BY <2>3, <2>4
<1>9. \A w \in DOMAIN q.votes : q.created_at <= q.votes[w].at /\ q.votes[w].at < q.voting_ends_at
  BY <1>1, <1>2 DEF VotesOK
<1>10. /\ q.created_at \in Nat /\ q.voting_ends_at = q.created_at + VotingPeriod
       /\ q.votes \in [DOMAIN q.votes -> Cast] /\ DOMAIN q.votes \subseteq Voters
  BY <1>2, <1>5 DEF VotesOK
<1> QED BY <1>8, <1>9, <1>10 DEF VotesOK

\* Nothing else about a proposal matters to its votes.
LEMMA VotesRest ==
  ASSUME NEW p, VotesOK(p),
         NEW q, q.created_at = p.created_at, q.voting_ends_at = p.voting_ends_at, q.votes = p.votes,
         q.votes_for = p.votes_for, q.votes_against = p.votes_against
  PROVE  VotesOK(q) /\ power_given(q, TRUE) = power_given(p, TRUE) /\ power_given(q, FALSE) = power_given(p, FALSE)
<1>1. \A v : power_cast(q, v) = power_cast(p, v)
  BY DEF power_cast
<1>2. \A s : power_given(q, s) = power_given(p, s)
  BY <1>1 DEF power_given
<1> QED BY <1>2 DEF VotesOK

-----------------------------------------------------------------------------
(* What takes effect was carried.                                          *)

Statuses == {"Active", "Queued", "Failed", "Executed", "Cancelled"}
ProposalFields ==
    {"proposer", "action", "status", "created_at", "voting_ends_at", "custom", "votes", "votes_for",
     "votes_against", "ready_at"}

Carried(p) == quorum_met(p) /\ p.votes_for > p.votes_against

\* A call waited for its second period and for the timelock.
Waited(p, m) ==
    p.action.kind = "ExecuteCall" /\ p.status \in {"Queued", "Executed"} =>
        /\ p.ready_at >= p.voting_ends_at + CallTimelock + TimelockDelay
        /\ p.status = "Executed" => m >= p.ready_at

\* A proposal as it may be stored at the time m.
ProposalOK(p, m) ==
    /\ VotesOK(p) /\ DOMAIN p = ProposalFields
    /\ p.action \in GovActions /\ p.status \in Statuses
    /\ p.created_at <= m /\ p.ready_at \in Nat
    /\ p.status \in {"Queued", "Executed"} => Carried(p)
    /\ Waited(p, m)

ProposalsOK(ps, m) ==
    /\ \E S : ps \in Seq(S)
    /\ \A id \in DOMAIN ps : ProposalOK(ps[id], m)

\* What took effect is stored as executed, and took effect once.
AppliedOK(done, ps) ==
    /\ done \in Seq(Nat)
    /\ \A i \in DOMAIN done :
         /\ done[i] \in DOMAIN ps /\ ps[done[i]].status = "Executed"
         /\ \A j \in DOMAIN done : i # j => done[j] # done[i]

VotingInv ==
    /\ now \in Nat /\ gov_admin \in GovAdmins
    /\ ProposalsOK(proposals, now) /\ AppliedOK(applied, proposals)

LEMMA OneProposal ==
  ASSUME NEW m \in Nat, NEW ps, ProposalsOK(ps, m), NEW id \in DOMAIN ps, NEW q, ProposalOK(q, m),
         NEW r, r = [ps EXCEPT ![id] = q]
  PROVE  /\ ProposalsOK(r, m) /\ DOMAIN r = DOMAIN ps /\ r[id] = q
         /\ \A i \in DOMAIN ps : i # id => r[i] = ps[i]
<1>1. PICK S : ps \in Seq(S)
  BY DEF ProposalsOK
<1>2. ps \in Seq(S \cup {q})
  BY <1>1
<1>3. r \in Seq(S \cup {q})
  BY <1>2
<1>4. DOMAIN r = DOMAIN ps /\ r[id] = q /\ \A i \in DOMAIN ps : i # id => r[i] = ps[i]
  BY <1>1
<1>5. \A i \in DOMAIN r : ProposalOK(r[i], m)
  BY <1>4 DEF ProposalsOK
<1> QED BY <1>3, <1>4, <1>5 DEF ProposalsOK

LEMMA MoreProposals ==
  ASSUME NEW m \in Nat, NEW ps, ProposalsOK(ps, m), NEW q, ProposalOK(q, m), NEW r, r = Append(ps, q)
  PROVE  /\ ProposalsOK(r, m) /\ DOMAIN ps \subseteq DOMAIN r
         /\ \A i \in DOMAIN ps : r[i] = ps[i]
<1>1. PICK S : ps \in Seq(S)
  BY DEF ProposalsOK
<1>2. ps \in Seq(S \cup {q})
  BY <1>1
<1> PICK U : U = S \cup {q}
  OBVIOUS
<1>3. ps \in Seq(U) /\ q \in U
  BY <1>2
<1>4. /\ r \in Seq(U) /\ Len(ps) \in Nat /\ DOMAIN ps = 1 .. Len(ps) /\ DOMAIN r = 1 .. Len(ps) + 1
      /\ \A i \in 1 .. Len(ps) : r[i] = ps[i]
      /\ r[Len(ps) + 1] = q
  BY <1>3, Appended
<1>5. \A i \in DOMAIN r : ProposalOK(r[i], m)
  BY <1>4 DEF ProposalsOK
<1> QED BY <1>4, <1>5 DEF ProposalsOK

LEMMA StillApplied ==
  ASSUME NEW done, NEW ps, AppliedOK(done, ps), NEW r, DOMAIN ps \subseteq DOMAIN r,
         \A i \in DOMAIN ps : ps[i].status = "Executed" => r[i].status = "Executed"
  PROVE  AppliedOK(done, r)
BY DEF AppliedOK

LEMMA NowApplied ==
  ASSUME NEW done, NEW ps, AppliedOK(done, ps), NEW id \in DOMAIN ps, id \in Nat, ps[id].status # "Executed",
         NEW r, DOMAIN r = DOMAIN ps, r[id].status = "Executed",
         \A i \in DOMAIN ps : i # id => r[i] = ps[i]
  PROVE  AppliedOK(Append(done, id), r)
<1> PICK t : t = Append(done, id)
  OBVIOUS
<1>1. done \in Seq(Nat)
  BY DEF AppliedOK
<1>2. /\ t \in Seq(Nat) /\ Len(done) \in Nat
      /\ DOMAIN done = 1 .. Len(done) /\ DOMAIN t = 1 .. Len(done) + 1
      /\ \A i \in 1 .. Len(done) : t[i] = done[i] /\ done[i] \in Nat
      /\ t[Len(done) + 1] = id
  BY <1>1, Appended
<1>3. \A i \in DOMAIN done : done[i] # id
  BY DEF AppliedOK
<1>4. \A i \in DOMAIN done : /\ done[i] \in DOMAIN ps /\ ps[done[i]].status = "Executed"
                             /\ \A j \in DOMAIN done : i # j => done[j] # done[i]
  BY DEF AppliedOK
<1> PICK n \in Nat : n = Len(done)
  BY <1>2
<1>5. \A i \in 1 .. n : t[i] \in DOMAIN r /\ r[t[i]].status = "Executed"
  BY <1>2, <1>3, <1>4
<1>6. \A i \in 1 .. n : \A j \in 1 .. n : i # j => t[j] # t[i]
  BY <1>2, <1>4
<1>7. \A i \in 1 .. n : t[i] # id
  BY <1>2, <1>3
<1>8. \A i \in 1 .. n + 1 : i \in 1 .. n \/ i = n + 1
  OBVIOUS
<1> QED BY <1>2, <1>5, <1>6, <1>7, <1>8 DEF AppliedOK

\* q is p in another status.
Restated(p, q, st, at) ==
    /\ DOMAIN q = ProposalFields /\ q.status = st /\ q.ready_at = at
    /\ \A f \in ProposalFields \ {"status", "ready_at"} : q[f] = p[f]

\* What the new status asks for.
MayBecome(p, st, at, m) ==
    /\ st \in Statuses /\ at \in Nat
    /\ st \in {"Queued", "Executed"} => Carried(p)
    /\ p.action.kind = "ExecuteCall" /\ st \in {"Queued", "Executed"} =>
         /\ at >= p.voting_ends_at + CallTimelock + TimelockDelay
         /\ st = "Executed" => m >= at

\* A proposal whose status changes keeps its votes.
LEMMA StatusChanges ==
  ASSUME NEW m \in Nat, NEW p, ProposalOK(p, m), NEW st, NEW at, MayBecome(p, st, at, m),
         NEW q, Restated(p, q, st, at)
  PROVE  ProposalOK(q, m) /\ q.status = st
<1>1. DOMAIN p = ProposalFields /\ VotesOK(p)
  BY DEF ProposalOK
<1>2. /\ DOMAIN q = ProposalFields /\ q.status = st /\ q.ready_at = at
      /\ q.action = p.action /\ q.custom = p.custom /\ q.created_at = p.created_at
      /\ q.voting_ends_at = p.voting_ends_at /\ q.votes = p.votes /\ q.votes_for = p.votes_for
      /\ q.votes_against = p.votes_against
  BY DEF Restated, ProposalFields
<1>3. VotesOK(q)
  BY <1>1, <1>2, VotesRest
<1>4. Carried(p) => Carried(q)
  BY <1>2 DEF Carried, quorum_met, quorum_bps
<1>5. Waited(q, m)
  BY <1>2 DEF Waited, MayBecome
<1> QED BY <1>2, <1>3, <1>4, <1>5 DEF ProposalOK, MayBecome

\* r is ps with the proposal id in another status.
StoresStatus(m, ps, done, id, st, at, q, r) ==
    /\ m \in Nat /\ ProposalsOK(ps, m) /\ AppliedOK(done, ps)
    /\ id \in DOMAIN ps /\ ps[id].status # "Executed"
    /\ MayBecome(ps[id], st, at, m) /\ Restated(ps[id], q, st, at)
    /\ r = [ps EXCEPT ![id] = q]

\* Storing it leaves the others, and what takes effect was not executed before.
LEMMA StatusStored ==
  ASSUME NEW m, NEW ps, NEW done, NEW id, NEW st, NEW at, NEW q, NEW r,
         StoresStatus(m, ps, done, id, st, at, q, r)
  PROVE  /\ ProposalsOK(r, m)
         /\ st # "Executed" => AppliedOK(done, r)
         /\ st = "Executed" => AppliedOK(Append(done, id), r)
<1> SUFFICES ASSUME m \in Nat, ProposalsOK(ps, m), AppliedOK(done, ps), id \in DOMAIN ps,
                    ps[id].status # "Executed", MayBecome(ps[id], st, at, m),
                    Restated(ps[id], q, st, at), r = [ps EXCEPT ![id] = q]
             PROVE  /\ ProposalsOK(r, m)
                    /\ st # "Executed" => AppliedOK(done, r)
                    /\ st = "Executed" => AppliedOK(Append(done, id), r)
  BY DEF StoresStatus
<1>1. ProposalOK(ps[id], m) /\ id \in Nat
  <2>1. PICK S : ps \in Seq(S)
    BY DEF ProposalsOK
  <2> QED BY <2>1 DEF ProposalsOK
<1>2. ProposalOK(q, m) /\ q.status = st
  BY <1>1, StatusChanges
<1>3. /\ ProposalsOK(r, m) /\ DOMAIN r = DOMAIN ps /\ r[id] = q
      /\ \A i \in DOMAIN ps : i # id => r[i] = ps[i]
  BY <1>2, OneProposal
<1>4. AppliedOK(done, r)
  BY <1>3, StillApplied
<1>5. ASSUME st = "Executed" PROVE AppliedOK(Append(done, id), r)
  BY <1>1, <1>2, <1>3, <1>5, NowApplied
<1> QED BY <1>3, <1>4, <1>5

\* A step that stores another status of one proposal.
Restates(id, st) ==
    \E q, at : /\ id \in DOMAIN proposals /\ proposals[id].status # "Executed"
               /\ MayBecome(proposals[id], st, at, now) /\ Restated(proposals[id], q, st, at)
               /\ proposals' = [proposals EXCEPT ![id] = q]
               /\ now' = now /\ gov_admin' \in GovAdmins
               /\ applied' = IF st = "Executed" THEN Append(applied, id) ELSE applied

LEMMA RestateStep ==
  ASSUME VotingInv, NEW id, NEW st, Restates(id, st)
  PROVE  VotingInv'
<1>1. PICK q, at : /\ id \in DOMAIN proposals /\ proposals[id].status # "Executed"
                   /\ MayBecome(proposals[id], st, at, now) /\ Restated(proposals[id], q, st, at)
                   /\ proposals' = [proposals EXCEPT ![id] = q]
                   /\ now' = now /\ gov_admin' \in GovAdmins
                   /\ applied' = IF st = "Executed" THEN Append(applied, id) ELSE applied
  BY DEF Restates
<1> PICK m \in Nat : m = now
  BY DEF VotingInv
<1> PICK r : r = [proposals EXCEPT ![id] = q]
  OBVIOUS
<1>2. StoresStatus(m, proposals, applied, id, st, at, q, r)
  BY <1>1 DEF VotingInv, StoresStatus
<1>3. /\ ProposalsOK(r, m)
      /\ st # "Executed" => AppliedOK(applied, r)
      /\ st = "Executed" => AppliedOK(Append(applied, id), r)
  BY ONLY <1>2, StatusStored
<1>4. proposals' = r /\ now' = m
  BY <1>1
<1>5. AppliedOK(applied', r)
  BY <1>1, <1>3
<1> QED BY <1>1, <1>3, <1>4, <1>5 DEF VotingInv

LEMMA VotingStarts == GovernanceInit => VotingInv
<1> SUFFICES ASSUME GovernanceInit PROVE VotingInv
  OBVIOUS
<1>1. << >> \in Seq(Nat) /\ DOMAIN << >> = {}
  OBVIOUS
<1> QED BY <1>1 DEF GovernanceInit, VotingInv, ProposalsOK, AppliedOK

LEMMA CreateStep ==
  ASSUME VotingInv, NEW p \in Proposers, NEW a \in GovActions, NEW c \in BOOLEAN, create_proposal(p, a, c)
  PROVE  VotingInv'
<1> PICK m \in Nat : m = now
  BY DEF VotingInv
<1> PICK q : q = [proposer |-> p, action |-> a, status |-> "Active", created_at |-> m,
                  voting_ends_at |-> m + VotingPeriod,
                  custom |-> c \/ a.kind = "ApproveEmergencyRollback",
                  votes |-> NothingStored, votes_for |-> 0, votes_against |-> 0, ready_at |-> 0]
  OBVIOUS
<1>1. proposals' = Append(proposals, q) /\ UNCHANGED <<now, gov_admin, applied>>
  BY DEF create_proposal
<1>2. /\ DOMAIN q = ProposalFields /\ q.action = a /\ q.status = "Active" /\ q.created_at = m
      /\ q.voting_ends_at = m + VotingPeriod /\ q.votes = NothingStored /\ q.votes_for = 0
      /\ q.votes_against = 0 /\ q.ready_at = 0
  BY DEF ProposalFields
<1>3. DOMAIN q.votes = {}
  BY <1>2 DEF NothingStored
<1>4. \A s : power_given(q, s) = 0
  <2> TAKE s
  <2>1. {v \in DOMAIN q.votes : q.votes[v].support = s /\ q.votes[v].at < q.voting_ends_at} = {}
    BY <1>3
  <2> QED BY <2>1, SumEmpty DEF power_given
<1>5. VotesOK(q)
  <2>1. q.votes \in [{} -> Cast]
    BY <1>2 DEF NothingStored
  <2> QED BY <1>2, <1>3, <1>4, <2>1 DEF VotesOK
<1>6. ProposalOK(q, m)
  BY <1>2, <1>5 DEF ProposalOK, Statuses, Waited
<1>7. ProposalsOK(proposals, m) /\ AppliedOK(applied, proposals)
  BY DEF VotingInv
<1>8. /\ ProposalsOK(proposals', m) /\ DOMAIN proposals \subseteq DOMAIN proposals'
      /\ \A i \in DOMAIN proposals : proposals'[i] = proposals[i]
  <2> PICK r : r = proposals'
    OBVIOUS
  <2>1. m \in Nat /\ r = Append(proposals, q)
    BY <1>1
  <2>2. /\ ProposalsOK(r, m) /\ DOMAIN proposals \subseteq DOMAIN r
        /\ \A i \in DOMAIN proposals : r[i] = proposals[i]
    BY ONLY <1>6, <1>7, <2>1, MoreProposals
  <2> QED BY <2>2
<1>9. AppliedOK(applied, proposals')
  BY <1>7, <1>8, StillApplied
<1> QED BY <1>1, <1>8, <1>9 DEF VotingInv

LEMMA VoteStep ==
  ASSUME VotingInv, NEW id \in DOMAIN proposals, NEW v \in Voters, NEW s \in BOOLEAN, vote(v, id, s)
  PROVE  VotingInv'
<1> PICK m \in Nat : m = now
  BY DEF VotingInv
<1> PICK p : p = proposals[id]
  OBVIOUS
<1> PICK w : w = (Power[v] * weight_bps(p)) \div 10000
  OBVIOUS
<1> PICK book : book = put(p.votes, v, [support |-> s, at |-> now])
  OBVIOUS
<1> PICK pro : pro = IF s THEN p.votes_for + w ELSE p.votes_for
  OBVIOUS
<1> PICK con : con = IF s THEN p.votes_against ELSE p.votes_against + w
  OBVIOUS
<1> PICK q : q = [p EXCEPT !.votes = book, !.votes_for = pro, !.votes_against = con]
  OBVIOUS
<1>1. /\ ProposalsOK(proposals, m) /\ AppliedOK(applied, proposals)
      /\ ProposalOK(p, m) /\ DOMAIN p = ProposalFields /\ VotesOK(p)
  BY DEF VotingInv, ProposalsOK, ProposalOK
<1>2. /\ p.status = "Active" /\ m < p.voting_ends_at /\ v \notin DOMAIN p.votes
      /\ UNCHANGED <<now, gov_admin, applied>>
  BY DEF vote, open_for_votes
<1>3. proposals' = [proposals EXCEPT ![id] = q]
  BY DEF vote
<1>4. /\ DOMAIN q = ProposalFields /\ q.votes = book /\ q.votes_for = pro /\ q.votes_against = con
      /\ q.action = p.action /\ q.status = p.status /\ q.created_at = p.created_at
      /\ q.voting_ends_at = p.voting_ends_at /\ q.ready_at = p.ready_at
  BY <1>1 DEF ProposalFields
<1>5. VotesOK(q)
  <2>1. p.created_at <= now /\ now < p.voting_ends_at /\ now \in Nat
    BY <1>1, <1>2 DEF ProposalOK
  <2>2. /\ q.votes = put(p.votes, v, [support |-> s, at |-> now])
        /\ q.votes_for = IF s THEN p.votes_for + w ELSE p.votes_for
        /\ q.votes_against = IF s THEN p.votes_against ELSE p.votes_against + w
    BY <1>4
  <2>3. CountsVote(p, v, s, w, q)
    BY <1>1, <1>2, <1>4, <2>1, <2>2 DEF CountsVote
  <2> QED BY ONLY <2>3, <2>1, VoteCounts
<1>6. ProposalOK(q, m)
  <2>1. /\ p.action \in GovActions /\ p.status \in Statuses /\ p.created_at <= m /\ p.ready_at \in Nat
    BY <1>1 DEF ProposalOK
  <2> QED BY <1>2, <1>4, <1>5, <2>1 DEF ProposalOK, Waited
<1>7. /\ ProposalsOK(proposals', m) /\ DOMAIN proposals' = DOMAIN proposals /\ proposals'[id] = q
      /\ \A i \in DOMAIN proposals : i # id => proposals'[i] = proposals[i]
  <2> PICK r : r = proposals'
    OBVIOUS
  <2>1. m \in Nat /\ id \in DOMAIN proposals /\ r = [proposals EXCEPT ![id] = q]
    BY <1>3
  <2>2. ProposalsOK(proposals, m)
    BY <1>1
  <2>3. /\ ProposalsOK(r, m) /\ DOMAIN r = DOMAIN proposals /\ r[id] = q
        /\ \A i \in DOMAIN proposals : i # id => r[i] = proposals[i]
    BY ONLY <1>6, <2>1, <2>2, OneProposal
  <2> QED BY <2>3
<1>8. AppliedOK(applied, proposals')
  BY <1>1, <1>2, <1>4, <1>7, StillApplied
<1> QED BY <1>2, <1>7, <1>8 DEF VotingInv

\* p in the status st.
LEMMA InStatus ==
  ASSUME NEW p, DOMAIN p = ProposalFields, NEW st
  PROVE  Restated(p, [p EXCEPT !.status = st], st, p.ready_at)
BY DEF Restated, ProposalFields

LEMMA ExecuteFailingStep ==
  ASSUME VotingInv, NEW id \in DOMAIN proposals, execute_failing(id)
  PROVE  VotingInv'
<1> PICK p : p = proposals[id]
  OBVIOUS
<1> PICK q : q = [p EXCEPT !.status = "Failed"]
  OBVIOUS
<1>1. ProposalOK(p, now) /\ DOMAIN p = ProposalFields /\ gov_admin \in GovAdmins
  BY DEF VotingInv, ProposalsOK, ProposalOK
<1>2. Restated(p, q, "Failed", p.ready_at)
  BY <1>1, InStatus
<1>3. p.status = "Active" /\ proposals' = [proposals EXCEPT ![id] = q] /\ UNCHANGED <<now, gov_admin, applied>>
  BY DEF execute_failing, votable_no_more
<1>4. MayBecome(p, "Failed", p.ready_at, now)
  BY <1>1 DEF MayBecome, Statuses, ProposalOK
<1>5. Restates(id, "Failed")
  BY <1>1, <1>2, <1>3, <1>4 DEF Restates
<1> QED BY <1>5, RestateStep

\* Only a proposal of the kind UpdateAdmin changes the admin, and to an admin.
LEMMA ApplyKeepsAdmin ==
  ASSUME VotingInv, NEW id \in DOMAIN proposals, apply_action(id)
  PROVE  gov_admin' \in GovAdmins /\ applied' = Append(applied, id)
<1>1. proposals[id].action \in GovActions /\ gov_admin \in GovAdmins
  BY DEF VotingInv, ProposalsOK, ProposalOK
<1>2. \A a \in GovActions : a.kind = "UpdateAdmin" => a.to \in GovAdmins
  BY GovernanceAssumption DEF GovActions
<1> QED BY <1>1, <1>2 DEF apply_action

LEMMA ExecutePassingStep ==
  ASSUME VotingInv, NEW id \in DOMAIN proposals, execute_passing(id)
  PROVE  VotingInv'
<1> PICK p : p = proposals[id]
  OBVIOUS
<1>1. /\ ProposalOK(p, now) /\ DOMAIN p = ProposalFields /\ gov_admin \in GovAdmins /\ now \in Nat
      /\ p.voting_ends_at \in Nat /\ p.ready_at \in Nat
  <2>1. ProposalOK(p, now)
    BY DEF VotingInv, ProposalsOK
  <2> QED BY <2>1, GovernanceAssumption DEF VotingInv, ProposalOK, VotesOK
<1>2. p.status = "Active" /\ Carried(p) /\ now' = now
  BY DEF execute_passing, votable_no_more, Carried
<1>3. CASE p.action.kind = "ExecuteCall"
  <2> PICK at : at = now + TimelockDelay
    OBVIOUS
  <2> PICK q : q = [p EXCEPT !.status = "Queued", !.ready_at = at]
    OBVIOUS
  <2>1. /\ proposals' = [proposals EXCEPT ![id] = q] /\ UNCHANGED <<gov_admin, applied>>
        /\ now >= p.voting_ends_at + CallTimelock
    BY <1>3 DEF execute_passing, call_may_be_queued
  <2>2. Restated(p, q, "Queued", at)
    BY <1>1 DEF Restated, ProposalFields
  <2>3. at \in Nat /\ at >= p.voting_ends_at + CallTimelock + TimelockDelay
    BY <1>1, <2>1, GovernanceAssumption
  <2>4. MayBecome(p, "Queued", at, now)
    BY <1>2, <2>3 DEF MayBecome, Statuses
  <2>5. Restates(id, "Queued")
    BY <1>1, <1>2, <2>1, <2>2, <2>4 DEF Restates
  <2> QED BY <2>5, RestateStep
<1>4. CASE p.action.kind # "ExecuteCall"
  <2> PICK q : q = [p EXCEPT !.status = "Executed"]
    OBVIOUS
  <2>1. proposals' = [proposals EXCEPT ![id] = q] /\ apply_action(id)
    BY <1>4 DEF execute_passing
  <2>2. Restated(p, q, "Executed", p.ready_at)
    BY <1>1, InStatus
  <2>3. MayBecome(p, "Executed", p.ready_at, now)
    BY <1>1, <1>2, <1>4 DEF MayBecome, Statuses
  <2>4. gov_admin' \in GovAdmins /\ applied' = Append(applied, id)
    BY <2>1, ApplyKeepsAdmin
  <2>5. Restates(id, "Executed")
    BY <1>1, <1>2, <2>1, <2>2, <2>3, <2>4 DEF Restates
  <2> QED BY <2>5, RestateStep
<1> QED BY <1>3, <1>4

LEMMA ExecuteQueuedStep ==
  ASSUME VotingInv, NEW id \in DOMAIN proposals, execute_queued_proposal(id)
  PROVE  VotingInv'
<1> PICK p : p = proposals[id]
  OBVIOUS
<1> PICK q : q = [p EXCEPT !.status = "Executed"]
  OBVIOUS
<1>1. ProposalOK(p, now) /\ DOMAIN p = ProposalFields
  BY DEF VotingInv, ProposalsOK, ProposalOK
<1>2. /\ p.status = "Queued" /\ now >= p.ready_at /\ now' = now
      /\ proposals' = [proposals EXCEPT ![id] = q] /\ apply_action(id)
  BY DEF execute_queued_proposal
<1>3. Restated(p, q, "Executed", p.ready_at)
  BY <1>1, InStatus
<1>4. MayBecome(p, "Executed", p.ready_at, now)
  BY <1>1, <1>2 DEF MayBecome, Statuses, ProposalOK, Waited
<1>5. gov_admin' \in GovAdmins /\ applied' = Append(applied, id)
  BY <1>2, ApplyKeepsAdmin
<1>6. Restates(id, "Executed")
  BY <1>1, <1>2, <1>3, <1>4, <1>5 DEF Restates
<1> QED BY <1>6, RestateStep

LEMMA CancelVotingStep ==
  ASSUME VotingInv, NEW id \in DOMAIN proposals, cancel_proposal(id)
  PROVE  VotingInv'
<1> PICK p : p = proposals[id]
  OBVIOUS
<1> PICK q : q = [p EXCEPT !.status = "Cancelled"]
  OBVIOUS
<1>1. ProposalOK(p, now) /\ DOMAIN p = ProposalFields /\ gov_admin \in GovAdmins
  BY DEF VotingInv, ProposalsOK, ProposalOK
<1>2. Restated(p, q, "Cancelled", p.ready_at)
  BY <1>1, InStatus
<1>3. /\ p.status # "Executed" /\ proposals' = [proposals EXCEPT ![id] = q]
      /\ UNCHANGED <<now, gov_admin, applied>>
  BY DEF cancel_proposal
<1>4. MayBecome(p, "Cancelled", p.ready_at, now)
  BY <1>1 DEF MayBecome, Statuses, ProposalOK
<1>5. Restates(id, "Cancelled")
  BY <1>1, <1>2, <1>3, <1>4 DEF Restates
<1> QED BY <1>5, RestateStep

\* Time only makes more waiting periods end.
LEMMA VotingRests ==
  ASSUME VotingInv, UNCHANGED <<proposals, applied, gov_admin>>, now' \in {now, now + 1}
  PROVE  VotingInv'
<1> PICK m \in Nat : m = now
  BY DEF VotingInv
<1> PICK n \in Nat : n = now'
  OBVIOUS
<1>1. m <= n
  OBVIOUS
<1>2. ASSUME NEW p, ProposalOK(p, m) PROVE ProposalOK(p, n)
  <2>1. p.created_at \in Nat /\ p.created_at <= m /\ p.ready_at \in Nat
    BY <1>2 DEF ProposalOK, VotesOK
  <2>2. p.created_at <= n /\ (m >= p.ready_at => n >= p.ready_at)
    BY <1>1, <2>1
  <2>3. Waited(p, n)
    BY <1>2, <2>2 DEF ProposalOK, Waited
  <2> QED BY <1>2, <2>2, <2>3 DEF ProposalOK
<1>3. ProposalsOK(proposals, n)
  BY <1>2 DEF VotingInv, ProposalsOK
<1> QED BY <1>3 DEF VotingInv

LEMMA VotingStep == ASSUME VotingInv, GovernanceNext PROVE VotingInv'
<1>1. CASE \E p \in Proposers, a \in GovActions, c \in BOOLEAN : create_proposal(p, a, c)
  BY <1>1, CreateStep
<1>2. ASSUME NEW id \in DOMAIN proposals,
             \/ \E v \in Voters, s \in BOOLEAN : vote(v, id, s)
             \/ execute_failing(id) \/ execute_passing(id) \/ execute_queued_proposal(id) \/ cancel_proposal(id)
      PROVE  VotingInv'
  BY <1>2, VoteStep, ExecuteFailingStep, ExecutePassingStep, ExecuteQueuedStep, CancelVotingStep
<1>3. CASE mandate
  <2>1. UNCHANGED <<proposals, applied, gov_admin, now>>
    BY <1>3 DEF mandate, proposal_vars
  <2> QED BY <2>1, VotingRests
<1>4. CASE GovernanceTick
  <2>1. UNCHANGED <<proposals, applied, gov_admin>> /\ now' \in {now, now + 1}
    BY <1>4 DEF GovernanceTick, CloseLedger, gov_vars, proposal_vars
  <2> QED BY <2>1, VotingRests
<1> QED BY <1>1, <1>2, <1>3, <1>4 DEF GovernanceNext

LEMMA VotesDecide == VotingInv => CarriedByVotes /\ CallsWait
<1> SUFFICES ASSUME VotingInv PROVE CarriedByVotes /\ CallsWait
  OBVIOUS
<1>1. \A id \in DOMAIN proposals : ProposalOK(proposals[id], now)
  BY DEF VotingInv, ProposalsOK
<1>2. ASSUME NEW p, ProposalOK(p, now), p.status = "Executed"
      PROVE  Won(p, power_given(p, TRUE), power_given(p, FALSE))
  <2>1. Carried(p) /\ VotesOK(p)
    BY <1>2 DEF ProposalOK
  <2>2. p.votes_for = power_given(p, TRUE) /\ p.votes_against = power_given(p, FALSE)
    BY <2>1 DEF VotesOK
  <2>3. Won(p, p.votes_for, p.votes_against)
    BY <2>1 DEF Carried, quorum_met, Won
  <2> QED BY ONLY <2>2, <2>3, Zenon
<1>3. ASSUME NEW i \in DOMAIN applied
      PROVE  /\ proposals[applied[i]].status = "Executed"
             /\ \A j \in DOMAIN applied : i # j => applied[j] # applied[i]
             /\ Won(proposals[applied[i]], power_given(proposals[applied[i]], TRUE),
                    power_given(proposals[applied[i]], FALSE))
  <2>1. /\ applied[i] \in DOMAIN proposals /\ proposals[applied[i]].status = "Executed"
        /\ \A j \in DOMAIN applied : i # j => applied[j] # applied[i]
    BY DEF VotingInv, AppliedOK
  <2> PICK p : p = proposals[applied[i]]
    OBVIOUS
  <2>2. ProposalOK(p, now) /\ p.status = "Executed"
    BY <1>1, <2>1
  <2>3. Won(p, power_given(p, TRUE), power_given(p, FALSE))
    BY <1>2, <2>2
  <2> QED BY <2>1, <2>3, Zenon
<1>4. CarriedByVotes
  BY <1>3, Zenon DEF CarriedByVotes
<1>5. CallsWait
  BY <1>1 DEF ProposalOK, Waited, CallsWait
<1> QED BY <1>4, <1>5

-----------------------------------------------------------------------------
(* Cancellations. *)

\* The stored times of each admin count its cancellations in every window to come.
StampsCount ==
    \A g \in GovAdmins, t \in Nat :
        t >= now => Late(cancel_times[g], t) = CancelsUpTo(cancels, Len(cancels), g, t)

\* A cooldown started with the last cancellation of its action, or later.
CooldownKey(r) == <<r.by, r.action>>

CooldownsCover ==
    /\ \A k \in DOMAIN cooldowns : cooldowns[k] \in Nat /\ cooldowns[k] <= now
    /\ \A i \in DOMAIN cancels :
         CooldownKey(cancels[i]) \in DOMAIN cooldowns /\ cancels[i].at <= cooldowns[CooldownKey(cancels[i])]

CancelTypes ==
    /\ now \in Nat
    /\ cancel_times \in [GovAdmins -> Seq(Nat)]
    /\ cancels \in Seq(CancelRecord)

CancelInv == CancelTypes /\ StampsCount /\ CooldownsCover /\ CancelsEscalate

\* The cancellation j of the list o is as CancelsEscalate asks for.
Own(o, j) == {i \in 1 .. j - 1 : o[i].by = o[j].by}
Orderly(o, j) ==
    /\ ~o[j].mandated => Cardinality({i \in Own(o, j) : o[i].at + EscalationWindow > o[j].at}) < EscalationThreshold
    /\ \A i \in Own(o, j) : o[i].action = o[j].action => o[j].at >= o[i].at + CancelCooldown

LEMMA EscalateEach == CancelsEscalate <=> \A j \in DOMAIN cancels : Orderly(cancels, j)
BY DEF CancelsEscalate, Orderly, Own

\* A later cancellation does not matter to the earlier ones.
LEMMA OrderlyBefore ==
  ASSUME NEW o \in Seq(CancelRecord), NEW r \in CancelRecord, NEW j \in 1 .. Len(o), Orderly(o, j)
  PROVE  Orderly(Append(o, r), j)
<1> PICK q : q = Append(o, r)
  OBVIOUS
<1>1. \A i \in 1 .. j : q[i] = o[i]
  OBVIOUS
<1>2. \A i \in 1 .. j - 1 : i \in 1 .. j
  OBVIOUS
<1>3. j \in 1 .. j
  OBVIOUS
<1>4. Own(q, j) = Own(o, j)
  BY <1>1, <1>2, <1>3 DEF Own
<1>5. \A i \in Own(o, j) : q[i] = o[i]
  BY <1>1, <1>2 DEF Own
<1>6. {i \in Own(q, j) : q[i].at + EscalationWindow > q[j].at}
        = {i \in Own(o, j) : o[i].at + EscalationWindow > o[j].at}
  BY <1>1, <1>3, <1>4, <1>5
<1> QED BY <1>1, <1>3, <1>4, <1>5, <1>6 DEF Orderly

LEMMA CancelStarts == GovernanceInit => CancelInv
<1> SUFFICES ASSUME GovernanceInit PROVE CancelInv
  OBVIOUS
<1>1. /\ cancels = << >> /\ cancel_times = [a \in GovAdmins |-> << >>] /\ cooldowns = NothingStored /\ now = 0
  BY DEF GovernanceInit
<1>2. << >> \in Seq(Nat) /\ << >> \in Seq(CancelRecord) /\ Len(<< >>) = 0 /\ DOMAIN << >> = {}
  OBVIOUS
<1>3. CancelTypes
  BY <1>1, <1>2 DEF CancelTypes
<1>4. StampsCount
  <2> SUFFICES ASSUME NEW g \in GovAdmins, NEW t \in Nat
               PROVE  Late(cancel_times[g], t) = CancelsUpTo(cancels, Len(cancels), g, t)
    BY DEF StampsCount
  <2>1. cancel_times[g] = << >> /\ 0 \in Nat
    BY <1>1
  <2>2. Late(<< >>, t) = 0
    BY <1>2, <2>1, LateNext DEF Late
  <2>3. {j \in 1 .. 0 : << >>[j].by = g /\ << >>[j].at + EscalationWindow > t} = {}
    OBVIOUS
  <2>4. CancelsUpTo(<< >>, 0, g, t) = 0
    BY <2>3, FS_EmptySet DEF CancelsUpTo
  <2> QED BY <1>1, <1>2, <2>1, <2>2, <2>4
<1>5. CooldownsCover
  <2>1. DOMAIN cooldowns = {}
    BY <1>1 DEF NothingStored
  <2> QED BY <1>1, <1>2, <2>1 DEF CooldownsCover
<1>6. CancelsEscalate
  BY <1>1, <1>2, EscalateEach
<1> QED BY <1>3, <1>4, <1>5, <1>6 DEF CancelInv

\* A cancellation is recorded in all lists, after the cooldown and below the threshold or mandated.
LEMMA CancelStep ==
  ASSUME VotingInv, CancelInv, NEW id \in DOMAIN proposals, cancel_proposal(id)
  PROVE  CancelInv'
<1> PICK g \in GovAdmins : g = gov_admin
  BY DEF VotingInv
<1> PICK m \in Nat : m = now
  BY DEF VotingInv
<1> PICK s \in Seq(Nat) : s = cancel_times[g]
  BY DEF CancelInv, CancelTypes
<1> PICK p : p = recent(s)
  OBVIOUS
<1> PICK a \in GovActions : a = proposals[id].action
  BY DEF VotingInv, ProposalsOK, ProposalOK
<1> PICK x : x = escalates(g)
  OBVIOUS
<1>0. x \in BOOLEAN /\ \A e \in CancelRecord : e.at \in Nat
  <2>1. \A k, l \in Nat : (k >= l) \in BOOLEAN
    OBVIOUS
  <2>2. Len(p) \in Nat /\ EscalationThreshold \in Nat
    BY RecentKeeps, GovernanceAssumption
  <2>3. x = (Len(p) >= EscalationThreshold)
    BY DEF escalates
  <2>4. x \in BOOLEAN
    BY ONLY <2>1, <2>2, <2>3, Zenon
  <2> QED BY <2>4 DEF CancelRecord
<1> PICK key : key = <<g, a>>
  OBVIOUS
<1> PICK r : r = [by |-> g, action |-> a, at |-> m, mandated |-> x]
  OBVIOUS
<1> PICK n \in Nat : n = Len(cancels)
  BY DEF CancelInv, CancelTypes
<1>1. /\ cancel_times' = [cancel_times EXCEPT ![g] = Append(p, m)]
      /\ cancels' = Append(cancels, r)
      /\ cooldowns' = put(cooldowns, key, m)
      /\ key \in DOMAIN cooldowns => m >= cooldowns[key] + CancelCooldown
      /\ now' = now
  <2>1. cancel_times' = [cancel_times EXCEPT ![gov_admin] = Append(recent(@), now)]
    BY DEF cancel_proposal
  <2> QED BY <2>1 DEF cancel_proposal, cooled_down
<1>2. p \in Seq(Nat) /\ Len(p) = Late(s, m) /\ \A t \in Nat : t >= m => Late(p, t) = Late(s, t)
  BY RecentKeeps
<1>3. /\ r \in CancelRecord /\ cancels \in Seq(CancelRecord) /\ cancel_times \in [GovAdmins -> Seq(Nat)]
      /\ r.by = g /\ r.action = a /\ r.at = m /\ r.mandated = x /\ CooldownKey(r) = key
  BY <1>0 DEF CancelRecord, CancelInv, CancelTypes, CooldownKey
<1>4. /\ cancels' \in Seq(CancelRecord) /\ Len(cancels') = n + 1 /\ cancels'[n + 1] = r
      /\ \A k \in 1 .. n : cancels'[k] = cancels[k]
      /\ DOMAIN cancels' = 1 .. n + 1 /\ DOMAIN cancels = 1 .. n
  BY <1>1, <1>3
<1>5. \A h \in GovAdmins : cancel_times'[h] = IF h = g THEN Append(p, m) ELSE cancel_times[h]
  BY <1>1, <1>3
<1>6. CancelTypes'
  <2>1. Append(p, m) \in Seq(Nat)
    BY <1>2
  <2> QED BY <1>1, <1>3, <1>4, <2>1 DEF CancelInv, CancelTypes
<1>7. ASSUME NEW h \in GovAdmins, NEW t \in Nat, t >= m
      PROVE  Late(cancel_times'[h], t) = CancelsUpTo(cancels', n + 1, h, t)
  <2>1. Late(cancel_times[h], t) = CancelsUpTo(cancels, n, h, t)
    BY <1>7 DEF CancelInv, StampsCount
  <2>2. InPeriod(r, h, t) <=> (h = g /\ m + EscalationWindow > t)
    BY <1>3 DEF InPeriod
  <2>3. /\ CancelsUpTo(cancels, n, h, t) \in Nat
        /\ InPeriod(r, h, t) =>
             CancelsUpTo(cancels', n + 1, h, t) = CancelsUpTo(cancels, n, h, t) + 1
        /\ ~InPeriod(r, h, t) =>
             CancelsUpTo(cancels', n + 1, h, t) = CancelsUpTo(cancels, n, h, t)
    BY <1>1, <1>3, CancelsAppend
  <2>4. CASE h = g
    <3>1. Late(p, t) = Late(cancel_times[h], t)
      BY <1>2, <1>7, <2>4
    <3>2. /\ m + EscalationWindow > t => Late(Append(p, m), t) = Late(p, t) + 1
          /\ ~(m + EscalationWindow > t) => Late(Append(p, m), t) = Late(p, t)
      BY <1>2, LateAppend
    <3> QED BY <1>5, <2>1, <2>2, <2>3, <2>4, <3>1, <3>2
  <2>5. CASE h # g
    BY <1>5, <2>1, <2>2, <2>3, <2>5
  <2> QED BY <2>4, <2>5
<1>8. StampsCount'
  BY <1>1, <1>4, <1>7 DEF StampsCount
<1>9. CooldownsCover'
  <2> PICK c : c = cooldowns'
    OBVIOUS
  <2>1. /\ DOMAIN c = DOMAIN cooldowns \cup {key} /\ c[key] = m
        /\ \A k \in DOMAIN cooldowns : k # key => c[k] = cooldowns[k]
    BY <1>1 DEF put
  <2>2. \A k \in DOMAIN cooldowns : cooldowns[k] \in Nat /\ cooldowns[k] <= m
    BY DEF CancelInv, CooldownsCover
  <2>3. \A k \in DOMAIN c : c[k] \in Nat /\ c[k] <= m
    <3>1. m \in Nat /\ m <= m
      OBVIOUS
    <3> QED BY ONLY <2>1, <2>2, <3>1
  <2>4. ASSUME NEW i \in 1 .. n + 1
        PROVE  CooldownKey(cancels'[i]) \in DOMAIN c /\ cancels'[i].at <= c[CooldownKey(cancels'[i])]
    <3>1. CASE i = n + 1
      <4>1. cancels'[i] = r /\ m <= m
        BY <1>4, <3>1
      <4> QED BY <1>3, <2>1, <4>1
    <3>2. CASE i \in 1 .. n
      <4> PICK k : k = CooldownKey(cancels[i])
        OBVIOUS
      <4> PICK u \in Nat : u = cancels[i].at
        <5>1. cancels[i] \in CancelRecord
          BY <1>3, <1>4, <3>2
        <5> QED BY <1>0, <5>1
      <4>1. k \in DOMAIN cooldowns /\ u <= cooldowns[k]
        BY <1>4, <3>2 DEF CancelInv, CooldownsCover
      <4>2. u <= c[k] /\ k \in DOMAIN c
        BY ONLY <2>1, <2>2, <4>1, u \in Nat, m \in Nat
      <4> QED BY <1>4, <3>2, <4>2
    <3> QED BY <3>1, <3>2
  <2>5. /\ \A k \in DOMAIN cooldowns' : cooldowns'[k] \in Nat /\ cooldowns'[k] <= now'
        /\ \A i \in DOMAIN cancels' : CooldownKey(cancels'[i]) \in DOMAIN cooldowns'
                                      /\ cancels'[i].at <= cooldowns'[CooldownKey(cancels'[i])]
    <3>1. cooldowns' = c /\ now' = m /\ DOMAIN cancels' = 1 .. n + 1
      BY <1>1, <1>4
    <3>2. \A k \in DOMAIN cooldowns' : cooldowns'[k] \in Nat /\ cooldowns'[k] <= now'
      BY ONLY <2>3, <3>1
    <3>3. \A i \in DOMAIN cancels' : CooldownKey(cancels'[i]) \in DOMAIN cooldowns'
                                   /\ cancels'[i].at <= cooldowns'[CooldownKey(cancels'[i])]
      BY ONLY <2>4, <3>1
    <3> QED BY <3>2, <3>3
  <2> QED BY <2>5 DEF CooldownsCover, CooldownKey
<1>10. CancelsEscalate'
  <2> PICK o : o = cancels'
    OBVIOUS
  <2>1. ASSUME NEW j \in 1 .. n PROVE Orderly(o, j)
    <3>1. Orderly(cancels, j)
      BY <1>4, EscalateEach DEF CancelInv
    <3>2. j \in 1 .. Len(cancels)
      OBVIOUS
    <3>3. Orderly(Append(cancels, r), j)
      BY ONLY <1>3, <3>1, <3>2, OrderlyBefore
    <3> QED BY <1>1, <3>3
  <2>2. Orderly(o, n + 1)
    <3>1. o[n + 1] = r /\ \A i \in 1 .. n : o[i] = cancels[i]
      BY <1>4
    <3>2. Own(o, n + 1) = {i \in 1 .. n : cancels[i].by = g}
      <4>1. (n + 1) - 1 = n
        OBVIOUS
      <4> QED BY <1>3, <3>1, <4>1 DEF Own
    <3>3. {i \in Own(o, n + 1) : o[i].at + EscalationWindow > o[n + 1].at}
            = {i \in 1 .. n : cancels[i].by = g /\ cancels[i].at + EscalationWindow > m}
      BY <1>3, <3>1, <3>2
    <3>4. CancelsUpTo(cancels, n, g, m) = Len(p)
      BY <1>2 DEF CancelInv, StampsCount
    <3>5. ~x => Len(p) < EscalationThreshold
      <4>1. Len(p) \in Nat /\ EscalationThreshold \in Nat
        BY <1>2, GovernanceAssumption
      <4>2. escalates(g) <=> Len(p) >= EscalationThreshold
        BY DEF escalates
      <4> QED BY <4>1, <4>2
    <3>6. ASSUME NEW i \in 1 .. n, cancels[i].by = g, cancels[i].action = a
          PROVE  m >= cancels[i].at + CancelCooldown
      <4>0. CooldownKey(cancels[i]) = key
        BY <3>6 DEF CooldownKey
      <4>1. key \in DOMAIN cooldowns /\ cancels[i].at <= cooldowns[key]
        BY <1>4, <4>0 DEF CancelInv, CooldownsCover
      <4>2. cooldowns[key] \in Nat /\ cancels[i].at \in Nat /\ CancelCooldown \in Nat
        <5>1. cancels[i] \in CancelRecord
          BY <1>3, <1>4
        <5> QED BY <1>0, <4>1, <5>1, GovernanceAssumption DEF CancelInv, CooldownsCover
      <4>3. m >= cooldowns[key] + CancelCooldown
        BY <1>1, <4>1
      <4> QED BY ONLY <4>1, <4>2, <4>3, m \in Nat
    <3>7. ~o[n + 1].mandated =>
            Cardinality({i \in Own(o, n + 1) : o[i].at + EscalationWindow > o[n + 1].at}) < EscalationThreshold
      BY <1>3, <3>1, <3>3, <3>4, <3>5 DEF CancelsUpTo
    <3>8. \A i \in Own(o, n + 1) : o[i].action = o[n + 1].action => o[n + 1].at >= o[i].at + CancelCooldown
      BY <1>3, <3>1, <3>2, <3>6
    <3> QED BY <3>7, <3>8 DEF Orderly
  <2>3. \A j \in 1 .. n + 1 : Orderly(o, j)
    <3>1. \A j \in 1 .. n + 1 : j \in 1 .. n \/ j = n + 1
      OBVIOUS
    <3> QED BY <2>1, <2>2, <3>1
  <2>4. (\A j \in DOMAIN cancels : Orderly(cancels, j))'
    BY <1>4, <2>3 DEF Orderly, Own
  <2> QED BY <2>4, EscalateEach, PTL
<1> QED BY <1>6, <1>8, <1>9, <1>10 DEF CancelInv

\* The other operations leave the cancellations, and time only ends windows and cooldowns.
LEMMA CancelRests ==
  ASSUME CancelInv, UNCHANGED <<cooldowns, cancel_times, cancels>>, now' \in {now, now + 1}
  PROVE  CancelInv'
<1> PICK m \in Nat : m = now
  BY DEF CancelInv, CancelTypes
<1>1. CancelTypes'
  BY DEF CancelInv, CancelTypes
<1>2. \A t \in Nat : t >= now' => t >= now
  OBVIOUS
<1>3. StampsCount'
  BY <1>2 DEF CancelInv, StampsCount
<1>4. CooldownsCover'
  BY DEF CancelInv, CooldownsCover
<1>5. CancelsEscalate'
  BY DEF CancelInv, CancelsEscalate
<1> QED BY <1>1, <1>3, <1>4, <1>5 DEF CancelInv

LEMMA CancelsStep == ASSUME VotingInv, CancelInv, GovernanceNext PROVE CancelInv'
<1>1. ASSUME NEW id \in DOMAIN proposals, cancel_proposal(id) PROVE CancelInv'
  BY <1>1, CancelStep
<1>2. CASE /\ UNCHANGED <<cooldowns, cancel_times, cancels>> /\ now' \in {now, now + 1}
  BY <1>2, CancelRests
<1>3. CASE \E p \in Proposers, a \in GovActions, c \in BOOLEAN : create_proposal(p, a, c)
  BY <1>2, <1>3 DEF create_proposal, cancel_vars
<1>4. ASSUME NEW id \in DOMAIN proposals,
             \/ \E v \in Voters, s \in BOOLEAN : vote(v, id, s)
             \/ execute_failing(id) \/ execute_passing(id) \/ execute_queued_proposal(id)
      PROVE  CancelInv'
  <2>1. CASE \E v \in Voters, s \in BOOLEAN : vote(v, id, s)
    BY <1>2, <2>1 DEF vote, cancel_vars
  <2>2. CASE execute_failing(id) \/ execute_passing(id) \/ execute_queued_proposal(id)
    BY <1>2, <2>2 DEF execute_failing, execute_passing, execute_queued_proposal, cancel_vars
  <2> QED BY <1>4, <2>1, <2>2
<1>5. CASE mandate \/ GovernanceTick
  BY <1>2, <1>5 DEF mandate, GovernanceTick, CloseLedger, gov_vars, cancel_vars
<1> QED BY <1>1, <1>3, <1>4, <1>5 DEF GovernanceNext

-----------------------------------------------------------------------------
(* The upgrade registry. *)

UpgradeItem == [old : Nat, new : Nat, at : Nat, by : Approvers \cup {{}}]
Migration == [version : Nat, left : Nat]

UpgradeTypes ==
    /\ now \in Nat
    /\ history \in Seq(UpgradeItem) /\ latest \in Nat
    /\ pending_upgrade = None \/ pending_upgrade.version \in Nat
    /\ in_force \in [Approvers -> Nat]

\* A set of approvers that meets the configuration does so now.
ForceIsCurrent ==
    \A a \in Approvers : in_force[a] <= now /\ (validate_approval_set(a, config) => in_force[a] = now)

\* What is cached was valid when it was stored.
CacheFollowsForce ==
    \A a \in Approvers : a \in DOMAIN cache => cache[a] \in Nat /\ cache[a] <= in_force[a]

\* Once there are layouts one of them is active, and a migration leads to one of them.
LayoutsAreKnown ==
    /\ layouts \subseteq Versions
    /\ IF layouts = {} THEN active_layout.version = 0 ELSE active_layout.version \in layouts
    /\ migration # None => migration \in Migration /\ migration.version \in layouts

UpgradeInv ==
    UpgradeTypes /\ ForceIsCurrent /\ CacheFollowsForce /\ LayoutsAreKnown /\ ApprovalsAreRecent

\* The layout stays during a migration.
LayoutStays == migrating /\ migrating' => active_layout'.version = active_layout.version \/ latest = 0

LEMMA UpgradeStarts == UpgradeInit => UpgradeInv
<1> SUFFICES ASSUME UpgradeInit PROVE UpgradeInv
  OBVIOUS
<1>1. UpgradeTypes /\ CacheFollowsForce /\ ApprovalsAreRecent
  BY DEF UpgradeInit, UpgradeTypes, CacheFollowsForce, ApprovalsAreRecent, NothingStored
<1>2. ForceIsCurrent /\ LayoutsAreKnown
  BY DEF UpgradeInit, ForceIsCurrent, LayoutsAreKnown
<1> QED BY <1>1, <1>2 DEF UpgradeInv

\* Who passes the check, by signing or by the cache, was valid less than the expiry ago.
LEMMA PassesRecently ==
  ASSUME UpgradeInv, NEW a \in Approvers, require_upgrade_approvals_cached(a)
  PROVE  /\ now < in_force[a] + CacheExpiry
         /\ UNCHANGED in_force => CacheFollowsForce'
<1>1. /\ now \in Nat /\ in_force \in [Approvers -> Nat] /\ CacheExpiry \in Nat \ {0}
      /\ cached(a) \/ validate_approval_set(a, config)
      /\ cache' = cache_after(a)
  BY UpgradeAssumption DEF UpgradeInv, UpgradeTypes, require_upgrade_approvals_cached
<1>2. CASE cached(a)
  <2>1. now < cache[a] + CacheExpiry /\ cache[a] <= in_force[a] /\ cache[a] \in Nat /\ cache' = cache
    BY <1>1, <1>2 DEF cached, cache_after, UpgradeInv, CacheFollowsForce
  <2>2. in_force[a] \in Nat
    BY <1>1
  <2> QED BY <1>1, <2>1, <2>2 DEF UpgradeInv, CacheFollowsForce
<1>3. CASE ~cached(a)
  <2>1. in_force[a] = now /\ cache' = put(cache, a, now)
    BY <1>1, <1>3 DEF cache_after, UpgradeInv, ForceIsCurrent
  <2>2. ASSUME UNCHANGED in_force, NEW b \in Approvers, b \in DOMAIN cache'
        PROVE  cache'[b] \in Nat /\ cache'[b] <= in_force'[b]
    <3>1. CASE b = a
      BY <1>1, <2>1, <2>2, <3>1 DEF put
    <3>2. CASE b # a
      BY <2>1, <2>2, <3>2 DEF put, UpgradeInv, CacheFollowsForce
    <3> QED BY <3>1, <3>2
  <2> QED BY <1>1, <2>1, <2>2 DEF CacheFollowsForce
<1> QED BY <1>2, <1>3

\* An upgrade on record: by approvers who were valid recently, or by the admin alone.
LEMMA RecordStep ==
  ASSUME UpgradeInv, NEW old \in Nat, NEW version \in Nat, NEW by \in Approvers \cup {{}},
         recorded_upgrade(old, version, by), UNCHANGED <<now, in_force>>,
         by # {} => now < in_force[by] + CacheExpiry
  PROVE  history' \in Seq(UpgradeItem) /\ latest' \in Nat /\ ApprovalsAreRecent'
<1> DEFINE n == Len(history)
           e == [old |-> old, new |-> version, at |-> now, by |-> by]
<1>1. history \in Seq(UpgradeItem) /\ now \in Nat
  BY DEF UpgradeInv, UpgradeTypes
<1>2. e \in UpgradeItem /\ e.at = now /\ e.by = by /\ history' = Append(history, e) /\ latest' = version
  BY <1>1 DEF UpgradeItem, recorded_upgrade
<1> HIDE DEF e
<1>3. /\ history' \in Seq(UpgradeItem) /\ n \in Nat
      /\ DOMAIN history = 1 .. n /\ DOMAIN history' = 1 .. n + 1
      /\ \A i \in 1 .. n : history'[i] = history[i]
      /\ history'[n + 1] = e
  BY <1>1, <1>2, Appended
<1>4. ASSUME NEW i \in 1 .. n + 1, history'[i].by # {}
      PROVE  history'[i].at < in_force'[history'[i].by] + CacheExpiry
  <2>1. CASE i = n + 1
    BY <1>2, <1>3, <1>4, <2>1
  <2>2. CASE i \in 1 .. n
    BY <1>3, <1>4, <2>2 DEF UpgradeInv, ApprovalsAreRecent
  <2> QED BY <1>3, <2>1, <2>2
<1> QED BY <1>2, <1>3, <1>4 DEF ApprovalsAreRecent

\* The calls that leave the layouts.
LEMMA UpgradeCalls ==
  ASSUME UpgradeInv, NEW a \in Approvers,
         \/ \E v \in Versions : schedule_upgrade(v, a) \/ upgrade_contract(v, a)
         \/ execute_pending_upgrade(a)
  PROVE  UpgradeInv' /\ LayoutStays
<1>1. /\ require_upgrade_approvals_cached(a) /\ UNCHANGED <<now, config, layout_state, in_force>>
  BY DEF schedule_upgrade, upgrade_contract, execute_pending_upgrade
<1>2. now < in_force[a] + CacheExpiry /\ CacheFollowsForce'
  BY <1>1, PassesRecently
<1>3. ForceIsCurrent' /\ LayoutsAreKnown' /\ LayoutStays
  BY <1>1 DEF UpgradeInv, ForceIsCurrent, validate_approval_set, LayoutsAreKnown, LayoutStays, layout_state
<1>4. /\ now \in Nat /\ latest \in Nat /\ history \in Seq(UpgradeItem) /\ in_force \in [Approvers -> Nat]
      /\ Versions \subseteq Nat
  BY UpgradeAssumption DEF UpgradeInv, UpgradeTypes
<1>5. CASE \E v \in Versions : schedule_upgrade(v, a)
  <2> PICK v \in Versions : schedule_upgrade(v, a)
    BY <1>5
  <2>1. /\ pending_upgrade' = [version |-> v, after |-> now + upgrade_delay]
        /\ UNCHANGED <<history, latest>>
    BY DEF schedule_upgrade
  <2>2. UpgradeTypes'
    BY <1>1, <1>4, <2>1 DEF UpgradeTypes
  <2> QED BY <1>1, <1>2, <1>3, <2>1, <2>2 DEF UpgradeInv, ApprovalsAreRecent
<1>6. CASE \E v \in Versions : upgrade_contract(v, a)
  <2> PICK v \in Versions : upgrade_contract(v, a)
    BY <1>6
  <2>1. recorded_upgrade(latest, v, a) /\ UNCHANGED pending_upgrade
    BY DEF upgrade_contract
  <2>2. history' \in Seq(UpgradeItem) /\ latest' \in Nat /\ ApprovalsAreRecent'
    BY <1>1, <1>2, <1>4, <2>1, RecordStep
  <2>3. UpgradeTypes'
    BY <1>1, <1>4, <2>1, <2>2 DEF UpgradeInv, UpgradeTypes, None
  <2> QED BY <1>1, <1>2, <1>3, <2>2, <2>3 DEF UpgradeInv
<1>7. CASE execute_pending_upgrade(a)
  <2>1. /\ pending_upgrade # None /\ recorded_upgrade(latest, pending_upgrade.version, a)
        /\ pending_upgrade' = None
    BY <1>7 DEF execute_pending_upgrade
  <2>2. pending_upgrade.version \in Nat
    BY <2>1 DEF UpgradeInv, UpgradeTypes
  <2>3. history' \in Seq(UpgradeItem) /\ latest' \in Nat /\ ApprovalsAreRecent'
    BY <1>1, <1>2, <1>4, <2>1, <2>2, RecordStep
  <2>4. UpgradeTypes'
    BY <1>1, <1>4, <2>1, <2>3 DEF UpgradeTypes
  <2> QED BY <1>1, <1>2, <1>3, <2>3, <2>4 DEF UpgradeInv
<1> QED BY <1>5, <1>6, <1>7

\* The calls on layouts and migrations.
LEMMA LayoutCalls ==
  ASSUME UpgradeInv, NEW a \in Approvers,
         \/ \E v \in Versions : \/ register_storage_schema(v, a) \/ rollback_storage_layout(v, a)
                                \/ \E from \in Versions, n \in MigrationRecords : start_storage_migration(from, v, n, a)
         \/ execute_migration_step(1, a)
  PROVE  UpgradeInv' /\ LayoutStays
<1>1. /\ require_upgrade_approvals_cached(a)
      /\ UNCHANGED <<now, latest, history, pending_upgrade, upgrade_delay, config, in_force>>
  BY DEF register_storage_schema, rollback_storage_layout, start_storage_migration, execute_migration_step
<1>2. CacheFollowsForce'
  BY <1>1, PassesRecently
<1>3. UpgradeTypes' /\ ForceIsCurrent' /\ ApprovalsAreRecent'
  BY <1>1 DEF UpgradeInv, UpgradeTypes, ForceIsCurrent, validate_approval_set, ApprovalsAreRecent
<1>4. Versions \subseteq Nat \ {0} /\ MigrationRecords \subseteq Nat
  BY UpgradeAssumption
<1>5. CASE \E v \in Versions : register_storage_schema(v, a)
  <2> PICK v \in Versions : register_storage_schema(v, a)
    BY <1>5
  <2>1. /\ layouts' = layouts \cup {v} /\ UNCHANGED migration
        /\ active_layout' = IF latest = 0 \/ active_layout.version = 0
                              THEN [version |-> v, migrating |-> FALSE] ELSE active_layout
    BY DEF register_storage_schema
  <2>2. LayoutsAreKnown'
    <3>1. CASE layouts = {}
      <4>1. migration = None /\ active_layout.version = 0
        BY <3>1 DEF UpgradeInv, LayoutsAreKnown
      <4>2. active_layout' = [version |-> v, migrating |-> FALSE] /\ migration' = None /\ layouts' = {v}
        BY <2>1, <3>1, <4>1
      <4>3. active_layout'.version = v
        BY <4>2
      <4> QED BY <4>2, <4>3 DEF LayoutsAreKnown
    <3>2. CASE layouts # {}
      BY <1>4, <2>1, <3>2 DEF UpgradeInv, LayoutsAreKnown
    <3> QED BY <3>1, <3>2
  <2>3. LayoutStays
    BY <1>4, <2>1 DEF UpgradeInv, LayoutsAreKnown, LayoutStays, migrating
  <2> QED BY <1>2, <1>3, <2>2, <2>3 DEF UpgradeInv
<1>6. CASE \E v \in Versions : rollback_storage_layout(v, a)
  <2> PICK v \in Versions : rollback_storage_layout(v, a)
    BY <1>6
  <2>1. /\ v \in layouts /\ active_layout' = [version |-> v, migrating |-> FALSE] /\ migration' = None
        /\ UNCHANGED layouts
    BY DEF rollback_storage_layout
  <2>2. LayoutsAreKnown' /\ LayoutStays
    BY <2>1 DEF UpgradeInv, LayoutsAreKnown, LayoutStays, migrating
  <2> QED BY <1>2, <1>3, <2>2 DEF UpgradeInv
<1>7. CASE \E v \in Versions : \E from \in Versions, n \in MigrationRecords : start_storage_migration(from, v, n, a)
  <2> PICK v \in Versions, from \in Versions, n \in MigrationRecords : start_storage_migration(from, v, n, a)
    BY <1>7
  <2>1. /\ v \in layouts /\ ~migrating /\ migration' = [version |-> v, left |-> n]
        /\ active_layout' = IF active_layout.version = 0 THEN active_layout
                            ELSE [active_layout EXCEPT !.migrating = TRUE]
        /\ UNCHANGED layouts
    BY DEF start_storage_migration
  <2>2. active_layout'.version = active_layout.version
    BY <2>1
  <2>3. LayoutsAreKnown'
    BY <1>4, <2>1, <2>2 DEF UpgradeInv, LayoutsAreKnown, Migration
  <2>4. LayoutStays
    BY <2>1 DEF LayoutStays
  <2> QED BY <1>2, <1>3, <2>3, <2>4 DEF UpgradeInv
<1>8. CASE execute_migration_step(1, a)
  <2> DEFINE left == IF 1 < migration.left THEN migration.left - 1 ELSE 0
  <2>1. /\ migrating /\ migration' = [migration EXCEPT !.left = left] /\ active_layout' = migrated_to(left)
        /\ UNCHANGED layouts
    BY <1>8 DEF execute_migration_step
  <2>2. migration \in Migration /\ migration.version \in layouts /\ migration.left \in Nat
    BY <2>1 DEF migrating, UpgradeInv, LayoutsAreKnown, Migration
  <2>3. left \in Nat
    BY <2>2
  <2> HIDE DEF left
  <2>4. migration' \in Migration /\ migration'.version = migration.version /\ migration'.left = left
    BY <2>1, <2>2, <2>3 DEF Migration
  <2>5. LayoutsAreKnown'
    BY <2>1, <2>2, <2>4 DEF UpgradeInv, LayoutsAreKnown, migrated_to
  <2>6. LayoutStays
    BY <2>1, <2>3, <2>4 DEF LayoutStays, migrating, migrated_to
  <2> QED BY <1>2, <1>3, <2>5, <2>6 DEF UpgradeInv
<1> QED BY <1>5, <1>6, <1>7, <1>8

\* A change of the configuration, and time, renew what is in force and never set it back.
\* A change of the configuration, and time, renew what is in force and never set it back.
LEMMA ForceMoves ==
  ASSUME UpgradeInv, NEW t \in Nat, t >= now, now' = t, in_force' = satisfied(config', t),
         UNCHANGED <<latest, history, pending_upgrade, cache, layout_state>>
  PROVE  UpgradeInv' /\ LayoutStays
<1>1. now \in Nat /\ in_force \in [Approvers -> Nat] /\ history \in Seq(UpgradeItem) /\ CacheExpiry \in Nat
  BY UpgradeAssumption DEF UpgradeInv, UpgradeTypes
<1>2. \A a \in Approvers : in_force[a] <= now /\ in_force[a] \in Nat
  BY <1>1 DEF UpgradeInv, ForceIsCurrent
<1>3. /\ in_force' \in [Approvers -> Nat]
      /\ \A a \in Approvers : in_force'[a] = IF validate_approval_set(a, config') THEN t ELSE in_force[a]
  BY <1>1 DEF satisfied
<1>4. \A a \in Approvers : in_force[a] <= in_force'[a] /\ in_force'[a] <= t
  BY <1>1, <1>2, <1>3
<1>5. ForceIsCurrent'
  BY <1>3, <1>4 DEF ForceIsCurrent, validate_approval_set
<1>6. CacheFollowsForce'
  BY <1>2, <1>3, <1>4 DEF UpgradeInv, CacheFollowsForce
<1>7. ApprovalsAreRecent'
  <2> SUFFICES ASSUME NEW i \in DOMAIN history, history[i].by # {}
               PROVE  history[i].at < in_force'[history[i].by] + CacheExpiry
    BY DEF ApprovalsAreRecent
  <2>1. history[i] \in UpgradeItem
    BY <1>1
  <2>2. history[i].by \in Approvers /\ history[i].at \in Nat
    BY <2>1 DEF UpgradeItem
  <2>3. history[i].at < in_force[history[i].by] + CacheExpiry
    BY DEF UpgradeInv, ApprovalsAreRecent
  <2> QED BY <1>1, <1>2, <1>3, <1>4, <2>2, <2>3
<1>8. UpgradeTypes' /\ LayoutsAreKnown' /\ LayoutStays
  BY <1>3 DEF UpgradeInv, UpgradeTypes, LayoutsAreKnown, LayoutStays, layout_state
<1> QED BY <1>5, <1>6, <1>7, <1>8 DEF UpgradeInv

LEMMA UpgradeStep == ASSUME UpgradeInv, UpgradeNext PROVE UpgradeInv' /\ LayoutStays
<1>1. ASSUME NEW a \in Approvers,
             \/ \E v \in Versions : schedule_upgrade(v, a) \/ upgrade_contract(v, a)
             \/ execute_pending_upgrade(a)
      PROVE  UpgradeInv' /\ LayoutStays
  BY <1>1, UpgradeCalls
<1>2. ASSUME NEW a \in Approvers,
             \/ \E v \in Versions : \/ register_storage_schema(v, a) \/ rollback_storage_layout(v, a)
                                    \/ \E from \in Versions, n \in MigrationRecords : start_storage_migration(from, v, n, a)
             \/ execute_migration_step(1, a)
      PROVE  UpgradeInv' /\ LayoutStays
  BY <1>2, LayoutCalls
<1>3. ASSUME NEW a \in Approvers, NEW s \in SignerSets, NEW t \in 1 .. Cardinality(UNION SignerSets),
             set_upgrade_signers(s, t, a)
      PROVE  UpgradeInv' /\ LayoutStays
  <2>1. /\ now' = now /\ in_force' = satisfied(config', now)
        /\ UNCHANGED <<latest, history, pending_upgrade, cache, layout_state>>
    BY <1>3 DEF set_upgrade_signers
  <2>2. now \in Nat /\ now >= now
    BY DEF UpgradeInv, UpgradeTypes
  <2> QED BY <2>1, <2>2, ForceMoves
<1>4. ASSUME NEW v \in Versions, register_upgrade(0, v)
      PROVE  UpgradeInv' /\ LayoutStays
  <2>1. /\ recorded_upgrade(0, v, {})
        /\ UNCHANGED <<now, pending_upgrade, upgrade_delay, config, cache, layout_state, in_force>>
    BY <1>4 DEF register_upgrade
  <2>2. history' \in Seq(UpgradeItem) /\ latest' \in Nat /\ ApprovalsAreRecent'
    BY <2>1, RecordStep, UpgradeAssumption
  <2>3. UpgradeTypes' /\ ForceIsCurrent' /\ CacheFollowsForce' /\ LayoutsAreKnown' /\ LayoutStays
    BY <2>1, <2>2 DEF UpgradeInv, UpgradeTypes, ForceIsCurrent, validate_approval_set, CacheFollowsForce,
                      LayoutsAreKnown, LayoutStays, layout_state
  <2> QED BY <2>2, <2>3 DEF UpgradeInv
<1>5. CASE cancel_pending_upgrade
  <2>1. /\ pending_upgrade' = None
        /\ UNCHANGED <<now, latest, history, upgrade_delay, config, cache, layout_state, in_force>>
    BY <1>5 DEF cancel_pending_upgrade
  <2> QED BY <2>1 DEF UpgradeInv, UpgradeTypes, ForceIsCurrent, validate_approval_set, CacheFollowsForce,
                      LayoutsAreKnown, LayoutStays, layout_state, ApprovalsAreRecent
<1>6. CASE UpgradeTick
  <2>1. /\ now' = now + 1 /\ in_force' = satisfied(config', now + 1)
        /\ UNCHANGED <<latest, history, pending_upgrade, upgrade_delay, config, cache, layout_state>>
    BY <1>6 DEF UpgradeTick, CloseLedger
  <2>2. now \in Nat /\ now + 1 \in Nat /\ now + 1 >= now
    BY DEF UpgradeInv, UpgradeTypes
  <2> QED BY <2>1, <2>2, ForceMoves
<1> QED BY <1>1, <1>2, <1>3, <1>4, <1>5, <1>6 DEF UpgradeNext

-----------------------------------------------------------------------------
(* Snapshots and rollbacks of the staking and registry contracts. *)

ApproversOf(r, p) == {a \in r.approved : a[1] = p}

\* Each proposal counts its approvers, and one that was executed has enough.
RescueOK(r) ==
    /\ DOMAIN r = DOMAIN NoRescue
    /\ r.proposals \in Seq([snapshot : SnapshotIds, approvals : Int, executed : BOOLEAN])
    /\ IsFiniteSet(r.approved)
    /\ \A a \in r.approved : a[1] \in 1 .. Len(r.proposals)
    /\ \A p \in 1 .. Len(r.proposals) :
         /\ r.proposals[p].approvals = Cardinality(ApproversOf(r, p))
         /\ r.proposals[p].executed => Cardinality(ApproversOf(r, p)) >= RescueThreshold

RescueInv ==
    /\ "rescue" \in DOMAIN stake_recovery /\ RescueOK(stake_recovery.rescue)
    /\ "rescue" \in DOMAIN registry_recovery /\ RescueOK(registry_recovery.rescue)

LEMMA RescueStarts == StakeRecoveryInit /\ RegistryRecoveryInit => RescueInv
<1>1. RescueOK(NoRescue)
  <2>1. NoRescue.proposals = << >> /\ NoRescue.approved = {} /\ IsFiniteSet({})
    BY FS_EmptySet DEF NoRescue
  <2> QED BY <2>1 DEF RescueOK
<1> QED BY <1>1 DEF StakeRecoveryInit, RegistryRecoveryInit, RescueInv

\* What does not concern proposals.
LEMMA RescueKept ==
  ASSUME NEW r, RescueOK(r), NEW q, DOMAIN q = DOMAIN r, q.proposals = r.proposals, q.approved = r.approved
  PROVE  RescueOK(q)
BY DEF RescueOK, ApproversOf

\* A proposal counts as the first approval.
LEMMA ProposalCounts ==
  ASSUME NEW r, RescueOK(r), NEW g, NEW id \in SnapshotIds
  PROVE  RescueOK(with_proposal(r, g, id))
<1> DEFINE n == Len(r.proposals)
           e == [snapshot |-> id, approvals |-> 1, executed |-> FALSE]
           P == [snapshot : SnapshotIds, approvals : Int, executed : BOOLEAN]
           q == with_proposal(r, g, id)
           a == <<n + 1, g>>
<1>1. /\ "proposals" \in DOMAIN r /\ "approved" \in DOMAIN r
      /\ r.proposals \in Seq(P) /\ IsFiniteSet(r.approved)
  BY DEF RescueOK, NoRescue
<1>2. /\ DOMAIN q = DOMAIN r /\ q.proposals = Append(r.proposals, e)
      /\ q.approved = r.approved \cup {a}
  BY <1>1 DEF with_proposal
<1>3. e \in P /\ e.approvals = 1 /\ e.executed = FALSE
  OBVIOUS
<1> HIDE DEF e, P, q
<1>4. /\ q.proposals \in Seq(P) /\ n \in Nat /\ Len(q.proposals) = n + 1
      /\ \A i \in 1 .. n : q.proposals[i] = r.proposals[i]
      /\ q.proposals[n + 1] = e
  BY <1>1, <1>2, <1>3, Appended
<1>5. a \notin r.approved /\ a[1] = n + 1 /\ \A b \in r.approved : b[1] \in 1 .. n
  BY <1>4 DEF RescueOK
<1>6. IsFiniteSet(q.approved)
  BY <1>1, <1>2, FS_AddElement
<1>7. \A b \in q.approved : b[1] \in 1 .. Len(q.proposals)
  BY <1>2, <1>4, <1>5
<1>8. ASSUME NEW p \in 1 .. n + 1
      PROVE  /\ q.proposals[p].approvals = Cardinality(ApproversOf(q, p))
             /\ q.proposals[p].executed => Cardinality(ApproversOf(q, p)) >= RescueThreshold
  <2>1. CASE p = n + 1
    <3>1. ApproversOf(q, p) = {a}
      BY <1>2, <1>4, <1>5, <2>1 DEF ApproversOf
    <3>2. Cardinality({a}) = 1
      BY FS_Singleton
    <3> QED BY <1>3, <1>4, <2>1, <3>1, <3>2
  <2>2. CASE p \in 1 .. n
    <3>1. ApproversOf(q, p) = ApproversOf(r, p)
      BY <1>2, <1>4, <1>5, <2>2 DEF ApproversOf
    <3> QED BY <1>4, <2>2, <3>1 DEF RescueOK
  <2> QED BY <1>4, <2>1, <2>2
<1> QED BY <1>2, <1>4, <1>6, <1>7, <1>8 DEF RescueOK, q, P

\* An approval is by somebody who had not approved.
LEMMA ApprovalCounts ==
  ASSUME NEW r, RescueOK(r), NEW g, NEW p \in 1 .. Len(r.proposals), may_approve(r, g, p)
  PROVE  RescueOK(with_approval(r, g, p))
<1> DEFINE n == Len(r.proposals)
           P == [snapshot : SnapshotIds, approvals : Int, executed : BOOLEAN]
           q == with_approval(r, g, p)
           a == <<p, g>>
<1>1. /\ "proposals" \in DOMAIN r /\ "approved" \in DOMAIN r
      /\ r.proposals \in Seq(P) /\ IsFiniteSet(r.approved) /\ n \in Nat
  BY DEF RescueOK, NoRescue
<1>2. /\ DOMAIN q = DOMAIN r /\ q.approved = r.approved \cup {a}
      /\ q.proposals = [r.proposals EXCEPT ![p].approvals = @ + 1]
  BY <1>1 DEF with_approval
<1>3. a \notin r.approved /\ a[1] = p /\ ~r.proposals[p].executed
  BY DEF may_approve, not_approved_yet
<1>4. r.proposals[p] \in P
  <2> HIDE DEF P
  <2> QED BY <1>1
<1>5. /\ q.proposals \in Seq(P) /\ Len(q.proposals) = n
      /\ \A i \in 1 .. n : i # p => q.proposals[i] = r.proposals[i]
      /\ q.proposals[p].approvals = r.proposals[p].approvals + 1
      /\ q.proposals[p].executed = r.proposals[p].executed
  <2> PICK e : e = [r.proposals[p] EXCEPT !.approvals = r.proposals[p].approvals + 1]
    OBVIOUS
  <2>1. /\ e \in P /\ e.approvals = r.proposals[p].approvals + 1
        /\ e.executed = r.proposals[p].executed
    BY <1>4
  <2>2. q.proposals = [r.proposals EXCEPT ![p] = e]
    BY <1>2
  <2> HIDE DEF P, q
  <2> QED BY <1>1, <2>1, <2>2
<1> HIDE DEF P, q
<1>6. IsFiniteSet(q.approved)
  BY <1>1, <1>2, FS_AddElement
<1>7. \A b \in q.approved : b[1] \in 1 .. Len(q.proposals)
  BY <1>2, <1>3, <1>5 DEF RescueOK
<1>8. ASSUME NEW i \in 1 .. n
      PROVE  /\ q.proposals[i].approvals = Cardinality(ApproversOf(q, i))
             /\ q.proposals[i].executed => Cardinality(ApproversOf(q, i)) >= RescueThreshold
  <2>1. CASE i = p
    <3>1. ApproversOf(q, p) = ApproversOf(r, p) \cup {a} /\ a \notin ApproversOf(r, p)
      BY <1>2, <1>3 DEF ApproversOf
    <3>2. IsFiniteSet(ApproversOf(r, p))
      BY <1>1, FS_Subset DEF ApproversOf
    <3>3. Cardinality(ApproversOf(q, p)) = Cardinality(ApproversOf(r, p)) + 1
      BY <3>1, <3>2, FS_AddElement
    <3> QED BY <1>3, <1>5, <2>1, <3>3 DEF RescueOK
  <2>2. CASE i # p
    <3>1. ApproversOf(q, i) = ApproversOf(r, i)
      BY <1>2, <1>3, <2>2 DEF ApproversOf
    <3> QED BY <1>5, <2>2, <3>1 DEF RescueOK
  <2> QED BY <2>1, <2>2
<1> QED BY <1>2, <1>5, <1>6, <1>7, <1>8 DEF RescueOK, P, q

\* A rollback has as many approvals as the policy asks for.
LEMMA RollbackCounts ==
  ASSUME NEW r, RescueOK(r), NEW p \in 1 .. Len(r.proposals), may_roll_back(r, p)
  PROVE  RescueOK(rolled_back(r, p))
<1> DEFINE n == Len(r.proposals)
           P == [snapshot : SnapshotIds, approvals : Int, executed : BOOLEAN]
           q == rolled_back(r, p)
<1>1. /\ {"proposals", "approved", "restored"} \subseteq DOMAIN r
      /\ r.proposals \in Seq(P) /\ n \in Nat
  BY DEF RescueOK, NoRescue
<1>2. /\ DOMAIN q = DOMAIN r /\ q.approved = r.approved
      /\ q.proposals = [r.proposals EXCEPT ![p].executed = TRUE]
  BY <1>1 DEF rolled_back
<1>3. r.proposals[p] \in P /\ r.proposals[p].approvals >= RescueThreshold
  <2> HIDE DEF P
  <2> QED BY <1>1 DEF may_roll_back
<1>4. /\ q.proposals \in Seq(P) /\ Len(q.proposals) = n
      /\ \A i \in 1 .. n : i # p => q.proposals[i] = r.proposals[i]
      /\ q.proposals[p].approvals = r.proposals[p].approvals
  <2> PICK e : e = [r.proposals[p] EXCEPT !.executed = TRUE]
    OBVIOUS
  <2>1. e \in P /\ e.approvals = r.proposals[p].approvals
    BY <1>3
  <2>2. q.proposals = [r.proposals EXCEPT ![p] = e]
    BY <1>2
  <2> HIDE DEF P, q
  <2> QED BY <1>1, <2>1, <2>2
<1> HIDE DEF P, q
<1>5. \A i \in 1 .. n : ApproversOf(q, i) = ApproversOf(r, i)
  BY <1>2 DEF ApproversOf
<1>6. \A i \in 1 .. n : /\ r.proposals[i].approvals = Cardinality(ApproversOf(r, i))
                        /\ r.proposals[i].executed => Cardinality(ApproversOf(r, i)) >= RescueThreshold
  BY DEF RescueOK
<1>7. \A i \in 1 .. n : /\ q.proposals[i].approvals = Cardinality(ApproversOf(q, i))
                        /\ q.proposals[i].executed => Cardinality(ApproversOf(q, i)) >= RescueThreshold
  BY <1>3, <1>4, <1>5, <1>6
<1>8. /\ DOMAIN r = DOMAIN NoRescue /\ IsFiniteSet(r.approved)
      /\ \A a \in r.approved : a[1] \in 1 .. n
  BY DEF RescueOK
<1> QED BY <1>2, <1>4, <1>7, <1>8 DEF RescueOK, P, q

\* Snapshots, signers and writes leave the proposals.
LEMMA RescueFrames ==
  ASSUME NEW r, RescueOK(r)
  PROVE  /\ \A id, data : RescueOK(with_snapshot(r, id, data))
         /\ RescueOK(written(r))
         /\ \A signers : RescueOK([r EXCEPT !.signers = signers])
         /\ \A index, pushed : RescueOK([written(r) EXCEPT !.index = index, !.pushed = pushed])
<1>1. DOMAIN r = DOMAIN NoRescue /\ "proposals" \in DOMAIN r /\ "approved" \in DOMAIN r
  BY DEF RescueOK, NoRescue
<1>2. ASSUME NEW id, NEW data PROVE RescueOK(with_snapshot(r, id, data))
  BY <1>1, RescueKept DEF with_snapshot
<1>3. RescueOK(written(r))
  BY <1>1, RescueKept DEF written
<1>4. ASSUME NEW signers PROVE RescueOK([r EXCEPT !.signers = signers])
  BY <1>1, RescueKept
<1>5. ASSUME NEW index, NEW pushed PROVE RescueOK([written(r) EXCEPT !.index = index, !.pushed = pushed])
  BY <1>1, RescueKept DEF written
<1> QED BY <1>2, <1>3, <1>4, <1>5

\* A call on the staking contract's snapshots.
LEMMA StakeRescueStep == ASSUME RescueInv, StakeRecoveryNext PROVE RescueInv'
<1> DEFINE s == stake_recovery
           r == s.rescue
<1>1. /\ "rescue" \in DOMAIN s /\ RescueOK(r) /\ UNCHANGED registry_recovery
  BY DEF RescueInv, StakeRecoveryNext
<1>2. SUFFICES "rescue" \in DOMAIN stake_recovery' /\ RescueOK(stake_recovery'.rescue)
  BY <1>1 DEF RescueInv
<1>3. ASSUME NEW t, DOMAIN t = DOMAIN s, t.rescue = r, stake_recovery' = record_stake_snapshot_index(t)
      PROVE  "rescue" \in DOMAIN stake_recovery' /\ RescueOK(stake_recovery'.rescue)
  <2>1. PICK w : w = written(r)
    OBVIOUS
  <2>2. PICK index : index = push_snapshot_index(w.index, t.next + 1)
    OBVIOUS
  <2>3. PICK pushed : pushed = Append(w.pushed, t.next + 1)
    OBVIOUS
  <2>4. PICK u : u = [w EXCEPT !.index = index, !.pushed = pushed]
    OBVIOUS
  <2>5. stake_recovery' = [t EXCEPT !.next = t.next + 1, !.rescue = u]
    BY <1>3, <2>1, <2>2, <2>3, <2>4 DEF record_stake_snapshot_index
  <2>6. DOMAIN stake_recovery' = DOMAIN s /\ stake_recovery'.rescue = u
    BY <1>1, <1>3, <2>5
  <2>7. RescueOK(u)
    <3>1. \A i, q : RescueOK([written(r) EXCEPT !.index = i, !.pushed = q])
      BY <1>1, RescueFrames
    <3> QED BY <2>1, <2>4, <3>1
  <2> QED BY <1>1, <2>6, <2>7
<1>4. ASSUME NEW m \in Depositors, \/ unstake_again(m) \/ claim_again(m) \/ \E a \in 1 .. 2 : stake_again(m, a)
      PROVE  "rescue" \in DOMAIN stake_recovery' /\ RescueOK(stake_recovery'.rescue)
  <2>1. CASE unstake_again(m)
    BY <1>1, <1>3, <2>1 DEF unstake_again
  <2>2. CASE claim_again(m)
    BY <1>1, <1>3, <2>2 DEF claim_again
  <2>3. CASE \E a \in 1 .. 2 : stake_again(m, a)
    BY <1>1, <1>3, <2>3 DEF stake_again
  <2> QED BY <1>4, <2>1, <2>2, <2>3
<1>5. CASE migrate_stakers
  BY <1>1, <1>5 DEF migrate_stakers
<1>6. ASSUME NEW signers \in SUBSET Rescuers, set_stake_signers(signers)
      PROVE  "rescue" \in DOMAIN stake_recovery' /\ RescueOK(stake_recovery'.rescue)
  BY <1>1, <1>6, RescueFrames DEF set_stake_signers
<1>7. ASSUME NEW id \in SnapshotIds, \/ snapshot_state(id) \/ \E g \in Rescuers : propose_stake_rollback(g, id)
      PROVE  "rescue" \in DOMAIN stake_recovery' /\ RescueOK(stake_recovery'.rescue)
  <2>1. CASE snapshot_state(id)
    BY <1>1, <2>1, RescueFrames DEF snapshot_state
  <2>2. CASE \E g \in Rescuers : propose_stake_rollback(g, id)
    BY <1>1, <2>2, ProposalCounts DEF propose_stake_rollback
  <2> QED BY <1>7, <2>1, <2>2
<1>8. ASSUME NEW p \in 1 .. Len(r.proposals), \/ rollback_stakes(p) \/ \E g \in Rescuers : approve_stake_rollback(g, p)
      PROVE  "rescue" \in DOMAIN stake_recovery' /\ RescueOK(stake_recovery'.rescue)
  <2>1. CASE rollback_stakes(p)
    <3>1. /\ may_roll_back(r, p) /\ DOMAIN stake_recovery' = DOMAIN s
          /\ stake_recovery'.rescue = rolled_back(r, p)
      BY <1>1, <2>1 DEF rollback_stakes
    <3> QED BY <1>1, <3>1, RollbackCounts
  <2>2. CASE \E g \in Rescuers : approve_stake_rollback(g, p)
    BY <1>1, <2>2, ApprovalCounts DEF approve_stake_rollback
  <2> QED BY <1>8, <2>1, <2>2
<1> QED BY <1>4, <1>5, <1>6, <1>7, <1>8 DEF StakeRecoveryNext

\* A call on the registry's snapshots.
LEMMA RegistryRescueStep == ASSUME RescueInv, RegistryRecoveryNext PROVE RescueInv'
<1> DEFINE s == registry_recovery
           r == s.rescue
<1>1. /\ "rescue" \in DOMAIN s /\ RescueOK(r) /\ UNCHANGED stake_recovery
  BY DEF RescueInv, RegistryRecoveryNext
<1>2. SUFFICES "rescue" \in DOMAIN registry_recovery' /\ RescueOK(registry_recovery'.rescue)
  BY <1>1 DEF RescueInv
<1>3. ASSUME NEW c \in Packages, NEW v \in 1 .. 2, publish(c, v)
      PROVE  "rescue" \in DOMAIN registry_recovery' /\ RescueOK(registry_recovery'.rescue)
  <2>1. DOMAIN registry_recovery' = DOMAIN s /\ registry_recovery'.rescue = written(r)
    BY <1>1, <1>3 DEF publish
  <2> QED BY <1>1, <2>1, RescueFrames
<1>4. ASSUME NEW x \in 0 .. 1, reconfigure(x)
      PROVE  "rescue" \in DOMAIN registry_recovery' /\ RescueOK(registry_recovery'.rescue)
  <2>1. DOMAIN registry_recovery' = DOMAIN s /\ registry_recovery'.rescue = written(r)
    BY <1>1, <1>4 DEF reconfigure
  <2> QED BY <1>1, <2>1, RescueFrames
<1>5. ASSUME NEW signers \in SUBSET Rescuers, set_registry_signers(signers)
      PROVE  "rescue" \in DOMAIN registry_recovery' /\ RescueOK(registry_recovery'.rescue)
  BY <1>1, <1>5, RescueFrames DEF set_registry_signers
<1>6. ASSUME NEW id \in SnapshotIds, \/ snapshot_registry(id) \/ \E g \in Rescuers : propose_registry_rollback(g, id)
      PROVE  "rescue" \in DOMAIN registry_recovery' /\ RescueOK(registry_recovery'.rescue)
  <2>1. CASE snapshot_registry(id)
    <3> PICK data : data = [settings |-> s.settings, registered |-> s.registered,
                            latest |-> [c \in s.registered |-> stored(s.latest, c, 0)],
                            history |-> [c \in s.registered |-> stored(s.history, c, <<>>)]]
      OBVIOUS
    <3>1. DOMAIN registry_recovery' = DOMAIN s /\ registry_recovery'.rescue = with_snapshot(r, id, data)
      BY <1>1, <2>1 DEF snapshot_registry
    <3>2. \A i, d : RescueOK(with_snapshot(r, i, d))
      BY <1>1, RescueFrames
    <3> QED BY <1>1, <3>1, <3>2
  <2>2. CASE \E g \in Rescuers : propose_registry_rollback(g, id)
    BY <1>1, <2>2, ProposalCounts DEF propose_registry_rollback
  <2> QED BY <1>6, <2>1, <2>2
<1>7. ASSUME NEW p \in 1 .. Len(r.proposals), \/ rollback_registry(p) \/ \E g \in Rescuers : approve_registry_rollback(g, p)
      PROVE  "rescue" \in DOMAIN registry_recovery' /\ RescueOK(registry_recovery'.rescue)
  <2>1. CASE rollback_registry(p)
    <3>1. /\ may_roll_back(r, p) /\ DOMAIN registry_recovery' = DOMAIN s
          /\ registry_recovery'.rescue = rolled_back(r, p)
      BY <1>1, <2>1 DEF rollback_registry
    <3> QED BY <1>1, <3>1, RollbackCounts
  <2>2. CASE \E g \in Rescuers : approve_registry_rollback(g, p)
    BY <1>1, <2>2, ApprovalCounts DEF approve_registry_rollback
  <2> QED BY <1>7, <2>1, <2>2
<1> QED BY <1>3, <1>4, <1>5, <1>6, <1>7 DEF RegistryRecoveryNext

LEMMA RollbacksHaveApprovals == RescueInv => RollbacksAreApproved
<1>1. ASSUME NEW r, RescueOK(r), NEW p \in 1 .. Len(r.proposals)
      PROVE  LET approvers == {a \in r.approved : a[1] = p} IN
             /\ r.proposals[p].approvals = Cardinality(approvers)
             /\ r.proposals[p].executed => Cardinality(approvers) >= RescueThreshold
  BY <1>1 DEF RescueOK, ApproversOf
<1> QED BY <1>1 DEF RescueInv, RollbacksAreApproved, Rescues

-----------------------------------------------------------------------------
(* The evidence and the rulings of a dispute. *)

EvidenceRecord == [by : DisputeParties, hash : ContentHashes, at : Nat, paced : BOOLEAN]
Ruling == [judge : Judges, to_mentor : BOOLEAN, root : Nat, on_appeal : BOOLEAN]

DisputeTypes ==
    /\ now \in Nat /\ appeal_ends \in Nat
    /\ evidence \in Seq(EvidenceRecord) /\ last_submission \in [DisputeParties -> Nat]
    /\ cooldown_enabled \in BOOLEAN
    /\ ruling = Unruled \/ ruling \in Ruling

\* The stored time of a party is that of its latest submission under the cooldown.
LastIsLatest ==
    \A i \in DOMAIN evidence : evidence[i].paced => evidence[i].at <= last_submission[evidence[i].by]

\* A judge of the appeal is named after the first ruling, and is somebody else.
AppealFollows ==
    /\ appeal_judge # {} => ruling # Unruled /\ appeal_judge \cap first_judge = {}
    /\ ruling # Unruled /\ ruling.on_appeal => appeal_judge # {}

DisputeInv ==
    DisputeTypes /\ LastIsLatest /\ AppealFollows /\ AppealHasAnotherJudge /\ SubmissionsAreSpaced

\* A ruling is not the mark of its absence.
LEMMA RuledIsRuled == \A r \in Ruling : r # Unruled
<1> SUFFICES ASSUME NEW r \in Ruling, r = Unruled PROVE FALSE
  OBVIOUS
<1>1. "root" \in DOMAIN r
  BY DEF Ruling
<1>2. "root" \notin DOMAIN Unruled
  BY DEF Unruled
<1> QED BY <1>1, <1>2

LEMMA DisputeStarts == DisputeInit => DisputeInv
BY DEF DisputeInit, DisputeInv, DisputeTypes, LastIsLatest, AppealFollows, AppealHasAnotherJudge,
       SubmissionsAreSpaced

\* Evidence is added at the end, after the cooldown since the latest that was added under it.
LEMMA EvidenceStep ==
  ASSUME DisputeInv, NEW p \in DisputeParties, NEW hash \in ContentHashes, submit_evidence(p, hash)
  PROVE  DisputeInv'
<1> DEFINE n == Len(evidence)
           e == [by |-> p, hash |-> hash, at |-> now, paced |-> cooldown_enabled]
<1>1. /\ evidence \in Seq(EvidenceRecord) /\ now \in Nat /\ cooldown_enabled \in BOOLEAN
      /\ last_submission \in [DisputeParties -> Nat]
  BY DEF DisputeInv, DisputeTypes
<1>2. /\ e \in EvidenceRecord /\ evidence' = Append(evidence, e)
      /\ e.by = p /\ e.at = now /\ e.paced = cooldown_enabled
  BY <1>1 DEF submit_evidence, EvidenceRecord
<1> HIDE DEF e
<1>3. /\ evidence' \in Seq(EvidenceRecord) /\ n \in Nat
      /\ DOMAIN evidence = 1 .. n /\ DOMAIN evidence' = 1 .. n + 1
      /\ \A i \in 1 .. n : evidence'[i] = evidence[i] /\ evidence[i] \in EvidenceRecord
      /\ evidence'[n + 1] = e
  BY <1>1, <1>2, Appended
<1>4. /\ cooldown_enabled => now >= last_submission[p] + SubmissionCooldown
      /\ last_submission' = IF cooldown_enabled THEN [last_submission EXCEPT ![p] = now] ELSE last_submission
      /\ UNCHANGED <<now, cooldown_enabled, ruling, appeal_ends, appeal_judge, first_judge>>
  BY DEF submit_evidence, submitted_now
<1>5. /\ last_submission' \in [DisputeParties -> Nat]
      /\ \A q \in DisputeParties : last_submission'[q] = IF cooldown_enabled /\ q = p THEN now ELSE last_submission[q]
  BY <1>1, <1>4
<1>6. \A i \in 1 .. n : evidence[i].by \in DisputeParties /\ evidence[i].at \in Nat
  BY <1>3 DEF EvidenceRecord
<1>7. \A i \in 1 .. n : evidence[i].paced => evidence[i].at <= last_submission[evidence[i].by]
  BY <1>3 DEF DisputeInv, LastIsLatest
<1>8. last_submission[p] \in Nat /\ SubmissionCooldown \in Nat
  BY <1>1, DisputeAssumption
<1>9. LastIsLatest'
  <2> SUFFICES ASSUME NEW i \in 1 .. n + 1, evidence'[i].paced
               PROVE  evidence'[i].at <= last_submission'[evidence'[i].by]
    BY <1>3 DEF LastIsLatest
  <2>1. CASE i = n + 1
    BY <1>1, <1>2, <1>3, <1>5, <2>1
  <2>2. CASE i \in 1 .. n
    <3>1. evidence'[i] = evidence[i] /\ evidence[i].at <= last_submission[evidence[i].by]
      BY <1>3, <1>7, <2>2
    <3>2. CASE cooldown_enabled /\ evidence[i].by = p
      BY <1>1, <1>4, <1>5, <1>6, <1>8, <2>2, <3>1, <3>2
    <3>3. CASE ~(cooldown_enabled /\ evidence[i].by = p)
      BY <1>5, <1>6, <2>2, <3>1, <3>3
    <3> QED BY <3>2, <3>3
  <2> QED BY <1>3, <2>1, <2>2
<1>10. SubmissionsAreSpaced'
  <2> SUFFICES ASSUME NEW i \in 1 .. n + 1, NEW j \in 1 .. n + 1, i < j, evidence'[i].by = evidence'[j].by,
                      evidence'[i].paced, evidence'[j].paced
               PROVE  evidence'[j].at >= evidence'[i].at + SubmissionCooldown
    BY <1>3 DEF SubmissionsAreSpaced
  <2>0. i \in 1 .. n
    BY <1>3
  <2>1. CASE j = n + 1
    <3>1. /\ evidence'[j].at = now /\ cooldown_enabled /\ evidence[i].by = p /\ evidence'[i] = evidence[i]
          /\ evidence[i].paced
      BY <1>2, <1>3, <2>0, <2>1
    <3>2. evidence[i].at <= last_submission[p] /\ now >= last_submission[p] + SubmissionCooldown
      BY <1>4, <1>7, <2>0, <3>1
    <3> QED BY <1>1, <1>6, <1>8, <2>0, <3>1, <3>2
  <2>2. CASE j \in 1 .. n
    BY <1>3, <2>0, <2>2 DEF DisputeInv, SubmissionsAreSpaced
  <2> QED BY <1>3, <2>1, <2>2
<1> QED BY <1>1, <1>3, <1>4, <1>5, <1>9, <1>10 DEF DisputeInv, DisputeTypes, AppealFollows, AppealHasAnotherJudge

\* A first ruling opens the period of the appeal, one on appeal leaves it and is by the named judge.
LEMMA RulingStep ==
  ASSUME DisputeInv, NEW judge \in Judges, NEW is_appeal \in BOOLEAN, NEW to_mentor \in BOOLEAN,
         submit_resolution(judge, is_appeal, to_mentor)
  PROVE  /\ DisputeInv'
         /\ ruling # Unruled => appeal_ends' = appeal_ends /\ (now > appeal_ends => ruling' = ruling)
<1> DEFINE r == [judge |-> judge, to_mentor |-> to_mentor, root |-> Len(evidence), on_appeal |-> is_appeal]
<1>1. /\ IF is_appeal THEN appeal_resolution(judge) ELSE first_resolution
      /\ ruling' = r /\ appeal_ends' = appeal_period(is_appeal)
      /\ first_judge' = IF is_appeal THEN first_judge ELSE {judge}
      /\ UNCHANGED <<now, evidence, last_submission, cooldown_enabled, appeal_judge>>
  BY DEF submit_resolution
<1>2. now \in Nat /\ appeal_ends \in Nat /\ evidence \in Seq(EvidenceRecord)
  BY DEF DisputeInv, DisputeTypes
<1>3. /\ r \in Ruling /\ r.judge = judge /\ r.on_appeal = is_appeal
      /\ r # Unruled
  <2>1. Len(evidence) \in Nat
    BY <1>2
  <2>2. r \in Ruling
    BY <2>1 DEF Ruling
  <2> QED BY <2>2, RuledIsRuled
<1> HIDE DEF r
<1>4. appeal_ends' \in Nat
  BY <1>1, <1>2, DisputeAssumption DEF appeal_period
<1>5. DisputeTypes' /\ LastIsLatest' /\ SubmissionsAreSpaced'
  BY <1>1, <1>2, <1>3, <1>4 DEF DisputeInv, DisputeTypes, LastIsLatest, SubmissionsAreSpaced
<1>6. CASE is_appeal
  <2>1. ruling # Unruled /\ judge \in appeal_judge /\ now <= appeal_ends /\ appeal_ends' = appeal_ends
    BY <1>1, <1>6 DEF appeal_resolution, appeal_period
  <2>2. AppealFollows' /\ AppealHasAnotherJudge'
    BY <1>1, <1>3, <1>6, <2>1 DEF DisputeInv, AppealFollows, AppealHasAnotherJudge
  <2> QED BY <1>2, <1>5, <2>1, <2>2 DEF DisputeInv
<1>7. CASE ~is_appeal
  <2>1. ruling = Unruled /\ appeal_judge = {}
    BY <1>1, <1>7 DEF first_resolution, DisputeInv, AppealFollows
  <2>2. AppealFollows' /\ AppealHasAnotherJudge'
    BY <1>1, <1>3, <1>7, <2>1 DEF AppealFollows, AppealHasAnotherJudge
  <2> QED BY <1>5, <2>1, <2>2 DEF DisputeInv
<1> QED BY <1>6, <1>7

\* A call on the dispute keeps the invariant, and a ruling after its time.
LEMMA DisputeStep ==
  ASSUME DisputeInv, DisputeNext
  PROVE  /\ DisputeInv'
         /\ ruling # Unruled => appeal_ends' = appeal_ends /\ (now > appeal_ends => ruling' = ruling)
<1> USE DEF DisputeInv, DisputeTypes, LastIsLatest, AppealFollows, AppealHasAnotherJudge, SubmissionsAreSpaced
<1>1. CASE record_dispute_opened
  BY <1>1 DEF record_dispute_opened
<1>2. CASE \E enabled \in BOOLEAN : set_cooldown_enabled(enabled)
  BY <1>2 DEF set_cooldown_enabled
<1>3. CASE \E p \in DisputeParties, hash \in ContentHashes : submit_evidence(p, hash)
  <2> PICK p \in DisputeParties, hash \in ContentHashes : submit_evidence(p, hash)
    BY <1>3
  <2>1. DisputeInv'
    BY EvidenceStep
  <2>2. UNCHANGED <<ruling, appeal_ends>>
    BY DEF submit_evidence
  <2> QED BY <2>1, <2>2
<1>4. CASE \E judge \in Judges, is_appeal, to_mentor \in BOOLEAN : submit_resolution(judge, is_appeal, to_mentor)
  BY <1>4, RulingStep
<1>5. CASE \E candidate \in registered : submit_appeal_for_dispute(candidate)
  <2> PICK candidate \in registered : submit_appeal_for_dispute(candidate)
    BY <1>5
  <2>1. /\ ruling # Unruled /\ appeal_judge = {}
        /\ UNCHANGED <<now, evidence, last_submission, cooldown_enabled, ruling, appeal_ends, first_judge>>
    BY DEF submit_appeal_for_dispute
  <2>2. PICK judge \in select_appeal_arbitrator(candidate, ruling.judge) : appeal_judge' = {judge}
    BY DEF submit_appeal_for_dispute
  <2>3. judge # ruling.judge /\ ~ruling.on_appeal /\ first_judge = {ruling.judge}
    BY <2>1, <2>2 DEF select_appeal_arbitrator
  <2> QED BY <2>1, <2>2, <2>3
<1>6. CASE \E judges \in SUBSET Judges : governance_changes(judges)
  BY <1>6 DEF governance_changes
<1>7. CASE escrow_resolved
  BY <1>7 DEF escrow_resolved
<1>8. CASE DisputeTick
  BY <1>8 DEF DisputeTick, CloseLedger, dispute_vars
<1> QED BY <1>1, <1>2, <1>3, <1>4, <1>5, <1>6, <1>7, <1>8 DEF DisputeNext

LEMMA DisputeRests == ASSUME DisputeInv, ClockMoves, UNCHANGED dispute_vars PROVE DisputeInv'
BY DEF ClockMoves, dispute_vars, DisputeInv, DisputeTypes, LastIsLatest, AppealFollows,
       AppealHasAnotherJudge, SubmissionsAreSpaced

-----------------------------------------------------------------------------
(* The factory of escrows. *)

Address == [session : FactorySessions, learner : FactoryLearners, nonce : Nat]
Deployment == [address : Address, session : FactorySessions, amount : Nat]
Request == [learner : FactoryLearners, amount : Nat, requested_at : Nat, promised : Address]
Relay == [signer : FactoryLearners, payload : [nonce : Nat, deadline : Nat]]

FactoryTypes ==
    /\ now \in Nat
    /\ esc_list \in Seq(Deployment) /\ session_nonce \in [FactorySessions -> Nat]
    /\ relay_nonce \in [FactoryLearners -> Nat] /\ relayed \in Seq(Relay)
    /\ approved_after \in Seq(Int)

\* What waits for an approval is of high value.
RequestsAreHigh ==
    \A s \in DOMAIN pending_high : /\ s \in FactorySessions /\ pending_high[s] \in Request
                                   /\ pending_high[s].amount > HighValue

\* The nonce of a payload is used up.
NoncesAreSpent == \A i \in DOMAIN relayed : relayed[i].payload.nonce < relay_nonce[relayed[i].signer]

FactoryInv ==
    FactoryTypes /\ RequestsAreHigh /\ NoncesAreSpent /\ PayloadsAreUsedOnce /\ ApprovedInTime

LEMMA FactoryStarts == FactoryInit => FactoryInv
<1> SUFFICES ASSUME FactoryInit PROVE FactoryInv
  OBVIOUS
<1>1. FactoryTypes
  BY DEF FactoryInit, FactoryTypes
<1>2. RequestsAreHigh /\ NoncesAreSpent /\ PayloadsAreUsedOnce
  BY DEF FactoryInit, RequestsAreHigh, NoncesAreSpent, PayloadsAreUsedOnce, NothingStored
<1>3. ApprovedInTime
  <2>1. {i \in DOMAIN esc_list : esc_list[i].amount > HighValue} = {}
    BY DEF FactoryInit
  <2>2. Cardinality({}) = 0 /\ Len(approved_after) = 0 /\ DOMAIN approved_after = {}
    BY FS_EmptySet DEF FactoryInit
  <2> QED BY <2>1, <2>2 DEF ApprovedInTime
<1> QED BY <1>1, <1>2, <1>3 DEF FactoryInv

\* The deployments of high value among the first n.
HighAmong(list, n) == {i \in 1 .. n : list[i].amount > HighValue}

\* One more deployment.
LEMMA HighAppended ==
  ASSUME NEW n \in Nat, NEW s, NEW t, \A i \in 1 .. n : t[i] = s[i]
  PROVE  /\ Cardinality(HighAmong(s, n)) \in Nat
         /\ t[n + 1].amount > HighValue =>
              Cardinality(HighAmong(t, n + 1)) = Cardinality(HighAmong(s, n)) + 1
         /\ ~(t[n + 1].amount > HighValue) => HighAmong(t, n + 1) = HighAmong(s, n)
<1>1. IsFiniteSet(1 .. n) /\ HighAmong(s, n) \subseteq 1 .. n
  BY FS_Interval DEF HighAmong
<1>2. IsFiniteSet(HighAmong(s, n)) /\ Cardinality(HighAmong(s, n)) \in Nat
  BY <1>1, FS_Subset, FS_CardinalityType
<1>3. n + 1 \notin HighAmong(s, n) /\ \A i \in 1 .. n + 1 : i # n + 1 => i \in 1 .. n
  BY <1>1
<1>4. ASSUME t[n + 1].amount > HighValue
      PROVE  Cardinality(HighAmong(t, n + 1)) = Cardinality(HighAmong(s, n)) + 1
  <2>1. HighAmong(t, n + 1) = HighAmong(s, n) \cup {n + 1}
    BY <1>3, <1>4 DEF HighAmong
  <2> QED BY <1>2, <1>3, <2>1, FS_AddElement
<1>5. ASSUME ~(t[n + 1].amount > HighValue)
      PROVE  HighAmong(t, n + 1) = HighAmong(s, n)
  BY <1>3, <1>5 DEF HighAmong
<1> QED BY <1>2, <1>4, <1>5

\* A deployment appends one record; the rest of what the invariant is about is the caller's.
LEMMA DeploymentStep ==
  ASSUME FactoryInv, NEW s \in FactorySessions, NEW l \in FactoryLearners, NEW amount \in Nat,
         deploy_escrow_internal(s, l, amount)
  PROVE  /\ esc_list' \in Seq(Deployment) /\ session_nonce' \in [FactorySessions -> Nat]
         /\ amount > HighValue =>
              Cardinality(HighAmong(esc_list', Len(esc_list'))) = Cardinality(HighAmong(esc_list, Len(esc_list))) + 1
         /\ ~(amount > HighValue) =>
              Cardinality(HighAmong(esc_list', Len(esc_list'))) = Cardinality(HighAmong(esc_list, Len(esc_list)))
<1> DEFINE e == [address |-> predicted(s, l), session |-> s, amount |-> amount]
<1>1. session_nonce \in [FactorySessions -> Nat] /\ esc_list \in Seq(Deployment)
  BY DEF FactoryInv, FactoryTypes
<1>2. predicted(s, l) \in Address /\ next_nonce(s) \in Nat
  BY <1>1 DEF predicted, address_of, next_nonce, Address
<1>3. e \in Deployment /\ e.amount = amount /\ esc_list' = Append(esc_list, e)
  BY <1>2 DEF deploy_escrow_internal, Deployment
<1> HIDE DEF e
<1>4. /\ esc_list' \in Seq(Deployment) /\ Len(esc_list) \in Nat /\ Len(esc_list') = Len(esc_list) + 1
      /\ \A i \in 1 .. Len(esc_list) : esc_list'[i] = esc_list[i]
      /\ esc_list'[Len(esc_list) + 1].amount = amount
  BY <1>1, <1>3, Appended
<1>5. session_nonce' \in [FactorySessions -> Nat]
  BY <1>1, <1>2 DEF deploy_escrow_internal
<1> DEFINE n == Len(esc_list)
           t == esc_list'
<1>6. /\ Cardinality(HighAmong(esc_list, n)) \in Nat
      /\ t[n + 1].amount > HighValue =>
           Cardinality(HighAmong(t, n + 1)) = Cardinality(HighAmong(esc_list, n)) + 1
      /\ ~(t[n + 1].amount > HighValue) => HighAmong(t, n + 1) = HighAmong(esc_list, n)
  BY ONLY <1>4, HighAppended
<1> QED BY <1>4, <1>5, <1>6

\* All deployments of high value.
LEMMA HighSet ==
  ASSUME NEW S, NEW list \in Seq(S)
  PROVE  {i \in DOMAIN list : list[i].amount > HighValue} = HighAmong(list, Len(list))
BY DEF HighAmong

\* What deploy leaves of the invariant, whoever calls it.
LEMMA DeployStep ==
  ASSUME FactoryInv, NEW l \in FactoryLearners, NEW amount \in FactoryAmounts, NEW s \in FactorySessions,
         deploy(l, amount, s), UNCHANGED <<now, approved_after>>
  PROVE  /\ esc_list' \in Seq(Deployment) /\ session_nonce' \in [FactorySessions -> Nat]
         /\ RequestsAreHigh' /\ ApprovedInTime'
<1>1. amount \in Nat /\ HighValue \in Nat
  BY FactoryAssumption
<1>2. esc_list \in Seq(Deployment) /\ approved_after \in Seq(Int) /\ now \in Nat
      /\ session_nonce \in [FactorySessions -> Nat]
  BY DEF FactoryInv, FactoryTypes
<1>3. CASE amount > HighValue
  <2>1. /\ pending_high' = put(pending_high, s, [learner |-> l, amount |-> amount,
                   requested_at |-> now, promised |-> predicted(s, l)])
        /\ UNCHANGED <<session_nonce, esc_map, esc_list>>
    BY <1>3 DEF deploy
  <2>2. predicted(s, l) \in Address
    BY <1>2 DEF predicted, address_of, next_nonce, Address
  <2>3. [learner |-> l, amount |-> amount, requested_at |-> now, promised |-> predicted(s, l)] \in Request
    BY <1>1, <1>2, <2>2 DEF Request
  <2>4. RequestsAreHigh'
    BY <1>3, <2>1, <2>3 DEF FactoryInv, RequestsAreHigh, put
  <2>5. ApprovedInTime'
    BY <2>1 DEF FactoryInv, ApprovedInTime
  <2> QED BY <1>2, <2>1, <2>4, <2>5
<1>4. CASE ~(amount > HighValue)
  <2>1. deploy_escrow_internal(s, l, amount) /\ UNCHANGED pending_high
    BY <1>4 DEF deploy
  <2>2. /\ esc_list' \in Seq(Deployment) /\ session_nonce' \in [FactorySessions -> Nat]
        /\ Cardinality(HighAmong(esc_list', Len(esc_list'))) = Cardinality(HighAmong(esc_list, Len(esc_list)))
    BY <1>1, <1>4, <2>1, DeploymentStep
  <2>3. RequestsAreHigh'
    BY <2>1 DEF FactoryInv, RequestsAreHigh
  <2>4. ApprovedInTime'
    <3>1. /\ {i \in DOMAIN esc_list : esc_list[i].amount > HighValue} = HighAmong(esc_list, Len(esc_list))
          /\ {i \in DOMAIN esc_list' : esc_list'[i].amount > HighValue} = HighAmong(esc_list', Len(esc_list'))
      BY <1>2, <2>2, HighSet
    <3> QED BY <2>2, <3>1 DEF FactoryInv, ApprovedInTime
  <2> QED BY <2>2, <2>3, <2>4
<1> QED BY <1>3, <1>4

LEMMA RelayStep ==
  ASSUME FactoryInv, NEW l \in FactoryLearners, NEW amount \in FactoryAmounts, NEW s \in FactorySessions,
         NEW payload \in Payloads, execute_meta_tx(l, payload, amount, s)
  PROVE  FactoryInv'
<1> DEFINE n == Len(relayed)
           r == [signer |-> l, payload |-> payload]
<1>1. /\ payload.nonce = relay_nonce[l] /\ relay_nonce' = [relay_nonce EXCEPT ![l] = @ + 1]
      /\ relayed' = Append(relayed, r) /\ deploy(l, amount, s)
      /\ UNCHANGED <<now, factory_paused, approved_after>>
  BY DEF execute_meta_tx, relay_nonce_after
<1>2. relayed \in Seq(Relay) /\ relay_nonce \in [FactoryLearners -> Nat] /\ now \in Nat
      /\ approved_after \in Seq(Int)
  BY DEF FactoryInv, FactoryTypes
<1>3. r \in Relay /\ r.signer = l /\ r.payload = payload
  BY DEF Relay, Payloads
<1> HIDE DEF r
<1>4. /\ relayed' \in Seq(Relay) /\ n \in Nat
      /\ DOMAIN relayed = 1 .. n /\ DOMAIN relayed' = 1 .. n + 1
      /\ \A i \in 1 .. n : relayed'[i] = relayed[i] /\ relayed[i] \in Relay
      /\ relayed'[n + 1] = r
  BY <1>1, <1>2, <1>3, Appended
<1>5. /\ relay_nonce' \in [FactoryLearners -> Nat]
      /\ \A k \in FactoryLearners : relay_nonce'[k] = IF k = l THEN relay_nonce[l] + 1 ELSE relay_nonce[k]
  BY <1>1, <1>2
<1>6. \A i \in 1 .. n : /\ relayed[i].signer \in FactoryLearners /\ relayed[i].payload.nonce \in Nat
                        /\ relayed[i].payload.nonce < relay_nonce[relayed[i].signer]
  <2>1. \A x \in Relay : x.signer \in FactoryLearners /\ x.payload.nonce \in Nat
    BY DEF Relay
  <2> QED BY <1>4, <2>1 DEF FactoryInv, NoncesAreSpent
<1>7. NoncesAreSpent'
  <2> SUFFICES ASSUME NEW i \in 1 .. n + 1
               PROVE  relayed'[i].payload.nonce < relay_nonce'[relayed'[i].signer]
    BY <1>4 DEF NoncesAreSpent
  <2>1. CASE i = n + 1
    BY <1>1, <1>2, <1>3, <1>4, <1>5, <2>1
  <2>2. CASE i \in 1 .. n
    <3>1. relayed'[i] = relayed[i] /\ relay_nonce[relayed[i].signer] \in Nat
      BY <1>2, <1>4, <1>6, <2>2
    <3> QED BY <1>5, <1>6, <2>2, <3>1
  <2> QED BY <1>4, <2>1, <2>2
<1>8. PayloadsAreUsedOnce'
  <2> SUFFICES ASSUME NEW i \in 1 .. n + 1, NEW j \in 1 .. n + 1, relayed'[i] = relayed'[j], i # j
               PROVE  FALSE
    BY <1>4 DEF PayloadsAreUsedOnce
  <2>1. \A k \in 1 .. n : relayed[k] # r
    <3> SUFFICES ASSUME NEW k \in 1 .. n, relayed[k] = r PROVE FALSE
      OBVIOUS
    <3>1. relay_nonce[l] < relay_nonce[l]
      BY <1>1, <1>3, <1>6
    <3> QED BY <1>2, <3>1
  <2>2. CASE i = n + 1
    BY <1>4, <2>1, <2>2
  <2>3. CASE j = n + 1
    BY <1>4, <2>1, <2>3
  <2>4. CASE i \in 1 .. n /\ j \in 1 .. n
    BY <1>4, <2>4 DEF FactoryInv, PayloadsAreUsedOnce
  <2> QED BY <1>4, <2>2, <2>3, <2>4
<1> QED BY <1>1, <1>2, <1>4, <1>5, <1>7, <1>8, DeployStep DEF FactoryInv, FactoryTypes

LEMMA ApprovalStep ==
  ASSUME FactoryInv, NEW s \in FactorySessions, approve_high_value_session(s)
  PROVE  FactoryInv'
<1> DEFINE p == pending_high[s]
           n == Len(approved_after)
           d == now - p.requested_at
<1>1. /\ s \in DOMAIN pending_high /\ now <= p.requested_at + ApprovalWindow
      /\ pending_high' = del(pending_high, s)
      /\ deploy_escrow_internal(s, p.learner, p.amount)
      /\ approved_after' = Append(approved_after, d)
      /\ UNCHANGED <<now, fee_history, factory_paused, relay_nonce, relayed>>
  BY DEF approve_high_value_session, in_time
<1>2. /\ p.learner \in FactoryLearners /\ p.amount \in Nat /\ p.requested_at \in Nat
      /\ p.amount > HighValue
  <2>1. p \in Request /\ p.amount > HighValue
    BY <1>1 DEF FactoryInv, RequestsAreHigh
  <2> QED BY <2>1 DEF Request
<1>3. approved_after \in Seq(Int) /\ esc_list \in Seq(Deployment) /\ now \in Nat
  BY DEF FactoryInv, FactoryTypes
<1>4. /\ esc_list' \in Seq(Deployment) /\ session_nonce' \in [FactorySessions -> Nat]
      /\ Cardinality(HighAmong(esc_list', Len(esc_list'))) = Cardinality(HighAmong(esc_list, Len(esc_list))) + 1
  BY <1>1, <1>2, DeploymentStep
<1>5. d \in Int /\ d <= ApprovalWindow
  BY <1>1, <1>2, <1>3, FactoryAssumption
<1> HIDE DEF d
<1>6. /\ approved_after' \in Seq(Int) /\ n \in Nat /\ Len(approved_after') = n + 1
      /\ \A i \in 1 .. n : approved_after'[i] = approved_after[i]
      /\ approved_after'[n + 1] = d
      /\ DOMAIN approved_after' = 1 .. n + 1
  BY <1>1, <1>3, <1>5, Appended
<1>7. /\ \A i \in 1 .. n : approved_after[i] <= ApprovalWindow
      /\ Cardinality(HighAmong(esc_list, Len(esc_list))) = n
      /\ {i \in DOMAIN esc_list' : esc_list'[i].amount > HighValue} = HighAmong(esc_list', Len(esc_list'))
  <2>1. /\ {i \in DOMAIN esc_list : esc_list[i].amount > HighValue} = HighAmong(esc_list, Len(esc_list))
        /\ {i \in DOMAIN esc_list' : esc_list'[i].amount > HighValue} = HighAmong(esc_list', Len(esc_list'))
    BY <1>3, <1>4, HighSet
  <2>2. DOMAIN approved_after = 1 .. n
    BY <1>3
  <2> QED BY <2>1, <2>2 DEF FactoryInv, ApprovedInTime
<1>8. ApprovedInTime'
  <2>1. \A i \in 1 .. n + 1 : approved_after'[i] <= ApprovalWindow
    <3> SUFFICES ASSUME NEW i \in 1 .. n + 1 PROVE approved_after'[i] <= ApprovalWindow
      OBVIOUS
    <3>1. CASE i = n + 1
      BY <1>5, <1>6, <3>1
    <3>2. CASE i \in 1 .. n
      BY <1>6, <1>7, <3>2
    <3> QED BY <1>6, <3>1, <3>2
  <2>2. Cardinality(HighAmong(esc_list', Len(esc_list'))) = Len(approved_after')
    BY <1>4, <1>6, <1>7
  <2> QED BY <1>6, <1>7, <2>1, <2>2 DEF ApprovedInTime
<1>9. RequestsAreHigh'
  BY <1>1 DEF FactoryInv, RequestsAreHigh, del
<1> QED BY <1>1, <1>3, <1>4, <1>6, <1>8, <1>9 DEF FactoryInv, FactoryTypes, NoncesAreSpent, PayloadsAreUsedOnce

LEMMA FactoryStep == ASSUME FactoryInv, FactoryNext PROVE FactoryInv'
<1>1. ASSUME NEW l \in FactoryLearners, NEW a \in FactoryAmounts, NEW s \in FactorySessions,
             deploy_escrow(l, a, s)
      PROVE  FactoryInv'
  <2>1. deploy(l, a, s) /\ UNCHANGED <<now, factory_paused, relay_nonce, relayed, approved_after>>
    BY <1>1 DEF deploy_escrow
  <2> QED BY <2>1, DeployStep DEF FactoryInv, FactoryTypes, NoncesAreSpent, PayloadsAreUsedOnce
<1>2. ASSUME NEW l \in FactoryLearners, NEW a \in FactoryAmounts, NEW s \in FactorySessions,
             NEW p \in Payloads, execute_meta_tx(l, p, a, s)
      PROVE  FactoryInv'
  BY <1>2, RelayStep
<1>3. ASSUME NEW s \in FactorySessions, approve_high_value_session(s) PROVE FactoryInv'
  BY <1>3, ApprovalStep
<1>4. CASE \/ \E l \in FactoryLearners : fee_history_expires(l)
           \/ guardian_changes \/ FactoryTick
  <2>1. /\ UNCHANGED <<esc_list, session_nonce, pending_high, relay_nonce, relayed, approved_after>>
        /\ now' \in {now, now + 1}
    BY <1>4 DEF fee_history_expires, guardian_changes, FactoryTick, CloseLedger, factory_vars
  <2> QED BY <2>1 DEF FactoryInv, FactoryTypes, RequestsAreHigh, NoncesAreSpent, PayloadsAreUsedOnce,
                      ApprovedInTime
<1> QED BY <1>1, <1>2, <1>3, <1>4 DEF FactoryNext

LEMMA FactoryRests == ASSUME FactoryInv, ClockMoves, UNCHANGED factory_vars PROVE FactoryInv'
BY DEF ClockMoves, factory_vars, FactoryInv, FactoryTypes, RequestsAreHigh, NoncesAreSpent,
       PayloadsAreUsedOnce, ApprovedInTime

-----------------------------------------------------------------------------
(* Staking for others. The debt of an owner is never more than what its    *)
(* deposit accumulated, so that settling takes nothing away.               *)

ProxyFields ==
    {"owner", "owners", "total", "stake", "per_share", "debt", "pending", "request", "held", "put_in",
     "paid", "resized", "calls"}

\* The fields that say what the owners earned.
ProxyOK(s) ==
    /\ DOMAIN s = ProxyFields
    /\ s.owner \in [DOMAIN s.owner -> Nat] /\ s.per_share \in Nat
    /\ s.request \in [DOMAIN s.request -> Nat \ {0}] /\ DOMAIN s.request \subseteq ProxyOwners
    /\ s.debt \in [ProxyOwners -> Nat] /\ s.pending \in [ProxyOwners -> Nat]
    /\ s.total \in Int /\ s.paid \in Int
    /\ \A o \in ProxyOwners : s.debt[o] <= accumulated(s, o)

Earned(s, o) == s.pending[o] + accumulated(s, o) - s.debt[o]

LEMMA AccumulatedType ==
  ASSUME NEW s, s.owner \in [DOMAIN s.owner -> Nat], s.per_share \in Nat, NEW o
  PROVE  accumulated(s, o) \in Nat
<1> PICK d \in Nat : d = stored(s.owner, o, 0)
  BY DEF stored
<1> PICK a \in Nat : a = d * s.per_share
  OBVIOUS
<1> QED BY ProxyAssumption, DivBounds DEF accumulated

LEMMA MaxOfTwo == \A x \in Int : Max({x, 0}) = IF x >= 0 THEN x ELSE 0
<1> TAKE x \in Int
<1> PICK m : m = IF x >= 0 THEN x ELSE 0
  OBVIOUS
<1>1. m \in {x, 0} /\ \A y \in {x, 0} : m >= y
  OBVIOUS
<1>2. \A n \in {x, 0} : (\A y \in {x, 0} : n >= y) => n = m
  OBVIOUS
<1> QED BY <1>1, <1>2 DEF Max

\* What an owner earned is settled in full.
LEMMA Settles ==
  ASSUME NEW s, ProxyOK(s), NEW o \in ProxyOwners
  PROVE  /\ accrue_pending(s, o) = [s EXCEPT !.pending = [@ EXCEPT ![o] = Earned(s, o)]]
         /\ Earned(s, o) \in Nat
<1>1. /\ accumulated(s, o) \in Nat /\ s.debt[o] \in Nat /\ s.pending[o] \in Nat
      /\ s.debt[o] <= accumulated(s, o)
  BY AccumulatedType DEF ProxyOK
<1> PICK x \in Nat : x = accumulated(s, o) - s.debt[o]
  BY <1>1
<1>2. Max({x, 0}) = x
  BY MaxOfTwo
<1>3. Earned(s, o) = s.pending[o] + x /\ Earned(s, o) \in Nat
  BY <1>1 DEF Earned
<1>4. accrue_pending(s, o) = [s EXCEPT !.pending[o] = s.pending[o] + x]
  BY <1>2 DEF accrue_pending
<1> QED BY <1>3, <1>4

LEMMA ProxyStarts == ProxyInit => ProxyOK(proxy)
<1> SUFFICES ASSUME ProxyInit PROVE ProxyOK(proxy)
  OBVIOUS
<1>1. /\ DOMAIN proxy = ProxyFields /\ proxy.owner = NothingStored /\ proxy.per_share = 0
      /\ proxy.request = NothingStored
      /\ proxy.debt = [o \in ProxyOwners |-> 0] /\ proxy.pending = [o \in ProxyOwners |-> 0]
      /\ proxy.total = 0 /\ proxy.paid = 0
  BY DEF ProxyInit, ProxyFields
<1>2. proxy.owner \in [DOMAIN proxy.owner -> Nat] /\ proxy.request \in [DOMAIN proxy.request -> Nat \ {0}]
      /\ DOMAIN proxy.request = {}
  BY <1>1 DEF NothingStored
<1>3. \A o \in ProxyOwners : proxy.debt[o] <= accumulated(proxy, o)
  <2> TAKE o \in ProxyOwners
  <2>1. accumulated(proxy, o) \in Nat /\ proxy.debt[o] = 0
    <3>1. proxy.owner \in [DOMAIN proxy.owner -> Nat] /\ proxy.per_share \in Nat
      BY <1>1, <1>2
    <3>2. accumulated(proxy, o) \in Nat
      BY ONLY <3>1, AccumulatedType
    <3> QED BY <1>1, <3>2
  <2> QED BY <2>1
<1> QED BY <1>1, <1>2, <1>3 DEF ProxyOK

\* From s to t the owner o is settled: its deposit becomes a, and what it earned is kept as e.
Resettled(s, t, o, e) ==
    /\ DOMAIN t = ProxyFields /\ e \in Nat
    /\ t.owner \in [DOMAIN t.owner -> Nat]
    /\ \A p \in ProxyOwners : p # o => stored(t.owner, p, 0) = stored(s.owner, p, 0)
    /\ t.per_share = s.per_share /\ t.total \in Int /\ t.paid \in Int
    /\ t.request \in [DOMAIN t.request -> Nat \ {0}] /\ DOMAIN t.request \subseteq ProxyOwners
    /\ t.debt = [s.debt EXCEPT ![o] = accumulated(t, o)]
    /\ t.pending = [s.pending EXCEPT ![o] = e]

LEMMA ResettledKeeps ==
  ASSUME NEW s, ProxyOK(s), NEW o \in ProxyOwners, NEW t, NEW e, Resettled(s, t, o, e)
  PROVE  /\ ProxyOK(t) /\ Earned(t, o) = e
         /\ \A p \in ProxyOwners : p # o => Earned(t, p) = Earned(s, p)
<1>1. /\ s.debt \in [ProxyOwners -> Nat] /\ s.pending \in [ProxyOwners -> Nat] /\ s.per_share \in Nat
      /\ \A p \in ProxyOwners : s.debt[p] <= accumulated(s, p)
  BY DEF ProxyOK
<1>2. /\ DOMAIN t = ProxyFields /\ e \in Nat
      /\ t.owner \in [DOMAIN t.owner -> Nat]
      /\ \A p \in ProxyOwners : p # o => stored(t.owner, p, 0) = stored(s.owner, p, 0)
      /\ t.per_share = s.per_share /\ t.total \in Int /\ t.paid \in Int
      /\ t.request \in [DOMAIN t.request -> Nat \ {0}] /\ DOMAIN t.request \subseteq ProxyOwners
      /\ t.debt = [s.debt EXCEPT ![o] = accumulated(t, o)]
      /\ t.pending = [s.pending EXCEPT ![o] = e]
  BY DEF Resettled
<1>3. \A p : accumulated(t, p) \in Nat
  BY <1>1, <1>2, AccumulatedType
<1>4. \A p \in ProxyOwners : p # o => accumulated(t, p) = accumulated(s, p)
  BY <1>2 DEF accumulated
<1>5. t.debt \in [ProxyOwners -> Nat] /\ t.pending \in [ProxyOwners -> Nat]
  BY <1>1, <1>2, <1>3
<1>6. /\ t.debt[o] = accumulated(t, o) /\ t.pending[o] = e
      /\ \A p \in ProxyOwners : p # o => t.debt[p] = s.debt[p] /\ t.pending[p] = s.pending[p]
  BY <1>1, <1>2
<1>7. \A p \in ProxyOwners : t.debt[p] <= accumulated(t, p)
  BY <1>1, <1>3, <1>4, <1>6
<1>8. Earned(t, o) = e
  BY <1>2, <1>3, <1>6 DEF Earned
<1>9. \A p \in ProxyOwners : p # o => Earned(t, p) = Earned(s, p)
  BY <1>4, <1>6 DEF Earned
<1> QED BY <1>1, <1>2, <1>5, <1>7, <1>8, <1>9 DEF ProxyOK

\* What a step of the proxy may do to what the owners earned.
EarnedKept(s, t) ==
    /\ ProxyOK(t)
    /\ \A p \in ProxyOwners : Earned(t, p) < Earned(s, p) => t.paid - s.paid = Earned(s, p)

LEMMA EarnedIsInt == ASSUME NEW s, ProxyOK(s), NEW o \in ProxyOwners PROVE Earned(s, o) \in Int
BY AccumulatedType DEF ProxyOK, Earned

\* Before a deposit changes, what was earned with it is settled.
Accrued(s, s2, o) ==
    /\ DOMAIN s2 = ProxyFields /\ s2.owner = s.owner /\ s2.per_share = s.per_share
    /\ s2.total = s.total /\ s2.paid = s.paid /\ s2.request = s.request /\ s2.debt = s.debt
    /\ s2.pending = [s.pending EXCEPT ![o] = Earned(s, o)]
    /\ Earned(s, o) \in Nat

LEMMA AccrueKeeps ==
  ASSUME NEW s, ProxyOK(s), NEW o \in ProxyOwners
  PROVE  Accrued(s, accrue_pending(s, o), o) /\ Accrued(s, resized(accrue_pending(s, o)), o)
<1> PICK s1 : s1 = accrue_pending(s, o)
  OBVIOUS
<1> PICK pend : pend = [s.pending EXCEPT ![o] = Earned(s, o)]
  OBVIOUS
<1>1. DOMAIN s = ProxyFields
  BY DEF ProxyOK
<1>2. s1 = [s EXCEPT !.pending = pend] /\ Earned(s, o) \in Nat
  BY Settles
<1>3. Accrued(s, s1, o)
  BY <1>1, <1>2 DEF Accrued, ProxyFields
<1>4. /\ DOMAIN s1 = ProxyFields /\ DOMAIN resized(s1) = ProxyFields
      /\ \A f \in ProxyFields : f # "resized" => resized(s1)[f] = s1[f]
  BY <1>1, <1>2 DEF resized, ProxyFields
<1>5. Accrued(s, resized(s1), o)
  BY <1>3, <1>4 DEF Accrued, ProxyFields
<1> QED BY <1>3, <1>5

LEMMA DepositKeeps ==
  ASSUME ProxyOK(proxy), NEW o \in ProxyOwners, NEW a \in ProxyDeposits, deposit_and_stake(o, a)
  PROVE  EarnedKept(proxy, proxy')
<1> PICK s : s = proxy
  OBVIOUS
<1> PICK s2 : s2 = resized(accrue_pending(s, o))
  OBVIOUS
<1> PICK owner : owner = put(s2.owner, o, stored(s2.owner, o, 0) + a)
  OBVIOUS
<1> PICK s3 : s3 = [s2 EXCEPT
       !.owner = put(@, o, stored(@, o, 0) + a),
       !.owners = IF o \in DOMAIN proxy.owner THEN @ ELSE Append(@, o),
       !.total = @ + a, !.held = @ + a,
       !.stake = [amount |-> proxy.total + a, unlock_at |-> stored(proxy.stake, "unlock_at", now + ProxyLock)]]
  OBVIOUS
<1> PICK t : t = proxy'
  OBVIOUS
<1>1. ProxyOK(s) /\ a \in Nat
  BY ProxyAssumption
<1>2. Accrued(s, s2, o)
  BY <1>1, AccrueKeeps
<1>3. t = [reset_debt(s3, o) EXCEPT !.calls = @ + 1]
  BY DEF deposit_and_stake, proxy_called
<1>4. /\ DOMAIN s3 = ProxyFields /\ s3.owner = owner /\ s3.total = s2.total + a
      /\ s3.per_share = s2.per_share /\ s3.paid = s2.paid /\ s3.request = s2.request
      /\ s3.debt = s2.debt /\ s3.pending = s2.pending
  BY <1>2 DEF Accrued, ProxyFields
<1>5. /\ DOMAIN t = ProxyFields /\ t.debt = [s3.debt EXCEPT ![o] = accumulated(s3, o)]
      /\ t.owner = s3.owner /\ t.total = s3.total /\ t.per_share = s3.per_share /\ t.paid = s3.paid
      /\ t.request = s3.request /\ t.pending = s3.pending
  BY <1>3, <1>4 DEF reset_debt, ProxyFields
<1>6. accumulated(t, o) = accumulated(s3, o)
  BY <1>5 DEF accumulated
<1>7. /\ owner \in [DOMAIN owner -> Nat]
      /\ \A p \in ProxyOwners : p # o => stored(owner, p, 0) = stored(s.owner, p, 0)
  <2>1. s.owner \in [DOMAIN s.owner -> Nat] /\ s2.owner = s.owner
    BY <1>1, <1>2 DEF ProxyOK, Accrued
  <2>2. stored(s.owner, o, 0) + a \in Nat
    BY <1>1, <2>1 DEF stored
  <2> PICK b \in Nat : b = stored(s.owner, o, 0) + a
    BY <2>2
  <2>3. owner = [k \in DOMAIN s.owner \cup {o} |-> IF k = o THEN b ELSE s.owner[k]]
    BY <2>1 DEF put
  <2> QED BY <2>1, <2>3 DEF stored
<1>8. Resettled(s, t, o, Earned(s, o))
  BY <1>1, <1>2, <1>4, <1>5, <1>6, <1>7 DEF Resettled, Accrued, ProxyOK
<1>9. /\ ProxyOK(t) /\ Earned(t, o) = Earned(s, o) /\ Earned(s, o) \in Nat
      /\ \A p \in ProxyOwners : p # o => Earned(t, p) = Earned(s, p)
  BY <1>1, <1>2, <1>8, ResettledKeeps DEF Accrued
<1>10. \A p \in ProxyOwners : Earned(t, p) = Earned(s, p) /\ Earned(s, p) \in Int
  BY <1>1, <1>9, EarnedIsInt
<1> QED BY <1>9, <1>10 DEF EarnedKept

LEMMA WithdrawalKeeps ==
  ASSUME ProxyOK(proxy), NEW o \in ProxyOwners, o \in DOMAIN proxy.request, execute_withdrawal(o)
  PROVE  EarnedKept(proxy, proxy')
<1> PICK s : s = proxy
  OBVIOUS
<1> PICK a \in Nat \ {0} : a = s.request[o]
  BY DEF ProxyOK
<1> PICK s2 : s2 = resized(accrue_pending(s, o))
  OBVIOUS
<1> PICK owner : owner = [s2.owner EXCEPT ![o] = @ - a]
  OBVIOUS
<1> PICK request : request = del(s2.request, o)
  OBVIOUS
<1> PICK s3 : s3 = [s2 EXCEPT
       !.owner[o] = @ - a, !.total = @ - a, !.held = @ - a,
       !.stake = IF proxy.total = a THEN NothingStored
                 ELSE [amount |-> proxy.total - a, unlock_at |-> @["unlock_at"]],
       !.request = del(@, o)]
  OBVIOUS
<1> PICK t : t = proxy'
  OBVIOUS
<1>1. ProxyOK(s) /\ a \in Nat /\ a <= stored(s.owner, o, 0)
  BY DEF execute_withdrawal
<1>2. Accrued(s, s2, o)
  BY <1>1, AccrueKeeps
<1>3. t = [reset_debt(s3, o) EXCEPT !.calls = @ + 1]
  BY DEF execute_withdrawal, proxy_called
<1>4. /\ DOMAIN s3 = ProxyFields /\ s3.owner = owner /\ s3.total = s2.total - a
      /\ s3.per_share = s2.per_share /\ s3.paid = s2.paid /\ s3.request = request
      /\ s3.debt = s2.debt /\ s3.pending = s2.pending
  BY <1>2 DEF Accrued, ProxyFields
<1>5. /\ DOMAIN t = ProxyFields /\ t.debt = [s3.debt EXCEPT ![o] = accumulated(s3, o)]
      /\ t.owner = s3.owner /\ t.total = s3.total /\ t.per_share = s3.per_share /\ t.paid = s3.paid
      /\ t.request = s3.request /\ t.pending = s3.pending
  BY <1>3, <1>4 DEF reset_debt, ProxyFields
<1>6. accumulated(t, o) = accumulated(s3, o)
  BY <1>5 DEF accumulated
<1>7. /\ owner \in [DOMAIN owner -> Nat]
      /\ \A p \in ProxyOwners : p # o => stored(owner, p, 0) = stored(s.owner, p, 0)
  <2>1. s.owner \in [DOMAIN s.owner -> Nat] /\ s2.owner = s.owner
    BY <1>1, <1>2 DEF ProxyOK, Accrued
  <2>2. o \in DOMAIN s.owner /\ s.owner[o] - a \in Nat
    BY <1>1, <2>1 DEF stored
  <2> PICK b \in Nat : b = s.owner[o] - a
    BY <2>2
  <2>3. owner = [s.owner EXCEPT ![o] = b]
    BY <2>1
  <2> QED BY <2>1, <2>2, <2>3 DEF stored
<1>8. request \in [DOMAIN request -> Nat \ {0}] /\ DOMAIN request \subseteq ProxyOwners
  BY <1>1, <1>2 DEF ProxyOK, Accrued, del
<1>9. Resettled(s, t, o, Earned(s, o))
  BY <1>1, <1>2, <1>4, <1>5, <1>6, <1>7, <1>8 DEF Resettled, Accrued, ProxyOK
<1>10. /\ ProxyOK(t) /\ Earned(t, o) = Earned(s, o) /\ Earned(s, o) \in Nat
       /\ \A p \in ProxyOwners : p # o => Earned(t, p) = Earned(s, p)
  BY <1>1, <1>2, <1>9, ResettledKeeps DEF Accrued
<1>11. \A p \in ProxyOwners : Earned(t, p) = Earned(s, p) /\ Earned(s, p) \in Int
  BY <1>1, <1>10, EarnedIsInt
<1> QED BY <1>10, <1>11 DEF EarnedKept

LEMMA ClaimKeeps ==
  ASSUME ProxyOK(proxy), NEW o \in ProxyOwners, claim_rewards_for(o)
  PROVE  EarnedKept(proxy, proxy')
<1> PICK s : s = proxy
  OBVIOUS
<1> PICK s1 : s1 = accrue_pending(s, o)
  OBVIOUS
<1> PICK s2 : s2 = reset_debt(s1, o)
  OBVIOUS
<1> PICK t : t = proxy'
  OBVIOUS
<1>1. ProxyOK(s) /\ Accrued(s, s1, o)
  BY AccrueKeeps
<1>2. /\ DOMAIN s2 = ProxyFields /\ s2.debt = [s1.debt EXCEPT ![o] = accumulated(s1, o)]
      /\ s2.owner = s1.owner /\ s2.total = s1.total /\ s2.per_share = s1.per_share /\ s2.paid = s1.paid
      /\ s2.request = s1.request /\ s2.pending = s1.pending
  BY <1>1 DEF reset_debt, ProxyFields, Accrued
<1>3. s2.pending[o] = Earned(s, o) /\ Earned(s, o) \in Nat
  BY <1>1, <1>2 DEF Accrued, ProxyOK
<1>4. t = [[s2 EXCEPT !.pending[o] = 0, !.held = @ - s2.pending[o], !.paid = @ + s2.pending[o]] EXCEPT !.calls = @ + 1]
  BY DEF claim_rewards_for, proxy_called
<1>5. /\ DOMAIN t = ProxyFields /\ t.pending = [s2.pending EXCEPT ![o] = 0]
      /\ t.paid = s2.paid + s2.pending[o] /\ t.debt = s2.debt
      /\ t.owner = s2.owner /\ t.total = s2.total /\ t.per_share = s2.per_share /\ t.request = s2.request
  BY <1>2, <1>4 DEF ProxyFields
<1>6. accumulated(t, o) = accumulated(s1, o)
  BY <1>2, <1>5 DEF accumulated
<1>7. t.pending = [s.pending EXCEPT ![o] = 0]
  BY <1>1, <1>2, <1>5 DEF Accrued, ProxyOK
<1>8. Resettled(s, t, o, 0)
  BY <1>1, <1>2, <1>3, <1>5, <1>6, <1>7 DEF Resettled, Accrued, ProxyOK
<1>9. /\ ProxyOK(t) /\ Earned(t, o) = 0
      /\ \A p \in ProxyOwners : p # o => Earned(t, p) = Earned(s, p)
  BY <1>1, <1>8, ResettledKeeps
<1>10. t.paid - s.paid = Earned(s, o)
  BY <1>1, <1>2, <1>3, <1>5 DEF Accrued, ProxyOK
<1>11. \A p \in ProxyOwners : Earned(s, p) \in Int
  BY <1>1, EarnedIsInt
<1> QED BY <1>9, <1>10, <1>11 DEF EarnedKept

LEMMA DistributionKeeps ==
  ASSUME ProxyOK(proxy), NEW a \in ProxyRewards, distribute_rewards(a)
  PROVE  EarnedKept(proxy, proxy')
<1> PICK s : s = proxy
  OBVIOUS
<1> PICK t : t = proxy'
  OBVIOUS
<1> PICK n \in Nat \ {0} : n = s.total
  BY DEF ProxyOK, distribute_rewards
<1> PICK m \in Nat : m = a * Precision
  BY ProxyAssumption
<1> PICK k \in Nat : k = m \div n
  BY DivBounds
<1>1. ProxyOK(s)
  OBVIOUS
<1>2. t = [[s EXCEPT !.per_share = @ + k, !.held = @ + a, !.put_in = @ + a] EXCEPT !.calls = @ + 1]
  BY DEF distribute_rewards, proxy_called
<1>3. /\ DOMAIN t = ProxyFields /\ t.per_share = s.per_share + k /\ t.owner = s.owner
      /\ t.debt = s.debt /\ t.pending = s.pending /\ t.request = s.request /\ t.total = s.total
      /\ t.paid = s.paid
  BY <1>1, <1>2 DEF ProxyOK, ProxyFields
<1>4. s.per_share \in Nat /\ s.owner \in [DOMAIN s.owner -> Nat]
  BY <1>1 DEF ProxyOK
<1>5. ASSUME NEW o \in ProxyOwners
      PROVE  accumulated(s, o) <= accumulated(t, o) /\ accumulated(s, o) \in Nat /\ accumulated(t, o) \in Nat
  <2> PICK d \in Nat : d = stored(s.owner, o, 0)
    BY <1>4 DEF stored
  <2> PICK x \in Nat : x = s.per_share
    BY <1>4
  <2> PICK y \in Nat : y = x + k
    OBVIOUS
  <2>1. (d * x) \div Precision <= (d * y) \div Precision
    <3>1. x <= y /\ Precision \in Nat \ {0}
      BY ProxyAssumption
    <3> QED BY ONLY <3>1, d \in Nat, x \in Nat, y \in Nat, ShareGrows
  <2> QED BY <1>3, <1>4, <2>1, AccumulatedType DEF accumulated
<1>6. \A o \in ProxyOwners : /\ s.debt[o] \in Nat /\ s.pending[o] \in Nat /\ s.debt[o] <= accumulated(s, o)
  BY <1>1 DEF ProxyOK
<1>7. \A o \in ProxyOwners : t.debt[o] <= accumulated(t, o)
  BY <1>3, <1>5, <1>6
<1>8. ProxyOK(t)
  BY <1>1, <1>3, <1>7 DEF ProxyOK
<1>9. \A o \in ProxyOwners : ~(Earned(t, o) < Earned(s, o))
  BY <1>3, <1>5, <1>6 DEF Earned
<1> QED BY <1>8, <1>9 DEF EarnedKept

LEMMA RequestKeeps ==
  ASSUME ProxyOK(proxy), NEW o \in ProxyOwners, NEW a \in ProxyDeposits, withdraw_request(o, a)
  PROVE  EarnedKept(proxy, proxy')
<1> PICK s : s = proxy
  OBVIOUS
<1> PICK t : t = proxy'
  OBVIOUS
<1> PICK request : request = put(s.request, o, a)
  OBVIOUS
<1>1. ProxyOK(s) /\ a \in Nat \ {0}
  BY ProxyAssumption
<1>2. t = [[s EXCEPT !.request = request] EXCEPT !.calls = @ + 1]
  BY DEF withdraw_request, proxy_called
<1>3. /\ DOMAIN t = ProxyFields /\ t.per_share = s.per_share /\ t.owner = s.owner
      /\ t.debt = s.debt /\ t.pending = s.pending /\ t.request = request /\ t.total = s.total
      /\ t.paid = s.paid
  BY <1>1, <1>2 DEF ProxyOK, ProxyFields
<1>4. request \in [DOMAIN request -> Nat \ {0}] /\ DOMAIN request \subseteq ProxyOwners
  BY <1>1 DEF ProxyOK, put
<1>5. \A p : accumulated(t, p) = accumulated(s, p)
  BY <1>3 DEF accumulated
<1>6. ProxyOK(t)
  BY <1>1, <1>3, <1>4, <1>5 DEF ProxyOK
<1>7. \A p \in ProxyOwners : Earned(t, p) = Earned(s, p) /\ Earned(s, p) \in Int
  BY <1>1, <1>3, <1>5, EarnedIsInt DEF Earned
<1> QED BY <1>6, <1>7 DEF EarnedKept

\* A call of the proxy, or a ledger.
LEMMA ProxyStep ==
  ASSUME ProxyOK(proxy), ProxyNext
  PROVE  EarnedKept(proxy, proxy') \/ UNCHANGED proxy
<1>1. CASE ProxyTick
  BY <1>1 DEF ProxyTick
<1>2. ASSUME NEW o \in ProxyOwners,
             (\E a \in ProxyDeposits : deposit_and_stake(o, a) \/ withdraw_request(o, a)) \/ claim_rewards_for(o)
      PROVE  EarnedKept(proxy, proxy')
  BY <1>2, DepositKeeps, RequestKeeps, ClaimKeeps
<1>3. ASSUME NEW o \in DOMAIN proxy.request, execute_withdrawal(o)
      PROVE  EarnedKept(proxy, proxy')
  BY <1>3, WithdrawalKeeps DEF ProxyOK
<1>4. ASSUME NEW a \in ProxyRewards, distribute_rewards(a)
      PROVE  EarnedKept(proxy, proxy')
  BY <1>4, DistributionKeeps
<1> QED BY <1>1, <1>2, <1>3, <1>4 DEF ProxyNext

LEMMA EarnedKeeps ==
  ASSUME ProxyOK(proxy), EarnedKept(proxy, proxy') \/ UNCHANGED proxy
  PROVE  /\ ProxyOK(proxy)'
         /\ \A o \in ProxyOwners :
              get_pending_rewards(o)' < get_pending_rewards(o) =>
                proxy'.paid - proxy.paid = get_pending_rewards(o)
<1> PICK s : s = proxy
  OBVIOUS
<1> PICK t : t = proxy'
  OBVIOUS
<1>1. \A o \in ProxyOwners : get_pending_rewards(o) = Earned(s, o) /\ get_pending_rewards(o)' = Earned(t, o)
  BY DEF get_pending_rewards, Earned, accumulated
<1>2. CASE EarnedKept(proxy, proxy')
  BY <1>1, <1>2 DEF EarnedKept, ProxyOK, accumulated
<1>3. CASE UNCHANGED proxy
  <2>1. \A o \in ProxyOwners : Earned(s, o) \in Int
    BY EarnedIsInt
  <2>2. t = s
    BY <1>3
  <2>3. \A o \in ProxyOwners : ~(get_pending_rewards(o)' < get_pending_rewards(o))
    BY <1>1, <2>1, <2>2
  <2> QED BY <1>3, <2>3 DEF ProxyOK, accumulated
<1> QED BY <1>2, <1>3

-----------------------------------------------------------------------------
(* All together. One contract moves at a time, so what the others keep has *)
(* to outlast the closing of a ledger only; the invariant of the upgrades, *)
(* which is about the present, is that of the contract that moves.         *)

LEMMA ClockStep == ASSUME MCNext PROVE ClockMoves
<1> USE DEF ClockMoves
<1>1. ASSUME UNCHANGED now PROVE ClockMoves
  BY <1>1
<1>2. CASE GovernanceNext
  <2>1. ASSUME NEW id \in DOMAIN proposals,
               \/ \E v \in Voters, s \in BOOLEAN : vote(v, id, s)
               \/ execute_failing(id) \/ execute_passing(id) \/ execute_queued_proposal(id)
        PROVE  ClockMoves
    <3>1. CASE \E v \in Voters, s \in BOOLEAN : vote(v, id, s)
      BY <3>1 DEF vote
    <3>2. CASE execute_failing(id) \/ execute_passing(id) \/ execute_queued_proposal(id)
      BY <3>2 DEF execute_failing, execute_passing, execute_queued_proposal
    <3> QED BY <2>1, <3>1, <3>2
  <2>2. ASSUME NEW id \in DOMAIN proposals, cancel_proposal(id) PROVE ClockMoves
    BY <2>2 DEF cancel_proposal
  <2>3. CASE \E p \in Proposers, a \in GovActions, c \in BOOLEAN : create_proposal(p, a, c)
    BY <2>3 DEF create_proposal
  <2>4. CASE mandate \/ GovernanceTick
    BY <2>4 DEF mandate, GovernanceTick, CloseLedger
  <2> QED BY <1>2, <2>1, <2>2, <2>3, <2>4 DEF GovernanceNext
<1>3. CASE ArbitratorsNext
  BY <1>3 DEF ArbitratorsNext, register_arbitrator, unregister_arbitrator, submit_appeal, resolve_appeal
<1>4. CASE ScheduleNext
  BY <1>4 DEF ScheduleNext, register_session, update_status, cancel_session, emergency_scheduling_override
<1>5. CASE ReputationNext
  BY <1>5 DEF ReputationNext, submit_review, file_review_dispute, resolve_review_dispute,
              update_reputation, migrate_legacy_rating, ReputationTick, CloseLedger
<1>6. CASE UpgradeNext
  <2>1. ASSUME NEW a \in Approvers,
               \/ \E v \in Versions : \/ schedule_upgrade(v, a) \/ upgrade_contract(v, a)
                                      \/ register_storage_schema(v, a) \/ rollback_storage_layout(v, a)
                                      \/ \E from \in Versions, n \in MigrationRecords :
                                           start_storage_migration(from, v, n, a)
               \/ execute_pending_upgrade(a) \/ execute_migration_step(1, a)
        PROVE  ClockMoves
    BY <2>1 DEF schedule_upgrade, upgrade_contract, register_storage_schema, rollback_storage_layout,
                start_storage_migration, execute_pending_upgrade, execute_migration_step
  <2>2. ASSUME NEW a \in Approvers, NEW s \in SignerSets, NEW t, set_upgrade_signers(s, t, a) PROVE ClockMoves
    BY <2>2 DEF set_upgrade_signers
  <2>3. CASE (\E v \in Versions : register_upgrade(0, v)) \/ cancel_pending_upgrade \/ UpgradeTick
    BY <2>3 DEF register_upgrade, cancel_pending_upgrade, UpgradeTick, CloseLedger
  <2> QED BY <1>6, <2>1, <2>2, <2>3 DEF UpgradeNext
<1>7. CASE DisputeNext
  BY <1>7 DEF DisputeNext, record_dispute_opened, set_cooldown_enabled, submit_evidence, submit_resolution,
              submit_appeal_for_dispute, governance_changes, escrow_resolved, DisputeTick, CloseLedger
<1>8. CASE FactoryNext
  BY <1>8 DEF FactoryNext, deploy_escrow, execute_meta_tx, approve_high_value_session, fee_history_expires,
              guardian_changes, FactoryTick, CloseLedger
<1>9. CASE TokenNext \/ DelegationsNext \/ SnapshotsNext
  BY <1>9 DEF TokenNext, DelegationsNext, SnapshotsNext
<1>10. CASE ProxyNext
  BY <1>10 DEF ProxyNext, ProxyTick, CloseLedger
<1>11. CASE StakeRecoveryNext \/ RegistryRecoveryNext
  BY <1>11 DEF StakeRecoveryNext, RegistryRecoveryNext
<1> QED BY <1>2, <1>3, <1>4, <1>5, <1>6, <1>7, <1>8, <1>9, <1>10, <1>11 DEF MCNext

ServicesInv ==
    /\ VotingInv /\ CancelInv /\ DisputeInv /\ FactoryInv /\ RescueInv /\ ProxyOK(proxy)
    /\ IF contract = "upgrades" THEN UpgradeInv ELSE history = << >>

LEMMA ServicesStart == MCInit => ServicesInv
<1> SUFFICES ASSUME MCInit PROVE ServicesInv
  OBVIOUS
<1>1. /\ GovernanceInit /\ UpgradeInit /\ DisputeInit /\ FactoryInit /\ ProxyInit
      /\ StakeRecoveryInit /\ RegistryRecoveryInit
  BY DEF MCInit
<1>2. history = << >>
  BY <1>1 DEF UpgradeInit
<1> QED BY <1>1, <1>2, VotingStarts, CancelStarts, DisputeStarts, FactoryStarts, RescueStarts, ProxyStarts,
           UpgradeStarts DEF ServicesInv

\* What a step of one of the contracts leaves to all of them.
DecisionsKept ==
    /\ ServicesInv'
    /\ LayoutStays \/ UNCHANGED upgrade_vars
    /\ ruling # Unruled => appeal_ends' = appeal_ends /\ (now > appeal_ends => ruling' = ruling)
    /\ \A o \in ProxyOwners :
         get_pending_rewards(o)' < get_pending_rewards(o) => proxy'.paid - proxy.paid = get_pending_rewards(o)

LEMMA ServicesStep == ASSUME ServicesInv, MCNext PROVE DecisionsKept
<1>1. /\ VotingInv /\ CancelInv /\ DisputeInv /\ FactoryInv /\ RescueInv /\ ProxyOK(proxy)
      /\ contract' = contract /\ ClockMoves
  BY ClockStep DEF ServicesInv, MCNext
<1>2. VotingInv' /\ CancelInv'
  <2>1. CASE contract = "governance"
    <3>1. GovernanceNext
      BY <2>1 DEF MCNext
    <3> QED BY <1>1, <3>1, VotingStep, CancelsStep
  <2>2. CASE contract # "governance"
    <3>1. UNCHANGED <<gov_admin, proposals, applied, cooldowns, cancel_times, cancels>>
      BY <2>2 DEF MCNext, resting, gov_vars, cancel_vars, proposal_vars
    <3>2. now' \in {now, now + 1}
      BY <1>1 DEF ClockMoves
    <3> QED BY <1>1, <3>1, <3>2, VotingRests, CancelRests
  <2> QED BY <2>1, <2>2
<1>3. /\ DisputeInv'
      /\ ruling # Unruled => appeal_ends' = appeal_ends /\ (now > appeal_ends => ruling' = ruling)
  <2>1. CASE contract = "disputes"
    <3>1. DisputeNext
      BY <2>1 DEF MCNext
    <3> QED BY <1>1, <3>1, DisputeStep
  <2>2. CASE contract # "disputes"
    <3>1. UNCHANGED dispute_vars
      BY <2>2 DEF MCNext, resting
    <3>2. UNCHANGED <<ruling, appeal_ends>>
      BY <3>1 DEF dispute_vars
    <3> QED BY <1>1, <3>1, <3>2, DisputeRests
  <2> QED BY <2>1, <2>2
<1>4. FactoryInv'
  <2>1. CASE contract = "factory"
    <3>1. FactoryNext
      BY <2>1 DEF MCNext
    <3> QED BY <1>1, <3>1, FactoryStep
  <2>2. CASE contract # "factory"
    <3>1. UNCHANGED factory_vars
      BY <2>2 DEF MCNext, resting
    <3> QED BY <1>1, <3>1, FactoryRests
  <2> QED BY <2>1, <2>2
<1>5. RescueInv'
  <2>1. CASE StakeRecoveryNext
    BY <1>1, <2>1, StakeRescueStep
  <2>2. CASE RegistryRecoveryNext
    BY <1>1, <2>2, RegistryRescueStep
  <2>3. CASE contract \notin {"stake_recovery", "registry_recovery"}
    <3>1. UNCHANGED <<stake_recovery, registry_recovery>>
      BY <2>3 DEF MCNext, resting, recovery_vars
    <3> QED BY <1>1, <3>1 DEF RescueInv, RescueOK, ApproversOf
  <2> QED BY <2>1, <2>2, <2>3 DEF MCNext
<1>6. /\ ProxyOK(proxy)'
      /\ \A o \in ProxyOwners :
           get_pending_rewards(o)' < get_pending_rewards(o) => proxy'.paid - proxy.paid = get_pending_rewards(o)
  <2>1. CASE ProxyNext
    BY <1>1, <2>1, ProxyStep, EarnedKeeps
  <2>2. CASE UNCHANGED proxy
    BY <1>1, <2>2, EarnedKeeps
  <2>3. CASE TokenNext \/ DelegationsNext \/ SnapshotsNext
    BY <2>2, <2>3 DEF TokenNext, DelegationsNext, SnapshotsNext
  <2>4. CASE contract \notin {"token", "delegations", "snapshots", "proxy"}
    BY <2>2, <2>4 DEF MCNext, resting, voting_vars
  <2> QED BY <2>1, <2>3, <2>4 DEF MCNext
<1>7. /\ (IF contract = "upgrades" THEN UpgradeInv ELSE history = << >>)'
      /\ LayoutStays \/ UNCHANGED upgrade_vars
  <2>1. CASE contract = "upgrades"
    <3>1. UpgradeInv /\ UpgradeNext
      BY <2>1 DEF MCNext, ServicesInv
    <3>2. UpgradeInv' /\ LayoutStays
      BY <3>1, UpgradeStep
    <3> QED BY <1>1, <2>1, <3>2
  <2>2. CASE contract # "upgrades"
    <3>1. UNCHANGED upgrade_vars
      BY <2>2 DEF MCNext, resting
    <3>2. history' = history
      BY <3>1 DEF upgrade_vars
    <3> QED BY <1>1, <2>2, <3>1, <3>2 DEF ServicesInv
  <2> QED BY <2>1, <2>2
<1> QED BY <1>2, <1>3, <1>4, <1>5, <1>6, <1>7 DEF DecisionsKept, ServicesInv

LEMMA ServicesRest == ASSUME ServicesInv, UNCHANGED services_vars PROVE ServicesInv'
<1>1. /\ VotingInv /\ CancelInv /\ DisputeInv /\ FactoryInv /\ RescueInv /\ ProxyOK(proxy)
      /\ UNCHANGED <<contract, now, gov_vars, upgrade_vars, dispute_vars, factory_vars, voting_vars, recovery_vars>>
  BY DEF ServicesInv, services_vars
<1>2. ClockMoves
  BY <1>1 DEF ClockMoves
<1>3. VotingInv' /\ CancelInv'
  <2>1. UNCHANGED <<gov_admin, proposals, applied, cooldowns, cancel_times, cancels>> /\ now' \in {now, now + 1}
    BY <1>1, <1>2 DEF gov_vars, cancel_vars, proposal_vars, ClockMoves
  <2> QED BY <1>1, <2>1, VotingRests, CancelRests
<1>4. DisputeInv' /\ FactoryInv'
  BY <1>1, <1>2, DisputeRests, FactoryRests
<1>5. RescueInv'
  BY <1>1 DEF recovery_vars, RescueInv, RescueOK, ApproversOf
<1>6. ProxyOK(proxy)'
  <2>1. UNCHANGED proxy
    BY <1>1 DEF voting_vars
  <2> QED BY <1>1, <2>1, EarnedKeeps
<1>7. (IF contract = "upgrades" THEN UpgradeInv ELSE history = << >>)'
  <2>1. UNCHANGED <<now, latest, history, pending_upgrade, upgrade_delay, config, cache, layouts,
                    active_layout, migration, in_force>>
    BY <1>1 DEF upgrade_vars
  <2>2. CASE contract = "upgrades"
    <3>1. UpgradeInv
      BY <2>2 DEF ServicesInv
    <3>2. UpgradeInv'
      BY <2>1, <3>1 DEF UpgradeInv, UpgradeTypes, ForceIsCurrent, validate_approval_set, CacheFollowsForce,
                        LayoutsAreKnown, ApprovalsAreRecent
    <3> QED BY <1>1, <2>2, <3>2
  <2>3. CASE contract # "upgrades"
    BY <1>1, <2>1, <2>3 DEF ServicesInv
  <2> QED BY <2>2, <2>3
<1> QED BY <1>3, <1>4, <1>5, <1>6, <1>7 DEF ServicesInv

LEMMA ServicesAreSound == MCSpec => []ServicesInv
<1>1. ServicesInv /\ [MCNext]_services_vars => ServicesInv'
  BY ServicesStep, ServicesRest DEF DecisionsKept
<1> QED BY <1>1, ServicesStart, PTL DEF MCSpec

\* Whoever votes, cancels, upgrades, submits evidence, rules, appeals, deploys, relays, approves
\* and rolls back in whatever order: a proposal is queued, applied or failed by the votes cast in
\* its voting period (vote, execute_proposal) and a call waits for its timelock, repeated
\* cancellations of an admin need a mandate (cancel_proposal), a cached set of approvers met the
\* configuration within the expiry (require_upgrade_approvals_cached), the judge of an appeal is
\* another one (select_appeal_arbitrator), submissions keep the cooldown (submit_evidence), a
\* signed payload is spent (execute_meta_tx), a high-value session is approved in its day
\* (approve_high_value_session) and a rollback has its approvals (rollback_state).
THEOREM DecisionsAreTakenRightly == MCSpec => []DecisionsAreLegitimate
<1>1. ServicesInv => DecisionsAreLegitimate
  <2> SUFFICES ASSUME ServicesInv PROVE DecisionsAreLegitimate
    OBVIOUS
  <2>1. CarriedByVotes /\ CallsWait
    BY VotesDecide DEF ServicesInv
  <2>2. CancelsEscalate
    BY DEF ServicesInv, CancelInv
  <2>3. ApprovalsAreRecent
    <3>1. CASE UpgradeInv
      BY <3>1 DEF UpgradeInv
    <3>2. CASE history = << >>
      BY <3>2 DEF ApprovalsAreRecent
    <3> QED BY <3>1, <3>2 DEF ServicesInv
  <2>4. AppealHasAnotherJudge /\ SubmissionsAreSpaced
    BY DEF ServicesInv, DisputeInv
  <2>5. PayloadsAreUsedOnce /\ ApprovedInTime
    BY DEF ServicesInv, FactoryInv
  <2>6. RollbacksAreApproved
    BY RollbacksHaveApprovals DEF ServicesInv
  <2> QED BY <2>1, <2>2, <2>3, <2>4, <2>5, <2>6 DEF DecisionsAreLegitimate
<1> QED BY <1>1, ServicesAreSound, PTL

\* The active layout changes with the last step of a migration only (execute_migration_step), a
\* ruling stands once the appeal period has ended (submit_resolution, submit_appeal), and what an
\* owner of the staking proxy may claim falls only by what it is paid (claim_rewards_for).
THEOREM DecisionsRemain == MCSpec => DecisionsStand
<1>1. ASSUME ServicesInv, [MCNext]_services_vars
      PROVE  [migrating /\ migrating' => active_layout'.version = active_layout.version \/ latest = 0]_upgrade_vars
  <2>1. CASE MCNext
    BY <1>1, <2>1, ServicesStep DEF DecisionsKept, LayoutStays
  <2>2. CASE UNCHANGED services_vars
    BY <2>2 DEF services_vars
  <2> QED BY <1>1, <2>1, <2>2
<1>2. ASSUME ServicesInv, [MCNext]_services_vars
      PROVE  [ruling # Unruled => /\ appeal_ends' = appeal_ends
                                  /\ now > appeal_ends => ruling' = ruling]_dispute_vars
  <2>1. CASE MCNext
    BY <1>2, <2>1, ServicesStep DEF DecisionsKept
  <2>2. CASE UNCHANGED services_vars
    BY <2>2 DEF services_vars
  <2> QED BY <1>2, <2>1, <2>2
<1>3. ASSUME ServicesInv, [MCNext]_services_vars
      PROVE  [\A o \in ProxyOwners :
                get_pending_rewards(o)' < get_pending_rewards(o) =>
                  proxy'.paid - proxy.paid = get_pending_rewards(o)]_proxy
  <2>1. CASE MCNext
    BY <1>3, <2>1, ServicesStep DEF DecisionsKept
  <2>2. CASE UNCHANGED services_vars
    BY <2>2 DEF services_vars, voting_vars
  <2> QED BY <1>3, <2>1, <2>2
<1> QED BY <1>1, <1>2, <1>3, ServicesAreSound, PTL
    DEF MCSpec, DecisionsStand, LayoutChangesWhenMigrated, RulingIsFinal, EarnedStays
==============================================================================
