-------------------------------- MODULE Sums --------------------------------
(***************************************************************************)
(* Induction, recursion and sums. The community modules' SumFunctionOnSet  *)
(* gets its properties here: what it yields for a finite set, and how it   *)
(* changes with its summands. They are proved by induction on the size of  *)
(* the set, in the form of a least counterexample: a non-empty set of      *)
(* natural numbers has a least element.                                    *)
(***************************************************************************)
EXTENDS Integers, Sequences, FiniteSets, Functions, FiniteSetTheorems, WellFoundedInduction, TLAPS

\* A non-empty set of natural numbers has a least element.
LEMMA LeastNat ==
    ASSUME NEW T, T \subseteq Nat, T # {}
    PROVE  \E n \in T : \A m \in T : n <= m
<1> DEFINE R == {p \in Nat \X Nat : p[1] < p[2]}
<1>1. IsWellFoundedOn(R, Nat)
  BY NatLessThanWellFounded DEF OpToRel
<1> HIDE DEF R
<1>2. PICK n \in T : \A m \in T : ~(<<m, n>> \in R)
  BY <1>1, WFMin
<1>3. \A m \in T : ~(m < n)
  BY <1>2 DEF R
<1> QED BY <1>3

\* A set that holds 0 and every successor of its elements holds every natural number.
LEMMA NatInduct ==
    ASSUME NEW T, 0 \in T, \A n \in Nat : n \in T => n + 1 \in T
    PROVE  \A n \in Nat : n \in T
<1> DEFINE bad == Nat \ T
<1> SUFFICES ASSUME bad # {} PROVE FALSE
  OBVIOUS
<1>1. PICK k \in bad : \A m \in bad : k <= m
  BY LeastNat
<1>2. k \in Nat /\ k # 0 /\ k \notin T
  OBVIOUS
<1>3. k - 1 \in Nat /\ k - 1 \notin bad
  <2>1. k - 1 \in Nat /\ ~(k <= k - 1)
    BY <1>2
  <2> QED BY <1>1, <2>1
<1> QED BY <1>2, <1>3

\* h holds the first n + 1 values in V of the recursion with start b and step g.
IsPrefixOfRecursion(h, n, V, b, g) ==
    /\ h \in [0 .. n -> V] /\ h[0] = b
    /\ \A i \in 0 .. n : i # 0 => h[i] = g[<<i, h[i - 1]>>]

\* f is the function the recursion defines.
IsRecursive(f, V, b, g) ==
    f \in [Nat -> V] /\ f = [n \in Nat |-> IF n = 0 THEN b ELSE g[<<n, f[n - 1]>>]]

\* A function of the natural numbers may be defined by recursion.
LEMMA Recursion ==
    ASSUME NEW V, NEW b \in V, NEW g \in [Nat \X V -> V]
    PROVE  \E f : IsRecursive(f, V, b, g)
<1> DEFINE Good(h, n) == IsPrefixOfRecursion(h, n, V, b, g)
           T == {n \in Nat : \E h : Good(h, n)}
<1>1. \A n \in Nat : n \in T
  <2>1. 0 \in T
    <3>1. Good([i \in 0 .. 0 |-> b], 0)
      BY DEF IsPrefixOfRecursion
    <3> QED BY <3>1
  <2>2. ASSUME NEW n \in Nat, n \in T PROVE n + 1 \in T
    <3>1. PICK h : Good(h, n)
      BY <2>2
    <3>2. h \in [0 .. n -> V] /\ h[0] = b /\ \A i \in 0 .. n : i # 0 => h[i] = g[<<i, h[i - 1]>>]
      BY <3>1 DEF IsPrefixOfRecursion
    <3> DEFINE k == [i \in 0 .. n + 1 |-> IF i = n + 1 THEN g[<<n + 1, h[n]>>] ELSE h[i]]
    <3>3. g[<<n + 1, h[n]>>] \in V
      BY <3>2
    <3>4. k \in [0 .. n + 1 -> V] /\ k[0] = b /\ \A i \in 0 .. n : k[i] = h[i]
      BY <3>2, <3>3
    <3>5. k[n + 1] = g[<<n + 1, k[n]>>]
      <4>1. n \in 0 .. n /\ n + 1 \in 0 .. n + 1 /\ k[n] = h[n]
        BY <3>4
      <4>2. k[n + 1] = g[<<n + 1, h[n]>>]
        BY <4>1
      <4> QED BY <4>1, <4>2
    <3> HIDE DEF k
    <3>6. ASSUME NEW i \in 0 .. n + 1, i # 0 PROVE k[i] = g[<<i, k[i - 1]>>]
      <4>1. CASE i = n + 1
        BY <3>5, <4>1
      <4>2. CASE i \in 0 .. n
        BY <3>2, <3>4, <3>6, <4>2
      <4> QED BY <4>1, <4>2
    <3>7. Good(k, n + 1)
      BY <3>4, <3>6 DEF IsPrefixOfRecursion
    <3> QED BY <3>7
  <2> HIDE DEF T
  <2> QED BY <2>1, <2>2, NatInduct
<1> DEFINE H(n) == CHOOSE h : Good(h, n)
<1>2. \A n \in Nat : Good(H(n), n)
  BY <1>1
<1> HIDE DEF H
<1>3. ASSUME NEW n \in Nat PROVE H(n + 1)[n] = H(n)[n]
  <2> DEFINE S == {i \in Nat : i <= n => H(n + 1)[i] = H(n)[i]}
  <2>1. 0 \in S
    BY <1>2 DEF IsPrefixOfRecursion
  <2>2. ASSUME NEW i \in Nat, i \in S PROVE i + 1 \in S
    <3>1. CASE i + 1 <= n
      <4>1. H(n + 1)[i] = H(n)[i]
        BY <2>2, <3>1
      <4>2. ASSUME NEW m \in Nat, NEW h, Good(h, m), i + 1 <= m
            PROVE  h[i + 1] = g[<<i + 1, h[i]>>]
        <5>1. i + 1 \in 0 .. m /\ i + 1 # 0 /\ (i + 1) - 1 = i
          BY <4>2
        <5>2. h[i + 1] = g[<<i + 1, h[(i + 1) - 1]>>]
          BY <4>2, <5>1 DEF IsPrefixOfRecursion
        <5> QED BY <5>1, <5>2
      <4>3. Good(H(n), n) /\ Good(H(n + 1), n + 1) /\ n + 1 \in Nat /\ i + 1 <= n + 1
        BY <1>2, <3>1
      <4>4. H(n)[i + 1] = g[<<i + 1, H(n)[i]>>] /\ H(n + 1)[i + 1] = g[<<i + 1, H(n + 1)[i]>>]
        <5> HIDE DEF Good
        <5> QED BY <3>1, <4>2, <4>3
      <4> QED BY <4>1, <4>4
    <3> QED BY <3>1
  <2> HIDE DEF S
  <2>3. \A i \in Nat : i \in S
    BY <2>1, <2>2, NatInduct
  <2>4. n \in S
    BY <2>3
  <2> QED BY <2>4 DEF S
<1> DEFINE f == [n \in Nat |-> H(n)[n]]
<1>4. \A n \in Nat : H(n)[n] \in V
  BY <1>2 DEF IsPrefixOfRecursion
<1>5. f \in [Nat -> V]
  BY <1>4
<1>6. ASSUME NEW n \in Nat PROVE f[n] = IF n = 0 THEN b ELSE g[<<n, f[n - 1]>>]
  <2>1. CASE n = 0
    BY <1>2, <2>1 DEF IsPrefixOfRecursion
  <2>2. CASE n # 0
    <3>1. PICK m \in Nat : m = n - 1 /\ n = m + 1
      BY <2>2
    <3>2. H(n)[n] = g[<<n, H(n)[n - 1]>>]
      BY <1>2, <2>2 DEF IsPrefixOfRecursion
    <3>3. H(n)[n - 1] = H(m)[m]
      BY <1>3, <3>1
    <3> QED BY <2>2, <3>1, <3>2, <3>3
  <2> QED BY <2>1, <2>2
<1>7. f = [n \in Nat |-> IF n = 0 THEN b ELSE g[<<n, f[n - 1]>>]]
  <2> HIDE DEF f
  <2>1. f = [n \in Nat |-> f[n]]
    BY <1>5
  <2>2. [n \in Nat |-> f[n]] = [n \in Nat |-> IF n = 0 THEN b ELSE g[<<n, f[n - 1]>>]]
    BY <1>6
  <2> QED BY <2>1, <2>2
<1> QED BY <1>5, <1>7 DEF IsRecursive

\* In particular one of integers.
LEMMA IntRecursion ==
    ASSUME NEW b \in Int, NEW g \in [Nat \X Int -> Int]
    PROVE  \E f \in [Nat -> Int] : f = [n \in Nat |-> IF n = 0 THEN b ELSE g[<<n, f[n - 1]>>]]
<1> DEFINE V == Int
<1>1. b \in V /\ g \in [Nat \X V -> V]
  OBVIOUS
<1> HIDE DEF V
<1>2. PICK f : IsRecursive(f, V, b, g)
  BY <1>1, Recursion
<1> QED BY <1>2 DEF V, IsRecursive

\* Taking an element out of a finite set makes it smaller by one.
LEMMA OneLess ==
    ASSUME NEW s, IsFiniteSet(s), NEW x \in s
    PROVE  /\ IsFiniteSet(s \ {x})
           /\ Cardinality(s \ {x}) = Cardinality(s) - 1 /\ Cardinality(s) - 1 \in Nat
<1>1. IsFiniteSet(s \ {x}) /\ Cardinality(s \ {x}) = Cardinality(s) - 1
  BY FS_RemoveElement
<1>2. Cardinality(s \ {x}) \in Nat
  BY <1>1, FS_CardinalityType
<1> QED BY <1>1, <1>2

\* The element the fold of the library takes out of a set first.
choice(s) == CHOOSE x \in s : TRUE

\* A table of the partial sums of f over the sets in D, as the library's fold defines it.
IsFold(it, f, D) ==
  it = [s \in D |-> IF s = {} THEN 0 ELSE f[choice(s)] + it[s \ {choice(s)}]]

\* The table the library chooses.
fold(f, S) == CHOOSE it : IsFold(it, f, SUBSET S)

\* A sum is an entry of that table.
LEMMA SumIsFold ==
    ASSUME NEW f, NEW S
    PROVE  SumFunctionOnSet(f, S) = fold(f, S)[S]
BY DEF SumFunctionOnSet, FoldFunctionOnSet, MapThenFoldSet, fold, IsFold, choice

\* A fold exists on the subsets of a finite set: it is built up one size after the other.
LEMMA FoldExists ==
    ASSUME NEW f, NEW S, IsFiniteSet(S)
    PROVE  IsFold(fold(f, S), f, SUBSET S)
<1> DEFINE upto(k) == {s \in SUBSET S : Cardinality(s) <= k}
           bad == {k \in Nat : ~\E it : IsFold(it, f, upto(k))}
<1>1. \A s \in SUBSET S : /\ IsFiniteSet(s) /\ Cardinality(s) \in Nat
                          /\ Cardinality(s) <= Cardinality(S)
                          /\ s # {} => /\ choice(s) \in s
                                       /\ Cardinality(s \ {choice(s)}) = Cardinality(s) - 1
  <2> SUFFICES ASSUME NEW s \in SUBSET S
               PROVE  /\ IsFiniteSet(s) /\ Cardinality(s) \in Nat
                      /\ Cardinality(s) <= Cardinality(S)
                      /\ s # {} => /\ choice(s) \in s
                                   /\ Cardinality(s \ {choice(s)}) = Cardinality(s) - 1
    OBVIOUS
  <2>1. IsFiniteSet(s) /\ Cardinality(s) \in Nat /\ Cardinality(s) <= Cardinality(S)
    BY FS_Subset, FS_CardinalityType
  <2>2. s # {} => choice(s) \in s
    BY DEF choice
  <2> QED BY <2>1, <2>2, FS_RemoveElement
<1>2. bad = {}
  <2> SUFFICES ASSUME bad # {} PROVE FALSE
    OBVIOUS
  <2>1. PICK k \in bad : \A m \in bad : k <= m
    BY LeastNat
  <2>2. k # 0
    <3> SUFFICES ASSUME k = 0 PROVE FALSE
      OBVIOUS
    <3> DEFINE it == [s \in upto(0) |-> 0]
    <3>1. \A s \in upto(0) : s = {}
      <4> SUFFICES ASSUME NEW s \in upto(0) PROVE s = {}
        OBVIOUS
      <4>1. IsFiniteSet(s) /\ Cardinality(s) \in Nat /\ Cardinality(s) <= 0
        BY <1>1
      <4>2. Cardinality(s) = 0
        BY <4>1
      <4> QED BY <4>1, <4>2, FS_EmptySet
    <3>2. IsFold(it, f, upto(0))
      BY <3>1 DEF IsFold
    <3> QED BY <3>2
  <2>3. k \in Nat /\ k - 1 \in Nat /\ k - 1 \notin bad
    <3> HIDE DEF upto
    <3>1. k \in Nat
      OBVIOUS
    <3> HIDE DEF bad
    <3> QED BY <2>1, <2>2, <3>1
  <2>4. PICK g : IsFold(g, f, upto(k - 1))
    BY <2>3
  <2> DEFINE h == [s \in upto(k) |-> IF s = {} THEN 0 ELSE f[choice(s)] + g[s \ {choice(s)}]]
  <2>5. \A t \in upto(k - 1) : t \in upto(k) /\ h[t] = g[t]
    <3> SUFFICES ASSUME NEW t \in upto(k - 1) PROVE t \in upto(k) /\ h[t] = g[t]
      OBVIOUS
    <3>1. t \in upto(k)
      <4>1. t \in SUBSET S /\ Cardinality(t) <= k - 1 /\ Cardinality(t) \in Nat
        BY <1>1
      <4>2. Cardinality(t) <= k
        BY <2>3, <4>1
      <4> QED BY <4>1, <4>2
    <3>2. g[t] = IF t = {} THEN 0 ELSE f[choice(t)] + g[t \ {choice(t)}]
      BY <2>4 DEF IsFold
    <3> QED BY <3>1, <3>2
  <2>6. \A s \in upto(k) : s # {} => s \ {choice(s)} \in upto(k - 1)
    BY <1>1, <2>3
  <2>7. IsFold(h, f, upto(k))
    <3>1. \A s \in upto(k) : h[s] = IF s = {} THEN 0 ELSE f[choice(s)] + h[s \ {choice(s)}]
      BY <2>5, <2>6
    <3> HIDE DEF upto
    <3> QED BY <3>1 DEF IsFold
  <2> QED BY <2>7
<1>3. upto(Cardinality(S)) = SUBSET S
  BY <1>1
<1>4. \E it : IsFold(it, f, SUBSET S)
  BY <1>2, <1>3, FS_CardinalityType
<1> QED BY <1>4 DEF fold

\* Two folds agree on the subsets they share.
LEMMA FoldUnique ==
    ASSUME NEW f, NEW S, IsFiniteSet(S), NEW T \in SUBSET S
    PROVE  fold(f, S)[T] = fold(f, T)[T]
<1> DEFINE it == fold(f, S)
           jt == fold(f, T)
           bad == {n \in Nat : \E s \in SUBSET T : Cardinality(s) = n /\ it[s] # jt[s]}
<1>1. IsFiniteSet(T)
  BY FS_Subset
<1>2. IsFold(it, f, SUBSET S) /\ IsFold(jt, f, SUBSET T)
  BY <1>1, FoldExists
<1> HIDE DEF it, jt
<1>3. bad = {}
  <2> SUFFICES ASSUME bad # {} PROVE FALSE
    OBVIOUS
  <2>1. PICK n \in bad : \A m \in bad : n <= m
    BY LeastNat
  <2>2. PICK s \in SUBSET T : Cardinality(s) = n /\ it[s] # jt[s]
    BY <2>1
  <2>3. /\ it[s] = IF s = {} THEN 0 ELSE f[choice(s)] + it[s \ {choice(s)}]
        /\ jt[s] = IF s = {} THEN 0 ELSE f[choice(s)] + jt[s \ {choice(s)}]
    BY <1>2 DEF IsFold
  <2>4. s # {} /\ choice(s) \in s
    BY <2>2, <2>3 DEF choice
  <2>5. IsFiniteSet(s) /\ Cardinality(s \ {choice(s)}) = n - 1 /\ n - 1 \in Nat
    <3>1. IsFiniteSet(s)
      BY <1>1, FS_Subset
    <3> QED BY <2>2, <2>4, <3>1, OneLess
  <2>6. n - 1 \notin bad
    BY <2>1, <2>5
  <2>7. it[s \ {choice(s)}] = jt[s \ {choice(s)}]
    BY <2>5, <2>6
  <2> QED BY <2>2, <2>3, <2>7
<1>4. Cardinality(T) \in Nat
  BY <1>1, FS_CardinalityType
<1> QED BY <1>3, <1>4 DEF it, jt

\* The sum over nothing.
LEMMA SumEmpty == \A f : SumFunctionOnSet(f, {}) = 0
<1> TAKE f
<1>1. IsFold(fold(f, {}), f, SUBSET {})
  BY FoldExists, FS_EmptySet
<1> QED BY <1>1, SumIsFold DEF IsFold

\* The sum takes out one element.
LEMMA SumStep ==
    ASSUME NEW f, NEW S, IsFiniteSet(S), S # {}
    PROVE  /\ choice(S) \in S
           /\ SumFunctionOnSet(f, S) = f[choice(S)] + SumFunctionOnSet(f, S \ {choice(S)})
<1>1. choice(S) \in S
  BY DEF choice
<1>2. fold(f, S)[S] = f[choice(S)] + fold(f, S)[S \ {choice(S)}]
  <2> DEFINE it == fold(f, S)
  <2>1. IsFold(it, f, SUBSET S)
    BY FoldExists
  <2> HIDE DEF it
  <2>2. it[S] = IF S = {} THEN 0 ELSE f[choice(S)] + it[S \ {choice(S)}]
    BY <2>1 DEF IsFold
  <2> QED BY <2>2 DEF it
<1> QED BY <1>1, <1>2, FoldUnique, SumIsFold

\* A sum of integers is one, and a sum of natural numbers is a natural number.
LEMMA SumType ==
    ASSUME NEW f, NEW S, IsFiniteSet(S), \A x \in S : f[x] \in Int
    PROVE  /\ SumFunctionOnSet(f, S) \in Int
           /\ (\A x \in S : f[x] \in Nat) => SumFunctionOnSet(f, S) \in Nat
<1> DEFINE sum(s) == SumFunctionOnSet(f, s)
           Good(s) == sum(s) \in Int /\ ((\A x \in S : f[x] \in Nat) => sum(s) \in Nat)
           bad == {n \in Nat : \E s \in SUBSET S : Cardinality(s) = n /\ ~Good(s)}
<1>1. bad = {}
  <2> SUFFICES ASSUME bad # {} PROVE FALSE
    OBVIOUS
  <2>1. PICK n \in bad : \A m \in bad : n <= m
    BY LeastNat
  <2>2. PICK s \in SUBSET S : Cardinality(s) = n /\ ~Good(s)
    BY <2>1
  <2> HIDE DEF Good
  <2>3. s # {}
    BY <2>2, SumEmpty DEF Good
  <2>4. IsFiniteSet(s)
    BY FS_Subset
  <2> DEFINE x == choice(s)
  <2>5. x \in s /\ sum(s) = f[x] + sum(s \ {x})
    BY <2>3, <2>4, SumStep
  <2> HIDE DEF x
  <2>6. Cardinality(s \ {x}) = n - 1 /\ n - 1 \in Nat
    BY <2>2, <2>4, <2>5, OneLess
  <2>7. Good(s \ {x})
    <3>1. n - 1 \notin bad
      BY <2>1, <2>6
    <3> QED BY <2>6, <3>1
  <2> HIDE DEF sum
  <2> QED BY <2>2, <2>5, <2>7 DEF Good
<1>2. Cardinality(S) \in Nat
  BY FS_CardinalityType
<1> QED BY <1>1, <1>2

\* Any element may be taken out of a sum.
LEMMA SumRemove ==
    ASSUME NEW f, NEW S, IsFiniteSet(S), \A x \in S : f[x] \in Int, NEW a \in S
    PROVE  SumFunctionOnSet(f, S) = f[a] + SumFunctionOnSet(f, S \ {a})
<1> DEFINE sum(s) == SumFunctionOnSet(f, s)
           Good(s) == \A x \in s : sum(s) = f[x] + sum(s \ {x})
           bad == {n \in Nat : \E s \in SUBSET S : Cardinality(s) = n /\ ~Good(s)}
<1>1. bad = {}
  <2> SUFFICES ASSUME bad # {} PROVE FALSE
    OBVIOUS
  <2>1. PICK n \in bad : \A m \in bad : n <= m
    BY LeastNat
  <2>2. PICK s \in SUBSET S : Cardinality(s) = n /\ ~Good(s)
    BY <2>1
  <2>3. PICK x \in s : sum(s) # f[x] + sum(s \ {x})
    BY <2>2
  <2> HIDE DEF Good
  <2>4. IsFiniteSet(s)
    BY FS_Subset
  <2> DEFINE c == choice(s)
             r == (s \ {x}) \ {c}
  <2>5. c \in s /\ sum(s) = f[c] + sum(s \ {c})
    BY <2>4, SumStep
  <2> HIDE DEF c
  <2>6. c # x
    BY <2>3, <2>5
  <2>7. \A y \in s : /\ Cardinality(s \ {y}) = n - 1 /\ n - 1 \in Nat
                     /\ s \ {y} \in SUBSET S
    BY <2>2, <2>4, OneLess
  <2>8. Good(s \ {x}) /\ Good(s \ {c})
    <3>1. n - 1 \notin bad
      BY <2>1, <2>5, <2>7
    <3> QED BY <2>5, <2>7, <3>1
  <2>9. sum(s \ {x}) = f[c] + sum(r)
    BY <2>5, <2>6, <2>8 DEF Good
  <2>10. sum(s \ {c}) = f[x] + sum(r)
    <3>1. r = (s \ {c}) \ {x}
      OBVIOUS
    <3> HIDE DEF r
    <3> QED BY <2>6, <2>8, <3>1 DEF Good
  <2>11. f[x] \in Int /\ f[c] \in Int /\ sum(r) \in Int
    <3>1. IsFiniteSet(r) /\ \A y \in r : f[y] \in Int
      BY <2>4, FS_RemoveElement
    <3> QED BY <2>5, <3>1, SumType
  <2> HIDE DEF sum, r
  <2> QED BY <2>3, <2>5, <2>9, <2>10, <2>11
<1>2. Cardinality(S) \in Nat
  BY FS_CardinalityType
<1> QED BY <1>1, <1>2

\* A sum depends on the values in its range only.
LEMMA SumSame ==
    ASSUME NEW f, NEW g, NEW S, IsFiniteSet(S), \A x \in S : f[x] = g[x]
    PROVE  SumFunctionOnSet(f, S) = SumFunctionOnSet(g, S)
<1> DEFINE Good(s) == SumFunctionOnSet(f, s) = SumFunctionOnSet(g, s)
           bad == {n \in Nat : \E s \in SUBSET S : Cardinality(s) = n /\ ~Good(s)}
<1>1. bad = {}
  <2> SUFFICES ASSUME bad # {} PROVE FALSE
    OBVIOUS
  <2>1. PICK n \in bad : \A m \in bad : n <= m
    BY LeastNat
  <2>2. PICK s \in SUBSET S : Cardinality(s) = n /\ ~Good(s)
    BY <2>1
  <2> HIDE DEF Good
  <2>3. s # {}
    BY <2>2, SumEmpty DEF Good
  <2>4. IsFiniteSet(s)
    BY FS_Subset
  <2> DEFINE x == choice(s)
  <2>5. x \in s /\ SumFunctionOnSet(f, s) = f[x] + SumFunctionOnSet(f, s \ {x})
               /\ SumFunctionOnSet(g, s) = g[x] + SumFunctionOnSet(g, s \ {x})
    BY <2>3, <2>4, SumStep
  <2> HIDE DEF x
  <2>6. Cardinality(s \ {x}) = n - 1 /\ n - 1 \in Nat
    BY <2>2, <2>4, <2>5, OneLess
  <2>7. Good(s \ {x})
    <3>1. n - 1 \notin bad
      BY <2>1, <2>6
    <3> QED BY <2>6, <3>1
  <2> QED BY <2>2, <2>5, <2>7 DEF Good
<1>2. Cardinality(S) \in Nat
  BY FS_CardinalityType
<1> QED BY <1>1, <1>2

\* When one value changes, the sum changes by as much.
LEMMA SumChange ==
    ASSUME NEW f, NEW g, NEW S, IsFiniteSet(S), NEW a \in S,
           \A x \in S : f[x] \in Int /\ g[x] \in Int,
           \A x \in S \ {a} : f[x] = g[x]
    PROVE  SumFunctionOnSet(g, S) = SumFunctionOnSet(f, S) + (g[a] - f[a])
<1>1. SumFunctionOnSet(f, S) = f[a] + SumFunctionOnSet(f, S \ {a})
  BY SumRemove
<1>2. SumFunctionOnSet(g, S) = g[a] + SumFunctionOnSet(g, S \ {a})
  BY SumRemove
<1>3. IsFiniteSet(S \ {a})
  BY FS_RemoveElement
<1>4. SumFunctionOnSet(f, S \ {a}) = SumFunctionOnSet(g, S \ {a})
  BY <1>3, SumSame
<1>5. SumFunctionOnSet(f, S \ {a}) \in Int /\ f[a] \in Int /\ g[a] \in Int
  BY <1>3, SumType
<1> QED BY <1>1, <1>2, <1>4, <1>5

\* A part of a sum of natural numbers is at most the whole.
LEMMA SumAtLeast ==
    ASSUME NEW f, NEW S, IsFiniteSet(S), \A x \in S : f[x] \in Nat, NEW a \in S
    PROVE  f[a] <= SumFunctionOnSet(f, S)
<1>1. SumFunctionOnSet(f, S) = f[a] + SumFunctionOnSet(f, S \ {a})
  BY SumRemove
<1>2. IsFiniteSet(S \ {a})
  BY FS_RemoveElement
<1>3. SumFunctionOnSet(f, S \ {a}) \in Nat
  BY <1>2, SumType
<1> QED BY <1>1, <1>3

\* A sum of nothing but zeros.
LEMMA SumZero ==
    ASSUME NEW S, IsFiniteSet(S)
    PROVE  SumFunctionOnSet([x \in S |-> 0], S) = 0
<1> DEFINE z == [x \in S |-> 0]
           Good(s) == SumFunctionOnSet(z, s) = 0
           bad == {n \in Nat : \E s \in SUBSET S : Cardinality(s) = n /\ ~Good(s)}
<1>1. bad = {}
  <2> SUFFICES ASSUME bad # {} PROVE FALSE
    OBVIOUS
  <2>1. PICK n \in bad : \A m \in bad : n <= m
    BY LeastNat
  <2>2. PICK s \in SUBSET S : Cardinality(s) = n /\ ~Good(s)
    BY <2>1
  <2>3. s # {}
    BY <2>2, SumEmpty
  <2>4. IsFiniteSet(s)
    BY FS_Subset
  <2> DEFINE x == choice(s)
  <2>5. x \in s /\ SumFunctionOnSet(z, s) = z[x] + SumFunctionOnSet(z, s \ {x}) /\ z[x] = 0
    BY <2>3, <2>4, SumStep
  <2> HIDE DEF x
  <2>6. Cardinality(s \ {x}) = n - 1 /\ n - 1 \in Nat
    BY <2>2, <2>4, <2>5, OneLess
  <2> HIDE DEF z
  <2>7. SumFunctionOnSet(z, s \ {x}) = 0
    <3>1. n - 1 \notin bad
      BY <2>1, <2>6
    <3> QED BY <2>6, <3>1
  <2> QED BY <2>2, <2>5, <2>7
<1>2. Cardinality(S) \in Nat
  BY FS_CardinalityType
<1> QED BY <1>1, <1>2

\* The sum after one value of the function was replaced.
LEMMA SumUpdate ==
    ASSUME NEW S, IsFiniteSet(S), NEW f \in [S -> Int], NEW a \in S, NEW v \in Int
    PROVE  /\ SumFunctionOnSet([f EXCEPT ![a] = v], S) = SumFunctionOnSet(f, S) + (v - f[a])
           /\ SumFunctionOnSet(f, S) \in Int
<1> PICK g : g = [f EXCEPT ![a] = v]
  OBVIOUS
<1>1. /\ \A x \in S : f[x] \in Int /\ g[x] \in Int
      /\ \A x \in S \ {a} : f[x] = g[x]
      /\ g[a] = v
  OBVIOUS
<1>2. SumFunctionOnSet(g, S) = SumFunctionOnSet(f, S) + (g[a] - f[a])
  BY <1>1, SumChange
<1>3. SumFunctionOnSet(f, S) \in Int
  BY <1>1, SumType
<1> QED BY <1>1, <1>2, <1>3

\* A new element adds its value.
LEMMA SumAdd ==
    ASSUME NEW S, IsFiniteSet(S), NEW f, NEW g, NEW a, a \notin S, g[a] \in Int,
           \A x \in S : f[x] \in Int /\ g[x] = f[x]
    PROVE  /\ SumFunctionOnSet(g, S \cup {a}) = SumFunctionOnSet(f, S) + g[a]
           /\ SumFunctionOnSet(f, S) \in Int
<1>1. IsFiniteSet(S \cup {a}) /\ (S \cup {a}) \ {a} = S /\ a \in S \cup {a}
  BY FS_AddElement
<1>2. \A x \in S \cup {a} : g[x] \in Int
  OBVIOUS
<1>3. SumFunctionOnSet(g, S \cup {a}) = g[a] + SumFunctionOnSet(g, S)
  <2> DEFINE T == S \cup {a}
  <2>1. IsFiniteSet(T) /\ T \ {a} = S /\ a \in T /\ \A x \in T : g[x] \in Int
    BY <1>1, <1>2
  <2> HIDE DEF T
  <2>2. SumFunctionOnSet(g, T) = g[a] + SumFunctionOnSet(g, T \ {a})
    BY <2>1, SumRemove
  <2> QED BY <2>1, <2>2 DEF T
<1>4. SumFunctionOnSet(g, S) = SumFunctionOnSet(f, S)
  BY SumSame
<1>5. SumFunctionOnSet(f, S) \in Int
  BY SumType
<1> QED BY <1>3, <1>4, <1>5

\* An element that leaves takes its value along.
LEMMA SumDrop ==
    ASSUME NEW S, IsFiniteSet(S), NEW f, NEW g, NEW a \in S,
           \A x \in S : f[x] \in Int, \A x \in S \ {a} : g[x] = f[x]
    PROVE  /\ SumFunctionOnSet(g, S \ {a}) = SumFunctionOnSet(f, S) - f[a]
           /\ SumFunctionOnSet(f, S) \in Int
<1>1. IsFiniteSet(S \ {a})
  BY FS_RemoveElement
<1>2. SumFunctionOnSet(f, S) = f[a] + SumFunctionOnSet(f, S \ {a})
  BY SumRemove
<1>3. SumFunctionOnSet(f, S \ {a}) \in Int
  BY <1>1, SumType
<1>4. SumFunctionOnSet(g, S \ {a}) = SumFunctionOnSet(f, S \ {a})
  <2> DEFINE T == S \ {a}
  <2>1. IsFiniteSet(T) /\ \A x \in T : g[x] = f[x]
    BY <1>1
  <2> HIDE DEF T
  <2>2. SumFunctionOnSet(g, T) = SumFunctionOnSet(f, T)
    BY <2>1, SumSame
  <2> QED BY <2>2 DEF T
<1> QED BY <1>2, <1>3, <1>4


\* Induction on the subsets of a finite set: one that holds {} and every set that lacks one of
\* its elements only holds the whole.
LEMMA SetInduct ==
    ASSUME NEW S, IsFiniteSet(S), NEW T, {} \in T,
           \A s \in SUBSET S : s # {} /\ s \ {choice(s)} \in T => s \in T
    PROVE  S \in T
<1> DEFINE bad == {n \in Nat : \E s \in SUBSET S : Cardinality(s) = n /\ s \notin T}
<1>1. bad = {}
  <2> SUFFICES ASSUME bad # {} PROVE FALSE
    OBVIOUS
  <2>1. PICK n \in bad : \A m \in bad : n <= m
    BY LeastNat
  <2>2. PICK s \in SUBSET S : Cardinality(s) = n /\ s \notin T
    BY <2>1
  <2>3. s # {}
    BY <2>2
  <2>4. IsFiniteSet(s)
    BY FS_Subset
  <2> DEFINE x == choice(s)
  <2>5. x \in s
    BY <2>3, <2>4, SumStep
  <2>6. Cardinality(s \ {x}) = n - 1 /\ n - 1 \in Nat
    BY <2>2, <2>4, <2>5, OneLess
  <2>7. n - 1 \notin bad
    BY <2>1, <2>6
  <2>8. s \ {x} \in T
    BY <2>6, <2>7
  <2> QED BY <2>2, <2>3, <2>8
<1>2. Cardinality(S) \in Nat
  BY FS_CardinalityType
<1> QED BY <1>1, <1>2

\* Smaller values, smaller sum.
LEMMA SumAtMost ==
    ASSUME NEW S, IsFiniteSet(S), NEW f, NEW g,
           \A x \in S : f[x] \in Int /\ g[x] \in Int /\ f[x] <= g[x]
    PROVE  SumFunctionOnSet(f, S) <= SumFunctionOnSet(g, S)
<1> DEFINE T == {s \in SUBSET S : SumFunctionOnSet(f, s) <= SumFunctionOnSet(g, s)}
<1>1. {} \in T
  BY SumEmpty
<1>2. ASSUME NEW s \in SUBSET S, s # {}, s \ {choice(s)} \in T PROVE s \in T
  <2> DEFINE x == choice(s)
  <2>1. IsFiniteSet(s) /\ IsFiniteSet(s \ {x})
    BY FS_Subset
  <2>2. /\ x \in s /\ SumFunctionOnSet(f, s) = f[x] + SumFunctionOnSet(f, s \ {x})
        /\ SumFunctionOnSet(g, s) = g[x] + SumFunctionOnSet(g, s \ {x})
    BY <1>2, <2>1, SumStep
  <2>3. SumFunctionOnSet(f, s \ {x}) <= SumFunctionOnSet(g, s \ {x})
    BY <1>2
  <2> HIDE DEF x
  <2>4. SumFunctionOnSet(f, s \ {x}) \in Int /\ SumFunctionOnSet(g, s \ {x}) \in Int
    BY <2>1, SumType
  <2> QED BY <2>2, <2>3, <2>4
<1> HIDE DEF T
<1>3. S \in T
  BY <1>1, <1>2, SetInduct
<1> QED BY <1>3 DEF T

\* A common factor.
LEMMA SumScaled ==
    ASSUME NEW S, IsFiniteSet(S), NEW c \in Int, NEW f, NEW g,
           \A x \in S : f[x] \in Int /\ g[x] = c * f[x]
    PROVE  SumFunctionOnSet(g, S) = c * SumFunctionOnSet(f, S)
<1> DEFINE T == {s \in SUBSET S : SumFunctionOnSet(g, s) = c * SumFunctionOnSet(f, s)}
<1>1. {} \in T
  BY SumEmpty
<1>2. ASSUME NEW s \in SUBSET S, s # {}, s \ {choice(s)} \in T PROVE s \in T
  <2> DEFINE x == choice(s)
  <2>1. IsFiniteSet(s) /\ IsFiniteSet(s \ {x})
    BY FS_Subset
  <2>2. /\ x \in s /\ SumFunctionOnSet(f, s) = f[x] + SumFunctionOnSet(f, s \ {x})
        /\ SumFunctionOnSet(g, s) = g[x] + SumFunctionOnSet(g, s \ {x})
    BY <1>2, <2>1, SumStep
  <2>3. SumFunctionOnSet(g, s \ {x}) = c * SumFunctionOnSet(f, s \ {x})
    BY <1>2
  <2> HIDE DEF x
  <2>4. SumFunctionOnSet(f, s \ {x}) \in Int /\ f[x] \in Int /\ g[x] = c * f[x]
    BY <2>1, <2>2, SumType
  <2> PICK u \in Int, v \in Int : u = f[x] /\ v = SumFunctionOnSet(f, s \ {x})
    BY <2>4
  <2>5. c * (u + v) = c * u + c * v
    OBVIOUS
  <2> QED BY <2>2, <2>3, <2>4, <2>5
<1> HIDE DEF T
<1>3. S \in T
  BY <1>1, <1>2, SetInduct
<1> QED BY <1>3 DEF T

\* One more for each element.
LEMMA SumPlusOnes ==
    ASSUME NEW S, IsFiniteSet(S), NEW f, NEW g,
           \A x \in S : f[x] \in Int /\ g[x] = f[x] + 1
    PROVE  SumFunctionOnSet(g, S) = SumFunctionOnSet(f, S) + Cardinality(S)
<1> DEFINE T == {s \in SUBSET S : SumFunctionOnSet(g, s) = SumFunctionOnSet(f, s) + Cardinality(s)}
<1>1. {} \in T
  BY SumEmpty, FS_EmptySet
<1>2. ASSUME NEW s \in SUBSET S, s # {}, s \ {choice(s)} \in T PROVE s \in T
  <2> DEFINE x == choice(s)
  <2>1. IsFiniteSet(s) /\ IsFiniteSet(s \ {x})
    BY FS_Subset
  <2>2. /\ x \in s /\ SumFunctionOnSet(f, s) = f[x] + SumFunctionOnSet(f, s \ {x})
        /\ SumFunctionOnSet(g, s) = g[x] + SumFunctionOnSet(g, s \ {x})
    BY <1>2, <2>1, SumStep
  <2>3. SumFunctionOnSet(g, s \ {x}) = SumFunctionOnSet(f, s \ {x}) + Cardinality(s \ {x})
    BY <1>2
  <2> HIDE DEF x
  <2>4. SumFunctionOnSet(f, s \ {x}) \in Int /\ f[x] \in Int /\ g[x] = f[x] + 1
    BY <2>1, <2>2, SumType
  <2>5. Cardinality(s \ {x}) = Cardinality(s) - 1
    BY <2>1, <2>2, OneLess
  <2>6. Cardinality(s) \in Nat
    BY <2>1, FS_CardinalityType
  <2> QED BY <2>2, <2>3, <2>4, <2>5, <2>6
<1> HIDE DEF T
<1>3. S \in T
  BY <1>1, <1>2, SetInduct
<1> QED BY <1>3 DEF T

\* A sum is that of a part and that of the rest.
LEMMA SumSplit ==
    ASSUME NEW S, IsFiniteSet(S), NEW f, \A x \in S : f[x] \in Int, NEW P \in SUBSET S
    PROVE  /\ SumFunctionOnSet(f, S) = SumFunctionOnSet(f, P) + SumFunctionOnSet(f, S \ P)
           /\ SumFunctionOnSet(f, P) \in Int /\ SumFunctionOnSet(f, S \ P) \in Int
<1> DEFINE T == {s \in SUBSET P : SumFunctionOnSet(f, S) =
                   SumFunctionOnSet(f, s) + SumFunctionOnSet(f, S \ s)}
<1>1. {} \in T
  <2>1. SumFunctionOnSet(f, S) \in Int
    BY SumType
  <2> QED BY <2>1, SumEmpty
<1>2. ASSUME NEW s \in SUBSET P, s # {}, s \ {choice(s)} \in T PROVE s \in T
  <2>1. IsFiniteSet(s)
    BY FS_Subset
  <2>2. PICK x : x = choice(s) /\ x \in s /\ SumFunctionOnSet(f, s) = f[x] + SumFunctionOnSet(f, s \ {x})
    BY <1>2, <2>1, SumStep
  <2>3. SumFunctionOnSet(f, S) = SumFunctionOnSet(f, s \ {x}) + SumFunctionOnSet(f, S \ (s \ {x}))
    BY <1>2, <2>2
  <2>4. PICK R : R = S \ (s \ {x})
    OBVIOUS
  <2>5. IsFiniteSet(R) /\ R \subseteq S /\ x \in R /\ R \ {x} = S \ s
    <3>1. R \subseteq S
      BY <2>4
    <3> QED BY <2>2, <2>4, <3>1, FS_Subset
  <2>6. SumFunctionOnSet(f, R) = f[x] + SumFunctionOnSet(f, R \ {x})
    BY <2>5, SumRemove
  <2>7. IsFiniteSet(s \ {x}) /\ IsFiniteSet(S \ s)
    BY FS_Subset
  <2>8. SumFunctionOnSet(f, s \ {x}) \in Int /\ SumFunctionOnSet(f, S \ s) \in Int /\ f[x] \in Int
    BY <2>2, <2>7, SumType
  <2>9. SumFunctionOnSet(f, S) = SumFunctionOnSet(f, s) + SumFunctionOnSet(f, S \ s)
    <3>1. SumFunctionOnSet(f, S) = SumFunctionOnSet(f, s \ {x}) + SumFunctionOnSet(f, R)
      BY <2>3, <2>4
    <3>2. SumFunctionOnSet(f, R) = f[x] + SumFunctionOnSet(f, S \ s)
      BY <2>5, <2>6
    <3> QED BY <2>2, <2>8, <3>1, <3>2
  <2> QED BY <2>9
<1>4. IsFiniteSet(P) /\ IsFiniteSet(S \ P)
  BY FS_Subset
<1> HIDE DEF T
<1>3. P \in T
  BY <1>1, <1>2, <1>4, SetInduct
<1> QED BY <1>3, <1>4, SumType DEF T

-----------------------------------------------------------------------------
(* Quotients, and sums over intervals and sequences. *)

\* Dividing by a positive number rounds down.
LEMMA DivBounds ==
  ASSUME NEW a \in Nat, NEW d \in Nat \ {0}
  PROVE  a \div d \in Nat /\ d * (a \div d) <= a /\ a < d * ((a \div d) + 1)
OBVIOUS

\* Division by a positive number is monotone.
LEMMA DivMonotone ==
  ASSUME NEW a \in Nat, NEW b \in Nat, a <= b, NEW d \in Nat \ {0}
  PROVE  a \div d <= b \div d
<1> PICK p, q : p = a \div d /\ q = b \div d
  OBVIOUS
<1>1. p \in Nat /\ q \in Nat /\ d * p <= a /\ b < d * (q + 1)
  OBVIOUS
<1>2. ASSUME q + 1 <= p PROVE FALSE
  <2>1. PICK k \in Nat : p = (q + 1) + k
    <3>1. p - (q + 1) \in Nat
      BY <1>1, <1>2
    <3> QED BY <1>1, <3>1
  <2>2. d * p = d * (q + 1) + d * k
    BY <1>1, <2>1
  <2>3. d * k \in Nat /\ d * (q + 1) \in Nat
    BY <1>1, <2>1
  <2> QED BY <1>1, <2>2, <2>3
<1> QED BY <1>1, <1>2

\* A part of an amount, in the proportion of two times, is at most the amount.
LEMMA ShareAtMost ==
  ASSUME NEW a \in Nat, NEW x \in Nat, NEW d \in Nat \ {0}, x <= d
  PROVE  (a * x) \div d \in Nat /\ (a * x) \div d <= a /\ ((a * x) \div d) * d <= a * x
<1> PICK m \in Nat, n \in Nat : m = a * x /\ n = a * d
  OBVIOUS
<1>1. PICK k \in Nat : d = x + k
  <2>1. d - x \in Nat
    OBVIOUS
  <2> QED BY <2>1
<1>2. n = m + a * k /\ a * k \in Nat
  BY <1>1
<1>3. m <= n
  BY <1>2
<1>4. m \div d <= n \div d
  BY <1>3, DivMonotone
<1>5. n \div d = a
  <2>1. /\ n \div d \in Nat /\ d * (n \div d) <= n /\ n < d * ((n \div d) + 1)
    BY DivBounds
  <2> PICK q \in Nat : q = n \div d
    BY <2>1
  <2>2. ASSUME q + 1 <= a PROVE FALSE
    <3>1. PICK j \in Nat : a = q + 1 + j
      <4>1. a - (q + 1) \in Nat
        BY <2>2
      <4> QED BY <4>1
    <3>2. n = d * (q + 1) + d * j /\ d * j \in Nat
      BY <3>1
    <3>3. d * (q + 1) \in Nat
      OBVIOUS
    <3> QED BY <2>1, <3>2, <3>3
  <2>3. ASSUME a + 1 <= q PROVE FALSE
    <3>1. PICK j \in Nat : q = a + 1 + j
      <4>1. q - (a + 1) \in Nat
        BY <2>3
      <4> QED BY <4>1
    <3>2. d * q = n + d + d * j /\ d * j \in Nat
      BY <3>1
    <3> QED BY <2>1, <3>2
  <2> QED BY <2>2, <2>3
<1>6. m \div d \in Nat /\ d * (m \div d) <= m
  BY DivBounds
<1>7. (m \div d) * d = d * (m \div d)
  BY <1>6
<1> QED BY <1>4, <1>5, <1>6, <1>7

\* Amounts in proportion to a time grow with the time.
LEMMA ShareGrows ==
  ASSUME NEW a \in Nat, NEW x \in Nat, NEW y \in Nat, x <= y, NEW d \in Nat \ {0}
  PROVE  (a * x) \div d <= (a * y) \div d
<1> PICK m \in Nat, n \in Nat : m = a * x /\ n = a * y
  OBVIOUS
<1>1. PICK k \in Nat : y = x + k
  <2>1. y - x \in Nat
    OBVIOUS
  <2> QED BY <2>1
<1>2. n = m + a * k /\ a * k \in Nat
  BY <1>1
<1> QED BY <1>2, DivMonotone

\* Sums over an interval grow at its end.
LEMMA SumExtends ==
  ASSUME NEW m \in Int, NEW n \in Int, m <= n + 1,
         NEW f, NEW g, \A i \in m .. n : f[i] \in Int /\ g[i] = f[i], g[n + 1] \in Int
  PROVE  /\ SumFunctionOnSet(g, m .. n + 1) = SumFunctionOnSet(f, m .. n) + g[n + 1]
         /\ SumFunctionOnSet(f, m .. n) \in Int
<1>1. IsFiniteSet(m .. n) /\ n + 1 \notin m .. n
  BY FS_Interval
<1>2. m .. n + 1 = (m .. n) \cup {n + 1}
  OBVIOUS
<1>3. /\ SumFunctionOnSet(g, (m .. n) \cup {n + 1}) = SumFunctionOnSet(f, m .. n) + g[n + 1]
      /\ SumFunctionOnSet(f, m .. n) \in Int
  BY <1>1, SumAdd
<1> QED BY <1>2, <1>3

\* The sum of the values from 1 to n + 1.
LEMMA SumNext ==
  ASSUME NEW n \in Nat, NEW f, NEW g, \A i \in 1 .. n : f[i] \in Int /\ g[i] = f[i], g[n + 1] \in Int
  PROVE  /\ SumFunctionOnSet(g, 1 .. n + 1) = SumFunctionOnSet(f, 1 .. n) + g[n + 1]
         /\ SumFunctionOnSet(f, 1 .. n) \in Int
<1>1. 1 \in Int /\ n \in Int /\ 1 <= n + 1
  OBVIOUS
<1> QED BY <1>1, SumExtends

\* g sums what f does but for a.
LosesOne(S, f, g, a) ==
    /\ IsFiniteSet(S) /\ a \in S
    /\ \A x \in S : f[x] \in Int
    /\ \A x \in S \ {a} : g[x] = f[x]

\* The sum without one of its values.
LEMMA SumLoses ==
  ASSUME NEW S, NEW f, NEW g, NEW a, LosesOne(S, f, g, a)
  PROVE  /\ SumFunctionOnSet(g, S \ {a}) = SumFunctionOnSet(f, S) - f[a]
         /\ SumFunctionOnSet(f, S) \in Int
<1>1. /\ IsFiniteSet(S) /\ a \in S
      /\ \A x \in S : f[x] \in Int
      /\ \A x \in S \ {a} : g[x] = f[x]
  BY DEF LosesOne
<1>2. IsFiniteSet(S \ {a})
  BY <1>1, FS_RemoveElement
<1>3. SumFunctionOnSet(f, S) = f[a] + SumFunctionOnSet(f, S \ {a})
  BY <1>1, SumRemove
<1>4. SumFunctionOnSet(f, S \ {a}) \in Int
  BY <1>1, <1>2, SumType
<1>5. SumFunctionOnSet(g, S \ {a}) = SumFunctionOnSet(f, S \ {a})
  <2> DEFINE T == S \ {a}
  <2>1. IsFiniteSet(T) /\ \A x \in T : g[x] = f[x]
    BY <1>1, <1>2
  <2> HIDE DEF T
  <2>2. SumFunctionOnSet(g, T) = SumFunctionOnSet(f, T)
    BY <2>1, SumSame
  <2> QED BY <2>2 DEF T
<1> QED BY <1>1, <1>3, <1>4, <1>5

\* A sequence that grows by one entry.
LEMMA Appended ==
  ASSUME NEW S, NEW s \in Seq(S), NEW e \in S, NEW t, t = Append(s, e)
  PROVE  /\ t \in Seq(S) /\ Len(s) \in Nat /\ Len(t) = Len(s) + 1
         /\ DOMAIN s = 1 .. Len(s) /\ DOMAIN t = 1 .. Len(s) + 1
         /\ \A i \in 1 .. Len(s) : t[i] = s[i] /\ s[i] \in S
         /\ t[Len(s) + 1] = e
OBVIOUS
=============================================================================
