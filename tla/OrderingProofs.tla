--------------------------- MODULE OrderingProofs ---------------------------
(***************************************************************************)
(* What the operators of Ordering return.  Induction over data is done by  *)
(* least counterexamples.                                                  *)
(***************************************************************************)
EXTENDS Ordering, Integers, FiniteSetTheorems, WellFoundedInduction, TLAPS

(* A set of numbers has a least one.                                       *)
LEMMA LeastNumber ==
    ASSUME NEW T, T \subseteq Nat, T # {}
    PROVE  \E n \in T : \A m \in T : n <= m
<1>1. PICK n \in T : \A m \in T : ~(<<m, n>> \in OpToRel(<, Nat))
  BY NatLessThanWellFounded, WFMin
<1>2. \A m \in T : <<m, n>> \in Nat \X Nat
  OBVIOUS
<1>3. ASSUME NEW m \in T PROVE n <= m
  <2>1. m \in Nat /\ n \in Nat /\ ~(m < n)
    BY <1>1, <1>2 DEF OpToRel
  <2> QED BY <2>1
<1> QED BY <1>3

\* before orders I strictly and totally.
Orders(before, I) ==
    /\ \A i \in I : <<i, i>> \notin before
    /\ \A i, j \in I : i = j \/ <<i, j>> \in before \/ <<j, i>> \in before
    /\ \A i, j, k \in I : <<i, j>> \in before /\ <<j, k>> \in before => <<i, k>> \in before

\* How many are before i.
Ahead(I, before, i) == Cardinality({j \in I : <<j, i>> \in before})

(* More are ahead of what comes later, and never all.                      *)
LEMMA AheadGrows ==
    ASSUME NEW I, IsFiniteSet(I), NEW before, Orders(before, I)
    PROVE  /\ Cardinality(I) \in Nat
           /\ \A i \in I : Ahead(I, before, i) \in 0..(Cardinality(I) - 1)
           /\ \A i, j \in I : <<i, j>> \in before => Ahead(I, before, i) < Ahead(I, before, j)
<1> DEFINE A(i) == {j \in I : <<j, i>> \in before}
<1>0. Cardinality(I) \in Nat
  BY FS_CardinalityType
<1>1. ASSUME NEW i \in I PROVE IsFiniteSet(A(i)) /\ Cardinality(A(i)) \in Nat
  <2>1. A(i) \in SUBSET I
    OBVIOUS
  <2> HIDE DEF A
  <2> QED BY <2>1, FS_Subset, FS_CardinalityType
<1>2. ASSUME NEW i \in I PROVE Cardinality(A(i)) < Cardinality(I)
  <2>1. A(i) \in SUBSET I /\ A(i) # I
    BY DEF Orders
  <2> HIDE DEF A
  <2>2. Cardinality(A(i)) <= Cardinality(I) /\ Cardinality(A(i)) # Cardinality(I)
    BY <2>1, FS_Subset
  <2> QED BY <1>0, <1>1, <2>2
<1>3. ASSUME NEW i \in I, NEW j \in I, <<i, j>> \in before PROVE Cardinality(A(i)) < Cardinality(A(j))
  <2>1. A(i) \in SUBSET A(j) /\ A(i) # A(j)
    BY <1>3 DEF Orders
  <2> HIDE DEF A
  <2>2. Cardinality(A(i)) <= Cardinality(A(j)) /\ Cardinality(A(i)) # Cardinality(A(j))
    BY <1>1, <2>1, FS_Subset
  <2> QED BY <1>1, <2>2
<1>4. \A i \in I : Ahead(I, before, i) = Cardinality(A(i))
  BY DEF Ahead
<1>5. \A i \in I : Ahead(I, before, i) \in 0..(Cardinality(I) - 1)
  <2> HIDE DEF A
  <2> QED BY <1>0, <1>1, <1>2, <1>4
<1>6. \A i, j \in I : <<i, j>> \in before => Ahead(I, before, i) < Ahead(I, before, j)
  <2> HIDE DEF A
  <2> QED BY <1>3, <1>4
<1> QED BY <1>0, <1>5, <1>6

(* Every place is taken: InOrder enumerates I, each element once and in    *)
(* order.                                                                  *)
LEMMA InOrderEnumerates ==
    ASSUME NEW I, IsFiniteSet(I), NEW before, Orders(before, I)
    PROVE  LET f == InOrder(I, before)  n == Cardinality(I) IN
           /\ n \in Nat
           /\ f = [k \in 1..n |-> f[k]]
           /\ \A k \in 1..n : f[k] \in I
           /\ \A k, l \in 1..n : k < l => <<f[k], f[l]>> \in before /\ f[k] # f[l]
           /\ \A i \in I : \E k \in 1..n : f[k] = i
<1> DEFINE n == Cardinality(I)
           r == [i \in I |-> Ahead(I, before, i) + 1]
           f == InOrder(I, before)
<1>1. /\ n \in Nat
      /\ \A i \in I : Ahead(I, before, i) \in 0..(n - 1)
      /\ \A i, j \in I : <<i, j>> \in before => Ahead(I, before, i) < Ahead(I, before, j)
  BY AheadGrows
<1>2. r \in Injection(I, 1..n)
  <2>1. ASSUME NEW i \in I PROVE r[i] \in 1..n
    <3>1. PICK a : a = Ahead(I, before, i)
      OBVIOUS
    <3>2. a \in 0..(n - 1) /\ r[i] = a + 1
      BY <1>1, <3>1
    <3> HIDE DEF n, r
    <3> QED BY <1>1, <3>2
  <2>2. ASSUME NEW i \in I, NEW j \in I, r[i] = r[j] PROVE i = j
    <3>1. PICK a, b : a = Ahead(I, before, i) /\ b = Ahead(I, before, j)
      OBVIOUS
    <3>2. a \in Int /\ b \in Int /\ a + 1 = b + 1 /\ (<<i, j>> \in before => a < b) /\ (<<j, i>> \in before => b < a)
      BY <1>1, <2>2, <3>1
    <3>3. <<i, j>> \notin before /\ <<j, i>> \notin before
      BY <3>2
    <3> QED BY <3>3 DEF Orders
  <2>3. r \in [I -> 1..n]
    BY <2>1
  <2> HIDE DEF r, n
  <2> QED BY <2>2, <2>3 DEF Injection, IsInjective
<1>3. r \in Surjection(I, 1..n)
  <2>1. IsFiniteSet(1..n) /\ Cardinality(1..n) = n
    <3> HIDE DEF n
    <3> QED BY <1>1, FS_Interval
  <2>2. Cardinality(I) = Cardinality(1..n)
    BY <2>1
  <2> HIDE DEF n, r
  <2> QED BY <1>2, <2>1, <2>2, FS_Injection
<1>4. ASSUME NEW k \in 1..n PROVE \E i \in I : Ahead(I, before, i) = k - 1
  <2>1. PICK i \in I : r[i] = k
    <3> HIDE DEF r, n
    <3> QED BY <1>3 DEF Surjection
  <2>2. PICK a : a = Ahead(I, before, i)
    OBVIOUS
  <2>3. a \in Int /\ a + 1 = k
    BY <1>1, <2>1, <2>2
  <2> QED BY <2>2, <2>3
<1>5. ASSUME NEW k \in 1..n PROVE f[k] \in I /\ Ahead(I, before, f[k]) = k - 1
  <2>1. f[k] = CHOOSE i \in I : Ahead(I, before, i) = k - 1
    BY DEF InOrder, Ahead
  <2> HIDE DEF f
  <2> QED BY <1>4, <2>1
<1>6. f = [k \in 1..n |-> f[k]]
  <2> DEFINE e(k) == CHOOSE i \in I : Cardinality({j \in I : <<j, i>> \in before}) = k - 1
  <2>1. f = [k \in 1..n |-> e(k)]
    BY DEF InOrder
  <2> HIDE DEF e, f, n
  <2> QED BY <2>1
<1> HIDE DEF f, n
<1>7. ASSUME NEW k \in 1..n, NEW l \in 1..n, k < l PROVE <<f[k], f[l]>> \in before /\ f[k] # f[l]
  <2>1. f[k] # f[l]
    BY <1>5, <1>7, <1>1
  <2>2. ~(<<f[l], f[k]>> \in before)
    BY <1>1, <1>5, <1>7
  <2> QED BY <1>5, <2>1, <2>2 DEF Orders
<1>8. ASSUME NEW i \in I PROVE \E k \in 1..n : f[k] = i
  <2>1. PICK k : k = Ahead(I, before, i) + 1
    OBVIOUS
  <2>2. k \in 1..n /\ Ahead(I, before, f[k]) = Ahead(I, before, i)
    <3>1. k \in 1..n
      BY <1>1, <2>1
    <3>2. Ahead(I, before, f[k]) = k - 1
      BY <1>5, <3>1
    <3> QED BY <1>1, <2>1, <3>1, <3>2
  <2>3. f[k] \in I /\ <<f[k], i>> \notin before /\ <<i, f[k]>> \notin before
    BY <1>1, <1>5, <2>2
  <2>4. f[k] = i
    BY <2>3 DEF Orders
  <2> QED BY <2>2, <2>4
<1> QED BY <1>1, <1>5, <1>6, <1>7, <1>8 DEF f, n

(* Numbers in ascending order.                                             *)
LEMMA AscendingEnumerates ==
    ASSUME NEW I, IsFiniteSet(I), I \subseteq Int
    PROVE  LET f == Ascending(I)  n == Cardinality(I) IN
           /\ n \in Nat
           /\ f = [k \in 1..n |-> f[k]]
           /\ \A k \in 1..n : f[k] \in I
           /\ \A k, l \in 1..n : k < l => f[k] < f[l]
           /\ \A i \in I : \E k \in 1..n : f[k] = i
<1> DEFINE before == {e \in I \X I : e[1] < e[2]}
<1>1. \A i, j \in I : <<i, j>> \in before <=> i < j
  OBVIOUS
<1> HIDE DEF before
<1>2. Orders(before, I)
  BY <1>1 DEF Orders
<1>3. Ascending(I) = InOrder(I, before)
  BY DEF Ascending, before
<1> DEFINE f == InOrder(I, before)
           n == Cardinality(I)
<1>4. /\ n \in Nat
      /\ f = [k \in 1..n |-> f[k]]
      /\ \A k \in 1..n : f[k] \in I
      /\ \A k, l \in 1..n : k < l => <<f[k], f[l]>> \in before
      /\ \A i \in I : \E k \in 1..n : f[k] = i
  BY <1>2, InOrderEnumerates
<1> HIDE DEF f, n
<1>5. \A k, l \in 1..n : k < l => f[k] < f[l]
  BY <1>1, <1>4
<1> QED BY <1>3, <1>4, <1>5 DEF f, n

(* What is kept of a sequence: the elements at the positions I, once each  *)
(* and in their order.                                                     *)
LEMMA KeptSelects ==
    ASSUME NEW S, NEW s \in Seq(S), NEW I, I \subseteq 1..Len(s)
    PROVE  /\ IsFiniteSet(I)
           /\ Kept(s, I) \in Seq(S) /\ Len(Kept(s, I)) = Cardinality(I) /\ Cardinality(I) <= Len(s)
           /\ Ascending(I) \in [1..Cardinality(I) -> I]
           /\ \A k \in 1..Cardinality(I) : Kept(s, I)[k] = s[Ascending(I)[k]]
           /\ \A k, l \in 1..Cardinality(I) : k < l => Ascending(I)[k] < Ascending(I)[l]
           /\ \A i \in I : \E k \in 1..Cardinality(I) : Ascending(I)[k] = i
<1> DEFINE n == Cardinality(I)
           at == Ascending(I)
<1>0. Len(s) \in Nat
  OBVIOUS
<1>1. IsFiniteSet(I) /\ n <= Len(s)
  <2>1. IsFiniteSet(1..Len(s)) /\ Cardinality(1..Len(s)) = Len(s)
    <3>1. PICK k \in Nat : k = Len(s)
      BY <1>0
    <3>2. IsFiniteSet(1..k) /\ Cardinality(1..k) = k
      BY FS_Interval
    <3> QED BY <3>1, <3>2
  <2> QED BY <2>1, FS_Subset
<1>2. /\ n \in Nat
      /\ at = [k \in 1..n |-> at[k]]
      /\ \A k \in 1..n : at[k] \in I
      /\ \A k, l \in 1..n : k < l => at[k] < at[l]
      /\ \A i \in I : \E k \in 1..n : at[k] = i
  BY <1>1, AscendingEnumerates
<1>3. Kept(s, I) = [k \in 1..n |-> s[at[k]]]
  BY DEF Kept
<1> HIDE DEF n, at
<1>4. at \in [1..n -> I]
  BY <1>2
<1>5. \A k \in 1..n : s[at[k]] \in S
  <2>1. \A i \in I : s[i] \in S
    OBVIOUS
  <2> QED BY <1>2, <2>1
<1>6. Kept(s, I) \in Seq(S) /\ Len(Kept(s, I)) = n
  <2>1. Kept(s, I) \in [1..n -> S]
    BY <1>3, <1>5
  <2>2. n \in Nat
    BY <1>2
  <2> QED BY <2>1, <2>2
<1>7. \A k \in 1..n : Kept(s, I)[k] = s[at[k]]
  BY <1>3
<1> QED BY <1>1, <1>2, <1>4, <1>6, <1>7 DEF n, at

(* At most b - a elements have from a to b - 1 others before them.         *)
LEMMA RanksBetween ==
    ASSUME NEW I, IsFiniteSet(I), NEW before, Orders(before, I), NEW a \in Nat, NEW b \in Nat, a <= b,
           NEW R, R \subseteq I, \A i \in R : Ahead(I, before, i) \in a..(b - 1)
    PROVE  IsFiniteSet(R) /\ Cardinality(R) \in Nat /\ Cardinality(R) <= b - a
<1> DEFINE f == [i \in R |-> Ahead(I, before, i)]
<1>1. \A i, j \in I : <<i, j>> \in before => Ahead(I, before, i) < Ahead(I, before, j)
  BY AheadGrows
<1>2. f \in [R -> a..(b - 1)]
  OBVIOUS
<1>3. ASSUME NEW i \in R, NEW j \in R, f[i] = f[j] PROVE i = j
  <2>1. PICK m \in Int, k \in Int : m = Ahead(I, before, i) /\ k = Ahead(I, before, j)
    OBVIOUS
  <2>2. i \in I /\ j \in I /\ ~(m < k) /\ ~(k < m)
    BY <1>3, <2>1
  <2>3. <<i, j>> \notin before /\ <<j, i>> \notin before
    BY <1>1, <2>1, <2>2
  <2> QED BY <2>2, <2>3 DEF Orders
<1>4. f \in Injection(R, a..(b - 1))
  <2> HIDE DEF f
  <2> QED BY <1>2, <1>3 DEF Injection, IsInjective
<1>5. IsFiniteSet(a..(b - 1)) /\ Cardinality(a..(b - 1)) = IF a > b - 1 THEN 0 ELSE b - 1 - a + 1
  BY FS_Interval
<1>6. IsFiniteSet(R) /\ Cardinality(R) <= Cardinality(a..(b - 1))
  <2> HIDE DEF f
  <2> QED BY <1>4, <1>5, FS_Injection
<1> QED BY <1>5, <1>6, FS_CardinalityType

(* Different names for different elements: as many names as elements.      *)
LEMMA NamesCounted ==
    ASSUME NEW I, IsFiniteSet(I), NEW f, \A i, j \in I : f[i] = f[j] => i = j
    PROVE  /\ IsFiniteSet({f[i] : i \in I}) /\ Cardinality({f[i] : i \in I}) = Cardinality(I)
           /\ Cardinality(I) \in Nat
<1> DEFINE T == {f[i] : i \in I}
           g == [i \in I |-> f[i]]
<1>1. g \in [I -> T] /\ \A i \in I : g[i] = f[i]
  OBVIOUS
<1>2. \A t \in T : \E i \in I : g[i] = t
  OBVIOUS
<1>3. g \in Surjection(I, T) /\ g \in Injection(I, T)
  <2> HIDE DEF g, T
  <2> QED BY <1>1, <1>2 DEF Surjection, Injection, IsInjective
<1> HIDE DEF g, T
<1>4. IsFiniteSet(T) /\ Cardinality(T) = Cardinality(I)
  BY <1>3, FS_Surjection, FS_Injection
<1> QED BY <1>4, FS_CardinalityType DEF T

\* s is t with its elements moved by p.
Moved(s, t, p, m) ==
    /\ p \in [1..m -> 1..m] /\ \A i, j \in 1..m : p[i] = p[j] => i = j
    /\ \A j \in 1..m : \E i \in 1..m : p[i] = j
    /\ \A i \in 1..m : s[i] = t[p[i]]

\* The places of s where there is at most x.
AtMost(s, m, x) == {j \in 1..m : s[j] <= x}

(* Counted in another order, as many are found.                            *)
LEMMA CountsAgree ==
    ASSUME NEW m \in Nat, NEW s, NEW t, NEW p, Moved(s, t, p, m), NEW x
    PROVE  Cardinality(AtMost(s, m, x)) = Cardinality(AtMost(t, m, x))
<1> DEFINE A == AtMost(s, m, x)
           B == AtMost(t, m, x)
           T == {p[i] : i \in A}
<1>1. IsFiniteSet(1..m)
  BY FS_Interval
<1>2. IsFiniteSet(A)
  BY <1>1, FS_Subset DEF AtMost
<1>3. T = B
  <2>1. ASSUME NEW i \in A PROVE p[i] \in B
    BY DEF Moved, AtMost
  <2>2. ASSUME NEW j \in B PROVE j \in T
    <3>1. PICK i \in 1..m : p[i] = j
      BY DEF Moved, AtMost
    <3>2. i \in A
      BY <3>1 DEF Moved, AtMost
    <3> QED BY <3>1, <3>2
  <2> HIDE DEF A, B
  <2> QED BY <2>1, <2>2
<1>4. \A i, j \in A : p[i] = p[j] => i = j
  BY DEF Moved, AtMost
<1> HIDE DEF A, B
<1>5. Cardinality(T) = Cardinality(A)
  BY <1>2, <1>4, NamesCounted
<1> QED BY <1>3, <1>5 DEF A, B

(* What is at place k of a sorted sequence is at most x exactly when at    *)
(* least k of its elements are.                                            *)
LEMMA SortedCounts ==
    ASSUME NEW m \in Nat, NEW s \in [1..m -> Nat]
    PROVE  /\ Sorted(s) \in [1..m -> Nat]
           /\ \A k, l \in 1..m : k <= l => Sorted(s)[k] <= Sorted(s)[l]
           /\ \A k \in 1..m : \A x \in Nat : Sorted(s)[k] <= x <=> k <= Cardinality(AtMost(s, m, x))
<1> DEFINE D == 1..m
           before == {e \in D \X D : s[e[1]] < s[e[2]] \/ (s[e[1]] = s[e[2]] /\ e[1] < e[2])}
           at == InOrder(D, before)
           r == [n \in D |-> s[at[n]]]
<1>1. s \in Seq(Nat) /\ Len(s) = m
  OBVIOUS
<1>2. Sorted(s) = r
  BY <1>1, Zenon DEF Sorted
<1>3. IsFiniteSet(D) /\ Cardinality(D) = m
  BY FS_Interval
<1>4. \A i, j \in D : <<i, j>> \in before <=> s[i] < s[j] \/ (s[i] = s[j] /\ i < j)
  OBVIOUS
<1>5. \A i \in D : s[i] \in Nat /\ i \in Nat
  OBVIOUS
<1> HIDE DEF before
<1>6. Orders(before, D)
  <2> HIDE DEF D
  <2> QED BY <1>4, <1>5, SMTT(40) DEF Orders
<1>7. /\ \A k \in 1..m : at[k] \in D
      /\ \A k, l \in 1..m : k < l => <<at[k], at[l]>> \in before /\ at[k] # at[l]
      /\ \A i \in D : \E k \in 1..m : at[k] = i
  <2> HIDE DEF D
  <2> QED BY <1>3, <1>6, InOrderEnumerates
<1> HIDE DEF at
<1>8. r \in [1..m -> Nat] /\ \A k \in 1..m : r[k] = s[at[k]] /\ r[k] \in Nat
  BY <1>7
<1> HIDE DEF r
<1>9. ASSUME NEW k \in 1..m, NEW l \in 1..m, k <= l PROVE r[k] <= r[l]
  <2>1. CASE k = l
    BY <1>8, <2>1
  <2>2. CASE k < l
    <3>1. s[at[k]] < s[at[l]] \/ s[at[k]] = s[at[l]]
      BY <1>4, <1>7, <2>2
    <3> QED BY <1>8, <3>1, SMTT(40)
  <2> QED BY <1>9, <2>1, <2>2
<1>10. ASSUME NEW k \in 1..m, NEW x \in Nat
       PROVE  r[k] <= x <=> k <= Cardinality(AtMost(s, m, x))
  <2> DEFINE L == {i \in 1..m : r[i] <= x}
             S == AtMost(s, m, x)
             T == {at[i] : i \in L}
  <2>1. IsFiniteSet(L) /\ Cardinality(L) \in Nat
    BY <1>3, FS_Subset, FS_CardinalityType
  <2>2. T = S
    <3>1. ASSUME NEW i \in L PROVE at[i] \in S
      BY <1>7, <1>8 DEF AtMost
    <3>2. ASSUME NEW j \in S PROVE j \in T
      <4>1. PICK i \in 1..m : at[i] = j
        BY <1>7 DEF AtMost
      <4>2. i \in L
        BY <1>8, <4>1 DEF AtMost
      <4> QED BY <4>1, <4>2
    <3> QED BY <3>1, <3>2
  <2>3. \A i, j \in L : at[i] = at[j] => i = j
    <3> SUFFICES ASSUME NEW i \in L, NEW j \in L, at[i] = at[j] PROVE i = j
      OBVIOUS
    <3>1. i \in 1..m /\ j \in 1..m
      OBVIOUS
    <3>2. ~(i < j) /\ ~(j < i)
      BY <1>7, <3>1
    <3> QED BY <3>1, <3>2
  <2>4. Cardinality(S) = Cardinality(L)
    <3>1. Cardinality(T) = Cardinality(L)
      <4> HIDE DEF L
      <4> QED BY <2>1, <2>3, NamesCounted
    <3> QED BY <2>2, <3>1
  <2>5. k \in Nat /\ IsFiniteSet(1..k) /\ Cardinality(1..k) = k
    BY FS_Interval
  <2>6. ASSUME r[k] <= x PROVE k <= Cardinality(L)
    <3>1. 1..k \subseteq L
      <4> SUFFICES ASSUME NEW i \in 1..k PROVE i \in L
        OBVIOUS
      <4>1. i \in 1..m /\ i <= k
        OBVIOUS
      <4>2. r[i] <= r[k] /\ r[i] \in Nat /\ r[k] \in Nat
        BY <1>8, <1>9, <4>1
      <4> QED BY <2>6, <4>1, <4>2
    <3> HIDE DEF L
    <3>2. Cardinality(1..k) <= Cardinality(L)
      BY <2>1, <3>1, FS_Subset
    <3> QED BY <2>5, <3>2
  <2>7. ASSUME ~(r[k] <= x) PROVE ~(k <= Cardinality(L))
    <3>1. L \subseteq (1..k) \ {k}
      <4> SUFFICES ASSUME NEW i \in L PROVE i \in (1..k) \ {k}
        OBVIOUS
      <4>1. i \in 1..m /\ r[i] <= x
        OBVIOUS
      <4>2. ~(k <= i)
        <5>1. k <= i => r[k] <= r[i]
          BY <1>9, <4>1
        <5>2. r[i] \in Nat /\ r[k] \in Nat
          BY <1>8, <4>1
        <5> QED BY <2>7, <4>1, <5>1, <5>2
      <4> QED BY <4>1, <4>2
    <3>2. IsFiniteSet((1..k) \ {k}) /\ Cardinality((1..k) \ {k}) = k - 1
      <4>1. /\ IsFiniteSet((1..k) \ {k})
            /\ Cardinality((1..k) \ {k}) = IF k \in 1..k THEN Cardinality(1..k) - 1 ELSE Cardinality(1..k)
        BY <2>5, FS_RemoveElement, Zenon
      <4>2. k \in 1..k
        OBVIOUS
      <4> QED BY <2>5, <4>1, <4>2
    <3> HIDE DEF L
    <3>3. Cardinality(L) <= Cardinality((1..k) \ {k})
      BY <3>1, <3>2, FS_Subset
    <3> QED BY <2>1, <2>5, <3>2, <3>3
  <2> HIDE DEF L
  <2> QED BY <2>4, <2>6, <2>7
<1> QED BY <1>2, <1>8, <1>9, <1>10

(* Sorting forgets the order of its input and nothing else.                *)
LEMMA SortedAlike ==
    ASSUME NEW m \in Nat, NEW s \in [1..m -> Nat], NEW t \in [1..m -> Nat], NEW p, Moved(s, t, p, m)
    PROVE  Sorted(s) = Sorted(t)
<1> DEFINE a == Sorted(s)
           b == Sorted(t)
<1>1. a \in [1..m -> Nat] /\ b \in [1..m -> Nat]
  BY SortedCounts
<1>2. ASSUME NEW k \in 1..m, NEW x \in Nat PROVE a[k] <= x <=> b[k] <= x
  <2>1. a[k] <= x <=> k <= Cardinality(AtMost(s, m, x))
    BY SortedCounts
  <2>2. b[k] <= x <=> k <= Cardinality(AtMost(t, m, x))
    BY SortedCounts
  <2>3. Cardinality(AtMost(s, m, x)) = Cardinality(AtMost(t, m, x))
    BY CountsAgree
  <2> QED BY <2>1, <2>2, <2>3
<1> HIDE DEF a, b
<1>3. ASSUME NEW k \in 1..m PROVE a[k] = b[k]
  <2>1. PICK u \in Nat : u = a[k]
    BY <1>1
  <2>2. PICK v \in Nat : v = b[k]
    BY <1>1
  <2>3. a[k] <= u <=> b[k] <= u
    BY <1>2
  <2>4. a[k] <= v <=> b[k] <= v
    BY <1>2
  <2> QED BY <2>1, <2>2, <2>3, <2>4
<1>4. a = b
  BY <1>1, <1>3
<1> QED BY <1>4 DEF a, b

(* There is no other way to enumerate I in order.                          *)
LEMMA InOrderUnique ==
    ASSUME NEW I, IsFiniteSet(I), NEW before, Orders(before, I), NEW m \in Nat, NEW f \in [1..m -> I],
           \A k, l \in 1..m : k < l => <<f[k], f[l]>> \in before,
           \A i \in I : \E k \in 1..m : f[k] = i
    PROVE  m = Cardinality(I) /\ InOrder(I, before) = f
<1> DEFINE g == InOrder(I, before)
           n == Cardinality(I)
<1>1. /\ n \in Nat /\ g = [k \in 1..n |-> g[k]]
      /\ \A k \in 1..n : g[k] \in I
      /\ \A k, l \in 1..n : k < l => <<g[k], g[l]>> \in before /\ g[k] # g[l]
  BY InOrderEnumerates
<1>2. \A k, l \in 1..m : f[k] = f[l] => k = l
  <2> SUFFICES ASSUME NEW k \in 1..m, NEW l \in 1..m, f[k] = f[l], k < l \/ l < k PROVE FALSE
    OBVIOUS
  <2>1. <<f[k], f[k]>> \in before
    OBVIOUS
  <2> QED BY <2>1 DEF Orders
<1>3. IsFiniteSet(1..m) /\ Cardinality(1..m) = m
  BY FS_Interval
<1>4. m = n
  <2>1. {f[k] : k \in 1..m} = I
    OBVIOUS
  <2> QED BY <1>2, <1>3, <2>1, NamesCounted
<1>5. ASSUME NEW k \in 1..m PROVE Ahead(I, before, f[k]) = k - 1
  <2> DEFINE P == 1..(k - 1)
  <2>1. P \subseteq 1..m /\ IsFiniteSet(P) /\ Cardinality(P) = k - 1
    <3>1. 1 \in Int /\ k - 1 \in Int /\ ~(1 > k) /\ k \in Nat
      OBVIOUS
    <3>2. IsFiniteSet(P) /\ Cardinality(P) = IF 1 > k - 1 THEN 0 ELSE (k - 1) - 1 + 1
      BY <3>1, FS_Interval
    <3> QED BY <3>1, <3>2
  <2>2. {j \in I : <<j, f[k]>> \in before} = {f[l] : l \in P}
    <3>1. ASSUME NEW l \in 1..m PROVE <<f[l], f[k]>> \in before <=> l \in P
      <4>1. CASE l < k
        BY <4>1
      <4>2. CASE l = k
        BY <4>2 DEF Orders
      <4>3. CASE l > k
        <5>1. <<f[k], f[l]>> \in before
          BY <4>3
        <5>2. <<f[l], f[k]>> \notin before
          BY <5>1 DEF Orders
        <5> QED BY <4>3, <5>2
      <4> QED BY <4>1, <4>2, <4>3
    <3> QED BY <2>1, <3>1
  <2>3. \A a, b \in P : f[a] = f[b] => a = b
    BY <1>2, <2>1
  <2>4. Cardinality({f[l] : l \in P}) = Cardinality(P)
    <3>1. IsFiniteSet(P)
      BY <2>1
    <3> HIDE DEF P
    <3> QED BY <2>3, <3>1, NamesCounted, SMTT(30)
  <2> QED BY <2>1, <2>2, <2>4 DEF Ahead
<1>6. ASSUME NEW k \in 1..m PROVE g[k] = f[k]
  <2>1. g[k] = CHOOSE i \in I : Ahead(I, before, i) = k - 1
    BY <1>4 DEF InOrder, Ahead
  <2>2. g[k] \in I /\ Ahead(I, before, g[k]) = k - 1
    <3> HIDE DEF g
    <3> QED BY <1>5, <2>1
  <2>3. PICK l \in 1..m : f[l] = g[k]
    BY <2>2
  <2>4. l - 1 = k - 1
    BY <1>5, <2>2, <2>3
  <2> QED BY <2>3, <2>4
<1> HIDE DEF g, n
<1> QED BY <1>1, <1>4, <1>6 DEF g, n

(* Nor of numbers.                                                         *)
LEMMA AscendingUnique ==
    ASSUME NEW I, IsFiniteSet(I), I \subseteq Int, NEW m \in Nat, NEW f \in [1..m -> I],
           \A k, l \in 1..m : k < l => f[k] < f[l],
           \A i \in I : \E k \in 1..m : f[k] = i
    PROVE  m = Cardinality(I) /\ Ascending(I) = f
<1> DEFINE before == {e \in I \X I : e[1] < e[2]}
<1>1. \A i, j \in I : <<i, j>> \in before <=> i < j
  OBVIOUS
<1>2. Ascending(I) = InOrder(I, before)
  BY DEF Ascending
<1> HIDE DEF before
<1>3. Orders(before, I)
  BY <1>1 DEF Orders
<1>4. \A k, l \in 1..m : k < l => <<f[k], f[l]>> \in before
  BY <1>1
<1>5. m = Cardinality(I) /\ InOrder(I, before) = f
  <2>1. IsFiniteSet(I) /\ \A i \in I : \E k \in 1..m : f[k] = i
    OBVIOUS
  <2> QED BY ONLY <1>3, <1>4, <2>1, m \in Nat, f \in [1..m -> I], InOrderUnique, ZenonT(30)
<1> QED BY <1>2, <1>5

\* p takes the elements of t at J to those of s at I, in order.
Takes(p, t, J, s, I) ==
    /\ \A j \in J : p[j] \in I /\ s[p[j]] = t[j]
    /\ \A i, j \in J : i < j => p[i] < p[j]
    /\ \A i \in I : \E j \in J : p[j] = i

(* Then keeping J of t is keeping I of s.                                  *)
LEMMA KeptThrough ==
    ASSUME NEW S, NEW s \in Seq(S), NEW t \in Seq(S), NEW I \in SUBSET (1..Len(s)), NEW J \in SUBSET (1..Len(t)),
           NEW p, Takes(p, t, J, s, I)
    PROVE  Kept(t, J) = Kept(s, I)
<1>0. /\ \A j \in J : p[j] \in I /\ s[p[j]] = t[j]
      /\ \A i, j \in J : i < j => p[i] < p[j]
      /\ \A i \in I : \E j \in J : p[j] = i
  BY DEF Takes
<1> DEFINE b == Ascending(J)
           c == Cardinality(J)
           f == [m \in 1..c |-> p[b[m]]]
<1>1. IsFiniteSet(J) /\ b \in [1..c -> J]
  BY KeptSelects
<1>2. \A m, n \in 1..c : m < n => b[m] < b[n]
  BY KeptSelects
<1>3. \A i \in J : \E m \in 1..c : b[m] = i
  <2>1. J \subseteq Int
    OBVIOUS
  <2> QED BY ONLY <1>1, <2>1, AscendingEnumerates, ZenonT(30)
<1>4. c \in Nat
  BY <1>1, FS_CardinalityType
<1>5. Kept(t, J) = [m \in 1..c |-> t[b[m]]]
  BY DEF Kept
<1> HIDE DEF b, c
<1>6. f \in [1..c -> I]
  BY <1>0, <1>1
<1>7. \A m, n \in 1..c : m < n => f[m] < f[n]
  BY <1>0, <1>1, <1>2
<1>8. \A i \in I : \E m \in 1..c : f[m] = i
  <2> SUFFICES ASSUME NEW i \in I PROVE \E m \in 1..c : f[m] = i
    OBVIOUS
  <2>1. PICK j \in J : p[j] = i
    BY <1>0
  <2>2. PICK m \in 1..c : b[m] = j
    BY <1>3
  <2> QED BY <2>1, <2>2
<1>9. \A m \in 1..c : s[f[m]] = t[b[m]]
  BY <1>0, <1>1
<1> HIDE DEF f
<1>10. c = Cardinality(I) /\ Ascending(I) = f
  <2>1. I \subseteq Int
    OBVIOUS
  <2>2. IsFiniteSet(I)
    BY ONLY s \in Seq(S), I \subseteq 1..Len(s), KeptSelects
  <2> QED BY ONLY <1>4, <1>6, <1>7, <1>8, <2>1, <2>2, AscendingUnique, ZenonT(30)
<1>11. Kept(s, I) = [m \in 1..c |-> s[f[m]]]
  BY <1>10 DEF Kept
<1> QED BY <1>5, <1>9, <1>11

AddsUp(f, s, m) == f = [n \in 0..m |-> IF n = 0 THEN 0 ELSE f[n - 1] + s[n]]

(* Numbers can be added one by one, however many there are.                *)
LEMMA AddsUpExists ==
    ASSUME NEW s, NEW N \in Nat
    PROVE  \E f : AddsUp(f, s, N)
<1> DEFINE T == {m \in Nat : ~ \E f : AddsUp(f, s, m)}
<1> SUFFICES ASSUME T # {} PROVE FALSE
  OBVIOUS
<1>1. PICK k \in T : \A m \in T : k <= m
  BY LeastNumber
<1>2. CASE k = 0
  <2> DEFINE f == [n \in 0..0 |-> 0]
  <2>1. f = [n \in 0..0 |-> IF n = 0 THEN 0 ELSE f[n - 1] + s[n]]
    OBVIOUS
  <2> QED BY <1>1, <1>2, <2>1 DEF AddsUp
<1>3. CASE k # 0
  <2>1. k \in Nat /\ k - 1 \in Nat /\ k - 1 \notin T
    BY <1>1, <1>3
  <2>2. PICK f : AddsUp(f, s, k - 1)
    BY <2>1
  <2> DEFINE g == [n \in 0..k |-> IF n = k THEN f[k - 1] + s[k] ELSE f[n]]
  <2>3. \A n \in 0..(k - 1) : f[n] = IF n = 0 THEN 0 ELSE f[n - 1] + s[n]
    BY <2>2 DEF AddsUp
  <2>4. ASSUME NEW n \in 0..k
        PROVE  g[n] = IF n = 0 THEN 0 ELSE g[n - 1] + s[n]
    <3>1. CASE n = k
      BY <1>3, <2>1, <3>1
    <3>2. CASE n # k
      <4>1. n \in 0..(k - 1) /\ g[n] = f[n] /\ (n # 0 => g[n - 1] = f[n - 1])
        BY <2>1, <3>2
      <4> QED BY <2>3, <4>1
    <3> QED BY <3>1, <3>2
  <2>5. AddsUp(g, s, k)
    <3>1. g = [n \in 0..k |-> g[n]]
      OBVIOUS
    <3> HIDE DEF g
    <3> QED BY <2>4, <3>1 DEF AddsUp
  <2> QED BY <1>1, <2>5
<1> QED BY <1>2, <1>3

(* A sum of numbers between a and b lies between as many times a and b.    *)
LEMMA SumBetween ==
    ASSUME NEW s \in Seq(Int), NEW a \in Int, NEW b \in Int, \A i \in 1..Len(s) : a <= s[i] /\ s[i] <= b
    PROVE  SumOf(s) \in Int /\ Len(s) * a <= SumOf(s) /\ SumOf(s) <= Len(s) * b
<1> DEFINE N == Len(s)
           sum == CHOOSE f : AddsUp(f, s, N)
<1>0. N \in Nat /\ \A i \in 1..N : s[i] \in Int
  OBVIOUS
<1>1. SumOf(s) = sum[N]
  BY DEF SumOf, AddsUp
<1>2. AddsUp(sum, s, N)
  BY <1>0, AddsUpExists
<1> HIDE DEF sum, N
<1>3. \A n \in 0..N : sum[n] = IF n = 0 THEN 0 ELSE sum[n - 1] + s[n]
  BY <1>2 DEF AddsUp
<1> DEFINE Good(n) == sum[n] \in Int /\ n * a <= sum[n] /\ sum[n] <= n * b
           T == {n \in 0..N : ~Good(n)}
<1>4. T = {}
  <2> SUFFICES ASSUME T # {} PROVE FALSE
    OBVIOUS
  <2>0. T \subseteq Nat
    BY <1>0
  <2>1. PICK k \in T : \A m \in T : k <= m
    <3> HIDE DEF T
    <3> QED BY <2>0, LeastNumber
  <2>2. CASE k = 0
    <3>1. sum[0] = 0 /\ 0 * a = 0 /\ 0 * b = 0
      BY <1>0, <1>3
    <3> QED BY <2>1, <2>2, <3>1
  <2>3. CASE k # 0
    <3>1. k \in 1..N /\ k - 1 \in 0..N /\ k - 1 \notin T
      BY <1>0, <2>1, <2>3
    <3>2. Good(k - 1)
      BY <3>1
    <3>3. sum[k] = sum[k - 1] + s[k]
      BY <1>3, <2>3, <3>1
    <3>4. a <= s[k] /\ s[k] <= b /\ s[k] \in Int
      BY <1>0, <3>1 DEF N
    <3>5. k * a = (k - 1) * a + a /\ k * b = (k - 1) * b + b
      BY <1>0, <3>1
    <3>6. PICK x \in Int, y \in Int, z \in Int, w \in Int :
            x = (k - 1) * a /\ y = (k - 1) * b /\ z = k * a /\ w = k * b
      BY <1>0, <3>1
    <3>7. Good(k)
      <4>1. sum[k - 1] \in Int /\ x <= sum[k - 1] /\ sum[k - 1] <= y /\ z = x + a /\ w = y + b
        BY <3>2, <3>5, <3>6
      <4>2. sum[k] \in Int /\ z <= sum[k] /\ sum[k] <= w
        BY ONLY <3>3, <3>4, <4>1, a \in Int, b \in Int, x \in Int, y \in Int, z \in Int, w \in Int
      <4> QED BY <3>6, <4>2
    <3> QED BY <2>1, <3>7
  <2> QED BY <2>2, <2>3
<1>5. Good(N)
  BY <1>0, <1>4
<1> QED BY <1>1, <1>5 DEF N
=============================================================================
