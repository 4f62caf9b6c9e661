------------------------- MODULE SubsequencesProofs -------------------------
(***************************************************************************)
(* Facts about Pick: it is a sequence of exactly the elements chosen, each  *)
(* once for each of its positions, in their order.                          *)
(***************************************************************************)
EXTENDS Subsequences, FiniteSetTheorems, SequenceTheorems, TLAPS

\* Ranks of positions run from one to their number and grow with the position.
LEMMA RankProperties ==
    ASSUME NEW S \in SUBSET Nat, IsFiniteSet(S)
    PROVE  /\ Cardinality(S) \in Nat
           /\ \A i \in S : Rank(S, i) \in 1..Cardinality(S)
           /\ \A i, j \in S : i < j => Rank(S, i) < Rank(S, j)
  <1> DEFINE Upto(i) == {j \in S : j <= i}
  <1>0. \A i \in S : i \in Nat
    OBVIOUS
  <1>1. Cardinality(S) \in Nat
    BY FS_CardinalityType
  <1>2. \A i \in S : Upto(i) \in SUBSET S
    OBVIOUS
  <1>3. \A i \in S : IsFiniteSet(Upto(i)) /\ Cardinality(Upto(i)) \in Nat
                     /\ Cardinality(Upto(i)) <= Cardinality(S)
    BY <1>1, <1>2, FS_Subset, FS_CardinalityType
  <1>4. ASSUME NEW i \in S PROVE Cardinality(Upto(i)) \in 1..Cardinality(S)
    <2>1. i \in Upto(i)
      OBVIOUS
    <2>2. Cardinality(Upto(i)) # 0
      BY <1>3, <2>1, FS_EmptySet
    <2>3. QED
      BY <1>1, <1>3, <2>2
  <1>5. ASSUME NEW i \in S, NEW j \in S, i < j
        PROVE  Cardinality(Upto(i)) < Cardinality(Upto(j))
    <2>1. Upto(i) \in SUBSET Upto(j)
      <3> SUFFICES ASSUME NEW x \in S, x <= i PROVE x <= j
        OBVIOUS
      <3>1. x \in Nat /\ i \in Nat /\ j \in Nat
        BY <1>0
      <3>2. QED
        BY <1>5, <3>1
    <2>2. Upto(i) # Upto(j)
      BY <1>0, <1>5
    <2>3. Cardinality(Upto(i)) <= Cardinality(Upto(j)) /\ Cardinality(Upto(i)) # Cardinality(Upto(j))
      BY <1>3, <2>1, <2>2, FS_Subset
    <2>4. QED
      BY <1>3, <2>3
  <1>6. QED
    BY <1>1, <1>4, <1>5 DEF Rank

\* Every number up to that of the positions is the rank of one.
LEMMA RankOnto ==
    ASSUME NEW S \in SUBSET Nat, IsFiniteSet(S), NEW k \in 1..Cardinality(S)
    PROVE  \E i \in S : Rank(S, i) = k
  <1> DEFINE rank == [i \in S |-> Rank(S, i)]
  <1>1. Cardinality(S) \in Nat
    BY FS_CardinalityType
  <1>2. rank \in Injection(S, 1..Cardinality(S))
    <2>1. rank \in [S -> 1..Cardinality(S)]
      BY RankProperties
    <2>2. \A a, b \in S : rank[a] = rank[b] => a = b
      <3> SUFFICES ASSUME NEW a \in S, NEW b \in S, Rank(S, a) = Rank(S, b) PROVE a = b
        OBVIOUS
      <3>1. a \in Nat /\ b \in Nat
        OBVIOUS
      <3>2. Rank(S, a) \in Nat
        BY <1>1, RankProperties
      <3>3. (a < b => Rank(S, a) < Rank(S, b)) /\ (b < a => Rank(S, b) < Rank(S, a))
        BY RankProperties
      <3>4. QED
        BY <3>1, <3>2, <3>3
    <2>3. QED
      BY <2>1, <2>2 DEF Injection, IsInjective
  <1>3. IsFiniteSet(1..Cardinality(S)) /\ Cardinality(1..Cardinality(S)) = Cardinality(S)
    BY <1>1, FS_Interval
  <1>4. rank \in Surjection(S, 1..Cardinality(S))
    BY <1>2, <1>3, FS_Injection
  <1>5. QED
    BY <1>4 DEF Surjection

\* Positions and their numbers are in each other's order.
LEMMA NthProperties ==
    ASSUME NEW S \in SUBSET Nat, IsFiniteSet(S)
    PROVE  /\ Cardinality(S) \in Nat
           /\ \A k \in 1..Cardinality(S) : Nth(S, k) \in S /\ Rank(S, Nth(S, k)) = k
           /\ \A i \in S : Rank(S, i) \in 1..Cardinality(S) /\ Nth(S, Rank(S, i)) = i
           /\ \A k, l \in 1..Cardinality(S) : k < l => Nth(S, k) < Nth(S, l)
  <1>1. Cardinality(S) \in Nat /\ \A i \in S : Rank(S, i) \in 1..Cardinality(S)
    BY RankProperties
  <1>0. \A i \in S : i \in Nat
    OBVIOUS
  <1>2. \A k \in 1..Cardinality(S) : Nth(S, k) \in S /\ Rank(S, Nth(S, k)) = k
    BY RankOnto DEF Nth
  <1>3. ASSUME NEW i \in S, NEW j \in S, Rank(S, i) <= Rank(S, j) PROVE i <= j
    <2>1. i \in Nat /\ j \in Nat /\ Rank(S, i) \in Nat /\ Rank(S, j) \in Nat
      BY <1>0, <1>1
    <2>2. j < i => Rank(S, j) < Rank(S, i)
      BY RankProperties
    <2>3. QED
      BY <1>3, <2>1, <2>2
  <1>4. ASSUME NEW i \in S PROVE Nth(S, Rank(S, i)) = i
    <2> DEFINE j == Nth(S, Rank(S, i))
    <2>1. j \in S /\ Rank(S, j) = Rank(S, i)
      BY <1>1, <1>2
    <2>2. Rank(S, i) \in Nat
      BY <1>1
    <2> HIDE DEF j
    <2>3. j <= i /\ i <= j
      BY <1>3, <2>1, <2>2
    <2>4. i \in Nat /\ j \in Nat
      BY <1>0, <2>1
    <2>5. j = i
      BY <2>3, <2>4
    <2>6. QED
      BY <2>5 DEF j
  <1>5. ASSUME NEW k \in 1..Cardinality(S), NEW l \in 1..Cardinality(S), k < l
        PROVE  Nth(S, k) < Nth(S, l)
    <2>1. Nth(S, k) \in S /\ Nth(S, l) \in S
      BY <1>2
    <2>2. Nth(S, k) <= Nth(S, l)
      <3>1. k <= l
        BY <1>1, <1>5
      <3>2. QED
        BY <1>2, <1>3, <2>1, <3>1
    <2>3. Nth(S, k) # Nth(S, l)
      BY <1>1, <1>2, <1>5
    <2>4. Nth(S, k) \in Nat /\ Nth(S, l) \in Nat
      BY <1>0, <2>1
    <2>5. QED
      BY <2>2, <2>3, <2>4
  <1>6. QED
    BY <1>1, <1>2, <1>4, <1>5

\* The two halves of a concatenation.
LEMMA Halves ==
    ASSUME NEW T, NEW s \in Seq(T), NEW t \in Seq(T)
    PROVE  /\ Len(s) \in Nat /\ Len(t) \in Nat
           /\ s \o t \in Seq(T)
           /\ Len(s \o t) = Len(s) + Len(t)
           /\ \A i \in 1..Len(s) : i \in 1..Len(s \o t) /\ (s \o t)[i] = s[i]
           /\ \A j \in 1..Len(t) : /\ Len(s) + j \in 1..Len(s \o t)
                                  /\ (s \o t)[Len(s) + j] = t[j]
           /\ \A i \in 1..Len(s \o t) : i \in 1..Len(s) \/ \E j \in 1..Len(t) : i = Len(s) + j
  <1>1. Len(s) \in Nat /\ Len(t) \in Nat
    OBVIOUS
  <1>2. /\ s \o t \in Seq(T)
        /\ Len(s \o t) = Len(s) + Len(t)
        /\ \A i \in 1..Len(s) + Len(t) :
              (s \o t)[i] = IF i <= Len(s) THEN s[i] ELSE t[i - Len(s)]
    BY ConcatProperties, Zenon
  <1> DEFINE m == Len(s)
             n == Len(t)
             u == s \o t
  <1> HIDE DEF m, n, u
  <1>3. /\ m \in Nat /\ n \in Nat /\ Len(u) = m + n
        /\ \A i \in 1..m + n : u[i] = IF i <= m THEN s[i] ELSE t[i - m]
    BY <1>1, <1>2 DEF m, n, u
  <1>4. \A i \in 1..m : i \in 1..m + n /\ u[i] = s[i]
    BY <1>3
  <1>5. \A j \in 1..n : m + j \in 1..m + n /\ u[m + j] = t[j]
    <2> SUFFICES ASSUME NEW j \in 1..n PROVE m + j \in 1..m + n /\ u[m + j] = t[j]
      OBVIOUS
    <2>1. m + j \in 1..m + n /\ ~(m + j <= m) /\ m + j - m = j
      BY <1>3
    <2>2. QED
      BY <1>3, <2>1
  <1>6. \A i \in 1..m + n : i \in 1..m \/ \E j \in 1..n : i = m + j
    <2> SUFFICES ASSUME NEW i \in 1..m + n, ~(i \in 1..m) PROVE i - m \in 1..n /\ i = m + (i - m)
      OBVIOUS
    <2>1. QED
      BY <1>3
  <1>7. QED
    BY <1>1, <1>2, <1>3, <1>4, <1>5, <1>6 DEF m, n, u

\* Two lists without duplicates and with nothing in common make a list without any.
LEMMA JoinInjective ==
    ASSUME NEW T, NEW s \in Seq(T), NEW t \in Seq(T),
           IsInjective(s), IsInjective(t), Range(s) \cap Range(t) = {}
    PROVE  IsInjective(s \o t)
  <1>a. /\ s \o t \in Seq(T)
        /\ \A i \in 1..Len(s) : (s \o t)[i] = s[i]
        /\ \A j \in 1..Len(t) : (s \o t)[Len(s) + j] = t[j]
    BY Halves
  <1>b. \A i \in 1..Len(s \o t) : i \in 1..Len(s) \/ \E j \in 1..Len(t) : i = Len(s) + j
    BY Halves
  <1> DEFINE m == Len(s)
             n == Len(t)
             u == s \o t
  <1>1. /\ m \in Nat /\ n \in Nat
        /\ DOMAIN s = 1..m /\ DOMAIN t = 1..n /\ DOMAIN u = 1..Len(u)
        /\ \A i \in 1..m : u[i] = s[i]
        /\ \A j \in 1..n : u[m + j] = t[j]
        /\ \A i \in 1..Len(u) : i \in 1..m \/ \E j \in 1..n : i = m + j
    <2>1. m \in Nat /\ n \in Nat /\ DOMAIN s = 1..m /\ DOMAIN t = 1..n
      OBVIOUS
    <2>2. /\ u \in Seq(T)
          /\ \A i \in 1..m : u[i] = s[i]
          /\ \A j \in 1..n : u[m + j] = t[j]
          /\ \A i \in 1..Len(u) : i \in 1..m \/ \E j \in 1..n : i = m + j
      BY <1>a, <1>b
    <2>3. DOMAIN u = 1..Len(u)
      BY <2>2
    <2>4. QED
      BY <2>1, <2>2, <2>3
  <1> HIDE DEF m, n, u
  <1>2. \A i \in 1..m, j \in 1..n : s[i] # t[j]
    BY <1>1 DEF Range
  <1>3. ASSUME NEW i \in 1..m, NEW j \in 1..m, u[i] = u[j] PROVE i = j
    BY <1>1, <1>3 DEF IsInjective
  <1>4. ASSUME NEW k \in 1..n, NEW l \in 1..n, u[m + k] = u[m + l] PROVE k = l
    BY <1>1, <1>4 DEF IsInjective
  <1>5. ASSUME NEW i \in 1..m, NEW l \in 1..n PROVE u[i] # u[m + l]
    BY <1>1, <1>2
  <1>6. ASSUME NEW i \in 1..Len(u), NEW j \in 1..Len(u), u[i] = u[j] PROVE i = j
    <2>1. CASE i \in 1..m /\ j \in 1..m
      BY <1>3, <1>6, <2>1
    <2>2. CASE i \in 1..m /\ ~(j \in 1..m)
      <3>1. PICK l \in 1..n : j = m + l
        BY <1>1, <2>2
      <3>2. QED
        BY <1>5, <1>6, <2>2, <3>1
    <2>3. CASE ~(i \in 1..m) /\ j \in 1..m
      <3>1. PICK k \in 1..n : i = m + k
        BY <1>1, <2>3
      <3>2. u[j] # u[i]
        BY <1>5, <2>3, <3>1
      <3>3. QED
        BY <1>6, <3>2
    <2>4. CASE ~(i \in 1..m) /\ ~(j \in 1..m)
      <3>1. PICK k \in 1..n : i = m + k
        BY <1>1, <2>4
      <3>2. PICK l \in 1..n : j = m + l
        BY <1>1, <2>4
      <3>3. k = l
        BY <1>4, <1>6, <3>1, <3>2
      <3>4. QED
        BY <3>1, <3>2, <3>3
    <2>5. QED
      BY <2>1, <2>2, <2>3, <2>4
  <1>7. QED
    BY <1>1, <1>6 DEF IsInjective, u

\* A set of positions that is not empty has a first and a last.
THEOREM FirstAndLast ==
    ASSUME NEW S \in SUBSET Nat, IsFiniteSet(S), S # {}
    PROVE  /\ \E x \in S : \A y \in S : x <= y
           /\ \E x \in S : \A y \in S : y <= x
  <1> DEFINE n == Cardinality(S)
  <1>1. n \in Nat /\ n # 0
    BY FS_CardinalityType, FS_EmptySet
  <1>2. /\ \A k \in 1..n : Nth(S, k) \in S
        /\ \A i \in S : Rank(S, i) \in 1..n /\ Nth(S, Rank(S, i)) = i
        /\ \A k, l \in 1..n : k < l => Nth(S, k) < Nth(S, l)
    BY NthProperties
  <1> HIDE DEF n
  <1>3. 1 \in 1..n /\ n \in 1..n
    BY <1>1
  <1>4. ASSUME NEW i \in S PROVE Nth(S, 1) <= i /\ i <= Nth(S, n)
    <2> DEFINE r == Rank(S, i)
    <2>1. r \in 1..n /\ Nth(S, r) = i
      BY <1>2
    <2> HIDE DEF r
    <2>2. i \in Nat /\ Nth(S, 1) \in Nat /\ Nth(S, n) \in Nat
      BY <1>2, <1>3
    <2>3. (r = 1 \/ 1 < r) /\ (r = n \/ r < n)
      BY <1>1, <2>1
    <2>4. r < n => Nth(S, r) < Nth(S, n)
      BY <1>2, <1>3, <2>1
    <2>5. 1 < r => Nth(S, 1) < Nth(S, r)
      BY <1>2, <1>3, <2>1
    <2>6. QED
      BY <2>1, <2>2, <2>3, <2>4, <2>5
  <1>5. QED
    BY <1>2, <1>3, <1>4

\* What is picked: a sequence as long as there are positions, of the elements there.
THEOREM PickProperties ==
    ASSUME NEW T, NEW s \in Seq(T), NEW S \in SUBSET (DOMAIN s)
    PROVE  /\ IsFiniteSet(S)
           /\ Cardinality(S) \in Nat
           /\ Pick(s, S) \in Seq(T)
           /\ Len(Pick(s, S)) = Cardinality(S)
           /\ \A k \in 1..Cardinality(S) : Nth(S, k) \in S /\ Pick(s, S)[k] = s[Nth(S, k)]
           /\ \A i \in S : Rank(S, i) \in 1..Cardinality(S) /\ Pick(s, S)[Rank(S, i)] = s[i]
           /\ \A k, l \in 1..Cardinality(S) : k < l => Nth(S, k) < Nth(S, l)
  <1>0. Len(s) \in Nat /\ S \in SUBSET (1..Len(s))
    OBVIOUS
  <1>1. S \in SUBSET Nat /\ IsFiniteSet(S)
    <2>1. IsFiniteSet(1..Len(s))
      BY <1>0, FS_Interval
    <2>2. QED
      BY <1>0, <2>1, FS_Subset
  <1>2. /\ Cardinality(S) \in Nat
        /\ \A k \in 1..Cardinality(S) : Nth(S, k) \in S /\ Rank(S, Nth(S, k)) = k
        /\ \A i \in S : Rank(S, i) \in 1..Cardinality(S) /\ Nth(S, Rank(S, i)) = i
        /\ \A k, l \in 1..Cardinality(S) : k < l => Nth(S, k) < Nth(S, l)
    BY <1>1, NthProperties
  <1>3. Pick(s, S) = [k \in 1..Cardinality(S) |-> s[Nth(S, k)]]
    BY DEF Pick
  <1>4. Pick(s, S) \in Seq(T) /\ Len(Pick(s, S)) = Cardinality(S)
    BY <1>0, <1>2, <1>3
  <1>5. \A i \in S : Pick(s, S)[Rank(S, i)] = s[i]
    BY <1>2, <1>3
  <1>6. QED
    BY <1>1, <1>2, <1>3, <1>4, <1>5
\* What is picked from a list without duplicates has none.
THEOREM PickInjective ==
    ASSUME NEW T, NEW s \in Seq(T), NEW S \in SUBSET (DOMAIN s), IsInjective(s)
    PROVE  IsInjective(Pick(s, S))
  <1> SUFFICES ASSUME NEW k \in DOMAIN Pick(s, S), NEW l \in DOMAIN Pick(s, S),
                      Pick(s, S)[k] = Pick(s, S)[l]
               PROVE  k = l
    BY DEF IsInjective
  <1>1. k \in 1..Cardinality(S) /\ l \in 1..Cardinality(S)
    BY DEF Pick
  <1>2. Nth(S, k) = Nth(S, l)
    BY <1>1, PickProperties DEF IsInjective
  <1>3. \A m, n \in 1..Cardinality(S) : m < n => Nth(S, m) < Nth(S, n)
    BY PickProperties
  <1>4. Nth(S, k) \in Nat /\ Cardinality(S) \in Nat
    BY <1>1, PickProperties
  <1>5. QED
    BY <1>1, <1>2, <1>3, <1>4

\* What is picked is what is at the positions.
THEOREM PickRange ==
    ASSUME NEW T, NEW s \in Seq(T), NEW S \in SUBSET (DOMAIN s)
    PROVE  Range(Pick(s, S)) = {s[i] : i \in S}
  <1>1. DOMAIN Pick(s, S) = 1..Cardinality(S)
    BY DEF Pick
  <1>2. QED
    BY <1>1, PickProperties DEF Range

\* The elements of a list that are in a set.
THEOREM AmongProperties ==
    ASSUME NEW T, NEW s \in Seq(T), NEW S
    PROVE  /\ Among(s, S) \in Seq(T)
           /\ Range(Among(s, S)) = Range(s) \cap S
           /\ IsInjective(s) => IsInjective(Among(s, S))
  <1> DEFINE at == {i \in DOMAIN s : s[i] \in S}
  <1>1. at \in SUBSET (DOMAIN s)
    OBVIOUS
  <1>2. {s[i] : i \in at} = Range(s) \cap S
    BY DEF Range
  <1> HIDE DEF at
  <1>3. Pick(s, at) \in Seq(T)
    BY <1>1, PickProperties
  <1>4. IsInjective(s) => IsInjective(Pick(s, at))
    BY <1>1, PickInjective
  <1>5. Range(Pick(s, at)) = {s[i] : i \in at}
    BY <1>1, PickRange
  <1>6. QED
    BY <1>2, <1>3, <1>4, <1>5 DEF at, Among

\* The elements of a list without duplicates are as many as the list is long.
THEOREM RangeCardinality ==
    ASSUME NEW T, NEW s \in Seq(T), IsInjective(s)
    PROVE  IsFiniteSet(Range(s)) /\ Cardinality(Range(s)) = Len(s)
  <1>1. s \in Bijection(1..Len(s), Range(s))
    BY DEF Bijection, Injection, Surjection, IsInjective, Range
  <1>2. IsFiniteSet(1..Len(s)) /\ Cardinality(1..Len(s)) = Len(s)
    <2>1. Len(s) \in Nat
      OBVIOUS
    <2>2. QED
      BY <2>1, FS_Interval
  <1>3. QED
    BY <1>1, <1>2, FS_Bijection DEF ExistsBijection
\* A stretch of a sequence is picked as it is.
THEOREM PickInterval ==
    ASSUME NEW T, NEW s \in Seq(T), NEW a \in 1..Len(s) + 1, NEW b \in a - 1..Len(s)
    PROVE  Pick(s, a..b) = SubSeq(s, a, b)
  <1>1. /\ Len(s) \in Nat
        /\ a \in Nat /\ b \in Nat /\ 1 <= a /\ a - 1 <= b /\ b <= Len(s)
    OBVIOUS
  <1>2. a..b \in SUBSET Nat /\ a..b \in SUBSET (DOMAIN s)
    BY <1>1
  <1>3. IsFiniteSet(a..b) /\ Cardinality(a..b) = b - a + 1
    <2>1. a \in Int /\ b \in Int
      BY <1>1
    <2>2. IsFiniteSet(a..b) /\ Cardinality(a..b) = IF a > b THEN 0 ELSE b - a + 1
      BY <2>1, FS_Interval
    <2>3. QED
      BY <1>1, <2>2
  <1>4. ASSUME NEW k \in 1..Cardinality(a..b) PROVE Nth(a..b, k) = a + k - 1
    <2> DEFINE i == a + k - 1
    <2>1. i \in a..b /\ i \in Nat /\ a <= i /\ i - a + 1 = k
      BY <1>1, <1>3
    <2> HIDE DEF i
    <2>2. {j \in a..b : j <= i} = a..i
      BY <1>1, <2>1
    <2>3. Rank(a..b, i) = k
      <3>1. Cardinality(a..i) = i - a + 1
        BY <1>1, <2>1, FS_Interval
      <3>2. QED
        BY <2>1, <2>2, <3>1 DEF Rank
    <2>4. Nth(a..b, Rank(a..b, i)) = i
      BY <1>2, <1>3, <2>1, NthProperties
    <2>5. QED
      BY <2>3, <2>4 DEF i
  <1>5. Pick(s, a..b) = [k \in 1..(b - a + 1) |-> s[a + k - 1]]
    BY <1>3, <1>4 DEF Pick
  <1>6. SubSeq(s, a, b) = [k \in 1..(b - a + 1) |-> s[a + k - 1]]
    BY <1>1, SubSeqProperties
  <1>7. QED
    BY <1>5, <1>6
=============================================================================
