---------------------------- MODULE PositionsProof ----------------------------
(***************************************************************************)
(* Lemmas about positions, for the proofs about lines and their parts.     *)
(***************************************************************************)
EXTENDS Positions, FiniteSetTheorems, SequenceTheorems, WellFoundedInduction, TLAPS

\* A nonempty set of natural numbers has a least one.
LEMMA LeastNatural ==
    ASSUME NEW T \in SUBSET Nat, T # {}
    PROVE  \E i \in T : \A j \in T : i <= j
<1>1. \E i \in T : \A j \in T : ~ (<<j, i>> \in OpToRel(<, Nat))
  BY Zenon, NatLessThanWellFounded, WFMin
<1>2. PICK i \in T : \A j \in T : ~ (<<j, i>> \in OpToRel(<, Nat))
  BY Zenon, <1>1
<1>3. \A j \in T : ~ (j < i)
  BY <1>2 DEF OpToRel
<1> QED
  BY <1>3

\* Induction: a set of natural numbers with 0 and the successor of each of its members
\* that is less than n has all up to n.
LEMMA Upwards ==
    ASSUME NEW T, NEW n \in Nat, 0 \in T,
           \A i \in 0 .. n - 1 : i \in T => i + 1 \in T
    PROVE  \A i \in 0 .. n : i \in T
<1> SUFFICES ASSUME \E i \in 0 .. n : i \notin T
             PROVE  FALSE
  OBVIOUS
<1> DEFINE U == {i \in 0 .. n : i \notin T}
<1>1. U \in SUBSET Nat /\ U # {}
  OBVIOUS
<1>2. PICK i \in U : \A j \in U : i <= j
  <2> HIDE DEF U
  <2> QED
    BY <1>1, LeastNatural
<1>3. i # 0 /\ i - 1 \in 0 .. n - 1
  BY <1>2
<1>4. i - 1 \in T
  BY <1>2, <1>3
<1>5. (i - 1) + 1 \in T
  BY <1>3, <1>4
<1>6. (i - 1) + 1 = i
  BY <1>2
<1> QED
  BY <1>2, <1>5, <1>6

LEMMA FunctionIsSeq ==
    ASSUME NEW S, NEW n \in Nat, NEW f \in [1 .. n -> S]
    PROVE  f \in Seq(S) /\ Len(f) = n
OBVIOUS

\* The ends of parts are those that their recursive definition says.
LEMMA EndsDefined ==
    ASSUME NEW w \in Seq(Nat)
    PROVE  /\ Ends(w) \in [0 .. Len(w) -> Nat]
           /\ Ends(w)[0] = 0
           /\ \A n \in 1 .. Len(w) : Ends(w)[n] = Ends(w)[n - 1] + w[n]
<1> DEFINE Sums(m) == {f \in [0 .. m -> Nat] : /\ f[0] = 0
                                               /\ \A n \in 1 .. m : f[n] = f[n - 1] + w[n]}
           T == {m \in Nat : Sums(m) # {}}
<1>0. Len(w) \in Nat /\ \A n \in 1 .. Len(w) : w[n] \in Nat
  OBVIOUS
<1>1. 0 \in T
  <2>1. [n \in 0 .. 0 |-> 0] \in Sums(0)
    OBVIOUS
  <2> QED
    BY <2>1
<1>2. ASSUME NEW m \in 0 .. Len(w) - 1, m \in T
      PROVE  m + 1 \in T
  <2>1. PICK f \in [0 .. m -> Nat] : f[0] = 0 /\ \A n \in 1 .. m : f[n] = f[n - 1] + w[n]
    BY <1>2
  <2> DEFINE g == [n \in 0 .. m + 1 |-> IF n <= m THEN f[n] ELSE f[m] + w[m + 1]]
  <2>2. g \in [0 .. m + 1 -> Nat]
    BY <1>0
  <2>3. g[0] = 0 /\ \A n \in 1 .. m + 1 : g[n] = g[n - 1] + w[n]
    BY <2>1
  <2>4. g \in Sums(m + 1)
    BY <2>2, <2>3
  <2>5. m + 1 \in Nat
    BY <1>0
  <2> QED
    BY <2>4, <2>5
<1>3. Len(w) \in T
  <2>1. \A m \in 0 .. Len(w) - 1 : m \in T => m + 1 \in T
    BY <1>2
  <2> HIDE DEF T
  <2>2. \A m \in 0 .. Len(w) : m \in T
    BY <1>0, <1>1, <2>1, Upwards
  <2> QED
    BY <1>0, <2>2
<1>4. PICK f \in [0 .. Len(w) -> Nat] :
         f[0] = 0 /\ \A n \in 1 .. Len(w) : f[n] = f[n - 1] + w[n]
  BY <1>3
<1>5. f = [n \in 0 .. Len(w) |-> IF n = 0 THEN 0 ELSE f[n - 1] + w[n]]
  BY <1>0, <1>4
<1> DEFINE g == Ends(w)
<1>6. g = [n \in 0 .. Len(w) |-> IF n = 0 THEN 0 ELSE g[n - 1] + w[n]]
  BY Zenon, <1>5 DEF Ends
<1> HIDE DEF g
<1>7. DOMAIN g = 0 .. Len(w) /\ g[0] = 0 /\ \A n \in 1 .. Len(w) : g[n] = g[n - 1] + w[n]
  <2>1. DOMAIN g = 0 .. Len(w)
    BY Zenon, <1>6
  <2>2. \A n \in 0 .. Len(w) : g[n] = IF n = 0 THEN 0 ELSE g[n - 1] + w[n]
    BY Zenon, <1>6
  <2>3. 0 \in 0 .. Len(w) /\ \A n \in 1 .. Len(w) : n \in 0 .. Len(w) /\ n # 0
    BY <1>0
  <2> QED
    BY Zenon, <2>1, <2>2, <2>3
<1>8. \A n \in 0 .. Len(w) : g[n] \in Nat
  <2> DEFINE U == {n \in 0 .. Len(w) : g[n] \in Nat}
  <2>1. 0 \in U
    BY <1>0, <1>7
  <2>2. ASSUME NEW n \in 0 .. Len(w) - 1, n \in U
        PROVE  n + 1 \in U
    <3>1. n + 1 \in 1 .. Len(w) /\ (n + 1) - 1 = n
      BY <1>0
    <3>2. g[n + 1] = g[n] + w[n + 1]
      BY <1>7, <3>1
    <3> QED
      BY <1>0, <2>2, <3>1, <3>2
  <2>3. \A n \in 0 .. Len(w) : n \in U
    <3> HIDE DEF U
    <3> QED
      BY <1>0, <2>1, <2>2, Upwards
  <2> QED
    BY <2>3
<1>9. g \in [0 .. Len(w) -> Nat]
  BY <1>6, <1>7, <1>8
<1> QED
  BY <1>7, <1>9 DEF g

-----------------------------------------------------------------------------
(* The members of a set in their order *)

LEMMA RankType ==
    ASSUME NEW S, IsFiniteSet(S), NEW i
    PROVE  /\ IsFiniteSet({j \in S : j <= i})
           /\ Rank(S, i) \in Nat
           /\ Cardinality(S) \in Nat
           /\ Rank(S, i) <= Cardinality(S)
<1> DEFINE R == {j \in S : j <= i}
<1>1. R \in SUBSET S
  OBVIOUS
<1> HIDE DEF R
<1>2. IsFiniteSet(R) /\ Cardinality(R) <= Cardinality(S)
  BY <1>1, FS_Subset
<1>3. Cardinality(R) \in Nat /\ Cardinality(S) \in Nat
  BY <1>2, FS_CardinalityType
<1> QED
  BY <1>2, <1>3 DEF R, Rank

\* A later member has a higher rank.
LEMMA RankGrows ==
    ASSUME NEW n \in Nat, NEW S \in SUBSET (1 .. n), NEW i \in S, NEW j \in S, i < j
    PROVE  Rank(S, i) < Rank(S, j)
<1> DEFINE R(m) == {k \in S : k <= m}
<1>1. IsFiniteSet(S)
  <2>1. IsFiniteSet(1 .. n)
    BY FS_Interval
  <2> QED
    BY <2>1, FS_Subset
<1>0. \A k \in S : k \in Nat
  OBVIOUS
<1>2. R(i) \in SUBSET R(j) /\ j \in R(j) /\ j \notin R(i)
  <2>1. \A k \in S : k <= i => k <= j
    BY <1>0
  <2>2. j <= j /\ ~ (j <= i)
    BY <1>0
  <2> QED
    BY <2>1, <2>2
<1>3. IsFiniteSet(R(j)) /\ Rank(S, i) \in Nat /\ Rank(S, j) \in Nat
  BY <1>1, RankType
<1>4. Cardinality(R(i)) <= Cardinality(R(j)) /\ Cardinality(R(i)) # Cardinality(R(j))
  <2> HIDE DEF R
  <2> QED
    BY <1>2, <1>3, FS_Subset
<1> QED
  BY <1>3, <1>4 DEF Rank

\* Each rank is that of exactly one member.
LEMMA RanksAreUnique ==
    ASSUME NEW n \in Nat, NEW S \in SUBSET (1 .. n)
    PROVE  /\ IsFiniteSet(S)
           /\ Cardinality(S) \in Nat
           /\ \A i \in S : Rank(S, i) \in 1 .. Cardinality(S)
           /\ \A i, j \in S : Rank(S, i) = Rank(S, j) => i = j
           /\ \A k \in 1 .. Cardinality(S) : \E i \in S : Rank(S, i) = k
<1> DEFINE T == 1 .. Cardinality(S)
           rank == [i \in S |-> Rank(S, i)]
<1>1. IsFiniteSet(S)
  <2>1. IsFiniteSet(1 .. n)
    BY FS_Interval
  <2> QED
    BY <2>1, FS_Subset
<1>2. Cardinality(S) \in Nat
  BY <1>1, FS_CardinalityType
<1>3. ASSUME NEW i \in S
      PROVE  Rank(S, i) \in T
  <2>1. /\ IsFiniteSet({j \in S : j <= i})
        /\ Rank(S, i) \in Nat
        /\ Rank(S, i) <= Cardinality(S)
    BY <1>1, RankType
  <2>2. i \in {j \in S : j <= i}
    OBVIOUS
  <2>3. Rank(S, i) # 0
    BY <2>1, <2>2, FS_EmptySet DEF Rank
  <2> QED
    BY <1>2, <2>1, <2>3
<1>4. \A i, j \in S : Rank(S, i) = Rank(S, j) => i = j
  <2> SUFFICES ASSUME NEW i \in S, NEW j \in S, Rank(S, i) = Rank(S, j)
               PROVE  i = j
    OBVIOUS
  <2>1. i \in Nat /\ j \in Nat
    OBVIOUS
  <2>2. Rank(S, i) \in Nat
    BY <1>1, RankType
  <2>3. i < j => Rank(S, i) < Rank(S, j)
    BY RankGrows
  <2>4. j < i => Rank(S, j) < Rank(S, i)
    BY RankGrows
  <2> QED
    BY <2>1, <2>2, <2>3, <2>4
<1>5. rank \in Injection(S, T)
  <2>1. rank \in [S -> T] /\ \A i, j \in S : rank[i] = rank[j] => i = j
    BY <1>3, <1>4
  <2> HIDE DEF T, rank
  <2> QED
    BY <2>1 DEF Injection, IsInjective
<1>6. IsFiniteSet(T) /\ Cardinality(T) = Cardinality(S)
  <2>1. 1 \in Int /\ Cardinality(S) \in Int /\ 1 <= Cardinality(S) + 1
    BY <1>2
  <2> QED
    BY <1>2, <2>1, FS_Interval
<1>7. rank \in Surjection(S, T)
  <2> HIDE DEF T, rank
  <2> QED
    BY <1>5, <1>6, FS_Injection
<1>8. \A k \in T : \E i \in S : rank[i] = k
  <2> HIDE DEF T, rank
  <2> QED
    BY <1>7 DEF Surjection
<1> QED
  BY <1>1, <1>2, <1>3, <1>4, <1>8

\* The k-th member has rank k, and the order of the members is that of their ranks.
LEMMA NthProperties ==
    ASSUME NEW n \in Nat, NEW S \in SUBSET (1 .. n)
    PROVE  /\ \A k \in 1 .. Cardinality(S) : Nth(S, k) \in S /\ Rank(S, Nth(S, k)) = k
           /\ \A i \in S : Rank(S, i) \in 1 .. Cardinality(S) /\ Nth(S, Rank(S, i)) = i
           /\ \A k, l \in 1 .. Cardinality(S) : k < l => Nth(S, k) < Nth(S, l)
<1>1. /\ \A i \in S : Rank(S, i) \in 1 .. Cardinality(S)
      /\ \A i, j \in S : Rank(S, i) = Rank(S, j) => i = j
      /\ \A k \in 1 .. Cardinality(S) : \E i \in S : Rank(S, i) = k
      /\ Cardinality(S) \in Nat
  BY RanksAreUnique
<1>2. \A k \in 1 .. Cardinality(S) : Nth(S, k) \in S /\ Rank(S, Nth(S, k)) = k
  BY <1>1 DEF Nth
<1>3. ASSUME NEW i \in S
      PROVE  Nth(S, Rank(S, i)) = i
  BY <1>1, <1>2
<1>4. ASSUME NEW k \in 1 .. Cardinality(S), NEW l \in 1 .. Cardinality(S), k < l
      PROVE  Nth(S, k) < Nth(S, l)
  <2> DEFINE i == Nth(S, k)
             j == Nth(S, l)
  <2>1. i \in S /\ j \in S /\ Rank(S, i) = k /\ Rank(S, j) = l
    BY <1>2
  <2>2. i \in Nat /\ j \in Nat /\ k \in Nat /\ l \in Nat
    <3>1. \A m \in S : m \in Nat
      OBVIOUS
    <3>2. k \in Nat /\ l \in Nat
      BY <1>1
    <3> HIDE DEF i, j
    <3> QED
      BY <2>1, <3>1, <3>2
  <2>3. ~ (j < i) /\ i # j
    <3> HIDE DEF i, j
    <3>1. j < i => l < k
      BY <2>1, RankGrows
    <3>2. i # j
      BY <1>4, <2>1, <2>2
    <3> QED
      BY <1>4, <2>2, <3>1, <3>2
  <2> QED
    BY <2>2, <2>3
<1> QED
  BY <1>1, <1>2, <1>3, <1>4

\* A new last member leaves the others where they were.
LEMMA NthAfterNew ==
    ASSUME NEW n \in Nat, NEW S \in SUBSET (1 .. n)
    PROVE  /\ Cardinality(S \cup {n + 1}) = Cardinality(S) + 1
           /\ \A k \in 1 .. Cardinality(S) : Nth(S \cup {n + 1}, k) = Nth(S, k)
           /\ Nth(S \cup {n + 1}, Cardinality(S) + 1) = n + 1
<1> DEFINE T == S \cup {n + 1}
<1>1. T \in SUBSET (1 .. n + 1) /\ n + 1 \in Nat /\ n + 1 \notin S
  OBVIOUS
<1>2. IsFiniteSet(S) /\ Cardinality(S) \in Nat
  BY RanksAreUnique
<1>3. Cardinality(T) = Cardinality(S) + 1
  BY <1>1, <1>2, FS_AddElement
<1>4. \A i \in S : Rank(T, i) = Rank(S, i)
  <2> SUFFICES ASSUME NEW i \in S
               PROVE  {j \in T : j <= i} = {j \in S : j <= i}
    BY DEF Rank
  <2> QED
    BY <1>1
<1>5. Rank(T, n + 1) = Cardinality(T)
  <2>1. \A j \in T : j <= n + 1
    BY <1>1
  <2>2. {j \in T : j <= n + 1} = T
    BY <2>1
  <2> QED
    BY <2>2 DEF Rank
<1>6. \A i \in T : Nth(T, Rank(T, i)) = i
  <2> HIDE DEF T
  <2> QED
    BY <1>1, NthProperties
<1>7. ASSUME NEW k \in 1 .. Cardinality(S)
      PROVE  Nth(T, k) = Nth(S, k)
  <2>1. Nth(S, k) \in S /\ Rank(S, Nth(S, k)) = k
    BY NthProperties
  <2>2. Rank(T, Nth(S, k)) = k /\ Nth(S, k) \in T
    BY <1>4, <2>1
  <2> HIDE DEF T
  <2> QED
    BY <1>6, <2>2
<1>8. Nth(T, Cardinality(S) + 1) = n + 1
  <2>1. n + 1 \in T
    OBVIOUS
  <2> HIDE DEF T
  <2> QED
    BY <1>3, <1>5, <1>6, <2>1
<1> QED
  BY <1>3, <1>7, <1>8

-----------------------------------------------------------------------------
(* The ends of parts *)

\* Lists that agree up to the n-th part end alike up to there.
LEMMA EndsOfPrefix ==
    ASSUME NEW v \in Seq(Nat), NEW w \in Seq(Nat), NEW n \in Nat,
           n <= Len(v), n <= Len(w), \A i \in 1 .. n : v[i] = w[i]
    PROVE  \A i \in 0 .. n : Ends(v)[i] = Ends(w)[i]
<1> DEFINE T == {i \in 0 .. n : Ends(v)[i] = Ends(w)[i]}
<1>0. Len(v) \in Nat /\ Len(w) \in Nat
  OBVIOUS
<1>1. 0 \in T
  BY EndsDefined
<1>2. \A i \in 0 .. n - 1 : i \in T => i + 1 \in T
  <2> SUFFICES ASSUME NEW i \in 0 .. n - 1, i \in T
               PROVE  i + 1 \in T
    OBVIOUS
  <2>1. i + 1 \in 1 .. Len(v) /\ i + 1 \in 1 .. Len(w) /\ i + 1 \in 1 .. n /\ (i + 1) - 1 = i
    BY <1>0
  <2>2. /\ Ends(v)[i + 1] = Ends(v)[i] + v[i + 1]
        /\ Ends(w)[i + 1] = Ends(w)[i] + w[i + 1]
    BY <2>1, EndsDefined
  <2> QED
    BY <2>1, <2>2
<1>3. \A i \in 0 .. n : i \in T
  <2> HIDE DEF T
  <2> QED
    BY <1>1, <1>2, Upwards
<1> QED
  BY <1>3

\* Parts end in their order.
LEMMA EndsGrow ==
    ASSUME NEW w \in Seq(Nat), NEW i \in 0 .. Len(w), NEW j \in 0 .. Len(w), i <= j
    PROVE  Ends(w)[i] <= Ends(w)[j]
<1> DEFINE T == {m \in 0 .. Len(w) : i <= m => Ends(w)[i] <= Ends(w)[m]}
<1>0. Len(w) \in Nat /\ \A m \in 1 .. Len(w) : w[m] \in Nat
  OBVIOUS
<1>1. \A m \in 0 .. Len(w) : Ends(w)[m] \in Nat
  BY EndsDefined
<1>2. 0 \in T
  BY <1>0, <1>1
<1>3. \A m \in 0 .. Len(w) - 1 : m \in T => m + 1 \in T
  <2> SUFFICES ASSUME NEW m \in 0 .. Len(w) - 1, m \in T
               PROVE  m + 1 \in T
    OBVIOUS
  <2>1. m + 1 \in 1 .. Len(w) /\ (m + 1) - 1 = m
    BY <1>0
  <2>2. Ends(w)[m + 1] = Ends(w)[m] + w[m + 1]
    BY <2>1, EndsDefined
  <2>3. Ends(w)[m] \in Nat /\ Ends(w)[m + 1] \in Nat /\ Ends(w)[i] \in Nat /\ w[m + 1] \in Nat
    BY <1>0, <1>1, <2>1
  <2>4. CASE i <= m
    BY <2>1, <2>2, <2>3, <2>4
  <2>5. CASE ~ (i <= m)
    BY <2>1, <2>3, <2>5
  <2> QED
    BY <2>4, <2>5
<1>4. \A m \in 0 .. Len(w) : m \in T
  <2> HIDE DEF T
  <2> QED
    BY <1>0, <1>2, <1>3, Upwards
<1> QED
  BY <1>4

\* One more part adds its width.
LEMMA EndsAfterAppend ==
    ASSUME NEW w \in Seq(Nat), NEW x \in Nat
    PROVE  /\ Append(w, x) \in Seq(Nat)
           /\ \A i \in 0 .. Len(w) : Ends(Append(w, x))[i] = Ends(w)[i]
           /\ Total(Append(w, x)) = Total(w) + x
<1> DEFINE v == Append(w, x)
<1>1. /\ v \in Seq(Nat) /\ Len(v) = Len(w) + 1 /\ Len(w) \in Nat
      /\ \A i \in 1 .. Len(w) : v[i] = w[i]
      /\ v[Len(w) + 1] = x
  OBVIOUS
<1> HIDE DEF v
<1>2. \A i \in 0 .. Len(w) : Ends(v)[i] = Ends(w)[i]
  <2>1. Len(w) <= Len(v) /\ Len(w) <= Len(w)
    BY <1>1
  <2> QED
    BY <1>1, <2>1, EndsOfPrefix
<1>3. Ends(v)[Len(w) + 1] = Ends(v)[Len(w)] + x
  <2>1. Len(w) + 1 \in 1 .. Len(v) /\ (Len(w) + 1) - 1 = Len(w)
    BY <1>1
  <2>2. Ends(v)[Len(w) + 1] = Ends(v)[(Len(w) + 1) - 1] + v[Len(w) + 1]
    BY <1>1, <2>1, EndsDefined
  <2> QED
    BY <1>1, <2>1, <2>2
<1> QED
  BY <1>1, <1>2, <1>3 DEF v, Total

\* A wider last part too.
LEMMA TotalAfterWidening ==
    ASSUME NEW w \in Seq(Nat), w # <<>>, NEW x \in Nat
    PROVE  Total([w EXCEPT ![Len(w)] = w[Len(w)] + x]) = Total(w) + x
<1> DEFINE n == Len(w)
           v == [w EXCEPT ![n] = w[n] + x]
<1>1. n \in Nat \ {0} /\ w[n] \in Nat
  OBVIOUS
<1>2. /\ v \in Seq(Nat) /\ Len(v) = n
      /\ \A i \in 1 .. n - 1 : v[i] = w[i]
      /\ v[n] = w[n] + x
  BY <1>1
<1> HIDE DEF v, n
<1>3. Ends(v)[n - 1] = Ends(w)[n - 1]
  <2>1. n - 1 \in Nat /\ n - 1 <= Len(v) /\ n - 1 <= Len(w) /\ n - 1 \in 0 .. n - 1
    BY <1>1, <1>2 DEF n
  <2> QED
    BY <1>2, <2>1, EndsOfPrefix
<1>4. /\ Ends(v)[n] = Ends(v)[n - 1] + v[n]
      /\ Ends(w)[n] = Ends(w)[n - 1] + w[n]
  <2>1. n \in 1 .. Len(v) /\ n \in 1 .. Len(w)
    BY <1>1, <1>2 DEF n
  <2> QED
    BY <1>2, <2>1, EndsDefined
<1>5. Ends(w)[n - 1] \in Nat
  <2>1. n - 1 \in 0 .. Len(w)
    BY <1>1 DEF n
  <2> QED
    BY <2>1, EndsDefined
<1>6. Ends(v)[n] = Ends(w)[n] + x
  BY <1>1, <1>2, <1>3, <1>4, <1>5
<1>7. Total(v) = Ends(v)[n] /\ Total(w) = Ends(w)[n]
  BY <1>2 DEF Total, n
<1> QED
  BY <1>6, <1>7 DEF v, n

\* The members of a set up to n, counted in their order.
IsOrder(n, S, m, f) ==
    /\ f \in [1 .. m -> 1 .. n]
    /\ \A x, y \in 1 .. m : x < y => f[x] < f[y]
    /\ S = {f[x] : x \in 1 .. m}

LEMMA NthOfOrder ==
    ASSUME NEW n \in Nat, NEW m \in Nat, NEW f, NEW S, IsOrder(n, S, m, f)
    PROVE  /\ Cardinality(S) = m
           /\ \A x \in 1 .. m : Nth(S, x) = f[x]
<1> USE DEF IsOrder
<1>0. S \in SUBSET (1 .. n) /\ \A x \in 1 .. m : f[x] \in S /\ f[x] \in Nat
  OBVIOUS
<1>1. \A x, y \in 1 .. m : (f[x] <= f[y] <=> x <= y) /\ (f[x] = f[y] => x = y)
  <2> SUFFICES ASSUME NEW x \in 1 .. m, NEW y \in 1 .. m
               PROVE  (f[x] <= f[y] <=> x <= y) /\ (f[x] = f[y] => x = y)
    OBVIOUS
  <2>1. (x < y => f[x] < f[y]) /\ (y < x => f[y] < f[x])
    OBVIOUS
  <2>2. /\ f[x] \in Nat /\ f[y] \in Nat /\ x \in Nat /\ y \in Nat
        /\ x = y => f[x] = f[y]
    OBVIOUS
  <2> QED
    BY <2>1, <2>2
<1>2. ASSUME NEW x \in 0 .. m, NEW R, R = {f[y] : y \in 1 .. x}
      PROVE  Cardinality(R) = x
  <2> DEFINE g == [y \in 1 .. x |-> f[y]]
  <2>0. x \in Nat /\ \A y \in 1 .. x : y \in 1 .. m
    OBVIOUS
  <2>1. g \in [1 .. x -> R]
    BY <1>2
  <2>2. \A y, z \in 1 .. x : g[y] = g[z] => y = z
    BY <1>1, <2>0
  <2>3. \A r \in R : \E y \in 1 .. x : g[y] = r
    BY <1>2
  <2> HIDE DEF g
  <2>4. g \in Bijection(1 .. x, R)
    BY <2>1, <2>2, <2>3 DEF Bijection, Injection, IsInjective, Surjection
  <2>5. ExistsBijection(1 .. x, R)
    BY <2>4 DEF ExistsBijection
  <2> QED
    BY <2>0, <2>5, FS_CountingElements
<1>3. Cardinality(S) = m
  <2>1. m \in 0 .. m
    OBVIOUS
  <2> QED
    BY <1>2, <2>1
<1>4. ASSUME NEW x \in 1 .. m
      PROVE  Nth(S, x) = f[x]
  <2>1. {j \in S : j <= f[x]} = {f[y] : y \in 1 .. x}
    <3>1. \A y \in 1 .. m : f[y] <= f[x] <=> y \in 1 .. x
      BY <1>1
    <3>2. \A y \in 1 .. x : y \in 1 .. m
      OBVIOUS
    <3> QED
      BY <3>1, <3>2
  <2>2. Rank(S, f[x]) = x
    <3>1. x \in 0 .. m
      OBVIOUS
    <3> QED
      BY <1>2, <2>1, <3>1 DEF Rank
  <2>3. Nth(S, Rank(S, f[x])) = f[x]
    BY <1>0, NthProperties
  <2> QED
    BY Zenon, <2>2, <2>3
<1> QED
  BY <1>3, <1>4
=============================================================================
