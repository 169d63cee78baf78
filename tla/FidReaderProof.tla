---------------------------- MODULE FidReaderProof ----------------------------
(***************************************************************************)
(* A display that no other one overlaps finds the header of its rows, for  *)
(* any displays, rows and formats.                                         *)
(*                                                                         *)
(* It does not matter what it finds in fidToFid (Lone): it has the map to  *)
(* itself, it makes a table only where there is none, so that none of its  *)
(* entries is lost, and when it comes to its rows it has put an entry for  *)
(* each of their FIDs (PutsOfOneHeader).                                   *)
(***************************************************************************)
EXTENDS FidReader, FiniteSetTheorems, SequenceTheorems, WellFoundedInduction, TLAPS

\* A display begins with its first put, and who moves or stores entries has arrays
\* to do so.
Stages ==
    \A d \in Displays :
        /\ pc[d] = "idle" => next[d] = 1 /\ d \notin alone
        /\ pc[d] = "transfer" => old[d] \in Displays
        /\ pc[d] \in {"transfer", "store"} => tab[d] \in Displays

\* The first n puts of d have their entries in the map.
HasPut(d, n) == \A k \in 1 .. n : Get(Puts[d][k][1]) = HeaderFid

\* What a display that is alone relies on at each point of its run.
LoneStep(d) ==
    /\ pc[d] # "transfer"
    /\ pc[d] \in {"resize", "publish"} => table = Null /\ next[d] = 1
    /\ pc[d] = "publish" => old[d] = Null
    /\ pc[d] = "store" => tab[d] = table
    /\ pc[d] \in Putting => HasPut(d, next[d] - 1)
    /\ pc[d] = "get" => HasPut(d, Len(Puts[d]))

Lone(d) ==
    /\ pc[d] # "failed"
    /\ d \in Active => Active = {d} /\ LoneStep(d)

IInv ==
    /\ TypeOK
    /\ Stages
    /\ \A d \in Displays \ Otma : d \in alone => Lone(d)

-----------------------------------------------------------------------------
(* The FIDs of an answer *)

\* A nonempty set of line numbers has a least one.
LEMMA LeastLine ==
    ASSUME NEW T \in SUBSET Nat, T # {}
    PROVE  \E i \in T : \A j \in T : i <= j
<1>1. \E i \in T : \A j \in T : ~ (<<j, i>> \in OpToRel(<, Nat))
  BY Zenon, NatLessThanWellFounded, WFMin
<1>2. PICK i \in T : \A j \in T : ~ (<<j, i>> \in OpToRel(<, Nat))
  BY Zenon, <1>1
<1>3. \A j \in T : ~ (j < i)
  BY <1>2 DEF OpToRel
<1> QED
  BY <1>3

\* An answer is a header and its rows.
LEMMA LinesProperties ==
    ASSUME NEW d \in Displays
    PROVE  /\ Len(Rows[d]) \in Nat
           /\ Lines(d) \in Seq(Fids)
           /\ Len(Lines(d)) = Len(Rows[d]) + 1
           /\ DOMAIN Lines(d) = 1 .. Len(Rows[d]) + 1
           /\ Lines(d)[1] = HeaderFid
           /\ \A k \in 1 .. Len(Rows[d]) :
                 Rows[d][k] \in ValueFids /\ Lines(d)[k + 1] = Rows[d][k]
<1>1. Rows[d] \in Seq(ValueFids)
  BY RowsAssumption
<1>2. Rows[d] \in Seq(Fids) /\ HeaderFid \in Fids
  BY <1>1 DEF Fids
<1>3. \A k \in 1 .. Len(Rows[d]) : Rows[d][k] \in ValueFids
  BY <1>1
<1>4. <<HeaderFid>> \in Seq(Fids) /\ Len(<<HeaderFid>>) = 1 /\ <<HeaderFid>>[1] = HeaderFid
  BY <1>2
<1>5. /\ Lines(d) \in Seq(Fids)
      /\ Len(Lines(d)) = 1 + Len(Rows[d])
      /\ \A i \in 1 .. 1 + Len(Rows[d]) :
            Lines(d)[i] = IF i <= 1 THEN <<HeaderFid>>[i] ELSE Rows[d][i - 1]
  BY <1>2, <1>4, ConcatProperties DEF Lines
<1>6. Len(Rows[d]) \in Nat
  BY <1>2
<1>7. DOMAIN Lines(d) = 1 .. Len(Rows[d]) + 1
  BY <1>5, <1>6
<1>8. Lines(d)[1] = HeaderFid
  BY <1>4, <1>5, <1>6
<1>9. ASSUME NEW k \in 1 .. Len(Rows[d])
      PROVE  Lines(d)[k + 1] = Rows[d][k]
  BY <1>5, <1>6
<1> QED
  BY <1>3, <1>5, <1>6, <1>7, <1>8, <1>9

\* Every line has a first line with its FID.
LEMMA FirstLineExists ==
    ASSUME NEW d \in Displays, NEW i \in DOMAIN Lines(d)
    PROVE  \E j \in FirstLines(d) : Lines(d)[j] = Lines(d)[i]
<1> DEFINE T == {j \in DOMAIN Lines(d) : Lines(d)[j] = Lines(d)[i]}
<1>1. DOMAIN Lines(d) = 1 .. Len(Rows[d]) + 1 /\ Len(Rows[d]) \in Nat
  BY LinesProperties
<1>2. T \in SUBSET Nat /\ i \in T
  BY <1>1
<1>3. PICK j \in T : \A m \in T : j <= m
  <2> HIDE DEF T
  <2> QED
    BY <1>2, LeastLine
<1>4. \A m \in 1 .. j - 1 : Lines(d)[m] # Lines(d)[j]
  BY <1>1, <1>3
<1> QED
  BY <1>3, <1>4 DEF FirstLines

LEMMA FirstLinesFinite ==
    ASSUME NEW d \in Displays
    PROVE  /\ FirstLines(d) \subseteq 1 .. Len(Rows[d]) + 1
           /\ Len(Rows[d]) \in Nat
           /\ IsFiniteSet(FirstLines(d))
           /\ Cardinality(FirstLines(d)) \in Nat
           /\ 1 \in FirstLines(d)
<1>1. DOMAIN Lines(d) = 1 .. Len(Rows[d]) + 1 /\ Len(Rows[d]) \in Nat
  BY LinesProperties
<1>2. FirstLines(d) \subseteq 1 .. Len(Rows[d]) + 1
  BY <1>1 DEF FirstLines
<1>3. IsFiniteSet(1 .. Len(Rows[d]) + 1)
  BY <1>1, FS_Interval
<1>4. IsFiniteSet(FirstLines(d))
  BY <1>2, <1>3, FS_Subset
<1>5. 1 \in FirstLines(d)
  BY <1>1 DEF FirstLines
<1> QED
  BY <1>1, <1>2, <1>4, <1>5, FS_CardinalityType

\* Later first lines have later positions.
LEMMA PositionsGrow ==
    ASSUME NEW d \in Displays, NEW i \in FirstLines(d), NEW j \in FirstLines(d), i < j
    PROVE  Position(d, i) # Position(d, j)
<1> DEFINE S(n) == FirstLines(d) \cap 1 .. n
<1>1. i \in Nat /\ j \in Nat /\ i >= 1 /\ j >= 1
  BY FirstLinesFinite
<1>2. S(i) \in SUBSET S(j) /\ j \in S(j) /\ j \notin S(i)
  BY <1>1
<1>3. S(j) \in SUBSET FirstLines(d)
  OBVIOUS
<1>4. IsFiniteSet(S(j))
  <2> HIDE DEF S
  <2> QED
    BY <1>3, FirstLinesFinite, FS_Subset
<1>5. Cardinality(S(j)) # Cardinality(S(i))
  <2> HIDE DEF S
  <2> QED
    BY <1>2, <1>4, FS_Subset
<1> QED
  BY <1>5 DEF Position

\* Each position is that of exactly one first line.
LEMMA Positions ==
    ASSUME NEW d \in Displays
    PROVE  /\ \A i \in FirstLines(d) : Position(d, i) \in 1 .. Cardinality(FirstLines(d))
           /\ \A i, j \in FirstLines(d) : Position(d, i) = Position(d, j) => i = j
           /\ \A n \in 1 .. Cardinality(FirstLines(d)) :
                 \E i \in FirstLines(d) : Position(d, i) = n
<1> DEFINE F == FirstLines(d)
           T == 1 .. Cardinality(F)
           p == [i \in F |-> Position(d, i)]
<1>1. /\ F \subseteq 1 .. Len(Rows[d]) + 1
      /\ Len(Rows[d]) \in Nat
      /\ IsFiniteSet(F)
      /\ Cardinality(F) \in Nat
  BY FirstLinesFinite
<1>2. ASSUME NEW i \in F
      PROVE  Position(d, i) \in T
  <2>1. i \in F \cap 1 .. i
    BY <1>1
  <2>2. /\ IsFiniteSet(F \cap 1 .. i)
        /\ Cardinality(F \cap 1 .. i) <= Cardinality(F)
    <3>1. F \cap 1 .. i \in SUBSET F
      OBVIOUS
    <3> HIDE DEF F
    <3> QED
      BY <1>1, <3>1, FS_Subset
  <2>3. Cardinality(F \cap 1 .. i) \in Nat
    BY <2>2, FS_CardinalityType
  <2>4. Cardinality(F \cap 1 .. i) # 0
    BY <2>1, <2>2, FS_EmptySet
  <2> QED
    BY <1>1, <2>2, <2>3, <2>4 DEF Position
<1>3. \A i, j \in F : Position(d, i) = Position(d, j) => i = j
  <2> SUFFICES ASSUME NEW i \in F, NEW j \in F, Position(d, i) = Position(d, j)
               PROVE  i = j
    OBVIOUS
  <2>1. i \in Nat /\ j \in Nat
    BY <1>1
  <2>2. ~ (i < j) /\ ~ (j < i)
    BY PositionsGrow
  <2> QED
    BY <2>1, <2>2
<1>4. p \in Injection(F, T)
  <2>1. p \in [F -> T]
    BY <1>2
  <2>2. \A i, j \in F : p[i] = p[j] => i = j
    BY <1>3
  <2> HIDE DEF F, T, p
  <2> QED
    BY <2>1, <2>2 DEF Injection, IsInjective
<1>5. IsFiniteSet(T) /\ Cardinality(T) = Cardinality(F)
  <2>1. 1 \in Int /\ Cardinality(F) \in Int /\ 1 <= Cardinality(F) + 1
    BY <1>1
  <2> HIDE DEF F
  <2> QED
    BY <1>1, <2>1, FS_Interval
<1>6. p \in Surjection(F, T)
  <2> HIDE DEF F, T, p
  <2> QED
    BY <1>4, <1>5, FS_Injection
<1>7. \A n \in T : \E i \in F : p[i] = n
  <2> HIDE DEF F, T, p
  <2> QED
    BY <1>6 DEF Surjection
<1> QED
  BY <1>2, <1>3, <1>7

-----------------------------------------------------------------------------
(* The FIDs and their entries *)

\* The FIDs begin with that of the header, and those of all rows are among the others.
LEMMA UniqueFidsProperties ==
    ASSUME NEW d \in Displays
    PROVE  /\ UniqueFids(d) \in Seq(Fids)
           /\ Len(UniqueFids(d)) \in Nat \ {0}
           /\ UniqueFids(d)[1] = HeaderFid
           /\ \A k \in 1 .. Len(Rows[d]) :
                 \E n \in 2 .. Len(UniqueFids(d)) : UniqueFids(d)[n] = Rows[d][k]
<1> DEFINE N == Cardinality(FirstLines(d))
           line(n) == CHOOSE i \in FirstLines(d) : Position(d, i) = n
<1>1. N \in Nat /\ 1 \in FirstLines(d) /\ FirstLines(d) \subseteq DOMAIN Lines(d)
  BY FirstLinesFinite DEF FirstLines
<1>2. \A n \in 1 .. N : line(n) \in FirstLines(d) /\ Position(d, line(n)) = n
  BY Positions
<1>3. \A i \in FirstLines(d) : Position(d, i) \in 1 .. N /\ line(Position(d, i)) = i
  <2> SUFFICES ASSUME NEW i \in FirstLines(d)
               PROVE  Position(d, i) \in 1 .. N /\ line(Position(d, i)) = i
    OBVIOUS
  <2>1. Position(d, i) \in 1 .. N
    BY Positions
  <2>2. /\ line(Position(d, i)) \in FirstLines(d)
        /\ Position(d, line(Position(d, i))) = Position(d, i)
    BY <1>2, <2>1
  <2> HIDE DEF line
  <2> QED
    BY <2>1, <2>2, Positions
<1>4. UniqueFids(d) = [n \in 1 .. N |-> Lines(d)[line(n)]]
  BY DEF UniqueFids
<1> HIDE DEF N, line
<1>5. \A n \in 1 .. N : Lines(d)[line(n)] \in Fids
  <2>1. Lines(d) \in [DOMAIN Lines(d) -> Fids]
    BY LinesProperties
  <2> QED
    BY <1>1, <1>2, <2>1
<1>6. UniqueFids(d) \in Seq(Fids) /\ Len(UniqueFids(d)) = N
  BY <1>1, <1>4, <1>5, IsASeq, LenProperties
<1>7. \A i \in FirstLines(d) :
         Position(d, i) \in 1 .. N /\ UniqueFids(d)[Position(d, i)] = Lines(d)[i]
  BY <1>3, <1>4
<1>8. Position(d, 1) = 1
  <2>1. FirstLines(d) \cap 1 .. 1 = {1}
    BY <1>1
  <2> QED
    BY <2>1, FS_Singleton DEF Position
<1>9. UniqueFids(d)[1] = HeaderFid /\ N >= 1
  BY <1>1, <1>7, <1>8, LinesProperties
<1>10. ASSUME NEW k \in 1 .. Len(Rows[d])
       PROVE  \E n \in 2 .. N : UniqueFids(d)[n] = Rows[d][k]
  <2>1. /\ k + 1 \in DOMAIN Lines(d)
        /\ Lines(d)[k + 1] = Rows[d][k]
        /\ Rows[d][k] \in ValueFids
    BY LinesProperties
  <2>2. PICK i \in FirstLines(d) : Lines(d)[i] = Rows[d][k]
    BY <2>1, FirstLineExists
  <2>3. /\ Position(d, i) \in 1 .. N
        /\ UniqueFids(d)[Position(d, i)] = Rows[d][k]
    BY <1>7, <2>2
  <2>4. Position(d, i) # 1
    BY <1>9, <2>1, <2>3, HeaderAssumption
  <2> QED
    BY <1>1, <2>3, <2>4
<1> QED
  BY <1>1, <1>6, <1>9, <1>10

Entries == Fids \X (Fids \cup {Blank})

\* With one header every row has an entry, and all entries are of the header.
LEMMA PutsOfOneHeader ==
    ASSUME NEW d \in Displays \ Otma
    PROVE  /\ Puts[d] \in Seq(Entries)
           /\ \A k \in 1 .. Len(Puts[d]) : Puts[d][k][2] = HeaderFid
           /\ \A k \in 1 .. Len(Rows[d]) :
                 \E n \in 1 .. Len(Puts[d]) : Puts[d][n][1] = Rows[d][k]
<1> DEFINE fids == UniqueFids(d)
<1>1. /\ fids \in Seq(Fids)
      /\ Len(fids) \in Nat \ {0}
      /\ fids[1] = HeaderFid
      /\ \A k \in 1 .. Len(Rows[d]) : \E n \in 2 .. Len(fids) : fids[n] = Rows[d][k]
  BY UniqueFidsProperties
<1>2. Puts[d] = [i \in 1 .. Len(fids) - 1 |-> <<fids[i + 1], fids[1]>>]
  BY DEF Puts, PutsToHeader
<1> HIDE DEF fids
<1>3. Len(fids) - 1 \in Nat
  BY <1>1
<1>4. \A i \in 1 .. Len(fids) - 1 : fids[i + 1] \in Fids
  BY <1>1
<1>5. \A i \in 1 .. Len(fids) - 1 : <<fids[i + 1], fids[1]>> \in Entries
  BY <1>1, <1>4 DEF Entries, Fids
<1>6. Puts[d] \in Seq(Entries) /\ Len(Puts[d]) = Len(fids) - 1
  BY <1>2, <1>3, <1>5, IsASeq, LenProperties
<1>7. \A k \in 1 .. Len(Puts[d]) : Puts[d][k][1] = fids[k + 1] /\ Puts[d][k][2] = HeaderFid
  BY <1>1, <1>2, <1>6
<1>8. ASSUME NEW k \in 1 .. Len(Rows[d])
      PROVE  \E n \in 1 .. Len(Puts[d]) : Puts[d][n][1] = Rows[d][k]
  <2>1. PICK n \in 2 .. Len(fids) : fids[n] = Rows[d][k]
    BY <1>1
  <2>2. n - 1 \in 1 .. Len(Puts[d]) /\ (n - 1) + 1 = n
    BY <1>1, <1>6
  <2> QED
    BY <1>7, <2>1, <2>2
<1> QED
  BY <1>6, <1>7, <1>8

\* With continuation lines too the entries are of FIDs or blank.
LEMMA PutsOfHeaders ==
    ASSUME NEW d \in Otma
    PROVE  Puts[d] \in Seq(Entries)
<1> DEFINE fids == UniqueFids(d)
           fidArray == Reverse(fids)
           limit == Len(fids) \div 2
           blanks == [i \in 1 .. limit - 1 |-> <<fidArray[i], Blank>>]
           others == [i \in 1 .. Len(fids) - limit |-> <<fidArray[i], fidArray[limit + i]>>]
<1>1. fids \in Seq(Fids) /\ Len(fids) \in Nat \ {0}
  BY OtmaAssumption, UniqueFidsProperties
<1>2. Puts[d] = blanks \o others
  BY OtmaAssumption DEF Puts, PutsToHeaders
<1>3. fidArray = [i \in 1 .. Len(fids) |-> fids[Len(fids) - i + 1]]
  BY DEF Reverse
<1> HIDE DEF fids
<1>4. \A i \in 1 .. Len(fids) : fidArray[i] \in Fids
  BY <1>1, <1>3
<1>5. limit \in Nat /\ limit <= Len(fids)
  BY <1>1
<1> HIDE DEF fidArray, limit
<1>6. blanks \in Seq(Entries)
  <2>1. CASE limit = 0
    <3>1. 1 .. limit - 1 = {}
      BY <2>1
    <3>2. blanks = <<>>
      BY <3>1
    <3> HIDE DEF blanks
    <3> QED
      BY <3>2
  <2>2. CASE limit # 0
    <3>1. limit - 1 \in Nat
      BY <1>5, <2>2
    <3>2. \A i \in 1 .. limit - 1 : <<fidArray[i], Blank>> \in Entries
      BY <1>1, <1>4, <1>5 DEF Entries
    <3> QED
      BY <3>1, <3>2, IsASeq
  <2> QED
    BY <2>1, <2>2
<1>7. others \in Seq(Entries)
  <2>1. Len(fids) - limit \in Nat
    BY <1>1, <1>5
  <2>2. \A i \in 1 .. Len(fids) - limit :
           i \in 1 .. Len(fids) /\ limit + i \in 1 .. Len(fids)
    BY <1>1, <1>5
  <2>3. \A i \in 1 .. Len(fids) - limit : <<fidArray[i], fidArray[limit + i]>> \in Entries
    BY <1>4, <2>2 DEF Entries
  <2> QED
    BY <2>1, <2>3, IsASeq
<1> QED
  BY <1>2, <1>6, <1>7, ConcatProperties

\* Every put is an entry, and the rows of a display with one header are its value lines.
LEMMA PutsAndRows ==
    ASSUME NEW d \in Displays
    PROVE  /\ Puts[d] \in Seq(Entries)
           /\ Len(Puts[d]) \in Nat
           /\ Len(ValueLines[d]) \in Nat
<1>1. Puts[d] \in Seq(Entries)
  BY PutsOfOneHeader, PutsOfHeaders
<1>2. NumOfHeaders[d] \in Nat
  BY UniqueFidsProperties DEF NumOfHeaders
<1>3. Lines(d) \in Seq(Fids) /\ Len(Lines(d)) \in Nat
  BY LinesProperties
<1>4. ValueLines[d] = SubSeq(Lines(d), NumOfHeaders[d] + 1, Len(Lines(d)))
  BY DEF ValueLines
<1>5. Len(ValueLines[d]) \in Nat
  BY <1>2, <1>3, <1>4, SubSeqProperties
<1>6. Len(Puts[d]) \in Nat
  BY <1>1
<1> QED
  BY <1>1, <1>5, <1>6

LEMMA RowsOfOneHeader ==
    ASSUME NEW d \in Displays \ Otma
    PROVE  /\ HeaderFid \in HeaderFids(d)
           /\ \A k \in 1 .. Len(ValueLines[d]) :
                 k \in 1 .. Len(Rows[d]) /\ ValueLines[d][k] = Rows[d][k]
<1>1. NumOfHeaders[d] = 1
  BY DEF NumOfHeaders
<1>2. HeaderFid \in HeaderFids(d)
  <2>1. 1 \in 1 .. 1 /\ Lines(d)[1] = HeaderFid
    BY LinesProperties
  <2> QED
    BY <1>1, <2>1 DEF HeaderFids
<1>3. ValueLines[d] = SubSeq(Lines(d), 2, Len(Rows[d]) + 1)
  <2>1. Len(Lines(d)) = Len(Rows[d]) + 1
    BY LinesProperties
  <2>2. ValueLines[d] = SubSeq(Lines(d), NumOfHeaders[d] + 1, Len(Lines(d)))
    BY DEF ValueLines
  <2>3. NumOfHeaders[d] + 1 = 2
    BY <1>1
  <2> QED
    BY <2>1, <2>2, <2>3
<1>4. /\ Len(Rows[d]) \in Nat
      /\ Lines(d) \in Seq(Fids)
      /\ Len(Lines(d)) = Len(Rows[d]) + 1
      /\ \A k \in 1 .. Len(Rows[d]) : Lines(d)[k + 1] = Rows[d][k]
  BY LinesProperties
<1> DEFINE n == Len(Rows[d]) + 1
<1>5. /\ Len(SubSeq(Lines(d), 2, n)) = IF 2 <= n THEN n - 2 + 1 ELSE 0
      /\ \A i \in 1 .. n - 2 + 1 : SubSeq(Lines(d), 2, n)[i] = Lines(d)[2 + i - 1]
  <2>1. 2 \in Int /\ n \in Int /\ \A i \in 2 .. n : Lines(d)[i] \in Fids
    BY <1>4
  <2>2. 2 \in 1 .. Len(Lines(d)) + 1 /\ n \in 1 - 1 .. Len(Lines(d))
    BY <1>4
  <2> HIDE DEF n
  <2> QED
    BY <1>4, <2>1, <2>2, SubSeqProperties
<1>6. Len(ValueLines[d]) = Len(Rows[d])
  BY <1>3, <1>4, <1>5
<1>7. ASSUME NEW k \in 1 .. Len(Rows[d])
      PROVE  ValueLines[d][k] = Rows[d][k]
  <2>1. k \in 1 .. n - 2 + 1 /\ 2 + k - 1 = k + 1
    BY <1>4
  <2> QED
    BY <1>3, <1>4, <1>5, <2>1
<1> QED
  BY <1>2, <1>6, <1>7

-----------------------------------------------------------------------------
(* The steps of one display *)

\* Without a table there are no entries.
LEMMA NothingIsAFid ==
    ASSUME table = Null, NEW f
    PROVE  Get(f) # HeaderFid
BY NullAssumption DEF Get, Fids

-----------------------------------------------------------------------------
(* The invariant *)

LEMMA InitInvariant == Init => IInv
<1> SUFFICES ASSUME Init PROVE IInv
  OBVIOUS
<1>1. TypeOK
  <2>1. \A d \in Displays : 1 \in 1 .. Len(ValueLines[d]) + 1
    BY PutsAndRows
  <2> QED
    BY <2>1 DEF Init, TypeOK, Putting
<1> QED
  BY <1>1 DEF Init, IInv, Stages

\* An action of d, which was active, keeps what holds of it, and those who are
\* alone but for d were not active.
LEMMA LoneAfterStep ==
    ASSUME IInv, NEW d \in Displays, d \in Active,
           pc \in [Displays -> Putting \cup {"idle", "get", "done", "failed"}],
           NEW p \in Putting \cup {"get", "done", "failed"}, GoTo(d, p),
           alone' = alone,
           d \in alone \ Otma => /\ p # "failed"
                                 /\ p \in Putting \cup {"get"} => LoneStep(d)'
    PROVE  \A e \in Displays \ Otma : (e \in alone => Lone(e))'
<1> SUFFICES ASSUME NEW e \in Displays \ Otma, e \in alone
             PROVE  Lone(e)'
  OBVIOUS
<1>1. Lone(e)
  BY DEF IInv
<1>2. pc' = [pc EXCEPT ![d] = p]
  BY DEF GoTo
<1>3. Active' \subseteq Active
  BY <1>2 DEF Active, Putting
<1>4. CASE e = d
  <2>1. Active = {d}
    BY <1>1, <1>4 DEF Lone
  <2>2. d \in Active' => p \in Putting \cup {"get"}
    BY <1>2 DEF Active
  <2>3. pc'[d] # "failed"
    BY <1>2, <1>4
  <2>4. d \in Active' => Active' = {d} /\ LoneStep(d)'
    BY <1>3, <1>4, <2>1, <2>2
  <2> QED
    BY <1>4, <2>3, <2>4 DEF Lone
<1>5. CASE e # d
  <2>1. e \notin Active
    BY <1>1, <1>5 DEF Lone
  <2>2. e \notin Active'
    BY <1>3, <2>1
  <2>3. pc'[e] = pc[e] /\ pc[e] # "failed"
    BY <1>1, <1>2, <1>5 DEF Lone
  <2> QED
    BY <2>2, <2>3 DEF Lone
<1> QED
  BY <1>4, <1>5

LEMMA ArriveInvariant ==
    ASSUME IInv, NEW d \in Displays, Arrive(d)
    PROVE  IInv'
<1> DEFINE p == IF Puts[d] = <<>> THEN "get" ELSE "put"
<1>1. /\ pc[d] = "idle"
      /\ pc' = [pc EXCEPT ![d] = p]
      /\ alone' = IF Active = {} THEN alone \cup {d} ELSE alone \ Active
      /\ UNCHANGED <<table, array, next, tab, old>>
  BY DEF Arrive, GoTo, mapVars
<1>2. p \in {"put", "get"} /\ (p = "get" => Puts[d] = <<>>)
  OBVIOUS
<1>3. TypeOK /\ Stages
  BY DEF IInv
<1>4. /\ Len(Puts[d]) \in Nat
      /\ Len(ValueLines[d]) \in Nat
      /\ Puts[d] # <<>> => Len(Puts[d]) >= 1
      /\ Puts[d] = <<>> => Len(Puts[d]) = 0
  BY PutsAndRows
<1>5. p = "put" => Puts[d] # <<>>
  OBVIOUS
<1> HIDE DEF p
<1>6. next[d] = 1 /\ d \notin alone
  BY <1>1, <1>3 DEF Stages
<1>7. TypeOK'
  <2>1. pc' \in [Displays -> Putting \cup {"idle", "get", "done", "failed"}]
    BY <1>1, <1>2, <1>3 DEF TypeOK, Putting
  <2>2. ASSUME NEW e \in Displays
        PROVE  next'[e] \in 1 .. (IF pc'[e] \in Putting
                                    THEN Len(Puts[e]) ELSE Len(ValueLines[e]) + 1)
    <3>1. CASE e = d
      <4>1. pc'[d] = p /\ next'[d] = 1
        BY <1>1, <1>3, <1>6 DEF TypeOK
      <4>2. p = "put" => 1 \in 1 .. Len(Puts[d])
        BY <1>4, <1>5
      <4>3. 1 \in 1 .. Len(ValueLines[d]) + 1
        BY <1>4
      <4> QED
        BY <1>2, <3>1, <4>1, <4>2, <4>3 DEF Putting
    <3>2. CASE e # d
      BY <1>1, <1>3, <3>2 DEF TypeOK
    <3> QED
      BY <3>1, <3>2
  <2> QED
    BY <1>1, <1>3, <2>1, <2>2 DEF TypeOK
<1>8. Stages'
  <2>1. \A e \in Displays \ {d} : pc'[e] = pc[e]
    BY <1>1, <1>3 DEF TypeOK
  <2>2. pc'[d] \in {"put", "get"}
    BY <1>1, <1>2, <1>3 DEF TypeOK
  <2>3. \A e \in Displays \ {d} : e \in alone' => e \in alone
    BY <1>1
  <2> QED
    BY <1>1, <1>3, <2>1, <2>2, <2>3 DEF Stages
<1>9. ASSUME NEW e \in Displays \ Otma, e \in alone'
      PROVE  Lone(e)'
  <2>1. pc'[d] = p /\ \A c \in Displays \ {d} : pc'[c] = pc[c]
    BY <1>1, <1>3 DEF TypeOK
  <2>2. CASE e = d
    <3>1. Active = {}
      BY <1>1, <1>6, <1>9, <2>2
    <3>2. Active' = {d}
      BY <1>2, <2>1, <3>1 DEF Active
    <3>3. HasPut(d, 0)' /\ (p = "get" => HasPut(d, Len(Puts[d]))')
      BY <1>2, <1>4 DEF HasPut
    <3>4. next'[d] - 1 = 0
      BY <1>1, <1>6
    <3>5. LoneStep(d)'
      BY <1>2, <2>1, <3>3, <3>4 DEF LoneStep, Putting
    <3> QED
      BY <1>2, <2>1, <2>2, <3>2, <3>5 DEF Lone
  <2>3. CASE e # d
    <3>1. e \in alone /\ e \notin Active
      BY <1>1, <1>9, <2>3
    <3>2. e \notin Active' /\ pc'[e] = pc[e]
      BY <2>1, <2>3, <3>1 DEF Active
    <3> QED
      BY <3>1, <3>2 DEF IInv, Lone
  <2> QED
    BY <2>2, <2>3
<1> QED
  BY <1>7, <1>8, <1>9 DEF IInv

\* The typing of a step of d that keeps the arrays.
LEMMA StepKeepsType ==
    ASSUME IInv, NEW d \in Displays, d \in Active, alone' = alone,
           NEW p \in Putting \cup {"get", "done", "failed"}, GoTo(d, p),
           NEW n \in 1 .. (IF p \in Putting THEN Len(Puts[d]) ELSE Len(ValueLines[d]) + 1),
           next' = [next EXCEPT ![d] = n],
           table' \in Displays \cup {Null},
           array' \in [Displays -> [Fids -> Fids \cup {Blank, Null}]],
           tab' \in [Displays -> Displays \cup {Null}],
           old' \in [Displays -> Displays \cup {Null}],
           \A e \in Displays \ {d} : tab'[e] = tab[e] /\ old'[e] = old[e],
           p = "transfer" => old'[d] \in Displays,
           p \in {"transfer", "store"} => tab'[d] \in Displays
    PROVE  TypeOK' /\ Stages'
<1>1. TypeOK /\ Stages
  BY DEF IInv
<1>2. /\ pc' = [pc EXCEPT ![d] = p]
      /\ pc'[d] = p
      /\ \A e \in Displays \ {d} : pc'[e] = pc[e]
  BY <1>1 DEF GoTo, TypeOK
<1>3. /\ next'[d] = n
      /\ \A e \in Displays \ {d} : next'[e] = next[e]
      /\ next' \in [Displays -> Nat]
  <2>1. Len(Puts[d]) \in Nat /\ Len(ValueLines[d]) \in Nat
    BY PutsAndRows
  <2>2. n \in Nat
    BY <2>1
  <2> QED
    BY <1>1, <2>2 DEF TypeOK
<1>4. \A e \in Displays :
         next'[e] \in 1 .. (IF pc'[e] \in Putting
                              THEN Len(Puts[e]) ELSE Len(ValueLines[e]) + 1)
  BY <1>1, <1>2, <1>3 DEF TypeOK
<1>5. pc' \in [Displays -> Putting \cup {"idle", "get", "done", "failed"}]
  BY <1>1, <1>2 DEF TypeOK
<1>6. TypeOK'
  BY <1>1, <1>3, <1>4, <1>5 DEF TypeOK
<1>7. p # "idle"
  BY DEF Putting
<1>8. Stages'
  BY <1>1, <1>2, <1>3, <1>7 DEF Stages
<1> QED
  BY <1>6, <1>8

\* What holds of a display before each of its steps.
LEMMA Known ==
    ASSUME IInv, NEW d \in Displays
    PROVE  /\ TypeOK /\ Stages
           /\ d \in alone \ Otma => Lone(d)
           /\ Len(Puts[d]) \in Nat /\ Len(ValueLines[d]) \in Nat
           /\ next[d] \in Nat /\ next[d] >= 1
           /\ pc[d] \in Putting => next[d] <= Len(Puts[d])
           /\ pc[d] \notin Putting => next[d] <= Len(ValueLines[d]) + 1
           /\ next = [next EXCEPT ![d] = next[d]]
           /\ pc \in [Displays -> Putting \cup {"idle", "get", "done", "failed"}]
           /\ \A k \in 1 .. Len(Puts[d]) :
                 Puts[d][k][1] \in Fids /\ Puts[d][k][2] \in Fids \cup {Blank}
<1>1. TypeOK /\ Stages /\ (d \in alone \ Otma => Lone(d))
  BY DEF IInv
<1>2. Puts[d] \in Seq(Entries) /\ Len(Puts[d]) \in Nat /\ Len(ValueLines[d]) \in Nat
  BY PutsAndRows
<1>3. next[d] \in 1 .. (IF pc[d] \in Putting THEN Len(Puts[d]) ELSE Len(ValueLines[d]) + 1)
  BY <1>1 DEF TypeOK
<1>4. next[d] \in Nat /\ next[d] >= 1
  BY <1>2, <1>3
<1>5. /\ pc[d] \in Putting => next[d] <= Len(Puts[d])
      /\ pc[d] \notin Putting => next[d] <= Len(ValueLines[d]) + 1
  BY <1>2, <1>3
<1>6. /\ next = [next EXCEPT ![d] = next[d]]
      /\ pc \in [Displays -> Putting \cup {"idle", "get", "done", "failed"}]
  BY <1>1 DEF TypeOK
<1>7. \A k \in 1 .. Len(Puts[d]) :
         Puts[d][k][1] \in Fids /\ Puts[d][k][2] \in Fids \cup {Blank}
  <2>1. \A k \in 1 .. Len(Puts[d]) : Puts[d][k] \in Entries
    BY <1>2
  <2> QED
    BY <2>1 DEF Entries
<1> QED
  BY <1>1, <1>2, <1>4, <1>5, <1>6, <1>7

\* A table is missing only before the first put.
LEMMA ReadTableInvariant ==
    ASSUME IInv, NEW d \in Displays, ReadTable(d)
    PROVE  IInv'
<1> DEFINE p == IF table = Null THEN "resize" ELSE "store"
<1>1. /\ pc[d] = "put" /\ d \in Active
      /\ tab' = [tab EXCEPT ![d] = table]
      /\ GoTo(d, p)
      /\ UNCHANGED <<table, array, next, old, alone>>
  BY DEF ReadTable, mapVars, Active
<1>2. /\ p \in {"resize", "store"}
      /\ p = "resize" => table = Null
      /\ p = "store" => table # Null
  OBVIOUS
<1> HIDE DEF p
<1>3. /\ next[d] \in 1 .. Len(Puts[d])
      /\ next[d] \in Nat
      /\ next' = [next EXCEPT ![d] = next[d]]
  BY <1>1, Known DEF Putting
<1>4. TypeOK
  BY Known
<1>5. tab' \in [Displays -> Displays \cup {Null}] /\ tab'[d] = table
  BY <1>1, <1>4 DEF TypeOK
<1>6. p = "store" => tab'[d] \in Displays
  BY <1>2, <1>4, <1>5 DEF TypeOK
<1>7. \A e \in Displays \ {d} : tab'[e] = tab[e]
  BY <1>1, <1>4 DEF TypeOK
<1>8. TypeOK' /\ Stages'
  BY <1>1, <1>2, <1>3, <1>4, <1>5, <1>6, <1>7, StepKeepsType DEF TypeOK, Putting
<1>9. ASSUME d \in alone \ Otma
      PROVE  LoneStep(d)'
  <2>1. HasPut(d, next[d] - 1)
    BY <1>1, <1>9, Known DEF Lone, LoneStep, Putting
  <2>2. p = "resize" => next[d] = 1
    <3> SUFFICES ASSUME table = Null, next[d] # 1
                 PROVE  FALSE
      BY <1>2
    <3>1. 1 \in 1 .. next[d] - 1
      BY <1>3
    <3> QED
      BY <2>1, <3>1, NothingIsAFid DEF HasPut
  <2>3. HasPut(d, next[d] - 1)'
    BY <1>1, <2>1 DEF HasPut, Get
  <2>4. pc'[d] = p
    BY <1>1, <1>4 DEF GoTo, TypeOK
  <2> QED
    BY <1>1, <1>2, <1>5, <2>2, <2>3, <2>4 DEF LoneStep, Putting
<1>10. \A e \in Displays \ Otma : (e \in alone => Lone(e))'
  <2>1. p \in Putting /\ p # "failed"
    BY <1>2 DEF Putting
  <2> QED
    BY <1>1, <1>9, <2>1, Known, LoneAfterStep
<1> QED
  BY <1>8, <1>10 DEF IInv

LEMMA ResizeInvariant ==
    ASSUME IInv, NEW d \in Displays, Resize(d)
    PROVE  IInv'
<1>1. /\ pc[d] = "resize" /\ d \in Active
      /\ old' = [old EXCEPT ![d] = table]
      /\ GoTo(d, "publish")
      /\ UNCHANGED <<table, array, next, tab, alone>>
  BY DEF Resize, mapVars, Active
<1>2. /\ next[d] \in 1 .. Len(Puts[d])
      /\ next' = [next EXCEPT ![d] = next[d]]
  BY <1>1, Known DEF Putting
<1>3. TypeOK
  BY Known
<1>4. /\ old' \in [Displays -> Displays \cup {Null}]
      /\ old'[d] = table
      /\ \A e \in Displays \ {d} : old'[e] = old[e]
  BY <1>1, <1>3 DEF TypeOK
<1>5. "publish" \in Putting /\ pc'[d] = "publish"
  BY <1>1, <1>3 DEF Putting, GoTo, TypeOK
<1>6. TypeOK' /\ Stages'
  BY <1>1, <1>2, <1>3, <1>4, <1>5, StepKeepsType DEF TypeOK
<1>7. ASSUME d \in alone \ Otma
      PROVE  LoneStep(d)'
  <2>1. table = Null /\ next[d] = 1 /\ HasPut(d, next[d] - 1)
    BY <1>1, <1>7, Known DEF Lone, LoneStep, Putting
  <2>2. HasPut(d, next[d] - 1)'
    BY <1>1, <2>1 DEF HasPut, Get
  <2> QED
    BY <1>1, <1>4, <1>5, <2>1, <2>2 DEF LoneStep
<1>8. \A e \in Displays \ Otma : (e \in alone => Lone(e))'
  BY <1>1, <1>5, <1>7, Known, LoneAfterStep
<1> QED
  BY <1>6, <1>8 DEF IInv

\* The table of a lone display replaces no other.
LEMMA PublishInvariant ==
    ASSUME IInv, NEW d \in Displays, Publish(d)
    PROVE  IInv'
<1> DEFINE p == IF old[d] = Null THEN "store" ELSE "transfer"
<1>1. /\ pc[d] = "publish" /\ d \in Active
      /\ table' = d
      /\ tab' = [tab EXCEPT ![d] = d]
      /\ GoTo(d, p)
      /\ UNCHANGED <<array, next, old, alone>>
  BY DEF Publish, Active
<1>2. /\ p \in {"store", "transfer"}
      /\ p = "transfer" => old[d] # Null
      /\ old[d] = Null => p = "store"
  OBVIOUS
<1> HIDE DEF p
<1>3. p \in Putting /\ p # "failed"
  BY <1>2 DEF Putting
<1>4. /\ next[d] \in 1 .. Len(Puts[d])
      /\ next' = [next EXCEPT ![d] = next[d]]
  BY <1>1, Known DEF Putting
<1>5. TypeOK
  BY Known
<1>6. /\ tab' \in [Displays -> Displays \cup {Null}]
      /\ tab'[d] = d
      /\ \A e \in Displays \ {d} : tab'[e] = tab[e]
  BY <1>1, <1>5 DEF TypeOK
<1>7. /\ old' \in [Displays -> Displays \cup {Null}]
      /\ p = "transfer" => old'[d] \in Displays
  BY <1>1, <1>2, <1>5 DEF TypeOK
<1>8. pc'[d] = p
  BY <1>1, <1>5 DEF GoTo, TypeOK
<1>9. TypeOK' /\ Stages'
  BY <1>1, <1>3, <1>4, <1>5, <1>6, <1>7, StepKeepsType DEF TypeOK
<1>10. ASSUME d \in alone \ Otma
       PROVE  LoneStep(d)'
  <2>1. old[d] = Null /\ next[d] = 1
    BY <1>1, <1>10, Known DEF Lone, LoneStep, Putting
  <2>2. pc'[d] = "store"
    BY <1>2, <1>8, <2>1
  <2>3. next'[d] - 1 = 0
    BY <1>1, <2>1
  <2>4. HasPut(d, next[d] - 1)'
    BY <2>3 DEF HasPut
  <2> QED
    BY <1>1, <1>6, <2>2, <2>4 DEF LoneStep
<1>11. \A e \in Displays \ Otma : (e \in alone => Lone(e))'
  BY <1>1, <1>3, <1>10, Known, LoneAfterStep
<1> QED
  BY <1>9, <1>11 DEF IInv

\* No display that is alone moves entries.
LEMMA TransferInvariant ==
    ASSUME IInv, NEW d \in Displays, Transfer(d)
    PROVE  IInv'
<1>1. /\ pc[d] = "transfer" /\ d \in Active
      /\ array' = [array EXCEPT
                      ![d] = [f \in Fids |-> IF array[old[d]][f] # Null
                                               THEN array[old[d]][f] ELSE @[f]],
                      ![old[d]] = [f \in Fids |-> Null]]
      /\ GoTo(d, "store")
      /\ UNCHANGED <<table, next, tab, old, alone>>
  BY DEF Transfer, Active
<1>2. /\ next[d] \in 1 .. Len(Puts[d])
      /\ next' = [next EXCEPT ![d] = next[d]]
  BY <1>1, Known DEF Putting
<1>3. TypeOK /\ old[d] \in Displays
  BY <1>1, Known DEF Stages
<1>4. array' \in [Displays -> [Fids -> Fids \cup {Blank, Null}]]
  <2> DEFINE moved == [f \in Fids |-> IF array[old[d]][f] # Null
                                       THEN array[old[d]][f] ELSE array[d][f]]
             empty == [f \in Fids |-> Null]
  <2>1. array \in [Displays -> [Fids -> Fids \cup {Blank, Null}]]
    BY <1>3 DEF TypeOK
  <2>2. /\ moved \in [Fids -> Fids \cup {Blank, Null}]
        /\ empty \in [Fids -> Fids \cup {Blank, Null}]
    BY <1>3, <2>1
  <2>3. array' = [array EXCEPT ![d] = moved, ![old[d]] = empty]
    BY <1>1, <2>1
  <2> HIDE DEF moved, empty
  <2> QED
    BY <2>1, <2>2, <2>3
<1>5. tab[d] \in Displays
  BY <1>1, Known DEF Stages
<1>6. "store" \in Putting
  BY DEF Putting
<1>7. TypeOK' /\ Stages'
  BY <1>1, <1>2, <1>3, <1>4, <1>5, <1>6, StepKeepsType DEF TypeOK
<1>8. d \notin alone \ Otma
  BY <1>1, Known DEF Lone, LoneStep
<1>9. \A e \in Displays \ Otma : (e \in alone => Lone(e))'
  BY <1>1, <1>6, <1>8, Known, LoneAfterStep
<1> QED
  BY <1>7, <1>9 DEF IInv

\* The entry of a lone display goes into the map, and after the last it has put all.
LEMMA StoreInvariant ==
    ASSUME IInv, NEW d \in Displays, Store(d)
    PROVE  IInv'
<1> DEFINE more == next[d] < Len(Puts[d])
           p == IF more THEN "put" ELSE "get"
           n == IF more THEN next[d] + 1 ELSE 1
           fid == Puts[d][next[d]][1]
           entry == Puts[d][next[d]][2]
<1>1. /\ pc[d] = "store" /\ d \in Active
      /\ array' = [array EXCEPT ![tab[d]][fid] = entry]
      /\ GoTo(d, p)
      /\ next' = [next EXCEPT ![d] = n]
      /\ UNCHANGED <<table, tab, old, alone>>
  BY DEF Store, NextPut, Active
<1>2. /\ next[d] \in Nat /\ next[d] >= 1 /\ next[d] <= Len(Puts[d])
      /\ Len(Puts[d]) \in Nat
      /\ Len(ValueLines[d]) \in Nat
  BY <1>1, Known DEF Putting
<1>3. fid \in Fids /\ entry \in Fids \cup {Blank}
  BY <1>2, Known
<1>4. /\ more => p = "put" /\ n = next[d] + 1 /\ n <= Len(Puts[d])
      /\ ~more => p = "get" /\ n = 1 /\ next[d] = Len(Puts[d])
  BY <1>2
<1>5. n \in 1 .. (IF p \in Putting THEN Len(Puts[d]) ELSE Len(ValueLines[d]) + 1)
  BY <1>2, <1>4 DEF Putting
<1> HIDE DEF p, n, more, fid, entry
<1>6. TypeOK /\ tab[d] \in Displays
  BY <1>1, Known DEF Stages
<1>7. array' \in [Displays -> [Fids -> Fids \cup {Blank, Null}]]
  BY <1>1, <1>3, <1>6 DEF TypeOK
<1>8. p \in {"put", "get"} /\ p \in Putting \cup {"get", "done", "failed"}
  BY <1>4 DEF Putting
<1>9. pc'[d] = p /\ next'[d] = n
  BY <1>1, <1>6 DEF GoTo, TypeOK
<1>10. TypeOK' /\ Stages'
  BY <1>1, <1>5, <1>6, <1>7, <1>8, StepKeepsType DEF TypeOK
<1>11. ASSUME d \in alone \ Otma
       PROVE  LoneStep(d)'
  <2>1. tab[d] = table /\ HasPut(d, next[d] - 1)
    BY <1>1, <1>11, Known DEF Lone, LoneStep, Putting
  <2>2. table # Null /\ table \in Displays
    BY <1>6, <2>1, NullAssumption
  <2>3. entry = HeaderFid
    BY <1>2, <1>11, PutsOfOneHeader DEF entry
  <2>4. ASSUME NEW k \in 1 .. next[d]
        PROVE  Get(Puts[d][k][1])' = HeaderFid
    <3>1. Puts[d][k][1] \in Fids
      BY <1>2, Known
    <3>2. Get(Puts[d][k][1])' = array'[table][Puts[d][k][1]]
      BY <1>1, <2>2 DEF Get
    <3>3. CASE Puts[d][k][1] = fid
      BY <1>1, <1>3, <1>6, <2>1, <2>2, <2>3, <3>2, <3>3 DEF TypeOK
    <3>4. CASE Puts[d][k][1] # fid
      <4>1. k \in 1 .. next[d] - 1
        BY <1>2, <3>4 DEF fid
      <4>2. array[table][Puts[d][k][1]] = HeaderFid
        BY <2>1, <2>2, <4>1 DEF HasPut, Get
      <4> QED
        BY <1>1, <1>6, <2>1, <2>2, <3>1, <3>2, <3>4, <4>2 DEF TypeOK
    <3> QED
      BY <3>3, <3>4
  <2>5. p = "put" => HasPut(d, next[d] - 1)'
    <3>1. p = "put" => next'[d] - 1 = next[d]
      BY <1>2, <1>4, <1>9
    <3> QED
      BY <2>4, <3>1 DEF HasPut
  <2>6. p = "get" => HasPut(d, Len(Puts[d]))'
    <3>1. p = "get" => next[d] = Len(Puts[d])
      BY <1>4
    <3> QED
      BY <2>4, <3>1 DEF HasPut
  <2> QED
    BY <1>8, <1>9, <2>5, <2>6 DEF LoneStep, Putting
<1>12. \A e \in Displays \ Otma : (e \in alone => Lone(e))'
  BY <1>1, <1>8, <1>11, Known, LoneAfterStep
<1> QED
  BY <1>10, <1>12 DEF IInv

LEMMA ReadRowInvariant ==
    ASSUME IInv, NEW d \in Displays, ReadRow(d)
    PROVE  IInv'
<1>1. /\ pc[d] = "get" /\ d \in Active
      /\ next[d] <= Len(ValueLines[d])
      /\ next' = [next EXCEPT ![d] = next[d] + 1]
      /\ UNCHANGED <<table, array, pc, tab, old, alone>>
  BY DEF ReadRow, mapVars, Active
<1>2. TypeOK /\ GoTo(d, "get")
  BY <1>1, Known DEF GoTo, TypeOK
<1>3. "get" \notin Putting /\ "get" \in Putting \cup {"get", "done", "failed"}
  BY DEF Putting
<1>4. next[d] + 1 \in 1 .. Len(ValueLines[d]) + 1
  BY <1>1, Known
<1>5. TypeOK' /\ Stages'
  BY <1>1, <1>2, <1>3, <1>4, StepKeepsType DEF TypeOK
<1>6. ASSUME d \in alone \ Otma
      PROVE  LoneStep(d)'
  <2>1. HasPut(d, Len(Puts[d]))
    BY <1>1, <1>6, Known DEF Lone, LoneStep
  <2>2. HasPut(d, Len(Puts[d]))'
    BY <1>1, <2>1 DEF HasPut, Get
  <2> QED
    BY <1>1, <1>3, <2>2 DEF LoneStep
<1>7. \A e \in Displays \ Otma : (e \in alone => Lone(e))'
  BY <1>1, <1>2, <1>3, <1>6, Known, LoneAfterStep
<1> QED
  BY <1>5, <1>7 DEF IInv

\* Every row has a put, hence a lone display finds the header of each.
LEMMA FailRowInvariant ==
    ASSUME IInv, NEW d \in Displays, FailRow(d)
    PROVE  IInv'
<1>1. /\ pc[d] = "get" /\ d \in Active
      /\ next[d] <= Len(ValueLines[d])
      /\ Get(ValueLines[d][next[d]]) \notin HeaderFids(d)
      /\ GoTo(d, "failed")
      /\ UNCHANGED <<table, array, next, tab, old, alone>>
  BY DEF FailRow, mapVars, Active
<1>2. "failed" \notin Putting /\ "failed" \in Putting \cup {"get", "done", "failed"}
  BY DEF Putting
<1>3. next[d] \in 1 .. Len(ValueLines[d]) + 1
  BY <1>1, Known DEF Putting
<1>4. next' = [next EXCEPT ![d] = next[d]]
  BY <1>1, Known
<1>5. TypeOK' /\ Stages'
  <2>1. TypeOK
    BY Known
  <2>2. /\ table' \in Displays \cup {Null}
        /\ array' \in [Displays -> [Fids -> Fids \cup {Blank, Null}]]
        /\ tab' = tab /\ tab' \in [Displays -> Displays \cup {Null}]
        /\ old' = old /\ old' \in [Displays -> Displays \cup {Null}]
    BY <1>1, <2>1 DEF TypeOK
  <2>3. /\ d \in Active /\ alone' = alone
        /\ GoTo(d, "failed") /\ "failed" \notin {"transfer", "store"}
    BY <1>1
  <2> QED
    BY <1>2, <1>3, <1>4, <2>2, <2>3, StepKeepsType
<1>6. d \notin alone \ Otma
  <2> SUFFICES ASSUME d \in alone \ Otma
               PROVE  FALSE
    OBVIOUS
  <2>1. HasPut(d, Len(Puts[d]))
    BY <1>1, Known DEF Lone, LoneStep
  <2> next[d] \in 1 .. Len(ValueLines[d])
    BY <1>1, Known
  <2>2. /\ HeaderFid \in HeaderFids(d)
        /\ next[d] \in 1 .. Len(Rows[d])
        /\ ValueLines[d][next[d]] = Rows[d][next[d]]
    BY RowsOfOneHeader
  <2>3. PICK n \in 1 .. Len(Puts[d]) : Puts[d][n][1] = Rows[d][next[d]]
    BY <2>2, PutsOfOneHeader
  <2> QED
    BY <1>1, <2>1, <2>2, <2>3 DEF HasPut
<1>7. \A e \in Displays \ Otma : (e \in alone => Lone(e))'
  BY <1>1, <1>2, <1>6, Known, LoneAfterStep
<1> QED
  BY <1>5, <1>7 DEF IInv

LEMMA EndRowsInvariant ==
    ASSUME IInv, NEW d \in Displays, EndRows(d)
    PROVE  IInv'
<1> DEFINE p == IF d \in Otma /\ ValueLines[d] # <<>> THEN "failed" ELSE "done"
<1>1. /\ pc[d] = "get" /\ d \in Active
      /\ GoTo(d, p)
      /\ UNCHANGED <<table, array, next, tab, old, alone>>
  BY DEF EndRows, mapVars, Active
<1>2. /\ p \notin Putting /\ p # "get"
      /\ p \in Putting \cup {"get", "done", "failed"}
      /\ d \notin Otma => p = "done"
  BY DEF Putting
<1> HIDE DEF p
<1>3. next[d] \in 1 .. Len(ValueLines[d]) + 1
  BY <1>1, Known DEF Putting
<1>4. next' = [next EXCEPT ![d] = next[d]]
  BY <1>1, Known
<1>5. p \notin {"transfer", "store"}
  BY <1>2 DEF Putting
<1>6. TypeOK' /\ Stages'
  BY <1>1, <1>2, <1>3, <1>4, <1>5, Known, StepKeepsType DEF TypeOK
<1>7. \A e \in Displays \ Otma : (e \in alone => Lone(e))'
  BY <1>1, <1>2, Known, LoneAfterStep
<1> QED
  BY <1>6, <1>7 DEF IInv

LEMMA StepInvariant == IInv /\ [Next]_vars => IInv'
<1> SUFFICES ASSUME IInv, [Next]_vars PROVE IInv'
  OBVIOUS
<1>1. ASSUME NEW d \in Displays, Arrive(d) PROVE IInv'
  BY <1>1, ArriveInvariant
<1>2. ASSUME NEW d \in Displays, ReadTable(d) PROVE IInv'
  BY <1>2, ReadTableInvariant
<1>3. ASSUME NEW d \in Displays, Resize(d) PROVE IInv'
  BY <1>3, ResizeInvariant
<1>4. ASSUME NEW d \in Displays, Publish(d) PROVE IInv'
  BY <1>4, PublishInvariant
<1>5. ASSUME NEW d \in Displays, Transfer(d) PROVE IInv'
  BY <1>5, TransferInvariant
<1>6. ASSUME NEW d \in Displays, Store(d) PROVE IInv'
  BY <1>6, StoreInvariant
<1>7. ASSUME NEW d \in Displays, ReadRow(d) PROVE IInv'
  BY <1>7, ReadRowInvariant
<1>8. ASSUME NEW d \in Displays, FailRow(d) PROVE IInv'
  BY <1>8, FailRowInvariant
<1>9. ASSUME NEW d \in Displays, EndRows(d) PROVE IInv'
  BY <1>9, EndRowsInvariant
<1>10. CASE UNCHANGED vars
  BY <1>10 DEF vars, mapVars, IInv, TypeOK, Stages, Lone, LoneStep, Active, HasPut, Get
<1> QED
  BY <1>1, <1>2, <1>3, <1>4, <1>5, <1>6, <1>7, <1>8, <1>9, <1>10 DEF Next

THEOREM Invariance == Spec => []IInv
BY InitInvariant, StepInvariant, PTL DEF Spec

-----------------------------------------------------------------------------

\* Every variable of FIDReader's map and of the displays keeps to its type: a display
\* stays within the entries processFids puts and within its rows.
THEOREM Typing == Spec => []TypeOK
<1>1. IInv => TypeOK
  BY DEF IInv
<1> QED
  BY <1>1, Invariance, PTL

\* parseResults, in a thread no other overlaps, finds the header of every row in
\* fidToFid, whatever is in there when it begins.
THEOREM LoneDisplaysSucceed == Spec => []AloneSucceeds
<1>1. IInv => AloneSucceeds
  BY DEF IInv, Lone, AloneSucceeds
<1> QED
  BY <1>1, Invariance, PTL

=============================================================================
