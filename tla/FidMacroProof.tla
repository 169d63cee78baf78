----------------------------- MODULE FidMacroProof -----------------------------
(***************************************************************************)
(* The reader of the macros tells values from blanks and cuts the lines at *)
(* the right places, in formats of any length and with definitions of any  *)
(* width, when their comments are ones it can go by (WellMarked).          *)
(*                                                                         *)
(* What it cannot see, whether the last definition was a value, is then    *)
(* what it remembers in hadBlankPreviously (Remembers); with the comment   *)
(* this decides of the next one.  The columns reach from each value to the *)
(* next (ColumnsReach), so that what is left of a line always begins       *)
(* Shift blanks before the value of the next key (RestOfTheLine).          *)
(***************************************************************************)
EXTENDS FidMacro, PositionsProof

ReaderTypes ==
    /\ macro \in Seq(Items) /\ Len(macro) <= MaxItems
    /\ columns \in Seq(Nat \ {0}) /\ Len(columns) <= Len(macro)
    /\ hadBlankPreviously \in BOOLEAN

Remembers ==
    /\ macro = <<>> => ~hadBlankPreviously
    /\ macro # <<>> => (hadBlankPreviously <=> ~macro[Len(macro)].value)

\* A column reaches to the next value, the last one to the end of the definitions.
ColumnsReach ==
    \A k \in 1 .. Len(columns) :
       Start(k) + columns[k] = IF k < Len(columns) THEN Start(k + 1) ELSE Total(Parts)

\* What was read of a macro whose comments the reader can go by.
Reads ==
    /\ Remembers /\ ColumnsReach
    /\ Len(columns) = Cardinality(ValueItems)
    /\ columns # <<>> => Total(columns) = Total(Parts) - Start(1)

IInv == ReaderTypes /\ (WellMarked => Reads)

-----------------------------------------------------------------------------
(* Definitions *)

\* A definition has a width, which is positive, and is a value or not.
LEMMA ItemFields ==
    ASSUME NEW d \in Items
    PROVE  d.value \in BOOLEAN /\ d.width \in Nat \ {0}
<1>1. d.width \in Nat \ {0}
  <2>1. d.width \in Widths \cup {1}
    BY DEF Items
  <2>2. \A w \in Widths \cup {1} : w \in Nat \ {0}
    BY WidthsAssumption
  <2> QED
    BY <2>1, <2>2
<1>2. d.value \in BOOLEAN
  BY DEF Items
<1> QED
  BY <1>1, <1>2

\* One more definition is one more value, or none.
LEMMA ValuesAfterAppend ==
    ASSUME macro \in Seq(Items), NEW d \in Items, macro' = Append(macro, d)
    PROVE  Cardinality(ValueItems)' =
               Cardinality(ValueItems) + (IF d.value THEN 1 ELSE 0)
<1> DEFINE n == Len(macro) + 1
<1>1. Len(macro) \in Nat /\ DOMAIN macro = 1 .. Len(macro)
  OBVIOUS
<1>2. /\ DOMAIN macro' = 1 .. n
      /\ \A i \in 1 .. Len(macro) : macro'[i] = macro[i]
      /\ macro'[n] = d
  BY <1>1
<1>3. IsFiniteSet(ValueItems) /\ n \notin ValueItems
  <2>1. IsFiniteSet(1 .. Len(macro))
    BY <1>1, FS_Interval
  <2>2. ValueItems \in SUBSET (1 .. Len(macro))
    BY <1>1 DEF ValueItems
  <2>3. IsFiniteSet(ValueItems)
    BY <2>1, <2>2, FS_Subset
  <2>4. n \notin 1 .. Len(macro)
    BY <1>1
  <2> QED
    BY <2>2, <2>3, <2>4
<1>4. CASE d.value
  <2>1. ValueItems' = ValueItems \cup {n}
    BY <1>1, <1>2, <1>4 DEF ValueItems
  <2>2. Cardinality(ValueItems \cup {n}) = Cardinality(ValueItems) + 1
    BY <1>3, FS_AddElement
  <2> QED
    BY <1>4, <2>1, <2>2
<1>5. CASE ~d.value
  <2>1. ValueItems' = ValueItems
    BY <1>1, <1>2, <1>5 DEF ValueItems
  <2>2. Cardinality(ValueItems) \in Nat
    BY <1>3, FS_CardinalityType
  <2> QED
    BY <1>5, <2>1, <2>2
<1> QED
  BY <1>4, <1>5

\* A wider column is a column.
LEMMA WidenKeepsColumns ==
    ASSUME columns \in Seq(Nat \ {0}), NEW w \in Nat \ {0}
    PROVE  /\ Widen(columns, w) \in Seq(Nat \ {0})
           /\ Len(Widen(columns, w)) = Len(columns)
<1>1. CASE columns = <<>>
  BY <1>1 DEF Widen
<1>2. CASE columns # <<>>
  <2>1. Len(columns) \in Nat \ {0} /\ columns[Len(columns)] \in Nat \ {0}
    BY <1>2
  <2>2. Widen(columns, w) = [columns EXCEPT ![Len(columns)] = columns[Len(columns)] + w]
    BY <1>2 DEF Widen
  <2>3. columns[Len(columns)] + w \in Nat \ {0}
    BY <2>1
  <2> QED
    BY <2>1, <2>2, <2>3, ExceptSeq
<1> QED
  BY <1>1, <1>2

-----------------------------------------------------------------------------
(* Where the values begin *)

LEMMA PartsType ==
    ASSUME macro \in Seq(Items)
    PROVE  /\ Len(macro) \in Nat
           /\ Parts \in Seq(Nat) /\ Len(Parts) = Len(macro)
           /\ \A i \in 1 .. Len(macro) : Parts[i] = macro[i].width /\ Parts[i] \in Nat \ {0}
           /\ ValueItems \in SUBSET (1 .. Len(macro))
<1>1. /\ Len(macro) \in Nat /\ DOMAIN macro = 1 .. Len(macro)
      /\ \A i \in 1 .. Len(macro) : macro[i] \in Items
  OBVIOUS
<1>2. \A i \in 1 .. Len(macro) : macro[i].width \in Nat \ {0}
  BY <1>1, ItemFields
<1>3. Parts = [i \in 1 .. Len(macro) |-> macro[i].width]
  BY <1>1 DEF Parts
<1>4. \A i \in 1 .. Len(macro) : Parts[i] = macro[i].width /\ Parts[i] \in Nat \ {0}
  BY <1>2, <1>3
<1>5. Parts \in [1 .. Len(macro) -> Nat]
  BY <1>3, <1>4
<1>6. Parts \in Seq(Nat) /\ Len(Parts) = Len(macro)
  BY <1>1, <1>5
<1>7. ValueItems \in SUBSET (1 .. Len(macro))
  BY <1>1 DEF ValueItems
<1> QED
  BY <1>1, <1>4, <1>6, <1>7

\* One more definition makes the line longer by its width.
LEMMA PartsAfterAppend ==
    ASSUME macro \in Seq(Items), NEW d \in Items, macro' = Append(macro, d)
    PROVE  /\ Parts' = Append(Parts, d.width)
           /\ \A i \in 0 .. Len(macro) : Ends(Parts')[i] = Ends(Parts)[i]
           /\ Total(Parts') = Total(Parts) + d.width
           /\ Total(Parts) \in Nat
<1>1. Parts \in Seq(Nat) /\ Len(Parts) = Len(macro) /\ Len(macro) \in Nat /\ d.width \in Nat
  BY PartsType, ItemFields
<1>2. macro' \in Seq(Items) /\ Len(macro') = Len(macro) + 1
  OBVIOUS
<1>3. Parts' \in Seq(Nat) /\ Len(Parts') = Len(macro) + 1
  <2>1. DOMAIN macro' = 1 .. Len(macro) + 1
    BY <1>1, <1>2
  <2>2. Parts' = [i \in 1 .. Len(macro) + 1 |-> macro'[i].width]
    BY <2>1 DEF Parts
  <2>3. \A i \in 1 .. Len(macro) + 1 : macro'[i].width \in Nat
    BY <1>1, <1>2, ItemFields
  <2> QED
    BY <1>1, <2>2, <2>3
<1>4. \A i \in 1 .. Len(macro) + 1 : Parts'[i] = Append(Parts, d.width)[i]
  <2> SUFFICES ASSUME NEW i \in 1 .. Len(macro) + 1
               PROVE  Parts'[i] = Append(Parts, d.width)[i]
    OBVIOUS
  <2>1. Parts'[i] = macro'[i].width
    BY <1>1, <1>2 DEF Parts
  <2>2. CASE i <= Len(macro)
    <3>1. i \in 1 .. Len(macro) /\ macro'[i] = macro[i]
      BY <1>1, <2>2
    <3>2. Parts[i] = macro[i].width
      BY <3>1, PartsType
    <3> QED
      BY <1>1, <2>1, <3>1, <3>2
  <2>3. CASE i = Len(macro) + 1
    BY <1>1, <2>1, <2>3
  <2> QED
    BY <1>1, <2>2, <2>3
<1>5. Parts' = Append(Parts, d.width)
  <2>1. Append(Parts, d.width) \in Seq(Nat) /\ Len(Append(Parts, d.width)) = Len(macro) + 1
    BY <1>1
  <2> QED
    BY <1>3, <1>4, <2>1, SeqEqual
<1>6. Total(Parts) \in Nat
  BY <1>1, EndsDefined DEF Total
<1> QED
  BY <1>1, <1>5, <1>6, EndsAfterAppend

\* The values stay where they are, a new one begins where the line ended.
LEMMA StartsAfterAppend ==
    ASSUME macro \in Seq(Items), NEW d \in Items, macro' = Append(macro, d)
    PROVE  /\ \A k \in 1 .. Cardinality(ValueItems) : Start(k)' = Start(k)
           /\ \A k : d.value /\ k = Cardinality(ValueItems) + 1 => Start(k)' = Total(Parts)
<1> DEFINE n == Len(macro)
<1>1. /\ n \in Nat /\ ValueItems \in SUBSET (1 .. n)
      /\ DOMAIN macro = 1 .. n /\ DOMAIN macro' = 1 .. n + 1
      /\ \A i \in 1 .. n : macro'[i] = macro[i]
      /\ macro'[n + 1] = d
  BY PartsType
<1>2. \A i \in 0 .. n : Ends(Parts')[i] = Ends(Parts)[i]
  BY PartsAfterAppend
<1>3. Len(Parts) = n
  BY PartsType
<1> HIDE DEF n
<1>4. CASE d.value
  <2>1. ValueItems' = ValueItems \cup {n + 1}
    BY <1>1, <1>4 DEF ValueItems
  <2>2. /\ \A k \in 1 .. Cardinality(ValueItems) : ItemOf(k)' = ItemOf(k)
        /\ \A k : k = Cardinality(ValueItems) + 1 => ItemOf(k)' = n + 1
    <3>1. /\ \A k \in 1 .. Cardinality(ValueItems) :
                Nth(ValueItems \cup {n + 1}, k) = Nth(ValueItems, k)
          /\ Nth(ValueItems \cup {n + 1}, Cardinality(ValueItems) + 1) = n + 1
      BY <1>1, NthAfterNew
    <3>2. \A k : ItemOf(k)' = Nth(ValueItems', k) /\ ItemOf(k) = Nth(ValueItems, k)
      BY DEF ItemOf
    <3> QED
      BY <2>1, <3>1, <3>2
  <2>3. ASSUME NEW k \in 1 .. Cardinality(ValueItems)
        PROVE  Start(k)' = Start(k)
    <3>1. ItemOf(k) \in ValueItems
      BY <1>1, NthProperties DEF ItemOf
    <3>2. ItemOf(k) - 1 \in 0 .. n
      <4>1. ItemOf(k) \in 1 .. n
        BY <1>1, <3>1
      <4> QED
        BY <1>1, <4>1
    <3> QED
      BY <1>2, <2>2, <3>2 DEF Start
  <2>4. ASSUME NEW k, k = Cardinality(ValueItems) + 1
        PROVE  Start(k)' = Total(Parts)
    <3>1. (n + 1) - 1 = n /\ n \in 0 .. n
      BY <1>1
    <3>2. Start(k)' = Ends(Parts')[n]
      BY <2>2, <2>4, <3>1 DEF Start
    <3> QED
      BY <1>2, <1>3, <3>1, <3>2 DEF Total
  <2> QED
    BY <2>3, <2>4
<1>5. CASE ~d.value
  <2>1. ValueItems' = ValueItems
    BY <1>1, <1>5 DEF ValueItems
  <2>2. ASSUME NEW k \in 1 .. Cardinality(ValueItems)
        PROVE  Start(k)' = Start(k)
    <3>1. ItemOf(k) \in ValueItems
      BY <1>1, NthProperties DEF ItemOf
    <3>2. ItemOf(k) - 1 \in 0 .. n
      <4>1. ItemOf(k) \in 1 .. n
        BY <1>1, <3>1
      <4> QED
        BY <1>1, <4>1
    <3>3. ItemOf(k)' = ItemOf(k)
      BY <2>1 DEF ItemOf
    <3> QED
      BY <1>2, <3>2, <3>3 DEF Start
  <2> QED
    BY <1>5, <2>2
<1> QED
  BY <1>4, <1>5

\* Where a value begins is a number.
LEMMA StartsType ==
    ASSUME macro \in Seq(Items)
    PROVE  /\ Cardinality(ValueItems) \in Nat /\ Cardinality(ValueItems) <= Len(macro)
           /\ Total(Parts) \in Nat
           /\ \A k \in 1 .. Cardinality(ValueItems) :
                 ItemOf(k) \in 1 .. Len(macro) /\ ItemOf(k) \in ValueItems /\ Start(k) \in Nat
<1> DEFINE n == Len(macro)
           K == Cardinality(ValueItems)
<1>1. /\ Parts \in Seq(Nat) /\ Len(Parts) = n /\ n \in Nat
      /\ ValueItems \in SUBSET (1 .. n)
  BY PartsType
<1>2. K \in Nat /\ K <= n
  <2> HIDE DEF n
  <2>1. n \in Int /\ 1 \in Int /\ (1 > n <=> n = 0)
    BY <1>1
  <2>2. /\ IsFiniteSet(1 .. n)
        /\ Cardinality(1 .. n) = IF 1 > n THEN 0 ELSE n - 1 + 1
    BY <2>1, FS_Interval
  <2>3. IsFiniteSet(1 .. n) /\ Cardinality(1 .. n) = n
    BY <1>1, <2>1, <2>2
  <2>4. IsFiniteSet(ValueItems) /\ K <= n
    BY <1>1, <2>3, FS_Subset
  <2> QED
    BY <2>4, FS_CardinalityType
<1>3. \A i \in 0 .. n : Ends(Parts)[i] \in Nat
  BY <1>1, EndsDefined
<1>4. Total(Parts) \in Nat
  <2>1. n \in 0 .. n
    BY <1>1
  <2> QED
    BY <1>1, <1>3, <2>1 DEF Total
<1>5. ASSUME NEW k \in 1 .. K
      PROVE  ItemOf(k) \in 1 .. n /\ ItemOf(k) \in ValueItems /\ Start(k) \in Nat
  <2>1. ItemOf(k) \in ValueItems
    BY <1>1, NthProperties DEF ItemOf
  <2>2. ItemOf(k) \in 1 .. n
    BY <1>1, <2>1
  <2>3. ItemOf(k) - 1 \in 0 .. n
    BY <1>1, <2>2
  <2> QED
    BY <1>3, <2>1, <2>2, <2>3 DEF Start
<1> QED
  BY <1>2, <1>4, <1>5

-----------------------------------------------------------------------------
(* The steps of the reader *)

\* A definition is taken for a column or widens the last one.
LEMMA ReadsKeepTypes ==
    ASSUME ReaderTypes, NEW d \in Items, macro' = Append(macro, d),
           Len(macro) < MaxItems, hadBlankPreviously' \in BOOLEAN,
           columns' = Append(columns, d.width) \/ columns' = Widen(columns, d.width)
    PROVE  ReaderTypes'
<1>1. /\ macro \in Seq(Items) /\ Len(macro) \in Nat /\ MaxItems \in Nat
      /\ columns \in Seq(Nat \ {0}) /\ Len(columns) \in Nat /\ Len(columns) <= Len(macro)
  BY MaxItemsAssumption DEF ReaderTypes
<1>2. d.width \in Nat \ {0}
  BY ItemFields
<1>3. macro' \in Seq(Items) /\ Len(macro') = Len(macro) + 1 /\ Len(macro') <= MaxItems
  BY <1>1
<1>4. columns' \in Seq(Nat \ {0}) /\ Len(columns') <= Len(columns) + 1
  <2>1. CASE columns' = Append(columns, d.width)
    <3>1. columns' \in Seq(Nat \ {0}) /\ Len(columns') = Len(columns) + 1
      BY <1>1, <1>2, <2>1, AppendProperties
    <3> QED
      BY <1>1, <3>1
  <2>2. CASE columns' = Widen(columns, d.width)
    <3>1. columns' \in Seq(Nat \ {0}) /\ Len(columns') = Len(columns)
      BY <1>1, <1>2, <2>2, WidenKeepsColumns
    <3> QED
      BY <1>1, <3>1
  <2> QED
    BY <2>1, <2>2
<1>5. Len(columns') <= Len(macro')
  BY <1>1, <1>3, <1>4
<1> QED
  BY <1>3, <1>4, <1>5 DEF ReaderTypes

\* With one more definition that is well marked, those before were well marked, and it is
\* a value when it is no single character and has no comment, or follows a blank.
LEMMA MarksAfterAppend ==
    ASSUME macro \in Seq(Items), NEW d \in Items, macro' = Append(macro, d), WellMarked'
    PROVE  /\ WellMarked
           /\ d.value <=> /\ d.kind = "CLn"
                          /\ d.comment => macro # <<>> /\ ~macro[Len(macro)].value
<1> DEFINE n == Len(macro)
<1>1. /\ n \in Nat /\ DOMAIN macro = 1 .. n /\ DOMAIN macro' = 1 .. n + 1
      /\ \A i \in 1 .. n : macro'[i] = macro[i]
      /\ macro'[n + 1] = d
  OBVIOUS
<1>2. \A i \in 1 .. n + 1 :
         macro'[i].value <=> /\ macro'[i].kind = "CLn"
                             /\ macro'[i].comment => i > 1 /\ ~macro'[i - 1].value
  BY <1>1 DEF WellMarked
<1>3. macro # <<>> <=> n + 1 > 1
  BY <1>1, EmptySeq
<1> HIDE DEF n
<1>4. WellMarked
  <2> SUFFICES ASSUME NEW i \in 1 .. n
               PROVE  macro[i].value <=> /\ macro[i].kind = "CLn"
                                         /\ macro[i].comment => i > 1 /\ ~macro[i - 1].value
    BY <1>1 DEF WellMarked
  <2>1. i \in 1 .. n + 1 /\ (i > 1 => i - 1 \in 1 .. n)
    BY <1>1
  <2> QED
    BY <1>1, <1>2, <2>1
<1>5. d.value <=> /\ d.kind = "CLn"
                  /\ d.comment => macro # <<>> /\ ~macro[n].value
  <2>1. n + 1 \in 1 .. n + 1 /\ (n + 1) - 1 = n /\ (n + 1 > 1 => n \in 1 .. n)
    BY <1>1
  <2>2. d.value <=> /\ d.kind = "CLn"
                    /\ d.comment => n + 1 > 1 /\ ~macro'[n].value
    BY <1>1, <1>2, <2>1
  <2>3. n + 1 > 1 => macro'[n] = macro[n]
    BY <1>1, <2>1
  <2> QED
    BY <1>3, <2>2, <2>3
<1> QED
  BY <1>4, <1>5 DEF n

\* A step that takes a value for a column and anything else for a blank, and remembers
\* which it was, reads what it should.
LEMMA ReadsTheNext ==
    ASSUME ReaderTypes, Reads, NEW d \in Items, macro' = Append(macro, d),
           hadBlankPreviously' = ~d.value,
           IF d.value THEN columns' = Append(columns, d.width)
           ELSE columns' = Widen(columns, d.width)
    PROVE  Reads'
<1> DEFINE n == Len(macro)
           K == Cardinality(ValueItems)
<1>0. /\ macro \in Seq(Items) /\ n \in Nat
      /\ columns \in Seq(Nat \ {0}) /\ Len(columns) = K /\ K \in Nat
      /\ \A k \in 1 .. K : columns[k] \in Nat \ {0}
  BY DEF ReaderTypes, Reads
<1>1. d.value \in BOOLEAN /\ d.width \in Nat \ {0}
  BY ItemFields
<1>2. /\ macro' \in Seq(Items) /\ Len(macro') = n + 1 /\ macro' # <<>>
      /\ macro'[n + 1] = d
  BY <1>0
<1>3. Len(columns') = Len(columns) + (IF d.value THEN 1 ELSE 0)
  <2>1. CASE d.value
    <3>1. columns' = Append(columns, d.width) /\ columns \in Seq(Nat \ {0})
      BY <1>0, <2>1
    <3>2. Len(columns') = Len(columns) + 1
      BY <1>1, <3>1, AppendProperties
    <3> QED
      BY <2>1, <3>2
  <2>2. CASE ~d.value
    <3>1. columns' = Widen(columns, d.width)
      BY <2>2
    <3>2. Len(columns') = Len(columns)
      BY <1>0, <1>1, <3>1, WidenKeepsColumns
    <3> QED
      BY <1>0, <2>2, <3>2
  <2> QED
    BY <1>1, <2>1, <2>2
<1>5. Remembers'
  BY <1>0, <1>1, <1>2 DEF Remembers
<1>6. Len(columns') = Cardinality(ValueItems)'
  BY <1>0, <1>3, ValuesAfterAppend
<1>8. /\ Total(Parts') = Total(Parts) + d.width /\ Total(Parts) \in Nat
      /\ \A k \in 1 .. K : Start(k)' = Start(k) /\ Start(k) \in Nat
      /\ \A k : d.value /\ k = K + 1 => Start(k)' = Total(Parts)
      /\ columns \in Seq(Nat)
  <2>1. columns \in Seq(Nat)
    BY <1>0
  <2> QED
    BY <1>0, <2>1, PartsAfterAppend, StartsAfterAppend, StartsType
<1> DEFINE total == Total(Parts)
<1>9. \A m \in Nat : (total - m) + d.width = (total + d.width) - m
  <2>1. total \in Int /\ d.width \in Int
    BY <1>1, <1>8
  <2> HIDE DEF total
  <2> QED
    BY <2>1
<1>11. /\ columns # <<>> => Total(columns) = Total(Parts) - Start(1)
       /\ ColumnsReach
  BY DEF Reads
<1>12. CASE d.value
  <2>1. columns' = Append(columns, d.width)
    BY <1>12
  <2>2. Total(columns') = Total(columns) + d.width
    BY <1>1, <1>8, <2>1, EndsAfterAppend
  <2>4. Total(columns') = Total(Parts') - Start(1)'
    <3>1. CASE columns = <<>>
      <4>1. Len(columns) = 0 /\ Ends(columns)[0] = 0
        BY <1>8, <3>1, EndsDefined, EmptySeq
      <4>2. Total(columns) = 0
        BY <4>1 DEF Total
      <4>3. 1 = K + 1
        BY <1>0, <4>1
      <4>4. Start(1)' = total
        BY <1>8, <1>12, <4>3
      <4>5. total \in Nat /\ Total(Parts') = total + d.width
        BY <1>8
      <4> HIDE DEF total
      <4>6. (total + d.width) - total = d.width /\ 0 + d.width = d.width
        BY <1>1, <4>5
      <4> QED
        BY <2>2, <4>2, <4>4, <4>5, <4>6
    <3>2. CASE columns # <<>>
      <4>1. 1 \in 1 .. K
        BY <1>0, <3>2, EmptySeq
      <4>2. Start(1)' = Start(1) /\ Start(1) \in Nat
        BY <1>8, <4>1
      <4>3. Total(columns') = (Total(Parts) - Start(1)) + d.width
        BY <1>11, <2>2, <3>2
      <4>4. (total - Start(1)) + d.width = (total + d.width) - Start(1)
        BY <1>9, <4>2
      <4> QED
        BY <1>8, <4>2, <4>3, <4>4
    <3> QED
      BY <3>1, <3>2
  <2>5. /\ Len(columns') = K + 1 /\ columns'[K + 1] = d.width
        /\ \A k \in 1 .. K : columns'[k] = columns[k]
    BY <1>0, <2>1
  <2>7. ASSUME NEW k \in 1 .. Len(columns')
        PROVE  Start(k)' + columns'[k] =
                  IF k < Len(columns') THEN Start(k + 1)' ELSE Total(Parts')
    <3>1. k \in 1 .. K + 1
      BY <2>5
    <3> HIDE DEF K
    <3>2. CASE k < K
      <4>1. k \in 1 .. K /\ k + 1 \in 1 .. K /\ k < K + 1
        BY <1>0, <3>1, <3>2
      <4>2. Start(k) + columns[k] = Start(k + 1)
        BY <1>0, <1>11, <3>2, <4>1 DEF ColumnsReach
      <4> QED
        BY <1>8, <2>5, <4>1, <4>2
    <3>3. CASE k = K
      <4>1. k \in 1 .. K /\ ~ (k < K) /\ k < K + 1
        BY <1>0, <3>1, <3>3
      <4>2. Start(k) + columns[k] = Total(Parts)
        BY <1>0, <1>11, <4>1 DEF ColumnsReach
      <4> QED
        BY <1>8, <1>12, <2>5, <3>3, <4>1, <4>2
    <3>4. CASE k = K + 1
      <4>1. ~ (k < K + 1)
        BY <1>0, <3>4
      <4> QED
        BY <1>8, <1>12, <2>5, <3>4, <4>1
    <3> QED
      BY <1>0, <3>1, <3>2, <3>3, <3>4
  <2>8. ColumnsReach'
    BY <2>7 DEF ColumnsReach
  <2> QED
    BY <1>5, <1>6, <2>4, <2>8 DEF Reads
<1>13. CASE ~d.value
  <2>1. columns' = Widen(columns, d.width)
    BY <1>13
  <2>2. CASE columns = <<>>
    <3>1. columns' = <<>>
      BY <2>1, <2>2 DEF Widen
    <3>2. ColumnsReach'
      BY <3>1, EmptySeq DEF ColumnsReach
    <3> QED
      BY <1>5, <1>6, <3>1, <3>2 DEF Reads
  <2>3. CASE columns # <<>>
    <3>1. K \in Nat \ {0} /\ columns[K] \in Nat /\ 1 \in 1 .. K
      BY <1>0, <2>3, EmptySeq
    <3>2. columns' = [columns EXCEPT ![K] = columns[K] + d.width]
      BY <1>0, <2>1, <2>3 DEF Widen
    <3>3. Total(columns') = Total(columns) + d.width
      BY <1>0, <1>1, <1>8, <2>3, <3>2, TotalAfterWidening
    <3>4. Total(columns') = Total(Parts') - Start(1)'
      <4>1. Start(1)' = Start(1) /\ Start(1) \in Nat
        BY <1>8, <3>1
      <4>2. Total(columns') = (Total(Parts) - Start(1)) + d.width
        BY <1>11, <2>3, <3>3
      <4>3. (total - Start(1)) + d.width = (total + d.width) - Start(1)
        BY <1>9, <4>1
      <4> QED
        BY <1>8, <4>1, <4>2, <4>3
    <3>5. /\ Len(columns') = K /\ columns'[K] = columns[K] + d.width
          /\ \A k \in 1 .. K : k < K => columns'[k] = columns[k]
      BY <1>0, <3>1, <3>2
    <3>7. ASSUME NEW k \in 1 .. Len(columns')
          PROVE  Start(k)' + columns'[k] =
                    IF k < Len(columns') THEN Start(k + 1)' ELSE Total(Parts')
      <4>0. k \in 1 .. K
        BY <3>5
      <4> HIDE DEF K
      <4>1. CASE k < K
        <5>1. k + 1 \in 1 .. K
          BY <3>1, <4>0, <4>1
        <5>2. Start(k) + columns[k] = Start(k + 1)
          BY <1>0, <1>11, <4>0, <4>1 DEF ColumnsReach
        <5> QED
          BY <1>8, <3>5, <4>0, <4>1, <5>1, <5>2
      <4>2. CASE k = K
        <5>1. ~ (k < K)
          BY <3>1, <4>2
        <5>2. Start(k) + columns[k] = Total(Parts)
          BY <1>0, <1>11, <4>0, <5>1 DEF ColumnsReach
        <5>3. Start(k) \in Nat
          BY <1>8, <4>0
        <5>4. columns'[k] = columns[k] + d.width /\ columns[k] \in Nat /\ Start(k)' = Start(k)
          BY <1>8, <3>1, <3>5, <4>0, <4>2
        <5>5. Total(Parts') = (Start(k) + columns[k]) + d.width
          BY <1>8, <5>2
        <5>6. Start(k)' + columns'[k] = Total(Parts')
          BY <1>1, <5>3, <5>4, <5>5
        <5> QED
          BY <3>5, <5>1, <5>6
      <4> QED
        BY <3>1, <4>0, <4>1, <4>2
    <3>8. ColumnsReach'
      BY <3>7 DEF ColumnsReach
    <3> QED
      BY <1>5, <1>6, <3>4, <3>8 DEF Reads
  <2> QED
    BY <2>2, <2>3
<1> QED
  BY <1>1, <1>12, <1>13

\* A comment of blanks after a value, or at the start, stands at a blank.
LEMMA AddBlankStep ==
    ASSUME IInv, NEW d \in Items, AddBlank(d)
    PROVE  IInv'
<1>1. macro' = Append(macro, d) /\ Len(macro) < MaxItems /\ d.kind = "CLn"
  BY DEF AddBlank, ReadsOne
<1>2. d.comment /\ ~hadBlankPreviously
  BY DEF AddBlank
<1>3. hadBlankPreviously' = TRUE /\ columns' = Widen(columns, d.width)
  BY DEF AddBlank
<1>4. ReaderTypes /\ macro \in Seq(Items)
  BY DEF IInv, ReaderTypes
<1>5. ReaderTypes'
  BY <1>1, <1>3, <1>4, ReadsKeepTypes
<1>6. ASSUME WellMarked'
      PROVE  Reads'
  <2>1. /\ WellMarked
        /\ d.value <=> /\ d.kind = "CLn"
                       /\ d.comment => macro # <<>> /\ ~macro[Len(macro)].value
    BY <1>1, <1>4, <1>6, MarksAfterAppend
  <2>2. Reads
    BY <2>1 DEF IInv
  <2>3. ~d.value
    BY <1>2, <2>1, <2>2 DEF Reads, Remembers
  <2>4. hadBlankPreviously' = ~d.value
    BY <1>3, <2>3
  <2> QED
    BY <1>1, <1>3, <1>4, <2>2, <2>3, <2>4, ReadsTheNext
<1> QED
  BY <1>5, <1>6 DEF IInv

\* A single character is a blank.
LEMMA AddSingleStep ==
    ASSUME IInv, NEW d \in Items, AddSingle(d)
    PROVE  IInv'
<1>1. macro' = Append(macro, d) /\ Len(macro) < MaxItems /\ d.kind = "C"
  BY DEF AddSingle, ReadsOne
<1>2. d.width = 1
  BY <1>1 DEF Items
<1>3. hadBlankPreviously' = TRUE /\ columns' = Widen(columns, d.width)
  BY <1>2 DEF AddSingle
<1>4. ReaderTypes /\ macro \in Seq(Items)
  BY DEF IInv, ReaderTypes
<1>5. ReaderTypes'
  BY <1>1, <1>3, <1>4, ReadsKeepTypes
<1>6. ASSUME WellMarked'
      PROVE  Reads'
  <2>1. /\ WellMarked
        /\ d.value <=> /\ d.kind = "CLn"
                       /\ d.comment => macro # <<>> /\ ~macro[Len(macro)].value
    BY <1>1, <1>4, <1>6, MarksAfterAppend
  <2>2. Reads
    BY <2>1 DEF IInv
  <2>3. ~d.value
    BY <1>1, <2>1
  <2>4. hadBlankPreviously' = ~d.value
    BY <1>3, <2>3
  <2> QED
    BY <1>1, <1>3, <1>4, <2>2, <2>3, <2>4, ReadsTheNext
<1> QED
  BY <1>5, <1>6 DEF IInv

\* A definition without a comment, or with one after a blank, is a value.
LEMMA AddColumnStep ==
    ASSUME IInv, NEW d \in Items, AddColumn(d)
    PROVE  IInv'
<1>1. macro' = Append(macro, d) /\ Len(macro) < MaxItems /\ d.kind = "CLn"
  BY DEF AddColumn, ReadsOne
<1>2. ~d.comment \/ hadBlankPreviously
  BY DEF AddColumn
<1>3. hadBlankPreviously' = FALSE /\ columns' = Append(columns, d.width)
  BY DEF AddColumn
<1>4. ReaderTypes /\ macro \in Seq(Items)
  BY DEF IInv, ReaderTypes
<1>5. ReaderTypes'
  BY <1>1, <1>3, <1>4, ReadsKeepTypes
<1>6. ASSUME WellMarked'
      PROVE  Reads'
  <2>1. /\ WellMarked
        /\ d.value <=> /\ d.kind = "CLn"
                       /\ d.comment => macro # <<>> /\ ~macro[Len(macro)].value
    BY <1>1, <1>4, <1>6, MarksAfterAppend
  <2>2. Reads
    BY <2>1 DEF IInv
  <2>3. d.value
    BY <1>1, <1>2, <2>1, <2>2 DEF Reads, Remembers
  <2>4. hadBlankPreviously' = ~d.value
    BY <1>3, <2>3
  <2> QED
    BY <1>1, <1>3, <1>4, <2>2, <2>3, <2>4, ReadsTheNext
<1> QED
  BY <1>5, <1>6 DEF IInv

\* The cutting of lines leaves what was built.
LEMMA LineUnchanged ==
    ASSUME UNCHANGED built
    PROVE  /\ ValueItems' = ValueItems
           /\ Parts' = Parts
           /\ \A k : Start(k)' = Start(k)
<1>1. macro' = macro
  BY DEF built
<1>2. ValueItems' = ValueItems
  BY <1>1 DEF ValueItems
<1>3. Parts' = Parts
  BY <1>1 DEF Parts
<1>4. ASSUME NEW k
      PROVE  Start(k)' = Start(k)
  <2>1. ItemOf(k)' = ItemOf(k)
    BY <1>2 DEF ItemOf
  <2> QED
    BY <1>3, <2>1 DEF Start
<1> QED
  BY <1>2, <1>3, <1>4

LEMMA CuttingSteps ==
    ASSUME IInv, UNCHANGED built
    PROVE  IInv'
<1>1. /\ macro' = macro /\ columns' = columns
      /\ hadBlankPreviously' = hadBlankPreviously
  BY DEF built
<1>2. ReaderTypes' /\ (Remembers => Remembers') /\ (WellMarked' => WellMarked)
  BY <1>1 DEF IInv, ReaderTypes, Remembers, WellMarked
<1>3. ColumnsReach => ColumnsReach'
  BY <1>1, LineUnchanged DEF ColumnsReach
<1>4. Reads => Reads'
  BY <1>1, <1>2, <1>3, LineUnchanged DEF Reads
<1> QED
  BY <1>2, <1>4 DEF IInv

LEMMA InitIInv == Init => IInv
<1> SUFFICES ASSUME Init PROVE IInv
  OBVIOUS
<1>1. macro = <<>> /\ columns = <<>> /\ hadBlankPreviously = FALSE
  BY DEF Init
<1>2. ReaderTypes
  <2>1. Len(macro) <= MaxItems /\ Len(columns) <= Len(macro)
    BY <1>1, EmptySeq, MaxItemsAssumption
  <2> QED
    BY <1>1, <2>1, EmptySeq DEF ReaderTypes
<1>3. Len(columns) = Cardinality(ValueItems)
  <2>1. ValueItems = {}
    BY <1>1 DEF ValueItems
  <2> QED
    BY <1>1, <2>1, FS_EmptySet
<1> QED
  BY <1>1, <1>2, <1>3 DEF IInv, Reads, Remembers, ColumnsReach

LEMMA NextIInv == IInv /\ [Next]_vars => IInv'
<1> SUFFICES ASSUME IInv, [Next]_vars PROVE IInv'
  OBVIOUS
<1>1. ASSUME NEW d \in Items, AddBlank(d) \/ AddSingle(d) \/ AddColumn(d)
      PROVE  IInv'
  BY <1>1, AddBlankStep, AddSingleStep, AddColumnStep
<1>2. CASE EndSection \/ BeginLine \/ LeaveEmpty \/ TakeRest \/ TakeColumn \/ EndLine
  BY <1>2, CuttingSteps
     DEF EndSection, BeginLine, LeaveEmpty, TakeRest, TakeColumn, EndLine, Cuts
<1>3. CASE UNCHANGED vars
  BY <1>3, CuttingSteps DEF vars, built
<1> QED
  BY <1>1, <1>2, <1>3 DEF Next

\* What the reader knows of a macro holds at every step.
THEOREM Invariance == Spec => []IInv
BY InitIInv, NextIInv, PTL DEF Spec

\* buildFIDObjects finds a column for each value and no other, in a well marked macro of
\* any length.
THEOREM ValuesAreColumns == Spec => []OneColumnPerValue
<1>1. IInv => OneColumnPerValue
  BY DEF IInv, Reads, OneColumnPerValue
<1> QED
  BY <1>1, Invariance, PTL

-----------------------------------------------------------------------------
(* Characters *)

\* The least and the greatest of positions.
LEMMA MinAndMax ==
    ASSUME NEW n \in Nat, NEW S \in SUBSET (1 .. n), S # {}
    PROVE  /\ Min(S) \in S /\ \A i \in S : Min(S) <= i
           /\ Max(S) \in S /\ \A i \in S : i <= Max(S)
<1>1. \A i \in S : i \in 1 .. n
  OBVIOUS
<1>2. \E i \in S : \A j \in S : i <= j
  <2>1. S \in SUBSET Nat
    BY <1>1
  <2> QED
    BY <2>1, LeastNatural
<1>3. \E i \in S : \A j \in S : j <= i
  <2> DEFINE T == {m \in 0 .. n : n - m \in S}
  <2>1. T \in SUBSET Nat /\ T # {} /\ \A i \in S : n - i \in T
    <3>1. \A i \in S : n - i \in 0 .. n /\ n - (n - i) = i
      BY <1>1
    <3>2. \A i \in S : n - i \in T
      BY <3>1
    <3>3. T \in SUBSET Nat
      OBVIOUS
    <3> HIDE DEF T
    <3> QED
      BY <3>2, <3>3
  <2>2. PICK m \in T : \A j \in T : m <= j
    <3> HIDE DEF T
    <3> QED
      BY <2>1, LeastNatural
  <2>3. n - m \in S /\ m \in 0 .. n
    OBVIOUS
  <2>4. \A j \in S : m <= n - j
    BY <2>1, <2>2
  <2>5. \A j \in S : j <= n - m
    BY <1>1, <2>3, <2>4
  <2> QED
    BY <2>3, <2>5
<1>4. Min(S) \in S /\ \A i \in S : Min(S) <= i
  BY <1>2 DEF Min
<1>5. Max(S) \in S /\ \A i \in S : i <= Max(S)
  <2>1. \E i \in S : \A j \in S : i >= j
    BY <1>1, <1>3
  <2>2. Max(S) \in S /\ \A i \in S : Max(S) >= i
    BY <2>1 DEF Max
  <2> QED
    BY <1>1, <2>2
<1> QED
  BY <1>4, <1>5

\* What TrimRight leaves is a first part of the line that has all its characters.
LEMMA TrimRightLeaves ==
    ASSUME NEW C, NEW s \in Seq(C)
    PROVE  /\ TrimRight(s) \in Seq(C) /\ Len(TrimRight(s)) <= Len(s)
           /\ \A i \in 1 .. Len(TrimRight(s)) : TrimRight(s)[i] = s[i]
           /\ \A i \in 1 .. Len(s) : s[i] # Filler => i <= Len(TrimRight(s))
<1> DEFINE n == Len(s)
           kept == {i \in DOMAIN s : s[i] # Filler}
<1>1. n \in Nat /\ kept \in SUBSET (1 .. n)
  OBVIOUS
<1>2. CASE kept = {}
  <2>1. TrimRight(s) = <<>>
    BY <1>2 DEF TrimRight
  <2> QED
    BY <1>1, <1>2, <2>1, EmptySeq
<1>3. CASE kept # {}
  <2>1. TrimRight(s) = SubSeq(s, 1, Max(kept))
    BY <1>3 DEF TrimRight
  <2>2. Max(kept) \in kept /\ \A i \in kept : i <= Max(kept)
    <3> HIDE DEF kept, n
    <3> QED
      BY <1>1, <1>3, MinAndMax
  <2>3. Max(kept) \in 1 .. n
    BY <2>2
  <2>4. \A i \in 1 .. n : s[i] # Filler => i <= Max(kept)
    BY <2>2
  <2> HIDE DEF kept
  <2> QED
    BY <2>1, <2>3, <2>4
<1> QED
  BY <1>2, <1>3

\* Trimming leaves characters of the line.
LEMMA TrimType ==
    ASSUME NEW C, NEW s \in Seq(C)
    PROVE  Trim(s) \in Seq(C)
<1> DEFINE n == Len(s)
           kept == {i \in DOMAIN s : s[i] # Filler}
<1>1. n \in Nat /\ kept \in SUBSET (1 .. n)
  OBVIOUS
<1>2. CASE kept = {}
  <2>1. Trim(s) = <<>>
    BY <1>2 DEF Trim
  <2> QED
    BY <2>1, EmptySeq
<1>3. CASE kept # {}
  <2>1. Trim(s) = SubSeq(s, Min(kept), Max(kept))
    BY <1>3 DEF Trim
  <2>2. Min(kept) \in kept /\ Max(kept) \in kept
    <3> HIDE DEF kept, n
    <3> QED
      BY <1>1, <1>3, MinAndMax
  <2>3. Min(kept) \in 1 .. n /\ Max(kept) \in 1 .. n
    BY <2>2
  <2> HIDE DEF kept
  <2> QED
    BY <2>1, <2>3
<1> QED
  BY <1>2, <1>3

\* The characters of a value, with fillers before and after them.
LEMMA TrimLeaves ==
    ASSUME NEW s \in Seq(Nat), NEW b \in Nat, NEW n \in Nat, n > 0 => b + n <= Len(s),
           NEW c \in Nat \ {0},
           \A i \in 1 .. Len(s) : s[i] = IF b < i /\ i <= b + n THEN c ELSE Filler
    PROVE  Trim(s) = Fill(n, c)
<1> DEFINE kept == {i \in DOMAIN s : s[i] # Filler}
<1>1. kept = {i \in 1 .. Len(s) : b < i /\ i <= b + n}
  BY DEF Filler
<1>2. CASE n = 0
  <2>1. kept = {}
    BY <1>1, <1>2
  <2>2. Trim(s) = <<>>
    BY <2>1 DEF Trim
  <2> QED
    BY <1>2, <2>2 DEF Fill
<1>3. CASE n # 0
  <2> DEFINE m == b + n
             S == b + 1 .. m
  <2>0. m \in Nat /\ m <= Len(s) /\ Len(s) \in Nat
    BY <1>3
  <2>1. kept = S
    <3> HIDE DEF kept
    <3>1. \A i \in kept : i \in S
      BY <1>1, <2>0
    <3>2. \A i \in S : i \in kept
      BY <1>1, <2>0
    <3> HIDE DEF S
    <3> QED
      BY <3>1, <3>2
  <2>2. S # {} /\ S \in SUBSET (1 .. m) /\ b + 1 \in S /\ m \in S
    BY <1>3
  <2>3. /\ Min(S) \in S /\ Min(S) <= b + 1
        /\ Max(S) \in S /\ m <= Max(S)
    <3> HIDE DEF S, m
    <3> QED
      BY <2>0, <2>2, MinAndMax
  <2>4. Min(S) = b + 1 /\ Max(S) = m
    BY <2>3
  <2>5. Trim(s) = SubSeq(s, b + 1, m)
    BY <2>1, <2>2, <2>4 DEF Trim
  <2>6. /\ SubSeq(s, b + 1, m) \in Seq(Nat) /\ Len(SubSeq(s, b + 1, m)) = n
        /\ \A i \in 1 .. n : SubSeq(s, b + 1, m)[i] = s[b + i]
    <3> DEFINE first == b + 1
    <3>1. /\ first \in Int /\ m \in Int /\ first <= m /\ m - first + 1 = n
          /\ \A i \in 1 .. n : first + i - 1 = b + i
      BY <1>3
    <3>2. \A i \in first .. m : s[i] \in Nat
      BY <2>0
    <3> HIDE DEF first, m
    <3>3. /\ SubSeq(s, first, m) \in Seq(Nat)
          /\ Len(SubSeq(s, first, m)) = m - first + 1
          /\ \A i \in 1 .. m - first + 1 : SubSeq(s, first, m)[i] = s[first + i - 1]
      BY <3>1, <3>2, SubSeqProperties
    <3> QED
      BY <3>1, <3>3 DEF first
  <2>7. \A i \in 1 .. n : s[b + i] = c
    BY <2>0
  <2>8. /\ Fill(n, c) \in Seq(Nat) /\ Len(Fill(n, c)) = n
        /\ \A i \in 1 .. n : Fill(n, c)[i] = c
    BY DEF Fill
  <2> HIDE DEF m
  <2>9. \A i \in 1 .. n : SubSeq(s, b + 1, m)[i] = Fill(n, c)[i]
    BY <2>6, <2>7, <2>8
  <2> QED
    BY <2>5, <2>6, <2>8, <2>9, SeqEqual
<1> QED
  BY <1>2, <1>3

-----------------------------------------------------------------------------
(* A line *)

\* Values follow each other, each in its column.
LEMMA Layout ==
    ASSUME IInv, WellMarked
    PROVE  /\ Len(columns) = Cardinality(ValueItems) /\ Len(columns) \in Nat
           /\ Len(columns) <= Len(macro) /\ Len(macro) \in Nat
           /\ Total(Parts) \in Nat
           /\ \A k \in 1 .. Len(columns) :
                 /\ Start(k) \in Nat /\ columns[k] \in Nat \ {0}
                 /\ macro[ItemOf(k)].width \in Nat
                 /\ macro[ItemOf(k)].width <= columns[k]
                 /\ Start(k) + columns[k] <= Total(Parts)
           /\ \A k, l \in 1 .. Len(columns) : k < l => Start(k) + columns[k] <= Start(l)
<1> DEFINE K == Len(columns)
           n == Len(macro)
<1>1. /\ macro \in Seq(Items) /\ n \in Nat /\ columns \in Seq(Nat \ {0}) /\ K \in Nat
      /\ K = Cardinality(ValueItems)
      /\ \A k \in 1 .. K : columns[k] \in Nat \ {0}
  BY DEF IInv, ReaderTypes, Reads
<1>2. /\ Parts \in Seq(Nat) /\ Len(Parts) = n
      /\ \A i \in 1 .. n : Parts[i] = macro[i].width /\ Parts[i] \in Nat
      /\ ValueItems \in SUBSET (1 .. n)
  BY <1>1, PartsType
<1>3. /\ \A i \in 0 .. n : Ends(Parts)[i] \in Nat
      /\ \A i \in 1 .. n : Ends(Parts)[i] = Ends(Parts)[i - 1] + Parts[i]
      /\ \A i, j \in 0 .. n : i <= j => Ends(Parts)[i] <= Ends(Parts)[j]
      /\ Total(Parts) = Ends(Parts)[n]
  <2>1. \A i, j \in 0 .. n : i <= j => Ends(Parts)[i] <= Ends(Parts)[j]
    BY <1>2, EndsGrow
  <2> QED
    BY <1>2, <2>1, EndsDefined DEF Total
<1>4. /\ \A k \in 1 .. K : ItemOf(k) \in 1 .. n
      /\ \A k, l \in 1 .. K : k < l => ItemOf(k) < ItemOf(l)
  <2>1. /\ \A k \in 1 .. K : ItemOf(k) \in ValueItems
        /\ \A k, l \in 1 .. K : k < l => ItemOf(k) < ItemOf(l)
    BY <1>1, <1>2, NthProperties DEF ItemOf
  <2> QED
    BY <1>2, <2>1
<1>5. K <= n
  BY <1>1, StartsType
<1> HIDE DEF K, n
<1>6. ASSUME NEW k \in 1 .. K
      PROVE  /\ Start(k) \in Nat
             /\ Start(k) + macro[ItemOf(k)].width = Ends(Parts)[ItemOf(k)]
             /\ ItemOf(k) - 1 \in 0 .. n /\ ItemOf(k) \in 0 .. n
  <2>1. ItemOf(k) \in 1 .. n
    BY <1>4
  <2>2. ItemOf(k) - 1 \in 0 .. n /\ ItemOf(k) \in 0 .. n
    BY <1>1, <2>1
  <2> QED
    BY <1>2, <1>3, <2>1, <2>2 DEF Start
<1>7. \A k \in 1 .. K :
         Start(k) + columns[k] = IF k < K THEN Start(k + 1) ELSE Total(Parts)
  BY DEF IInv, Reads, ColumnsReach, K
<1>8. ASSUME NEW k \in 1 .. K, NEW l \in 1 .. K, k < l
      PROVE  Start(k) + columns[k] <= Start(l)
  <2>1. k + 1 \in 1 .. K /\ k < K /\ (k + 1 < l \/ k + 1 = l)
    BY <1>1, <1>8
  <2>2. ItemOf(k + 1) <= ItemOf(l)
    BY <1>1, <1>4, <2>1
  <2>3. ItemOf(k + 1) - 1 <= ItemOf(l) - 1
    BY <1>4, <2>1, <2>2
  <2>4. Start(k + 1) <= Start(l)
    BY <1>3, <1>6, <2>1, <2>3 DEF Start
  <2> QED
    BY <1>7, <2>1, <2>4
<1>9. ASSUME NEW k \in 1 .. K
      PROVE  /\ macro[ItemOf(k)].width \in Nat
             /\ macro[ItemOf(k)].width <= columns[k]
             /\ Start(k) + columns[k] <= Total(Parts)
  <2>1. macro[ItemOf(k)].width \in Nat /\ columns[k] \in Nat /\ Start(k) \in Nat
    BY <1>1, <1>2, <1>4, <1>6
  <2>2. /\ Ends(Parts)[ItemOf(k)] <= Start(k) + columns[k]
        /\ Start(k) + columns[k] <= Total(Parts)
    <3>1. CASE k < K
      <4>1. k + 1 \in 1 .. K /\ k < k + 1
        BY <1>1, <3>1
      <4>2. ItemOf(k) < ItemOf(k + 1)
        BY <1>4, <4>1
      <4>3. ItemOf(k) <= ItemOf(k + 1) - 1 /\ ItemOf(k + 1) - 1 <= n /\ n \in 0 .. n
        BY <1>1, <1>4, <4>1, <4>2
      <4>4. ItemOf(k) \in 0 .. n /\ ItemOf(k + 1) - 1 \in 0 .. n
        BY <1>6, <4>1
      <4>5. Ends(Parts)[ItemOf(k)] <= Start(k + 1) /\ Start(k + 1) <= Total(Parts)
        BY <1>3, <4>3, <4>4 DEF Start
      <4> QED
        BY <1>7, <3>1, <4>5
    <3>2. CASE ~ (k < K)
      <4>1. Start(k) + columns[k] = Total(Parts)
        BY <1>7, <3>2
      <4>2. ItemOf(k) \in 0 .. n /\ n \in 0 .. n /\ ItemOf(k) <= n
        BY <1>1, <1>6
      <4>3. Ends(Parts)[ItemOf(k)] <= Total(Parts)
        BY <1>3, <4>2
      <4>4. Total(Parts) \in Nat
        BY <1>3, <4>2
      <4> QED
        BY <4>1, <4>3, <4>4
    <3> QED
      BY <3>1, <3>2
  <2>3. Start(k) + macro[ItemOf(k)].width <= Start(k) + columns[k]
    BY <1>6, <2>2
  <2> QED
    BY <2>1, <2>2, <2>3
<1>10. Total(Parts) \in Nat
  <2>1. n \in 0 .. n
    BY <1>1
  <2> QED
    BY <1>3, <2>1
<1> QED
  BY <1>1, <1>5, <1>6, <1>8, <1>9, <1>10 DEF K, n

\* A line has the width of the definitions, and characters of their values.
LEMMA LineType ==
    ASSUME macro \in Seq(Items), NEW lengths \in [1 .. Cardinality(ValueItems) -> Nat]
    PROVE  /\ LineOf(lengths) \in Seq(0 .. Cardinality(ValueItems))
           /\ Len(LineOf(lengths)) = Total(Parts)
<1> DEFINE K == Cardinality(ValueItems)
           written == UNION {{<<Start(k) + i, k>> : i \in 1 .. lengths[k]} : k \in DOMAIN lengths}
           line == LineOf(lengths)
<1>1. K \in Nat /\ DOMAIN lengths = 1 .. K /\ Total(Parts) \in Nat
  BY StartsType
<1>2. line = [p \in 1 .. Total(Parts) |->
                IF \E k \in 1 .. K : <<p, k>> \in written
                THEN CHOOSE k \in 1 .. K : <<p, k>> \in written
                ELSE Filler]
  BY <1>1 DEF LineOf
<1> HIDE DEF written, line, K
<1>3. \A p \in 1 .. Total(Parts) : line[p] \in 0 .. K
  <2> SUFFICES ASSUME NEW p \in 1 .. Total(Parts)
               PROVE  line[p] \in 0 .. K
    OBVIOUS
  <2>1. CASE \E k \in 1 .. K : <<p, k>> \in written
    <3>1. line[p] \in 1 .. K
      BY <1>2, <2>1
    <3> QED
      BY <1>1, <3>1
  <2>2. CASE ~ \E k \in 1 .. K : <<p, k>> \in written
    BY <1>1, <1>2, <2>2 DEF Filler
  <2> QED
    BY <2>1, <2>2
<1>4. line \in [1 .. Total(Parts) -> 0 .. K]
  BY <1>2, <1>3
<1>5. line \in Seq(0 .. K) /\ Len(line) = Total(Parts)
  BY <1>1, <1>4
<1> QED
  BY <1>5 DEF line, K

\* Each value of a line stands in its column, from the left, with blanks before the first.
LEMMA LineCharacters ==
    ASSUME IInv, WellMarked, NEW lengths \in [1 .. Len(columns) -> Nat],
           \A k \in 1 .. Len(columns) : lengths[k] <= columns[k]
    PROVE  /\ Len(columns) > 0 =>
                \A p \in 1 .. Start(1) : LineOf(lengths)[p] = Filler
           /\ \A k \in 1 .. Len(columns) : \A p \in 1 .. columns[k] :
                 LineOf(lengths)[Start(k) + p] = IF p <= lengths[k] THEN k ELSE Filler
<1> DEFINE K == Len(columns)
           written == UNION {{<<Start(k) + i, k>> : i \in 1 .. lengths[k]} : k \in DOMAIN lengths}
           line == LineOf(lengths)
<1>1. /\ K \in Nat /\ DOMAIN lengths = 1 .. K
      /\ Total(Parts) \in Nat
      /\ \A k \in 1 .. K : /\ Start(k) \in Nat /\ columns[k] \in Nat \ {0}
                           /\ Start(k) + columns[k] <= Total(Parts)
                           /\ lengths[k] \in Nat /\ lengths[k] <= columns[k]
      /\ \A k, l \in 1 .. K : k < l => Start(k) + columns[k] <= Start(l)
  BY Layout
<1>2. line = [p \in 1 .. Total(Parts) |->
                IF \E k \in 1 .. K : <<p, k>> \in written
                THEN CHOOSE k \in 1 .. K : <<p, k>> \in written
                ELSE Filler]
  BY <1>1 DEF LineOf
<1>3. \A p, k : <<p, k>> \in written <=> k \in 1 .. K /\ \E i \in 1 .. lengths[k] : p = Start(k) + i
  BY <1>1
<1> HIDE DEF written, line, K
<1>4. ASSUME K > 0, NEW p \in 1 .. Start(1)
      PROVE  line[p] = Filler
  <2>1. /\ 1 \in 1 .. K /\ Start(1) \in Nat /\ columns[1] \in Nat
        /\ Start(1) + columns[1] <= Total(Parts)
    BY <1>1, <1>4
  <2>2. p \in 1 .. Total(Parts) /\ p <= Start(1) /\ p \in Nat
    BY <1>1, <2>1
  <2>3. ASSUME NEW k \in 1 .. K, <<p, k>> \in written
        PROVE  FALSE
    <3>1. PICK i \in 1 .. lengths[k] : p = Start(k) + i
      BY <1>3, <2>3
    <3>2. Start(k) \in Nat /\ lengths[k] \in Nat /\ (k = 1 \/ 1 < k)
      BY <1>1
    <3>3. 1 < k => Start(1) + columns[1] <= Start(k)
      BY <1>1, <2>1
    <3>4. Start(1) <= Start(k)
      BY <2>1, <3>2, <3>3
    <3>5. Start(k) < p
      BY <3>1, <3>2
    <3> QED
      BY <2>1, <2>2, <3>2, <3>4, <3>5
  <2> QED
    BY <1>2, <2>2, <2>3
<1>5. ASSUME NEW k \in 1 .. K, NEW p \in 1 .. columns[k]
      PROVE  line[Start(k) + p] = IF p <= lengths[k] THEN k ELSE Filler
  <2> DEFINE q == Start(k) + p
  <2>1. q \in 1 .. Total(Parts)
    <3>1. /\ Start(k) \in Nat /\ columns[k] \in Nat /\ Total(Parts) \in Nat
          /\ Start(k) + columns[k] <= Total(Parts)
      BY <1>1
    <3> QED
      BY <3>1
  <2>2. ASSUME NEW l \in 1 .. K, <<q, l>> \in written
        PROVE  l = k /\ p <= lengths[k]
    <3>1. PICK i \in 1 .. lengths[l] : Start(k) + p = Start(l) + i
      BY <1>3, <2>2
    <3>2. /\ Start(k) \in Nat /\ columns[k] \in Nat /\ Start(l) \in Nat /\ columns[l] \in Nat
          /\ lengths[l] \in Nat /\ lengths[l] <= columns[l]
          /\ l < k => Start(l) + columns[l] <= Start(k)
          /\ k < l => Start(k) + columns[k] <= Start(l)
          /\ p \in Nat /\ 1 <= p /\ p <= columns[k] /\ i \in Nat /\ 1 <= i /\ i <= lengths[l]
      <4>1. /\ Start(k) \in Nat /\ columns[k] \in Nat /\ Start(l) \in Nat /\ columns[l] \in Nat
            /\ lengths[l] \in Nat /\ lengths[l] <= columns[l]
        BY <1>1
      <4>2. /\ l < k => Start(l) + columns[l] <= Start(k)
            /\ k < l => Start(k) + columns[k] <= Start(l)
        BY <1>1
      <4> QED
        BY <4>1, <4>2
    <3>3. ~ (l < k)
      BY <3>2, <3>1
    <3>4. ~ (k < l)
      BY <3>2, <3>1
    <3>5. l = k
      BY <1>1, <3>3, <3>4
    <3> QED
      BY <1>1, <3>1, <3>5
  <2>3. p <= lengths[k] => <<q, k>> \in written
    <3>1. p <= lengths[k] => p \in 1 .. lengths[k]
      BY <1>1
    <3> QED
      BY <1>3, <3>1
  <2> HIDE DEF q
  <2>4. CASE p <= lengths[k]
    <3>1. <<q, k>> \in written
      BY <2>3, <2>4
    <3>2. (CHOOSE l \in 1 .. K : <<q, l>> \in written) = k
      BY <2>2, <3>1
    <3> QED
      BY <1>2, <2>1, <2>4, <3>1, <3>2 DEF q
  <2>5. CASE ~ (p <= lengths[k])
    <3>1. ~ \E l \in 1 .. K : <<q, l>> \in written
      BY <2>2, <2>5
    <3> QED
      BY <1>2, <2>1, <2>5, <3>1 DEF q
  <2> QED
    BY <2>4, <2>5
<1> QED
  BY <1>4, <1>5 DEF line, K

-----------------------------------------------------------------------------
(* The steps of the cutting *)

\* How many characters the values stand to the right of their columns.
Shift == Start(1) - 1

\* The values a line was cut into are typed, and its contents fit the definitions.
CutTypes ==
    /\ phase \in {"Building", "Built", "Cutting"}
    /\ phase # "Cutting" => contents = <<>> /\ keys = 0 /\ valueRemain = <<>> /\ props = <<>>
    /\ phase = "Cutting" =>
          /\ contents \in [1 .. Cardinality(ValueItems) -> Lengths]
          /\ \A k \in 1 .. Cardinality(ValueItems) : contents[k] <= macro[ItemOf(k)].width
          /\ keys \in Cardinality(ValueItems) .. Cardinality(ValueItems) + 1
          /\ props \in Seq(Seq(0 .. Cardinality(ValueItems))) /\ Len(props) <= keys
          /\ valueRemain \in Seq(0 .. Cardinality(ValueItems))

Starts == [k \in 1 .. Len(columns) |-> Start(k)]

\* The k-th value is still in the rest of the line, as far from the next one as in the line.
StillThere(k) ==
    LET before == Shift + (Starts[k] - Starts[key])
    IN  /\ contents[k] > 0 => before + contents[k] <= Len(valueRemain)
        /\ \A p \in 1 .. columns[k] :
              before + p <= Len(valueRemain) =>
                valueRemain[before + p] = IF p <= contents[k] THEN k ELSE Filler

\* The rest of the line begins with blanks, and then the value of the next key.
RestOfTheLine ==
    phase = "Cutting" /\ key <= Len(columns) =>
      /\ Starts[key] + Len(valueRemain) <= Total(Parts) + Shift
      /\ \A p \in 1 .. Shift : p <= Len(valueRemain) => valueRemain[p] = Filler
      /\ \A k \in key .. Len(columns) : StillThere(k)

CutInv ==
    /\ IInv /\ CutTypes /\ KeysGetTheirValues
    /\ WellMarked /\ HasRoom => RestOfTheLine

\* A line that is cut, of a macro that is read as it should be.
IsRegular == phase = "Cutting" /\ WellMarked /\ HasRoom

\* Lengths are numbers.
LEMMA LengthsType == \A n \in Lengths : n \in Nat
<1> SUFFICES ASSUME NEW n \in Lengths
             PROVE  n \in Nat
  OBVIOUS
<1>1. PICK w \in Widths : n \in 0 .. w
  BY DEF Lengths
<1> QED
  BY <1>1, WidthsAssumption

\* What a line has that is cut, whatever the macro.
LEMMA CuttingTypes ==
    ASSUME CutInv, phase = "Cutting"
    PROVE  /\ macro \in Seq(Items) /\ Len(columns) \in Nat
           /\ \A k \in 1 .. Len(columns) : columns[k] \in Nat \ {0}
           /\ Cardinality(ValueItems) \in Nat
           /\ Len(contents) = Cardinality(ValueItems)
           /\ \A k \in 1 .. Len(contents) : contents[k] \in Nat
           /\ key \in Nat \ {0} /\ Len(props) \in Nat /\ key = Len(props) + 1
           /\ props \in Seq(Seq(0 .. Cardinality(ValueItems)))
           /\ valueRemain \in Seq(0 .. Cardinality(ValueItems))
           /\ valueRemain \in Seq(Nat) /\ Len(valueRemain) \in Nat
<1> DEFINE K == Cardinality(ValueItems)
<1>1. /\ macro \in Seq(Items) /\ columns \in Seq(Nat \ {0})
  BY DEF CutInv, IInv, ReaderTypes
<1>2. /\ contents \in [1 .. K -> Lengths]
      /\ props \in Seq(Seq(0 .. K))
      /\ valueRemain \in Seq(0 .. K)
  BY DEF CutInv, CutTypes
<1>3. K \in Nat
  BY <1>1, StartsType
<1> HIDE DEF K
<1>4. Len(contents) = K
  BY <1>2, <1>3
<1>5. \A k \in 1 .. K : contents[k] \in Nat
  BY <1>2, LengthsType
<1>6. valueRemain \in Seq(Nat) /\ Len(valueRemain) \in Nat
  BY <1>2, <1>3
<1>7. key \in Nat \ {0} /\ Len(props) \in Nat /\ key = Len(props) + 1
  BY <1>2 DEF key
<1>8. Len(columns) \in Nat /\ \A k \in 1 .. Len(columns) : columns[k] \in Nat \ {0}
  BY <1>1
<1> QED
  BY <1>1, <1>2, <1>3, <1>4, <1>5, <1>6, <1>7, <1>8 DEF K

\* What holds of a line that is cut, of a macro that is read as it should be.
LEMMA CuttingFacts ==
    ASSUME CutInv, IsRegular
    PROVE  /\ Len(columns) \in Nat /\ Len(contents) = Len(columns) /\ Total(Parts) \in Nat
           /\ key \in Nat \ {0} /\ Len(props) \in Nat
           /\ valueRemain \in Seq(Nat) /\ Len(valueRemain) \in Nat
           /\ Len(columns) > 0 => Shift \in Nat
           /\ \A k \in 1 .. Len(columns) :
                 /\ Starts[k] \in Nat /\ columns[k] \in Nat \ {0}
                 /\ contents[k] \in Nat /\ contents[k] <= columns[k]
                 /\ k < Len(columns) => contents[k] + Shift <= columns[k]
                 /\ Starts[k] + columns[k] =
                      IF k < Len(columns) THEN Starts[k + 1] ELSE Total(Parts)
           /\ \A k, l \in 1 .. Len(columns) : k < l => Starts[k] + columns[k] <= Starts[l]
<1> DEFINE K == Len(columns)
<1>0. phase = "Cutting" /\ WellMarked /\ HasRoom /\ IInv
  BY DEF IsRegular, CutInv
<1>1. /\ Len(contents) = Cardinality(ValueItems) /\ valueRemain \in Seq(Nat)
      /\ Len(valueRemain) \in Nat /\ key \in Nat \ {0} /\ Len(props) \in Nat
      /\ \A k \in 1 .. Len(contents) : contents[k] \in Nat
  BY <1>0, CuttingTypes
<1>2. /\ K \in Nat /\ K = Cardinality(ValueItems) /\ Total(Parts) \in Nat
      /\ \A k \in 1 .. K : Start(k) \in Nat /\ columns[k] \in Nat \ {0}
                             /\ macro[ItemOf(k)].width \in Nat
                             /\ macro[ItemOf(k)].width <= columns[k]
      /\ \A k, l \in 1 .. K : k < l => Start(k) + columns[k] <= Start(l)
  BY <1>0, Layout
<1>3. \A k \in 1 .. K :
         Start(k) + columns[k] = IF k < K THEN Start(k + 1) ELSE Total(Parts)
  BY <1>0 DEF IInv, Reads, ColumnsReach
<1>4. \A k \in 1 .. K : Starts[k] = Start(k)
  BY DEF Starts
<1>5. \A k \in 1 .. K : contents[k] <= macro[ItemOf(k)].width
  BY <1>0, <1>2 DEF CutInv, CutTypes
<1>6. Len(contents) = K
  BY <1>1, <1>2
<1>7. \A k \in 1 .. K : k < K => k + 1 \in 1 .. K
  BY <1>2
<1>8. K > 0 => Shift \in Nat
  <2> SUFFICES ASSUME K > 0
               PROVE  Shift \in Nat
    OBVIOUS
  <2>1. contents # <<>> /\ 1 \in 1 .. K
    BY <1>2, <1>6, EmptySeq
  <2>2. Start(1) \in Nat /\ Start(1) >= 1
    BY <1>0, <1>2, <2>1 DEF HasRoom, HasBlank
  <2> QED
    BY <2>2 DEF Shift
<1> HIDE DEF K
<1>9. ASSUME NEW k \in 1 .. K
      PROVE  contents[k] \in Nat /\ contents[k] <= columns[k]
  <2> DEFINE width == macro[ItemOf(k)].width
  <2>1. contents[k] \in Nat /\ contents[k] <= width
    BY <1>1, <1>5, <1>6
  <2>2. width \in Nat /\ width <= columns[k] /\ columns[k] \in Nat
    BY <1>2
  <2> HIDE DEF width
  <2> QED
    BY <2>1, <2>2
<1>10. \A k \in 1 .. K :
          Starts[k] + columns[k] = IF k < K THEN Starts[k + 1] ELSE Total(Parts)
  BY <1>3, <1>4, <1>7
<1>11. \A k, l \in 1 .. K : k < l => Starts[k] + columns[k] <= Starts[l]
  BY <1>2, <1>4
<1>12. ASSUME NEW k \in 1 .. K, k < K
       PROVE  contents[k] + Shift <= columns[k]
  <2>1. k \in 1 .. Len(contents) - 1 /\ K > 0
    BY <1>2, <1>6, <1>12
  <2>2. Start(k) + contents[k] + Shift <= Start(k + 1)
    BY <1>0, <2>1 DEF HasRoom, Shift
  <2>3. /\ Start(k) \in Nat /\ contents[k] \in Nat /\ columns[k] \in Nat /\ Shift \in Nat
        /\ Start(k + 1) = Start(k) + columns[k]
    BY <1>2, <1>3, <1>8, <1>9, <1>12, <2>1
  <2> QED
    BY <2>2, <2>3
<1> QED
  BY <1>1, <1>2, <1>4, <1>6, <1>8, <1>9, <1>10, <1>11, <1>12 DEF K

\* The value of a key: its characters, or none when there are more keys than columns.
ValueOf(k) == IF k <= Len(contents) THEN Fill(contents[k], k) ELSE <<>>

\* What a step of the cutting does to types, whatever the macro.
LEMMA TakesTyped ==
    ASSUME CutInv, Cuts,
           NEW v \in Seq(0 .. Cardinality(ValueItems)), props' = Append(props, v),
           valueRemain' \in Seq(0 .. Cardinality(ValueItems))
    PROVE  /\ IInv' /\ CutTypes'
           /\ Len(props') = key /\ key' = key + 1 /\ DOMAIN props' = 1 .. key
           /\ \A i \in 1 .. Len(props) : props'[i] = props[i]
           /\ props'[key] = v
           /\ (WellMarked <=> WellMarked') /\ (HasRoom <=> HasRoom')
           /\ phase' = "Cutting" /\ contents' = contents /\ columns' = columns
           /\ Starts' = Starts /\ Total(Parts') = Total(Parts) /\ Shift' = Shift
<1> DEFINE K == Cardinality(ValueItems)
<1>1. /\ phase = "Cutting" /\ key <= keys /\ UNCHANGED built
      /\ contents' = contents /\ keys' = keys /\ phase' = phase
      /\ macro' = macro /\ columns' = columns
  BY DEF Cuts, built
<1>2. /\ key \in Nat \ {0} /\ Len(props) \in Nat /\ key = Len(props) + 1
      /\ props \in Seq(Seq(0 .. K))
  BY <1>1, CuttingTypes
<1>3. /\ contents \in [1 .. K -> Lengths]
      /\ \A k \in 1 .. K : contents[k] <= macro[ItemOf(k)].width
      /\ keys \in K .. K + 1
  BY <1>1 DEF CutInv, CutTypes
<1>4. /\ ValueItems' = ValueItems /\ Parts' = Parts
      /\ \A k : Start(k)' = Start(k)
      /\ \A k : ItemOf(k)' = ItemOf(k)
  BY <1>1, LineUnchanged DEF ItemOf
<1>5. /\ props' \in Seq(Seq(0 .. K)) /\ Len(props') = key
      /\ \A i \in 1 .. Len(props) : props'[i] = props[i]
      /\ props'[key] = v /\ DOMAIN props' = 1 .. key
  BY <1>2
<1>6. key' = key + 1
  BY <1>5 DEF key
<1>7. IInv'
  BY <1>1, CuttingSteps DEF CutInv
<1>8. CutTypes'
  BY <1>1, <1>3, <1>4, <1>5 DEF CutTypes
<1>9. Starts' = Starts /\ Total(Parts') = Total(Parts) /\ Shift' = Shift
  BY <1>1, <1>4 DEF Starts, Shift
<1>10. WellMarked <=> WellMarked'
  BY <1>1 DEF WellMarked
<1>11. HasRoom <=> HasRoom'
  BY <1>1, <1>4 DEF HasRoom, HasBlank
<1> QED
  BY <1>1, <1>5, <1>6, <1>7, <1>8, <1>9, <1>10, <1>11

\* A step that in a regular line takes the value of the next key and leaves the rest keeps
\* the invariant.
LEMMA TakesValue ==
    ASSUME CutInv, Cuts,
           NEW v \in Seq(0 .. Cardinality(ValueItems)), props' = Append(props, v),
           valueRemain' \in Seq(0 .. Cardinality(ValueItems)),
           IsRegular => v = ValueOf(key),
           IsRegular /\ key < Len(columns) =>
             /\ Starts[key + 1] + Len(valueRemain') <= Total(Parts) + Shift
             /\ \A p \in 1 .. Shift : p <= Len(valueRemain') => valueRemain'[p] = Filler
             /\ \A k \in key + 1 .. Len(columns) :
                   LET before == Shift + (Starts[k] - Starts[key + 1])
                   IN  /\ contents[k] > 0 => before + contents[k] <= Len(valueRemain')
                       /\ \A p \in 1 .. columns[k] :
                             before + p <= Len(valueRemain') =>
                               valueRemain'[before + p] = IF p <= contents[k] THEN k ELSE Filler
    PROVE  CutInv'
<1>1. /\ IInv' /\ CutTypes'
      /\ Len(props') = key /\ key' = key + 1 /\ DOMAIN props' = 1 .. key
      /\ \A i \in 1 .. Len(props) : props'[i] = props[i]
      /\ props'[key] = v
      /\ (WellMarked <=> WellMarked') /\ (HasRoom <=> HasRoom')
      /\ phase' = "Cutting" /\ contents' = contents /\ columns' = columns
      /\ Starts' = Starts /\ Total(Parts') = Total(Parts) /\ Shift' = Shift
  BY TakesTyped
<1>2. phase = "Cutting"
  BY DEF Cuts
<1>3. /\ key \in Nat \ {0} /\ key = Len(props) + 1 /\ Len(props) \in Nat
      /\ Len(columns) \in Nat /\ props \in Seq(Seq(0 .. Cardinality(ValueItems)))
  BY <1>2, CuttingTypes
<1>4. ASSUME WellMarked', HasRoom'
      PROVE  RestOfTheLine' /\ EachKeyHasItsValue'
  <2>1. IsRegular
    BY <1>1, <1>2, <1>4 DEF IsRegular
  <2>2. RestOfTheLine'
    <3>1. key' <= Len(columns') => key < Len(columns)
      BY <1>1, <1>3
    <3>2. \A k : StillThere(k)' <=>
             LET before == Shift + (Starts[k] - Starts[key + 1])
             IN  /\ contents[k] > 0 => before + contents[k] <= Len(valueRemain')
                 /\ \A p \in 1 .. columns[k] :
                       before + p <= Len(valueRemain') =>
                         valueRemain'[before + p] = IF p <= contents[k] THEN k ELSE Filler
      BY <1>1 DEF StillThere
    <3> QED
      BY <1>1, <2>1, <3>1, <3>2 DEF RestOfTheLine
  <2>3. \A i \in 1 .. Len(props) : props[i] = ValueOf(i)
    <3>1. DOMAIN props = 1 .. Len(props)
      BY <1>3
    <3>2. EachKeyHasItsValue
      BY <2>1 DEF CutInv, KeysGetTheirValues, IsRegular
    <3> QED
      BY <3>1, <3>2 DEF EachKeyHasItsValue, ValueOf
  <2>4. \A i \in 1 .. key : props'[i] = ValueOf(i)
    <3> SUFFICES ASSUME NEW i \in 1 .. key
                 PROVE  props'[i] = ValueOf(i)
      OBVIOUS
    <3>1. i \in 1 .. Len(props) \/ i = key
      BY <1>3
    <3> QED
      BY <1>1, <2>1, <2>3, <3>1
  <2>5. EachKeyHasItsValue'
    BY <1>1, <2>4 DEF EachKeyHasItsValue, ValueOf
  <2> QED
    BY <2>2, <2>5
<1> QED
  BY <1>1, <1>4 DEF CutInv, KeysGetTheirValues

\* More keys than columns.
LEMMA LeaveEmptyStep ==
    ASSUME CutInv, LeaveEmpty
    PROVE  CutInv'
<1>1. Cuts /\ phase = "Cutting" /\ Len(columns) < key /\ props' = Append(props, <<>>)
  BY DEF LeaveEmpty, Cuts
<1>2. /\ key \in Nat /\ Len(columns) \in Nat
      /\ valueRemain' \in Seq(0 .. Cardinality(ValueItems))
      /\ <<>> \in Seq(0 .. Cardinality(ValueItems))
  BY <1>1, CuttingTypes, EmptySeq DEF LeaveEmpty
<1>3. IsRegular => <<>> = ValueOf(key)
  BY <1>1, <1>2, CuttingFacts DEF ValueOf
<1>4. ~ (key < Len(columns))
  BY <1>1, <1>2
<1> QED
  BY <1>1, <1>2, <1>3, <1>4, TakesValue

\* The characters of the next key's column are blanks and those of its value.
LEMMA NextColumn ==
    ASSUME CutInv, IsRegular, key <= Len(columns)
    PROVE  /\ key \in 1 .. Len(columns) /\ Shift \in Nat
           /\ contents[key] > 0 => Shift + contents[key] <= Len(valueRemain)
           /\ \A q \in 1 .. Shift + columns[key] : q <= Len(valueRemain) =>
                 valueRemain[q] =
                    IF Shift < q /\ q <= Shift + contents[key] THEN key ELSE Filler
<1>0. phase = "Cutting" /\ WellMarked /\ HasRoom
  BY DEF IsRegular
<1>1. /\ Len(columns) \in Nat /\ key \in 1 .. Len(columns) /\ Len(valueRemain) \in Nat
      /\ Starts[key] \in Nat /\ columns[key] \in Nat /\ contents[key] \in Nat
      /\ Shift \in Nat
  <2>1. key \in 1 .. Len(columns) /\ Len(columns) > 0
    BY CuttingFacts
  <2> QED
    BY <2>1, CuttingFacts
<1>2. /\ StillThere(key)
      /\ \A p \in 1 .. Shift : p <= Len(valueRemain) => valueRemain[p] = Filler
  <2>1. key \in key .. Len(columns)
    BY <1>1
  <2> QED
    BY <1>0, <2>1 DEF CutInv, RestOfTheLine
<1> DEFINE before == Shift + (Starts[key] - Starts[key])
<1>3. before = Shift
  BY <1>1
<1>4. /\ contents[key] > 0 => before + contents[key] <= Len(valueRemain)
      /\ \A p \in 1 .. columns[key] :
            before + p <= Len(valueRemain) =>
              valueRemain[before + p] = IF p <= contents[key] THEN key ELSE Filler
  BY <1>2 DEF StillThere
<1> HIDE DEF before
<1>5. ASSUME NEW q \in 1 .. Shift + columns[key], q <= Len(valueRemain)
      PROVE  valueRemain[q] = IF Shift < q /\ q <= Shift + contents[key] THEN key ELSE Filler
  <2>1. CASE q <= Shift
    <3>1. q \in 1 .. Shift /\ ~ (Shift < q)
      BY <1>1, <2>1
    <3> QED
      BY <1>2, <1>5, <3>1
  <2>2. CASE Shift < q
    <3>1. /\ q - Shift \in 1 .. columns[key] /\ before + (q - Shift) = q
          /\ q - Shift <= contents[key] <=> q <= Shift + contents[key]
      BY <1>1, <1>3, <2>2
    <3> QED
      BY <1>4, <1>5, <2>2, <3>1
  <2> QED
    BY <1>1, <2>1, <2>2
<1> QED
  BY <1>1, <1>3, <1>4, <1>5

\* The last column, or a line that ends in the column of the next key.
LEMMA TakeRestStep ==
    ASSUME CutInv, TakeRest
    PROVE  CutInv'
<1> DEFINE K == Len(columns)
<1>1. /\ Cuts /\ phase = "Cutting" /\ key <= K
      /\ key = K \/ Len(valueRemain) <= columns[key]
      /\ props' = Append(props, Trim(valueRemain)) /\ valueRemain' = <<>>
  BY DEF TakeRest, Cuts
<1>2. Trim(valueRemain) \in Seq(0 .. Cardinality(ValueItems))
  BY <1>1, CuttingTypes, TrimType
<1>3. valueRemain' \in Seq(0 .. Cardinality(ValueItems)) /\ Len(valueRemain') = 0
  BY <1>1, EmptySeq
<1>4. ASSUME IsRegular
      PROVE  Trim(valueRemain) = ValueOf(key) /\
             (key < K =>
               /\ Starts[key + 1] + Len(valueRemain') <= Total(Parts) + Shift
               /\ \A p \in 1 .. Shift : p <= Len(valueRemain') => valueRemain'[p] = Filler
               /\ \A k \in key + 1 .. K :
                     LET before == Shift + (Starts[k] - Starts[key + 1])
                     IN  /\ contents[k] > 0 => before + contents[k] <= Len(valueRemain')
                         /\ \A p \in 1 .. columns[k] :
                               before + p <= Len(valueRemain') =>
                                 valueRemain'[before + p] = IF p <= contents[k] THEN k ELSE Filler)
  <2>1. /\ key \in 1 .. K /\ Shift \in Nat
        /\ contents[key] > 0 => Shift + contents[key] <= Len(valueRemain)
        /\ \A q \in 1 .. Shift + columns[key] : q <= Len(valueRemain) =>
              valueRemain[q] = IF Shift < q /\ q <= Shift + contents[key] THEN key ELSE Filler
    BY <1>1, <1>4, NextColumn
  <2>2. /\ K \in Nat /\ Len(contents) = K /\ Total(Parts) \in Nat
        /\ valueRemain \in Seq(Nat) /\ Len(valueRemain) \in Nat
        /\ \A k \in 1 .. K :
              /\ Starts[k] \in Nat /\ columns[k] \in Nat \ {0}
              /\ contents[k] \in Nat
              /\ Starts[k] + columns[k] = IF k < K THEN Starts[k + 1] ELSE Total(Parts)
        /\ \A k, l \in 1 .. K : k < l => Starts[k] + columns[k] <= Starts[l]
    BY <1>4, CuttingFacts
  <2>3. /\ Starts[key] + Len(valueRemain) <= Total(Parts) + Shift
        /\ \A k \in key .. K : StillThere(k)
    BY <1>1, <1>4 DEF CutInv, RestOfTheLine, IsRegular
  <2> HIDE DEF K
  <2>4. /\ contents[key] \in Nat /\ key \in Nat \ {0} /\ columns[key] \in Nat
        /\ Starts[key] \in Nat
    BY <2>1, <2>2
  <2>5. Len(valueRemain) <= Shift + columns[key]
    <3>1. CASE key = K
      <4>1. ~ (key < K)
        BY <2>2, <3>1
      <4>2. Starts[key] + columns[key] = Total(Parts)
        BY <2>1, <2>2, <4>1
      <4>3. /\ Starts[key] + Len(valueRemain) <= (Starts[key] + columns[key]) + Shift
            /\ Starts[key] \in Nat /\ columns[key] \in Nat /\ Shift \in Nat
            /\ Len(valueRemain) \in Nat
        BY <2>1, <2>2, <2>3, <2>4, <4>2
      <4> QED
        BY <4>3
    <3>2. CASE Len(valueRemain) <= columns[key]
      BY <2>1, <2>2, <2>4, <3>2
    <3> QED
      BY <1>1, <3>1, <3>2
  <2>6. Trim(valueRemain) = Fill(contents[key], key)
    <3>1. \A q \in 1 .. Len(valueRemain) :
             valueRemain[q] = IF Shift < q /\ q <= Shift + contents[key] THEN key ELSE Filler
      <4>1. \A q \in 1 .. Len(valueRemain) : q \in 1 .. Shift + columns[key] /\ q <= Len(valueRemain)
        BY <2>1, <2>2, <2>4, <2>5
      <4> QED
        BY <2>1, <4>1
    <3> QED
      BY <2>1, <2>2, <2>4, <3>1, TrimLeaves
  <2>7. Trim(valueRemain) = ValueOf(key)
    <3>1. key <= K
      BY <1>1 DEF K
    <3> QED
      BY <2>2, <2>6, <3>1 DEF ValueOf
  <2>8. ASSUME key < K
        PROVE  Starts[key + 1] + Len(valueRemain') <= Total(Parts) + Shift
    <3>1. key + 1 \in 1 .. K
      BY <2>1, <2>2, <2>8
    <3>2. Starts[key + 1] \in Nat /\ Starts[key + 1] <= Total(Parts)
      <4>1. CASE key + 1 = K
        <5>1. ~ (key + 1 < K)
          BY <2>2, <4>1
        <5>2. /\ Starts[key + 1] + columns[key + 1] = Total(Parts)
              /\ Starts[key + 1] \in Nat /\ columns[key + 1] \in Nat
          BY <2>2, <3>1, <5>1
        <5> QED
          BY <2>2, <5>2
      <4>2. CASE key + 1 # K
        <5>1. K \in 1 .. K /\ key + 1 < K /\ ~ (K < K)
          BY <2>1, <2>2, <3>1, <4>2
        <5>2. /\ Starts[key + 1] + columns[key + 1] <= Starts[K]
              /\ Starts[K] + columns[K] = Total(Parts)
          BY <2>2, <3>1, <5>1
        <5>3. /\ Starts[key + 1] \in Nat /\ columns[key + 1] \in Nat
              /\ Starts[K] \in Nat /\ columns[K] \in Nat
          BY <2>2, <3>1, <5>1
        <5> QED
          BY <2>2, <5>2, <5>3
      <4> QED
        BY <4>1, <4>2
    <3> QED
      BY <1>3, <2>1, <2>2, <3>2
  <2>9. ASSUME key < K, NEW k \in key + 1 .. K
        PROVE  LET before == Shift + (Starts[k] - Starts[key + 1])
               IN  /\ contents[k] > 0 => before + contents[k] <= Len(valueRemain')
                   /\ \A p \in 1 .. columns[k] :
                         before + p <= Len(valueRemain') =>
                           valueRemain'[before + p] = IF p <= contents[k] THEN k ELSE Filler
    <3>1. /\ k \in 1 .. K /\ k \in key .. K /\ key < k
          /\ key + 1 \in 1 .. K /\ (k = key + 1 \/ key + 1 < k)
      BY <2>1, <2>2, <2>9
    <3>2. contents[k] > 0 =>
             (Shift + (Starts[k] - Starts[key])) + contents[k] <= Len(valueRemain)
      BY <2>3, <3>1 DEF StillThere
    <3>3. /\ Starts[key] + columns[key] <= Starts[k]
          /\ Starts[key + 1] <= Starts[k]
          /\ Starts[k] \in Nat /\ Starts[key + 1] \in Nat
          /\ contents[k] \in Nat /\ columns[k] \in Nat
      <4>1. /\ Starts[k] \in Nat /\ Starts[key + 1] \in Nat
            /\ contents[k] \in Nat /\ columns[k] \in Nat
            /\ columns[key + 1] \in Nat
        BY <2>2, <3>1
      <4>2. Starts[key] + columns[key] <= Starts[k]
        BY <2>1, <2>2, <3>1
      <4>3. key + 1 < k => Starts[key + 1] + columns[key + 1] <= Starts[k]
        BY <2>2, <3>1
      <4> QED
        BY <3>1, <4>1, <4>2, <4>3
    <3>4. contents[k] = 0
      <4> DEFINE before == Shift + (Starts[k] - Starts[key])
      <4>1. Shift + columns[key] <= before /\ before \in Int /\ Shift + columns[key] \in Int
        <5>1. /\ Starts[key] \in Nat /\ Starts[k] \in Nat /\ columns[key] \in Nat
              /\ Shift \in Nat /\ Starts[key] + columns[key] <= Starts[k]
          BY <2>1, <2>4, <3>3
        <5> QED
          BY <5>1
      <4> HIDE DEF before
      <4>2. Len(valueRemain) <= before /\ Len(valueRemain) \in Int
        BY <2>2, <2>5, <4>1
      <4>3. contents[k] \in Nat /\ (contents[k] > 0 => before + contents[k] <= Len(valueRemain))
        BY <3>2, <3>3 DEF before
      <4> QED
        BY <4>1, <4>2, <4>3
    <3>5. \A p \in 1 .. columns[k] : ~ ((Shift + (Starts[k] - Starts[key + 1])) + p <= 0)
      BY <2>1, <3>3
    <3> QED
      BY <1>3, <3>4, <3>5
  <2>10. \A p \in 1 .. Shift : ~ (p <= Len(valueRemain'))
    BY <1>3, <2>1
  <2> QED
    BY <2>7, <2>8, <2>9, <2>10
<1> QED
  BY <1>1, <1>2, <1>3, <1>4, TakesValue DEF K

\* A line without its first characters.
LEMMA CutAfter ==
    ASSUME NEW C, NEW s \in Seq(C), NEW width \in Nat, width <= Len(s)
    PROVE  /\ SubSeq(s, 1, width) \in Seq(C) /\ Len(SubSeq(s, 1, width)) = width
           /\ \A p \in 1 .. width : SubSeq(s, 1, width)[p] = s[p]
           /\ SubSeq(s, width + 1, Len(s)) \in Seq(C)
           /\ Len(SubSeq(s, width + 1, Len(s))) = Len(s) - width
           /\ \A p \in 1 .. Len(s) - width : SubSeq(s, width + 1, Len(s))[p] = s[width + p]
<1>1. /\ Len(s) \in Nat
      /\ \A p \in 1 .. width : p \in 1 .. Len(s)
      /\ \A p \in 1 .. Len(s) - width : width + p \in 1 .. Len(s) /\ (width + 1) + p - 1 = width + p
  OBVIOUS
<1>2. /\ SubSeq(s, 1, width) \in Seq(C) /\ Len(SubSeq(s, 1, width)) = width
      /\ \A p \in 1 .. width : SubSeq(s, 1, width)[p] = s[p]
  BY <1>1
<1>3. /\ SubSeq(s, width + 1, Len(s)) \in Seq(C)
      /\ Len(SubSeq(s, width + 1, Len(s))) = Len(s) - width
      /\ \A p \in 1 .. Len(s) - width : SubSeq(s, width + 1, Len(s))[p] = s[width + p]
  BY <1>1, SubSeqProperties
<1> QED
  BY <1>2, <1>3

\* A column and more.
LEMMA TakeColumnStep ==
    ASSUME CutInv, TakeColumn
    PROVE  CutInv'
<1> DEFINE K == Len(columns)
           width == columns[key]
<1>1. /\ Cuts /\ phase = "Cutting" /\ key < K /\ Len(valueRemain) > width
      /\ props' = Append(props, Trim(SubSeq(valueRemain, 1, width)))
      /\ valueRemain' = SubSeq(valueRemain, width + 1, Len(valueRemain))
  BY DEF TakeColumn, Cuts
<1>2. /\ K \in Nat /\ key \in 1 .. K /\ width \in Nat \ {0}
      /\ Len(valueRemain) \in Nat /\ width < Len(valueRemain)
      /\ valueRemain \in Seq(0 .. Cardinality(ValueItems)) /\ valueRemain \in Seq(Nat)
  <2>1. /\ K \in Nat /\ key \in Nat \ {0} /\ Len(valueRemain) \in Nat
        /\ \A k \in 1 .. K : columns[k] \in Nat \ {0}
        /\ valueRemain \in Seq(0 .. Cardinality(ValueItems)) /\ valueRemain \in Seq(Nat)
    BY <1>1, CuttingTypes
  <2>2. key \in 1 .. K
    BY <1>1, <2>1
  <2> QED
    BY <1>1, <2>1, <2>2
<1> DEFINE s == SubSeq(valueRemain, 1, width)
<1>3. /\ valueRemain' \in Seq(0 .. Cardinality(ValueItems))
      /\ Len(valueRemain') = Len(valueRemain) - width
      /\ \A p \in 1 .. Len(valueRemain) - width : valueRemain'[p] = valueRemain[width + p]
      /\ s \in Seq(0 .. Cardinality(ValueItems))
  <2> DEFINE C == 0 .. Cardinality(ValueItems)
             rest == SubSeq(valueRemain, width + 1, Len(valueRemain))
  <2>1. valueRemain \in Seq(C) /\ width \in Nat /\ width <= Len(valueRemain)
    BY <1>2
  <2>2. valueRemain' = rest
    BY <1>1
  <2> HIDE DEF K, width, C
  <2>3. /\ s \in Seq(C) /\ rest \in Seq(C) /\ Len(rest) = Len(valueRemain) - width
        /\ \A p \in 1 .. Len(valueRemain) - width : rest[p] = valueRemain[width + p]
    BY <2>1, CutAfter
  <2> HIDE DEF rest, s
  <2> QED
    BY <2>2, <2>3 DEF C
<1>4. s \in Seq(Nat) /\ Len(s) = width /\ \A p \in 1 .. width : s[p] = valueRemain[p]
  <2> HIDE DEF K, width
  <2> QED
    BY <1>2, CutAfter
<1>5. Trim(s) \in Seq(0 .. Cardinality(ValueItems))
  BY <1>3, TrimType
<1> HIDE DEF s
<1>6. ASSUME IsRegular
      PROVE  Trim(s) = ValueOf(key) /\
             (/\ Starts[key + 1] + Len(valueRemain') <= Total(Parts) + Shift
              /\ \A p \in 1 .. Shift : p <= Len(valueRemain') => valueRemain'[p] = Filler
              /\ \A k \in key + 1 .. K :
                    LET before == Shift + (Starts[k] - Starts[key + 1])
                    IN  /\ contents[k] > 0 => before + contents[k] <= Len(valueRemain')
                        /\ \A p \in 1 .. columns[k] :
                              before + p <= Len(valueRemain') =>
                                valueRemain'[before + p] = IF p <= contents[k] THEN k ELSE Filler)
  <2>1. /\ Len(contents) = K /\ Total(Parts) \in Nat
        /\ \A k \in 1 .. K :
              /\ Starts[k] \in Nat /\ columns[k] \in Nat \ {0}
              /\ contents[k] \in Nat /\ contents[k] <= columns[k]
              /\ k < K => contents[k] + Shift <= columns[k]
              /\ Starts[k] + columns[k] = IF k < K THEN Starts[k + 1] ELSE Total(Parts)
        /\ \A k, l \in 1 .. K : k < l => Starts[k] + columns[k] <= Starts[l]
    BY <1>6, CuttingFacts
  <2>2. key <= K
    BY <1>1, <1>2
  <2>3. /\ Shift \in Nat
        /\ \A q \in 1 .. Shift + columns[key] : q <= Len(valueRemain) =>
              valueRemain[q] = IF Shift < q /\ q <= Shift + contents[key] THEN key ELSE Filler
    BY <1>6, <2>2, NextColumn
  <2>4. /\ Starts[key] + Len(valueRemain) <= Total(Parts) + Shift
        /\ \A k \in key .. K : StillThere(k)
    BY <1>1, <1>6, <2>2 DEF CutInv, RestOfTheLine, IsRegular
  <2>5. /\ contents[key] \in Nat /\ contents[key] + Shift <= width
        /\ Starts[key] \in Nat /\ Starts[key + 1] = Starts[key] + width
    BY <1>1, <1>2, <2>1
  <2>6. \A q \in 1 .. Shift + width : q <= Len(valueRemain) =>
           valueRemain[q] = IF Shift < q /\ q <= Shift + contents[key] THEN key ELSE Filler
    BY <2>3
  <2> HIDE DEF K, width
  <2>7. Trim(s) = Fill(contents[key], key)
    <3>1. \A q \in 1 .. width : q \in 1 .. Shift + width /\ q <= Len(valueRemain)
      BY <1>2, <2>3
    <3>2. \A q \in 1 .. Len(s) :
             s[q] = IF Shift < q /\ q <= Shift + contents[key] THEN key ELSE Filler
      BY <1>4, <2>6, <3>1
    <3>3. contents[key] > 0 => Shift + contents[key] <= Len(s)
      BY <1>2, <1>4, <2>3, <2>5
    <3>4. key \in Nat \ {0} /\ contents[key] \in Nat /\ Shift \in Nat /\ s \in Seq(Nat)
      BY <1>2, <1>4, <2>3, <2>5
    <3> QED
      BY <3>2, <3>3, <3>4, TrimLeaves
  <2>8. Trim(s) = ValueOf(key)
    BY <2>1, <2>2, <2>7 DEF ValueOf
  <2>9. Starts[key + 1] + Len(valueRemain') <= Total(Parts) + Shift
    <3>1. (Starts[key] + width) + (Len(valueRemain) - width) = Starts[key] + Len(valueRemain)
      <4>1. Starts[key] \in Int /\ width \in Int /\ Len(valueRemain) \in Int
        BY <1>2, <2>5
      <4> QED
        BY <4>1
    <3> QED
      BY <1>3, <2>4, <2>5, <3>1
  <2>10. ASSUME NEW p \in 1 .. Shift, p <= Len(valueRemain')
         PROVE  valueRemain'[p] = Filler
    <3>1. p \in 1 .. Len(valueRemain) - width
      BY <1>2, <1>3, <2>3, <2>10
    <3>2. /\ width + p \in 1 .. Shift + width /\ width + p <= Len(valueRemain)
          /\ ~ (width + p <= Shift + contents[key])
      BY <1>2, <2>3, <2>5, <3>1
    <3> QED
      BY <1>3, <2>6, <3>1, <3>2
  <2>11. ASSUME NEW k \in key + 1 .. K
         PROVE  LET before == Shift + (Starts[k] - Starts[key + 1])
                IN  /\ contents[k] > 0 => before + contents[k] <= Len(valueRemain')
                    /\ \A p \in 1 .. columns[k] :
                          before + p <= Len(valueRemain') =>
                            valueRemain'[before + p] = IF p <= contents[k] THEN k ELSE Filler
    <3> DEFINE before == Shift + (Starts[k] - Starts[key + 1])
               old == Shift + (Starts[k] - Starts[key])
    <3>1. k \in 1 .. K /\ k \in key .. K /\ key < k
      BY <1>2, <2>11
    <3>2. /\ contents[k] > 0 => old + contents[k] <= Len(valueRemain)
          /\ \A p \in 1 .. columns[k] : old + p <= Len(valueRemain) =>
                valueRemain[old + p] = IF p <= contents[k] THEN k ELSE Filler
      BY <2>4, <3>1 DEF StillThere
    <3>3. Starts[key] + width <= Starts[k] /\ Starts[k] \in Nat /\ contents[k] \in Nat
      BY <1>2, <2>1, <3>1 DEF width
    <3>4. before \in Nat /\ old = width + before
      <4>1. /\ Starts[key] \in Nat /\ width \in Nat /\ Shift \in Nat /\ Starts[k] \in Nat
            /\ Starts[key] + width <= Starts[k]
        BY <1>2, <2>3, <2>5, <3>3
      <4>2. /\ Shift + (Starts[k] - (Starts[key] + width)) \in Nat
            /\ Shift + (Starts[k] - Starts[key]) =
                  width + (Shift + (Starts[k] - (Starts[key] + width)))
        BY <4>1
      <4> QED
        BY <2>5, <4>2
    <3> HIDE DEF before, old
    <3>5. contents[k] > 0 => before + contents[k] <= Len(valueRemain')
      <4>1. old + contents[k] <= Len(valueRemain) => before + contents[k] <= Len(valueRemain) - width
        BY <1>2, <3>3, <3>4
      <4> QED
        BY <1>3, <3>2, <4>1
    <3>6. ASSUME NEW p \in 1 .. columns[k], before + p <= Len(valueRemain')
          PROVE  valueRemain'[before + p] = IF p <= contents[k] THEN k ELSE Filler
      <4>1. columns[k] \in Nat /\ before + p <= Len(valueRemain) - width
        BY <1>3, <2>1, <3>1, <3>6
      <4>2. p \in Nat \ {0}
        BY <4>1
      <4>3. /\ before + p \in 1 .. Len(valueRemain) - width
            /\ old + p <= Len(valueRemain) /\ old + p = width + (before + p)
        BY <1>2, <3>4, <4>1, <4>2
      <4> QED
        BY <1>3, <3>2, <4>3
    <3> QED
      BY <3>5, <3>6 DEF before
  <2> QED
    BY <2>8, <2>9, <2>10, <2>11
<1>7. props' = Append(props, Trim(s))
  BY <1>1 DEF s
<1> QED
  BY <1>1, <1>3, <1>5, <1>6, <1>7, TakesValue DEF K

\* A line without its identifier and the character after it.
LEMMA AfterTheIdentifier ==
    ASSUME NEW C, Filler \in C, NEW s \in Seq(C)
    PROVE  LET line == Fill(3, Filler) \o s
               rest == SubSeq(line, 5, Len(line))
           IN  /\ rest \in Seq(C)
               /\ Len(s) > 0 => /\ Len(rest) = Len(s) - 1
                                /\ \A p \in 1 .. Len(s) - 1 : rest[p] = s[p + 1]
<1> DEFINE identifier == Fill(3, Filler)
           line == identifier \o s
<1>1. identifier \in Seq(C) /\ Len(identifier) = 3
  BY DEF Fill
<1> HIDE DEF identifier
<1>2. /\ line \in Seq(C) /\ Len(line) = 3 + Len(s) /\ Len(s) \in Nat
      /\ \A p \in 1 .. 3 + Len(s) : line[p] = IF p <= 3 THEN identifier[p] ELSE s[p - 3]
  <2>1. /\ line \in Seq(C) /\ Len(line) = Len(identifier) + Len(s) /\ Len(s) \in Nat
        /\ \A p \in 1 .. Len(identifier) + Len(s) :
              line[p] = IF p <= Len(identifier) THEN identifier[p] ELSE s[p - Len(identifier)]
    <3>1. Len(s) \in Nat
      OBVIOUS
    <3> QED
      BY Zenon, <1>1, <3>1, ConcatProperties
  <2> HIDE DEF line
  <2> QED
    BY <1>1, <2>1
<1> HIDE DEF line
<1>3. CASE Len(s) = 0
  <2>1. Len(line) = 3
    BY <1>2, <1>3
  <2>2. SubSeq(line, 5, 3) = <<>>
    BY <1>2, SubSeqEmpty
  <2> QED
    BY <1>3, <2>1, <2>2, EmptySeq DEF line, identifier
<1>4. CASE Len(s) > 0
  <2>1. 4 \in Nat /\ 4 + 1 = 5
    OBVIOUS
  <2>2. 4 <= Len(line)
    BY <1>2, <1>4
  <2>3. /\ SubSeq(line, 5, Len(line)) \in Seq(C)
        /\ Len(SubSeq(line, 5, Len(line))) = Len(line) - 4
        /\ \A p \in 1 .. Len(line) - 4 : SubSeq(line, 5, Len(line))[p] = line[4 + p]
    <3>1. /\ SubSeq(line, 4 + 1, Len(line)) \in Seq(C)
          /\ Len(SubSeq(line, 4 + 1, Len(line))) = Len(line) - 4
          /\ \A p \in 1 .. Len(line) - 4 : SubSeq(line, 4 + 1, Len(line))[p] = line[4 + p]
      <4> HIDE DEF line
      <4> DEFINE four == 4
      <4>1. line \in Seq(C) /\ four \in Nat /\ four <= Len(line)
        BY <1>2, <2>2
      <4> HIDE DEF four
      <4>2. /\ SubSeq(line, four + 1, Len(line)) \in Seq(C)
            /\ Len(SubSeq(line, four + 1, Len(line))) = Len(line) - four
            /\ \A p \in 1 .. Len(line) - four :
                  SubSeq(line, four + 1, Len(line))[p] = line[four + p]
        BY <4>1, CutAfter
      <4> QED
        BY Zenon, <4>2 DEF four
    <3> QED
      BY Zenon, <2>1, <3>1
  <2>4. Len(line) - 4 = Len(s) - 1
    BY <1>2
  <2>5. ASSUME NEW p \in 1 .. Len(s) - 1
        PROVE  line[4 + p] = s[p + 1]
    <3>1. 4 + p \in 1 .. 3 + Len(s) /\ ~ (4 + p <= 3) /\ (4 + p) - 3 = p + 1
      BY <1>2
    <3> QED
      BY <1>2, <3>1
  <2> QED
    BY <2>3, <2>4, <2>5 DEF line, identifier
<1> QED
  BY <1>2, <1>3, <1>4

\* A line begins: its identifier and one character after it are taken off.
LEMMA BeginLineStep ==
    ASSUME CutInv, BeginLine
    PROVE  CutInv'
<1> DEFINE V == Cardinality(ValueItems)
<1>1. phase' = "Cutting" /\ props' = <<>> /\ UNCHANGED built /\ macro' = macro
  BY DEF BeginLine, built
<1>2. PICK lengths \in [1 .. V -> Lengths] :
         LET line == Fill(3, Filler) \o LineOf(lengths)
             rest == SubSeq(line, 5, Len(line))
         IN  /\ \A k \in DOMAIN lengths : lengths[k] <= macro[ItemOf(k)].width
             /\ contents' = lengths
             /\ valueRemain' \in {rest, TrimRight(rest)}
             /\ \E extra \in 0 .. 1 : keys' = Len(lengths) + extra
  BY DEF BeginLine
<1> DEFINE line == Fill(3, Filler) \o LineOf(lengths)
           rest == SubSeq(line, 5, Len(line))
<1>3. IInv /\ macro \in Seq(Items)
  BY DEF CutInv, IInv, ReaderTypes
<1>4. V \in Nat /\ Total(Parts) \in Nat
  BY <1>3, StartsType
<1>5. /\ lengths \in [1 .. V -> Nat] /\ DOMAIN lengths = 1 .. V /\ Len(lengths) = V
      /\ \A k \in 1 .. V : lengths[k] <= macro[ItemOf(k)].width
  BY <1>2, <1>4, LengthsType
<1>6. LineOf(lengths) \in Seq(0 .. V) /\ Len(LineOf(lengths)) = Total(Parts)
  BY <1>3, <1>5, LineType
<1>7. /\ contents' = lengths /\ valueRemain' \in {rest, TrimRight(rest)}
      /\ keys' \in V .. V + 1
  <2>1. contents' = lengths /\ valueRemain' \in {rest, TrimRight(rest)}
    BY <1>2
  <2>2. \E extra \in 0 .. 1 : keys' = Len(lengths) + extra
    BY <1>2
  <2> QED
    BY <1>4, <1>5, <2>1, <2>2
<1> HIDE DEF V
<1>8. /\ rest \in Seq(0 .. V)
      /\ Total(Parts) > 0 =>
           /\ Len(rest) = Total(Parts) - 1
           /\ \A p \in 1 .. Total(Parts) - 1 : rest[p] = LineOf(lengths)[p + 1]
  <2>1. Filler \in 0 .. V
    BY <1>4 DEF Filler
  <2> QED
    BY <1>6, <2>1, AfterTheIdentifier
<1> HIDE DEF rest
<1>9. /\ valueRemain' \in Seq(0 .. V) /\ Len(valueRemain') <= Len(rest)
      /\ \A p \in 1 .. Len(valueRemain') : valueRemain'[p] = rest[p]
      /\ \A p \in 1 .. Len(rest) : rest[p] # Filler => p <= Len(valueRemain')
  <2>1. CASE valueRemain' = rest
    BY <1>8, <2>1
  <2>2. CASE valueRemain' = TrimRight(rest)
    BY <1>8, <2>2, TrimRightLeaves
  <2> QED
    BY <1>7, <2>1, <2>2
<1>10. /\ columns' = columns /\ ValueItems' = ValueItems
       /\ Starts' = Starts /\ Total(Parts') = Total(Parts) /\ Shift' = Shift
       /\ \A k : ItemOf(k)' = ItemOf(k) /\ Start(k)' = Start(k)
  <2>1. /\ columns' = columns /\ ValueItems' = ValueItems /\ Parts' = Parts
        /\ \A k : Start(k)' = Start(k)
    BY <1>1, LineUnchanged DEF built
  <2> QED
    BY <2>1 DEF Starts, Shift, ItemOf
<1>11. Len(props') = 0 /\ key' = 1 /\ DOMAIN props' = {}
  BY <1>1, EmptySeq DEF key
<1>12. IInv'
  BY <1>1, <1>3, CuttingSteps
<1>13. CutTypes'
  <2>1. props' \in Seq(Seq(0 .. V)) /\ Len(props') <= keys'
    BY <1>1, <1>4, <1>7, <1>11, EmptySeq
  <2>2. lengths \in [1 .. V -> Lengths]
    BY <1>2 DEF V
  <2> QED
    BY <1>1, <1>5, <1>7, <1>9, <1>10, <2>1, <2>2 DEF CutTypes, V
<1>14. KeysGetTheirValues'
  BY <1>11 DEF KeysGetTheirValues, EachKeyHasItsValue
<1>15. ASSUME WellMarked', HasRoom'
       PROVE  RestOfTheLine'
  <2> DEFINE K == Len(columns)
  <2>0. WellMarked
    BY <1>1, <1>15 DEF WellMarked
  <2>1. /\ K = V /\ K \in Nat
        /\ \A k \in 1 .. K :
              /\ Start(k) \in Nat /\ columns[k] \in Nat \ {0}
              /\ macro[ItemOf(k)].width \in Nat
              /\ macro[ItemOf(k)].width <= columns[k]
              /\ Start(k) + columns[k] <= Total(Parts)
        /\ \A k, l \in 1 .. K : k < l => Start(k) + columns[k] <= Start(l)
    BY <1>3, <2>0, Layout DEF V
  <2>2. lengths \in [1 .. K -> Nat] /\ \A k \in 1 .. K : lengths[k] <= columns[k]
    <3>1. ASSUME NEW k \in 1 .. K
          PROVE  lengths[k] <= columns[k]
      <4> DEFINE width == macro[ItemOf(k)].width
      <4>1. lengths[k] \in Nat /\ lengths[k] <= width
        BY <1>5, <2>1
      <4>2. width \in Nat /\ width <= columns[k] /\ columns[k] \in Nat
        BY <2>1
      <4> HIDE DEF width
      <4> QED
        BY <4>1, <4>2
    <3> QED
      BY <1>5, <2>1, <3>1
  <2>3. /\ K > 0 => \A p \in 1 .. Start(1) : LineOf(lengths)[p] = Filler
        /\ \A k \in 1 .. K : \A p \in 1 .. columns[k] :
              LineOf(lengths)[Start(k) + p] = IF p <= lengths[k] THEN k ELSE Filler
    BY <1>3, <2>0, <2>2, LineCharacters
  <2> SUFFICES ASSUME 1 <= K
               PROVE  /\ Starts[1] + Len(valueRemain') <= Total(Parts) + Shift
                      /\ \A p \in 1 .. Shift : p <= Len(valueRemain') => valueRemain'[p] = Filler
                      /\ \A k \in 1 .. K : StillThere(k)'
    BY <1>10, <1>11 DEF RestOfTheLine
  <2>4. /\ 1 \in 1 .. K /\ K > 0 /\ Start(1) \in Nat /\ columns[1] \in Nat \ {0}
        /\ Start(1) + columns[1] <= Total(Parts)
        /\ \A k \in 1 .. K : Starts[k] = Start(k)
    BY <2>1 DEF Starts
  <2>5. Start(1) >= 1 /\ Shift \in Nat /\ Start(1) = Shift + 1
    <3>1. contents' # <<>>
      BY <1>5, <1>7, <2>1, <2>4, EmptySeq
    <3>2. Start(1) >= 1
      BY <1>10, <1>15, <3>1 DEF HasRoom, HasBlank
    <3> QED
      BY <2>4, <3>2 DEF Shift
  <2> HIDE DEF K
  <2>6. Total(Parts) > 0
    BY <1>4, <2>4
  <2>7. /\ Len(rest) = Total(Parts) - 1 /\ Len(valueRemain') \in Nat
        /\ \A p \in 1 .. Total(Parts) - 1 : rest[p] = LineOf(lengths)[p + 1]
    BY <1>8, <1>9, <2>6
  <2>8. Starts[1] + Len(valueRemain') <= Total(Parts) + Shift
    <3>1. Starts[1] = Shift + 1 /\ Len(valueRemain') <= Total(Parts) - 1
      BY <1>9, <2>4, <2>5, <2>7
    <3> QED
      BY <1>4, <2>5, <2>7, <3>1
  <2>9. ASSUME NEW p \in 1 .. Shift, p <= Len(valueRemain')
        PROVE  valueRemain'[p] = Filler
    <3>1. p \in 1 .. Len(valueRemain') /\ p \in 1 .. Total(Parts) - 1 /\ p + 1 \in 1 .. Start(1)
      BY <1>4, <1>9, <2>5, <2>7, <2>9
    <3> QED
      BY <1>9, <2>3, <2>4, <2>7, <3>1
  <2>10. ASSUME NEW k \in 1 .. K
         PROVE  StillThere(k)'
    <3> DEFINE before == Shift + (Starts[k] - Starts[1])
    <3>1. /\ Start(k) \in Nat /\ columns[k] \in Nat
          /\ lengths[k] \in Nat /\ lengths[k] <= columns[k]
          /\ Start(k) + columns[k] <= Total(Parts)
      BY <2>1, <2>2
    <3>2. Start(k) >= 1
      <4>1. k = 1 \/ 1 < k
        BY <2>1
      <4>2. 1 < k => Start(1) + columns[1] <= Start(k)
        BY <2>1, <2>4
      <4> QED
        BY <2>4, <2>5, <3>1, <4>1, <4>2
    <3>3. before = Start(k) - 1 /\ before \in Nat
      <4>1. Starts[k] = Start(k) /\ Starts[1] = Shift + 1
        BY <2>4, <2>5
      <4>2. Shift + (Start(k) - (Shift + 1)) = Start(k) - 1 /\ Start(k) - 1 \in Nat
        BY <2>5, <3>1, <3>2
      <4> QED
        BY <4>1, <4>2
    <3> HIDE DEF before
    <3>4. ASSUME NEW p \in 1 .. columns[k]
          PROVE  /\ before + p \in 1 .. Total(Parts) - 1
                 /\ rest[before + p] = IF p <= lengths[k] THEN k ELSE Filler
      <4>1. before + p \in 1 .. Total(Parts) - 1 /\ (before + p) + 1 = Start(k) + p
        <5>1. Total(Parts) \in Nat /\ p \in Nat /\ 1 <= p /\ p <= columns[k]
          BY <1>4, <3>1
        <5> DEFINE start == Start(k)
                   width == columns[k]
                   total == Total(Parts)
        <5>2. /\ start \in Nat /\ width \in Nat /\ start + width <= total /\ total \in Nat
              /\ before = start - 1 /\ before \in Nat
              /\ p \in Nat /\ 1 <= p /\ p <= width
          BY <3>1, <3>3, <5>1
        <5> HIDE DEF start, width, total
        <5>3. before + p \in 1 .. total - 1 /\ (before + p) + 1 = start + p
          BY <5>2
        <5> QED
          BY <5>3 DEF start, total
      <4>2. rest[before + p] = LineOf(lengths)[Start(k) + p]
        BY <2>7, <4>1
      <4> QED
        BY <2>3, <4>1, <4>2
    <3>5. lengths[k] > 0 => before + lengths[k] <= Len(valueRemain')
      <4> SUFFICES ASSUME lengths[k] > 0
                   PROVE  before + lengths[k] <= Len(valueRemain')
        OBVIOUS
      <4>1. lengths[k] \in 1 .. columns[k]
        BY <3>1
      <4>2. rest[before + lengths[k]] # Filler
        BY <3>1, <3>4, <4>1 DEF Filler
      <4>3. before + lengths[k] \in 1 .. Len(rest)
        BY <2>7, <3>4, <4>1
      <4>4. \A p \in 1 .. Len(rest) : rest[p] # Filler => p <= Len(valueRemain')
        BY <1>9
      <4> QED
        BY Zenon, <4>2, <4>3, <4>4
    <3>6. ASSUME NEW p \in 1 .. columns[k], before + p <= Len(valueRemain')
          PROVE  valueRemain'[before + p] = IF p <= lengths[k] THEN k ELSE Filler
      <4>1. before + p \in 1 .. Len(valueRemain')
        BY <2>7, <3>4, <3>6
      <4> QED
        BY <1>9, <3>4, <4>1
    <3> QED
      BY <1>7, <1>10, <1>11, <3>5, <3>6 DEF StillThere, before
  <2> QED
    BY <2>8, <2>9, <2>10
<1> QED
  BY <1>12, <1>13, <1>14, <1>15 DEF CutInv

-----------------------------------------------------------------------------
(* The theorems *)

\* Between lines nothing is cut.
LEMMA NotCutting ==
    ASSUME IInv', phase' \in {"Building", "Built"},
           contents' = <<>>, keys' = 0, valueRemain' = <<>>, props' = <<>>
    PROVE  CutInv'
<1>1. phase' # "Cutting"
  OBVIOUS
<1>2. CutTypes'
  BY <1>1 DEF CutTypes
<1>3. RestOfTheLine' /\ KeysGetTheirValues'
  BY <1>1 DEF RestOfTheLine, KeysGetTheirValues
<1> QED
  BY <1>2, <1>3 DEF CutInv

LEMMA InitCutInv == Init => CutInv
<1> SUFFICES ASSUME Init PROVE CutInv
  OBVIOUS
<1>1. IInv
  BY InitIInv
<1>2. phase = "Building" /\ contents = <<>> /\ keys = 0 /\ valueRemain = <<>> /\ props = <<>>
  BY DEF Init
<1> QED
  BY <1>1, <1>2 DEF CutInv, CutTypes, RestOfTheLine, KeysGetTheirValues

LEMMA NextCutInv == CutInv /\ [Next]_vars => CutInv'
<1> SUFFICES ASSUME CutInv, [Next]_vars PROVE CutInv'
  OBVIOUS
<1>1. IInv'
  BY NextIInv DEF CutInv
<1>2. /\ phase \in {"Building", "Built", "Cutting"}
      /\ phase # "Cutting" => contents = <<>> /\ keys = 0 /\ valueRemain = <<>> /\ props = <<>>
  BY DEF CutInv, CutTypes
<1>3. ASSUME NEW d \in Items, AddBlank(d) \/ AddSingle(d) \/ AddColumn(d)
      PROVE  CutInv'
  <2>1. phase = "Building" /\ UNCHANGED phase /\ UNCHANGED cut
    BY <1>3 DEF AddBlank, AddSingle, AddColumn, ReadsOne
  <2> QED
    BY <1>1, <1>2, <2>1, NotCutting DEF cut
<1>4. CASE EndSection
  <2>1. phase = "Building" /\ phase' = "Built" /\ UNCHANGED cut
    BY <1>4 DEF EndSection
  <2> QED
    BY <1>1, <1>2, <2>1, NotCutting DEF cut
<1>5. CASE EndLine
  BY <1>1, <1>5, NotCutting DEF EndLine
<1>6. CASE BeginLine \/ LeaveEmpty \/ TakeRest \/ TakeColumn
  BY <1>6, BeginLineStep, LeaveEmptyStep, TakeRestStep, TakeColumnStep
<1>7. CASE UNCHANGED vars
  <2>1. UNCHANGED built /\ UNCHANGED cut /\ UNCHANGED phase
    BY <1>7 DEF vars, built, cut
  <2>2. CASE phase # "Cutting"
    BY <1>1, <1>2, <2>1, <2>2, NotCutting DEF cut
  <2>3. CASE phase = "Cutting"
    <3>1. /\ Starts' = Starts /\ Total(Parts') = Total(Parts) /\ columns' = columns
          /\ macro' = macro /\ ValueItems' = ValueItems /\ Shift' = Shift
          /\ \A k : ItemOf(k)' = ItemOf(k) /\ Start(k)' = Start(k)
      <4>1. /\ columns' = columns /\ Parts' = Parts /\ \A k : Start(k)' = Start(k)
            /\ macro' = macro /\ ValueItems' = ValueItems
        BY <2>1, LineUnchanged DEF built
      <4> QED
        BY <4>1 DEF Starts, Shift, ItemOf
    <3>2. key' = key
      BY <2>1 DEF key, cut
    <3>3. CutTypes'
      BY <2>1, <3>1 DEF CutInv, CutTypes, cut
    <3>4. EachKeyHasItsValue => EachKeyHasItsValue'
      BY <2>1 DEF EachKeyHasItsValue, cut
    <3>5. RestOfTheLine => RestOfTheLine'
      BY <2>1, <3>1, <3>2 DEF RestOfTheLine, StillThere, cut
    <3>6. (WellMarked' => WellMarked) /\ (HasRoom' => HasRoom)
      BY <2>1, <3>1 DEF WellMarked, HasRoom, HasBlank, built, cut
    <3> QED
      BY <1>1, <2>3, <3>3, <3>4, <3>5, <3>6 DEF CutInv, KeysGetTheirValues
  <2> QED
    BY <2>2, <2>3
<1> QED
  BY <1>3, <1>4, <1>5, <1>6, <1>7 DEF Next

\* What holds of a line at every step.
THEOREM CutInvariance == Spec => []CutInv
BY InitCutInv, NextCutInv, PTL DEF Spec

\* The variables have their types, and there is never a column without a definition or a
\* value without a key, also in macros that are not well marked.
THEOREM Typing == Spec => []TypeOK
<1>1. CutInv => TypeOK
  <2> SUFFICES ASSUME CutInv PROVE TypeOK
    OBVIOUS
  <2> DEFINE K == Cardinality(ValueItems)
             n == Len(macro)
  <2>1. /\ macro \in Seq(Items) /\ Len(macro) <= MaxItems
        /\ columns \in Seq(Nat \ {0}) /\ Len(columns) <= Len(macro)
        /\ hadBlankPreviously \in BOOLEAN
    BY DEF CutInv, IInv, ReaderTypes
  <2>2. K \in Nat /\ K <= n /\ n \in Nat
    BY <2>1, StartsType
  <2>3. phase \in {"Building", "Built", "Cutting"}
    BY DEF CutInv, CutTypes
  <2>4. CASE phase = "Cutting"
    <3>1. /\ contents \in [1 .. K -> Lengths] /\ keys \in K .. K + 1
          /\ valueRemain \in Seq(0 .. K) /\ props \in Seq(Seq(0 .. K)) /\ Len(props) <= keys
      BY <2>4 DEF CutInv, CutTypes
    <3> HIDE DEF K, n
    <3>2. contents \in Seq(Lengths) /\ keys \in 0 .. n + 1
      <4>1. contents \in Seq(Lengths)
        BY <2>2, <3>1, FunctionIsSeq
      <4>2. keys \in 0 .. n + 1
        BY <2>2, <3>1
      <4> QED
        BY <4>1, <4>2
    <3>3. 0 .. K \subseteq 0 .. n
      BY <2>2
    <3>4. valueRemain \in Seq(0 .. n)
      BY <3>1, <3>3, SeqMonotonic
    <3>5. props \in Seq(Seq(0 .. n))
      <4>1. \A s \in Seq(0 .. K) : s \in Seq(0 .. n)
        BY <3>3, SeqMonotonic
      <4> QED
        BY <3>1, <4>1, SeqMonotonic
    <3> QED
      BY <2>1, <2>3, <3>1, <3>2, <3>4, <3>5 DEF TypeOK, n
  <2>5. CASE phase # "Cutting"
    <3>1. contents = <<>> /\ keys = 0 /\ valueRemain = <<>> /\ props = <<>>
      BY <2>5 DEF CutInv, CutTypes
    <3> QED
      BY <2>1, <2>2, <2>3, <3>1, EmptySeq DEF TypeOK
  <2> QED
    BY <2>4, <2>5
<1> QED
  BY <1>1, CutInvariance, PTL

\* The columns cover the definitions of a well marked macro from the first value on.
THEOREM CoverTheLine == Spec => []ColumnsCoverTheLine
<1>1. IInv => ColumnsCoverTheLine
  BY DEF IInv, Reads, ColumnsCoverTheLine
<1> QED
  BY <1>1, Invariance, PTL

\* parseResults gives each key its own value, whatever the widths, the blanks and the
\* contents, as long as the values have the room for the blanks.
THEOREM ValuesOfKeys == Spec => []KeysGetTheirValues
<1>1. CutInv => KeysGetTheirValues
  BY DEF CutInv
<1> QED
  BY <1>1, CutInvariance, PTL

=============================================================================
