--------------------------- MODULE CommandTextProof ---------------------------
(***************************************************************************)
(* Lemmas about texts of commands, for the proofs about the methods that   *)
(* write them.                                                             *)
(***************************************************************************)
EXTENDS CommandText, PositionsProof

\* The kinds of tokens are apart.
LEMMA MarksDiffer ==
    /\ Open # Close /\ Open # Comma /\ Open # Space /\ Open # Hyphen
    /\ Close # Comma /\ Close # Space /\ Close # Hyphen
    /\ Comma # Space /\ Comma # Hyphen /\ Space # Hyphen
    /\ OpenList \notin {Open, Close} /\ CloseList \notin {Open, Close}
    /\ \A t \in Marks : t[1] \notin {"K", "V"} /\ ~IsWord(t)
    /\ \A t : t[1] \in {"K", "V"} => IsWord(t) /\ t \notin Marks
<1>1. /\ Open[1] = "(" /\ Close[1] = ")" /\ Comma[1] = "," /\ Space[1] = " " /\ Hyphen[1] = "-"
      /\ OpenList[1] = "[" /\ CloseList[1] = "]"
  BY DEF Open, Close, Comma, Space, Hyphen, OpenList, CloseList
<1> QED
  BY <1>1 DEF Marks, IsWord

LEMMA WordsAndValues ==
    /\ \A word : K(word)[1] = "K"
    /\ \A p, v : V(p, v)[1] = "V" /\ V(p, v)[2] = p[1] /\ V(p, v)[3] = p[2] /\ V(p, v)[4] = v
    /\ "K" # "V"
BY DEF K, V

-----------------------------------------------------------------------------
(* Sequences *)

\* A text and one token more.
LEMMA Longer ==
    ASSUME NEW T, NEW s \in Seq(T), NEW t \in T
    PROVE  /\ s \o <<t>> \in Seq(T)
           /\ Len(s \o <<t>>) = Len(s) + 1
           /\ Len(s) \in Nat
           /\ \A i \in 1 .. Len(s) : (s \o <<t>>)[i] = s[i]
           /\ (s \o <<t>>)[Len(s) + 1] = t
           /\ s \o <<t>> = Append(s, t)
<1>1. Append(s, t) = s \o <<t>>
  BY AppendIsConcat
<1>2. /\ Append(s, t) \in Seq(T)
      /\ Len(Append(s, t)) = Len(s) + 1
      /\ Len(s) \in Nat
      /\ \A i \in 1 .. Len(s) : Append(s, t)[i] = s[i]
      /\ Append(s, t)[Len(s) + 1] = t
  BY AppendProperties
<1> QED
  BY Zenon, <1>1, <1>2

\* The first tokens of a text.
LEMMA FirstTokens ==
    ASSUME NEW T, NEW s \in Seq(T), NEW n \in 0 .. Len(s)
    PROVE  /\ SubSeq(s, 1, n) \in Seq(T)
           /\ Len(SubSeq(s, 1, n)) = n
           /\ \A i \in 1 .. n : SubSeq(s, 1, n)[i] = s[i]
<1>1. n \in Int /\ 1 \in Int /\ \A i \in 1 .. n : s[i] \in T
  OBVIOUS
<1>2. /\ SubSeq(s, 1, n) \in Seq(T)
      /\ Len(SubSeq(s, 1, n)) = IF 1 <= n THEN n - 1 + 1 ELSE 0
      /\ \A i \in 1 .. n - 1 + 1 : SubSeq(s, 1, n)[i] = s[1 + i - 1]
  BY <1>1, SubSeqProperties
<1>3. n - 1 + 1 = n /\ \A i \in 1 .. n : 1 + i - 1 = i
  BY <1>1
<1>4. 1 <= n \/ n = 0
  OBVIOUS
<1> QED
  BY <1>2, <1>3, <1>4

LEMMA FirstTokensGrow ==
    ASSUME NEW T, NEW s \in Seq(T), NEW n \in 0 .. Len(s) - 1
    PROVE  /\ SubSeq(s, 1, n + 1) = SubSeq(s, 1, n) \o <<s[n + 1]>>
           /\ s[n + 1] \in T
<1>0. n \in 0 .. Len(s) /\ n + 1 \in 0 .. Len(s) /\ n + 1 \in 1 .. Len(s) /\ Len(s) \in Nat
  OBVIOUS
<1>1. s[n + 1] \in T
  BY <1>0
<1> DEFINE u == SubSeq(s, 1, n + 1)
           v == SubSeq(s, 1, n)
<1>2. u \in Seq(T) /\ Len(u) = n + 1 /\ \A i \in 1 .. n + 1 : u[i] = s[i]
  BY <1>0, FirstTokens
<1>3. v \in Seq(T) /\ Len(v) = n /\ \A i \in 1 .. n : v[i] = s[i]
  BY <1>0, FirstTokens
<1> HIDE DEF u, v
<1>4. /\ v \o <<s[n + 1]>> \in Seq(T)
      /\ Len(v \o <<s[n + 1]>>) = n + 1
      /\ \A i \in 1 .. n : (v \o <<s[n + 1]>>)[i] = v[i]
      /\ (v \o <<s[n + 1]>>)[n + 1] = s[n + 1]
  BY <1>1, <1>3, Longer
<1>5. \A i \in 1 .. n + 1 : u[i] = (v \o <<s[n + 1]>>)[i]
  <2>1. \A i \in 1 .. n + 1 : i \in 1 .. n \/ i = n + 1
    BY <1>0
  <2> QED
    BY <1>2, <1>3, <1>4, <2>1
<1>6. u = v \o <<s[n + 1]>>
  BY <1>2, <1>4, <1>5, SeqEqual
<1> QED
  BY <1>1, <1>6 DEF u, v

-----------------------------------------------------------------------------
(* FlattenSeq *)

\* What a list of texts is put together to, one after the other: if each text leads from
\* steps[i - 1] to steps[i], all of them lead to the last.
LEMMA FlattenSteps ==
    ASSUME NEW n \in Nat, NEW T, NEW seqs \in [1 .. n -> Seq(T)],
           NEW steps, <<>> \in steps[0],
           \A i \in 1 .. n : \A s \in Seq(T) : s \in steps[i - 1] => s \o seqs[i] \in steps[i]
    PROVE  FlattenSeq(seqs) \in Seq(T) /\ FlattenSeq(seqs) \in steps[n]
<1>0. Len(seqs) = n /\ seqs \in Seq(Seq(T)) /\ \A i \in 1 .. n : seqs[i] \in Seq(T)
  BY FunctionIsSeq
<1>1. CASE n = 0
  <2>1. FlattenSeq(seqs) = <<>>
    BY <1>0, <1>1, EmptySeq DEF FlattenSeq
  <2> QED
    BY <1>1, <2>1
<1>2. CASE n # 0
  <2> DEFINE Flat(m) == {f \in [1 .. m -> Seq(T)] :
                           f = [i \in 1 .. m |-> IF i = 1 THEN seqs[i] ELSE f[i - 1] \o seqs[i]]}
             U == {m \in Nat : m = 0 \/ Flat(m) # {}}
  <2>1. 0 \in U
    OBVIOUS
  <2>2. \A m \in 0 .. n - 1 : m \in U => m + 1 \in U
    <3> SUFFICES ASSUME NEW m \in 0 .. n - 1, m \in U
                 PROVE  m + 1 \in U
      OBVIOUS
    <3> SUFFICES Flat(m + 1) # {}
      <4>1. m + 1 \in Nat
        OBVIOUS
      <4> HIDE DEF Flat
      <4> QED
        BY <4>1
    <3>1. CASE m = 0
      <4>1. [i \in 1 .. 1 |-> seqs[i]] \in [1 .. 1 -> Seq(T)]
        BY <1>2
      <4> DEFINE f == [i \in 1 .. 1 |-> seqs[i]]
      <4>2. f = [i \in 1 .. 1 |-> IF i = 1 THEN seqs[i] ELSE f[i - 1] \o seqs[i]]
        OBVIOUS
      <4>3. m + 1 = 1
        BY <3>1
      <4> QED
        BY <4>1, <4>2, <4>3
    <3>2. CASE m # 0
      <4>1. PICK f \in [1 .. m -> Seq(T)] :
                   f = [i \in 1 .. m |-> IF i = 1 THEN seqs[i] ELSE f[i - 1] \o seqs[i]]
        BY <3>2
      <4> DEFINE g == [i \in 1 .. m + 1 |-> IF i <= m THEN f[i] ELSE f[m] \o seqs[m + 1]]
      <4>2. f[m] \in Seq(T) /\ seqs[m + 1] \in Seq(T)
        BY <3>2, <1>2
      <4>3. f[m] \o seqs[m + 1] \in Seq(T)
        BY <4>2
      <4>4. g \in [1 .. m + 1 -> Seq(T)]
        BY <4>3
      <4>5. ASSUME NEW i \in 1 .. m + 1
            PROVE  g[i] = IF i = 1 THEN seqs[i] ELSE g[i - 1] \o seqs[i]
        <5>1. CASE i <= m
          <6>1. i \in 1 .. m /\ i # 1 => i - 1 \in 1 .. m /\ i - 1 <= m /\ i - 1 \in 1 .. m + 1
            BY <5>1
          <6>2. f[i] = IF i = 1 THEN seqs[i] ELSE f[i - 1] \o seqs[i]
            <7>1. i \in 1 .. m
              BY <5>1
            <7> QED
              BY Zenon, <4>1, <7>1
          <6>3. g[i] = f[i] /\ (i # 1 => g[i - 1] = f[i - 1])
            BY <5>1, <6>1
          <6> HIDE DEF g
          <6> QED
            BY <6>2, <6>3
        <5>2. CASE ~ (i <= m)
          <6>1. i = m + 1 /\ i # 1 /\ i - 1 = m /\ m \in 1 .. m + 1 /\ m <= m
            BY <3>2, <5>2
          <6> QED
            BY <5>2, <6>1
        <5> QED
          BY <5>1, <5>2
      <4>6. g = [i \in 1 .. m + 1 |-> IF i = 1 THEN seqs[i] ELSE g[i - 1] \o seqs[i]]
        <5>1. DOMAIN g = 1 .. m + 1
          OBVIOUS
        <5>2. g = [i \in 1 .. m + 1 |-> g[i]]
          BY Zenon, <5>1
        <5> HIDE DEF g
        <5> QED
          BY <4>5, <5>2
      <4> QED
        BY <4>4, <4>6
    <3> QED
      BY <3>1, <3>2
  <2>3. n \in U
    <3>1. \A m \in 0 .. n : m \in U
      <4> HIDE DEF U
      <4> QED
        BY <2>1, <2>2, Upwards
    <3>2. n \in 0 .. n
      OBVIOUS
    <3> HIDE DEF U
    <3> QED
      BY <3>1, <3>2
  <2> DEFINE flatten == CHOOSE f : f = [i \in 1 .. n |-> IF i = 1 THEN seqs[i] ELSE f[i - 1] \o seqs[i]]
  <2>4. flatten = [i \in 1 .. n |-> IF i = 1 THEN seqs[i] ELSE flatten[i - 1] \o seqs[i]]
    <3>1. \E f : f = [i \in 1 .. n |-> IF i = 1 THEN seqs[i] ELSE f[i - 1] \o seqs[i]]
      BY <1>2, <2>3
    <3> QED
      BY Zenon, <3>1
  <2>5. FlattenSeq(seqs) = flatten[n]
    BY Zenon, <1>0, <1>2 DEF FlattenSeq
  <2> HIDE DEF flatten
  <2>6. \A i \in 1 .. n : flatten[i] = IF i = 1 THEN seqs[i] ELSE flatten[i - 1] \o seqs[i]
    BY Zenon, <2>4
  <2> DEFINE W == {m \in Nat : m = 0 \/ (flatten[m] \in Seq(T) /\ flatten[m] \in steps[m])}
  <2>7. 0 \in W
    OBVIOUS
  <2>8. \A m \in 0 .. n - 1 : m \in W => m + 1 \in W
    <3> SUFFICES ASSUME NEW m \in 0 .. n - 1, m \in W
                 PROVE  m + 1 \in W
      OBVIOUS
    <3>0. m + 1 \in 1 .. n /\ (m + 1) - 1 = m
      OBVIOUS
    <3> SUFFICES flatten[m + 1] \in Seq(T) /\ flatten[m + 1] \in steps[m + 1]
      OBVIOUS
    <3>1. CASE m = 0
      <4>1. flatten[1] = seqs[1] /\ seqs[1] \in Seq(T) /\ 1 \in 1 .. n /\ 1 - 1 = 0
        BY <2>6, <3>0, <3>1
      <4>2. <<>> \o seqs[1] = seqs[1] /\ <<>> \in Seq(T)
        BY <4>1
      <4>3. <<>> \o seqs[1] \in steps[1]
        BY <4>1, <4>2
      <4> QED
        BY <3>1, <4>1, <4>2, <4>3
    <3>2. CASE m # 0
      <4>1. flatten[m + 1] = flatten[m] \o seqs[m + 1]
        <5>1. m + 1 # 1
          BY <3>2
        <5> QED
          BY Zenon, <2>6, <3>0, <5>1
      <4>2. flatten[m] \in Seq(T) /\ flatten[m] \in steps[m] /\ seqs[m + 1] \in Seq(T)
        BY <3>0, <3>2
      <4>3. flatten[m] \o seqs[m + 1] \in steps[m + 1]
        BY <3>0, <4>2
      <4>4. flatten[m] \o seqs[m + 1] \in Seq(T)
        BY <4>2
      <4> QED
        BY <4>1, <4>3, <4>4
    <3> QED
      BY <3>1, <3>2
  <2>9. \A m \in 0 .. n : m \in W
    <3> HIDE DEF W
    <3> QED
      BY <2>7, <2>8, Upwards
  <2>10. n \in 0 .. n
    OBVIOUS
  <2> QED
    BY <1>2, <2>5, <2>9, <2>10
<1> QED
  BY <1>1, <1>2

-----------------------------------------------------------------------------
(* Two texts one after the other *)

LEMMA BothTexts ==
    ASSUME NEW T, NEW s \in Seq(T), NEW t \in Seq(T)
    PROVE  /\ s \o t \in Seq(T)
           /\ Len(s \o t) = Len(s) + Len(t)
           /\ Len(s) \in Nat /\ Len(t) \in Nat
           /\ \A i \in 1 .. Len(s) : (s \o t)[i] = s[i]
           /\ \A i \in 1 .. Len(t) : (s \o t)[Len(s) + i] = t[i]
<1> DEFINE u == s \o t
<1>1. /\ u \in Seq(T)
      /\ Len(u) = Len(s) + Len(t)
      /\ \A i \in 1 .. Len(s) + Len(t) : u[i] = IF i <= Len(s) THEN s[i] ELSE t[i - Len(s)]
  BY ConcatProperties
<1> HIDE DEF u
<1>2. Len(s) \in Nat /\ Len(t) \in Nat
  OBVIOUS
<1>3. \A i \in 1 .. Len(s) : u[i] = s[i]
  BY <1>1, <1>2
<1>4. ASSUME NEW i \in 1 .. Len(t)
      PROVE  u[Len(s) + i] = t[i]
  <2>1. Len(s) + i \in 1 .. Len(s) + Len(t) /\ ~ (Len(s) + i <= Len(s)) /\ (Len(s) + i) - Len(s) = i
    BY <1>2
  <2> QED
    BY <1>1, <2>1
<1> QED
  BY <1>1, <1>2, <1>3, <1>4 DEF u

\* Texts may be put together in another order.
Associate(r, s, t) == (r \o s) \o t = r \o (s \o t)

LEMMA TextsAssociate ==
    ASSUME NEW T, NEW r \in Seq(T), NEW s \in Seq(T), NEW t \in Seq(T)
    PROVE  Associate(r, s, t) /\ r \o s \in Seq(T)
<1>1. Associate(r, s, t)
  BY ConcatAssociative DEF Associate
<1>2. r \o s \in Seq(T)
  BY BothTexts
<1> QED
  BY <1>1, <1>2

LEMMA EndsOfBoth ==
    ASSUME NEW T, NEW s \in Seq(T), NEW t \in Seq(T)
    PROVE  /\ s # <<>> => s \o t # <<>> /\ (s \o t)[1] = s[1] /\ s[1] \in T
           /\ t # <<>> => s \o t # <<>> /\ Last(s \o t) = Last(t) /\ Last(t) \in T
           /\ t = <<>> => s \o t = s
           /\ s = <<>> => s \o t = t
<1> DEFINE u == s \o t
<1>1. /\ u \in Seq(T)
      /\ Len(u) = Len(s) + Len(t)
      /\ Len(s) \in Nat /\ Len(t) \in Nat
      /\ \A i \in 1 .. Len(s) : u[i] = s[i]
      /\ \A i \in 1 .. Len(t) : u[Len(s) + i] = t[i]
  BY BothTexts
<1> HIDE DEF u
<1>2. ASSUME s # <<>>
      PROVE  u # <<>> /\ u[1] = s[1] /\ s[1] \in T
  <2>1. Len(s) # 0
    BY <1>2, EmptySeq
  <2>2. 1 \in 1 .. Len(s) /\ Len(u) # 0
    BY <1>1, <2>1
  <2> QED
    BY <1>1, <2>2
<1>3. ASSUME t # <<>>
      PROVE  u # <<>> /\ Last(u) = Last(t) /\ Last(t) \in T
  <2>1. Len(t) # 0
    BY <1>3, EmptySeq
  <2>2. Len(t) \in 1 .. Len(t) /\ Len(u) # 0
    BY <1>1, <2>1
  <2>3. t[Len(t)] \in T
    BY <2>2
  <2> QED
    BY <1>1, <2>2, <2>3 DEF Last
<1>4. (t = <<>> => u = s) /\ (s = <<>> => u = t)
  BY ConcatEmptySeq DEF u
<1> QED
  BY <1>2, <1>3, <1>4 DEF u

\* Its first tokens are of the first text, or all of it and some of the other.
Prolongs(s, t) == \A n \in 0 .. Len(t) : SubSeq(s \o t, 1, Len(s) + n) = s \o SubSeq(t, 1, n)

LEMMA FirstTokensOfBoth ==
    ASSUME NEW T, NEW s \in Seq(T), NEW t \in Seq(T)
    PROVE  /\ \A n \in 0 .. Len(s) : SubSeq(s \o t, 1, n) = SubSeq(s, 1, n)
           /\ \A n \in 0 .. Len(t) : SubSeq(s \o t, 1, Len(s) + n) = s \o SubSeq(t, 1, n)
           /\ Prolongs(s, t)
<1> DEFINE u == s \o t
<1>1. /\ u \in Seq(T)
      /\ Len(u) = Len(s) + Len(t) /\ Len(s) \in Nat /\ Len(t) \in Nat
      /\ \A i \in 1 .. Len(s) : u[i] = s[i]
      /\ \A i \in 1 .. Len(t) : u[Len(s) + i] = t[i]
  BY BothTexts
<1> HIDE DEF u
<1>2. ASSUME NEW n \in 0 .. Len(s)
      PROVE  SubSeq(u, 1, n) = SubSeq(s, 1, n)
  <2>1. n \in 0 .. Len(u) /\ \A i \in 1 .. n : i \in 1 .. Len(s)
    BY <1>1
  <2>2. /\ SubSeq(u, 1, n) \in Seq(T) /\ Len(SubSeq(u, 1, n)) = n
        /\ \A i \in 1 .. n : SubSeq(u, 1, n)[i] = u[i]
    BY <1>1, <2>1, FirstTokens
  <2>3. /\ SubSeq(s, 1, n) \in Seq(T) /\ Len(SubSeq(s, 1, n)) = n
        /\ \A i \in 1 .. n : SubSeq(s, 1, n)[i] = s[i]
    BY FirstTokens
  <2>4. \A i \in 1 .. n : SubSeq(u, 1, n)[i] = SubSeq(s, 1, n)[i]
    BY Zenon, <1>1, <2>1, <2>2, <2>3
  <2> QED
    BY <2>2, <2>3, <2>4, SeqEqual
<1>3. ASSUME NEW n \in 0 .. Len(t)
      PROVE  SubSeq(u, 1, Len(s) + n) = s \o SubSeq(t, 1, n)
  <2> DEFINE m == Len(s) + n
             v == SubSeq(u, 1, m)
             w == SubSeq(t, 1, n)
  <2>1. m \in 0 .. Len(u) /\ n \in Nat
    BY <1>1
  <2>2. v \in Seq(T) /\ Len(v) = m /\ \A i \in 1 .. m : v[i] = u[i]
    <3> HIDE DEF m
    <3> QED
      BY <1>1, <2>1, FirstTokens
  <2>3. w \in Seq(T) /\ Len(w) = n /\ \A i \in 1 .. n : w[i] = t[i]
    BY FirstTokens
  <2> HIDE DEF v, w
  <2>4. /\ s \o w \in Seq(T) /\ Len(s \o w) = Len(s) + n
        /\ \A i \in 1 .. Len(s) : (s \o w)[i] = s[i]
        /\ \A i \in 1 .. n : (s \o w)[Len(s) + i] = w[i]
    <3>1. /\ s \o w \in Seq(T) /\ Len(s \o w) = Len(s) + Len(w)
          /\ \A i \in 1 .. Len(s) : (s \o w)[i] = s[i]
          /\ \A i \in 1 .. Len(w) : (s \o w)[Len(s) + i] = w[i]
      <4>1. w \in Seq(T)
        BY <2>3
      <4> HIDE DEF w
      <4>2. s \o w \in Seq(T)
        BY <4>1, BothTexts
      <4>3. Len(s \o w) = Len(s) + Len(w)
        BY <4>1, BothTexts
      <4>4. \A i \in 1 .. Len(s) : (s \o w)[i] = s[i]
        BY <4>1, BothTexts
      <4>5. \A i \in 1 .. Len(w) : (s \o w)[Len(s) + i] = w[i]
        BY <4>1, BothTexts
      <4> QED
        BY <4>2, <4>3, <4>4, <4>5
    <3> QED
      BY Zenon, <2>3, <3>1
  <2>5. ASSUME NEW i \in 1 .. m
        PROVE  v[i] = (s \o w)[i]
    <3>1. CASE i <= Len(s)
      <4>1. i \in 1 .. Len(s)
        BY <3>1
      <4> QED
        BY Zenon, <1>1, <2>2, <2>4, <4>1
    <3>2. CASE ~ (i <= Len(s))
      <4> DEFINE j == i - Len(s)
      <4>1. j \in 1 .. n /\ j \in 1 .. Len(t) /\ i = Len(s) + j
        BY <1>1, <3>2
      <4> HIDE DEF j
      <4>2. v[i] = t[j]
        BY Zenon, <1>1, <2>2, <4>1
      <4>3. (s \o w)[i] = t[j]
        BY Zenon, <2>3, <2>4, <4>1
      <4> QED
        BY <4>2, <4>3
    <3> QED
      BY <3>1, <3>2
  <2>6. v = s \o w
    <3>1. Len(v) = Len(s \o w) /\ \A i \in 1 .. Len(v) : v[i] = (s \o w)[i]
      BY <2>2, <2>4, <2>5
    <3> QED
      BY <2>2, <2>4, <3>1, SeqEqual
  <2> QED
    BY <2>6 DEF v, w
<1> QED
  <2>1. Prolongs(s, t)
    BY Zenon, <1>3 DEF u, Prolongs
  <2> QED
    BY <1>2, <1>3, <2>1 DEF u

-----------------------------------------------------------------------------
(* Which tokens follow which *)

Chain(R, s) == \A i \in 1 .. Len(s) - 1 : <<s[i], s[i + 1]>> \in R

LEMMA ChainConcat ==
    ASSUME NEW T, NEW R, NEW s \in Seq(T), NEW t \in Seq(T), Chain(R, s), Chain(R, t),
           s # <<>> /\ t # <<>> => <<Last(s), t[1]>> \in R
    PROVE  Chain(R, s \o t)
<1> DEFINE u == s \o t
<1>1. /\ Len(u) = Len(s) + Len(t) /\ Len(s) \in Nat /\ Len(t) \in Nat
      /\ \A i \in 1 .. Len(s) : u[i] = s[i]
      /\ \A i \in 1 .. Len(t) : u[Len(s) + i] = t[i]
  BY BothTexts
<1> HIDE DEF u
<1> SUFFICES ASSUME NEW i \in 1 .. Len(u) - 1
             PROVE  <<u[i], u[i + 1]>> \in R
  BY DEF Chain, u
<1>2. CASE i + 1 <= Len(s)
  <2>1. i \in 1 .. Len(s) /\ i + 1 \in 1 .. Len(s) /\ i \in 1 .. Len(s) - 1
    BY <1>1, <1>2
  <2> QED
    BY Zenon, <1>1, <2>1 DEF Chain
<1>3. CASE i = Len(s)
  <2>1. i \in 1 .. Len(s) /\ 1 \in 1 .. Len(t) /\ Len(s) # 0 /\ Len(t) # 0 /\ i + 1 = Len(s) + 1
    BY <1>1, <1>3
  <2>2. u[i] = Last(s) /\ u[i + 1] = t[1]
    BY Zenon, <1>1, <1>3, <2>1 DEF Last
  <2>3. s # <<>> /\ t # <<>>
    BY <2>1
  <2> QED
    BY <2>2, <2>3
<1>4. CASE i > Len(s)
  <2> DEFINE j == i - Len(s)
  <2>1. /\ j \in 1 .. Len(t) /\ j + 1 \in 1 .. Len(t) /\ j \in 1 .. Len(t) - 1
        /\ i = Len(s) + j /\ i + 1 = Len(s) + (j + 1)
    BY <1>1, <1>4
  <2> HIDE DEF j
  <2>2. u[i] = t[j] /\ u[i + 1] = t[j + 1]
    BY Zenon, <1>1, <2>1
  <2> QED
    BY Zenon, <2>1, <2>2 DEF Chain
<1> QED
  BY <1>1, <1>2, <1>3, <1>4

-----------------------------------------------------------------------------
(* Parentheses *)

\* How often a token occurs.
Count(c, s) == Cardinality({i \in DOMAIN s : s[i] = c})

LEMMA CountLonger ==
    ASSUME NEW T, NEW s \in Seq(T), NEW t \in T, NEW c
    PROVE  /\ Count(c, s) \in Nat
           /\ Count(c, s \o <<t>>) = Count(c, s) + (IF t = c THEN 1 ELSE 0)
<1> DEFINE Places(u) == {i \in DOMAIN u : u[i] = c}
           n == Len(s)
<1>1. n \in Nat /\ DOMAIN s = 1 .. n /\ DOMAIN (s \o <<t>>) = 1 .. n + 1
  <2>1. Len(s \o <<t>>) = n + 1 /\ s \o <<t>> \in Seq(T)
    BY Longer
  <2> QED
    BY <2>1, LenProperties
<1>2. (\A i \in 1 .. n : (s \o <<t>>)[i] = s[i]) /\ (s \o <<t>>)[n + 1] = t
  BY Longer
<1>3. Places(s) \in SUBSET (1 .. n)
  BY <1>1
<1>4. Places(s \o <<t>>) = IF t = c THEN Places(s) \cup {n + 1} ELSE Places(s)
  <2> HIDE DEF n
  <2>1. 1 .. n + 1 = (1 .. n) \cup {n + 1}
    BY <1>1
  <2> QED
    BY <1>1, <1>2, <2>1
<1>5. n + 1 \notin Places(s)
  BY <1>1
<1> HIDE DEF Places, n
<1>6. IsFiniteSet(Places(s)) /\ Cardinality(Places(s)) \in Nat
  BY <1>1, <1>3, RanksAreUnique
<1>7. Cardinality(Places(s) \cup {n + 1}) = Cardinality(Places(s)) + 1
  BY <1>5, <1>6, FS_AddElement
<1>8. Cardinality(Places(s \o <<t>>)) = Cardinality(Places(s)) + (IF t = c THEN 1 ELSE 0)
  BY <1>4, <1>6, <1>7
<1> QED
  BY <1>6, <1>8 DEF Places, Count

LEMMA DepthLonger ==
    ASSUME NEW T, NEW s \in Seq(T), NEW t \in T
    PROVE  /\ Depth(s) \in Int
           /\ t = Open => Depth(s \o <<t>>) = Depth(s) + 1
           /\ t = Close => Depth(s \o <<t>>) = Depth(s) - 1
           /\ t \notin {Open, Close} => Depth(s \o <<t>>) = Depth(s)
<1>1. \A u : Depth(u) = Count(Open, u) - Count(Close, u)
  BY DEF Depth, Quantify, Count
<1>2. Open # Close
  BY MarksDiffer
<1>3. \A c : /\ Count(c, s) \in Nat
             /\ Count(c, s \o <<t>>) = Count(c, s) + (IF t = c THEN 1 ELSE 0)
  BY CountLonger
<1>4. /\ Count(Open, s) \in Nat /\ Count(Close, s) \in Nat
      /\ Count(Open, s \o <<t>>) = Count(Open, s) + (IF t = Open THEN 1 ELSE 0)
      /\ Count(Close, s \o <<t>>) = Count(Close, s) + (IF t = Close THEN 1 ELSE 0)
  BY <1>3
<1>5. /\ Depth(s) = Count(Open, s) - Count(Close, s)
      /\ Depth(s \o <<t>>) = Count(Open, s \o <<t>>) - Count(Close, s \o <<t>>)
  BY <1>1
<1> QED
  BY <1>2, <1>4, <1>5

LEMMA DepthOfNothing == Depth(<<>>) = 0
<1>1. \A c : {i \in DOMAIN <<>> : <<>>[i] = c} = {}
  OBVIOUS
<1> QED
  BY <1>1, FS_EmptySet DEF Depth, Quantify

LEMMA DepthType ==
    ASSUME NEW T, NEW s \in Seq(T)
    PROVE  Depth(s) \in Int
<1>1. s \in Seq(T \cup {Open}) /\ Open \in T \cup {Open}
  BY SeqMonotonic
<1> HIDE DEF Open
<1> QED
  BY <1>1, DepthLonger

LEMMA DepthOfBoth ==
    ASSUME NEW T, NEW s \in Seq(T), NEW t \in Seq(T)
    PROVE  Depth(s \o t) = Depth(s) + Depth(t)
<1> DEFINE U == {n \in 0 .. Len(t) : Depth(s \o SubSeq(t, 1, n)) = Depth(s) + Depth(SubSeq(t, 1, n))}
<1>0. Len(t) \in Nat /\ Depth(s) \in Int
  BY DepthType
<1>1. 0 \in U
  <2>1. SubSeq(t, 1, 0) = <<>> /\ s \o <<>> = s
    BY SubSeqEmpty
  <2>2. Depth(s \o SubSeq(t, 1, 0)) = Depth(s) + Depth(SubSeq(t, 1, 0))
    <3>1. Depth(s \o SubSeq(t, 1, 0)) = Depth(s) /\ Depth(SubSeq(t, 1, 0)) = 0
      BY Zenon, <2>1, DepthOfNothing
    <3> QED
      BY <1>0, <3>1
  <2>3. 0 \in 0 .. Len(t)
    BY <1>0
  <2> QED
    BY Zenon, <2>2, <2>3
<1>2. \A n \in 0 .. Len(t) - 1 : n \in U => n + 1 \in U
  <2> SUFFICES ASSUME NEW n \in 0 .. Len(t) - 1, n \in U
               PROVE  n + 1 \in U
    OBVIOUS
  <2> DEFINE v == SubSeq(t, 1, n)
             w == SubSeq(t, 1, n + 1)
             x == t[n + 1]
  <2>1. w = v \o <<x>> /\ x \in T
    BY FirstTokensGrow
  <2>2. v \in Seq(T) /\ n + 1 \in 0 .. Len(t)
    BY <1>0, FirstTokens
  <2>3. Depth(s \o v) = Depth(s) + Depth(v)
    OBVIOUS
  <2> HIDE DEF v, w, x
  <2>4. s \o w = (s \o v) \o <<x>> /\ s \o v \in Seq(T)
    <3>1. <<x>> \in Seq(T)
      BY <2>1
    <3>2. Associate(s, v, <<x>>) /\ s \o v \in Seq(T)
      BY <2>2, <3>1, TextsAssociate
    <3> QED
      BY Zenon, <2>1, <3>2 DEF Associate
  <2>5. Depth(v) \in Int /\ Depth(s \o v) \in Int
    BY <2>2, <2>4, DepthType
  <2>6. Depth(s \o w) = Depth(s) + Depth(w)
    <3> DEFINE a == Depth(s)
               b == Depth(v)
               c == Depth(w)
               d == Depth(s \o v)
               e == Depth(s \o w)
    <3>1. /\ x = Open => c = b + 1 /\ e = d + 1
          /\ x = Close => c = b - 1 /\ e = d - 1
          /\ x \notin {Open, Close} => c = b /\ e = d
      <4>1. /\ x = Open => Depth(v \o <<x>>) = b + 1
            /\ x = Close => Depth(v \o <<x>>) = b - 1
            /\ x \notin {Open, Close} => Depth(v \o <<x>>) = b
        BY <2>1, <2>2, DepthLonger
      <4>2. /\ x = Open => Depth((s \o v) \o <<x>>) = d + 1
            /\ x = Close => Depth((s \o v) \o <<x>>) = d - 1
            /\ x \notin {Open, Close} => Depth((s \o v) \o <<x>>) = d
        BY <2>1, <2>4, DepthLonger
      <4> QED
        BY Zenon, <2>1, <2>4, <4>1, <4>2
    <3>2. a \in Int /\ b \in Int /\ d = a + b
      BY <1>0, <2>3, <2>5
    <3> HIDE DEF a, b, c, d, e
    <3>3. e = a + c
      BY <3>1, <3>2
    <3> QED
      BY <3>3 DEF a, c, e
  <2> QED
    BY <2>2, <2>6 DEF w
<1>3. Len(t) \in U
  <2>1. \A n \in 0 .. Len(t) : n \in U
    <3> HIDE DEF U
    <3> QED
      BY <1>0, <1>1, <1>2, Upwards
  <2> QED
    BY <1>0, <2>1
<1>4. SubSeq(t, 1, Len(t)) = t
  BY SubSeqFull
<1> QED
  BY <1>3, <1>4

\* The texts of tokens in T that follow each other as R says, with d parentheses open at
\* the end.
Texts(T, R, d) ==
    {s \in Seq(T) : /\ Chain(R, s)
                    /\ Depth(s) = d
                    /\ \A n \in 0 .. Len(s) : Depth(SubSeq(s, 1, n)) >= 0}

LEMMA NoText ==
    ASSUME NEW T, NEW R
    PROVE  <<>> \in Texts(T, R, 0)
<1>1. <<>> \in Seq(T) /\ Len(<<>>) = 0 /\ Chain(R, <<>>)
  BY DEF Chain
<1>2. \A n \in 0 .. Len(<<>>) : SubSeq(<<>>, 1, n) = <<>>
  BY <1>1, SubSeqEmpty
<1>3. \A n \in 0 .. Len(<<>>) : Depth(SubSeq(<<>>, 1, n)) = 0
  BY Zenon, <1>2, DepthOfNothing
<1> QED
  BY <1>1, <1>3, DepthOfNothing DEF Texts

LEMMA TextsJoin ==
    ASSUME NEW T, NEW R, NEW d \in Nat, NEW e \in Nat,
           NEW s \in Texts(T, R, d), NEW t \in Texts(T, R, e),
           s # <<>> /\ t # <<>> => <<Last(s), t[1]>> \in R
    PROVE  s \o t \in Texts(T, R, d + e)
<1>0. /\ s \in Seq(T) /\ Chain(R, s) /\ Depth(s) = d
      /\ t \in Seq(T) /\ Chain(R, t) /\ Depth(t) = e
  BY DEF Texts
<1>1. s \o t \in Seq(T) /\ Chain(R, s \o t)
  BY <1>0, BothTexts, ChainConcat
<1>2. Depth(s \o t) = d + e
  BY <1>0, DepthOfBoth
<1>3. ASSUME NEW n \in 0 .. Len(s \o t)
      PROVE  Depth(SubSeq(s \o t, 1, n)) >= 0
  <2>0. Len(s \o t) = Len(s) + Len(t) /\ Len(s) \in Nat /\ Len(t) \in Nat
    BY <1>0, BothTexts
  <2>1. CASE n <= Len(s)
    <3>1. n \in 0 .. Len(s)
      BY <2>0, <2>1
    <3>2. SubSeq(s \o t, 1, n) = SubSeq(s, 1, n)
      BY <1>0, <3>1, FirstTokensOfBoth
    <3> QED
      BY Zenon, <3>1, <3>2 DEF Texts
  <2>2. CASE ~ (n <= Len(s))
    <3> DEFINE m == n - Len(s)
    <3>1. m \in 0 .. Len(t) /\ n = Len(s) + m
      BY <2>0, <2>2
    <3> HIDE DEF m
    <3>2. SubSeq(s \o t, 1, n) = s \o SubSeq(t, 1, m) /\ SubSeq(t, 1, m) \in Seq(T)
      <4>1. \A i \in 0 .. Len(t) : SubSeq(s \o t, 1, Len(s) + i) = s \o SubSeq(t, 1, i)
        <5>1. Prolongs(s, t)
          BY <1>0, FirstTokensOfBoth
        <5> QED
          BY Zenon, <5>1 DEF Prolongs
      <4>2. SubSeq(t, 1, m) \in Seq(T)
        BY <1>0, <3>1, FirstTokens
      <4> QED
        BY Zenon, <3>1, <4>1, <4>2
    <3>3. Depth(SubSeq(s \o t, 1, n)) = Depth(s) + Depth(SubSeq(t, 1, m))
      <4> DEFINE v == SubSeq(t, 1, m)
      <4>1. v \in Seq(T) /\ s \in Seq(T)
        BY <1>0, <3>2
      <4> HIDE DEF v
      <4>2. Depth(s \o v) = Depth(s) + Depth(v)
        BY <4>1, DepthOfBoth
      <4> QED
        BY Zenon, <3>2, <4>2 DEF v
    <3>4. Depth(SubSeq(t, 1, m)) >= 0 /\ Depth(SubSeq(t, 1, m)) \in Int
      BY <3>1, <3>2, DepthType DEF Texts
    <3> QED
      BY <1>0, <3>3, <3>4
  <2> QED
    BY <2>1, <2>2
<1> QED
  BY <1>1, <1>2, <1>3 DEF Texts

\* The next token.
LEMMA TextsGrow ==
    ASSUME NEW T, NEW R, NEW d \in Nat, NEW s \in Texts(T, R, d), NEW t \in T,
           s # <<>> => <<Last(s), t>> \in R
    PROVE  /\ t \notin {Open, Close} => s \o <<t>> \in Texts(T, R, d)
           /\ t = Open => s \o <<t>> \in Texts(T, R, d + 1)
           /\ t = Close /\ d # 0 => s \o <<t>> \in Texts(T, R, d - 1)
<1> DEFINE u == s \o <<t>>
<1>0. /\ s \in Seq(T) /\ Chain(R, s) /\ Depth(s) = d
      /\ \A n \in 0 .. Len(s) : Depth(SubSeq(s, 1, n)) >= 0
  BY DEF Texts
<1>1. u \in Seq(T) /\ Len(u) = Len(s) + 1 /\ Len(s) \in Nat
  BY <1>0, Longer
<1>2. Chain(R, u)
  <2>1. <<t>> \in Seq(T) /\ Len(<<t>>) = 1 /\ <<t>>[1] = t
    OBVIOUS
  <2>2. Chain(R, <<t>>)
    BY <2>1 DEF Chain
  <2> QED
    BY <1>0, <2>1, <2>2, ChainConcat
<1>3. /\ t = Open => Depth(u) = d + 1
      /\ t = Close => Depth(u) = d - 1
      /\ t \notin {Open, Close} => Depth(u) = d
  BY <1>0, DepthLonger
<1>4. ASSUME Depth(u) >= 0, NEW n \in 0 .. Len(u)
      PROVE  Depth(SubSeq(u, 1, n)) >= 0
  <2>1. CASE n <= Len(s)
    <3>1. n \in 0 .. Len(s)
      BY <1>1, <2>1
    <3>2. SubSeq(u, 1, n) = SubSeq(s, 1, n)
      <4>1. <<t>> \in Seq(T)
        OBVIOUS
      <4> QED
        BY <1>0, <3>1, <4>1, FirstTokensOfBoth
    <3> QED
      BY Zenon, <1>0, <3>1, <3>2
  <2>2. CASE ~ (n <= Len(s))
    <3>1. n = Len(u)
      BY <1>1, <2>2
    <3>2. SubSeq(u, 1, n) = u
      BY <1>1, <3>1, SubSeqFull
    <3> QED
      BY Zenon, <1>4, <3>2
  <2> QED
    BY <2>1, <2>2
<1> HIDE DEF u
<1>5. Depth(u) >= 0 => u \in Texts(T, R, Depth(u))
  BY <1>1, <1>2, <1>4 DEF Texts
<1>6. t \notin {Open, Close} => u \in Texts(T, R, d)
  BY <1>3, <1>5
<1>7. t = Open => u \in Texts(T, R, d + 1)
  BY <1>3, <1>5
<1>8. t = Close /\ d # 0 => u \in Texts(T, R, d - 1)
  BY <1>3, <1>5
<1> QED
  BY <1>6, <1>7, <1>8 DEF u

\* A token more and less.
LEMMA EndsOfLonger ==
    ASSUME NEW T, NEW s \in Seq(T), NEW t \in T
    PROVE  /\ s \o <<t>> \in Seq(T)
           /\ s \o <<t>> # <<>>
           /\ Last(s \o <<t>>) = t
           /\ Front(s \o <<t>>) = s
           /\ (s \o <<t>>)[1] = IF s = <<>> THEN t ELSE s[1]
<1> DEFINE u == s \o <<t>>
<1>0. <<t>> \in Seq(T) /\ <<t>> # <<>> /\ Last(<<t>>) = t /\ <<t>>[1] = t
  BY DEF Last
<1>1. u \in Seq(T) /\ Len(u) = Len(s) + 1 /\ Len(s) \in Nat
  BY Longer
<1>2. u # <<>> /\ Last(u) = t
  BY <1>0, EndsOfBoth
<1>3. Front(u) = s
  <2>1. Len(u) - 1 = Len(s) /\ Len(s) \in 0 .. Len(s)
    BY <1>1
  <2>2. SubSeq(u, 1, Len(s)) = SubSeq(s, 1, Len(s))
    BY <1>0, <2>1, FirstTokensOfBoth
  <2>3. SubSeq(s, 1, Len(s)) = s
    BY SubSeqFull
  <2> QED
    BY Zenon, <2>1, <2>2, <2>3 DEF Front
<1>4. u[1] = IF s = <<>> THEN t ELSE s[1]
  <2>1. CASE s = <<>>
    <3>1. u = <<t>>
      BY <1>0, <2>1, EndsOfBoth
    <3> QED
      BY Zenon, <1>0, <2>1, <3>1
  <2>2. CASE s # <<>>
    BY <1>0, <2>2, EndsOfBoth
  <2> QED
    BY <2>1, <2>2
<1> QED
  BY <1>1, <1>2, <1>3, <1>4

-----------------------------------------------------------------------------
(* Words, marks and values that may follow each other *)

IsKey(t) == t[1] = "K"
IsValue(t) == t[1] = "V"

\* No two words run together; lists have no separator too many and none too few.
Fits(s, t) ==
    /\ ~ (IsWord(s) /\ IsWord(t))
    /\ s \in {Comma, Space} => t \notin {Close, Comma}
    /\ s = Open => t \notin {Comma, Space}
    /\ IsValue(s) => t \in {Comma, Close}

Fitting(T) == {pair \in T \X T : Fits(pair[1], pair[2])}

LEMMA FittingPairs ==
    ASSUME NEW T, NEW s \in T, NEW t \in T,
           \/ IsKey(s) /\ t \in {Open, Close, Space}
           \/ IsValue(s) /\ t \in {Comma, Close}
           \/ s = Open /\ (IsKey(t) \/ IsValue(t) \/ t = Close)
           \/ s = Comma /\ (IsKey(t) \/ IsValue(t) \/ t = Space)
           \/ s = Space /\ (IsKey(t) \/ IsValue(t))
           \/ s = Close /\ (IsKey(t) \/ t \in {Close, Comma, Space})
    PROVE  <<s, t>> \in Fitting(T)
<1>1. /\ \A x : IsKey(x) => IsWord(x) /\ x \notin Marks /\ ~IsValue(x)
      /\ \A x : IsValue(x) => IsWord(x) /\ x \notin Marks /\ ~IsKey(x)
      /\ \A x \in Marks : ~IsWord(x) /\ ~IsKey(x) /\ ~IsValue(x)
  BY MarksDiffer DEF IsKey, IsValue
<1>2. Fits(s, t)
  <2>1. /\ Open # Close /\ Open # Comma /\ Open # Space
        /\ Close # Comma /\ Close # Space /\ Comma # Space
        /\ {Open, Close, Comma, Space} \subseteq Marks
    BY MarksDiffer DEF Marks
  <2> QED
    BY <1>1, <2>1 DEF Fits
<1> QED
  BY <1>2 DEF Fitting

\* A word and a parenthesis.
LEMMA Opening ==
    ASSUME NEW T, Marks \subseteq T, NEW key, K(key) \in T
    PROVE  /\ <<K(key), Open>> \in Texts(T, Fitting(T), 1)
           /\ <<K(key), Open>> # <<>>
           /\ <<K(key), Open>>[1] = K(key)
           /\ Last(<<K(key), Open>>) = Open
<1>1. Open \in T /\ K(key) \notin {Open, Close} /\ IsKey(K(key))
  BY MarksDiffer, WordsAndValues DEF Marks, IsKey
<1>2. <<>> \o <<K(key)>> \in Texts(T, Fitting(T), 0)
  BY <1>1, NoText, TextsGrow
<1>3. <<>> \o <<K(key)>> = <<K(key)>> /\ Last(<<K(key)>>) = K(key)
  BY DEF Last
<1>4. <<K(key), Open>> = <<K(key)>> \o <<Open>>
  OBVIOUS
<1>5. <<Last(<<K(key)>>), Open>> \in Fitting(T)
  BY <1>1, <1>3, FittingPairs
<1>6. <<K(key)>> \o <<Open>> \in Texts(T, Fitting(T), 0 + 1)
  BY <1>1, <1>2, <1>3, <1>5, TextsGrow
<1>7. 0 + 1 = 1
  OBVIOUS
<1>8. Last(<<K(key), Open>>) = Open
  BY DEF Last
<1> QED
  BY <1>4, <1>6, <1>7, <1>8

\* A word, what is in its parentheses, and a space.
LEMMA Enclosed ==
    ASSUME NEW T, Marks \subseteq T, NEW key, K(key) \in T,
           NEW s \in Texts(T, Fitting(T), 0), s # <<>>,
           IsKey(s[1]) \/ IsValue(s[1]), Last(s) = Close \/ IsValue(Last(s))
    PROVE  LET u == (<<K(key), Open>> \o s) \o <<Close>>
           IN  /\ u \in Texts(T, Fitting(T), 0)
               /\ u # <<>> /\ u[1] = K(key) /\ Last(u) = Close
               /\ (<<K(key), Open>> \o s) \o <<Close, Space>> = u \o <<Space>>
<1> DEFINE r == <<K(key), Open>> \o s
           u == r \o <<Close>>
<1>0. /\ Close \in T /\ Open \in T /\ Space \in T /\ s \in Seq(T) /\ <<K(key), Open>> \in Seq(T)
      /\ s[1] \in T /\ Last(s) \in T
  <2>1. Close \in T /\ Open \in T /\ Space \in T /\ s \in Seq(T)
    BY DEF Marks, Texts
  <2>2. s[1] \in T /\ Last(s) \in T
    BY <2>1, EndsOfBoth
  <2> QED
    BY <2>1, <2>2
<1>1. r \in Texts(T, Fitting(T), 1) /\ r # <<>> /\ r[1] = K(key) /\ Last(r) = Last(s)
  <2>1. <<Open, s[1]>> \in Fitting(T)
    BY <1>0, FittingPairs
  <2>2. <<Last(<<K(key), Open>>), s[1]>> \in Fitting(T)
    BY <2>1, Opening
  <2>3. r \in Texts(T, Fitting(T), 1 + 0)
    BY <2>2, Opening, TextsJoin
  <2>4. r # <<>> /\ r[1] = K(key) /\ Last(r) = Last(s)
    BY <1>0, Opening, EndsOfBoth
  <2>5. 1 + 0 = 1
    OBVIOUS
  <2> HIDE DEF r
  <2> QED
    BY <2>3, <2>4, <2>5
<1>2. r \in Seq(T)
  BY <1>1 DEF Texts
<1> HIDE DEF r
<1>3. u \in Texts(T, Fitting(T), 0)
  <2>1. <<Last(r), Close>> \in Fitting(T)
    BY <1>0, <1>1, FittingPairs
  <2>2. u \in Texts(T, Fitting(T), 1 - 1)
    BY <1>0, <1>1, <2>1, TextsGrow
  <2>3. 1 - 1 = 0
    OBVIOUS
  <2> HIDE DEF u
  <2> QED
    BY <2>2, <2>3
<1>4. u # <<>> /\ u[1] = K(key) /\ Last(u) = Close
  BY <1>0, <1>1, <1>2, EndsOfLonger
<1>5. r \o <<Close, Space>> = u \o <<Space>>
  <2>1. <<Close, Space>> = <<Close>> \o <<Space>> /\ <<Close>> \in Seq(T) /\ <<Space>> \in Seq(T)
    BY <1>0
  <2>2. Associate(r, <<Close>>, <<Space>>)
    BY <1>2, <2>1, TextsAssociate
  <2> QED
    BY Zenon, <2>1, <2>2 DEF Associate
<1> QED
  BY <1>3, <1>4, <1>5 DEF r

-----------------------------------------------------------------------------
(* Lists *)

\* Texts that fit, one after the other.
LEMMA TextsInOrder ==
    ASSUME NEW T, NEW R, NEW n \in Nat \ {0}, NEW seqs \in [1 .. n -> Texts(T, R, 0)],
           \A i \in 1 .. n : seqs[i] # <<>>,
           \A i \in 1 .. n - 1 : <<Last(seqs[i]), seqs[i + 1][1]>> \in R
    PROVE  /\ FlattenSeq(seqs) \in Texts(T, R, 0)
           /\ FlattenSeq(seqs) # <<>>
           /\ FlattenSeq(seqs)[1] = seqs[1][1]
           /\ Last(FlattenSeq(seqs)) = Last(seqs[n])
<1> DEFINE Step(i) == {s \in Texts(T, R, 0) : /\ s # <<>> /\ s[1] = seqs[1][1]
                                              /\ Last(s) = Last(seqs[i])}
           steps == [i \in 0 .. n |-> IF i = 0 THEN {<<>>} ELSE Step(i)]
<1>1. \A i \in 1 .. n : seqs[i] \in Texts(T, R, 0) /\ seqs[i] \in Seq(T)
  BY DEF Texts
<1>2. seqs \in [1 .. n -> Seq(T)]
  BY <1>1
<1>3. <<>> \in steps[0]
  OBVIOUS
<1>4. ASSUME NEW i \in 1 .. n, NEW s \in Seq(T), s \in steps[i - 1]
      PROVE  s \o seqs[i] \in steps[i]
  <2>0. i \in 0 .. n /\ i # 0 /\ i - 1 \in 0 .. n /\ steps[i] = Step(i)
    OBVIOUS
  <2>1. CASE i = 1
    <3>1. s = <<>>
      BY <1>4, <2>1
    <3>2. s \o seqs[i] = seqs[i]
      BY <1>1, <3>1, ConcatEmptySeq
    <3> QED
      BY <1>1, <2>0, <2>1, <3>2
  <2>2. CASE i # 1
    <3>1. s \in Step(i - 1) /\ i - 1 \in 1 .. n - 1 /\ (i - 1) + 1 = i
      BY <1>4, <2>0, <2>2
    <3>2. <<Last(s), seqs[i][1]>> \in R
      <4>1. <<Last(seqs[i - 1]), seqs[(i - 1) + 1][1]>> \in R
        BY <3>1
      <4> QED
        BY Zenon, <3>1, <4>1
    <3>3. s \o seqs[i] \in Texts(T, R, 0 + 0)
      BY <1>1, <3>1, <3>2, TextsJoin
    <3>4. /\ s \o seqs[i] # <<>> /\ (s \o seqs[i])[1] = s[1]
          /\ Last(s \o seqs[i]) = Last(seqs[i])
      BY <1>1, <3>1, EndsOfBoth
    <3>5. 0 + 0 = 0 /\ s[1] = seqs[1][1]
      BY <3>1
    <3>6. s \o seqs[i] \in Step(i)
      BY Zenon, <3>3, <3>4, <3>5
    <3> QED
      BY <2>0, <3>6
  <2> QED
    BY <2>1, <2>2
<1>5. FlattenSeq(seqs) \in steps[n]
  <2>1. \A i \in 1 .. n : \A s \in Seq(T) : s \in steps[i - 1] => s \o seqs[i] \in steps[i]
    BY <1>4
  <2> HIDE DEF steps
  <2> QED
    BY <1>2, <1>3, <2>1, FlattenSteps
<1>6. steps[n] = Step(n)
  OBVIOUS
<1> QED
  BY <1>5, <1>6

LEMMA Single ==
    ASSUME NEW T, NEW R, NEW t \in T, t \notin {Open, Close}
    PROVE  <<t>> \in Texts(T, R, 0) /\ <<t>> # <<>> /\ <<t>>[1] = t /\ Last(<<t>>) = t
<1>1. <<>> \o <<t>> \in Texts(T, R, 0)
  BY NoText, TextsGrow
<1>2. <<>> \o <<t>> = <<t>>
  OBVIOUS
<1> QED
  BY <1>1, <1>2 DEF Last

LEMMA TwoTokens ==
    ASSUME NEW s, NEW t
    PROVE  <<s>> \o <<t>> = <<s, t>>
<1> DEFINE T == {s, t}
           u == <<s>> \o <<t>>
           v == <<s, t>>
<1>1. <<s>> \in Seq(T) /\ t \in T /\ Len(<<s>>) = 1 /\ <<s>>[1] = s
  OBVIOUS
<1>2. v \in Seq(T) /\ Len(v) = 2 /\ v[1] = s /\ v[2] = t
  OBVIOUS
<1>3. u \in Seq(T) /\ Len(u) = 2 /\ u[1] = s /\ u[2] = t
  <2> HIDE DEF T
  <2>1. /\ u \in Seq(T) /\ Len(u) = Len(<<s>>) + 1
        /\ \A i \in 1 .. Len(<<s>>) : u[i] = <<s>>[i]
        /\ u[Len(<<s>>) + 1] = t
    BY <1>1, Longer
  <2> HIDE DEF u
  <2>2. 1 \in 1 .. 1 /\ 1 + 1 = 2
    OBVIOUS
  <2> QED
    BY <1>1, <2>1, <2>2
<1> HIDE DEF T, u, v
<1>4. \A i \in 1 .. 2 : i = 1 \/ i = 2
  OBVIOUS
<1>5. u = v
  <2>1. \A i \in 1 .. Len(u) : u[i] = v[i]
    BY <1>2, <1>3, <1>4
  <2> QED
    BY <1>2, <1>3, <2>1, SeqEqual
<1> QED
  BY <1>5 DEF u, v

LEMMA ThreeTokens ==
    ASSUME NEW s, NEW t, NEW r
    PROVE  /\ <<s, t>> \o <<r>> = <<s, t, r>>
           /\ <<s>> \o <<t, r>> = <<s, t, r>>
<1> DEFINE T == {s, t, r}
           u == <<s, t>> \o <<r>>
           v == <<s, t, r>>
<1>1. <<s, t>> \in Seq(T) /\ r \in T /\ Len(<<s, t>>) = 2 /\ <<s, t>>[1] = s /\ <<s, t>>[2] = t
  OBVIOUS
<1>2. v \in Seq(T) /\ Len(v) = 3 /\ v[1] = s /\ v[2] = t /\ v[3] = r
  OBVIOUS
<1>3. u \in Seq(T) /\ Len(u) = 3 /\ u[1] = s /\ u[2] = t /\ u[3] = r
  <2> HIDE DEF T
  <2>1. /\ u \in Seq(T) /\ Len(u) = Len(<<s, t>>) + 1
        /\ \A i \in 1 .. Len(<<s, t>>) : u[i] = <<s, t>>[i]
        /\ u[Len(<<s, t>>) + 1] = r
    BY <1>1, Longer
  <2> HIDE DEF u
  <2>2. 1 \in 1 .. 2 /\ 2 \in 1 .. 2 /\ 2 + 1 = 3
    OBVIOUS
  <2> QED
    BY <1>1, <2>1, <2>2
<1>4. u = v
  <2> HIDE DEF T, u, v
  <2>1. \A i \in 1 .. 3 : i = 1 \/ i = 2 \/ i = 3
    OBVIOUS
  <2>2. \A i \in 1 .. Len(u) : u[i] = v[i]
    BY <1>2, <1>3, <2>1
  <2> QED
    BY <1>2, <1>3, <2>2, SeqEqual
<1>5. /\ <<s>> \o <<t>> = <<s, t>>
      /\ <<t>> \o <<r>> = <<t, r>>
  BY TwoTokens
<1>6. (<<s>> \o <<t>>) \o <<r>> = <<s>> \o (<<t>> \o <<r>>)
  <2>1. <<s>> \in Seq(T) /\ <<t>> \in Seq(T) /\ <<r>> \in Seq(T)
    OBVIOUS
  <2> HIDE DEF T
  <2>2. Associate(<<s>>, <<t>>, <<r>>)
    BY <2>1, TextsAssociate
  <2> QED
    BY Zenon, <2>2 DEF Associate
<1> QED
  BY Zenon, <1>4, <1>5, <1>6

LEMMA Pair ==
    ASSUME NEW T, NEW R, NEW s \in T, NEW t \in T, s \notin {Open, Close}, t \notin {Open, Close},
           <<s, t>> \in R
    PROVE  /\ <<s, t>> \in Texts(T, R, 0) /\ <<s, t>> # <<>>
           /\ <<s, t>>[1] = s /\ Last(<<s, t>>) = t
<1>1. <<s>> \in Texts(T, R, 0) /\ <<s>> # <<>> /\ Last(<<s>>) = s
  BY Single
<1>2. <<s>> \o <<t>> \in Texts(T, R, 0)
  BY <1>1, TextsGrow
<1>3. <<s>> \o <<t>> = <<s, t>>
  BY TwoTokens
<1> QED
  BY <1>2, <1>3 DEF Last

LEMMA ValueFacts ==
    ASSUME NEW T, Marks \subseteq T, NEW t \in T, IsValue(t)
    PROVE  /\ t \notin {Open, Close} /\ t \notin {Comma, Space}
           /\ Comma \in T /\ Comma \notin {Open, Close}
           /\ Space \in T /\ Space \notin {Open, Close}
           /\ <<t, Comma>> \in Fitting(T) /\ <<t, Close>> \in Fitting(T)
           /\ <<Comma, t>> \in Fitting(T) /\ <<Comma, Space>> \in Fitting(T)
           /\ <<Space, t>> \in Fitting(T) /\ <<Open, t>> \in Fitting(T)
<1>1. t \notin Marks /\ Open \in T /\ Close \in T /\ Comma \in T /\ Space \in T
  BY MarksDiffer DEF IsValue, Marks
<1>2. /\ Comma \notin {Open, Close} /\ Space \notin {Open, Close}
      /\ Open \in Marks /\ Close \in Marks /\ Comma \in Marks /\ Space \in Marks
  BY MarksDiffer DEF Marks
<1>3. <<t, Comma>> \in Fitting(T) /\ <<t, Close>> \in Fitting(T)
  BY <1>1, FittingPairs
<1>4. <<Comma, t>> \in Fitting(T) /\ <<Comma, Space>> \in Fitting(T)
  BY <1>1, FittingPairs
<1>5. <<Space, t>> \in Fitting(T) /\ <<Open, t>> \in Fitting(T)
  BY <1>1, FittingPairs
<1> QED
  BY <1>1, <1>2, <1>3, <1>4, <1>5

ValueTokens(T) == {t \in T : IsValue(t)}

\* What is in the parentheses of a list.
IsList(T, s) ==
    /\ s \in Texts(T, Fitting(T), 0)
    /\ s # <<>>
    /\ IsValue(s[1])
    /\ IsValue(Last(s))

\* a, b or a,b
LEMMA JoinedLists ==
    ASSUME NEW T, Marks \subseteq T, NEW values \in Seq(ValueTokens(T)), values # <<>>,
           NEW S, NEW seqs \in [DOMAIN values -> S],
           \A i \in DOMAIN values :
              IF i # Len(values)
              THEN \/ seqs[i] = <<values[i], Comma>>
                   \/ seqs[i] = <<values[i], Comma, Space>>
              ELSE seqs[i] = <<values[i]>>
    PROVE  IsList(T, FlattenSeq(seqs))
<1> DEFINE n == Len(values)
<1>0. n \in Nat \ {0}
  BY EmptySeq
<1>1. DOMAIN values = 1 .. n /\ \A i \in 1 .. n : values[i] \in T /\ IsValue(values[i])
  <2>1. \A i \in 1 .. n : values[i] \in ValueTokens(T)
    OBVIOUS
  <2> QED
    BY <2>1 DEF ValueTokens
<1>2. ASSUME NEW i \in 1 .. n
      PROVE  /\ seqs[i] \in Texts(T, Fitting(T), 0) /\ seqs[i] # <<>> /\ seqs[i][1] = values[i]
             /\ i # n => Last(seqs[i]) \in {Comma, Space}
             /\ i = n => Last(seqs[i]) = values[i]
  <2> DEFINE t == values[i]
  <2>0. /\ t \in T /\ IsValue(t)
        /\ i # n => seqs[i] = <<t, Comma>> \/ seqs[i] = <<t, Comma, Space>>
        /\ i = n => seqs[i] = <<t>>
    BY <1>1
  <2> HIDE DEF t, n
  <2>1. /\ t \notin {Open, Close}
        /\ Comma \in T /\ Comma \notin {Open, Close}
        /\ Space \in T /\ Space \notin {Open, Close}
        /\ <<t, Comma>> \in Fitting(T) /\ <<Comma, Space>> \in Fitting(T)
    BY <2>0, ValueFacts
  <2>2. <<t>> \in Texts(T, Fitting(T), 0) /\ <<t>> # <<>> /\ <<t>>[1] = t /\ Last(<<t>>) = t
    BY <2>0, <2>1, Single
  <2>3. /\ <<t, Comma>> \in Texts(T, Fitting(T), 0) /\ <<t, Comma>> # <<>>
        /\ <<t, Comma>>[1] = t /\ Last(<<t, Comma>>) = Comma
    BY <2>0, <2>1, Pair
  <2>4. <<t, Comma, Space>> \in Texts(T, Fitting(T), 0)
    <3>1. <<t, Comma>> \o <<Space>> \in Texts(T, Fitting(T), 0)
      BY <2>1, <2>3, TextsGrow
    <3>2. <<t, Comma>> \o <<Space>> = <<t, Comma, Space>>
      BY ThreeTokens
    <3> QED
      BY <3>1, <3>2
  <2>5. <<t, Comma, Space>> # <<>> /\ <<t, Comma, Space>>[1] = t /\ Last(<<t, Comma, Space>>) = Space
    BY DEF Last
  <2>6. CASE i = n
    BY <2>0, <2>2, <2>6 DEF t
  <2>7. CASE i # n /\ seqs[i] = <<t, Comma>>
    BY Zenon, <2>3, <2>7 DEF t
  <2>8. CASE i # n /\ seqs[i] = <<t, Comma, Space>>
    BY Zenon, <2>4, <2>5, <2>8 DEF t
  <2> QED
    BY Zenon, <2>0, <2>6, <2>7, <2>8
<1>3. ASSUME NEW i \in 1 .. n - 1
      PROVE  <<Last(seqs[i]), seqs[i + 1][1]>> \in Fitting(T)
  <2>1. i \in 1 .. n /\ i + 1 \in 1 .. n /\ i # n
    <3> HIDE DEF n
    <3> QED
      BY <1>0
  <2>2. Last(seqs[i]) \in {Comma, Space} /\ seqs[i + 1][1] = values[i + 1]
    BY <1>2, <2>1
  <2>3. <<Space, values[i + 1]>> \in Fitting(T) /\ <<Comma, values[i + 1]>> \in Fitting(T)
    BY <1>1, <2>1, ValueFacts
  <2> QED
    BY Zenon, <2>2, <2>3
<1>4. seqs \in [1 .. n -> Texts(T, Fitting(T), 0)]
  <2>1. seqs \in [1 .. n -> S]
    BY Zenon, <1>1
  <2>2. \A i \in 1 .. n : seqs[i] \in Texts(T, Fitting(T), 0)
    BY <1>2
  <2> QED
    BY <2>1, <2>2
<1>5. /\ FlattenSeq(seqs) \in Texts(T, Fitting(T), 0)
      /\ FlattenSeq(seqs) # <<>>
      /\ FlattenSeq(seqs)[1] = seqs[1][1]
      /\ Last(FlattenSeq(seqs)) = Last(seqs[n])
  <2>1. \A i \in 1 .. n : seqs[i] # <<>>
    BY <1>2
  <2>2. \A i \in 1 .. n - 1 : <<Last(seqs[i]), seqs[i + 1][1]>> \in Fitting(T)
    BY <1>3
  <2> HIDE DEF n
  <2> QED
    BY <1>0, <1>4, <2>1, <2>2, TextsInOrder
<1>6. 1 \in 1 .. n /\ n \in 1 .. n
  BY <1>0
<1>7. IsValue(seqs[1][1]) /\ IsValue(Last(seqs[n]))
  BY <1>1, <1>2, <1>6
<1> QED
  BY Zenon, <1>5, <1>7 DEF IsList

LEMMA ListsOfOne ==
    ASSUME NEW T, Marks \subseteq T, NEW values \in Seq(ValueTokens(T)), Len(values) = 1
    PROVE  IsList(T, values)
<1> DEFINE t == values[1]
<1>1. t \in T /\ IsValue(t) /\ values = <<t>>
  <2>1. t \in ValueTokens(T)
    OBVIOUS
  <2>2. <<t>> \in Seq(ValueTokens(T)) /\ Len(<<t>>) = 1 /\ <<t>>[1] = t
    BY <2>1
  <2> HIDE DEF t
  <2>3. \A i \in 1 .. 1 : i = 1
    OBVIOUS
  <2>4. values = <<t>>
    BY <2>2, <2>3, SeqEqual DEF t
  <2> QED
    BY <2>1, <2>4 DEF ValueTokens
<1> HIDE DEF t
<1>2. t \notin {Open, Close}
  BY <1>1, ValueFacts
<1>3. <<t>> \in Texts(T, Fitting(T), 0) /\ <<t>> # <<>> /\ <<t>>[1] = t /\ Last(<<t>>) = t
  BY <1>1, <1>2, Single
<1> QED
  BY Zenon, <1>1, <1>3 DEF IsList

-----------------------------------------------------------------------------
(* The fields of a command *)

\* What Type2CommandSerializable writes for a field that is not null.
IsPhrase(T, s) ==
    /\ s \in Texts(T, Fitting(T), 0)
    /\ s # <<>>
    /\ IsKey(s[1])
    /\ \/ Last(s) = Close
       \/ \E u \in Texts(T, Fitting(T), 0) :
             /\ s = u \o <<Space>> /\ u # <<>> /\ u[1] = s[1]
             /\ Last(u) = Close \/ IsKey(Last(u))

LEMMA PhrasesWithSpace ==
    ASSUME NEW T, Marks \subseteq T, NEW u \in Texts(T, Fitting(T), 0), u # <<>>,
           IsKey(u[1]), Last(u) = Close \/ IsKey(Last(u))
    PROVE  IsPhrase(T, u \o <<Space>>)
<1>1. Space \in T /\ Space \notin {Open, Close} /\ u \in Seq(T) /\ Last(u) \in T
  <2>1. Space \in T /\ Space \notin {Open, Close} /\ u \in Seq(T)
    BY MarksDiffer DEF Marks, Texts
  <2> QED
    BY <2>1, EndsOfBoth
<1>2. <<Last(u), Space>> \in Fitting(T)
  BY <1>1, FittingPairs
<1>3. u \o <<Space>> \in Texts(T, Fitting(T), 0)
  BY <1>1, <1>2, TextsGrow
<1>4. u \o <<Space>> # <<>> /\ (u \o <<Space>>)[1] = u[1]
  BY <1>1, EndsOfLonger
<1> QED
  BY Zenon, <1>3, <1>4 DEF IsPhrase

LEMMA EnclosedLists ==
    ASSUME NEW T, Marks \subseteq T, NEW key, K(key) \in T, NEW s, IsList(T, s)
    PROVE  IsPhrase(T, (<<K(key), Open>> \o s) \o <<Close, Space>>)
<1> DEFINE u == (<<K(key), Open>> \o s) \o <<Close>>
<1>1. /\ s \in Texts(T, Fitting(T), 0) /\ s # <<>>
      /\ IsValue(s[1]) /\ IsValue(Last(s))
  BY DEF IsList
<1>2. /\ u \in Texts(T, Fitting(T), 0) /\ u # <<>> /\ u[1] = K(key) /\ Last(u) = Close
      /\ (<<K(key), Open>> \o s) \o <<Close, Space>> = u \o <<Space>>
  BY <1>1, Enclosed
<1>3. IsKey(u[1])
  BY <1>2, WordsAndValues DEF IsKey
<1> HIDE DEF u
<1>4. IsPhrase(T, u \o <<Space>>)
  BY <1>2, <1>3, PhrasesWithSpace
<1> QED
  BY Zenon, <1>2, <1>4

LEMMA ListTexts ==
    ASSUME NEW T, Marks \subseteq T, NEW key, K(key) \in T, NEW values \in Seq(ValueTokens(T))
    PROVE  /\ values # <<>> => IsPhrase(T, ListText(key, values))
           /\ values = <<>> => ListText(key, values) = <<>>
<1>1. ASSUME values # <<>>
      PROVE  IsPhrase(T, ListText(key, values))
  <2> DEFINE seqs == [i \in DOMAIN values |->
                        IF i # Len(values) THEN <<values[i], Comma, Space>> ELSE <<values[i]>>]
  <2>1. IsList(T, FlattenSeq(seqs))
    <3>1. /\ seqs \in [DOMAIN values -> {seqs[i] : i \in DOMAIN values}]
          /\ \A i \in DOMAIN values : IF i # Len(values) THEN seqs[i] = <<values[i], Comma, Space>>
                                                        ELSE seqs[i] = <<values[i]>>
      OBVIOUS
    <3> HIDE DEF seqs
    <3> QED
      BY <1>1, <3>1, JoinedLists
  <2>2. ListText(key, values) = (<<K(key), Open>> \o FlattenSeq(seqs)) \o <<Close, Space>>
    BY Zenon, <1>1 DEF ListText
  <2> HIDE DEF seqs
  <2> QED
    BY Zenon, <2>1, <2>2, EnclosedLists
<1> QED
  BY <1>1 DEF ListText

LEMMA RouteTexts ==
    ASSUME NEW T, Marks \subseteq T, K("ROUTE") \in T, NEW values \in Seq(ValueTokens(T))
    PROVE  /\ values # <<>> => IsPhrase(T, RouteText(values))
           /\ values = <<>> => RouteText(values) = <<>>
<1>1. ASSUME values # <<>>
      PROVE  IsPhrase(T, RouteText(values))
  <2> DEFINE seqs == [i \in DOMAIN values |->
                        IF i # Len(values) THEN <<values[i], Comma>> ELSE <<values[i]>>]
  <2>1. IsList(T, FlattenSeq(seqs))
    <3>1. /\ seqs \in [DOMAIN values -> {seqs[i] : i \in DOMAIN values}]
          /\ \A i \in DOMAIN values : IF i # Len(values) THEN seqs[i] = <<values[i], Comma>>
                                                        ELSE seqs[i] = <<values[i]>>
      OBVIOUS
    <3> HIDE DEF seqs
    <3> QED
      BY <1>1, <3>1, JoinedLists
  <2>2. RouteText(values) = (<<K("ROUTE"), Open>> \o FlattenSeq(seqs)) \o <<Close, Space>>
    BY Zenon, <1>1 DEF RouteText
  <2> HIDE DEF seqs
  <2> QED
    BY Zenon, <2>1, <2>2, EnclosedLists
<1> QED
  BY <1>1 DEF RouteText

LEMMA OneTexts ==
    ASSUME NEW T, Marks \subseteq T, NEW key, K(key) \in T,
           NEW values \in Seq(ValueTokens(T)), values # <<>> => Len(values) = 1
    PROVE  /\ values # <<>> => IsPhrase(T, OneText(key, values))
           /\ values = <<>> => OneText(key, values) = <<>>
<1>1. ASSUME values # <<>>
      PROVE  IsPhrase(T, OneText(key, values))
  <2>1. IsList(T, values)
    BY <1>1, ListsOfOne
  <2>2. OneText(key, values) = (<<K(key), Open>> \o values) \o <<Close, Space>>
    BY Zenon, <1>1 DEF OneText
  <2> QED
    BY Zenon, <2>1, <2>2, EnclosedLists
<1> QED
  BY <1>1 DEF OneText

-----------------------------------------------------------------------------
(* Groups of attributes *)

\* One attribute or none.
Attribute(T) == {<<>>} \cup {<<t>> : t \in ValueTokens(T)}

\* Tokens put after a text, one by one.
AddsTwo(s, t, u) == s \o <<t, u>> = (s \o <<t>>) \o <<u>>
AddsThree(s, t, u, v) == s \o <<t, u, v>> = ((s \o <<t>>) \o <<u>>) \o <<v>>
JoinsOne(r, s, t) == r \o (s \o <<t>>) = (r \o s) \o <<t>>
JoinsTwo(r, s, t, u) == r \o ((s \o <<t>>) \o <<u>>) = ((r \o s) \o <<t>>) \o <<u>>

LEMMA TwoMore ==
    ASSUME NEW T, NEW s \in Seq(T), NEW t \in T, NEW u \in T
    PROVE  AddsTwo(s, t, u)
<1>1. <<t>> \in Seq(T) /\ <<u>> \in Seq(T)
  OBVIOUS
<1>2. <<t, u>> = <<t>> \o <<u>>
  BY TwoTokens
<1>3. Associate(s, <<t>>, <<u>>)
  BY <1>1, TextsAssociate
<1> QED
  BY Zenon, <1>2, <1>3 DEF Associate, AddsTwo

LEMMA ThreeMore ==
    ASSUME NEW T, NEW s \in Seq(T), NEW t \in T, NEW u \in T, NEW v \in T
    PROVE  AddsThree(s, t, u, v)
<1>1. <<t>> \in Seq(T) /\ <<u, v>> \in Seq(T)
  OBVIOUS
<1>2. <<t, u, v>> = <<t>> \o <<u, v>>
  BY ThreeTokens
<1>3. Associate(s, <<t>>, <<u, v>>) /\ s \o <<t>> \in Seq(T)
  BY <1>1, TextsAssociate
<1>4. AddsTwo(s \o <<t>>, u, v)
  BY <1>3, TwoMore
<1> QED
  BY Zenon, <1>2, <1>3, <1>4 DEF Associate, AddsTwo, AddsThree

LEMMA OneMoreOfBoth ==
    ASSUME NEW T, NEW r \in Seq(T), NEW s \in Seq(T), NEW t \in T
    PROVE  JoinsOne(r, s, t)
<1>1. <<t>> \in Seq(T)
  OBVIOUS
<1>2. Associate(r, s, <<t>>)
  BY <1>1, TextsAssociate
<1> QED
  BY Zenon, <1>2 DEF Associate, JoinsOne

LEMMA TwoMoreOfBoth ==
    ASSUME NEW T, NEW r \in Seq(T), NEW s \in Seq(T), NEW t \in T, NEW u \in T
    PROVE  JoinsTwo(r, s, t, u)
<1>1. s \o <<t>> \in Seq(T)
  OBVIOUS
<1>2. JoinsOne(r, s \o <<t>>, u)
  BY <1>1, OneMoreOfBoth
<1>3. JoinsOne(r, s, t)
  BY OneMoreOfBoth
<1> QED
  BY Zenon, <1>2, <1>3 DEF JoinsOne, JoinsTwo

\* The closed attributes of a group.
Closed(T) == {u \in Texts(T, Fitting(T), 0) : u # <<>> /\ IsKey(u[1]) /\ Last(u) = Close}

LEMMA ClosedJoin ==
    ASSUME NEW T, Marks \subseteq T, NEW s \in Closed(T), NEW t \in Closed(T)
    PROVE  /\ s \in Seq(T)
           /\ ((s \o <<Comma>>) \o <<Space>>) \o t \in Closed(T)
<1>1. /\ s \in Texts(T, Fitting(T), 0) /\ s \in Seq(T) /\ s # <<>> /\ IsKey(s[1]) /\ Last(s) = Close
      /\ t \in Texts(T, Fitting(T), 0) /\ t \in Seq(T) /\ t # <<>> /\ IsKey(t[1]) /\ Last(t) = Close
      /\ t[1] \in T
  <2>1. t \in Seq(T) /\ t # <<>>
    BY DEF Closed, Texts
  <2>2. t[1] \in T
    BY <2>1, EndsOfBoth
  <2> QED
    BY <2>2 DEF Closed, Texts
<1>2. /\ Close \in T /\ Comma \in T /\ Space \in T
      /\ Comma \notin {Open, Close} /\ Space \notin {Open, Close}
  BY MarksDiffer DEF Marks
<1>3. /\ <<Close, Comma>> \in Fitting(T) /\ <<Comma, Space>> \in Fitting(T)
      /\ <<Space, t[1]>> \in Fitting(T)
  <2>1. <<Close, Comma>> \in Fitting(T)
    BY <1>2, FittingPairs
  <2>2. <<Comma, Space>> \in Fitting(T)
    BY <1>2, FittingPairs
  <2>3. <<Space, t[1]>> \in Fitting(T)
    BY <1>1, <1>2, FittingPairs
  <2> QED
    BY <2>1, <2>2, <2>3
<1> DEFINE u == s \o <<Comma>>
           v == u \o <<Space>>
<1>4. /\ u \in Texts(T, Fitting(T), 0) /\ u \in Seq(T)
      /\ u # <<>> /\ u[1] = s[1] /\ Last(u) = Comma
  BY <1>1, <1>2, <1>3, TextsGrow, EndsOfLonger
<1> HIDE DEF u
<1>5. /\ v \in Texts(T, Fitting(T), 0) /\ v \in Seq(T)
      /\ v # <<>> /\ v[1] = s[1] /\ Last(v) = Space
  BY <1>2, <1>3, <1>4, TextsGrow, EndsOfLonger
<1> HIDE DEF v
<1>6. v \o t \in Texts(T, Fitting(T), 0 + 0)
  BY <1>1, <1>3, <1>5, TextsJoin
<1>7. v \o t # <<>> /\ (v \o t)[1] = s[1] /\ Last(v \o t) = Close
  BY <1>1, <1>5, EndsOfBoth
<1>8. 0 + 0 = 0
  OBVIOUS
<1>9. v \o t \in Closed(T)
  BY Zenon, <1>1, <1>6, <1>7, <1>8 DEF Closed
<1> QED
  BY <1>1, <1>9 DEF u, v

\* The attributes of a bean.
AreAttributes(T, keys, value) ==
    \A i \in DOMAIN keys : K(keys[i]) \in T /\ value[keys[i]] \in Attribute(T)

\* Closed attributes, and the comma and the space that SetText and LikeText delete.
AreSaid(T, flat) == flat = <<>> \/ \E u \in Closed(T) : flat = (u \o <<Comma>>) \o <<Space>>

LEMMA AttributesTexts ==
    ASSUME NEW T, Marks \subseteq T, NEW n \in Nat, NEW keys, DOMAIN keys = 1 .. n, NEW value,
           AreAttributes(T, keys, value)
    PROVE  AreSaid(T, Attributes(keys, value))
<1> DEFINE piece(i) == IF value[keys[i]] = <<>> THEN <<>>
                       ELSE <<K(keys[i]), Open>> \o value[keys[i]] \o <<Close, Comma, Space>>
           seqs == [i \in DOMAIN keys |-> piece(i)]
           All == {(u \o <<Comma>>) \o <<Space>> : u \in Closed(T)}
           steps == [i \in 0 .. n |-> {<<>>} \cup All]
<1>0. /\ Open \in T /\ Close \in T /\ Comma \in T /\ Space \in T
      /\ \A i \in 1 .. n : K(keys[i]) \in T /\ value[keys[i]] \in Attribute(T)
  BY DEF Marks, AreAttributes
<1>1. ASSUME NEW i \in 1 .. n
      PROVE  piece(i) = <<>> \/ \E u \in Closed(T) : piece(i) = (u \o <<Comma>>) \o <<Space>>
  <2>1. CASE value[keys[i]] = <<>>
    BY <2>1
  <2>2. CASE value[keys[i]] # <<>>
    <3> DEFINE k == K(keys[i])
               s == value[keys[i]]
               r == <<k, Open>> \o s
               u == r \o <<Close>>
    <3>1. s \in Seq(ValueTokens(T)) /\ Len(s) = 1
      <4>1. PICK t \in ValueTokens(T) : s = <<t>>
        BY <1>0, <2>2 DEF Attribute
      <4>2. <<t>> \in Seq(ValueTokens(T)) /\ Len(<<t>>) = 1
        OBVIOUS
      <4> QED
        BY Zenon, <4>1, <4>2
    <3>2. IsList(T, s)
      <4> HIDE DEF s
      <4> QED
        BY <3>1, ListsOfOne
    <3>3. /\ s \in Texts(T, Fitting(T), 0) /\ s # <<>>
          /\ IsValue(s[1]) /\ IsValue(Last(s))
      BY Zenon, <3>2 DEF IsList
    <3>4. k \in T
      BY <1>0
    <3>5. u \in Texts(T, Fitting(T), 0) /\ u # <<>> /\ u[1] = k /\ Last(u) = Close
      <4> HIDE DEF s
      <4> QED
        BY <3>3, <3>4, Enclosed
    <3>6. IsKey(k)
      BY WordsAndValues DEF IsKey
    <3>7. r \in Seq(T)
      <4>1. s \in Seq(T)
        BY <3>3 DEF Texts
      <4>2. <<k, Open>> \in Seq(T)
        BY <1>0, <3>4
      <4> HIDE DEF s, k
      <4> QED
        BY <4>1, <4>2
    <3>8. r \o <<Close, Comma, Space>> = (u \o <<Comma>>) \o <<Space>>
      <4> HIDE DEF r
      <4>1. AddsThree(r, Close, Comma, Space)
        BY <1>0, <3>7, ThreeMore
      <4> QED
        BY Zenon, <4>1 DEF AddsThree
    <3>9. piece(i) = r \o <<Close, Comma, Space>>
      BY Zenon, <2>2
    <3>10. u \in Closed(T)
      <4> HIDE DEF u, k
      <4> QED
        BY <3>5, <3>6 DEF Closed
    <3> HIDE DEF u, r, piece
    <3> QED
      BY <3>8, <3>9, <3>10
  <2> QED
    BY <2>1, <2>2
<1>2. ASSUME NEW s \in All
      PROVE  s \in Seq(T)
  <2>1. PICK u \in Closed(T) : s = (u \o <<Comma>>) \o <<Space>>
    OBVIOUS
  <2>2. u \in Seq(T)
    BY DEF Closed, Texts
  <2>3. u \o <<Comma>> \in Seq(T)
    BY <1>0, <2>2, EndsOfLonger
  <2>4. (u \o <<Comma>>) \o <<Space>> \in Seq(T)
    BY <1>0, <2>3, EndsOfLonger
  <2> QED
    BY <2>1, <2>4
<1>3. \A i \in 1 .. n : seqs[i] = piece(i)
  OBVIOUS
<1>4. \A i \in 1 .. n : seqs[i] \in {<<>>} \cup All
  <2> HIDE DEF piece, seqs
  <2> QED
    BY <1>1, <1>3
<1>5. seqs \in [1 .. n -> Seq(T)]
  <2>1. DOMAIN seqs = 1 .. n /\ seqs = [i \in 1 .. n |-> seqs[i]]
    BY Zenon
  <2>2. \A i \in 1 .. n : seqs[i] \in Seq(T)
    <3>1. <<>> \in Seq(T)
      OBVIOUS
    <3> HIDE DEF seqs, All
    <3> QED
      BY <1>2, <1>4, <3>1
  <2> HIDE DEF seqs
  <2> QED
    BY <2>1, <2>2
<1>6. ASSUME NEW i \in 1 .. n, NEW s \in {<<>>} \cup All
      PROVE  s \o seqs[i] \in {<<>>} \cup All
  <2>0. s \in Seq(T) /\ seqs[i] \in Seq(T) /\ seqs[i] \in {<<>>} \cup All
    <3>1. <<>> \in Seq(T)
      OBVIOUS
    <3> HIDE DEF seqs, All
    <3> QED
      BY <1>2, <1>4, <3>1
  <2> HIDE DEF seqs
  <2>1. CASE s = <<>> \/ seqs[i] = <<>>
    <3>1. s \o seqs[i] = s \/ s \o seqs[i] = seqs[i]
      BY <2>0, <2>1, ConcatEmptySeq
    <3> QED
      BY Zenon, <2>0, <3>1
  <2>2. CASE s # <<>> /\ seqs[i] # <<>>
    <3>1. PICK u \in Closed(T) : s = (u \o <<Comma>>) \o <<Space>>
      BY <2>2
    <3>2. PICK w \in Closed(T) : seqs[i] = (w \o <<Comma>>) \o <<Space>>
      BY <2>0, <2>2
    <3>3. s \o w \in Closed(T)
      BY <3>1, ClosedJoin
    <3>4. w \in Seq(T)
      BY DEF Closed, Texts
    <3>5. s \o ((w \o <<Comma>>) \o <<Space>>) = ((s \o w) \o <<Comma>>) \o <<Space>>
      <4>1. JoinsTwo(s, w, Comma, Space)
        BY <1>0, <2>0, <3>4, TwoMoreOfBoth
      <4> QED
        BY Zenon, <4>1 DEF JoinsTwo
    <3> QED
      BY Zenon, <3>2, <3>3, <3>5
  <2> QED
    BY <2>1, <2>2
<1>7. FlattenSeq(seqs) \in {<<>>} \cup All
  <2>1. /\ <<>> \in steps[0]
        /\ \A i \in 1 .. n : \A s \in Seq(T) : s \in steps[i - 1] => s \o seqs[i] \in steps[i]
    <3>1. \A i \in 1 .. n : i - 1 \in 0 .. n /\ i \in 0 .. n
      OBVIOUS
    <3>2. \A i \in 0 .. n : steps[i] = {<<>>} \cup All
      BY Zenon
    <3>3. 0 \in 0 .. n
      OBVIOUS
    <3> HIDE DEF steps, seqs, All
    <3> QED
      BY <1>6, <3>1, <3>2, <3>3
  <2>2. steps[n] = {<<>>} \cup All
    OBVIOUS
  <2> HIDE DEF steps, seqs, All
  <2>3. FlattenSeq(seqs) \in steps[n]
    BY <1>5, <2>1, FlattenSteps
  <2> QED
    BY Zenon, <2>2, <2>3
<1>8. Attributes(keys, value) = FlattenSeq(seqs)
  BY Zenon DEF Attributes
<1> HIDE DEF seqs
<1> QED
  BY <1>7, <1>8 DEF AreSaid

LEMMA LastOfOpening ==
    ASSUME NEW T, Marks \subseteq T, NEW key, K(key) \in T, NEW s \in Seq(T), s # <<>>
    PROVE  Last(<<K(key), Open>> \o s) = Last(s)
<1>1. <<K(key), Open>> \in Seq(T) /\ <<K(key), Open>> # <<>>
  BY DEF Marks
<1> QED
  BY <1>1, EndsOfBoth

\* A group without attributes.
LEMMA EmptyGroups ==
    ASSUME NEW T, Marks \subseteq T, NEW key, K(key) \in T
    PROVE  /\ Last(<<K(key), Open>> \o <<>>) = Open
           /\ IsPhrase(T, Append(<<K(key), Open>> \o <<>>, Close))
<1> DEFINE r == <<K(key), Open>>
<1>1. r \in Texts(T, Fitting(T), 1) /\ r # <<>> /\ r[1] = K(key) /\ Last(r) = Open
  BY Opening
<1> HIDE DEF r
<1>2. r \in Seq(T) /\ Close \in T /\ Open \in T /\ Open # Close /\ Close \notin {Open}
  BY <1>1, MarksDiffer DEF Texts, Marks
<1>3. r \o <<>> = r
  BY <1>2, ConcatEmptySeq
<1>4. Append(r, Close) = r \o <<Close>>
  BY <1>2, AppendIsConcat
<1>5. <<Open, Close>> \in Fitting(T)
  BY <1>2, FittingPairs
<1>6. r \o <<Close>> \in Texts(T, Fitting(T), 1 - 1)
  BY <1>1, <1>2, <1>5, TextsGrow
<1>7. 1 - 1 = 0
  OBVIOUS
<1>8. r \o <<Close>> # <<>> /\ Last(r \o <<Close>>) = Close /\ (r \o <<Close>>)[1] = K(key)
  BY <1>1, <1>2, EndsOfLonger
<1>9. IsKey(K(key))
  BY WordsAndValues DEF IsKey
<1>10. IsPhrase(T, r \o <<Close>>)
  BY Zenon, <1>6, <1>7, <1>8, <1>9 DEF IsPhrase
<1>11. Last(r \o <<>>) = Open /\ IsPhrase(T, Append(r \o <<>>, Close))
  BY Zenon, <1>1, <1>3, <1>4, <1>10
<1> QED
  BY <1>11 DEF r

\* What is deleted from a text that ends in one separator or in none.
LEMMA Formats ==
    ASSUME NEW T, NEW s \in Seq(T), NEW t \in T
    PROVE  /\ t \in {Comma, Space} => Format(s \o <<t>>) = s
           /\ t \notin {Comma, Space} => Format(s \o <<t>>) = s \o <<t>>
<1>1. Last(s \o <<t>>) = t /\ Front(s \o <<t>>) = s
  BY EndsOfLonger
<1> QED
  BY <1>1 DEF Format

\* What SetText and LikeText make of a text in the end.
EndsAsPhrase(T, text) ==
    IF Last(text) = Open THEN IsPhrase(T, Append(text, Close))
    ELSE /\ IsPhrase(T, Format(Format(text)) \o <<Close, Space>>)
         /\ IsPhrase(T, Format(Format(Format(text))) \o <<Close, Space>>)

\* A group with attributes.
LEMMA FilledGroups ==
    ASSUME NEW T, Marks \subseteq T, NEW key, K(key) \in T, NEW u \in Closed(T)
    PROVE  EndsAsPhrase(T, <<K(key), Open>> \o ((u \o <<Comma>>) \o <<Space>>))
<1> DEFINE r == <<K(key), Open>>
           v == r \o u
           text == r \o ((u \o <<Comma>>) \o <<Space>>)
<1>1. /\ u \in Texts(T, Fitting(T), 0) /\ u \in Seq(T) /\ u # <<>>
      /\ IsKey(u[1]) /\ Last(u) = Close
  BY DEF Closed, Texts
<1>2. /\ r \in Seq(T) /\ r # <<>>
      /\ Open \in T /\ Close \in T /\ Comma \in T /\ Space \in T /\ Space # Open
      /\ Close \notin {Comma, Space}
  BY MarksDiffer DEF Marks
<1>3. Last(v) = Last(u)
  BY <1>1, LastOfOpening
<1>4. /\ v \o <<Close>> \in Texts(T, Fitting(T), 0)
      /\ v \o <<Close>> # <<>> /\ (v \o <<Close>>)[1] = K(key) /\ Last(v \o <<Close>>) = Close
      /\ v \o <<Close, Space>> = (v \o <<Close>>) \o <<Space>>
  <2>1. (IsKey(u[1]) \/ IsValue(u[1])) /\ (Last(u) = Close \/ IsValue(Last(u)))
    BY <1>1
  <2>2. v \o <<Close>> \in Texts(T, Fitting(T), 0)
    BY <1>1, <2>1, Enclosed
  <2>3. v \o <<Close>> # <<>> /\ (v \o <<Close>>)[1] = K(key)
    BY <1>1, <2>1, Enclosed
  <2>4. Last(v \o <<Close>>) = Close
    BY <1>1, <2>1, Enclosed
  <2>5. v \o <<Close, Space>> = (v \o <<Close>>) \o <<Space>>
    BY <1>1, <2>1, Enclosed
  <2> HIDE DEF v
  <2> QED
    BY <2>2, <2>3, <2>4, <2>5
<1> HIDE DEF r
<1>5. v \in Seq(T)
  BY <1>1, <1>2, BothTexts
<1>6. text = (v \o <<Comma>>) \o <<Space>>
  <2>1. JoinsTwo(r, u, Comma, Space)
    BY <1>1, <1>2, TwoMoreOfBoth
  <2> QED
    BY Zenon, <2>1 DEF JoinsTwo
<1> HIDE DEF v, text
<1>7. v \o <<Comma>> \in Seq(T)
  BY <1>2, <1>5, EndsOfLonger
<1>8. Last(text) = Space
  <2> DEFINE w == v \o <<Comma>>
  <2> HIDE DEF w
  <2>1. w \in Seq(T) => Last(w \o <<Space>>) = Space
    BY <1>2, EndsOfLonger
  <2> QED
    BY Zenon, <1>6, <1>7, <2>1 DEF w
<1>9. Format(text) = v \o <<Comma>>
  BY <1>2, <1>6, <1>7, Formats
<1>10. Format(v \o <<Comma>>) = v
  BY <1>2, <1>5, Formats
<1>11. Format(v) = v
  BY <1>1, <1>2, <1>3 DEF Format
<1>12. IsPhrase(T, (v \o <<Close>>) \o <<Space>>)
  <2> DEFINE w == v \o <<Close>>
  <2>1. w \in Texts(T, Fitting(T), 0) /\ w # <<>> /\ IsKey(w[1]) /\ Last(w) = Close
    BY <1>4, WordsAndValues DEF IsKey
  <2> HIDE DEF w
  <2>2. IsPhrase(T, w \o <<Space>>)
    BY <2>1, PhrasesWithSpace
  <2> QED
    BY <2>2 DEF w
<1>13. IsPhrase(T, v \o <<Close, Space>>)
  BY Zenon, <1>4, <1>12
<1>14. EndsAsPhrase(T, text)
  BY Zenon, <1>2, <1>8, <1>9, <1>10, <1>11, <1>13 DEF EndsAsPhrase
<1> QED
  BY <1>14 DEF text, r

LEMMA SetAndLikeTexts ==
    ASSUME NEW T, Marks \subseteq T, NEW n \in Nat, NEW keys, DOMAIN keys = 1 .. n, NEW value,
           AreAttributes(T, keys, value)
    PROVE  /\ K("SET") \in T => IsPhrase(T, SetText(keys, value))
           /\ K("LIKE") \in T => IsPhrase(T, LikeText(keys, value))
<1> DEFINE flat == Attributes(keys, value)
<1>0. AreSaid(T, flat)
  BY AttributesTexts
<1> HIDE DEF flat
<1>1. ASSUME NEW key, K(key) \in T
      PROVE  EndsAsPhrase(T, <<K(key), Open>> \o flat)
  <2>1. CASE flat = <<>>
    <3>1. EndsAsPhrase(T, <<K(key), Open>> \o <<>>)
      BY Zenon, <1>1, EmptyGroups DEF EndsAsPhrase
    <3> QED
      BY Zenon, <2>1, <3>1
  <2>2. CASE flat # <<>>
    <3>1. PICK u \in Closed(T) : flat = (u \o <<Comma>>) \o <<Space>>
      BY Zenon, <1>0, <2>2 DEF AreSaid
    <3>2. EndsAsPhrase(T, <<K(key), Open>> \o ((u \o <<Comma>>) \o <<Space>>))
      BY <1>1, FilledGroups
    <3> QED
      BY Zenon, <3>1, <3>2
  <2> QED
    BY <2>1, <2>2
<1>2. K("SET") \in T => IsPhrase(T, SetText(keys, value))
  BY Zenon, <1>1 DEF SetText, EndsAsPhrase, flat
<1>3. K("LIKE") \in T => IsPhrase(T, LikeText(keys, value))
  BY Zenon, <1>1 DEF LikeText, EndsAsPhrase, flat
<1> QED
  BY <1>2, <1>3

\* The comparison and the count of a QCNT, each with a comma.
LEMMA ListsJoin ==
    ASSUME NEW T, Marks \subseteq T, NEW s, IsList(T, s), NEW t, IsList(T, t)
    PROVE  s \in Seq(T) /\ IsList(T, (s \o <<Comma>>) \o t)
<1>1. /\ s \in Texts(T, Fitting(T), 0) /\ s \in Seq(T) /\ s # <<>> /\ IsValue(s[1]) /\ IsValue(Last(s))
      /\ t \in Texts(T, Fitting(T), 0) /\ t \in Seq(T) /\ t # <<>> /\ IsValue(t[1]) /\ IsValue(Last(t))
  BY DEF IsList, Texts
<1>2. Last(s) \in T /\ t[1] \in T
  BY <1>1, EndsOfBoth
<1>3. /\ Comma \in T /\ Comma \notin {Open, Close}
      /\ <<Last(s), Comma>> \in Fitting(T) /\ <<Comma, t[1]>> \in Fitting(T)
  BY <1>1, <1>2, ValueFacts
<1> DEFINE u == s \o <<Comma>>
<1>4. u \in Texts(T, Fitting(T), 0)
  BY <1>1, <1>3, TextsGrow
<1>5. u \in Seq(T) /\ u # <<>> /\ u[1] = s[1] /\ Last(u) = Comma
  BY <1>1, <1>3, EndsOfLonger
<1> HIDE DEF u
<1>6. u \o t \in Texts(T, Fitting(T), 0 + 0)
  BY <1>1, <1>3, <1>4, <1>5, TextsJoin
<1>7. 0 + 0 = 0
  OBVIOUS
<1>8. u \o t # <<>> /\ (u \o t)[1] = s[1] /\ Last(u \o t) = Last(t)
  BY <1>1, <1>5, EndsOfBoth
<1>9. IsList(T, u \o t)
  BY Zenon, <1>1, <1>6, <1>7, <1>8 DEF IsList
<1> QED
  BY <1>1, <1>9 DEF u

\* Lists, each with a comma.
EndsInComma(T, flat) == flat = <<>> \/ \E u : IsList(T, u) /\ flat = u \o <<Comma>>

LEMMA EndsInCommaJoin ==
    ASSUME NEW T, Marks \subseteq T, NEW s, EndsInComma(T, s), NEW t, EndsInComma(T, t)
    PROVE  s \in Seq(T) /\ EndsInComma(T, s \o t)
<1>0. /\ Comma \in T /\ <<>> \in Seq(T)
      /\ \A u : IsList(T, u) => u \in Seq(T)
  BY DEF Marks, IsList, Texts
<1>1. s \in Seq(T) /\ t \in Seq(T)
  <2>1. ASSUME NEW u, IsList(T, u)
        PROVE  u \o <<Comma>> \in Seq(T)
    BY <1>0, <2>1, EndsOfLonger
  <2> QED
    BY Zenon, <1>0, <2>1 DEF EndsInComma
<1>2. CASE s = <<>> \/ t = <<>>
  <2>1. s \o t = s \/ s \o t = t
    BY <1>1, <1>2, ConcatEmptySeq
  <2> QED
    BY Zenon, <1>1, <2>1
<1>3. CASE s # <<>> /\ t # <<>>
  <2>1. PICK u : IsList(T, u) /\ s = u \o <<Comma>>
    BY Zenon, <1>3 DEF EndsInComma
  <2>2. PICK w : IsList(T, w) /\ t = w \o <<Comma>>
    BY Zenon, <1>3 DEF EndsInComma
  <2>3. IsList(T, (u \o <<Comma>>) \o w)
    BY <2>1, <2>2, ListsJoin
  <2>4. s \o (w \o <<Comma>>) = (s \o w) \o <<Comma>>
    <3>1. JoinsOne(s, w, Comma)
      BY <1>0, <1>1, <2>2, OneMoreOfBoth
    <3> QED
      BY Zenon, <3>1 DEF JoinsOne
  <2> QED
    BY Zenon, <1>1, <2>1, <2>2, <2>3, <2>4 DEF EndsInComma
<1> QED
  BY <1>2, <1>3

LEMMA QcntTexts ==
    ASSUME NEW T, Marks \subseteq T, K("QCNT") \in T,
           NEW n \in Nat, NEW keys, DOMAIN keys = 1 .. n, NEW value,
           AreAttributes(T, keys, value)
    PROVE  IsPhrase(T, QcntText(keys, value))
<1> DEFINE piece(i) == IF value[keys[i]] = <<>> THEN <<>> ELSE Append(value[keys[i]], Comma)
           seqs == [i \in DOMAIN keys |-> piece(i)]
           All == {s \in Seq(T) : EndsInComma(T, s)}
           steps == [i \in 0 .. n |-> All]
           r == <<K("QCNT"), Open>>
<1>0. /\ Open \in T /\ Close \in T /\ Comma \in T /\ Space \in T /\ r \in Seq(T)
      /\ \A i \in 1 .. n : value[keys[i]] \in Attribute(T)
  BY DEF Marks, AreAttributes
<1>1. <<>> \in All
  BY DEF EndsInComma
<1>2. ASSUME NEW i \in 1 .. n
      PROVE  piece(i) \in All
  <2> DEFINE s == value[keys[i]]
  <2>1. CASE s = <<>>
    BY <1>1, <2>1
  <2>2. CASE s # <<>>
    <3>1. s \in Seq(ValueTokens(T)) /\ Len(s) = 1
      <4>1. PICK t \in ValueTokens(T) : s = <<t>>
        BY <1>0, <2>2 DEF Attribute
      <4>2. <<t>> \in Seq(ValueTokens(T)) /\ Len(<<t>>) = 1
        OBVIOUS
      <4> QED
        BY Zenon, <4>1, <4>2
    <3> HIDE DEF s
    <3>2. IsList(T, s)
      BY <3>1, ListsOfOne
    <3>3. s \in Seq(T)
      BY <3>2 DEF IsList, Texts
    <3>4. Append(s, Comma) = s \o <<Comma>> /\ s \o <<Comma>> \in Seq(T)
      BY <1>0, <3>3, Longer
    <3>5. EndsInComma(T, Append(s, Comma))
      BY Zenon, <3>2, <3>4 DEF EndsInComma
    <3>6. Append(s, Comma) \in All
      BY <3>4, <3>5
    <3>7. piece(i) = Append(s, Comma)
      BY Zenon, <2>2 DEF s
    <3> QED
      BY Zenon, <3>6, <3>7
  <2> QED
    BY <2>1, <2>2
<1>3. \A i \in 1 .. n : seqs[i] = piece(i)
  OBVIOUS
<1>4. seqs \in [1 .. n -> All]
  <2>1. DOMAIN seqs = 1 .. n /\ seqs = [i \in 1 .. n |-> seqs[i]]
    BY Zenon
  <2> HIDE DEF seqs, piece, All
  <2>2. \A i \in 1 .. n : seqs[i] \in All
    BY <1>2, <1>3
  <2> QED
    BY <2>1, <2>2
<1> HIDE DEF seqs
<1>5. seqs \in [1 .. n -> Seq(T)] /\ \A i \in 1 .. n : seqs[i] \in All
  BY <1>4
<1>6. ASSUME NEW s \in All, NEW t \in All
      PROVE  s \o t \in All
  <2>1. s \in Seq(T) /\ t \in Seq(T) /\ EndsInComma(T, s) /\ EndsInComma(T, t)
    OBVIOUS
  <2>2. s \o t \in Seq(T) /\ EndsInComma(T, s \o t)
    BY <2>1, BothTexts, EndsInCommaJoin
  <2> QED
    BY <2>2
<1>7. FlattenSeq(seqs) \in All
  <2>1. /\ <<>> \in steps[0]
        /\ \A i \in 1 .. n : \A s \in Seq(T) : s \in steps[i - 1] => s \o seqs[i] \in steps[i]
    <3>1. \A i \in 1 .. n : i - 1 \in 0 .. n /\ i \in 0 .. n
      OBVIOUS
    <3>2. \A i \in 0 .. n : steps[i] = All
      BY Zenon
    <3>3. 0 \in 0 .. n
      OBVIOUS
    <3> HIDE DEF steps, All
    <3> QED
      BY <1>1, <1>5, <1>6, <3>1, <3>2, <3>3
  <2>2. steps[n] = All
    OBVIOUS
  <2> HIDE DEF steps, All
  <2>3. FlattenSeq(seqs) \in steps[n]
    BY <1>5, <2>1, FlattenSteps
  <2> QED
    BY Zenon, <2>2, <2>3
<1> DEFINE flat == FlattenSeq(seqs)
           text == r \o flat
<1>8. QcntText(keys, value) = IF Last(text) = Open THEN Append(text, Close)
                              ELSE Format(text) \o <<Close, Space>>
  BY Zenon DEF QcntText, seqs
<1>9. EndsInComma(T, flat)
  BY <1>7
<1> HIDE DEF flat
<1>10. CASE flat = <<>>
  <2>1. text = r \o <<>>
    BY Zenon, <1>10
  <2>2. Last(r \o <<>>) = Open /\ IsPhrase(T, Append(r \o <<>>, Close))
    BY EmptyGroups
  <2> QED
    BY Zenon, <1>8, <2>1, <2>2
<1>11. CASE flat # <<>>
  <2>1. PICK u : IsList(T, u) /\ flat = u \o <<Comma>>
    BY Zenon, <1>9, <1>11 DEF EndsInComma
  <2>2. u \in Seq(T)
    BY <2>1 DEF IsList, Texts
  <2>3. IsPhrase(T, (r \o u) \o <<Close, Space>>)
    BY <2>1, EnclosedLists
  <2> HIDE DEF r
  <2> DEFINE v == r \o u
  <2>4. r \o (u \o <<Comma>>) = v \o <<Comma>>
    <3>1. JoinsOne(r, u, Comma)
      BY <1>0, <2>2, OneMoreOfBoth
    <3> QED
      BY Zenon, <3>1 DEF JoinsOne
  <2>5. v \in Seq(T)
    BY <1>0, <2>2, BothTexts
  <2> HIDE DEF v
  <2>6. Last(v \o <<Comma>>) = Comma
    BY <1>0, <2>5, EndsOfLonger
  <2>7. Format(v \o <<Comma>>) = v
    BY <1>0, <2>5, Formats
  <2>8. Comma # Open
    BY MarksDiffer
  <2>9. text = v \o <<Comma>>
    BY Zenon, <2>1, <2>4
  <2> HIDE DEF text
  <2> QED
    BY Zenon, <1>8, <2>3, <2>6, <2>7, <2>8, <2>9 DEF v
<1> QED
  BY <1>10, <1>11

LEMMA GroupTexts ==
    ASSUME NEW T, Marks \subseteq T, NEW key \in {"SET", "LIKE", "QCNT"}, K(key) \in T,
           NEW n \in Nat, NEW keys, DOMAIN keys = 1 .. n, NEW value,
           AreAttributes(T, keys, value)
    PROVE  IsPhrase(T, GroupText(key, keys, value))
<1>1. CASE key = "SET"
  <2>1. IsPhrase(T, SetText(keys, value))
    BY <1>1, SetAndLikeTexts
  <2> QED
    BY <1>1, <2>1 DEF GroupText
<1>2. CASE key = "LIKE"
  <2>1. IsPhrase(T, LikeText(keys, value))
    BY <1>2, SetAndLikeTexts
  <2> QED
    BY <1>2, <2>1 DEF GroupText
<1>3. CASE key = "QCNT"
  <2>1. IsPhrase(T, QcntText(keys, value))
    BY <1>3, QcntTexts
  <2> QED
    BY <1>3, <2>1 DEF GroupText
<1> QED
  BY <1>1, <1>2, <1>3

-----------------------------------------------------------------------------
(* The whole command *)

\* More tokens allow more texts.
LEMMA MoreTexts ==
    ASSUME NEW T, NEW U, T \subseteq U, NEW R, NEW Q, R \subseteq Q, NEW d, NEW s \in Texts(T, R, d)
    PROVE  s \in Texts(U, Q, d)
<1>1. /\ s \in Seq(T) /\ Chain(R, s) /\ Depth(s) = d
      /\ \A n \in 0 .. Len(s) : Depth(SubSeq(s, 1, n)) >= 0
  BY DEF Texts
<1>2. s \in Seq(U)
  BY <1>1, SeqMonotonic
<1>3. Chain(Q, s)
  BY <1>1 DEF Chain
<1> QED
  BY <1>1, <1>2, <1>3 DEF Texts

LEMMA MorePhrases ==
    ASSUME NEW T, NEW U, T \subseteq U, NEW s, IsPhrase(T, s)
    PROVE  IsPhrase(U, s)
<1>1. Fitting(T) \subseteq Fitting(U)
  BY DEF Fitting
<1>2. \A u : u \in Texts(T, Fitting(T), 0) => u \in Texts(U, Fitting(U), 0)
  BY <1>1, MoreTexts
<1> QED
  BY Zenon, <1>2 DEF IsPhrase

LEMMA PhraseFacts ==
    ASSUME NEW T, NEW s, IsPhrase(T, s)
    PROVE  /\ s \in Texts(T, Fitting(T), 0) /\ s \in Seq(T) /\ s # <<>>
           /\ IsKey(s[1]) /\ s[1] \in T /\ Last(s) \in T
<1>1. s \in Texts(T, Fitting(T), 0) /\ s \in Seq(T) /\ s # <<>> /\ IsKey(s[1])
  BY DEF IsPhrase, Texts
<1>2. s[1] \in T /\ Last(s) \in T
  BY <1>1, EndsOfBoth
<1> QED
  BY <1>1, <1>2

\* The fields of a command follow each other.
LEMMA PhrasesJoin ==
    ASSUME NEW T, Marks \subseteq T, NEW s, IsPhrase(T, s), NEW t, IsPhrase(T, t)
    PROVE  IsPhrase(T, s \o t) /\ (s \o t)[1] = s[1]
<1>1. /\ s \in Texts(T, Fitting(T), 0) /\ s \in Seq(T) /\ s # <<>> /\ IsKey(s[1])
      /\ t \in Texts(T, Fitting(T), 0) /\ t \in Seq(T) /\ t # <<>> /\ IsKey(t[1]) /\ t[1] \in T
      /\ Close \in T /\ Space \in T
  BY PhraseFacts DEF Marks
<1>2. Last(s) \in {Close, Space}
  <2>1. CASE Last(s) = Close
    BY <2>1
  <2>2. CASE Last(s) # Close
    <3>1. PICK u \in Texts(T, Fitting(T), 0) : s = u \o <<Space>>
      BY <2>2 DEF IsPhrase
    <3>2. u \in Seq(T)
      BY DEF Texts
    <3>3. Last(u \o <<Space>>) = Space
      BY <1>1, <3>2, EndsOfLonger
    <3> QED
      BY Zenon, <3>1, <3>3
  <2> QED
    BY <2>1, <2>2
<1>3. <<Last(s), t[1]>> \in Fitting(T)
  <2>1. Last(s) = Close => <<Close, t[1]>> \in Fitting(T)
    BY <1>1, FittingPairs
  <2>2. Last(s) = Space => <<Space, t[1]>> \in Fitting(T)
    BY <1>1, FittingPairs
  <2> QED
    BY Zenon, <1>2, <2>1, <2>2
<1>4. ASSUME NEW u \in Texts(T, Fitting(T), 0), u # <<>>, u[1] = t[1]
      PROVE  s \o u \in Texts(T, Fitting(T), 0) /\ s \o u # <<>> /\ (s \o u)[1] = s[1]
             /\ Last(s \o u) = Last(u)
  <2>1. s \o u \in Texts(T, Fitting(T), 0 + 0)
    BY <1>1, <1>3, <1>4, TextsJoin
  <2>2. 0 + 0 = 0
    OBVIOUS
  <2>3. u \in Seq(T)
    BY DEF Texts
  <2>4. s \o u # <<>> /\ (s \o u)[1] = s[1]
    BY <1>1, <2>3, EndsOfBoth
  <2>5. Last(s \o u) = Last(u)
    BY <1>1, <1>4, <2>3, EndsOfBoth
  <2> QED
    BY Zenon, <2>1, <2>2, <2>4, <2>5
<1>5. /\ s \o t \in Texts(T, Fitting(T), 0) /\ s \o t # <<>> /\ (s \o t)[1] = s[1]
      /\ Last(s \o t) = Last(t)
  BY Zenon, <1>1, <1>4
<1>6. CASE Last(t) = Close
  BY Zenon, <1>1, <1>5, <1>6 DEF IsPhrase
<1>7. CASE Last(t) # Close
  <2>1. PICK u \in Texts(T, Fitting(T), 0) :
            t = u \o <<Space>> /\ u # <<>> /\ u[1] = t[1] /\ (Last(u) = Close \/ IsKey(Last(u)))
    BY Zenon, <1>7 DEF IsPhrase
  <2>2. s \o u \in Texts(T, Fitting(T), 0) /\ s \o u # <<>> /\ (s \o u)[1] = s[1]
        /\ Last(s \o u) = Last(u)
    BY Zenon, <1>4, <2>1
  <2>3. u \in Seq(T)
    BY DEF Texts
  <2>4. s \o (u \o <<Space>>) = (s \o u) \o <<Space>>
    <3>1. JoinsOne(s, u, Space)
      BY <1>1, <2>3, OneMoreOfBoth
    <3> QED
      BY Zenon, <3>1 DEF JoinsOne
  <2>5. s \o t = (s \o u) \o <<Space>>
    BY Zenon, <2>1, <2>4
  <2> QED
    BY Zenon, <1>1, <1>5, <2>1, <2>2, <2>5 DEF IsPhrase
<1> QED
  BY <1>5, <1>6, <1>7

\* What is in the parentheses of CMD in the end.
IsBody(T, s) ==
    /\ s \in Texts(T, Fitting(T), 0)
    /\ s # <<>>
    /\ IsKey(s[1])
    /\ Last(s) = Close \/ IsKey(Last(s))

\* The format before CMD is closed takes the space after the last field.
LEMMA Bodies ==
    ASSUME NEW T, Marks \subseteq T, NEW r \in Seq(T), NEW s, IsPhrase(T, s)
    PROVE  \E b : IsBody(T, b) /\ b[1] = s[1] /\ Format(r \o s) = r \o b
<1>1. /\ s \in Texts(T, Fitting(T), 0) /\ s \in Seq(T) /\ s # <<>> /\ IsKey(s[1])
      /\ Close \in T /\ Space \in T /\ Close \notin {Comma, Space}
  BY PhraseFacts, MarksDiffer DEF Marks
<1>2. CASE Last(s) = Close
  <2>1. Last(r \o s) = Close
    BY <1>1, <1>2, EndsOfBoth
  <2>2. Format(r \o s) = r \o s
    BY <1>1, <2>1 DEF Format
  <2> QED
    BY Zenon, <1>1, <1>2, <2>2 DEF IsBody
<1>3. CASE Last(s) # Close
  <2>1. PICK u \in Texts(T, Fitting(T), 0) :
            s = u \o <<Space>> /\ u # <<>> /\ u[1] = s[1] /\ (Last(u) = Close \/ IsKey(Last(u)))
    BY Zenon, <1>3 DEF IsPhrase
  <2>2. u \in Seq(T)
    BY DEF Texts
  <2>3. r \o (u \o <<Space>>) = (r \o u) \o <<Space>>
    <3>1. JoinsOne(r, u, Space)
      BY <1>1, <2>2, OneMoreOfBoth
    <3> QED
      BY Zenon, <3>1 DEF JoinsOne
  <2>4. r \o u \in Seq(T)
    BY <2>2, BothTexts
  <2>5. Format((r \o u) \o <<Space>>) = r \o u
    <3> DEFINE v == r \o u
    <3> HIDE DEF v
    <3>1. v \in Seq(T) => Format(v \o <<Space>>) = v
      BY <1>1, Formats
    <3> QED
      BY Zenon, <2>4, <3>1 DEF v
  <2>6. Format(r \o s) = r \o u
    BY Zenon, <2>1, <2>3, <2>5
  <2> QED
    BY Zenon, <1>1, <2>1, <2>6 DEF IsBody
<1> QED
  BY <1>2, <1>3

\* A command with its systems.
LEMMA ClosedCommands ==
    ASSUME NEW T, Marks \subseteq T, K("CMD") \in T, NEW b, IsBody(T, b),
           NEW t, t = <<>> \/ IsPhrase(T, t)
    PROVE  ((<<K("CMD"), Open>> \o b) \o <<Close>>) \o t \in Texts(T, Fitting(T), 0)
<1> DEFINE r == <<K("CMD"), Open>>
           u == r \o b
           v == u \o <<Close>>
<1>1. /\ b \in Texts(T, Fitting(T), 0) /\ b \in Seq(T) /\ b # <<>> /\ IsKey(b[1])
      /\ (Last(b) = Close \/ IsKey(Last(b)))
      /\ Open \in T /\ Close \in T /\ Close # Open
  BY MarksDiffer DEF IsBody, Marks, Texts
<1>2. b[1] \in T /\ Last(b) \in T
  BY <1>1, EndsOfBoth
<1>3. r \in Texts(T, Fitting(T), 1) /\ r \in Seq(T) /\ r # <<>> /\ Last(r) = Open
  <2>1. r \in Texts(T, Fitting(T), 1) /\ r # <<>> /\ Last(r) = Open
    BY Opening
  <2> QED
    BY <2>1 DEF Texts
<1> HIDE DEF r
<1>4. <<Open, b[1]>> \in Fitting(T) /\ <<Last(b), Close>> \in Fitting(T)
  <2>1. <<Open, b[1]>> \in Fitting(T)
    BY <1>1, <1>2, FittingPairs
  <2>2. <<Last(b), Close>> \in Fitting(T)
    BY <1>1, <1>2, FittingPairs
  <2> QED
    BY <2>1, <2>2
<1>5. u \in Texts(T, Fitting(T), 1 + 0)
  BY <1>1, <1>3, <1>4, TextsJoin
<1>6. 1 + 0 = 1 /\ 1 - 1 = 0 /\ 0 + 0 = 0
  OBVIOUS
<1>7. u # <<>> /\ Last(u) = Last(b) /\ u \in Seq(T)
  BY <1>1, <1>3, EndsOfBoth, BothTexts
<1> HIDE DEF u
<1>8. v \in Texts(T, Fitting(T), 1 - 1)
  BY <1>1, <1>4, <1>5, <1>6, <1>7, TextsGrow
<1>9. v # <<>> /\ Last(v) = Close /\ v \in Seq(T)
  BY <1>1, <1>7, EndsOfLonger
<1> HIDE DEF v
<1>10. CASE t = <<>>
  <2>1. v \o <<>> = v
    BY <1>9, ConcatEmptySeq
  <2> QED
    BY Zenon, <1>6, <1>8, <1>10, <2>1 DEF v, u, r
<1>11. CASE IsPhrase(T, t)
  <2>1. t \in Texts(T, Fitting(T), 0) /\ t # <<>> /\ IsKey(t[1]) /\ t[1] \in T
    BY <1>11, PhraseFacts
  <2>2. <<Last(v), t[1]>> \in Fitting(T)
    <3>1. <<Close, t[1]>> \in Fitting(T)
      BY <1>1, <2>1, FittingPairs
    <3> QED
      BY Zenon, <1>9, <3>1
  <2>3. v \in Texts(T, Fitting(T), 0)
    BY <1>6, <1>8
  <2>4. v \o t \in Texts(T, Fitting(T), 0 + 0)
    BY <2>1, <2>2, <2>3, TextsJoin
  <2> QED
    BY Zenon, <1>6, <2>4 DEF v, u, r
<1> QED
  BY <1>10, <1>11

-----------------------------------------------------------------------------
(* extractEssentialCommand *)

\* The tokens after the first text.
LEMMA AfterFirst ==
    ASSUME NEW T, NEW s \in Seq(T), NEW t \in Seq(T), NEW n \in 0 .. Len(t)
    PROVE  SubSeq(s \o t, Len(s) + 1, Len(s) + n) = SubSeq(t, 1, n)
<1> DEFINE u == s \o t
           m == Len(s)
           v == SubSeq(u, m + 1, m + n)
           w == SubSeq(t, 1, n)
<1>1. /\ u \in Seq(T) /\ m \in Nat /\ Len(t) \in Nat
      /\ \A i \in 1 .. Len(t) : u[m + i] = t[i]
  BY BothTexts
<1>2. w \in Seq(T) /\ Len(w) = n /\ \A i \in 1 .. n : w[i] = t[i]
  BY FirstTokens
<1> HIDE DEF u, w, m
<1>3. n \in Nat /\ n <= Len(t) /\ m + n \in Int /\ m + 1 \in Int
  BY <1>1
<1>4. \A i \in m + 1 .. m + n : u[i] \in T
  <2>1. \A i \in 1 .. n : u[m + i] = t[i] /\ t[i] \in T
    BY <1>1, <1>3
  <2>2. \A i \in m + 1 .. m + n : i - m \in 1 .. n /\ m + (i - m) = i
    BY <1>1, <1>3
  <2> QED
    BY <2>1, <2>2
<1>5. /\ v \in Seq(T)
      /\ Len(v) = IF m + 1 <= m + n THEN (m + n) - (m + 1) + 1 ELSE 0
      /\ \A i \in 1 .. (m + n) - (m + 1) + 1 : v[i] = u[(m + 1) + i - 1]
  BY <1>3, <1>4, SubSeqProperties
<1> HIDE DEF v
<1>6. (m + n) - (m + 1) + 1 = n /\ (m + 1 <= m + n \/ n = 0)
  BY <1>1, <1>3
<1>7. Len(v) = n /\ \A i \in 1 .. n : v[i] = u[(m + 1) + i - 1]
  BY <1>5, <1>6
<1>8. \A i \in 1 .. n : v[i] = w[i]
  <2>1. \A i \in 1 .. n : i \in 1 .. Len(t) /\ (m + 1) + i - 1 = m + i
    BY <1>1, <1>3
  <2> QED
    BY <1>1, <1>2, <1>7, <2>1
<1>9. v = w
  BY <1>2, <1>5, <1>7, <1>8, SeqEqual
<1> QED
  BY <1>9 DEF u, v, w, m

LEMMA TrimsNothing ==
    ASSUME NEW T, NEW s \in Seq(T), s # <<>>, s[1] # Space, Last(s) # Space
    PROVE  Trim(s) = s
<1> DEFINE kept == {i \in DOMAIN s : s[i] # Space}
           n == Len(s)
<1>1. n \in Nat /\ n # 0 /\ DOMAIN s = 1 .. n /\ s[n] # Space
  BY EmptySeq DEF Last
<1>2. 1 \in kept /\ n \in kept /\ kept \subseteq 1 .. n
  BY <1>1
<1> HIDE DEF kept
<1>3. Min(kept) = 1
  <2>1. 1 \in kept /\ \A i \in kept : 1 <= i
    BY <1>1, <1>2
  <2>2. Min(kept) \in kept /\ \A i \in kept : Min(kept) <= i
    BY <2>1 DEF Min
  <2>3. Min(kept) \in 1 .. n /\ Min(kept) <= 1
    BY <1>2, <2>2
  <2> HIDE DEF n
  <2> QED
    BY <1>1, <2>3
<1>4. Max(kept) = n
  <2>1. n \in kept /\ \A i \in kept : n >= i
    BY <1>1, <1>2
  <2>2. Max(kept) \in kept /\ \A i \in kept : Max(kept) >= i
    BY <2>1 DEF Max
  <2>3. Max(kept) \in 1 .. n /\ Max(kept) >= n
    BY <1>2, <2>2
  <2> HIDE DEF n
  <2> QED
    BY <1>1, <2>3
<1>5. SubSeq(s, 1, n) = s
  BY SubSeqFull
<1>6. Trim(s) = SubSeq(s, Min(kept), Max(kept))
  BY Zenon, <1>2 DEF Trim, kept
<1> QED
  BY Zenon, <1>3, <1>4, <1>5, <1>6

LEMMA EssentialCommands ==
    ASSUME NEW T, Open \in T, Close \in T, NEW a \in T, NEW R, NEW b \in Texts(T, R, 0),
           b # <<>>, b[1] # Space, Last(b) # Space, NEW t \in Seq(T)
    PROVE  extractEssentialCommand(((<<a, Open>> \o b) \o <<Close>>) \o t) = b
<1> DEFINE r == <<a, Open>>
           v == b \o <<Close>>
           w == v \o t
           cmd == r \o w
           n == Len(b)
           ends == {i \in 3 .. Len(cmd) : 1 + Depth(SubSeq(cmd, 3, i)) = 0}
<1>0. b \in Seq(T) /\ n \in Nat /\ <<Close>> \in Seq(T) /\ r \in Seq(T)
  BY DEF Texts
<1>1. Len(r) = 2
  OBVIOUS
<1> HIDE DEF r
<1>2. v \in Seq(T) /\ w \in Seq(T) /\ Len(v) = n + 1 /\ Len(w) = n + 1 + Len(t) /\ Len(t) \in Nat
  BY <1>0, Longer, BothTexts
<1>3. cmd \in Seq(T) /\ Len(cmd) = 2 + Len(w)
  <2>1. cmd \in Seq(T) /\ Len(cmd) = Len(r) + Len(w)
    BY <1>0, <1>2, BothTexts
  <2> HIDE DEF cmd, w
  <2> QED
    BY Zenon, <1>1, <2>1
<1>4. ((r \o b) \o <<Close>>) \o t = cmd
  <2>0. v \in Seq(T)
    BY <1>2
  <2>1. (r \o b) \o <<Close>> = r \o v
    <3>1. JoinsOne(r, b, Close)
      BY <1>0, OneMoreOfBoth
    <3> QED
      BY Zenon, <3>1 DEF JoinsOne
  <2>2. (r \o v) \o t = r \o (v \o t)
    <3> HIDE DEF v
    <3>1. Associate(r, v, t)
      BY <1>0, <2>0, TextsAssociate
    <3> QED
      BY Zenon, <3>1 DEF Associate
  <2> QED
    BY Zenon, <2>1, <2>2
<1>5. \A i \in 0 .. Len(w) : SubSeq(cmd, 3, i + 2) = SubSeq(w, 1, i)
  <2> SUFFICES ASSUME NEW i \in 0 .. Len(w)
               PROVE  SubSeq(cmd, 3, i + 2) = SubSeq(w, 1, i)
    OBVIOUS
  <2>1. SubSeq(cmd, Len(r) + 1, Len(r) + i) = SubSeq(w, 1, i)
    BY <1>0, <1>2, AfterFirst
  <2>2. 2 + 1 = 3 /\ 2 + i = i + 2
    BY <1>2
  <2> HIDE DEF cmd, w
  <2> QED
    BY Zenon, <1>1, <2>1, <2>2
<1>6. \A i \in 0 .. n : SubSeq(cmd, 3, i + 2) = SubSeq(b, 1, i)
  <2> SUFFICES ASSUME NEW i \in 0 .. n
               PROVE  SubSeq(cmd, 3, i + 2) = SubSeq(b, 1, i)
    OBVIOUS
  <2>1. i \in 0 .. Len(w) /\ i \in 0 .. Len(v)
    BY <1>0, <1>2
  <2>2. SubSeq(cmd, 3, i + 2) = SubSeq(w, 1, i)
    BY <1>5, <2>1
  <2>3. SubSeq(w, 1, i) = SubSeq(v, 1, i)
    BY <1>2, <2>1, FirstTokensOfBoth
  <2>4. SubSeq(v, 1, i) = SubSeq(b, 1, i)
    BY <1>0, FirstTokensOfBoth
  <2> QED
    BY Zenon, <2>2, <2>3, <2>4
<1>7. SubSeq(cmd, 3, (n + 1) + 2) = v
  <2>1. n + 1 \in 0 .. Len(w) /\ n + 1 \in 0 .. Len(v)
    BY <1>0, <1>2
  <2>2. SubSeq(cmd, 3, (n + 1) + 2) = SubSeq(w, 1, n + 1)
    BY <1>5, <2>1
  <2>3. SubSeq(w, 1, n + 1) = SubSeq(v, 1, n + 1)
    BY <1>2, <2>1, FirstTokensOfBoth
  <2>4. SubSeq(v, 1, n + 1) = v
    BY <1>2, SubSeqFull
  <2> QED
    BY Zenon, <2>2, <2>3, <2>4
<1> HIDE DEF cmd, w
<1>8. Depth(v) = -1
  <2>1. Depth(b) = 0 /\ Close # Open
    BY MarksDiffer DEF Texts
  <2> QED
    BY <1>0, <2>1, DepthLonger
<1>9. \A i \in 0 .. n : Depth(SubSeq(b, 1, i)) >= 0 /\ Depth(SubSeq(b, 1, i)) \in Int
  <2>1. \A i \in 0 .. n : Depth(SubSeq(b, 1, i)) >= 0
    BY DEF Texts
  <2>2. ASSUME NEW i \in 0 .. n
        PROVE  Depth(SubSeq(b, 1, i)) \in Int
    <3>1. SubSeq(b, 1, i) \in Seq(T)
      BY <1>0, FirstTokens
    <3> QED
      BY <3>1, DepthType
  <2> QED
    BY <2>1, <2>2
<1> HIDE DEF v
<1>10. n + 3 \in ends
  <2>1. n + 3 \in 3 .. Len(cmd) /\ (n + 1) + 2 = n + 3
    BY <1>0, <1>2, <1>3
  <2>2. Depth(SubSeq(cmd, 3, n + 3)) = -1
    BY Zenon, <1>7, <1>8, <2>1
  <2>3. 1 + -1 = 0
    OBVIOUS
  <2> QED
    BY Zenon, <2>1, <2>2, <2>3
<1>11. ASSUME NEW i \in ends
      PROVE  n + 3 <= i
  <2> SUFFICES ASSUME ~ (n + 3 <= i)
               PROVE  FALSE
    OBVIOUS
  <2>1. i \in 3 .. Len(cmd) /\ 1 + Depth(SubSeq(cmd, 3, i)) = 0
    OBVIOUS
  <2>2. i - 2 \in 0 .. n /\ (i - 2) + 2 = i
    BY <1>0, <1>2, <1>3, <2>1
  <2>3. SubSeq(cmd, 3, (i - 2) + 2) = SubSeq(b, 1, i - 2)
    BY <1>6, <2>2
  <2> DEFINE d == Depth(SubSeq(b, 1, i - 2))
  <2>4. d >= 0 /\ d \in Int
    BY <1>9, <2>2
  <2>5. 1 + d = 0
    BY Zenon, <2>1, <2>2, <2>3
  <2> HIDE DEF d
  <2> QED
    BY <2>4, <2>5
<1>12. Min(ends) = n + 3
  <2> HIDE DEF ends, n
  <2>1. Min(ends) \in ends /\ \A i \in ends : Min(ends) <= i
    BY <1>10, <1>11 DEF Min
  <2>2. \A i \in ends : i \in Int
    BY <1>3 DEF ends
  <2> QED
    BY <1>0, <1>10, <1>11, <2>1, <2>2
<1>13. SubSeq(cmd, 3, Min(ends) - 1) = b
  <2>1. Min(ends) - 1 = n + 2 /\ n \in 0 .. n
    BY <1>0, <1>12
  <2>2. SubSeq(cmd, 3, n + 2) = SubSeq(b, 1, n)
    BY <1>6, <2>1
  <2>3. SubSeq(b, 1, n) = b
    BY <1>0, SubSeqFull
  <2> QED
    BY Zenon, <2>1, <2>2, <2>3
<1>14. Trim(b) = b
  BY <1>0, TrimsNothing
<1>15. extractEssentialCommand(cmd) = Trim(SubSeq(cmd, 3, Min(ends) - 1))
  BY Zenon, <1>10 DEF extractEssentialCommand
<1>16. extractEssentialCommand(cmd) = b
  BY Zenon, <1>13, <1>14, <1>15
<1> QED
  BY Zenon, <1>4, <1>16 DEF r

-----------------------------------------------------------------------------
(* The values in a text *)

\* What the first texts are put together to.
AreFlat(T, n, seqs, f) ==
    /\ f \in [0 .. n -> Seq(T)]
    /\ f[0] = <<>>
    /\ \A i \in 1 .. n : f[i] = f[i - 1] \o seqs[i]

LEMMA FirstTextsFlat ==
    ASSUME NEW n \in Nat, NEW T, NEW seqs \in [1 .. n -> Seq(T)]
    PROVE  \E f : AreFlat(T, n, seqs, f)
<1> DEFINE Sums(m) == {f \in [0 .. m -> Seq(T)] :
                         /\ f[0] = <<>>
                         /\ \A i \in 1 .. m : f[i] = f[i - 1] \o seqs[i]}
           U == {m \in Nat : Sums(m) # {}}
<1>1. 0 \in U
  <2>1. [i \in 0 .. 0 |-> <<>>] \in Sums(0)
    OBVIOUS
  <2> HIDE DEF Sums
  <2> QED
    BY <2>1
<1>2. \A m \in 0 .. n - 1 : m \in U => m + 1 \in U
  <2> SUFFICES ASSUME NEW m \in 0 .. n - 1, m \in U
               PROVE  m + 1 \in U
    OBVIOUS
  <2>1. PICK f \in [0 .. m -> Seq(T)] : f[0] = <<>> /\ \A i \in 1 .. m : f[i] = f[i - 1] \o seqs[i]
    OBVIOUS
  <2> DEFINE x == f[m] \o seqs[m + 1]
             g == [i \in 0 .. m + 1 |-> IF i <= m THEN f[i] ELSE x]
  <2>2. m \in Nat /\ m \in 0 .. m /\ m + 1 \in 1 .. n
    OBVIOUS
  <2>3. x \in Seq(T)
    <3>1. f[m] \in Seq(T) /\ seqs[m + 1] \in Seq(T)
      BY <2>2
    <3> QED
      BY <3>1, BothTexts
  <2>4. g[m + 1] = f[m] \o seqs[m + 1] /\ g[m] = f[m]
    BY <2>2
  <2> HIDE DEF x
  <2>5. g \in [0 .. m + 1 -> Seq(T)]
    BY <2>3
  <2>6. g[0] = <<>>
    BY <2>1, <2>2
  <2>7. \A i \in 1 .. m : g[i] = f[i] /\ g[i - 1] = f[i - 1]
    BY <2>2
  <2> HIDE DEF g
  <2>8. ASSUME NEW i \in 1 .. m + 1
        PROVE  g[i] = g[i - 1] \o seqs[i]
    <3>1. CASE i \in 1 .. m
      BY <2>1, <2>7, <3>1
    <3>2. CASE i \notin 1 .. m
      <4>1. i = m + 1 /\ i - 1 = m
        BY <2>2, <3>2
      <4> QED
        BY Zenon, <2>4, <4>1
    <3> QED
      BY <3>1, <3>2
  <2>9. g \in Sums(m + 1)
    BY <2>5, <2>6, <2>8
  <2> HIDE DEF Sums
  <2> QED
    BY <2>2, <2>9
<1>3. \A m \in 0 .. n : m \in U
  <2> HIDE DEF U
  <2> QED
    BY <1>1, <1>2, Upwards
<1>4. Sums(n) # {}
  <2>1. n \in 0 .. n
    OBVIOUS
  <2> HIDE DEF Sums
  <2> QED
    BY <1>3, <2>1
<1>5. PICK f \in Sums(n) : TRUE
  BY <1>4
<1>6. AreFlat(T, n, seqs, f)
  BY <1>5 DEF AreFlat
<1> QED
  BY <1>6

LEMMA FlattenMore ==
    ASSUME NEW n \in Nat, NEW T, NEW more \in [1 .. n + 1 -> Seq(T)],
           NEW seqs \in [1 .. n -> Seq(T)], \A i \in 1 .. n : seqs[i] = more[i]
    PROVE  /\ FlattenSeq(seqs) \in Seq(T)
           /\ FlattenSeq(more) = FlattenSeq(seqs) \o more[n + 1]
<1>0. PICK f : AreFlat(T, n + 1, more, f)
  <2>1. n + 1 \in Nat
    OBVIOUS
  <2> QED
    BY <2>1, FirstTextsFlat
<1>1. /\ f \in [0 .. n + 1 -> Seq(T)] /\ f[0] = <<>>
      /\ \A i \in 1 .. n + 1 : f[i] = f[i - 1] \o more[i]
  BY <1>0 DEF AreFlat
<1> DEFINE steps == [i \in 0 .. n + 1 |-> {f[i]}]
<1>2. <<>> \in steps[0]
  BY <1>1
<1>3. ASSUME NEW i \in 1 .. n + 1, NEW s \in Seq(T), s \in steps[i - 1]
      PROVE  s \o more[i] \in steps[i]
  <2>1. i - 1 \in 0 .. n + 1 /\ i \in 0 .. n + 1
    OBVIOUS
  <2>2. s = f[i - 1]
    BY <1>3, <2>1
  <2>3. s \o more[i] = f[i]
    BY Zenon, <1>1, <2>2
  <2> QED
    BY <2>1, <2>3
<1>4. steps[n] = {f[n]} /\ steps[n + 1] = {f[n + 1]}
  OBVIOUS
<1> HIDE DEF steps
<1>5. FlattenSeq(more) \in steps[n + 1]
  <2>1. n + 1 \in Nat
    OBVIOUS
  <2>2. \A i \in 1 .. n + 1 : \A s \in Seq(T) : s \in steps[i - 1] => s \o more[i] \in steps[i]
    BY <1>3
  <2> QED
    BY <1>2, <2>1, <2>2, FlattenSteps
<1>6. FlattenSeq(seqs) \in Seq(T) /\ FlattenSeq(seqs) \in steps[n]
  <2>1. \A i \in 1 .. n : i \in 1 .. n + 1
    OBVIOUS
  <2>2. \A i \in 1 .. n : \A s \in Seq(T) : s \in steps[i - 1] => s \o seqs[i] \in steps[i]
    BY Zenon, <1>3, <2>1
  <2> QED
    BY <1>2, <2>2, FlattenSteps
<1>7. f[n + 1] = f[n] \o more[n + 1]
  <2>1. n + 1 \in 1 .. n + 1 /\ (n + 1) - 1 = n
    OBVIOUS
  <2> QED
    BY Zenon, <1>1, <2>1
<1>8. FlattenSeq(more) = f[n + 1] /\ FlattenSeq(seqs) = f[n]
  BY <1>4, <1>5, <1>6
<1> QED
  BY Zenon, <1>6, <1>7, <1>8

\* The tokens of a text that are in S, in their order.
Chosen(S, s) == FlattenSeq([i \in DOMAIN s |-> IF s[i] \in S THEN <<s[i]>> ELSE <<>>])

LEMMA ChosenOfNothing ==
    ASSUME NEW S
    PROVE  Chosen(S, <<>>) = <<>>
<1> DEFINE f == [i \in DOMAIN <<>> |-> IF <<>>[i] \in S THEN <<<<>>[i]>> ELSE <<>>]
<1>1. f = <<>>
  OBVIOUS
<1>2. FlattenSeq(<<>>) = <<>>
  BY DEF FlattenSeq
<1> QED
  BY Zenon, <1>1, <1>2 DEF Chosen

LEMMA ChosenLonger ==
    ASSUME NEW S, NEW T, NEW s \in Seq(T), NEW t \in T
    PROVE  /\ Chosen(S, s) \in Seq(T)
           /\ t \in S => Chosen(S, s \o <<t>>) = Chosen(S, s) \o <<t>>
           /\ t \notin S => Chosen(S, s \o <<t>>) = Chosen(S, s)
<1> DEFINE n == Len(s)
           u == s \o <<t>>
           piece(x) == IF x \in S THEN <<x>> ELSE <<>>
           seqs == [i \in DOMAIN s |-> piece(s[i])]
           more == [i \in DOMAIN u |-> piece(u[i])]
<1>1. /\ n \in Nat /\ DOMAIN s = 1 .. n
      /\ \A i \in 1 .. n : s[i] \in T
  OBVIOUS
<1>2. /\ u \in Seq(T) /\ Len(u) = n + 1
      /\ \A i \in 1 .. n : u[i] = s[i]
      /\ u[n + 1] = t
  BY Longer
<1>3. DOMAIN u = 1 .. n + 1
  BY <1>2
<1> HIDE DEF u, n
<1>4. \A i \in 1 .. n : i \in 1 .. n + 1
  BY <1>1
<1>5. n + 1 \in 1 .. n + 1
  BY <1>1
<1>6. \A x \in T : piece(x) \in Seq(T)
  OBVIOUS
<1>7. \A i \in 1 .. n + 1 : u[i] \in T
  BY <1>2, <1>3
<1>8. /\ \A i \in 1 .. n : seqs[i] = piece(s[i])
      /\ \A i \in 1 .. n + 1 : more[i] = piece(u[i])
  BY <1>1, <1>3
<1>9. seqs \in [1 .. n -> Seq(T)] /\ more \in [1 .. n + 1 -> Seq(T)]
  BY <1>1, <1>3, <1>6, <1>7
<1>10. Chosen(S, s) = FlattenSeq(seqs) /\ Chosen(S, u) = FlattenSeq(more)
  BY Zenon DEF Chosen
<1> HIDE DEF seqs, more, piece
<1>11. \A i \in 1 .. n : seqs[i] = more[i]
  BY Zenon, <1>2, <1>4, <1>8
<1>12. /\ FlattenSeq(seqs) \in Seq(T)
       /\ FlattenSeq(more) = FlattenSeq(seqs) \o more[n + 1]
  BY <1>1, <1>9, <1>11, FlattenMore
<1>13. more[n + 1] = piece(t)
  BY Zenon, <1>2, <1>5, <1>8
<1>14. t \in S => Chosen(S, u) = Chosen(S, s) \o <<t>>
  BY Zenon, <1>10, <1>12, <1>13 DEF piece
<1>15. t \notin S => Chosen(S, u) = Chosen(S, s)
  <2>1. FlattenSeq(seqs) \o <<>> = FlattenSeq(seqs)
    BY <1>12, ConcatEmptySeq
  <2> QED
    BY Zenon, <1>10, <1>12, <1>13, <2>1 DEF piece
<1> QED
  BY Zenon, <1>10, <1>12, <1>14, <1>15 DEF u

\* The chosen tokens of a text are those of its two parts.
AreOfBoth(S, s, t) == Chosen(S, s \o t) = Chosen(S, s) \o Chosen(S, t)

LEMMA ChosenOfBoth ==
    ASSUME NEW S, NEW T, NEW s \in Seq(T), NEW t \in Seq(T)
    PROVE  Chosen(S, s) \in Seq(T) /\ AreOfBoth(S, s, t)
<1>0. \A u \in Seq(T) : Chosen(S, u) \in Seq(T)
  <2> SUFFICES ASSUME NEW u \in Seq(T)
               PROVE  Chosen(S, u) \in Seq(T)
    OBVIOUS
  <2>1. CASE u = <<>>
    BY <2>1, ChosenOfNothing
  <2>2. CASE u # <<>>
    <3>1. Last(u) \in T
      BY <2>2, EndsOfBoth
    <3> QED
      BY <3>1, ChosenLonger
  <2> QED
    BY <2>1, <2>2
<1> DEFINE U == {n \in 0 .. Len(t) : Chosen(S, s \o SubSeq(t, 1, n))
                                       = Chosen(S, s) \o Chosen(S, SubSeq(t, 1, n))}
<1>1. Len(t) \in Nat
  OBVIOUS
<1>2. 0 \in U
  <2>1. SubSeq(t, 1, 0) = <<>> /\ s \o <<>> = s
    BY SubSeqEmpty
  <2>2. Chosen(S, s) \o <<>> = Chosen(S, s)
    BY <1>0, ConcatEmptySeq
  <2>3. 0 \in 0 .. Len(t)
    BY <1>1
  <2> QED
    BY Zenon, <2>1, <2>2, <2>3, ChosenOfNothing
<1>3. \A n \in 0 .. Len(t) - 1 : n \in U => n + 1 \in U
  <2> SUFFICES ASSUME NEW n \in 0 .. Len(t) - 1, n \in U
               PROVE  n + 1 \in U
    OBVIOUS
  <2> DEFINE v == SubSeq(t, 1, n)
             w == SubSeq(t, 1, n + 1)
             x == t[n + 1]
             a == Chosen(S, s)
             b == Chosen(S, v)
  <2>1. w = v \o <<x>> /\ x \in T
    BY FirstTokensGrow
  <2>2. v \in Seq(T) /\ n + 1 \in 0 .. Len(t)
    BY <1>1, FirstTokens
  <2>3. Chosen(S, s \o v) = a \o b
    OBVIOUS
  <2> HIDE DEF v, w, x
  <2>4. s \o w = (s \o v) \o <<x>> /\ s \o v \in Seq(T)
    <3>1. s \o (v \o <<x>>) = (s \o v) \o <<x>>
      <4>1. JoinsOne(s, v, x)
        BY <2>1, <2>2, OneMoreOfBoth
      <4> QED
        BY Zenon, <4>1 DEF JoinsOne
    <3>2. s \o v \in Seq(T)
      BY <2>2, BothTexts
    <3> QED
      BY Zenon, <2>1, <3>1, <3>2
  <2>5. a \in Seq(T) /\ b \in Seq(T)
    BY <1>0, <2>2
  <2>6. /\ x \in S => Chosen(S, (s \o v) \o <<x>>) = Chosen(S, s \o v) \o <<x>>
        /\ x \notin S => Chosen(S, (s \o v) \o <<x>>) = Chosen(S, s \o v)
    <3> DEFINE y == s \o v
    <3>1. x \in T /\ y \in Seq(T)
      BY <2>1, <2>4
    <3> HIDE DEF y
    <3>2. /\ x \in S => Chosen(S, y \o <<x>>) = Chosen(S, y) \o <<x>>
          /\ x \notin S => Chosen(S, y \o <<x>>) = Chosen(S, y)
      BY <3>1, ChosenLonger
    <3> QED
      BY Zenon, <3>2 DEF y
  <2>7. /\ x \in S => Chosen(S, v \o <<x>>) = b \o <<x>>
        /\ x \notin S => Chosen(S, v \o <<x>>) = b
    <3>1. /\ x \in S => Chosen(S, v \o <<x>>) = Chosen(S, v) \o <<x>>
          /\ x \notin S => Chosen(S, v \o <<x>>) = Chosen(S, v)
      <4>1. x \in T /\ v \in Seq(T)
        BY <2>1, <2>2
      <4> HIDE DEF U, a, b
      <4> QED
        BY <4>1, ChosenLonger
    <3> QED
      BY Zenon, <3>1
  <2> HIDE DEF a, b
  <2>8. a \o (b \o <<x>>) = (a \o b) \o <<x>>
    <3>1. JoinsOne(a, b, x)
      BY <2>1, <2>5, OneMoreOfBoth
    <3> QED
      BY Zenon, <3>1 DEF JoinsOne
  <2>9. Chosen(S, s \o w) = a \o Chosen(S, w)
    BY Zenon, <2>1, <2>3, <2>4, <2>6, <2>7, <2>8
  <2> QED
    BY Zenon, <2>2, <2>9 DEF a, w
<1>4. Len(t) \in U
  <2>1. \A n \in 0 .. Len(t) : n \in U
    <3> HIDE DEF U
    <3> QED
      BY <1>1, <1>2, <1>3, Upwards
  <2> QED
    BY <1>1, <2>1
<1>5. SubSeq(t, 1, Len(t)) = t
  BY SubSeqFull
<1>6. AreOfBoth(S, s, t)
  BY Zenon, <1>4, <1>5 DEF AreOfBoth
<1> QED
  BY <1>0, <1>6

-----------------------------------------------------------------------------
(* The words whose parentheses are open *)

\* The parentheses that are opened in a text, after its first token, and still open at the
\* i-th.
OpenAt(s, i) ==
    {j \in 2 .. i : s[j] = Open /\ \A k \in j + 1 .. i : Depth(SubSeq(s, j + 1, k)) >= 0}

\* The words in front of them.
EnclosingIn(s, i) ==
    [n \in 1 .. Cardinality(OpenAt(s, i)) |-> s[Nth(OpenAt(s, i), n) - 1]]

\* How many more parentheses are open at the i-th token than at the j-th.
Since(s, j, i) == Depth(SubSeq(s, j + 1, i))

LEMMA SinceStep ==
    ASSUME NEW T, NEW s \in Seq(T), NEW j \in 0 .. Len(s)
    PROVE  /\ Since(s, j, j) = 0
           /\ \A i \in j .. Len(s) : Since(s, j, i) \in Int
           /\ \A i \in j .. Len(s) - 1 :
                 /\ s[i + 1] = Open => Since(s, j, i + 1) = Since(s, j, i) + 1
                 /\ s[i + 1] = Close => Since(s, j, i + 1) = Since(s, j, i) - 1
                 /\ s[i + 1] \notin {Open, Close} => Since(s, j, i + 1) = Since(s, j, i)
<1>0. Len(s) \in Nat /\ j \in Nat /\ j \in Int /\ j + 1 \in Int /\ j < j + 1
  OBVIOUS
<1>1. Since(s, j, j) = 0
  <2>1. SubSeq(s, j + 1, j) = <<>>
    BY <1>0, SubSeqEmpty
  <2> QED
    BY Zenon, <2>1, DepthOfNothing DEF Since
<1>2. ASSUME NEW i \in j .. Len(s)
      PROVE  SubSeq(s, j + 1, i) \in Seq(T)
  <2>1. i \in Int /\ \A k \in j + 1 .. i : s[k] \in T
    BY <1>0
  <2> QED
    BY <1>0, <2>1, SubSeqProperties
<1>3. \A i \in j .. Len(s) : Since(s, j, i) \in Int
  BY <1>2, DepthType DEF Since
<1>4. ASSUME NEW i \in j .. Len(s) - 1
      PROVE  /\ s[i + 1] = Open => Since(s, j, i + 1) = Since(s, j, i) + 1
             /\ s[i + 1] = Close => Since(s, j, i + 1) = Since(s, j, i) - 1
             /\ s[i + 1] \notin {Open, Close} => Since(s, j, i + 1) = Since(s, j, i)
  <2>1. /\ j + 1 \in 1 .. Len(s) /\ i + 1 \in j + 1 .. Len(s) /\ (i + 1) - 1 = i
        /\ i \in j .. Len(s) /\ s[i + 1] \in T
    BY <1>0
  <2>2. SubSeq(s, j + 1, i + 1) = SubSeq(s, j + 1, (i + 1) - 1) \o <<s[i + 1]>>
    BY <2>1, SubSeqRecursiveSecond
  <2>3. SubSeq(s, j + 1, i + 1) = SubSeq(s, j + 1, i) \o <<s[i + 1]>>
    BY Zenon, <2>1, <2>2
  <2> DEFINE v == SubSeq(s, j + 1, i)
             t == s[i + 1]
  <2>4. v \in Seq(T) /\ t \in T
    BY <1>2, <2>1
  <2> HIDE DEF v, t
  <2>5. /\ t = Open => Depth(v \o <<t>>) = Depth(v) + 1
        /\ t = Close => Depth(v \o <<t>>) = Depth(v) - 1
        /\ t \notin {Open, Close} => Depth(v \o <<t>>) = Depth(v)
    BY <2>4, DepthLonger
  <2> QED
    BY Zenon, <2>3, <2>5 DEF v, t, Since
<1> QED
  BY <1>1, <1>3, <1>4

\* The next token opens a parenthesis, or closes some.
LEMMA OpenAtNext ==
    ASSUME NEW T, NEW s \in Seq(T), NEW i \in 0 .. Len(s) - 1
    PROVE  /\ \A j \in OpenAt(s, i) : Since(s, j, i) >= 0 /\ j \in 2 .. i
           /\ OpenAt(s, i + 1) = {j \in OpenAt(s, i) : Since(s, j, i + 1) >= 0}
                                   \cup {j \in {i + 1} : s[j] = Open /\ i # 0}
<1>0. Len(s) \in Nat /\ i \in Nat
  OBVIOUS
<1>1. \A k : OpenAt(s, k) = {j \in 2 .. k : s[j] = Open /\ \A l \in j + 1 .. k : Since(s, j, l) >= 0}
  BY DEF OpenAt, Since
<1>2. ASSUME NEW j \in OpenAt(s, i)
      PROVE  Since(s, j, i) >= 0 /\ j \in 2 .. i
  <2>1. j \in 2 .. i /\ \A l \in j + 1 .. i : Since(s, j, l) >= 0
    BY <1>1
  <2>2. CASE j = i
    <3>1. Since(s, j, i) = 0
      BY <1>0, <2>1, <2>2, SinceStep
    <3> QED
      BY <2>1, <3>1
  <2>3. CASE j # i
    <3>1. i \in j + 1 .. i
      BY <1>0, <2>1, <2>3
    <3> QED
      BY <2>1, <3>1
  <2> QED
    BY <2>2, <2>3
<1>3. ASSUME NEW j \in OpenAt(s, i + 1)
      PROVE  j \in {k \in OpenAt(s, i) : Since(s, k, i + 1) >= 0} \/ (j = i + 1 /\ s[j] = Open /\ i # 0)
  <2>1. j \in 2 .. i + 1 /\ s[j] = Open /\ \A l \in j + 1 .. i + 1 : Since(s, j, l) >= 0
    BY <1>1
  <2>2. CASE j = i + 1
    BY <1>0, <2>1, <2>2
  <2>3. CASE j # i + 1
    <3>1. j \in 2 .. i /\ i + 1 \in j + 1 .. i + 1 /\ \A l \in j + 1 .. i : l \in j + 1 .. i + 1
      BY <1>0, <2>1, <2>3
    <3>2. j \in OpenAt(s, i)
      BY <1>1, <2>1, <3>1
    <3> QED
      BY <2>1, <3>1, <3>2
  <2> QED
    BY <2>2, <2>3
<1>4. ASSUME NEW j \in OpenAt(s, i), Since(s, j, i + 1) >= 0
      PROVE  j \in OpenAt(s, i + 1)
  <2>1. j \in 2 .. i /\ s[j] = Open /\ \A l \in j + 1 .. i : Since(s, j, l) >= 0
    BY <1>1
  <2>2. j \in 2 .. i + 1 /\ \A l \in j + 1 .. i + 1 : l \in j + 1 .. i \/ l = i + 1
    BY <1>0, <2>1
  <2> QED
    BY <1>1, <1>4, <2>1, <2>2
<1>5. ASSUME s[i + 1] = Open, i # 0
      PROVE  i + 1 \in OpenAt(s, i + 1)
  <2>1. i + 1 \in 2 .. i + 1 /\ \A l : ~ (l \in (i + 1) + 1 .. i + 1)
    BY <1>0, <1>5
  <2> QED
    BY <1>1, <1>5, <2>1
<1> QED
  BY <1>2, <1>3, <1>4, <1>5

\* How the words x, whose parentheses are open, change with the i-th token t after the
\* token r: to the words y.
IsNext(T, i, r, t, x, y) ==
    /\ t = Open => i # 1 /\ y = x \o <<r>>
    /\ t = Close => \E w \in T : x = y \o <<w>>
    /\ t \notin {Open, Close} => y = x

\* The words whose parentheses are open along a text: f[i] after its i-th token.
IsNesting(T, s, f) ==
    /\ f \in [0 .. Len(s) -> Seq(T)]
    /\ \A i \in 1 .. Len(s) : IsNext(T, i, s[i - 1], s[i], f[i - 1], f[i])

\* The words of w are those in front of the parentheses g, the only ones open at the i-th
\* token.
IsCounted(s, i, w, g) ==
    /\ IsOrder(Len(s), OpenAt(s, i), Len(w), g)
    /\ \A x \in 1 .. Len(w) : w[x] = s[g[x] - 1] /\ Since(s, g[x], i) = Len(w) - x

LEMMA CountedWords ==
    ASSUME NEW T, NEW s \in Seq(T), NEW i \in 0 .. Len(s), NEW w \in Seq(T), NEW g,
           IsCounted(s, i, w, g)
    PROVE  EnclosingIn(s, i) = w
<1> DEFINE m == Len(w)
           S == OpenAt(s, i)
<1>0. /\ m \in Nat /\ Len(s) \in Nat
      /\ IsOrder(Len(s), S, m, g)
      /\ \A x \in 1 .. m : w[x] = s[g[x] - 1]
  BY DEF IsCounted
<1> HIDE DEF m, S
<1>1. Cardinality(S) = m /\ \A x \in 1 .. m : Nth(S, x) = g[x]
  BY <1>0, NthOfOrder
<1>2. EnclosingIn(s, i) = [n \in 1 .. Cardinality(S) |-> s[Nth(S, n) - 1]]
  BY Zenon DEF EnclosingIn, S
<1> DEFINE u == [n \in 1 .. m |-> s[Nth(S, n) - 1]]
<1>3. EnclosingIn(s, i) = u
  BY Zenon, <1>1, <1>2
<1>4. \A x \in 1 .. m : u[x] = w[x]
  BY <1>0, <1>1
<1>5. DOMAIN u = 1 .. m
  OBVIOUS
<1>6. w = [n \in 1 .. m |-> w[n]] /\ u = [n \in 1 .. m |-> u[n]]
  <2>1. w = [n \in 1 .. m |-> w[n]]
    BY DEF m
  <2> QED
    BY <2>1
<1> HIDE DEF u
<1>7. u = w
  BY <1>4, <1>6
<1> QED
  BY Zenon, <1>3, <1>7

LEMMA CountedNext ==
    ASSUME NEW T, NEW s \in Seq(T), NEW f, IsNesting(T, s, f), NEW i \in 0 .. Len(s) - 1,
           NEW g, IsCounted(s, i, f[i], g)
    PROVE  \E h : IsCounted(s, i + 1, f[i + 1], h)
<1> DEFINE w == f[i]
           v == f[i + 1]
           m == Len(w)
           t == s[i + 1]
<1>0. Len(s) \in Nat /\ i \in Nat /\ i + 1 \in 1 .. Len(s) /\ (i + 1) - 1 = i /\ i \in 0 .. Len(s)
      /\ i + 1 \in 0 .. Len(s)
  OBVIOUS
<1>1. /\ w \in Seq(T) /\ v \in Seq(T)
      /\ t = Open => i + 1 # 1 /\ v = w \o <<s[i]>>
      /\ t = Close => \E x \in T : w = v \o <<x>>
      /\ t \notin {Open, Close} => v = w
  <2>1. /\ f[i] \in Seq(T) /\ f[i + 1] \in Seq(T)
        /\ s[i + 1] = Open => i + 1 # 1 /\ f[i + 1] = f[(i + 1) - 1] \o <<s[(i + 1) - 1]>>
        /\ s[i + 1] = Close => \E x \in T : f[(i + 1) - 1] = f[i + 1] \o <<x>>
        /\ s[i + 1] \notin {Open, Close} => f[i + 1] = f[(i + 1) - 1]
    BY <1>0 DEF IsNesting, IsNext
  <2> QED
    BY Zenon, <1>0, <2>1
<1>2. /\ g \in [1 .. m -> 1 .. Len(s)]
      /\ \A x, y \in 1 .. m : x < y => g[x] < g[y]
      /\ OpenAt(s, i) = {g[x] : x \in 1 .. m}
      /\ \A x \in 1 .. m : w[x] = s[g[x] - 1] /\ Since(s, g[x], i) = m - x
  BY DEF IsCounted, IsOrder
<1>3. m \in Nat
  BY <1>1
<1>4. \A x \in 1 .. m : g[x] \in 2 .. i
  <2>1. \A j \in OpenAt(s, i) : j \in 2 .. i
    BY OpenAtNext
  <2> HIDE DEF m, w
  <2> QED
    BY <1>2, <2>1
<1>5. \A x \in 1 .. m : /\ t = Open => Since(s, g[x], i + 1) = m - x + 1
                        /\ t = Close => Since(s, g[x], i + 1) = m - x - 1
                        /\ t \notin {Open, Close} => Since(s, g[x], i + 1) = m - x
  <2> HIDE DEF m, w
  <2> SUFFICES ASSUME NEW x \in 1 .. m
               PROVE  /\ t = Open => Since(s, g[x], i + 1) = m - x + 1
                      /\ t = Close => Since(s, g[x], i + 1) = m - x - 1
                      /\ t \notin {Open, Close} => Since(s, g[x], i + 1) = m - x
    OBVIOUS
  <2> DEFINE j == g[x]
  <2>1. j \in 0 .. Len(s) /\ i \in j .. Len(s) - 1 /\ Since(s, j, i) = m - x
    BY <1>0, <1>2, <1>4
  <2> HIDE DEF j
  <2>2. /\ t = Open => Since(s, j, i + 1) = Since(s, j, i) + 1
        /\ t = Close => Since(s, j, i + 1) = Since(s, j, i) - 1
        /\ t \notin {Open, Close} => Since(s, j, i + 1) = Since(s, j, i)
    BY <2>1, SinceStep
  <2> QED
    BY <2>1, <2>2 DEF j
<1>6. OpenAt(s, i + 1) = {j \in OpenAt(s, i) : Since(s, j, i + 1) >= 0}
                           \cup {j \in {i + 1} : t = Open /\ i # 0}
  <2>1. OpenAt(s, i + 1) = {j \in OpenAt(s, i) : Since(s, j, i + 1) >= 0}
                             \cup {j \in {i + 1} : s[j] = Open /\ i # 0}
    BY OpenAtNext
  <2> QED
    BY Zenon, <2>1
<1> HIDE DEF w, v, t
<1>7. CASE t = Open
  <2> DEFINE h == [x \in 1 .. m + 1 |-> IF x = m + 1 THEN i + 1 ELSE g[x]]
  <2>1. /\ v = w \o <<s[i]>> /\ i # 0 /\ s[i] \in T
    BY <1>0, <1>1, <1>7
  <2>2. /\ Len(v) = m + 1 /\ \A x \in 1 .. m : v[x] = w[x]
        /\ v[m + 1] = s[i]
    BY <1>1, <2>1, Longer
  <2> HIDE DEF m
  <2>3. h \in [1 .. m + 1 -> 1 .. Len(s)]
    <3>1. \A x \in 1 .. m + 1 : x # m + 1 => x \in 1 .. m
      BY <1>3
    <3> QED
      BY <1>0, <1>2, <3>1
  <2>4. h[m + 1] = i + 1 /\ \A x \in 1 .. m : h[x] = g[x]
    BY <1>3
  <2>5. \A x, y \in 1 .. m + 1 : x < y => h[x] < h[y]
    <3> SUFFICES ASSUME NEW x \in 1 .. m + 1, NEW y \in 1 .. m + 1, x < y
                 PROVE  h[x] < h[y]
      OBVIOUS
    <3>1. x \in 1 .. m /\ (y \in 1 .. m \/ y = m + 1)
      BY <1>3
    <3> QED
      BY <1>0, <1>2, <1>4, <2>4, <3>1
  <2>6. OpenAt(s, i + 1) = {h[x] : x \in 1 .. m + 1}
    <3>1. \A x \in 1 .. m : Since(s, g[x], i + 1) >= 0
      BY <1>3, <1>5, <1>7
    <3>2. OpenAt(s, i + 1) = {g[x] : x \in 1 .. m} \cup {i + 1}
      BY <1>2, <1>6, <1>7, <2>1, <3>1
    <3>3. 1 .. m + 1 = (1 .. m) \cup {m + 1}
      BY <1>3
    <3> HIDE DEF h
    <3> QED
      BY <2>4, <3>2, <3>3
  <2>7. \A x \in 1 .. m + 1 : v[x] = s[h[x] - 1] /\ Since(s, h[x], i + 1) = (m + 1) - x
    <3> SUFFICES ASSUME NEW x \in 1 .. m + 1
                 PROVE  v[x] = s[h[x] - 1] /\ Since(s, h[x], i + 1) = (m + 1) - x
      OBVIOUS
    <3>1. CASE x = m + 1
      <4>1. Since(s, i + 1, i + 1) = 0
        BY <1>0, SinceStep
      <4> QED
        BY <1>0, <1>3, <2>2, <2>4, <3>1, <4>1
    <3>2. CASE x # m + 1
      <4>1. x \in 1 .. m
        BY <1>3, <3>2
      <4>2. v[x] = w[x] /\ h[x] = g[x]
        BY Zenon, <2>2, <2>4, <4>1
      <4>3. w[x] = s[g[x] - 1]
        BY <1>2, <4>1
      <4>4. Since(s, g[x], i + 1) = m - x + 1 /\ m - x + 1 = (m + 1) - x
        BY <1>3, <1>5, <1>7, <4>1
      <4> QED
        BY Zenon, <4>2, <4>3, <4>4
    <3> QED
      BY <3>1, <3>2
  <2> HIDE DEF h
  <2>8. IsCounted(s, i + 1, v, h)
    BY <2>2, <2>3, <2>5, <2>6, <2>7 DEF IsCounted, IsOrder
  <2> QED
    BY <2>8 DEF v
<1>8. CASE t = Close
  <2>1. PICK x \in T : w = v \o <<x>>
    BY <1>1, <1>8
  <2>2. m = Len(v) + 1 /\ \A y \in 1 .. Len(v) : w[y] = v[y]
    BY <1>1, <2>1, Longer
  <2> DEFINE n == Len(v)
             h == [y \in 1 .. n |-> g[y]]
  <2>3. n \in Nat /\ m = n + 1 /\ \A y \in 1 .. n : y \in 1 .. m
    BY <1>1, <2>2
  <2> HIDE DEF n, m
  <2>4. h \in [1 .. n -> 1 .. Len(s)] /\ \A y \in 1 .. n : h[y] = g[y]
    BY <1>2, <2>3
  <2> HIDE DEF h
  <2>5. \A y, z \in 1 .. n : y < z => h[y] < h[z]
    BY <1>2, <2>3, <2>4
  <2>6. OpenAt(s, i + 1) = {h[y] : y \in 1 .. n}
    <3>1. \A y \in 1 .. m : Since(s, g[y], i + 1) >= 0 <=> y \in 1 .. n
      BY <1>5, <1>8, <2>3
    <3>2. OpenAt(s, i + 1) = {j \in OpenAt(s, i) : Since(s, j, i + 1) >= 0}
      <4>1. t # Open
        BY <1>8, MarksDiffer
      <4> QED
        BY <1>6, <4>1
    <3>3. OpenAt(s, i + 1) = {g[y] : y \in 1 .. n}
      BY <1>2, <2>3, <3>1, <3>2
    <3> QED
      BY <2>4, <3>3
  <2>7. \A y \in 1 .. n : v[y] = s[h[y] - 1] /\ Since(s, h[y], i + 1) = n - y
    <3> SUFFICES ASSUME NEW y \in 1 .. n
                 PROVE  v[y] = s[h[y] - 1] /\ Since(s, h[y], i + 1) = n - y
      OBVIOUS
    <3>1. v[y] = w[y] /\ y \in 1 .. m /\ h[y] = g[y]
      BY <2>2, <2>3, <2>4 DEF n
    <3>2. Since(s, g[y], i + 1) = m - y - 1
      BY <1>5, <1>8, <3>1
    <3>3. m - y - 1 = n - y
      BY <2>3
    <3> QED
      BY <1>2, <3>1, <3>2, <3>3
  <2>8. IsCounted(s, i + 1, v, h)
    BY <2>4, <2>5, <2>6, <2>7 DEF IsCounted, IsOrder, n
  <2> QED
    BY <2>8 DEF v
<1>9. CASE t \notin {Open, Close}
  <2>1. v = w
    BY <1>1, <1>9
  <2> HIDE DEF m
  <2>2. OpenAt(s, i + 1) = {g[x] : x \in 1 .. m}
    <3>1. \A x \in 1 .. m : Since(s, g[x], i + 1) >= 0
      BY <1>3, <1>5, <1>9
    <3> QED
      BY <1>2, <1>6, <1>9, <3>1
  <2>3. \A x \in 1 .. m : w[x] = s[g[x] - 1] /\ Since(s, g[x], i + 1) = m - x
    BY <1>2, <1>5, <1>9
  <2>4. IsCounted(s, i + 1, w, g)
    BY <1>2, <2>2, <2>3 DEF IsCounted, IsOrder, m
  <2> QED
    BY <2>1, <2>4 DEF v
<1> QED
  BY <1>7, <1>8, <1>9

\* The words whose parentheses are open are those of the nesting.
LEMMA EnclosingWords ==
    ASSUME NEW T, NEW s \in Seq(T), NEW f, IsNesting(T, s, f), f[0] = <<>>
    PROVE  \A i \in 1 .. Len(s) : EnclosingIn(s, i) = f[i]
<1> DEFINE U == {i \in 0 .. Len(s) : \E g : IsCounted(s, i, f[i], g)}
<1>0. Len(s) \in Nat
  OBVIOUS
<1>1. 0 \in U
  <2> DEFINE g == [x \in 1 .. 0 |-> x]
  <2>1. g \in [1 .. 0 -> 1 .. Len(s)] /\ \A x : ~ (x \in 1 .. 0)
    OBVIOUS
  <2> HIDE DEF g
  <2>2. OpenAt(s, 0) = {}
    <3>1. \A j : ~ (j \in 2 .. 0)
      OBVIOUS
    <3> QED
      BY <3>1 DEF OpenAt
  <2>3. Len(f[0]) = 0
    OBVIOUS
  <2>4. IsCounted(s, 0, f[0], g)
    BY <2>1, <2>2, <2>3 DEF IsCounted, IsOrder
  <2> QED
    BY <1>0, <2>4
<1>2. \A i \in 0 .. Len(s) - 1 : i \in U => i + 1 \in U
  <2> SUFFICES ASSUME NEW i \in 0 .. Len(s) - 1, i \in U
               PROVE  i + 1 \in U
    OBVIOUS
  <2>1. \E g : IsCounted(s, i, f[i], g)
    OBVIOUS
  <2>2. \E h : IsCounted(s, i + 1, f[i + 1], h)
    BY <2>1, CountedNext
  <2> QED
    BY <1>0, <2>2
<1>3. \A i \in 0 .. Len(s) : i \in U
  <2> HIDE DEF U
  <2> QED
    BY <1>0, <1>1, <1>2, Upwards
<1>4. ASSUME NEW i \in 1 .. Len(s)
      PROVE  EnclosingIn(s, i) = f[i]
  <2>1. i \in 0 .. Len(s) /\ f[i] \in Seq(T)
    BY DEF IsNesting
  <2>2. PICK g : IsCounted(s, i, f[i], g)
    BY <1>3, <2>1
  <2> QED
    BY <2>1, <2>2, CountedWords
<1> QED
  BY <1>4

-----------------------------------------------------------------------------
(* What a text says, and in which parentheses *)

\* The text s leads from the words a, whose parentheses are open before it, to the words b.
\* Its tokens of S stand in the parentheses of the words of place.
Nests(T, S, place, a, b, s, f) ==
    /\ IsNesting(T, s, f)
    /\ f[0] = a /\ f[Len(s)] = b
    /\ \A i \in 1 .. Len(s) : s[i] \in S => f[i] = place

\* The tokens of S in such a text are those of v.
Says(T, S, place, a, b, v) ==
    {s \in Seq(T) : Chosen(S, s) = v /\ \E f : Nests(T, S, place, a, b, s, f)}

LEMMA SaysNothing ==
    ASSUME NEW T, NEW S, NEW place, NEW a \in Seq(T)
    PROVE  <<>> \in Says(T, S, place, a, a, <<>>)
<1> DEFINE f == [i \in 0 .. 0 |-> a]
           none == <<>>
<1>1. none \in Seq(T) /\ Len(none) = 0 /\ f \in [0 .. 0 -> Seq(T)] /\ f[0] = a
      /\ \A i : ~ (i \in 1 .. 0)
  OBVIOUS
<1>2. Chosen(S, none) = <<>>
  BY ChosenOfNothing
<1> HIDE DEF f, none
<1>3. Nests(T, S, place, a, a, none, f)
  BY <1>1 DEF Nests, IsNesting
<1>4. none \in Says(T, S, place, a, a, <<>>)
  BY <1>1, <1>2, <1>3 DEF Says
<1> QED
  BY <1>4 DEF none

\* What a token changes does not depend on the place of the text.
LEMMA NextAgain ==
    ASSUME NEW T, NEW i, NEW r, NEW t, NEW x, NEW y, IsNext(T, i, r, t, x, y),
           NEW j, NEW q, i # 1 => j # 1 /\ q = r
    PROVE  IsNext(T, j, q, t, x, y)
BY Zenon DEF IsNext

\* One token more.
LEMMA NestsLonger ==
    ASSUME NEW T, NEW S, NEW place, NEW a, NEW b, NEW s \in Seq(T), NEW f,
           Nests(T, S, place, a, b, s, f), NEW t \in T, NEW c \in Seq(T),
           t \in S => c = place,
           t = Open => s # <<>> /\ c = b \o <<Last(s)>>,
           t = Close => \E w \in T : b = c \o <<w>>,
           t \notin {Open, Close} => c = b
    PROVE  \E g : Nests(T, S, place, a, c, s \o <<t>>, g)
<1> DEFINE n == Len(s)
           u == s \o <<t>>
           g == [i \in 0 .. n + 1 |-> IF i = n + 1 THEN c ELSE f[i]]
<1>0. n \in Nat
  OBVIOUS
<1>1. /\ f \in [0 .. n -> Seq(T)] /\ f[0] = a /\ f[n] = b
      /\ \A i \in 1 .. n : /\ IsNext(T, i, s[i - 1], s[i], f[i - 1], f[i])
                           /\ s[i] \in S => f[i] = place
  BY DEF Nests, IsNesting
<1>2. u \in Seq(T) /\ Len(u) = n + 1 /\ (\A i \in 1 .. n : u[i] = s[i]) /\ u[n + 1] = t
  BY Longer
<1> HIDE DEF u
<1>3. g \in [0 .. n + 1 -> Seq(T)]
  <2>1. \A i \in 0 .. n + 1 : i # n + 1 => i \in 0 .. n
    BY <1>0
  <2> HIDE DEF n
  <2> QED
    BY <1>1, <2>1
<1>4. g[n + 1] = c /\ (\A i \in 0 .. n : g[i] = f[i])
  BY <1>0
<1> HIDE DEF g
<1>5. ASSUME NEW i \in 1 .. n + 1
      PROVE  /\ IsNext(T, i, u[i - 1], u[i], g[i - 1], g[i])
             /\ u[i] \in S => g[i] = place
  <2>1. CASE i \in 1 .. n
    <3>1. i \in 0 .. n /\ i - 1 \in 0 .. n /\ (i # 1 => i - 1 \in 1 .. n)
      BY <1>0, <2>1
    <3>2. u[i] = s[i] /\ g[i] = f[i] /\ g[i - 1] = f[i - 1] /\ (i # 1 => u[i - 1] = s[i - 1])
      BY <1>2, <1>4, <2>1, <3>1
    <3>3. IsNext(T, i, s[i - 1], u[i], g[i - 1], g[i])
      BY Zenon, <1>1, <2>1, <3>2
    <3>4. IsNext(T, i, u[i - 1], u[i], g[i - 1], g[i])
      BY <3>2, <3>3, NextAgain
    <3> QED
      BY Zenon, <1>1, <2>1, <3>2, <3>4
  <2>2. CASE i \notin 1 .. n
    <3>1. i = n + 1 /\ i - 1 = n /\ n \in 0 .. n
      BY <1>0, <2>2
    <3>2. u[i] = t /\ g[i] = c /\ g[i - 1] = b
      BY Zenon, <1>1, <1>2, <1>4, <3>1
    <3>3. s # <<>> => i # 1 /\ u[i - 1] = Last(s)
      <4>1. s # <<>> => n # 0
        BY EmptySeq
      <4>2. n # 0 => n \in 1 .. n
        BY <1>0
      <4> QED
        BY <1>2, <3>1, <4>1, <4>2 DEF Last
    <3> QED
      BY Zenon, <3>2, <3>3 DEF IsNext
  <2> QED
    BY <2>1, <2>2
<1>6. g[0] = a
  <2>1. 0 \in 0 .. n
    BY <1>0
  <2> QED
    BY <1>1, <1>4, <2>1
<1> HIDE DEF n
<1>7. Nests(T, S, place, a, c, u, g)
  BY Zenon, <1>2, <1>3, <1>4, <1>5, <1>6 DEF Nests, IsNesting
<1> QED
  BY <1>7 DEF u

LEMMA SaysLonger ==
    ASSUME NEW T, NEW S, NEW place, NEW a, NEW b, NEW v, NEW s, s \in Says(T, S, place, a, b, v),
           NEW t \in T
    PROVE  /\ t \notin S /\ t \notin {Open, Close} => s \o <<t>> \in Says(T, S, place, a, b, v)
           /\ t \in S /\ t \notin {Open, Close} /\ b = place =>
                 s \o <<t>> \in Says(T, S, place, a, b, v \o <<t>>)
           /\ t \notin S /\ t = Open /\ s # <<>> =>
                 s \o <<t>> \in Says(T, S, place, a, b \o <<Last(s)>>, v)
           /\ \A c \in Seq(T) : \A w \in T : t \notin S /\ t = Close /\ b = c \o <<w>> =>
                 s \o <<t>> \in Says(T, S, place, a, c, v)
<1> DEFINE u == s \o <<t>>
<1>0. s \in Seq(T) /\ Chosen(S, s) = v /\ \E f : Nests(T, S, place, a, b, s, f)
  BY DEF Says
<1>1. u \in Seq(T)
  BY <1>0, Longer
<1>2. (t \in S => Chosen(S, u) = v \o <<t>>) /\ (t \notin S => Chosen(S, u) = v)
  BY <1>0, ChosenLonger
<1>3. PICK f : Nests(T, S, place, a, b, s, f)
  BY <1>0
<1>4. b \in Seq(T)
  <2>1. f[Len(s)] \in Seq(T) /\ f[Len(s)] = b
    <3>1. Len(s) \in 0 .. Len(s)
      BY <1>0
    <3> QED
      BY <1>3, <3>1 DEF Nests, IsNesting
  <2> QED
    BY <2>1
<1>5. Open # Close
  BY MarksDiffer
<1>6. ASSUME NEW c \in Seq(T), t \in S => c = place,
             t = Open => s # <<>> /\ c = b \o <<Last(s)>>,
             t = Close => \E w \in T : b = c \o <<w>>,
             t \notin {Open, Close} => c = b
      PROVE  \E g : Nests(T, S, place, a, c, u, g)
  BY <1>0, <1>3, <1>6, NestsLonger
<1> HIDE DEF u
<1>7. ASSUME t \notin {Open, Close}, t \in S => b = place
      PROVE  \E g : Nests(T, S, place, a, b, u, g)
  BY Zenon, <1>4, <1>6, <1>7
<1>8. ASSUME t \notin S, t = Open, s # <<>>
      PROVE  u \in Says(T, S, place, a, b \o <<Last(s)>>, v)
  <2> DEFINE c == b \o <<Last(s)>>
  <2>1. c \in Seq(T)
    <3>1. Last(s) \in T
      BY <1>0, <1>8, EndsOfBoth
    <3> QED
      BY <1>4, <3>1, Longer
  <2> HIDE DEF c
  <2>2. \E g : Nests(T, S, place, a, c, u, g)
    <3>1. t # Close /\ t \in {Open, Close}
      BY <1>5, <1>8
    <3> QED
      BY Zenon, <1>6, <1>8, <2>1, <3>1 DEF c
  <2>3. u \in Says(T, S, place, a, c, v)
    BY <1>1, <1>2, <1>8, <2>2 DEF Says
  <2> QED
    BY <2>3 DEF c
<1>9. ASSUME NEW c \in Seq(T), NEW w \in T, t \notin S, t = Close, b = c \o <<w>>
      PROVE  u \in Says(T, S, place, a, c, v)
  <2>1. \E g : Nests(T, S, place, a, c, u, g)
    <3>1. t # Open /\ t \in {Open, Close}
      BY <1>5, <1>9
    <3> QED
      BY Zenon, <1>6, <1>9, <3>1
  <2> QED
    BY <1>1, <1>2, <1>9, <2>1 DEF Says
<1>10. t \notin S /\ t \notin {Open, Close} => u \in Says(T, S, place, a, b, v)
  BY <1>1, <1>2, <1>7 DEF Says
<1>11. t \in S /\ t \notin {Open, Close} /\ b = place => u \in Says(T, S, place, a, b, v \o <<t>>)
  BY <1>1, <1>2, <1>7 DEF Says
<1> QED
  BY Zenon, <1>8, <1>9, <1>10, <1>11 DEF u

\* One text after the other.
LEMMA SaysJoin ==
    ASSUME NEW T, NEW S, NEW place, NEW a, NEW b, NEW c, NEW v, NEW w,
           NEW s, s \in Says(T, S, place, a, b, v), NEW t, t \in Says(T, S, place, b, c, w)
    PROVE  s \o t \in Says(T, S, place, a, c, v \o w)
<1> DEFINE u == s \o t
           n == Len(s)
           m == Len(t)
<1>0. s \in Seq(T) /\ t \in Seq(T) /\ Chosen(S, s) = v /\ Chosen(S, t) = w
  BY DEF Says
<1>1. u \in Seq(T) /\ Len(u) = n + m /\ n \in Nat /\ m \in Nat
      /\ (\A i \in 1 .. n : u[i] = s[i]) /\ (\A i \in 1 .. m : u[n + i] = t[i])
  BY <1>0, BothTexts
<1>2. Chosen(S, u) = v \o w
  BY <1>0, ChosenOfBoth DEF AreOfBoth
<1>3. PICK f : Nests(T, S, place, a, b, s, f)
  BY DEF Says
<1>4. PICK h : Nests(T, S, place, b, c, t, h)
  BY DEF Says
<1>5. /\ f \in [0 .. n -> Seq(T)] /\ f[0] = a /\ f[n] = b
      /\ \A i \in 1 .. n : /\ IsNext(T, i, s[i - 1], s[i], f[i - 1], f[i])
                           /\ s[i] \in S => f[i] = place
  BY <1>3 DEF Nests, IsNesting
<1>6. /\ h \in [0 .. m -> Seq(T)] /\ h[0] = b /\ h[m] = c
      /\ \A i \in 1 .. m : /\ IsNext(T, i, t[i - 1], t[i], h[i - 1], h[i])
                           /\ t[i] \in S => h[i] = place
  BY <1>4 DEF Nests, IsNesting
<1> DEFINE g == [i \in 0 .. n + m |-> IF i <= n THEN f[i] ELSE h[i - n]]
<1> HIDE DEF u, n, m
<1>7. g \in [0 .. n + m -> Seq(T)]
  <2>1. \A i \in 0 .. n + m : IF i <= n THEN i \in 0 .. n ELSE i - n \in 0 .. m
    BY <1>1
  <2> QED
    BY <1>5, <1>6, <2>1
<1>8. (\A i \in 0 .. n : g[i] = f[i]) /\ (\A i \in 0 .. m : g[n + i] = h[i])
  <2>1. \A i \in 0 .. n : i \in 0 .. n + m /\ i <= n
    BY <1>1
  <2>2. \A i \in 0 .. m : i # 0 => n + i \in 0 .. n + m /\ ~ (n + i <= n) /\ (n + i) - n = i
    BY <1>1
  <2>3. g[n + 0] = h[0]
    <3>1. n + 0 = n /\ n \in 0 .. n
      BY <1>1
    <3> QED
      BY <1>5, <1>6, <2>1, <3>1
  <2> QED
    BY <2>1, <2>2, <2>3
<1> HIDE DEF g
<1>9. ASSUME NEW i \in 1 .. n + m
      PROVE  /\ IsNext(T, i, u[i - 1], u[i], g[i - 1], g[i])
             /\ u[i] \in S => g[i] = place
  <2>1. CASE i \in 1 .. n
    <3>1. i \in 0 .. n /\ i - 1 \in 0 .. n /\ (i # 1 => i - 1 \in 1 .. n)
      BY <1>1, <2>1
    <3>2. u[i] = s[i] /\ g[i] = f[i] /\ g[i - 1] = f[i - 1] /\ (i # 1 => u[i - 1] = s[i - 1])
      BY <1>1, <1>8, <2>1, <3>1
    <3>3. IsNext(T, i, s[i - 1], u[i], g[i - 1], g[i])
      BY Zenon, <1>5, <2>1, <3>2
    <3>4. IsNext(T, i, u[i - 1], u[i], g[i - 1], g[i])
      BY <3>2, <3>3, NextAgain
    <3> QED
      BY Zenon, <1>5, <2>1, <3>2, <3>4
  <2>2. CASE i \notin 1 .. n
    <3> DEFINE j == i - n
    <3>1. /\ j \in 1 .. m /\ j \in 0 .. m /\ j - 1 \in 0 .. m /\ (j # 1 => j - 1 \in 1 .. m)
          /\ i = n + j /\ i - 1 = n + (j - 1) /\ (j # 1 => i # 1)
      BY <1>1, <2>2
    <3> HIDE DEF j
    <3>2. u[i] = t[j] /\ g[i] = h[j] /\ g[i - 1] = h[j - 1] /\ (j # 1 => u[i - 1] = t[j - 1])
      BY Zenon, <1>1, <1>8, <3>1
    <3>3. IsNext(T, j, t[j - 1], u[i], g[i - 1], g[i])
      BY Zenon, <1>6, <3>1, <3>2
    <3>4. IsNext(T, i, u[i - 1], u[i], g[i - 1], g[i])
      BY <3>1, <3>2, <3>3, NextAgain
    <3> QED
      BY Zenon, <1>6, <3>1, <3>2, <3>4
  <2> QED
    BY <2>1, <2>2
<1>10. g[0] = a /\ g[n + m] = c
  <2>1. 0 \in 0 .. n /\ m \in 0 .. m
    BY <1>1
  <2> QED
    BY Zenon, <1>5, <1>6, <1>8, <2>1
<1>11. Nests(T, S, place, a, c, u, g)
  BY Zenon, <1>1, <1>7, <1>9, <1>10 DEF Nests, IsNesting
<1>12. u \in Says(T, S, place, a, c, v \o w)
  BY <1>1, <1>2, <1>11 DEF Says
<1> QED
  BY <1>12 DEF u

\* The tokens of S are values; the marks are no values.
Speaks(T, S) == Marks \subseteq T /\ \A t \in S : IsValue(t)

LEMMA SpeakingTokens ==
    ASSUME NEW T, NEW S, Speaks(T, S)
    PROVE  /\ \A t \in Marks : t \in T /\ t \notin S
           /\ \A key : K(key) \notin S /\ K(key) \notin {Open, Close}
           /\ Open \in Marks /\ Close \in Marks /\ Comma \in Marks /\ Space \in Marks
           /\ Comma \notin {Open, Close} /\ Space \notin {Open, Close} /\ Open # Close
           /\ \A t : IsValue(t) => t \notin {Open, Close}
<1>1. \A t \in Marks : t \in T /\ t \notin S
  BY MarksDiffer DEF Speaks, IsValue
<1>2. \A key : K(key)[1] = "K" /\ K(key) \notin Marks
  BY WordsAndValues, MarksDiffer
<1>3. \A key : K(key) \notin S
  BY <1>2, WordsAndValues DEF Speaks, IsValue
<1>4. /\ Open \in Marks /\ Close \in Marks /\ Comma \in Marks /\ Space \in Marks
      /\ Comma \notin {Open, Close} /\ Space \notin {Open, Close} /\ Open # Close
  BY MarksDiffer DEF Marks
<1>5. \A t : IsValue(t) => t \notin Marks
  BY MarksDiffer DEF IsValue
<1> QED
  BY <1>1, <1>2, <1>3, <1>4, <1>5

LEMMA SaysType ==
    ASSUME NEW T, NEW S, NEW place, NEW a, NEW b, NEW v, NEW s \in Says(T, S, place, a, b, v)
    PROVE  s \in Seq(T) /\ v \in Seq(T) /\ a \in Seq(T) /\ b \in Seq(T)
<1>1. s \in Seq(T) /\ Chosen(S, s) = v /\ \E f : Nests(T, S, place, a, b, s, f)
  BY DEF Says
<1>2. v \in Seq(T)
  BY <1>1, ChosenOfBoth
<1>3. PICK f : Nests(T, S, place, a, b, s, f)
  BY <1>1
<1>4. f \in [0 .. Len(s) -> Seq(T)] /\ f[0] = a /\ f[Len(s)] = b
  BY <1>3 DEF Nests, IsNesting
<1>5. 0 \in 0 .. Len(s) /\ Len(s) \in 0 .. Len(s)
  BY <1>1
<1> QED
  BY <1>1, <1>2, <1>4, <1>5

\* A comma, a space or a word more.
LEMMA SaysMore ==
    ASSUME NEW T, NEW S, Speaks(T, S), NEW place, NEW a, NEW b, NEW v,
           NEW s \in Says(T, S, place, a, b, v)
    PROVE  /\ s \o <<Comma>> \in Says(T, S, place, a, b, v)
           /\ s \o <<Space>> \in Says(T, S, place, a, b, v)
           /\ \A key : K(key) \in T => s \o <<K(key)>> \in Says(T, S, place, a, b, v)
<1>1. \A t \in T : t \notin S /\ t \notin {Open, Close} => s \o <<t>> \in Says(T, S, place, a, b, v)
  BY SaysLonger
<1>2. /\ Comma \in T /\ Comma \notin S /\ Comma \notin {Open, Close}
      /\ Space \in T /\ Space \notin S /\ Space \notin {Open, Close}
      /\ \A key : K(key) \notin S /\ K(key) \notin {Open, Close}
  BY SpeakingTokens
<1> QED
  BY Zenon, <1>1, <1>2

\* A closing parenthesis, and what the serializer puts after it.
LEMMA SaysClosing ==
    ASSUME NEW T, NEW S, Speaks(T, S), NEW place, NEW a, NEW b, NEW c \in Seq(T), NEW w \in T,
           b = c \o <<w>>, NEW v, NEW s \in Says(T, S, place, a, b, v)
    PROVE  /\ s \o <<Close>> \in Says(T, S, place, a, c, v)
           /\ Append(s, Close) \in Says(T, S, place, a, c, v)
           /\ s \o <<Close, Space>> \in Says(T, S, place, a, c, v)
           /\ s \o <<Close, Comma, Space>> \in Says(T, S, place, a, c, v)
<1> DEFINE u == s \o <<Close>>
           x == u \o <<Comma>>
<1>0. s \in Seq(T)
  BY SaysType
<1>1. Close \in T /\ Close \notin S /\ Space \in T /\ Comma \in T
  BY SpeakingTokens
<1>2. u \in Says(T, S, place, a, c, v)
  BY <1>1, SaysLonger
<1>3. Append(s, Close) = u /\ AddsTwo(s, Close, Space) /\ AddsThree(s, Close, Comma, Space)
  BY <1>0, <1>1, Longer, TwoMore, ThreeMore
<1> HIDE DEF u
<1>4. u \o <<Space>> \in Says(T, S, place, a, c, v) /\ x \in Says(T, S, place, a, c, v)
  BY <1>2, SaysMore
<1> HIDE DEF x
<1>5. x \o <<Space>> \in Says(T, S, place, a, c, v)
  BY <1>4, SaysMore
<1> QED
  BY Zenon, <1>2, <1>3, <1>4, <1>5 DEF u, x, AddsTwo, AddsThree

\* A word and its parenthesis, before a text.
LEMMA SaysOpening ==
    ASSUME NEW T, NEW S, Speaks(T, S), NEW place, NEW a \in Seq(T), NEW key, K(key) \in T,
           NEW b, b = a \o <<K(key)>>
    PROVE  /\ <<K(key), Open>> \in Says(T, S, place, a, b, <<>>)
           /\ \A c, v : \A s \in Says(T, S, place, b, c, v) :
                 <<K(key), Open>> \o s \in Says(T, S, place, a, c, v)
<1> DEFINE none == <<>>
           k == K(key)
           one == <<k>>
           r == <<k, Open>>
<1>1. none \in Says(T, S, place, a, a, <<>>) /\ none \o <<k>> = one
  BY SaysNothing
<1>2. one \o <<Open>> = r /\ one # <<>> /\ Last(one) = k
  BY TwoTokens DEF Last
<1>3. k \in T /\ Open \in T /\ Open \notin S
  BY SpeakingTokens
<1> HIDE DEF none, one, r
<1>4. none \o <<k>> \in Says(T, S, place, a, a, <<>>)
  BY <1>1, SaysMore
<1>5. one \in Says(T, S, place, a, a, <<>>)
  BY Zenon, <1>1, <1>4
<1>6. one \o <<Open>> \in Says(T, S, place, a, a \o <<Last(one)>>, <<>>)
  BY <1>2, <1>3, <1>5, SaysLonger
<1>7. r \in Says(T, S, place, a, b, <<>>)
  BY Zenon, <1>2, <1>6
<1>8. ASSUME NEW c, NEW v, NEW s \in Says(T, S, place, b, c, v)
      PROVE  r \o s \in Says(T, S, place, a, c, v)
  <2>1. r \o s \in Says(T, S, place, a, c, <<>> \o v)
    BY <1>7, SaysJoin
  <2>2. <<>> \o v = v
    <3>1. v \in Seq(T)
      BY SaysType
    <3> QED
      BY <3>1
  <2> QED
    BY Zenon, <2>1, <2>2
<1> QED
  BY Zenon, <1>7, <1>8 DEF r, k

\* A text in the parentheses of a word.
LEMMA SaysEnclosed ==
    ASSUME NEW T, NEW S, Speaks(T, S), NEW place, NEW a \in Seq(T), NEW key, K(key) \in T,
           NEW b, b = a \o <<K(key)>>, NEW v, NEW s \in Says(T, S, place, b, b, v)
    PROVE  /\ (<<K(key), Open>> \o s) \o <<Close, Space>> \in Says(T, S, place, a, a, v)
           /\ (<<K(key), Open>> \o s) \o <<Close, Comma, Space>> \in Says(T, S, place, a, a, v)
<1> DEFINE u == <<K(key), Open>> \o s
<1>1. u \in Says(T, S, place, a, b, v)
  BY SaysOpening
<1> HIDE DEF u
<1>2. /\ u \o <<Close, Space>> \in Says(T, S, place, a, a, v)
      /\ u \o <<Close, Comma, Space>> \in Says(T, S, place, a, a, v)
  BY <1>1, SaysClosing
<1> QED
  BY <1>2 DEF u

\* What the serializer deletes at the end is not said.
LEMMA SaysFormat ==
    ASSUME NEW T, NEW S, Speaks(T, S), NEW place, NEW a, NEW b, NEW v,
           NEW s \in Says(T, S, place, a, b, v)
    PROVE  Format(s) \in Says(T, S, place, a, b, v)
<1>0. s \in Seq(T) /\ Chosen(S, s) = v /\ \E f : Nests(T, S, place, a, b, s, f)
  BY DEF Says
<1>1. CASE s = <<>>
  <2>1. Front(<<>>) = <<>>
    BY DEF Front
  <2>2. Format(<<>>) = <<>>
    BY Zenon, <2>1 DEF Format
  <2> QED
    BY Zenon, <1>1, <2>2
<1>2. CASE s # <<>> /\ Last(s) \in {Comma, Space}
  <2> DEFINE r == Front(s)
             t == Last(s)
             n == Len(r)
  <2>1. r \in Seq(T) /\ t \in T /\ s = r \o <<t>>
    <3>1. Len(s) \in Nat /\ Len(s) # 0
      BY <1>0, <1>2, EmptySeq
    <3>2. Len(s) - 1 \in 0 .. Len(s) - 1 /\ Len(s) - 1 \in 0 .. Len(s) /\ (Len(s) - 1) + 1 = Len(s)
      BY <3>1
    <3>3. SubSeq(s, 1, Len(s) - 1) \in Seq(T)
      BY <1>0, <3>2, FirstTokens
    <3>4. SubSeq(s, 1, (Len(s) - 1) + 1) = SubSeq(s, 1, Len(s) - 1) \o <<s[(Len(s) - 1) + 1]>>
      BY <1>0, <3>2, FirstTokensGrow
    <3>5. SubSeq(s, 1, Len(s)) = s
      BY <1>0, SubSeqFull
    <3>6. s[Len(s)] \in T
      BY <1>0, <3>1
    <3> QED
      BY Zenon, <3>2, <3>3, <3>4, <3>5, <3>6 DEF Front, Last
  <2>2. t \notin S /\ t \notin {Open, Close}
    <3>1. t = Comma \/ t = Space
      BY <1>2
    <3>2. /\ Comma \notin S /\ Comma \notin {Open, Close}
          /\ Space \notin S /\ Space \notin {Open, Close}
      BY SpeakingTokens
    <3> QED
      BY Zenon, <3>1, <3>2
  <2>3. Format(s) = r
    BY <1>2 DEF Format
  <2> HIDE DEF r, t
  <2>4. /\ Len(s) = n + 1 /\ n \in Nat /\ s[n + 1] = t
        /\ \A i \in 1 .. n : s[i] = r[i]
    <3>1. /\ Len(r \o <<t>>) = Len(r) + 1 /\ Len(r) \in Nat
          /\ \A i \in 1 .. Len(r) : (r \o <<t>>)[i] = r[i]
          /\ (r \o <<t>>)[Len(r) + 1] = t
      BY <2>1, Longer
    <3> QED
      BY Zenon, <2>1, <3>1
  <2>5. Chosen(S, r) = v
    <3>1. Chosen(S, r \o <<t>>) = Chosen(S, r)
      BY <2>1, <2>2, ChosenLonger
    <3> QED
      BY Zenon, <1>0, <2>1, <3>1
  <2>6. PICK f : Nests(T, S, place, a, b, s, f)
    BY <1>0
  <2> HIDE DEF n
  <2>7. /\ f \in [0 .. n + 1 -> Seq(T)] /\ f[0] = a /\ f[n + 1] = b
        /\ \A i \in 1 .. n + 1 : /\ IsNext(T, i, s[i - 1], s[i], f[i - 1], f[i])
                                 /\ s[i] \in S => f[i] = place
    BY <2>4, <2>6 DEF Nests, IsNesting
  <2> DEFINE g == [i \in 0 .. n |-> f[i]]
  <2>8. /\ \A i \in 0 .. n : i \in 0 .. n + 1
        /\ \A i \in 1 .. n : i \in 0 .. n /\ i - 1 \in 0 .. n /\ i \in 1 .. n + 1
                             /\ (i # 1 => i - 1 \in 1 .. n)
        /\ 0 \in 0 .. n /\ n \in 0 .. n /\ n + 1 \in 1 .. n + 1 /\ (n + 1) - 1 = n
    BY <2>4
  <2>9. g \in [0 .. n -> Seq(T)] /\ \A i \in 0 .. n : g[i] = f[i]
    BY <2>7, <2>8
  <2> HIDE DEF g
  <2>10. f[n] = b
    <3>1. IsNext(T, n + 1, s[n], t, f[n], f[n + 1])
      BY Zenon, <2>4, <2>7, <2>8
    <3> QED
      BY Zenon, <2>2, <2>7, <3>1 DEF IsNext
  <2>11. ASSUME NEW i \in 1 .. n
         PROVE  /\ IsNext(T, i, r[i - 1], r[i], g[i - 1], g[i])
                /\ r[i] \in S => g[i] = place
    <3>1. s[i] = r[i] /\ g[i] = f[i] /\ g[i - 1] = f[i - 1] /\ (i # 1 => r[i - 1] = s[i - 1])
      BY Zenon, <2>4, <2>8, <2>9
    <3>2. IsNext(T, i, s[i - 1], r[i], g[i - 1], g[i])
      BY Zenon, <2>7, <2>8, <3>1
    <3>3. IsNext(T, i, r[i - 1], r[i], g[i - 1], g[i])
      BY <3>1, <3>2, NextAgain
    <3> QED
      BY Zenon, <2>7, <2>8, <3>1, <3>3
  <2>12. Nests(T, S, place, a, b, r, g)
    <3>1. Len(r) = n
      BY DEF n
    <3>2. g[0] = a /\ g[n] = b
      BY Zenon, <2>7, <2>8, <2>9, <2>10
    <3> QED
      BY Zenon, <2>9, <2>11, <3>1, <3>2 DEF Nests, IsNesting
  <2>13. r \in Says(T, S, place, a, b, v)
    BY <2>1, <2>5, <2>12 DEF Says
  <2> QED
    BY Zenon, <2>3, <2>13
<1>3. CASE s # <<>> /\ Last(s) \notin {Comma, Space}
  BY <1>3 DEF Format
<1> QED
  BY <1>1, <1>2, <1>3

-----------------------------------------------------------------------------
(* What the serializer writes for a field *)

\* The values are tokens of S, in their place, and w; or none of them is, and w is nothing.
AreOf(S, place, b, values, w) ==
    \/ w = values /\ b = place /\ \A i \in DOMAIN values : values[i] \in S
    \/ w = <<>> /\ \A i \in DOMAIN values : values[i] \notin S

\* A value, alone or with what separates it from the next.
LEMMA SaysValue ==
    ASSUME NEW T, NEW S, Speaks(T, S), NEW place, NEW b \in Seq(T), NEW t \in ValueTokens(T),
           NEW w, AreOf(S, place, b, <<t>>, w)
    PROVE  /\ <<t>> \in Says(T, S, place, b, b, w)
           /\ <<t, Comma>> \in Says(T, S, place, b, b, w)
           /\ <<t, Comma, Space>> \in Says(T, S, place, b, b, w)
<1> DEFINE none == <<>>
           one == <<t>>
           two == <<t, Comma>>
<1>0. t \in T /\ IsValue(t)
  BY DEF ValueTokens
<1>1. none \in Says(T, S, place, b, b, none) /\ none \o <<t>> = one
  BY SaysNothing
<1>2. one \o <<Comma>> = two /\ two \o <<Space>> = <<t, Comma, Space>>
  BY TwoTokens, ThreeTokens
<1>3. \/ t \in S /\ b = place /\ w = one
      \/ t \notin S /\ w = none
  <2>1. DOMAIN one = {1} /\ one[1] = t
    OBVIOUS
  <2> QED
    BY <2>1 DEF AreOf
<1>4. t \notin {Open, Close}
  BY <1>0, SpeakingTokens
<1> HIDE DEF none, one, two
<1>5. /\ t \notin S => none \o <<t>> \in Says(T, S, place, b, b, none)
      /\ t \in S /\ b = place => none \o <<t>> \in Says(T, S, place, b, b, none \o <<t>>)
  BY <1>0, <1>1, <1>4, SaysLonger
<1>6. one \in Says(T, S, place, b, b, w)
  BY Zenon, <1>1, <1>3, <1>5
<1>7. one \o <<Comma>> \in Says(T, S, place, b, b, w)
  BY <1>6, SaysMore
<1>8. two \o <<Space>> \in Says(T, S, place, b, b, w)
  <2>1. two \in Says(T, S, place, b, b, w)
    BY Zenon, <1>2, <1>7
  <2> QED
    BY <2>1, SaysMore
<1> QED
  BY Zenon, <1>2, <1>6, <1>7, <1>8 DEF one, two

\* The values of a list, with or without separators.
AreSeparated(values, seqs) ==
    /\ DOMAIN seqs = DOMAIN values
    /\ \A i \in DOMAIN values :
          seqs[i] \in {<<values[i]>>, <<values[i], Comma>>, <<values[i], Comma, Space>>}

LEMMA SaysList ==
    ASSUME NEW T, NEW S, Speaks(T, S), NEW place, NEW b \in Seq(T),
           NEW values \in Seq(ValueTokens(T)), NEW w, AreOf(S, place, b, values, w),
           NEW seqs, seqs = [i \in DOMAIN values |-> seqs[i]], AreSeparated(values, seqs)
    PROVE  FlattenSeq(seqs) \in Says(T, S, place, b, b, w)
<1> DEFINE n == Len(values)
           first(i) == IF w = values THEN SubSeq(values, 1, i) ELSE <<>>
           steps == [i \in 0 .. n |-> Says(T, S, place, b, b, first(i))]
<1>0. n \in Nat /\ DOMAIN values = 1 .. n /\ \A i \in 1 .. n : values[i] \in ValueTokens(T)
  OBVIOUS
<1>1. first(0) = <<>> /\ first(n) = w
  <2>1. SubSeq(values, 1, 0) = <<>> /\ SubSeq(values, 1, n) = values
    BY <1>0, SubSeqEmpty, SubSeqFull
  <2> QED
    BY Zenon, <2>1 DEF AreOf
<1>2. ASSUME NEW i \in 1 .. n
      PROVE  \E x : /\ seqs[i] \in Says(T, S, place, b, b, x)
                    /\ first(i) = first(i - 1) \o x
  <2> DEFINE t == values[i]
             x == IF w = values THEN <<t>> ELSE <<>>
  <2>1. t \in ValueTokens(T)
    BY <1>0
  <2>2. AreOf(S, place, b, <<t>>, x)
    <3>1. \/ w = values /\ b = place /\ t \in S
          \/ w = <<>> /\ t \notin S
      BY <1>0 DEF AreOf
    <3>2. DOMAIN <<t>> = {1} /\ <<t>>[1] = t
      OBVIOUS
    <3>3. w = values => w # <<>>
      BY <1>0, EmptySeq
    <3> HIDE DEF t
    <3>4. CASE w = values /\ b = place /\ t \in S
      BY <3>2, <3>4 DEF AreOf
    <3>5. CASE w = <<>> /\ t \notin S
      BY <3>2, <3>3, <3>5 DEF AreOf
    <3> QED
      BY <3>1, <3>4, <3>5
  <2>3. seqs[i] \in {<<t>>, <<t, Comma>>, <<t, Comma, Space>>}
    BY <1>0 DEF AreSeparated
  <2>4. seqs[i] \in Says(T, S, place, b, b, x)
    <3> HIDE DEF t, x
    <3>1. /\ <<t>> \in Says(T, S, place, b, b, x)
          /\ <<t, Comma>> \in Says(T, S, place, b, b, x)
          /\ <<t, Comma, Space>> \in Says(T, S, place, b, b, x)
      BY <2>1, <2>2, SaysValue
    <3> QED
      BY <2>3, <3>1
  <2>5. first(i) = first(i - 1) \o x
    <3>1. i - 1 \in 0 .. Len(values) - 1 /\ (i - 1) + 1 = i
      BY <1>0
    <3>2. SubSeq(values, 1, (i - 1) + 1) = SubSeq(values, 1, i - 1) \o <<values[(i - 1) + 1]>>
      BY <3>1, FirstTokensGrow
    <3>3. <<>> \o <<>> = <<>>
      OBVIOUS
    <3> QED
      BY Zenon, <3>1, <3>2, <3>3
  <2> QED
    BY Zenon, <2>4, <2>5
<1> HIDE DEF first
<1>3. <<>> \in steps[0]
  <2>1. <<>> \in Says(T, S, place, b, b, <<>>) /\ 0 \in 0 .. n
    BY <1>0, SaysNothing
  <2> QED
    BY Zenon, <1>1, <2>1
<1>4. ASSUME NEW i \in 1 .. n, NEW s \in Seq(T), s \in steps[i - 1]
      PROVE  s \o seqs[i] \in steps[i]
  <2>1. i - 1 \in 0 .. n /\ i \in 0 .. n
    BY <1>0
  <2>2. s \in Says(T, S, place, b, b, first(i - 1))
    BY Zenon, <1>4, <2>1
  <2>3. PICK x : seqs[i] \in Says(T, S, place, b, b, x) /\ first(i) = first(i - 1) \o x
    BY <1>2
  <2>4. s \o seqs[i] \in Says(T, S, place, b, b, first(i - 1) \o x)
    BY <2>2, <2>3, SaysJoin
  <2> QED
    BY Zenon, <2>1, <2>3, <2>4
<1>5. seqs \in [1 .. n -> Seq(T)]
  <2>1. \A i \in 1 .. n : seqs[i] \in Seq(T)
    BY Zenon, <1>2, SaysType
  <2> HIDE DEF n
  <2> QED
    BY <1>0, <2>1
<1>6. FlattenSeq(seqs) \in steps[n]
  <2> HIDE DEF steps, n
  <2>1. \A i \in 1 .. n : \A s \in Seq(T) : s \in steps[i - 1] => s \o seqs[i] \in steps[i]
    BY <1>4
  <2> QED
    BY <1>0, <1>3, <1>5, <2>1, FlattenSteps
<1>7. n \in 0 .. n
  BY <1>0
<1> QED
  BY Zenon, <1>1, <1>6, <1>7

\* A list and its keyword.
LEMMA SaysListText ==
    ASSUME NEW T, NEW S, Speaks(T, S), NEW place, NEW a \in Seq(T), NEW key, K(key) \in T,
           NEW values \in Seq(ValueTokens(T)), NEW w,
           AreOf(S, place, a \o <<K(key)>>, values, w)
    PROVE  /\ ListText(key, values) \in Says(T, S, place, a, a, w)
           /\ key = "ROUTE" => RouteText(values) \in Says(T, S, place, a, a, w)
<1> DEFINE b == a \o <<K(key)>>
           lists == [i \in DOMAIN values |->
                        IF i # Len(values) THEN <<values[i], Comma, Space>> ELSE <<values[i]>>]
           routes == [i \in DOMAIN values |->
                        IF i # Len(values) THEN <<values[i], Comma>> ELSE <<values[i]>>]
<1>0. b \in Seq(T)
  BY Longer
<1>1. CASE values = <<>>
  <2>1. w = <<>>
    BY <1>1 DEF AreOf
  <2>2. ListText(key, values) = <<>> /\ RouteText(values) = <<>>
    BY <1>1 DEF ListText, RouteText
  <2>3. <<>> \in Says(T, S, place, a, a, <<>>)
    BY SaysNothing
  <2> QED
    BY Zenon, <2>1, <2>2, <2>3
<1>2. CASE values # <<>>
  <2>1. AreSeparated(values, lists) /\ AreSeparated(values, routes)
    BY DEF AreSeparated
  <2>2. lists = [i \in DOMAIN values |-> lists[i]] /\ routes = [i \in DOMAIN values |-> routes[i]]
    OBVIOUS
  <2>3. /\ ListText(key, values) = (<<K(key), Open>> \o FlattenSeq(lists)) \o <<Close, Space>>
        /\ key = "ROUTE" =>
             RouteText(values) = (<<K(key), Open>> \o FlattenSeq(routes)) \o <<Close, Space>>
    BY Zenon, <1>2 DEF ListText, RouteText
  <2> HIDE DEF b, lists, routes
  <2>4. AreOf(S, place, b, values, w)
    BY DEF b
  <2>5. /\ FlattenSeq(lists) \in Says(T, S, place, b, b, w)
        /\ FlattenSeq(routes) \in Says(T, S, place, b, b, w)
    BY <1>0, <2>1, <2>2, <2>4, SaysList
  <2>6. \A s \in Says(T, S, place, b, b, w) :
           (<<K(key), Open>> \o s) \o <<Close, Space>> \in Says(T, S, place, a, a, w)
    BY SaysEnclosed DEF b
  <2> QED
    BY Zenon, <2>3, <2>5, <2>6
<1> QED
  BY <1>1, <1>2

\* One value and its keyword.
LEMMA SaysOneText ==
    ASSUME NEW T, NEW S, Speaks(T, S), NEW place, NEW a \in Seq(T), NEW key, K(key) \in T,
           NEW value \in Attribute(T), NEW w, AreOf(S, place, a \o <<K(key)>>, value, w)
    PROVE  OneText(key, value) \in Says(T, S, place, a, a, w)
<1> DEFINE b == a \o <<K(key)>>
<1>0. b \in Seq(T)
  BY Longer
<1>1. CASE value = <<>>
  <2>1. w = <<>>
    BY <1>1 DEF AreOf
  <2>2. OneText(key, value) = <<>>
    BY <1>1 DEF OneText
  <2>3. <<>> \in Says(T, S, place, a, a, <<>>)
    BY SaysNothing
  <2> QED
    BY Zenon, <2>1, <2>2, <2>3
<1>2. CASE value # <<>>
  <2>1. PICK t \in ValueTokens(T) : value = <<t>>
    BY <1>2 DEF Attribute
  <2>2. OneText(key, value) = (<<K(key), Open>> \o value) \o <<Close, Space>>
    BY Zenon, <1>2 DEF OneText
  <2> HIDE DEF b
  <2>3. AreOf(S, place, b, <<t>>, w)
    BY Zenon, <2>1 DEF b
  <2>4. <<t>> \in Says(T, S, place, b, b, w)
    BY <1>0, <2>3, SaysValue
  <2>5. \A s \in Says(T, S, place, b, b, w) :
           (<<K(key), Open>> \o s) \o <<Close, Space>> \in Says(T, S, place, a, a, w)
    BY SaysEnclosed DEF b
  <2> QED
    BY Zenon, <2>1, <2>2, <2>4, <2>5
<1> QED
  BY <1>1, <1>2

\* Of some texts one at most says something: the j-th says v.
LEMMA SaysOneOf ==
    ASSUME NEW T, NEW S, NEW place, NEW b \in Seq(T), NEW n \in Nat, NEW seqs,
           seqs = [i \in 1 .. n |-> seqs[i]], NEW j, NEW v,
           \A i \in 1 .. n : seqs[i] \in Says(T, S, place, b, b, IF i = j THEN v ELSE <<>>)
    PROVE  FlattenSeq(seqs) \in Says(T, S, place, b, b, IF j \in 1 .. n THEN v ELSE <<>>)
<1> DEFINE said(i) == IF j \in 1 .. i THEN v ELSE <<>>
           steps == [i \in 0 .. n |-> Says(T, S, place, b, b, said(i))]
<1>1. <<>> \in steps[0]
  <2>1. <<>> \in Says(T, S, place, b, b, <<>>) /\ 0 \in 0 .. n /\ said(0) = <<>>
    BY SaysNothing
  <2> HIDE DEF said
  <2> QED
    BY Zenon, <2>1
<1>2. ASSUME NEW i \in 1 .. n, NEW s \in Seq(T), s \in steps[i - 1]
      PROVE  s \o seqs[i] \in steps[i]
  <2> DEFINE x == IF i = j THEN v ELSE <<>>
  <2>1. i - 1 \in 0 .. n /\ i \in 0 .. n
    OBVIOUS
  <2>2. s \in Says(T, S, place, b, b, said(i - 1))
    BY Zenon, <1>2, <2>1
  <2>3. seqs[i] \in Says(T, S, place, b, b, x)
    OBVIOUS
  <2>4. said(i) = said(i - 1) \o x
    <3>1. said(i - 1) \in Seq(T) /\ x \in Seq(T)
      BY Zenon, <2>2, <2>3, SaysType
    <3>2. (i = j => said(i - 1) = <<>> /\ said(i) = v) /\ (i # j => said(i) = said(i - 1))
      <4>1. i \notin 1 .. i - 1 /\ i \in 1 .. i /\ \A k : k # i => (k \in 1 .. i <=> k \in 1 .. i - 1)
        OBVIOUS
      <4> QED
        BY Zenon, <4>1
    <3> HIDE DEF said
    <3>3. (x = <<>> => said(i - 1) \o x = said(i - 1)) /\ (said(i - 1) = <<>> => said(i - 1) \o x = x)
      <4>1. \A u \in Seq(T) : u \o <<>> = u /\ <<>> \o u = u
        OBVIOUS
      <4> HIDE DEF x
      <4> QED
        BY Zenon, <3>1, <4>1
    <3> QED
      BY Zenon, <3>2, <3>3
  <2> HIDE DEF x, said
  <2>5. s \o seqs[i] \in Says(T, S, place, b, b, said(i - 1) \o x)
    BY <2>2, <2>3, SaysJoin
  <2> QED
    BY Zenon, <2>1, <2>4, <2>5
<1>3. seqs \in [1 .. n -> Seq(T)]
  <2>1. \A i \in 1 .. n : seqs[i] \in Seq(T)
    BY Zenon, SaysType
  <2> QED
    BY <2>1
<1>4. FlattenSeq(seqs) \in steps[n]
  <2> HIDE DEF steps
  <2>1. \A i \in 1 .. n : \A s \in Seq(T) : s \in steps[i - 1] => s \o seqs[i] \in steps[i]
    BY <1>2
  <2> QED
    BY <1>1, <1>3, <2>1, FlattenSteps
<1>5. n \in 0 .. n
  OBVIOUS
<1> QED
  BY Zenon, <1>4, <1>5

\* Of the attributes of a group one at most is of S: the j-th is v, and stands in the words
\* of its place.
OneIsOf(S, place, words, keys, value, j, v) ==
    \A i \in DOMAIN keys : AreOf(S, place, words[i], value[keys[i]], IF i = j THEN v ELSE <<>>)

LEMMA SaysAttributes ==
    ASSUME NEW T, NEW S, Speaks(T, S), NEW place, NEW b \in Seq(T),
           NEW n \in Nat, NEW keys, DOMAIN keys = 1 .. n, NEW value,
           AreAttributes(T, keys, value), NEW j, NEW v,
           OneIsOf(S, place, [i \in DOMAIN keys |-> b \o <<K(keys[i])>>], keys, value, j, v)
    PROVE  Attributes(keys, value) \in Says(T, S, place, b, b, IF j \in 1 .. n THEN v ELSE <<>>)
<1> DEFINE piece(i) == IF value[keys[i]] = <<>> THEN <<>>
                       ELSE <<K(keys[i]), Open>> \o value[keys[i]] \o <<Close, Comma, Space>>
           seqs == [i \in DOMAIN keys |-> piece(i)]
<1>1. ASSUME NEW i \in 1 .. n
      PROVE  piece(i) \in Says(T, S, place, b, b, IF i = j THEN v ELSE <<>>)
  <2> DEFINE s == value[keys[i]]
             c == b \o <<K(keys[i])>>
             w == IF i = j THEN v ELSE <<>>
  <2>0. K(keys[i]) \in T /\ s \in Attribute(T)
    BY DEF AreAttributes
  <2>1. AreOf(S, place, c, s, w)
    BY DEF OneIsOf
  <2>2. c \in Seq(T)
    BY <2>0, Longer
  <2>3. CASE s = <<>>
    <3>1. w = <<>>
      BY <2>1, <2>3 DEF AreOf
    <3>2. <<>> \in Says(T, S, place, b, b, <<>>)
      BY SaysNothing
    <3>3. piece(i) = <<>>
      BY <2>3
    <3> QED
      BY Zenon, <3>1, <3>2, <3>3
  <2>4. CASE s # <<>>
    <3>1. PICK t \in ValueTokens(T) : s = <<t>>
      BY <2>0, <2>4 DEF Attribute
    <3>2. piece(i) = (<<K(keys[i]), Open>> \o s) \o <<Close, Comma, Space>>
      BY Zenon, <2>4
    <3> HIDE DEF s, c, w, piece
    <3>3. AreOf(S, place, c, <<t>>, w)
      BY Zenon, <2>1, <3>1
    <3>4. <<t>> \in Says(T, S, place, c, c, w)
      BY <2>2, <3>3, SaysValue
    <3>5. \A r \in Says(T, S, place, c, c, w) :
             (<<K(keys[i]), Open>> \o r) \o <<Close, Comma, Space>> \in Says(T, S, place, b, b, w)
      BY <2>0, SaysEnclosed DEF c
    <3>6. piece(i) \in Says(T, S, place, b, b, w)
      BY Zenon, <3>1, <3>2, <3>4, <3>5
    <3> QED
      BY <3>6 DEF w
  <2> QED
    BY <2>3, <2>4
<1>2. Attributes(keys, value) = FlattenSeq(seqs)
  BY Zenon DEF Attributes
<1>3. seqs = [i \in 1 .. n |-> seqs[i]] /\ \A i \in 1 .. n : seqs[i] = piece(i)
  <2>1. DOMAIN seqs = 1 .. n /\ \A i \in 1 .. n : seqs[i] = piece(i)
    BY Zenon
  <2>2. seqs = [i \in DOMAIN seqs |-> seqs[i]]
    BY Zenon
  <2> QED
    BY Zenon, <2>1, <2>2
<1> HIDE DEF piece, seqs
<1>4. \A i \in 1 .. n : seqs[i] \in Says(T, S, place, b, b, IF i = j THEN v ELSE <<>>)
  BY Zenon, <1>1, <1>3
<1>5. FlattenSeq(seqs) \in Says(T, S, place, b, b, IF j \in 1 .. n THEN v ELSE <<>>)
  BY <1>3, <1>4, SaysOneOf
<1> QED
  BY Zenon, <1>2, <1>5

\* What QcntText writes in front of the end.
Counts(keys, value) ==
    [i \in DOMAIN keys |-> IF value[keys[i]] = <<>> THEN <<>> ELSE Append(value[keys[i]], Comma)]

\* The comparison and the count stand in the parentheses of QCNT itself.
LEMMA SaysQcnt ==
    ASSUME NEW T, NEW S, Speaks(T, S), NEW place, NEW b \in Seq(T),
           NEW n \in Nat, NEW keys, DOMAIN keys = 1 .. n, NEW value,
           AreAttributes(T, keys, value), NEW j, NEW v,
           OneIsOf(S, place, [i \in DOMAIN keys |-> b], keys, value, j, v)
    PROVE  FlattenSeq(Counts(keys, value)) \in Says(T, S, place, b, b, IF j \in 1 .. n THEN v ELSE <<>>)
<1> DEFINE piece(i) == IF value[keys[i]] = <<>> THEN <<>> ELSE Append(value[keys[i]], Comma)
           seqs == Counts(keys, value)
<1>1. ASSUME NEW i \in 1 .. n
      PROVE  piece(i) \in Says(T, S, place, b, b, IF i = j THEN v ELSE <<>>)
  <2> DEFINE s == value[keys[i]]
             w == IF i = j THEN v ELSE <<>>
  <2>0. s \in Attribute(T)
    BY DEF AreAttributes
  <2>1. AreOf(S, place, b, s, w)
    BY DEF OneIsOf
  <2>2. CASE s = <<>>
    <3>1. w = <<>>
      BY <2>1, <2>2 DEF AreOf
    <3>2. <<>> \in Says(T, S, place, b, b, <<>>)
      BY SaysNothing
    <3>3. piece(i) = <<>>
      BY <2>2
    <3> QED
      BY Zenon, <3>1, <3>2, <3>3
  <2>3. CASE s # <<>>
    <3>1. PICK t \in ValueTokens(T) : s = <<t>>
      BY <2>0, <2>3 DEF Attribute
    <3>2. piece(i) = <<t, Comma>>
      <4>1. <<t>> \in Seq(T) /\ Comma \in T
        BY SpeakingTokens DEF ValueTokens
      <4>2. Append(<<t>>, Comma) = <<t>> \o <<Comma>>
        BY <4>1, Longer
      <4> QED
        BY Zenon, <2>3, <3>1, <4>2, TwoTokens
    <3> HIDE DEF s, w, piece
    <3>3. AreOf(S, place, b, <<t>>, w)
      BY Zenon, <2>1, <3>1
    <3>4. <<t, Comma>> \in Says(T, S, place, b, b, w)
      BY <3>3, SaysValue
    <3> QED
      BY Zenon, <3>2, <3>4 DEF w
  <2> QED
    BY <2>2, <2>3
<1>2. seqs = [i \in 1 .. n |-> piece(i)]
  BY Zenon DEF Counts
<1>3. seqs = [i \in 1 .. n |-> seqs[i]] /\ \A i \in 1 .. n : seqs[i] = piece(i)
  BY Zenon, <1>2
<1> HIDE DEF piece, seqs
<1>4. \A i \in 1 .. n : seqs[i] \in Says(T, S, place, b, b, IF i = j THEN v ELSE <<>>)
  BY Zenon, <1>1, <1>3
<1>5. FlattenSeq(seqs) \in Says(T, S, place, b, b, IF j \in 1 .. n THEN v ELSE <<>>)
  BY <1>3, <1>4, SaysOneOf
<1> QED
  BY <1>5 DEF seqs

\* What SetText, LikeText and QcntText do with what they wrote: they delete up to three
\* separators and close the parenthesis.
LEMMA SaysGroupEnd ==
    ASSUME NEW T, NEW S, Speaks(T, S), NEW place, NEW a \in Seq(T), NEW key, K(key) \in T,
           NEW b, b = a \o <<K(key)>>, NEW v, NEW flat \in Says(T, S, place, b, b, v)
    PROVE  LET s == <<K(key), Open>> \o flat
           IN  /\ Append(s, Close) \in Says(T, S, place, a, a, v)
               /\ Format(s) \o <<Close, Space>> \in Says(T, S, place, a, a, v)
               /\ Format(Format(s)) \o <<Close, Space>> \in Says(T, S, place, a, a, v)
               /\ Format(Format(Format(s))) \o <<Close, Space>> \in Says(T, S, place, a, a, v)
<1> DEFINE s == <<K(key), Open>> \o flat
<1>1. s \in Says(T, S, place, a, b, v)
  BY SaysOpening
<1> HIDE DEF s
<1>2. \A x \in Says(T, S, place, a, b, v) :
         /\ Append(x, Close) \in Says(T, S, place, a, a, v)
         /\ x \o <<Close, Space>> \in Says(T, S, place, a, a, v)
         /\ Format(x) \in Says(T, S, place, a, b, v)
  <2> SUFFICES ASSUME NEW x \in Says(T, S, place, a, b, v)
               PROVE  /\ Append(x, Close) \in Says(T, S, place, a, a, v)
                      /\ x \o <<Close, Space>> \in Says(T, S, place, a, a, v)
                      /\ Format(x) \in Says(T, S, place, a, b, v)
    OBVIOUS
  <2>1. /\ Append(x, Close) \in Says(T, S, place, a, a, v)
        /\ x \o <<Close, Space>> \in Says(T, S, place, a, a, v)
    BY SaysClosing
  <2>2. Format(x) \in Says(T, S, place, a, b, v)
    BY SaysFormat
  <2> QED
    BY <2>1, <2>2
<1> QED
  BY Zenon, <1>1, <1>2 DEF s

\* The words in front of the parentheses in which the attributes of a group stand.
WordsOf(b, key, keys) == [i \in DOMAIN keys |-> IF key = "QCNT" THEN b ELSE b \o <<K(keys[i])>>]

LEMMA SaysGroupText ==
    ASSUME NEW T, NEW S, Speaks(T, S), NEW place, NEW a \in Seq(T),
           NEW key \in {"SET", "LIKE", "QCNT"}, K(key) \in T, NEW b, b = a \o <<K(key)>>,
           NEW n \in Nat, NEW keys, DOMAIN keys = 1 .. n, NEW value,
           AreAttributes(T, keys, value), NEW j, NEW v,
           OneIsOf(S, place, WordsOf(b, key, keys), keys, value, j, v)
    PROVE  GroupText(key, keys, value)
             \in Says(T, S, place, a, a, IF j \in 1 .. n THEN v ELSE <<>>)
<1> DEFINE w == IF j \in 1 .. n THEN v ELSE <<>>
           All == Says(T, S, place, a, a, w)
<1>0. b \in Seq(T)
  BY Longer
<1> HIDE DEF w
<1>1. \A flat \in Says(T, S, place, b, b, w) :
         LET s == <<K(key), Open>> \o flat
         IN  /\ Append(s, Close) \in All
             /\ Format(s) \o <<Close, Space>> \in All
             /\ Format(Format(s)) \o <<Close, Space>> \in All
             /\ Format(Format(Format(s))) \o <<Close, Space>> \in All
  BY SaysGroupEnd
<1> HIDE DEF All
<1>2. CASE key # "QCNT"
  <2>1. WordsOf(b, key, keys) = [i \in DOMAIN keys |-> b \o <<K(keys[i])>>]
    BY Zenon, <1>2 DEF WordsOf
  <2>2. OneIsOf(S, place, [i \in DOMAIN keys |-> b \o <<K(keys[i])>>], keys, value, j, v)
    BY Zenon, <2>1
  <2>3. Attributes(keys, value) \in Says(T, S, place, b, b, w)
    BY <1>0, <2>2, SaysAttributes DEF w
  <2>4. key = "SET" => GroupText(key, keys, value) \in All
    BY Zenon, <1>1, <2>3 DEF GroupText, SetText
  <2>5. key = "LIKE" => GroupText(key, keys, value) \in All
    <3>1. key = "LIKE" => GroupText(key, keys, value) = LikeText(keys, value)
      BY DEF GroupText
    <3> QED
      BY Zenon, <1>1, <2>3, <3>1 DEF LikeText
  <2> QED
    BY <1>2, <2>4, <2>5 DEF All, w
<1>3. CASE key = "QCNT"
  <2> DEFINE seqs == Counts(keys, value)
  <2>1. OneIsOf(S, place, [i \in DOMAIN keys |-> b], keys, value, j, v)
    <3>1. WordsOf(b, key, keys) = [i \in DOMAIN keys |-> b]
      BY Zenon, <1>3 DEF WordsOf
    <3> QED
      BY Zenon, <3>1
  <2>2. QcntText(keys, value) =
          LET s == <<K(key), Open>> \o FlattenSeq(seqs)
          IN  IF Last(s) = Open THEN Append(s, Close) ELSE Format(s) \o <<Close, Space>>
    BY Zenon, <1>3 DEF QcntText, Counts
  <2> HIDE DEF seqs
  <2>3. FlattenSeq(seqs) \in Says(T, S, place, b, b, w)
    BY <1>0, <2>1, SaysQcnt DEF w, seqs
  <2>4. GroupText(key, keys, value) = QcntText(keys, value)
    BY <1>3 DEF GroupText
  <2> QED
    BY Zenon, <1>1, <2>2, <2>3, <2>4 DEF All, w
<1> QED
  BY <1>2, <1>3
=============================================================================
