--------------------------- MODULE OmResponseProof ---------------------------
(***************************************************************************)
(* What a 200 tells the client, for every answer of OM and every command.  *)
(*                                                                         *)
(* The invariant follows the rows through the result set: wherever they    *)
(* stand they carry the names of their members (Named), and once parsing   *)
(* is over they are complete in the sense of the body (Complete).  What is *)
(* in the message context and in the body is then what the answer said,    *)
(* with an empty text for a code or a name that it left out.               *)
(***************************************************************************)
EXTENDS OmResponse, SequenceTheorems, WellFoundedInduction, TLAPS

Member == [mbr : Members, msg : Seq(Lines)]

Complete(rows) ==
    /\ ~IsDisplay =>
          /\ ShowsElements(rows)
          /\ answer.msgdata # Null => \A i \in DOMAIN answer.msgdata : ShowsMember(rows, i)
    /\ IsDisplay /\ answer.msgdata # <<>> => ShowsTable(rows, Len(answer.msgdata))

Stages ==
    /\ pc = "parse" => properties = <<>> /\ member = 1
    /\ pc # "replied" => data = <<>> /\ status = 0
    /\ pc = "display" => /\ IsDisplay
                         /\ HasText(answer.msgdata)
                         /\ answer.msgdata # <<>> => member \in 1 .. Len(answer.msgdata)
    /\ pc \in {"context", "body"} => Complete(properties)
    /\ pc = "body" => context = [rc |-> OrEmpty(answer.rc), omname |-> OrEmpty(answer.omname),
                                 errs |-> ErrorsOf(answer.cmderr)]

Final == status = 200 => FailuresReachTheClient /\ Complete(data)

IInv == TypeOK /\ Named(properties) /\ Named(data) /\ Stages /\ Final

-----------------------------------------------------------------------------
(* Lines and rows *)

\* A nonempty set of line numbers has a least one.
LEMMA LeastLine ==
    ASSUME NEW T \in SUBSET Nat, T # {}
    PROVE  \E x \in T : \A y \in T : x <= y
<1>1. \E x \in T : \A y \in T : ~ (<<y, x>> \in OpToRel(<, Nat))
  BY NatLessThanWellFounded, WFMin
<1>2. PICK x \in T : \A y \in T : <<y, x>> \notin OpToRel(<, Nat)
  BY <1>1
<1>3. \A y \in T : ~ (y < x)
  BY <1>2 DEF OpToRel
<1> QED
  BY <1>3

\* The rows of a table end after the last line or before the first one with an asterisk.
LEMMA EndOfRowsExists ==
    ASSUME NEW msg \in Seq(Lines), Len(msg) >= 1
    PROVE  /\ EndOfRows(msg) \in 2 .. Len(msg) + 1
           /\ EndOfRows(msg) <= Len(msg) => Kind[msg[EndOfRows(msg)]] = "end"
           /\ \A i \in 2 .. EndOfRows(msg) - 1 : Kind[msg[i]] # "end"
<1> DEFINE T == {n \in 2 .. Len(msg) + 1 : n <= Len(msg) => Kind[msg[n]] = "end"}
<1>0. Len(msg) \in Nat
  OBVIOUS
<1>1. T \in SUBSET Nat /\ Len(msg) + 1 \in T
  BY <1>0
<1>2. PICK n \in T : \A y \in T : n <= y
  BY <1>1, LeastLine
<1>3. \A i \in 2 .. n - 1 : Kind[msg[i]] # "end"
  BY <1>0, <1>2
<1> QED
  BY <1>2, <1>3 DEF EndOfRows

\* The rows of a table are lines of the message, and all those before the end.
LEMMA ValueLinesProperties ==
    ASSUME NEW msg \in Seq(Lines), Len(msg) >= 1
    PROVE  /\ ValueLines(msg) \in Seq(Lines)
           /\ \A i \in DOMAIN ValueLines(msg) :
                 i + 1 \in 2 .. Len(msg) /\ ValueLines(msg)[i] = msg[i + 1]
           /\ \A j \in 2 .. Len(msg) :
                 (\A k \in 2 .. j : Kind[msg[k]] # "end") =>
                     j - 1 \in DOMAIN ValueLines(msg)
<1> DEFINE n == EndOfRows(msg)
<1>1. Len(msg) \in Nat /\ DOMAIN msg = 1 .. Len(msg)
  OBVIOUS
<1>2. n \in 2 .. Len(msg) + 1 /\ (n <= Len(msg) => Kind[msg[n]] = "end")
  BY EndOfRowsExists
<1>3. \A i \in 2 .. n - 1 : msg[i] \in Lines
  BY <1>1, <1>2
<1>4. /\ SubSeq(msg, 2, n - 1) \in Seq(Lines)
      /\ Len(SubSeq(msg, 2, n - 1)) = n - 2
      /\ \A i \in 1 .. n - 2 : SubSeq(msg, 2, n - 1)[i] = msg[i + 1]
  <2>1. /\ SubSeq(msg, 2, n - 1) \in Seq(Lines)
        /\ Len(SubSeq(msg, 2, n - 1)) = IF 2 <= n - 1 THEN (n - 1) - 2 + 1 ELSE 0
        /\ \A i \in 1 .. (n - 1) - 2 + 1 : SubSeq(msg, 2, n - 1)[i] = msg[2 + i - 1]
    <3>1. 2 \in Int /\ n - 1 \in Int
      BY <1>1, <1>2
    <3> HIDE DEF n
    <3> QED
      BY <1>3, <3>1, SubSeqProperties
  <2> HIDE DEF n
  <2> QED
    BY <1>1, <1>2, <2>1
<1>5. DOMAIN ValueLines(msg) = 1 .. n - 2
  BY <1>4, LenProperties DEF ValueLines
<1>6. ASSUME NEW j \in 2 .. Len(msg), \A k \in 2 .. j : Kind[msg[k]] # "end"
      PROVE  j - 1 \in 1 .. n - 2
  BY <1>1, <1>2, <1>6
<1>7. \A i \in 1 .. n - 2 : i + 1 \in 2 .. Len(msg)
  BY <1>1, <1>2
<1> HIDE DEF n
<1>8. /\ ValueLines(msg) \in Seq(Lines)
      /\ \A i \in DOMAIN ValueLines(msg) : ValueLines(msg)[i] = msg[i + 1]
  BY <1>4, <1>5 DEF ValueLines, n
<1> QED
  BY <1>5, <1>6, <1>7, <1>8

\* A table is rows of its member that show its lines, as a text is one row that does.
LEMMA ParseResultsProperties ==
    ASSUME NEW m \in Member, m.msg # <<>>
    PROVE  /\ ParseResults(m) \in Seq(Rowset)
           /\ \A r \in DOMAIN ParseResults(m) :
                 /\ ParseResults(m)[r].mbr = m.mbr
                 /\ ParseResults(m)[r].lines
                      \subseteq {m.msg[j] : j \in DOMAIN m.msg}
           /\ \A j \in 2 .. Len(m.msg) :
                 (\A k \in 2 .. j : Kind[m.msg[k]] # "end") =>
                     \E r \in DOMAIN ParseResults(m) :
                         ParseResults(m)[r] = LineRow(m.mbr, m.msg[j])
<1>1. m.msg \in Seq(Lines) /\ Len(m.msg) \in Nat \ {0} /\ m.mbr \in Members
  BY EmptySeq DEF Member
<1>2. DOMAIN m.msg = 1 .. Len(m.msg)
  BY <1>1
<1>3. \A l \in Lines : LineRow(m.mbr, l) \in Rowset
  BY <1>1 DEF LineRow, Rowset
<1>4. CASE Len(m.msg) < 2
  <2>1. ParseResults(m) = <<LineRow(m.mbr, m.msg[1])>> /\ m.msg[1] \in Lines
    BY <1>1, <1>2, <1>4 DEF ParseResults
  <2> QED
    BY <1>1, <1>2, <1>3, <1>4, <2>1 DEF LineRow
<1>5. CASE Len(m.msg) >= 2
  <2> DEFINE v == ValueLines(m.msg)
  <2>1. ParseResults(m) = [i \in DOMAIN v |-> LineRow(m.mbr, v[i])]
    BY <1>1, <1>5 DEF ParseResults, Rows
  <2>2. /\ v \in Seq(Lines)
        /\ \A i \in DOMAIN v : i + 1 \in 2 .. Len(m.msg) /\ v[i] = m.msg[i + 1]
        /\ \A j \in 2 .. Len(m.msg) :
              (\A k \in 2 .. j : Kind[m.msg[k]] # "end") => j - 1 \in DOMAIN v
    <3> DEFINE msg == m.msg
    <3>1. msg \in Seq(Lines) /\ Len(msg) >= 1
      BY <1>1
    <3> HIDE DEF msg
    <3>2. /\ ValueLines(msg) \in Seq(Lines)
          /\ \A i \in DOMAIN ValueLines(msg) :
                i + 1 \in 2 .. Len(msg) /\ ValueLines(msg)[i] = msg[i + 1]
          /\ \A j \in 2 .. Len(msg) :
                (\A k \in 2 .. j : Kind[msg[k]] # "end") => j - 1 \in DOMAIN ValueLines(msg)
      BY <3>1, ValueLinesProperties
    <3> QED
      BY <3>2 DEF msg
  <2> HIDE DEF v
  <2>3. ParseResults(m) \in Seq(Rowset)
    BY <1>3, <2>1, <2>2
  <2>4. ASSUME NEW r \in DOMAIN ParseResults(m)
        PROVE  /\ ParseResults(m)[r].mbr = m.mbr
               /\ ParseResults(m)[r].lines \subseteq {m.msg[j] : j \in DOMAIN m.msg}
    <3>1. r \in DOMAIN v /\ ParseResults(m)[r] = LineRow(m.mbr, v[r])
      BY <2>1, <2>4
    <3>2. r + 1 \in DOMAIN m.msg /\ v[r] = m.msg[r + 1]
      BY <1>1, <1>2, <2>2, <3>1
    <3> QED
      BY <3>1, <3>2 DEF LineRow
  <2>5. ASSUME NEW j \in 2 .. Len(m.msg), \A k \in 2 .. j : Kind[m.msg[k]] # "end"
        PROVE  \E r \in DOMAIN ParseResults(m) :
                  ParseResults(m)[r] = LineRow(m.mbr, m.msg[j])
    <3>1. j - 1 \in DOMAIN v /\ v[j - 1] = m.msg[j]
      BY <1>1, <2>2, <2>5
    <3> QED
      BY <2>1, <3>1
  <2> QED
    BY <2>3, <2>4, <2>5
<1> QED
  BY <1>1, <1>4, <1>5

-----------------------------------------------------------------------------
(* Facts about the answer *)

LEMMA AnswerFacts ==
    ASSUME answer \in Answers
    PROVE  /\ answer.rsp \in Seq(Elements)
           /\ answer.msgdata = Null \/ answer.msgdata \in Seq(Member)
           /\ answer.cmderr = Null \/ IsErrorList(answer.cmderr, AnsweredCodes)
           /\ answer.rc \in AnsweredCodes
           /\ answer.omname \in {Om, Null}
BY AnswersAssumption DEF IsAnswer, Member

\* The rows of texts: of the type, named, and with every line but the rulers.
LEMMA TextRows ==
    ASSUME NEW s \in Seq(Member), HasText(s)
    PROVE  /\ Rows(TextRow, s) \in Seq(Rowset)
           /\ DOMAIN Rows(TextRow, s) = DOMAIN s
           /\ \A i \in DOMAIN s :
                 /\ Rows(TextRow, s)[i].mbr = s[i].mbr
                 /\ Rows(TextRow, s)[i].lines \subseteq {s[i].msg[j] : j \in DOMAIN s[i].msg}
                 /\ \A l \in {s[i].msg[j] : j \in DOMAIN s[i].msg} :
                       Kind[l] # "ruler" => l \in Rows(TextRow, s)[i].lines
<1>1. Rows(TextRow, s) = [i \in DOMAIN s |-> TextRow(s[i])]
  BY DEF Rows
<1>2. ASSUME NEW i \in DOMAIN s
      PROVE  /\ TextRow(s[i]) \in Rowset
             /\ TextRow(s[i]).mbr = s[i].mbr
             /\ TextRow(s[i]).lines \subseteq {s[i].msg[j] : j \in DOMAIN s[i].msg}
             /\ \A l \in {s[i].msg[j] : j \in DOMAIN s[i].msg} :
                   Kind[l] # "ruler" => l \in TextRow(s[i]).lines
  <2> DEFINE msg == s[i].msg
  <2>1. s[i] \in Member /\ msg \in Seq(Lines) /\ msg # <<>>
    <3>1. s[i] \in Member
      OBVIOUS
    <3> QED
      BY <3>1 DEF Member, HasText
  <2>2. Len(msg) \in Nat \ {0} /\ DOMAIN msg = 1 .. Len(msg)
    BY <2>1, EmptySeq, LenProperties
  <2>3. TextRow(s[i]) = [mbr |-> s[i].mbr, lines |-> Text(msg)]
    BY DEF TextRow
  <2> HIDE DEF msg
  <2>4. \A j \in DOMAIN msg : msg[j] \in Lines
    BY <2>1
  <2>5. Text(msg) \subseteq {msg[j] : j \in DOMAIN msg}
    BY <2>2 DEF Text
  <2>6. ASSUME NEW j \in DOMAIN msg, Kind[msg[j]] # "ruler"
        PROVE  msg[j] \in Text(msg)
    BY <2>2, <2>6 DEF Text
  <2>7. s[i].mbr \in Members
    BY <2>1 DEF Member
  <2> QED
    BY <2>3, <2>4, <2>5, <2>6, <2>7 DEF Rowset, msg
<1> QED
  BY <1>1, <1>2

LEMMA ElementRows ==
    ASSUME NEW s \in Seq(Elements)
    PROVE  /\ Rows(ElementRow, s) \in Seq(Rowset)
           /\ DOMAIN Rows(ElementRow, s) = DOMAIN s
           /\ \A i \in DOMAIN s : /\ Rows(ElementRow, s)[i] = ElementRow(s[i])
                                 /\ Rows(ElementRow, s)[i].mbr = Null
<1>1. \A i \in DOMAIN s : s[i] \in Elements
  OBVIOUS
<1>2. \A i \in DOMAIN s : ElementRow(s[i]) \in Rowset /\ ElementRow(s[i]).mbr = Null
  BY <1>1 DEF ElementRow, Rowset
<1> QED
  BY <1>2 DEF Rows

LEMMA ErrorTypes ==
    ASSUME NEW codes, NEW errs, IsErrorList(errs, codes), NEW i \in DOMAIN errs
    PROVE  errs[i] \in [mbr : Members, rc : codes]
<1>1. errs \in Seq([mbr : Members, rc : codes])
  BY DEF IsErrorList
<1>2. i \in 1 .. Len(errs)
  BY <1>1
<1> QED
  BY <1>1, <1>2, ElementOfSeq

\* What is null in the answer is empty in the context.
LEMMA OrEmptyTypes ==
    /\ \A rc \in AnsweredCodes : OrEmpty(rc) \in ContextCodes
    /\ \A n \in {Om, Null} : OrEmpty(n) \in {Om, Empty}
BY NamesAssumption DEF OrEmpty, AnsweredCodes, ContextCodes

\* The errors in the context are those of the answer, their codes apart.
LEMMA ErrorsOfAnswer ==
    ASSUME NEW errs, IsErrorList(errs, AnsweredCodes), errs # Null
    PROVE  /\ IsErrorList(ErrorsOf(errs), ContextCodes)
           /\ DOMAIN ErrorsOf(errs) = DOMAIN errs
           /\ \A i \in DOMAIN errs : /\ ErrorsOf(errs)[i].mbr = errs[i].mbr
                                    /\ ErrorsOf(errs)[i].rc = OrEmpty(errs[i].rc)
<1>1. errs \in Seq([mbr : Members, rc : AnsweredCodes]) /\ Len(errs) \in Nat
      /\ DOMAIN errs = 1 .. Len(errs)
  BY DEF IsErrorList
<1>2. ErrorsOf(errs) = [i \in DOMAIN errs |-> [errs[i] EXCEPT !.rc = OrEmpty(errs[i].rc)]]
  BY DEF ErrorsOf
<1>3. \A i \in DOMAIN errs : errs[i] \in [mbr : Members, rc : AnsweredCodes]
  BY ErrorTypes
<1>4. \A i \in DOMAIN errs :
         [errs[i] EXCEPT !.rc = OrEmpty(errs[i].rc)]
            = [mbr |-> errs[i].mbr, rc |-> OrEmpty(errs[i].rc)]
  BY <1>3
<1>5. \A i \in DOMAIN errs : /\ ErrorsOf(errs)[i] \in [mbr : Members, rc : ContextCodes]
                              /\ ErrorsOf(errs)[i].mbr = errs[i].mbr
                              /\ ErrorsOf(errs)[i].rc = OrEmpty(errs[i].rc)
  BY <1>2, <1>3, <1>4, OrEmptyTypes
<1>6. ErrorsOf(errs) \in Seq([mbr : Members, rc : ContextCodes])
      /\ DOMAIN ErrorsOf(errs) = DOMAIN errs
  <2> DEFINE E == ErrorsOf(errs)
  <2>1. E = [i \in DOMAIN errs |-> E[i]] /\ DOMAIN E = DOMAIN errs
    BY <1>2
  <2>2. \A i \in 1 .. Len(errs) : E[i] \in [mbr : Members, rc : ContextCodes]
    BY <1>1, <1>5
  <2> HIDE DEF E
  <2>3. E \in [1 .. Len(errs) -> [mbr : Members, rc : ContextCodes]]
    BY <1>1, <2>1, <2>2
  <2> QED
    BY <1>1, <2>1, <2>3, SeqDef DEF E
<1>7. \A i, j \in DOMAIN errs : errs[i].mbr = errs[j].mbr => i = j
  BY DEF IsErrorList
<1> QED
  BY <1>5, <1>6, <1>7 DEF IsErrorList

\* A row of the elements and the texts together is a row of one of them.
LEMMA RowsOfBoth ==
    ASSUME NEW E \in Seq(Rowset), NEW M \in Seq(Rowset), NEW r \in DOMAIN (E \o M)
    PROVE  \/ r \in DOMAIN E /\ (E \o M)[r] = E[r]
           \/ \E i \in DOMAIN M : (E \o M)[r] = M[i]
<1>1. r \in 1 .. Len(E) + Len(M) /\ Len(E) \in Nat /\ Len(M) \in Nat
  BY ConcatProperties, LenProperties
<1>2. (E \o M)[r] = IF r <= Len(E) THEN E[r] ELSE M[r - Len(E)]
  BY <1>1, ConcatProperties
<1>3. CASE r <= Len(E)
  BY <1>1, <1>2, <1>3
<1>4. CASE ~ (r <= Len(E))
  <2>1. r - Len(E) \in DOMAIN M
    BY <1>1, <1>4
  <2> QED
    BY <1>2, <1>4, <2>1
<1> QED
  BY <1>3, <1>4

-----------------------------------------------------------------------------
(* The invariant holds at first and is kept by every action *)

LEMMA InitIsSafe == Init => IInv
<1> SUFFICES ASSUME Init PROVE IInv
  OBVIOUS
<1>1. TypeOK
  BY EmptySeq DEF Init, TypeOK, NoContext, NoMessages, ContextCodes
<1> QED
  BY <1>1 DEF Init, IInv, Named, Stages, Final

\* What most actions leave alone.
Kept == UNCHANGED <<inputs, data, messages>>

\* Rows placed in the result set under the names of their members are all it takes.
LEMMA KeepsRows ==
    ASSUME IInv, Kept, status' = status, status = 0,
           pc' \in {"parse", "display", "context", "body", "replied"},
           properties' \in Seq(Rowset), member' \in Nat \ {0}, context' = context,
           Named(properties)', Stages'
    PROVE  IInv'
<1>1. TypeOK'
  BY DEF IInv, TypeOK, Kept, inputs
<1>2. Named(data)'
  BY DEF IInv, Named, Kept, inputs, LinesOf
<1>3. Final'
  BY DEF Final
<1> QED
  BY <1>1, <1>2 , <1>3 DEF IInv

\* A refusal leaves nothing in the body.
LEMMA RefuseStep ==
    ASSUME IInv, pc # "replied", NEW s \in {400, 500}, Refuse(s)
    PROVE  IInv'
<1> USE DEF Refuse, GoTo, inputs
<1>1. TypeOK'
  BY DEF IInv, TypeOK
<1>2. Named(properties)' /\ Named(data)'
  BY DEF IInv, Named, LinesOf
<1>3. Stages' /\ Final'
  BY DEF Stages, Final
<1> QED
  BY <1>1, <1>2, <1>3 DEF IInv

LEMMA ReadElementsStep ==
    ASSUME IInv, ReadElements
    PROVE  IInv'
<1> DEFINE E == Rows(ElementRow, answer.rsp)
           M == IF answer.msgdata = Null THEN <<>> ELSE Rows(TextRow, answer.msgdata)
<1>1. /\ answer' = answer /\ command' = command
      /\ properties' = E \o M /\ pc' = "context" /\ pc = "parse" /\ answer.rsp # <<>>
      /\ answer.msgdata # Null => HasText(answer.msgdata)
      /\ UNCHANGED <<member, context, data, messages, status>>
  BY DEF ReadElements, GoTo, inputs
<1>2. /\ answer.rsp \in Seq(Elements)
      /\ answer.msgdata = Null \/ answer.msgdata \in Seq(Member)
  BY AnswerFacts DEF IInv, TypeOK
<1>3. /\ E \in Seq(Rowset) /\ DOMAIN E = DOMAIN answer.rsp
      /\ \A i \in DOMAIN answer.rsp : E[i] = ElementRow(answer.rsp[i]) /\ E[i].mbr = Null
  BY <1>2, ElementRows
<1>4. /\ M \in Seq(Rowset)
      /\ answer.msgdata = Null => M = <<>>
      /\ answer.msgdata # Null =>
            /\ DOMAIN M = DOMAIN answer.msgdata
            /\ \A i \in DOMAIN answer.msgdata :
                  /\ M[i].mbr = answer.msgdata[i].mbr
                  /\ M[i].lines \subseteq LinesOf(i)
                  /\ \A l \in LinesOf(i) : Kind[l] # "ruler" => l \in M[i].lines
  BY <1>1, <1>2, TextRows, EmptySeq DEF LinesOf
<1> HIDE DEF E, M
<1> DEFINE P == E \o M
<1>5. /\ P \in Seq(Rowset) /\ Len(P) = Len(E) + Len(M)
      /\ \A i \in 1 .. Len(E) + Len(M) : P[i] = IF i <= Len(E) THEN E[i] ELSE M[i - Len(E)]
  BY <1>3, <1>4, ConcatProperties
<1>6. /\ DOMAIN P = 1 .. Len(E) + Len(M)
      /\ DOMAIN E = 1 .. Len(E) /\ DOMAIN M = 1 .. Len(M)
      /\ Len(E) \in Nat /\ Len(M) \in Nat
  BY <1>3, <1>4, <1>5, LenProperties
<1> HIDE DEF P
<1>7. \A i \in DOMAIN E : i \in DOMAIN P /\ P[i] = E[i]
  BY <1>5, <1>6
<1>8. \A i \in DOMAIN M : Len(E) + i \in DOMAIN P /\ P[Len(E) + i] = M[i]
  <2>1. ASSUME NEW i \in DOMAIN M
        PROVE  Len(E) + i \in DOMAIN P /\ P[Len(E) + i] = M[i]
    <3>1. /\ Len(E) + i \in 1 .. Len(E) + Len(M)
          /\ ~ (Len(E) + i <= Len(E)) /\ (Len(E) + i) - Len(E) = i
      BY <1>6
    <3> QED
      BY <1>5, <1>6, <3>1
  <2> QED
    BY <2>1
<1>9. \A r \in DOMAIN P : \/ r \in DOMAIN E /\ P[r] = E[r]
                          \/ \E i \in DOMAIN M : P[r] = M[i]
  BY <1>3, <1>4, RowsOfBoth DEF P
<1>10. Named(P)
  <2> SUFFICES ASSUME NEW r \in DOMAIN P, P[r].mbr # Null
               PROVE  /\ answer.msgdata # Null
                      /\ \E i \in DOMAIN answer.msgdata :
                            /\ answer.msgdata[i].mbr = P[r].mbr
                            /\ P[r].lines \subseteq LinesOf(i)
    BY DEF Named
  <2>1. PICK i \in DOMAIN M : P[r] = M[i]
    BY <1>3, <1>9
  <2>2. answer.msgdata # Null
    BY <1>4, <2>1, EmptySeq
  <2> QED
    BY <1>4, <2>1, <2>2
<1>11. ShowsElements(P)
  BY <1>3, <1>7 DEF ShowsElements
<1>12. answer.msgdata # Null => \A i \in DOMAIN answer.msgdata : ShowsMember(P, i)
  BY <1>4, <1>8 DEF ShowsMember
<1>13. Complete(P)
  BY <1>1, <1>11, <1>12 DEF Complete, IsDisplay
<1>14. properties' = P
  BY <1>1 DEF P
<1>15. Named(properties)'
  BY <1>1, <1>10, <1>14 DEF Named, LinesOf
<1>16. Complete(properties)'
  BY <1>1, <1>13, <1>14 DEF Complete, IsDisplay, ShowsElements, ShowsMember, ShowsTable, LinesOf
<1>17. Stages'
  BY <1>1, <1>16 DEF IInv, Stages
<1> QED
  BY <1>1, <1>5, <1>14, <1>15, <1>17, KeepsRows DEF IInv, TypeOK, Stages, Kept, inputs

LEMMA ReadMsgdataStep ==
    ASSUME IInv, ReadMsgdata
    PROVE  IInv'
<1> DEFINE M == Rows(TextRow, answer.msgdata)
<1>1. /\ answer' = answer /\ command' = command /\ properties' = M
      /\ pc' = IF command.display /\ command.fids THEN "display" ELSE "context"
      /\ pc = "parse" /\ answer.rsp = <<>>
      /\ answer.msgdata # Null /\ HasText(answer.msgdata)
      /\ UNCHANGED <<member, context, data, messages, status>>
  BY DEF ReadMsgdata, GoTo, inputs
<1>2. answer.rsp \in Seq(Elements) /\ answer.msgdata \in Seq(Member)
  BY <1>1, AnswerFacts DEF IInv, TypeOK
<1>3. /\ M \in Seq(Rowset) /\ DOMAIN M = DOMAIN answer.msgdata
      /\ \A i \in DOMAIN answer.msgdata :
            /\ M[i].mbr = answer.msgdata[i].mbr
            /\ M[i].lines \subseteq LinesOf(i)
            /\ \A l \in LinesOf(i) : Kind[l] # "ruler" => l \in M[i].lines
  BY <1>1, <1>2, TextRows DEF LinesOf
<1> HIDE DEF M
<1>4. Named(properties)'
  BY <1>1, <1>3 DEF Named, LinesOf
<1>5. ~IsDisplay => Complete(properties)'
  <2>1. ShowsElements(M)
    BY <1>1, <1>2, EmptySeq DEF ShowsElements
  <2>2. \A i \in DOMAIN answer.msgdata : ShowsMember(M, i)
    BY <1>3 DEF ShowsMember
  <2> QED
    BY <1>1, <2>1, <2>2
    DEF Complete, IsDisplay, ShowsElements, ShowsMember, ShowsTable, LinesOf
<1>6. HasText(answer.msgdata)'
  BY <1>1 DEF HasText
<1>7. answer.msgdata # <<>> => member \in 1 .. Len(answer.msgdata)
  <2>1. answer.msgdata # <<>> => Len(answer.msgdata) \in Nat \ {0}
    BY <1>2, EmptySeq
  <2>2. member = 1
    BY <1>1 DEF IInv, Stages
  <2> QED
    BY <2>1, <2>2
<1>8. Stages'
  BY <1>1, <1>5, <1>6, <1>7 DEF IInv, Stages, IsDisplay
<1> QED
  BY <1>1, <1>3, <1>4, <1>8, KeepsRows DEF IInv, TypeOK, Stages, Kept, inputs

LEMMA ReadNothingStep ==
    ASSUME IInv, ReadNothing
    PROVE  IInv'
<1>1. /\ answer' = answer /\ command' = command /\ pc' = "context"
      /\ pc = "parse" /\ answer.rsp = <<>> /\ answer.msgdata = Null
      /\ UNCHANGED <<properties, member, context, data, messages, status>>
  BY DEF ReadNothing, GoTo, inputs
<1>2. Named(properties)'
  BY <1>1 DEF IInv, Named, LinesOf
<1>3. Complete(properties)'
  BY <1>1 DEF Complete, IsDisplay, ShowsElements
<1>4. Stages'
  BY <1>1, <1>3 DEF IInv, Stages
<1> QED
  BY <1>1, <1>2, <1>4, KeepsRows DEF IInv, TypeOK, Stages, Kept, inputs

LEMMA ParseDisplayStep ==
    ASSUME IInv, ParseDisplay
    PROVE  IInv'
<1> DEFINE m == answer.msgdata[member]
           P == ParseResults(m)
<1>1. /\ answer' = answer /\ command' = command /\ pc = "display"
      /\ properties' = P /\ member' = member + 1 /\ answer.msgdata # <<>>
      /\ pc' = IF IsLast(member) THEN "context" ELSE "display"
      /\ UNCHANGED <<context, data, messages, status>>
  BY DEF ParseDisplay, GoTo, inputs
<1>2. IsDisplay /\ HasText(answer.msgdata) /\ member \in 1 .. Len(answer.msgdata)
  BY <1>1 DEF IInv, Stages
<1>3. answer.msgdata \in Seq(Member) /\ answer.msgdata # Null
  BY <1>2, AnswerFacts DEF IInv, TypeOK, IsDisplay
<1>4. /\ Len(answer.msgdata) \in Nat /\ DOMAIN answer.msgdata = 1 .. Len(answer.msgdata)
      /\ m \in Member /\ m.msg # <<>>
  BY <1>2, <1>3, LenProperties DEF HasText
<1>5. /\ P \in Seq(Rowset)
      /\ \A r \in DOMAIN P : P[r].mbr = m.mbr /\ P[r].lines \subseteq LinesOf(member)
      /\ \A j \in 2 .. Len(m.msg) :
            (\A k \in 2 .. j : Kind[m.msg[k]] # "end") =>
                \E r \in DOMAIN P : P[r] = LineRow(m.mbr, m.msg[j])
  BY <1>4, ParseResultsProperties DEF LinesOf
<1> HIDE DEF P
<1>6. Named(P)
  BY <1>2, <1>3, <1>4, <1>5 DEF Named
<1>7. ShowsTable(P, member)
  BY <1>5 DEF ShowsTable
<1> HIDE DEF m
<1>8. Named(properties)'
  BY <1>1, <1>6 DEF Named, LinesOf
<1>9. IsDisplay'
  BY <1>1, <1>2 DEF IsDisplay
<1>10. CASE IsLast(member)
  <2>1. member = Len(answer.msgdata) /\ pc' = "context"
    BY <1>1, <1>2, <1>4, <1>10 DEF IsLast
  <2>2. ShowsTable(properties, Len(answer.msgdata))'
    BY <1>1, <1>7, <2>1 DEF ShowsTable
  <2>3. Complete(properties)'
    BY <1>9, <2>2 DEF Complete
  <2>4. Stages'
    BY <1>1, <2>1, <2>3 DEF IInv, Stages
  <2> QED
    BY <1>1, <1>5, <1>8, <2>1, <2>4, KeepsRows DEF IInv, TypeOK, Stages, Kept, inputs
<1>11. CASE ~IsLast(member)
  <2>1. member' \in 1 .. Len(answer.msgdata') /\ pc' = "display"
    BY <1>1, <1>2, <1>4, <1>11 DEF IsLast
  <2>2. HasText(answer.msgdata)'
    BY <1>1, <1>2 DEF HasText
  <2>3. Stages'
    BY <1>1, <1>9, <2>1, <2>2 DEF IInv, Stages
  <2>4. member' \in Nat \ {0}
    BY <1>1 DEF IInv, TypeOK
  <2> QED
    BY <1>1, <1>5, <1>8, <2>1, <2>3, <2>4, KeepsRows DEF IInv, TypeOK, Stages, Kept, inputs
<1> QED
  BY <1>10, <1>11

LEMMA SkipDisplayStep ==
    ASSUME IInv, SkipDisplay
    PROVE  IInv'
<1>1. /\ answer' = answer /\ command' = command /\ pc' = "context"
      /\ pc = "display" /\ answer.msgdata = <<>>
      /\ UNCHANGED <<properties, member, context, data, messages, status>>
  BY DEF SkipDisplay, GoTo, inputs
<1>2. Named(properties)'
  BY <1>1 DEF IInv, Named, LinesOf
<1>3. IsDisplay
  BY <1>1 DEF IInv, Stages
<1>4. Complete(properties)'
  BY <1>1, <1>3 DEF Complete, IsDisplay
<1>5. Stages'
  BY <1>1, <1>4 DEF IInv, Stages
<1> QED
  BY <1>1, <1>2, <1>5, KeepsRows DEF IInv, TypeOK, Stages, Kept, inputs

LEMMA SetContextStep ==
    ASSUME IInv, SetContext
    PROVE  IInv'
<1>1. /\ answer' = answer /\ command' = command /\ pc' = "body" /\ pc = "context"
      /\ context' = [rc |-> OrEmpty(answer.rc), omname |-> OrEmpty(answer.omname),
                     errs |-> ErrorsOf(answer.cmderr)]
      /\ UNCHANGED <<properties, member, data, messages, status>>
  BY DEF SetContext, GoTo, inputs
<1>2. TypeOK'
  <2>1. /\ answer.cmderr = Null \/ IsErrorList(answer.cmderr, AnsweredCodes)
        /\ answer.rc \in AnsweredCodes /\ answer.omname \in {Om, Null}
    BY AnswerFacts DEF IInv, TypeOK
  <2>2. ErrorsOf(answer.cmderr) = Null \/ IsErrorList(ErrorsOf(answer.cmderr), ContextCodes)
    BY <2>1, ErrorsOfAnswer DEF ErrorsOf
  <2>3. OrEmpty(answer.rc) \in ContextCodes /\ OrEmpty(answer.omname) \in {Om, Empty}
    BY <2>1, OrEmptyTypes
  <2> DEFINE c == [rc |-> OrEmpty(answer.rc), omname |-> OrEmpty(answer.omname),
                   errs |-> ErrorsOf(answer.cmderr)]
  <2>4. /\ c.rc \in ContextCodes /\ c.omname \in {Om, Empty}
        /\ c.errs = Null \/ IsErrorList(c.errs, ContextCodes)
    BY <2>2, <2>3
  <2>5. context' = c
    BY <1>1
  <2> HIDE DEF c
  <2> QED
    BY <1>1, <2>4, <2>5 DEF IInv, TypeOK, IsErrorList
<1>3. Named(properties)' /\ Named(data)'
  BY <1>1 DEF IInv, Named, LinesOf
<1>4. Complete(properties)'
  BY <1>1 DEF IInv, Stages, Complete, IsDisplay, ShowsElements, ShowsMember, ShowsTable, LinesOf
<1>5. Stages' /\ Final'
  BY <1>1, <1>4 DEF IInv, Stages, Final
<1> QED
  BY <1>2, <1>3, <1>5 DEF IInv

\* The messages are the codes in the context, which the answer gave.
LEMMA ReplyStep ==
    ASSUME IInv, Reply
    PROVE  IInv'
<1>1. /\ answer' = answer /\ command' = command /\ pc = "body" /\ pc' = "replied"
      /\ data' = Data /\ messages' = Messages /\ status' = 200
      /\ UNCHANGED <<properties, member, context>>
  BY DEF Reply, GoTo, inputs
<1>2. /\ answer.rsp \in Seq(Elements)
      /\ answer.msgdata = Null \/ answer.msgdata \in Seq(Member)
      /\ answer.cmderr = Null \/ IsErrorList(answer.cmderr, AnsweredCodes)
      /\ answer.rc \in AnsweredCodes /\ answer.omname \in {Om, Null}
  BY AnswerFacts DEF IInv, TypeOK
<1>3. /\ Complete(properties) /\ Named(properties) /\ properties \in Seq(Rowset)
      /\ context.rc = OrEmpty(answer.rc) /\ context.omname = OrEmpty(answer.omname)
      /\ context.errs = ErrorsOf(answer.cmderr)
  BY <1>1 DEF IInv, Stages, TypeOK
<1>4. Data \in Seq(Rowset)
  <2>1. EmptyRow \in Rowset
    BY DEF EmptyRow, Rowset
  <2> QED
    BY <1>3, <2>1 DEF Data
<1>5. Named(Data)
  <2>1. CASE properties = <<>>
    <3>1. Data = <<EmptyRow>> /\ EmptyRow.mbr = Null
      BY <2>1 DEF Data, EmptyRow
    <3> QED
      BY <3>1 DEF Named
  <2> QED
    BY <1>3, <2>1 DEF Data
<1>6. Complete(Data)
  <2>1. CASE properties = <<>>
    <3>1. DOMAIN properties = {} /\ Data = <<EmptyRow>> /\ EmptyRow.mbr = Null
      BY <2>1 DEF Data, EmptyRow
    <3>2. /\ ShowsElements(properties) => ShowsElements(Data)
          /\ \A i : ShowsMember(properties, i) => ShowsMember(Data, i)
      BY <3>1 DEF ShowsElements, ShowsMember
    <3>3. ASSUME NEW i, ShowsTable(properties, i)
          PROVE  ShowsTable(Data, i)
      BY <3>1, <3>3 DEF ShowsTable
    <3> QED
      BY <1>3, <3>2, <3>3 DEF Complete
  <2> QED
    BY <1>3, <2>1 DEF Data
<1> DEFINE Typed == /\ DOMAIN Messages \subseteq Members \cup {Om, Empty}
                    /\ \A n \in DOMAIN Messages : Messages[n] \in Codes \cup {Empty, Null}
           Said(r) == /\ r.mbr \in DOMAIN Messages
                      /\ Messages[r.mbr] = CodeOf(OrEmpty(r.rc))
           Reported == /\ Typed
                       /\ \A r \in Reports : Said(r) /\ r.rc \in AnsweredCodes
                       /\ \A n \in DOMAIN Messages : \E r \in Reports : r.mbr = n
<1>7. \A rc \in AnsweredCodes : CodeOf(OrEmpty(rc)) \in Codes \cup {Empty, Null}
  BY NamesAssumption DEF CodeOf, OrEmpty, AnsweredCodes
<1>8. ASSUME answer.cmderr = Null
      PROVE  Reported
  <2>1. Messages = [n \in {OrEmpty(answer.omname)} |-> CodeOf(OrEmpty(answer.rc))]
    BY <1>3, <1>8 DEF Messages, ErrorsOf
  <2>2. OrEmpty(answer.omname) \in {Om, Empty}
    BY <1>2, OrEmptyTypes
  <2>3. CodeOf(OrEmpty(answer.rc)) \in Codes \cup {Empty, Null}
    BY <1>7, <1>2
  <2>4. Typed
    BY <2>1, <2>2, <2>3
  <2>5. Reports = {[mbr |-> OrEmpty(answer.omname), rc |-> answer.rc]}
    BY <1>8 DEF Reports
  <2>6. /\ \A r \in Reports : Said(r) /\ r.rc \in AnsweredCodes
        /\ \A n \in DOMAIN Messages : \E r \in Reports : r.mbr = n
    BY <1>2, <2>1, <2>5
  <2> QED
    BY <2>4, <2>6
<1>9. ASSUME answer.cmderr # Null
      PROVE  Reported
  <2> DEFINE errs == answer.cmderr
             E == ErrorsOf(errs)
             names == {E[i].mbr : i \in DOMAIN E}
             at(n) == CHOOSE i \in DOMAIN E : E[i].mbr = n
  <2>1. /\ IsErrorList(E, ContextCodes) /\ DOMAIN E = DOMAIN errs
        /\ \A i \in DOMAIN errs : E[i].mbr = errs[i].mbr /\ E[i].rc = OrEmpty(errs[i].rc)
    BY <1>2, <1>9, ErrorsOfAnswer
  <2>2. \A i, j \in DOMAIN E : E[i].mbr = E[j].mbr => i = j
    BY <2>1 DEF IsErrorList
  <2>3. \A i \in DOMAIN errs : errs[i].mbr \in Members /\ errs[i].rc \in AnsweredCodes
    BY <1>2, <1>9, ErrorTypes
  <2>14. E # Null
    BY <2>1, ErrorsAssumption
  <2>4. Messages = [n \in names |-> CodeOf(E[at(n)].rc)]
    BY <1>3, <2>14 DEF Messages, MessagesOf
  <2>13. Reports = {errs[i] : i \in DOMAIN errs}
    BY <1>9 DEF Reports
  <2> HIDE DEF errs, E
  <2>5. \A n \in names : at(n) \in DOMAIN E /\ E[at(n)].mbr = n
    OBVIOUS
  <2>6. \A i \in DOMAIN E : E[i].mbr \in names /\ at(E[i].mbr) = i
    BY <2>2, <2>5
  <2>7. /\ DOMAIN Messages = names
        /\ \A n \in names : Messages[n] = CodeOf(E[at(n)].rc)
    BY <2>4
  <2> HIDE DEF at
  <2>8. /\ \A i \in DOMAIN errs : /\ errs[i].mbr \in DOMAIN Messages
                                /\ Messages[errs[i].mbr] = CodeOf(OrEmpty(errs[i].rc))
        /\ \A n \in DOMAIN Messages : \E i \in DOMAIN errs : errs[i].mbr = n
    BY <2>1, <2>6, <2>7
  <2>9. /\ \A r \in Reports : Said(r) /\ r.rc \in AnsweredCodes
        /\ \A n \in DOMAIN Messages : \E r \in Reports : r.mbr = n
    BY <2>3, <2>8, <2>13
  <2>10. names \subseteq Members
    BY <2>1, <2>3
  <2>11. \A n \in names : CodeOf(E[at(n)].rc) \in Codes \cup {Empty, Null}
    BY <1>7, <2>1, <2>3, <2>5
  <2> QED
    BY <2>7, <2>9, <2>10, <2>11
<1>10. Reported
  BY <1>8, <1>9
<1>11. ASSUME NEW r \in Reports
       PROVE  Tells(r)'
  <2>1. Said(r) /\ r.rc \in AnsweredCodes
    BY <1>10
  <2>2. /\ r.mbr \in DOMAIN messages'
        /\ messages'[r.mbr] = CodeOf(OrEmpty(r.rc))
    BY <1>1, <2>1
  <2>3. /\ r.rc = Zero => CodeOf(OrEmpty(r.rc)) = Null
        /\ r.rc = Null => CodeOf(OrEmpty(r.rc)) = Empty
        /\ r.rc \in Codes => CodeOf(OrEmpty(r.rc)) = r.rc
    BY NamesAssumption, CodesAssumption DEF CodeOf, OrEmpty
  <2> QED
    BY <2>2, <2>3 DEF Tells
<1>12. Reports' = Reports
  BY <1>1 DEF Reports
<1>13. FailuresReachTheClient'
  BY <1>1, <1>10, <1>11, <1>12 DEF FailuresReachTheClient
<1>14. TypeOK'
  BY <1>1, <1>4, <1>10 DEF IInv, TypeOK, IsErrorList
<1>15. Named(properties)' /\ Named(data)'
  BY <1>1, <1>3, <1>5 DEF Named, LinesOf
<1>16. Complete(data)'
  BY <1>1, <1>6 DEF Complete, IsDisplay, ShowsElements, ShowsMember, ShowsTable, LinesOf
<1>17. Stages' /\ Final'
  BY <1>1, <1>16, <1>13 DEF Stages, Final
<1> QED
  BY <1>14, <1>15, <1>17 DEF IInv

LEMMA StepIsSafe == IInv /\ [Next]_vars => IInv'
<1> SUFFICES ASSUME IInv, [Next]_vars PROVE IInv'
  OBVIOUS
<1>1. CASE FailParse \/ FailText \/ FailDisplay
  BY <1>1, RefuseStep DEF FailParse, FailText, FailDisplay
<1>2. CASE ReadElements
  BY <1>2, ReadElementsStep
<1>3. CASE ReadMsgdata
  BY <1>3, ReadMsgdataStep
<1>4. CASE ReadNothing
  BY <1>4, ReadNothingStep
<1>5. CASE ParseDisplay
  BY <1>5, ParseDisplayStep
<1>6. CASE SkipDisplay
  BY <1>6, SkipDisplayStep
<1>7. CASE SetContext
  BY <1>7, SetContextStep
<1>8. CASE Reply
  BY <1>8, ReplyStep
<1>9. CASE UNCHANGED vars
  <2>1. Named(properties)' /\ Named(data)'
    BY <1>9 DEF IInv, Named, LinesOf, vars, inputs
  <2>4. TypeOK'
    BY <1>9 DEF IInv, TypeOK, IsErrorList, vars, inputs
  <2>2. Stages'
    BY <1>9 DEF IInv, Stages, Complete, IsDisplay, ShowsElements, ShowsMember, ShowsTable,
                 LinesOf, HasText, vars, inputs
  <2>3. Final'
    BY <1>9 DEF IInv, Final, FailuresReachTheClient, Reports, Tells, Complete, IsDisplay,
                 ShowsElements, ShowsMember, ShowsTable, LinesOf, vars, inputs
  <2> QED
    BY <2>1, <2>2, <2>3, <2>4 DEF IInv
<1> QED
  BY <1>1, <1>2, <1>3, <1>4, <1>5, <1>6, <1>7, <1>8, <1>9 DEF Next, Process

-----------------------------------------------------------------------------
(* The theorems *)

\* The invariant holds in every state (processResponse and executeImsCommand).
THEOREM Safety == Spec => []IInv
  BY InitIsSafe, StepIsSafe, PTL DEF Spec

\* Every variable keeps to its type: a reply is a 200, a 400 or a 500, and what is
\* written as a code is the code of an error or, for one that is missing, empty.
THEOREM Typing == Spec => []TypeOK
<1>1. IInv => TypeOK
  BY DEF IInv
<1> QED
  BY <1>1, Safety, PTL

\* A 200 tells the client of every failure of the answer, and of no other: what has no
\* code in the body was reported as zero, not left out by the answer.
THEOREM FailuresAreReported == Spec => []FailuresReachTheClient
<1>1. IInv => FailuresReachTheClient
  BY DEF IInv, Final, FailuresReachTheClient
<1> QED
  BY <1>1, Safety, PTL

\* A line in the body stands under the name of a member that sent it.
THEOREM RowsAreNamed == Spec => []RowsNameTheirMember
<1>1. IInv => RowsNameTheirMember
  BY DEF IInv, RowsNameTheirMember
<1> QED
  BY <1>1, Safety, PTL

\* Apart from displays the body has every response element and every line.
THEOREM BodiesAreComplete == Spec => []NothingIsWithheld
<1>1. IInv => NothingIsWithheld
  BY DEF IInv, Final, NothingIsWithheld, Complete
<1> QED
  BY <1>1, Safety, PTL

\* The body of a display is the table of the last member, whole and alone.
THEOREM DisplaysAreOfTheLast == Spec => []DisplayShowsLastMember
<1>1. IInv => DisplayShowsLastMember
  BY DEF IInv, Final, DisplayShowsLastMember, Complete
<1> QED
  BY <1>1, Safety, PTL

=============================================================================
