----------------------------- MODULE CommandsProof -----------------------------
(***************************************************************************)
(* Proofs about Commands.                                                  *)
(***************************************************************************)
EXTENDS Commands, CommandTextProof

-----------------------------------------------------------------------------
(* The command beans *)

IsSequence(s) == \E n \in Nat : DOMAIN s = 1 .. n /\ Len(s) = n

\* The fields that have one value are not among those that have a list, and no field has
\* the keyword of the route.
IsField(ones, field) ==
    \/ field.kind = "list" /\ field.key # "ROUTE" /\ field.key \notin ones
    \/ field.kind = "one" /\ field.key # "ROUTE" /\ field.key \in ones
    \/ /\ field.kind = "group" /\ field.key \in {"SET", "LIKE", "QCNT"}
       /\ IsSequence(field.keys)

IsBean(b) ==
    /\ b.verb \in {"QUERY", "CREATE", "UPDATE", "DELETE"}
    /\ IsSequence(b.fields)
    /\ \E ones : \A i \in DOMAIN b.fields : IsField(ones, b.fields[i])

LEMMA Fields ==
    /\ \A ones, key : key # "ROUTE" /\ key \notin ones => IsField(ones, ListField(key))
    /\ \A ones, key : key # "ROUTE" /\ key \in ones => IsField(ones, OneField(key))
    /\ \A ones, key, keys : key \in {"SET", "LIKE", "QCNT"} /\ IsSequence(keys) =>
                              IsField(ones, Group(key, keys))
BY DEF IsField, ListField, OneField, Group, FieldOf

LEMMA SequencesOfKeys ==
    /\ IsSequence(<<"QCNTComp", "QCNTValue">>) /\ IsSequence(<<"DESC", "RSC">>)
    /\ \A lock : lock \in {<<>>, <<"LOCK">>} => IsSequence(PgmAttributes(lock))
    /\ \A cpri, lock : cpri \in {<<>>, <<"CPRI">>} /\ lock \in {<<>>, <<"LOCK">>} =>
                          IsSequence(TranAttributes(cpri, lock))
<1>1. IsSequence(<<"QCNTComp", "QCNTValue">>) /\ IsSequence(<<"DESC", "RSC">>)
  BY DEF IsSequence
<1>2. ASSUME NEW lock, lock \in {<<>>, <<"LOCK">>}
      PROVE  IsSequence(PgmAttributes(lock))
  <2> DEFINE S == {"BMPTYPE", "DOPT", "FP", "GPSB", "LANG", "LOCK", "RESIDENT", "SCHDTYPE",
                   "TRANSTAT"}
  <2>1. /\ <<"BMPTYPE", "DOPT", "FP", "GPSB", "LANG">> \in Seq(S)
        /\ lock \in Seq(S)
        /\ <<"RESIDENT", "SCHDTYPE", "TRANSTAT">> \in Seq(S)
    <3>1. <<"BMPTYPE", "DOPT", "FP", "GPSB", "LANG">> \in Seq(S)
      OBVIOUS
    <3>2. <<>> \in Seq(S) /\ <<"LOCK">> \in Seq(S)
      OBVIOUS
    <3>3. <<"RESIDENT", "SCHDTYPE", "TRANSTAT">> \in Seq(S)
      OBVIOUS
    <3> HIDE DEF S
    <3>4. lock \in Seq(S)
      BY Zenon, <1>2, <3>2
    <3> QED
      BY <3>1, <3>3, <3>4
  <2> HIDE DEF S
  <2>2. PgmAttributes(lock) \in Seq(S)
    BY <2>1, BothTexts DEF PgmAttributes
  <2> QED
    BY <2>2 DEF IsSequence
<1>3. ASSUME NEW cpri, NEW lock, cpri \in {<<>>, <<"CPRI">>}, lock \in {<<>>, <<"LOCK">>}
      PROVE  IsSequence(TranAttributes(cpri, lock))
  <2> DEFINE first == <<"AOCMD", "CLASS", "CMTMODE", "CONV">>
             middle == <<"DCLWA", "DIRROUTE", "EDITRTN", "EDITUC", "EMHBSZ", "EXPRTIME", "FP", "INQ",
                         "LCT">>
             last == <<"LPRI", "MAXRGN", "MSGTYPE", "MSNAME", "NPRI", "PARLIM", "PGM", "PLCT",
                       "PLCTTIME", "RECOVER", "REMOTE", "RESP", "SEGNO", "SEGSZ", "SERIAL", "SIDL",
                       "SIDR", "SPASZ", "SPATRUNC", "TRANSTAT", "WFI">>
             S == {"CPRI", "LOCK"} \cup {first[i] : i \in DOMAIN first}
                    \cup {middle[i] : i \in DOMAIN middle} \cup {last[i] : i \in DOMAIN last}
  <2>1. cpri \in Seq(S) /\ lock \in Seq(S)
    <3>1. <<>> \in Seq(S) /\ <<"LOCK">> \in Seq(S) /\ <<"CPRI">> \in Seq(S)
      <4>1. "LOCK" \in S /\ "CPRI" \in S
        OBVIOUS
      <4> HIDE DEF S
      <4> QED
        BY <4>1
    <3> HIDE DEF S
    <3> QED
      BY Zenon, <1>3, <3>1
  <2>2. first \in Seq(S)
    <3>1. first \in Seq({first[i] : i \in DOMAIN first})
      OBVIOUS
    <3> QED
      BY <3>1, SeqMonotonic
  <2>3. middle \in Seq(S)
    <3>1. middle \in Seq({middle[i] : i \in DOMAIN middle})
      OBVIOUS
    <3> QED
      BY <3>1, SeqMonotonic
  <2>4. last \in Seq(S)
    <3>1. last \in Seq({last[i] : i \in DOMAIN last})
      OBVIOUS
    <3> QED
      BY <3>1, SeqMonotonic
  <2>5. TranAttributes(cpri, lock) = (((first \o cpri) \o middle) \o lock) \o last
    BY Zenon DEF TranAttributes
  <2> HIDE DEF S, first, middle, last
  <2>6. TranAttributes(cpri, lock) \in Seq(S)
    BY <2>1, <2>2, <2>3, <2>4, <2>5, BothTexts
  <2> QED
    BY <2>6 DEF IsSequence
<1> QED
  BY <1>1, <1>2, <1>3

LEMMA BeansAreBeans ==
    ASSUME NEW m \in Type2Methods
    PROVE  IsBean(Beans[m])
<1>0. Type2Methods = {"QueryTran", "CreateTran", "UpdateTran", "DeleteTran", "QueryPgm", "CreatePgm", "UpdatePgm", "DeletePgm"}
  BY DEF Type2Methods, Beans
<1>1. CASE m = "QueryTran"
  <2>1. /\ Beans["QueryTran"].verb = "QUERY"
        /\ Beans["QueryTran"].fields =
             <<ListField("NAME"), ListField("CLASS"), Group("QCNT", <<"QCNTComp", "QCNTValue">>),
               ListField("STATUS"), ListField("SHOW"), OneField("CONV"), OneField("FP"),
               OneField("REMOTE"), OneField("RESP")>>
    BY DEF Beans, Bean
  <2>2. \A i \in DOMAIN Beans["QueryTran"].fields : IsField({"CONV", "FP", "REMOTE", "RESP"}, Beans["QueryTran"].fields[i])
    <3> DEFINE ones == {"CONV", "FP", "REMOTE", "RESP"}
    <3>1. /\ IsField(ones, ListField("NAME")) /\ IsField(ones, ListField("CLASS"))
          /\ IsField(ones, ListField("STATUS")) /\ IsField(ones, ListField("SHOW"))
      BY Fields
    <3>2. /\ IsField(ones, OneField("CONV")) /\ IsField(ones, OneField("FP"))
          /\ IsField(ones, OneField("REMOTE")) /\ IsField(ones, OneField("RESP"))
      BY Fields
    <3>3. IsField(ones, Group("QCNT", <<"QCNTComp", "QCNTValue">>))
      BY Fields, SequencesOfKeys
    <3> HIDE DEF ones
    <3>4. \A i \in DOMAIN Beans["QueryTran"].fields : IsField(ones, Beans["QueryTran"].fields[i])
      BY <2>1, <3>1, <3>2, <3>3
    <3> QED
      BY Zenon, <3>4 DEF ones
  <2>3. DOMAIN Beans["QueryTran"].fields = 1 .. 9 /\ Len(Beans["QueryTran"].fields) = 9
    BY <2>1
  <2> QED
    BY <1>1, <2>1, <2>2, <2>3 DEF IsBean, IsSequence
<1>2. CASE m = "CreateTran"
  <2>1. /\ Beans["CreateTran"].verb = "CREATE"
        /\ Beans["CreateTran"].fields =
             <<ListField("NAME"), Group("LIKE", <<"DESC", "RSC">>),
               Group("SET", TranAttributes(<<>>, <<>>))>>
    BY DEF Beans, Bean
  <2>2. \A i \in DOMAIN Beans["CreateTran"].fields : IsField({}, Beans["CreateTran"].fields[i])
    BY <2>1, Fields, SequencesOfKeys
  <2>3. DOMAIN Beans["CreateTran"].fields = 1 .. 3 /\ Len(Beans["CreateTran"].fields) = 3
    BY <2>1
  <2> QED
    BY <1>2, <2>1, <2>2, <2>3 DEF IsBean, IsSequence
<1>3. CASE m = "UpdateTran"
  <2>1. /\ Beans["UpdateTran"].verb = "UPDATE"
        /\ Beans["UpdateTran"].fields =
             <<ListField("NAME"), ListField("CLASS"), ListField("START"), ListField("STOP"),
               Group("SET", TranAttributes(<<"CPRI">>, <<"LOCK">>)), ListField("OPTION"),
               OneField("SCOPE")>>
    BY DEF Beans, Bean
  <2>2. \A i \in DOMAIN Beans["UpdateTran"].fields : IsField({"SCOPE"}, Beans["UpdateTran"].fields[i])
    BY <2>1, Fields, SequencesOfKeys
  <2>3. DOMAIN Beans["UpdateTran"].fields = 1 .. 7 /\ Len(Beans["UpdateTran"].fields) = 7
    BY <2>1
  <2> QED
    BY <1>3, <2>1, <2>2, <2>3 DEF IsBean, IsSequence
<1>4. CASE m = "DeleteTran"
  <2>1. /\ Beans["DeleteTran"].verb = "DELETE"
        /\ Beans["DeleteTran"].fields =
             <<ListField("NAME"), OneField("OPTION")>>
    BY DEF Beans, Bean
  <2>2. \A i \in DOMAIN Beans["DeleteTran"].fields : IsField({"OPTION"}, Beans["DeleteTran"].fields[i])
    BY <2>1, Fields, SequencesOfKeys
  <2>3. DOMAIN Beans["DeleteTran"].fields = 1 .. 2 /\ Len(Beans["DeleteTran"].fields) = 2
    BY <2>1
  <2> QED
    BY <1>4, <2>1, <2>2, <2>3 DEF IsBean, IsSequence
<1>5. CASE m = "QueryPgm"
  <2>1. /\ Beans["QueryPgm"].verb = "QUERY"
        /\ Beans["QueryPgm"].fields =
             <<ListField("NAME"), ListField("SHOW"), ListField("STATUS")>>
    BY DEF Beans, Bean
  <2>2. \A i \in DOMAIN Beans["QueryPgm"].fields : IsField({}, Beans["QueryPgm"].fields[i])
    BY <2>1, Fields, SequencesOfKeys
  <2>3. DOMAIN Beans["QueryPgm"].fields = 1 .. 3 /\ Len(Beans["QueryPgm"].fields) = 3
    BY <2>1
  <2> QED
    BY <1>5, <2>1, <2>2, <2>3 DEF IsBean, IsSequence
<1>6. CASE m = "CreatePgm"
  <2>1. /\ Beans["CreatePgm"].verb = "CREATE"
        /\ Beans["CreatePgm"].fields =
             <<ListField("NAME"), Group("LIKE", <<"DESC", "RSC">>), Group("SET", PgmAttributes(<<>>))>>
    BY DEF Beans, Bean
  <2>2. \A i \in DOMAIN Beans["CreatePgm"].fields : IsField({}, Beans["CreatePgm"].fields[i])
    BY <2>1, Fields, SequencesOfKeys
  <2>3. DOMAIN Beans["CreatePgm"].fields = 1 .. 3 /\ Len(Beans["CreatePgm"].fields) = 3
    BY <2>1
  <2> QED
    BY <1>6, <2>1, <2>2, <2>3 DEF IsBean, IsSequence
<1>7. CASE m = "UpdatePgm"
  <2>1. /\ Beans["UpdatePgm"].verb = "UPDATE"
        /\ Beans["UpdatePgm"].fields =
             <<ListField("NAME"), ListField("START"), ListField("STOP"),
               Group("SET", PgmAttributes(<<"LOCK">>)), OneField("OPTION")>>
    BY DEF Beans, Bean
  <2>2. \A i \in DOMAIN Beans["UpdatePgm"].fields : IsField({"OPTION"}, Beans["UpdatePgm"].fields[i])
    BY <2>1, Fields, SequencesOfKeys
  <2>3. DOMAIN Beans["UpdatePgm"].fields = 1 .. 5 /\ Len(Beans["UpdatePgm"].fields) = 5
    BY <2>1
  <2> QED
    BY <1>7, <2>1, <2>2, <2>3 DEF IsBean, IsSequence
<1>8. CASE m = "DeletePgm"
  <2>1. /\ Beans["DeletePgm"].verb = "DELETE"
        /\ Beans["DeletePgm"].fields =
             <<ListField("NAME"), OneField("OPTION")>>
    BY DEF Beans, Bean
  <2>2. \A i \in DOMAIN Beans["DeletePgm"].fields : IsField({"OPTION"}, Beans["DeletePgm"].fields[i])
    BY <2>1, Fields, SequencesOfKeys
  <2>3. DOMAIN Beans["DeletePgm"].fields = 1 .. 2 /\ Len(Beans["DeletePgm"].fields) = 2
    BY <2>1
  <2> QED
    BY <1>8, <2>1, <2>2, <2>3 DEF IsBean, IsSequence
<1> QED
  BY <1>0, <1>1, <1>2, <1>3, <1>4, <1>5, <1>6, <1>7, <1>8

-----------------------------------------------------------------------------
(* The tokens of commands *)

AllFields == UNION {ToSet(Beans[m].fields) : m \in Type2Methods}

WordNames ==
    {"CMD", "ROUTE", "STOP", "REGION", "ABDUMP", "TRANSACTION", "CANCEL", "JOBNAME", "START", "LOCAL",
     "DIS", "ACT", "STA", "TRAN", "PGM", "ALL", "CLASS", "AFFINITY", "OPTION=AOPOUTPUT"}
      \cup {Beans[m].verb : m \in Type2Methods} \cup {Beans[m].resource : m \in Type2Methods}
      \cup {field.key : field \in AllFields} \cup UNION {ToSet(field.keys) : field \in AllFields}

Words == {K(word) : word \in WordNames}

\* What a client gives, for a parameter that allows it.
Items == UNION {ToSet(list) : list \in Lists \cup Routes \cup {<<"true">>}}
Allows(p, item) == item = "bad" => ~Enumerated(p)
Said(params) == UNION {{V(p, item) : item \in {i \in Items : Allows(p, i)}} : p \in params}

IsPair(p) == p = <<p[1], p[2]>>
RouteParam == <<"", "ROUTE">>
BodyParams == {p \in UNION {Params(m) : m \in Methods} : IsPair(p) /\ p # RouteParam}

BodyTokens == Marks \cup Words \cup Said(BodyParams)
RouteTokens == Marks \cup Words \cup Said({RouteParam})
Tokens == BodyTokens \cup RouteTokens

LEMMA WordsAreTokens ==
    /\ Marks \subseteq BodyTokens /\ Marks \subseteq RouteTokens /\ Marks \subseteq Tokens
    /\ \A word \in WordNames : /\ K(word) \in BodyTokens /\ K(word) \in RouteTokens
                               /\ K(word) \in Tokens
    /\ BodyTokens \subseteq Tokens /\ RouteTokens \subseteq Tokens
BY Zenon DEF BodyTokens, RouteTokens, Tokens, Words

LEMMA WordsOfBeans ==
    ASSUME NEW m \in Type2Methods
    PROVE  /\ Beans[m].verb \in WordNames /\ Beans[m].resource \in WordNames
           /\ \A i \in DOMAIN Beans[m].fields :
                 /\ Beans[m].fields[i].key \in WordNames
                 /\ \A j \in DOMAIN Beans[m].fields[i].keys : Beans[m].fields[i].keys[j] \in WordNames
<1>1. Beans[m].verb \in WordNames /\ Beans[m].resource \in WordNames
  BY Zenon DEF WordNames
<1>2. ASSUME NEW i \in DOMAIN Beans[m].fields
      PROVE  /\ Beans[m].fields[i].key \in WordNames
             /\ \A j \in DOMAIN Beans[m].fields[i].keys : Beans[m].fields[i].keys[j] \in WordNames
  <2> DEFINE field == Beans[m].fields[i]
  <2>1. field \in AllFields
    <3>1. field \in ToSet(Beans[m].fields)
      BY DEF ToSet
    <3> HIDE DEF field
    <3> QED
      BY <3>1 DEF AllFields
  <2> HIDE DEF field
  <2>2. field.key \in WordNames
    BY Zenon, <2>1 DEF WordNames
  <2>3. \A j \in DOMAIN field.keys : field.keys[j] \in WordNames
    <3>1. \A j \in DOMAIN field.keys : field.keys[j] \in ToSet(field.keys)
      BY DEF ToSet
    <3>2. ToSet(field.keys) \subseteq WordNames
      BY Zenon, <2>1 DEF WordNames
    <3> QED
      BY <3>1, <3>2
  <2> QED
    BY <2>2, <2>3 DEF field
<1> QED
  BY <1>1, <1>2

-----------------------------------------------------------------------------
(* The parameters *)

\* No parameter of a method is taken for the route.
LEMMA ParamsOfMethods ==
    ASSUME NEW m \in Methods, NEW p \in Params(m)
    PROVE  p \in BodyParams
<1>1. IsPair(p) /\ p # RouteParam
  <2>1. CASE m \in Type2Methods
    <3>1. PICK field \in ToSet(Beans[m].fields) : p \in ParamsOf(field)
      BY <2>1 DEF Params
    <3>2. \E ones : IsField(ones, field)
      BY <2>1, BeansAreBeans DEF IsBean, ToSet
    <3>3. CASE field.kind = "group"
      <4>1. field.key \in {"SET", "LIKE", "QCNT"}
        BY <3>2, <3>3 DEF IsField
      <4>2. PICK key \in ToSet(field.keys) : p = <<field.key, key>>
        BY <3>1, <3>3 DEF ParamsOf
      <4> QED
        BY <4>1, <4>2 DEF RouteParam, IsPair
    <3>4. CASE field.kind # "group"
      <4>1. field.key # "ROUTE"
        BY <3>2, <3>4 DEF IsField
      <4>2. p = <<"", field.key>>
        BY <3>1, <3>4 DEF ParamsOf
      <4> QED
        BY <4>1, <4>2 DEF RouteParam, IsPair
    <3> QED
      BY <3>3, <3>4
  <2>2. CASE m \notin Type2Methods
    <3>1. m \in {"StopRegion", "StartRegion", "DisplayRegion", "StartTran", "StartPgm"}
      BY <2>2, MethodsAssumption DEF Type1Params
    <3>2. p \in Type1Params[m]
      BY <2>2 DEF Params
    <3> DEFINE keys == {"reg_num", "job_name", "abdump", "transaction", "cancel", "member_name",
                        "local", "dc", "region", "name", "class", "affinity"}
    <3>3. CASE m = "StopRegion"
      <4>1. PICK key \in keys : p = <<"", key>>
        BY <3>2, <3>3 DEF Type1Params
      <4> QED
        BY <4>1 DEF RouteParam, IsPair
    <3>4. CASE m = "StartRegion"
      <4>1. PICK key \in keys : p = <<"", key>>
        BY <3>2, <3>4 DEF Type1Params
      <4> QED
        BY <4>1 DEF RouteParam, IsPair
    <3>5. CASE m = "DisplayRegion"
      <4>1. PICK key \in keys : p = <<"", key>>
        BY <3>2, <3>5 DEF Type1Params
      <4> QED
        BY <4>1 DEF RouteParam, IsPair
    <3>6. CASE m = "StartTran"
      <4>1. PICK key \in keys : p = <<"", key>>
        BY <3>2, <3>6 DEF Type1Params
      <4> QED
        BY <4>1 DEF RouteParam, IsPair
    <3>7. CASE m = "StartPgm"
      <4>1. p = <<"", "name">>
        BY <3>2, <3>7 DEF Type1Params
      <4> QED
        BY <4>1 DEF RouteParam, IsPair
    <3> QED
      BY <3>1, <3>3, <3>4, <3>5, <3>6, <3>7
  <2> QED
    BY <2>1, <2>2
<1>2. p \in UNION {Params(n) : n \in Methods}
  BY Zenon
<1> QED
  BY Zenon, <1>1, <1>2 DEF BodyParams

\* What a client gives to a method.
Inputs ==
    /\ method \in Methods
    /\ DOMAIN given \subseteq Params(method)
    /\ \A p \in DOMAIN given : given[p] \in ValuesFor(method, p)
    /\ route \in Routes \cup {<<>>}

LEMMA GivenLists ==
    ASSUME Inputs, NEW p \in DOMAIN given
    PROVE  /\ given[p] \in Seq(ToSet(given[p])) /\ given[p] # <<>>
           /\ ToSet(given[p]) \subseteq Items
           /\ ~TakesList(method, p) => Len(given[p]) = 1
           /\ p \in BodyParams
<1>1. given[p] \in ValuesFor(method, p)
  BY DEF Inputs
<1>2. p \in BodyParams
  BY ParamsOfMethods DEF Inputs
<1>3. CASE p[2] \in Flags
  <2>1. given[p] = <<"true">>
    BY <1>1, <1>3 DEF ValuesFor
  <2>2. ToSet(<<"true">>) = {"true"} /\ <<"true">> \in Seq({"true"}) /\ Len(<<"true">>) = 1
    BY DEF ToSet
  <2>3. ToSet(<<"true">>) \subseteq Items
    BY Zenon DEF Items
  <2> QED
    BY <1>2, <2>1, <2>2, <2>3
<1>4. CASE p[2] \notin Flags
  <2>1. given[p] \in Lists /\ (~TakesList(method, p) => Len(given[p]) = 1)
    BY <1>1, <1>4 DEF ValuesFor
  <2>2. given[p] \in Seq(ToSet(given[p])) /\ given[p] # <<>>
    BY <2>1, ListsAssumption
  <2>3. ToSet(given[p]) \subseteq Items
    BY Zenon, <2>1 DEF Items
  <2> QED
    BY <1>2, <2>1, <2>2, <2>3
<1> QED
  BY <1>3, <1>4

LEMMA SaidTokens ==
    ASSUME NEW params
    PROVE  /\ \A p \in params : \A item \in Items : Allows(p, item) => V(p, item) \in Said(params)
           /\ \A t \in Said(params) : \E p \in params : \E item \in Items :
                 Allows(p, item) /\ t = V(p, item)
BY DEF Said

\* The tokens of a list of values.
LEMMA TokensOfItems ==
    ASSUME NEW params, NEW p \in params, NEW list, list \in Seq(ToSet(list)),
           ToSet(list) \subseteq Items, "bad" \in ToSet(list) => ~Enumerated(p),
           NEW T, Said(params) \subseteq T
    PROVE  /\ [i \in DOMAIN list |-> V(p, list[i])] \in Seq(ValueTokens(T))
           /\ Len([i \in DOMAIN list |-> V(p, list[i])]) = Len(list)
<1> DEFINE n == Len(list)
           names == [i \in DOMAIN list |-> V(p, list[i])]
<1>1. n \in Nat /\ DOMAIN list = 1 .. n /\ \A i \in 1 .. n : list[i] \in ToSet(list)
  OBVIOUS
<1>2. ASSUME NEW i \in 1 .. n
      PROVE  V(p, list[i]) \in ValueTokens(T)
  <2> DEFINE item == list[i]
  <2>1. item \in Items /\ Allows(p, item)
    BY <1>1 DEF Allows
  <2> HIDE DEF item
  <2>2. V(p, item) \in Said(params) /\ V(p, item)[1] = "V"
    BY <2>1, SaidTokens, WordsAndValues
  <2>3. V(p, item) \in ValueTokens(T)
    BY <2>2 DEF ValueTokens, IsValue
  <2> QED
    BY <2>3 DEF item
<1>3. names \in [1 .. n -> ValueTokens(T)]
  BY <1>1, <1>2
<1> HIDE DEF names
<1> QED
  BY <1>1, <1>3, FunctionIsSeq DEF names

LEMMA GivenValues ==
    ASSUME Inputs, NEW p \in DOMAIN given, "bad" \in ToSet(given[p]) => ~Enumerated(p)
    PROVE  /\ Values(p) \in Seq(ValueTokens(BodyTokens))
           /\ ~TakesList(method, p) => Len(Values(p)) = 1
<1>1. /\ given[p] \in Seq(ToSet(given[p]))
      /\ ToSet(given[p]) \subseteq Items
      /\ ~TakesList(method, p) => Len(given[p]) = 1
      /\ p \in BodyParams
  BY GivenLists
<1>2. Said(BodyParams) \subseteq BodyTokens
  BY Zenon DEF BodyTokens
<1> DEFINE list == given[p]
           names == [i \in DOMAIN list |-> V(p, list[i])]
<1>3. names \in Seq(ValueTokens(BodyTokens)) /\ Len(names) = Len(list)
  <2> HIDE DEF list
  <2> QED
    BY <1>1, <1>2, TokensOfItems DEF list
<1>4. Values(p) = names
  BY Zenon DEF Values, Given
<1> QED
  BY Zenon, <1>1, <1>3, <1>4

LEMMA RouteValues ==
    ASSUME Inputs
    PROVE  /\ RouteNames \in Seq(ValueTokens(RouteTokens))
           /\ RouteNames = <<>> <=> route = <<>>
           /\ Len(RouteNames) = Len(route) /\ DOMAIN RouteNames = DOMAIN route
<1> DEFINE names == [i \in DOMAIN route |-> V(RouteParam, route[i])]
<1>1. RouteNames = names
  BY Zenon DEF RouteNames, RouteParam
<1>2. DOMAIN names = DOMAIN route
  OBVIOUS
<1>3. CASE route = <<>>
  <2>1. names = <<>>
    BY <1>3
  <2> QED
    BY <1>1, <1>2, <1>3, <2>1
<1>4. CASE route # <<>>
  <2>1. route \in Routes
    BY <1>4 DEF Inputs
  <2>2. route \in Seq(ToSet(route))
    BY <2>1, ListsAssumption
  <2>3. ToSet(route) \subseteq Items
    BY Zenon, <2>1 DEF Items
  <2>4. ~Enumerated(RouteParam) /\ RouteParam \in {RouteParam}
    BY DEF Enumerated, RouteParam
  <2>5. Said({RouteParam}) \subseteq RouteTokens
    BY Zenon DEF RouteTokens
  <2> HIDE DEF names
  <2>6. names \in Seq(ValueTokens(RouteTokens)) /\ Len(names) = Len(route)
    BY <2>2, <2>3, <2>4, <2>5, TokensOfItems DEF names
  <2>7. names # <<>>
    <3>1. Len(route) # 0
      BY <1>4, <2>2, EmptySeq
    <3> QED
      BY <2>6, <3>1
  <2> QED
    BY Zenon, <1>1, <1>2, <1>4, <2>6, <2>7
<1> QED
  BY <1>3, <1>4

-----------------------------------------------------------------------------
(* The texts of the fields *)

BeanIsFilled == ~HasBadValue /\ bean = [p \in Filled |-> Values(Source(p))]

BeanValue(p) == IF p \in DOMAIN bean THEN bean[p] ELSE <<>>

LEMMA BeanValues ==
    ASSUME Inputs, BeanIsFilled, method \in Type2Methods, NEW p
    PROVE  /\ BeanValue(p) \in Seq(ValueTokens(BodyTokens))
           /\ BeanValue(p) # <<>> /\ ~TakesList(method, p) => Len(BeanValue(p)) = 1
<1>0. <<>> \in Seq(ValueTokens(BodyTokens))
  OBVIOUS
<1>1. CASE p \notin Filled
  <2>1. BeanValue(p) = <<>>
    BY <1>1 DEF BeanIsFilled, BeanValue
  <2> QED
    BY Zenon, <1>0, <2>1
<1>2. CASE p \in Filled
  <2> DEFINE q == Source(p)
  <2>0. BeanValue(p) = Values(q)
    BY <1>2 DEF BeanIsFilled, BeanValue
  <2>1. CASE q \notin DOMAIN given
    <3>1. Values(q) = <<>>
      BY <2>1 DEF Values, Given
    <3> QED
      BY Zenon, <1>0, <2>0, <3>1
  <2>2. CASE q \in DOMAIN given
    <3>1. "bad" \in ToSet(given[q]) => ~Enumerated(q)
      <4>1. CASE q = p
        BY <1>2, <4>1 DEF BeanIsFilled, HasBadValue
      <4>2. CASE q # p
        <5>1. q = <<"SET", "PLCTTIME">>
          BY <4>2 DEF Source
        <5>2. ~Enumerated(<<"SET", "PLCTTIME">>)
          BY DEF Enumerated
        <5> QED
          BY Zenon, <5>1, <5>2
      <4> QED
        BY <4>1, <4>2
    <3>2. ~TakesList(method, p) => ~TakesList(method, q)
      <4>1. CASE q = p
        BY <4>1
      <4>2. CASE q # p
        <5>1. q = <<"SET", "PLCTTIME">>
          BY <4>2 DEF Source
        <5>2. ~TakesList(method, <<"SET", "PLCTTIME">>)
          BY DEF TakesList
        <5> QED
          BY Zenon, <5>1, <5>2
      <4> QED
        BY <4>1, <4>2
    <3> HIDE DEF q
    <3>3. /\ Values(q) \in Seq(ValueTokens(BodyTokens))
          /\ ~TakesList(method, q) => Len(Values(q)) = 1
      BY <2>2, <3>1, GivenValues
    <3> QED
      BY Zenon, <2>0, <3>2, <3>3
  <2> QED
    BY <2>1, <2>2
<1> QED
  BY <1>1, <1>2

\* A field with one value.
LEMMA OneValues ==
    ASSUME Inputs, BeanIsFilled, method \in Type2Methods, NEW p, ~TakesList(method, p)
    PROVE  BeanValue(p) \in Attribute(BodyTokens)
<1> DEFINE s == BeanValue(p)
<1>1. s \in Seq(ValueTokens(BodyTokens)) /\ (s # <<>> => Len(s) = 1)
  BY BeanValues
<1> HIDE DEF s
<1>2. CASE s = <<>>
  BY <1>2 DEF Attribute, s
<1>3. CASE s # <<>>
  <2>1. s[1] \in ValueTokens(BodyTokens)
    BY <1>1, <1>3, EndsOfBoth
  <2>2. s = <<s[1]>>
    <3> DEFINE t == s[1]
    <3>1. <<t>> \in Seq(ValueTokens(BodyTokens)) /\ Len(<<t>>) = 1 /\ <<t>>[1] = t
      BY <2>1
    <3>2. t = s[1]
      OBVIOUS
    <3> HIDE DEF t
    <3>3. \A i \in 1 .. 1 : s[i] = <<t>>[i]
      BY <3>1, <3>2
    <3>4. s = <<t>>
      BY <1>1, <1>3, <3>1, <3>3, SeqEqual
    <3> QED
      BY Zenon, <3>2, <3>4
  <2>3. s \in {<<t>> : t \in ValueTokens(BodyTokens)}
    BY Zenon, <2>1, <2>2
  <2> QED
    BY Zenon, <2>3 DEF Attribute, s
<1> QED
  BY <1>2, <1>3

LEMMA FieldTexts ==
    ASSUME Inputs, BeanIsFilled, method \in Type2Methods, NEW n \in DOMAIN Beans[method].fields
    PROVE  LET s == FieldText(Beans[method].fields[n])
           IN  s = <<>> \/ IsPhrase(BodyTokens, s)
<1> DEFINE fields == Beans[method].fields
           field == fields[n]
           s == FieldText(field)
           value == BeanValue(<<"", field.key>>)
<1>0. /\ Marks \subseteq BodyTokens
      /\ K(field.key) \in BodyTokens
      /\ \A j \in DOMAIN field.keys : K(field.keys[j]) \in BodyTokens
  BY WordsAreTokens, WordsOfBeans
<1>1. PICK ones : \A i \in DOMAIN fields : IsField(ones, fields[i])
  BY BeansAreBeans DEF IsBean
<1>2. IsField(ones, field)
  BY <1>1
<1>3. value \in Seq(ValueTokens(BodyTokens))
  BY BeanValues
<1> HIDE DEF value
<1>4. CASE field.kind = "list"
  <2>1. s = ListText(field.key, value)
    BY <1>4 DEF FieldText, BeanValue, value
  <2> HIDE DEF s, field
  <2>2. (value # <<>> => IsPhrase(BodyTokens, ListText(field.key, value)))
        /\ (value = <<>> => ListText(field.key, value) = <<>>)
    BY <1>0, <1>3, ListTexts
  <2> QED
    BY Zenon, <2>1, <2>2 DEF s, field
<1>5. CASE field.kind = "one"
  <2>1. s = OneText(field.key, value)
    BY <1>5 DEF FieldText, BeanValue, value
  <2>2. ~TakesList(method, <<"", field.key>>)
    <3>1. field.key \in ones
      BY <1>2, <1>5 DEF IsField
    <3>2. \A i \in DOMAIN fields : fields[i] # ListField(field.key)
      <4> SUFFICES ASSUME NEW i \in DOMAIN fields, fields[i] = ListField(field.key)
                   PROVE  FALSE
        OBVIOUS
      <4>1. fields[i].kind = "list" /\ fields[i].key = field.key
        BY DEF ListField, FieldOf
      <4>2. field.key \notin ones
        BY <1>1, <4>1 DEF IsField
      <4> QED
        BY <3>1, <4>2
    <3> QED
      BY <3>2 DEF TakesList, ToSet
  <2>3. value # <<>> => Len(value) = 1
    BY <2>2, BeanValues DEF value
  <2> HIDE DEF s, field
  <2>4. (value # <<>> => IsPhrase(BodyTokens, OneText(field.key, value)))
        /\ (value = <<>> => OneText(field.key, value) = <<>>)
    BY <1>0, <1>3, <2>3, OneTexts
  <2> QED
    BY Zenon, <2>1, <2>4 DEF s, field
<1>6. CASE field.kind = "group"
  <2>1. field.key \in {"SET", "LIKE", "QCNT"} /\ IsSequence(field.keys)
    BY <1>2, <1>6 DEF IsField
  <2> DEFINE values == [key \in ToSet(field.keys) |-> BeanValue(<<field.key, key>>)]
  <2>2. s = <<>> \/ s = GroupText(field.key, field.keys, values)
    BY <1>6 DEF FieldText, BeanValue
  <2>3. AreAttributes(BodyTokens, field.keys, values)
    <3>1. ASSUME NEW i \in DOMAIN field.keys
          PROVE  values[field.keys[i]] \in Attribute(BodyTokens)
      <4> DEFINE key == field.keys[i]
                 p == <<field.key, key>>
      <4>1. key \in ToSet(field.keys)
        BY DEF ToSet
      <4>2. values[key] = BeanValue(p)
        BY <4>1
      <4>3. p[1] # ""
        BY <2>1
      <4> HIDE DEF p
      <4>4. ~TakesList(method, p)
        BY <4>3 DEF TakesList
      <4> QED
        BY Zenon, <4>2, <4>4, OneValues DEF p
    <3> QED
      BY <1>0, <3>1 DEF AreAttributes
  <2>4. PICK m \in Nat : DOMAIN field.keys = 1 .. m
    BY <2>1 DEF IsSequence
  <2> HIDE DEF field, values
  <2>5. IsPhrase(BodyTokens, GroupText(field.key, field.keys, values))
    BY <1>0, <2>1, <2>3, <2>4, GroupTexts
  <2> QED
    BY Zenon, <2>2, <2>5 DEF field
<1> QED
  BY <1>2, <1>4, <1>5, <1>6 DEF IsField

-----------------------------------------------------------------------------
(* The requests and the systems they go to *)

LEMMA RequestsAreInputs ==
    ASSUME Init
    PROVE  Inputs
<1>1. method \in Methods /\ given \in Requests(method) /\ route \in Routes \cup {<<>>}
  BY DEF Init
<1> DEFINE Some == {{}} \cup {{ps[i] : i \in 1 .. MaxGiven[method]} :
                                ps \in [1 .. MaxGiven[method] -> Params(method)]}
<1>2. PICK ps \in Some : given \in {g \in [ps -> Lists \cup {<<"true">>}] :
                                      \A p \in ps : g[p] \in ValuesFor(method, p)}
  BY <1>1 DEF Requests
<1>3. ps \subseteq Params(method)
  <2>1. CASE ps = {}
    BY <2>1
  <2>2. CASE ps # {}
    <3>1. PICK f \in [1 .. MaxGiven[method] -> Params(method)] :
             ps = {f[i] : i \in 1 .. MaxGiven[method]}
      BY <1>2, <2>2
    <3> QED
      BY <3>1
  <2> QED
    BY <2>1, <2>2
<1> HIDE DEF Some
<1>4. DOMAIN given = ps /\ \A p \in ps : given[p] \in ValuesFor(method, p)
  BY <1>2
<1> QED
  BY <1>1, <1>3, <1>4 DEF Inputs

\* One or two tokens that are not chosen.
LEMMA NotChosen ==
    ASSUME NEW S, NEW T, NEW r \in T, r \notin S
    PROVE  /\ Chosen(S, <<r>>) = <<>>
           /\ \A t \in T : t \notin S => Chosen(S, <<r, t>>) = <<>>
<1> DEFINE none == <<>>
           one == <<r>>
<1>1. none \in Seq(T) /\ none \o <<r>> = one /\ one \in Seq(T)
  OBVIOUS
<1>2. Chosen(S, none) = none
  BY ChosenOfNothing
<1>3. \A t : one \o <<t>> = <<r, t>>
  BY TwoTokens
<1> HIDE DEF none, one
<1>4. Chosen(S, none \o <<r>>) = Chosen(S, none)
  BY <1>1, ChosenLonger
<1>5. Chosen(S, one) = none
  BY Zenon, <1>1, <1>2, <1>4
<1>6. ASSUME NEW t \in T, t \notin S
      PROVE  Chosen(S, <<r, t>>) = none
  <2>1. Chosen(S, one \o <<t>>) = Chosen(S, one)
    BY <1>1, <1>6, ChosenLonger
  <2> QED
    BY Zenon, <1>3, <1>5, <2>1
<1> QED
  BY Zenon, <1>5, <1>6 DEF none, one

\* A token that is chosen, and one after it that is not.
LEMMA OneChosen ==
    ASSUME NEW S, NEW T, NEW r \in T, r \in S
    PROVE  /\ Chosen(S, <<r>>) = <<r>>
           /\ \A t \in T : t \notin S => Chosen(S, <<r, t>>) = <<r>>
<1> DEFINE none == <<>>
           one == <<r>>
<1>1. none \in Seq(T) /\ none \o <<r>> = one /\ one \in Seq(T)
  OBVIOUS
<1>2. Chosen(S, none) = none
  BY ChosenOfNothing
<1>3. \A t : one \o <<t>> = <<r, t>>
  BY TwoTokens
<1> HIDE DEF none, one
<1>4. Chosen(S, none \o <<r>>) = Chosen(S, none) \o <<r>>
  BY <1>1, ChosenLonger
<1>5. Chosen(S, one) = one
  BY Zenon, <1>1, <1>2, <1>4
<1>6. ASSUME NEW t \in T, t \notin S
      PROVE  Chosen(S, <<r, t>>) = one
  <2>1. Chosen(S, one \o <<t>>) = Chosen(S, one)
    BY <1>1, <1>6, ChosenLonger
  <2> QED
    BY Zenon, <1>3, <1>5, <2>1
<1> QED
  BY Zenon, <1>5, <1>6 DEF one

\* Only the first or the second text has chosen tokens.
LEMMA ChosenOfOne ==
    ASSUME NEW S, NEW T, NEW s \in Seq(T), NEW t \in Seq(T)
    PROVE  /\ Chosen(S, s) = <<>> => Chosen(S, s \o t) = Chosen(S, t)
           /\ Chosen(S, t) = <<>> => Chosen(S, s \o t) = Chosen(S, s)
<1>1. /\ Chosen(S, s) \in Seq(T) /\ Chosen(S, t) \in Seq(T)
      /\ Chosen(S, s \o t) = Chosen(S, s) \o Chosen(S, t)
  <2>1. Chosen(S, s) \in Seq(T)
    BY ChosenOfBoth
  <2>2. Chosen(S, t) \in Seq(T)
    BY ChosenOfBoth
  <2>3. AreOfBoth(S, s, t)
    BY ChosenOfBoth
  <2> QED
    BY Zenon, <2>1, <2>2, <2>3 DEF AreOfBoth
<1> DEFINE a == Chosen(S, s)
           b == Chosen(S, t)
<1>2. a \in Seq(T) /\ b \in Seq(T)
  BY <1>1
<1> HIDE DEF a, b
<1>3. (a = <<>> => a \o b = b) /\ (b = <<>> => a \o b = a)
  BY <1>2, EndsOfBoth
<1> QED
  BY Zenon, <1>1, <1>3 DEF a, b

\* The values in a text of a word and its parentheses.
LEMMA ValuesInParentheses ==
    ASSUME NEW T, Marks \subseteq T, NEW key, K(key) \in T, NEW s \in Seq(T)
    PROVE  LET u == (<<K(key), Open>> \o s) \o <<Close>>
           IN  /\ u \in Seq(T)
               /\ Chosen(ValueTokens(T), u) = Chosen(ValueTokens(T), s)
               /\ Chosen(ValueTokens(T), u \o <<Space>>) = Chosen(ValueTokens(T), s)
               /\ Chosen(ValueTokens(T), <<Space>> \o u) = Chosen(ValueTokens(T), s)
<1> DEFINE S == ValueTokens(T)
           first == <<K(key), Open>>
           close == <<Close>>
           space == <<Space>>
           u == (first \o s) \o close
<1>1. /\ Open \in T /\ Close \in T /\ Space \in T
      /\ Open \notin S /\ Close \notin S /\ Space \notin S
  BY MarksDiffer DEF Marks, ValueTokens, IsValue
<1>2. K(key) \notin S
  BY WordsAndValues DEF ValueTokens, IsValue
<1> HIDE DEF S
<1>3. first \in Seq(T) /\ close \in Seq(T) /\ space \in Seq(T)
  BY <1>1
<1>4. Chosen(S, first) = <<>> /\ Chosen(S, close) = <<>> /\ Chosen(S, space) = <<>>
  BY Zenon, <1>1, <1>2, NotChosen
<1> HIDE DEF first, close, space
<1>5. first \o s \in Seq(T) /\ Chosen(S, first \o s) = Chosen(S, s)
  BY <1>3, <1>4, BothTexts, ChosenOfOne
<1>6. u \in Seq(T) /\ Chosen(S, u) = Chosen(S, s)
  <2> DEFINE r == first \o s
  <2>1. r \in Seq(T)
    BY <1>5
  <2> HIDE DEF r
  <2>2. r \o close \in Seq(T) /\ Chosen(S, r \o close) = Chosen(S, r)
    BY <1>3, <1>4, <2>1, BothTexts, ChosenOfOne
  <2> QED
    BY Zenon, <1>5, <2>2 DEF r
<1> HIDE DEF u
<1>7. Chosen(S, u \o space) = Chosen(S, u) /\ Chosen(S, space \o u) = Chosen(S, u)
  BY <1>3, <1>4, <1>6, ChosenOfOne
<1> QED
  BY Zenon, <1>6, <1>7 DEF S, u, first, close, space

\* The values of a list are those in the text of its parts.
LEMMA ValuesOfLists ==
    ASSUME NEW T, NEW values \in Seq(ValueTokens(T)), NEW seqs \in [1 .. Len(values) -> Seq(T)],
           \A i \in 1 .. Len(values) : Chosen(ValueTokens(T), seqs[i]) = <<values[i]>>
    PROVE  /\ FlattenSeq(seqs) \in Seq(T)
           /\ Chosen(ValueTokens(T), FlattenSeq(seqs)) = values
<1> DEFINE S == ValueTokens(T)
           n == Len(values)
           steps == [i \in 0 .. n |-> {s \in Seq(T) : Chosen(S, s) = SubSeq(values, 1, i)}]
<1>0. n \in Nat /\ values \in Seq(S)
  OBVIOUS
<1>1. <<>> \in steps[0]
  <2>1. SubSeq(values, 1, 0) = <<>>
    BY <1>0, EmptySeq, FirstTokens
  <2>2. Chosen(S, <<>>) = <<>>
    BY ChosenOfNothing
  <2>3. <<>> \in Seq(T) /\ 0 \in 0 .. n
    BY <1>0
  <2> HIDE DEF S, n
  <2>4. steps[0] = {s \in Seq(T) : Chosen(S, s) = SubSeq(values, 1, 0)}
    BY <2>3
  <2> HIDE DEF steps
  <2> QED
    BY Zenon, <2>1, <2>2, <2>3, <2>4
<1>2. ASSUME NEW i \in 1 .. n, NEW s \in Seq(T), s \in steps[i - 1]
      PROVE  s \o seqs[i] \in steps[i]
  <2>1. i - 1 \in 0 .. n /\ i \in 0 .. n /\ i - 1 \in 0 .. Len(values) - 1 /\ (i - 1) + 1 = i
    BY <1>0
  <2>2. Chosen(S, s) = SubSeq(values, 1, i - 1)
    BY <1>2, <2>1
  <2>3. Chosen(S, seqs[i]) = <<values[i]>> /\ seqs[i] \in Seq(T)
    OBVIOUS
  <2>4. SubSeq(values, 1, i) = SubSeq(values, 1, i - 1) \o <<values[i]>>
    <3> HIDE DEF S, n
    <3>1. SubSeq(values, 1, (i - 1) + 1) = SubSeq(values, 1, i - 1) \o <<values[(i - 1) + 1]>>
      BY Zenon, <1>0, <2>1, FirstTokensGrow
    <3> QED
      BY Zenon, <2>1, <3>1
  <2> HIDE DEF S
  <2>5. s \o seqs[i] \in Seq(T)
    BY <2>3, BothTexts
  <2>6. Chosen(S, s \o seqs[i]) = Chosen(S, s) \o Chosen(S, seqs[i])
    <3>1. AreOfBoth(S, s, seqs[i])
      BY <2>3, ChosenOfBoth
    <3> QED
      BY Zenon, <3>1 DEF AreOfBoth
  <2> QED
    BY <2>1, <2>2, <2>3, <2>4, <2>5, <2>6
<1>3. FlattenSeq(seqs) \in Seq(T) /\ FlattenSeq(seqs) \in steps[n]
  <2> HIDE DEF steps, S
  <2>1. \A i \in 1 .. n : \A s \in Seq(T) : s \in steps[i - 1] => s \o seqs[i] \in steps[i]
    BY <1>2
  <2> QED
    BY <1>0, <1>1, <2>1, FlattenSteps
<1>4. SubSeq(values, 1, n) = values
  <2>1. n \in 0 .. Len(values)
    BY <1>0
  <2>2. /\ SubSeq(values, 1, n) \in Seq(S) /\ Len(SubSeq(values, 1, n)) = n
        /\ \A i \in 1 .. n : SubSeq(values, 1, n)[i] = values[i]
    BY <1>0, <2>1, FirstTokens
  <2> HIDE DEF S
  <2> QED
    BY <1>0, <2>2, SeqEqual
<1> QED
  BY <1>0, <1>3, <1>4

\* What the serializer writes for the route.
LEMMA RouteTextOfBean ==
    ASSUME Inputs
    PROVE  /\ RouteText(RouteNames) = <<>> \/ IsPhrase(RouteTokens, RouteText(RouteNames))
           /\ RouteText(RouteNames) \in Seq(RouteTokens)
           /\ Chosen(ValueTokens(RouteTokens), RouteText(RouteNames)) = RouteNames
<1> DEFINE T == RouteTokens
           names == RouteNames
           s == RouteText(names)
<1>1. names \in Seq(ValueTokens(T))
  BY RouteValues
<1>2. Marks \subseteq T /\ K("ROUTE") \in T
  <2>1. "ROUTE" \in WordNames
    BY DEF WordNames
  <2> QED
    BY <2>1, WordsAreTokens
<1> HIDE DEF T, names
<1>3. (names # <<>> => IsPhrase(T, s)) /\ (names = <<>> => s = <<>>)
  BY <1>1, <1>2, RouteTexts
<1>4. CASE names = <<>>
  <2>1. <<>> \in Seq(T)
    OBVIOUS
  <2> QED
    BY Zenon, <1>3, <1>4, <2>1, ChosenOfNothing DEF T, names
<1>5. CASE names # <<>>
  <2>1. IsPhrase(T, s)
    BY <1>3, <1>5
  <2> DEFINE n == Len(names)
             part(i) == IF i # n THEN <<names[i], Comma>> ELSE <<names[i]>>
             seqs == [i \in 1 .. n |-> part(i)]
  <2>2. n \in Nat /\ DOMAIN names = 1 .. n /\ \A i \in 1 .. n : names[i] \in ValueTokens(T)
    BY <1>1
  <2>3. Comma \in T /\ Comma \notin ValueTokens(T) /\ ValueTokens(T) \subseteq T
    BY <1>2, MarksDiffer DEF Marks, ValueTokens, IsValue
  <2>4. ASSUME NEW i \in 1 .. n
        PROVE  part(i) \in Seq(T) /\ Chosen(ValueTokens(T), part(i)) = <<names[i]>>
    <3> DEFINE t == names[i]
    <3>1. t \in ValueTokens(T) /\ t \in T
      BY <2>2, <2>3
    <3>2. part(i) = <<t>> \/ part(i) = <<t, Comma>>
      OBVIOUS
    <3> HIDE DEF t, part
    <3>3. <<t>> \in Seq(T) /\ <<t, Comma>> \in Seq(T)
      BY <2>3, <3>1
    <3>4. Chosen(ValueTokens(T), <<t>>) = <<t>> /\ Chosen(ValueTokens(T), <<t, Comma>>) = <<t>>
      BY <2>3, <3>1, OneChosen
    <3> QED
      BY Zenon, <3>2, <3>3, <3>4 DEF t
  <2>5. seqs \in [1 .. n -> Seq(T)] /\ \A i \in 1 .. n : seqs[i] = part(i)
    BY <2>4
  <2>6. FlattenSeq(seqs) \in Seq(T) /\ Chosen(ValueTokens(T), FlattenSeq(seqs)) = names
    <3>1. \A i \in 1 .. n : Chosen(ValueTokens(T), seqs[i]) = <<names[i]>>
      BY <2>4, <2>5
    <3> HIDE DEF seqs
    <3> QED
      BY <1>1, <2>5, <3>1, ValuesOfLists
  <2> DEFINE flat == FlattenSeq(seqs)
             u == (<<K("ROUTE"), Open>> \o flat) \o <<Close>>
  <2>7. s = <<K("ROUTE"), Open>> \o flat \o <<Close, Space>>
    <3>1. seqs = [i \in DOMAIN names |-> IF i # Len(names) THEN <<names[i], Comma>> ELSE <<names[i]>>]
      BY <2>2
    <3> HIDE DEF seqs
    <3> QED
      BY Zenon, <1>5, <3>1 DEF RouteText
  <2> HIDE DEF flat
  <2>8. s = u \o <<Space>>
    <3>1. /\ <<K("ROUTE"), Open>> \o flat \in Seq(T)
          /\ Close \in T /\ Space \in T
      <4>1. Open \in T /\ Close \in T /\ Space \in T
        BY <1>2 DEF Marks
      <4>2. <<K("ROUTE"), Open>> \in Seq(T)
        BY <1>2, <4>1
      <4> QED
        BY <2>6, <4>1, <4>2, BothTexts DEF flat
    <3> DEFINE r == <<K("ROUTE"), Open>> \o flat
    <3>2. r \in Seq(T) /\ s = r \o <<Close, Space>> /\ u = r \o <<Close>>
      BY <2>7, <3>1
    <3> HIDE DEF r, s, u
    <3>3. r \o <<Close, Space>> = (r \o <<Close>>) \o <<Space>>
      <4> DEFINE b == <<Close>>
                 c == <<Space>>
      <4>1. b \in Seq(T) /\ c \in Seq(T) /\ r \in Seq(T)
        BY <3>1, <3>2
      <4>2. <<Close, Space>> = b \o c
        BY TwoTokens
      <4> HIDE DEF b, c
      <4>3. Associate(r, b, c)
        BY <4>1, TextsAssociate
      <4> QED
        BY Zenon, <4>2, <4>3 DEF b, c, Associate
    <3> QED
      BY Zenon, <3>2, <3>3
  <2>9. Chosen(ValueTokens(T), u \o <<Space>>) = Chosen(ValueTokens(T), flat)
    BY <1>2, <2>6, ValuesInParentheses DEF flat
  <2>10. s \in Seq(T)
    BY <2>1, PhraseFacts
  <2> QED
    BY Zenon, <2>1, <2>6, <2>8, <2>9, <2>10 DEF T, names, flat
<1> QED
  BY <1>4, <1>5

\* What the methods of type-1 commands write for the route.
LEMMA RouteTextOfType1 ==
    ASSUME Inputs
    PROVE  /\ Type1Route \in Texts(RouteTokens, Fitting(RouteTokens), 0)
           /\ Chosen(ValueTokens(RouteTokens), Type1Route) = RouteNames
<1> DEFINE T == RouteTokens
           names == RouteNames
           s == Type1Route
<1>1. names \in Seq(ValueTokens(T)) /\ DOMAIN names = DOMAIN route /\ (names = <<>> <=> route = <<>>)
  BY RouteValues
<1>2. Marks \subseteq T /\ K("ROUTE") \in T
  <2>1. "ROUTE" \in WordNames
    BY DEF WordNames
  <2> QED
    BY <2>1, WordsAreTokens
<1> HIDE DEF T
<1>3. CASE route = <<>>
  <2>1. s = <<>> /\ names = <<>>
    BY <1>1, <1>3 DEF Type1Route
  <2>2. <<>> \in Texts(T, Fitting(T), 0) /\ Chosen(ValueTokens(T), <<>>) = <<>>
    BY NoText, ChosenOfNothing
  <2> QED
    BY Zenon, <2>1, <2>2 DEF T
<1>4. CASE route # <<>>
  <2> DEFINE n == Len(names)
             part(i) == <<names[i], Comma>>
             seqs == [i \in 1 .. n |-> part(i)]
             flat == FlattenSeq(seqs)
  <2>1. flat = FlattenSeq([i \in DOMAIN route |-> <<RouteNames[i], Comma>>])
    <3>1. DOMAIN route = 1 .. n
      BY <1>1
    <3> QED
      BY Zenon, <3>1
  <2> HIDE DEF names
  <2>2. n \in Nat /\ n # 0 /\ DOMAIN names = 1 .. n /\ \A i \in 1 .. n : names[i] \in ValueTokens(T)
    BY <1>1, <1>4
  <2>3. Comma \in T /\ Comma \notin ValueTokens(T) /\ ValueTokens(T) \subseteq T
    BY <1>2, MarksDiffer DEF Marks, ValueTokens, IsValue
  <2>4. ASSUME NEW i \in 1 .. n
        PROVE  /\ part(i) \in Seq(T) /\ Chosen(ValueTokens(T), part(i)) = <<names[i]>>
               /\ EndsInComma(T, part(i))
    <3> DEFINE t == names[i]
    <3>1. t \in ValueTokens(T) /\ t \in T
      BY <2>2, <2>3
    <3>2. part(i) = <<t, Comma>>
      OBVIOUS
    <3> HIDE DEF t, part
    <3>3. <<t, Comma>> \in Seq(T)
      BY <2>3, <3>1
    <3>4. Chosen(ValueTokens(T), <<t, Comma>>) = <<t>>
      BY <2>3, <3>1, OneChosen
    <3>5. EndsInComma(T, <<t, Comma>>)
      <4>1. <<t>> \in Seq(ValueTokens(T)) /\ Len(<<t>>) = 1
        BY <3>1
      <4>2. IsList(T, <<t>>)
        BY <1>2, <4>1, ListsOfOne
      <4>3. <<t, Comma>> = <<t>> \o <<Comma>>
        BY TwoTokens
      <4> QED
        BY Zenon, <4>2, <4>3 DEF EndsInComma
    <3> QED
      BY Zenon, <3>2, <3>3, <3>4, <3>5 DEF t
  <2>5. seqs \in [1 .. n -> Seq(T)] /\ \A i \in 1 .. n : seqs[i] = part(i)
    BY <2>4
  <2>6. flat \in Seq(T) /\ Chosen(ValueTokens(T), flat) = names
    <3>1. \A i \in 1 .. n : Chosen(ValueTokens(T), seqs[i]) = <<names[i]>>
      BY <2>4, <2>5
    <3> HIDE DEF seqs
    <3> QED
      BY <1>1, <2>5, <3>1, ValuesOfLists DEF names
  <2>7. EndsInComma(T, flat)
    <3> DEFINE steps == [i \in 0 .. n |-> {r \in Seq(T) : EndsInComma(T, r)}]
    <3>1. <<>> \in steps[0]
      <4>1. <<>> \in Seq(T) /\ EndsInComma(T, <<>>) /\ 0 \in 0 .. n
        BY <2>2 DEF EndsInComma
      <4> QED
        BY <4>1
    <3>2. ASSUME NEW i \in 1 .. n, NEW r \in Seq(T), r \in steps[i - 1]
          PROVE  r \o seqs[i] \in steps[i]
      <4>1. i - 1 \in 0 .. n /\ i \in 0 .. n
        BY <2>2
      <4>2. EndsInComma(T, r)
        BY <3>2, <4>1
      <4>3. EndsInComma(T, seqs[i]) /\ seqs[i] \in Seq(T)
        BY <2>4, <2>5
      <4> HIDE DEF seqs
      <4>4. EndsInComma(T, r \o seqs[i])
        BY Zenon, <1>2, <4>2, <4>3, EndsInCommaJoin
      <4>5. r \o seqs[i] \in Seq(T)
        BY <4>3, BothTexts
      <4> QED
        BY <4>1, <4>4, <4>5
    <3>3. flat \in steps[n]
      <4> HIDE DEF steps
      <4>1. \A i \in 1 .. n : \A r \in Seq(T) : r \in steps[i - 1] => r \o seqs[i] \in steps[i]
        BY <3>2
      <4> HIDE DEF seqs
      <4> QED
        BY <2>2, <2>5, <3>1, <4>1, FlattenSteps DEF flat
    <3> HIDE DEF flat
    <3>4. n \in 0 .. n
      BY <2>2
    <3> QED
      BY <3>3, <3>4
  <2>8. flat # <<>>
    <3>1. names # <<>>
      BY <1>1, <1>4 DEF names
    <3> HIDE DEF flat
    <3> QED
      BY Zenon, <2>6, <3>1, ChosenOfNothing
  <2> HIDE DEF flat
  <2>9. PICK u : IsList(T, u) /\ flat = u \o <<Comma>>
    BY <2>7, <2>8 DEF EndsInComma
  <2>10. u \in Texts(T, Fitting(T), 0) /\ u \in Seq(T) /\ u # <<>> /\ IsValue(u[1]) /\ IsValue(Last(u))
    BY <2>9 DEF IsList, Texts
  <2>11. Front(flat) = u /\ Chosen(ValueTokens(T), u) = names
    BY <2>3, <2>6, <2>9, <2>10, EndsOfLonger, ChosenLonger
  <2> DEFINE v == (<<K("ROUTE"), Open>> \o u) \o <<Close>>
  <2>12. v \in Texts(T, Fitting(T), 0) /\ v # <<>> /\ v[1] = K("ROUTE")
    BY <1>2, <2>10, Enclosed
  <2>13. Chosen(ValueTokens(T), v) = names /\ Chosen(ValueTokens(T), <<Space>> \o v) = names
    BY <1>2, <2>10, <2>11, ValuesInParentheses
  <2>14. <<Space>> \o v \in Texts(T, Fitting(T), 0)
    <3>1. Space \in T /\ Space \notin {Open, Close}
      BY <1>2, MarksDiffer DEF Marks
    <3>2. <<Space>> \in Texts(T, Fitting(T), 0) /\ Last(<<Space>>) = Space
      BY <3>1, Single
    <3>3. <<Space, K("ROUTE")>> \in Fitting(T)
      BY <1>2, <3>1, FittingPairs, WordsAndValues DEF IsKey
    <3> HIDE DEF v
    <3>4. <<Space>> \o v \in Texts(T, Fitting(T), 0 + 0)
      BY <2>12, <3>2, <3>3, TextsJoin
    <3> QED
      BY <3>4
  <2>15. s = v \/ s = <<Space>> \o v
    <3>1. s = (((IF method \in {"StartTran", "StartPgm"} THEN <<>> ELSE <<Space>>)
                  \o <<K("ROUTE"), Open>>) \o u) \o <<Close>>
      BY Zenon, <1>4, <2>1, <2>11 DEF Type1Route
    <3>2. /\ <<K("ROUTE"), Open>> \in Seq(T) /\ <<Close>> \in Seq(T) /\ <<Space>> \in Seq(T)
          /\ Open \in T /\ Close \in T /\ Space \in T
      BY <1>2 DEF Marks
    <3> DEFINE a == <<K("ROUTE"), Open>>
               b == <<Close>>
               c == <<Space>>
    <3>3. (<<>> \o a = a) /\ a \in Seq(T) /\ b \in Seq(T) /\ c \in Seq(T)
      BY <3>2
    <3> HIDE DEF a, b, c
    <3>4. ((c \o a) \o u) \o b = c \o ((a \o u) \o b)
      <4>1. Associate(c, a, u) /\ a \o u \in Seq(T)
        BY <2>10, <3>3, TextsAssociate
      <4> DEFINE w == a \o u
      <4>2. Associate(c, w, b)
        <5>1. w \in Seq(T)
          BY <4>1
        <5> HIDE DEF w
        <5> QED
          BY <3>3, <5>1, TextsAssociate
      <4> QED
        BY Zenon, <4>1, <4>2 DEF Associate
    <3> QED
      BY Zenon, <3>1, <3>3, <3>4 DEF a, b, c
  <2> QED
    BY Zenon, <2>12, <2>13, <2>14, <2>15 DEF T, names
<1> QED
  BY <1>3, <1>4

-----------------------------------------------------------------------------
(* The texts of the methods of type-1 commands *)

\* Not two words.
Apart(T) == {pair \in T \X T : ~ (IsWord(pair[1]) /\ IsWord(pair[2]))}

\* Which tokens may follow each other in a command.
Allowed(T) ==
    IF method \in Type2Methods THEN Fitting(T)
    ELSE IF Given(Param("reg_num")) /\ Given(Param("job_name")) THEN T \X T ELSE Apart(T)

LEMMA ApartPairs ==
    ASSUME NEW T, Marks \subseteq T, NEW R, Apart(T) \subseteq R, NEW s \in Marks, NEW t \in T
    PROVE  <<s, t>> \in R /\ <<t, s>> \in R
<1>1. ~IsWord(s) /\ s \in T
  BY MarksDiffer
<1>2. <<s, t>> \in Apart(T) /\ <<t, s>> \in Apart(T)
  BY <1>1 DEF Apart
<1> QED
  BY <1>2

LEMMA FittingIsApart ==
    ASSUME NEW T
    PROVE  Fitting(T) \subseteq Apart(T)
BY DEF Fitting, Fits, Apart

\* A text that anything may follow.
IsLoose(T, R, s) == s \in Texts(T, R, 0) /\ (s # <<>> => Last(s) = Space)

LEMMA NothingIsLoose ==
    ASSUME NEW T, NEW R
    PROVE  IsLoose(T, R, <<>>)
BY NoText DEF IsLoose

LEMMA LooseJoin ==
    ASSUME NEW T, Marks \subseteq T, NEW R, Apart(T) \subseteq R, NEW s, IsLoose(T, R, s),
           NEW t \in Texts(T, R, 0)
    PROVE  s \o t \in Texts(T, R, 0) /\ (IsLoose(T, R, t) => IsLoose(T, R, s \o t))
<1>1. s \in Texts(T, R, 0) /\ s \in Seq(T) /\ t \in Seq(T)
  BY DEF IsLoose, Texts
<1>2. s \o t \in Texts(T, R, 0)
  <2>1. ASSUME s # <<>>, t # <<>>
        PROVE  <<Last(s), t[1]>> \in R
    <3>1. Last(s) = Space /\ t[1] \in T
      BY <1>1, <2>1, EndsOfBoth DEF IsLoose
    <3>2. Space \in Marks
      BY DEF Marks
    <3> QED
      BY Zenon, <3>1, <3>2, ApartPairs
  <2>2. s \o t \in Texts(T, R, 0 + 0)
    BY <1>1, <2>1, TextsJoin
  <2> QED
    BY <2>2
<1>3. ASSUME IsLoose(T, R, t), s \o t # <<>>
      PROVE  Last(s \o t) = Space
  <2>1. CASE t # <<>>
    <3>1. Last(s \o t) = Last(t)
      BY <1>1, <2>1, EndsOfBoth
    <3> QED
      BY <1>3, <2>1, <3>1 DEF IsLoose
  <2>2. CASE t = <<>>
    <3>1. s \o t = s
      BY <1>1, <2>2, EndsOfBoth
    <3> QED
      BY Zenon, <1>3, <3>1 DEF IsLoose
  <2> QED
    BY <2>1, <2>2
<1> QED
  BY Zenon, <1>2, <1>3 DEF IsLoose

\* A token and a space.
LEMMA LooseTokens ==
    ASSUME NEW T, Marks \subseteq T, NEW R, Apart(T) \subseteq R, NEW t \in T, t \notin {Open, Close}
    PROVE  IsLoose(T, R, <<t, Space>>)
<1>1. Space \in T /\ Space \in Marks /\ Space \notin {Open, Close}
  BY MarksDiffer DEF Marks
<1>2. <<t, Space>> \in R
  BY <1>1, ApartPairs
<1>3. <<t, Space>> \in Texts(T, R, 0) /\ Last(<<t, Space>>) = Space
  BY <1>1, <1>2, Pair
<1> QED
  BY Zenon, <1>3 DEF IsLoose

LEMMA LooseWords ==
    ASSUME NEW T, Marks \subseteq T, NEW R, Apart(T) \subseteq R,
           NEW v, K(v) \in T, NEW w, K(w) \in T
    PROVE  /\ IsLoose(T, R, <<K(v), Space>>)
           /\ IsLoose(T, R, <<K(v), Space, K(w), Space>>)
<1>1. K(v) \notin {Open, Close} /\ K(w) \notin {Open, Close}
  <2>1. K(v) \notin Marks /\ K(w) \notin Marks
    BY WordsAndValues, MarksDiffer
  <2> QED
    BY <2>1 DEF Marks
<1> DEFINE s == <<K(v), Space>>
           t == <<K(w), Space>>
<1>2. IsLoose(T, R, s) /\ IsLoose(T, R, t)
  BY <1>1, LooseTokens
<1>3. <<K(v), Space, K(w), Space>> = s \o t
  OBVIOUS
<1> HIDE DEF s, t
<1>4. IsLoose(T, R, s \o t)
  BY <1>2, LooseJoin DEF IsLoose
<1> QED
  BY Zenon, <1>2, <1>3, <1>4 DEF s

\* A value and a space.
LEMMA LooseValues ==
    ASSUME NEW T, Marks \subseteq T, NEW R, Apart(T) \subseteq R, NEW t \in ValueTokens(T)
    PROVE  /\ <<t>> \in Texts(T, R, 0) /\ IsLoose(T, R, <<t>> \o <<Space>>)
           /\ <<Comma, t>> \in Texts(T, R, 0) /\ <<t, Hyphen>> \in Texts(T, R, 0)
<1>1. t \in T /\ IsValue(t) /\ t \notin {Open, Close}
  BY ValueFacts DEF ValueTokens
<1>2. /\ Comma \in T /\ Comma \in Marks /\ Comma \notin {Open, Close}
      /\ Hyphen \in T /\ Hyphen \in Marks /\ Hyphen \notin {Open, Close}
  BY MarksDiffer DEF Marks
<1>3. <<t>> \in Texts(T, R, 0)
  BY <1>1, Single
<1>4. IsLoose(T, R, <<t, Space>>)
  BY <1>1, LooseTokens
<1>5. <<t>> \o <<Space>> = <<t, Space>>
  BY TwoTokens
<1>6. <<Comma, t>> \in R /\ <<t, Hyphen>> \in R
  BY <1>1, <1>2, ApartPairs
<1>7. <<Comma, t>> \in Texts(T, R, 0) /\ <<t, Hyphen>> \in Texts(T, R, 0)
  BY <1>1, <1>2, <1>6, Pair
<1> QED
  BY Zenon, <1>3, <1>4, <1>5, <1>7

\* The keys of the parameters of type-1 commands.
Type1Keys == {"reg_num", "job_name", "abdump", "transaction", "cancel", "member_name", "local", "dc",
              "region", "name", "class", "affinity"}

LEMMA Type1Values ==
    ASSUME Inputs, method \notin Type2Methods, NEW key \in Type1Keys, Given(Param(key))
    PROVE  /\ Values(Param(key)) \in Seq(ValueTokens(BodyTokens)) /\ Values(Param(key)) # <<>>
           /\ key \notin {"reg_num", "name", "class"} =>
                \E t \in ValueTokens(BodyTokens) : Values(Param(key)) = <<t>>
<1> DEFINE p == Param(key)
           s == Values(p)
<1>1. p \in DOMAIN given /\ p[2] = key
  BY DEF Given, Param
<1>2. ~Enumerated(p)
  <2>1. key \notin {"QCNTComp", "STATUS", "SHOW", "OPTION", "SCOPE", "START", "STOP", "AOCMD", "CMTMODE",
              "CONV", "DCLWA", "DIRROUTE", "EDITUC", "FP", "INQ", "LOCK", "MSGTYPE", "RECOVER",
              "REMOTE", "RESP", "SERIAL", "SPATRUNC", "TRANSTAT", "WFI", "BMPTYPE", "DOPT", "GPSB",
              "LANG", "RESIDENT", "SCHDTYPE"}
    BY DEF Type1Keys
  <2> HIDE DEF p
  <2> QED
    BY <1>1, <2>1 DEF Enumerated
<1>3. key \notin {"reg_num", "name", "class"} => ~TakesList(method, p)
  <2> HIDE DEF p
  <2> QED
    BY <1>1 DEF TakesList
<1> HIDE DEF p
<1>4. s \in Seq(ValueTokens(BodyTokens)) /\ (~TakesList(method, p) => Len(s) = 1)
  BY <1>1, <1>2, GivenValues
<1>5. s # <<>>
  <2> DEFINE list == given[p]
  <2>1. list \in Seq(ToSet(list)) /\ list # <<>>
    BY <1>1, GivenLists
  <2>2. s = [i \in DOMAIN list |-> V(p, list[i])]
    BY Zenon, <1>1 DEF Values, Given
  <2> HIDE DEF list, s
  <2>3. DOMAIN s = DOMAIN list
    BY <2>2
  <2>4. 1 \in DOMAIN list
    BY <2>1
  <2> QED
    BY <2>3, <2>4
<1>6. ASSUME key \notin {"reg_num", "name", "class"}
      PROVE  \E t \in ValueTokens(BodyTokens) : s = <<t>>
  <2>1. Len(s) = 1
    BY <1>3, <1>4, <1>6
  <2> HIDE DEF s
  <2>2. s[1] \in ValueTokens(BodyTokens)
    BY <1>4, <2>1
  <2> DEFINE t == s[1]
  <2>3. t = s[1] /\ t \in ValueTokens(BodyTokens)
    BY <2>2
  <2> HIDE DEF t
  <2>4. <<t>> \in Seq(ValueTokens(BodyTokens)) /\ Len(<<t>>) = 1 /\ <<t>>[1] = t
    BY <2>3
  <2>5. \A i \in 1 .. 1 : s[i] = <<t>>[i]
    BY <2>3, <2>4
  <2>6. s = <<t>>
    BY <1>4, <2>1, <2>4, <2>5, SeqEqual
  <2> QED
    BY <2>3, <2>6
<1> QED
  BY Zenon, <1>4, <1>5, <1>6 DEF p, s

LEMMA Phrases ==
    ASSUME Inputs, method \notin Type2Methods, NEW R, Apart(BodyTokens) \subseteq R,
           NEW key \in Type1Keys \ {"reg_num", "name", "class"}, NEW word, K(word) \in BodyTokens
    PROVE  IsLoose(BodyTokens, R, Phrase(key, word))
<1> DEFINE T == BodyTokens
<1>0. Marks \subseteq T
  BY WordsAreTokens
<1>1. CASE ~Given(Param(key))
  <2>1. Phrase(key, word) = <<>>
    BY <1>1 DEF Phrase
  <2> QED
    BY Zenon, <2>1, NothingIsLoose
<1>2. CASE Given(Param(key))
  <2>1. PICK t \in ValueTokens(T) : Values(Param(key)) = <<t>>
    BY <1>2, Type1Values
  <2>2. Phrase(key, word) = (<<K(word), Space>> \o <<t>>) \o <<Space>>
    BY Zenon, <1>2, <2>1 DEF Phrase
  <2> HIDE DEF T
  <2> DEFINE a == <<K(word), Space>>
             b == <<t>>
             c == <<Space>>
  <2>3. a \in Seq(T) /\ b \in Seq(T) /\ c \in Seq(T)
    BY <1>0 DEF T, ValueTokens, Marks
  <2>4. IsLoose(T, R, a) /\ IsLoose(T, R, b \o c)
    BY <1>0, LooseWords, LooseValues DEF T
  <2> HIDE DEF a, b, c
  <2>5. IsLoose(T, R, a \o (b \o c))
    BY <1>0, <2>4, LooseJoin DEF IsLoose, T
  <2>6. Associate(a, b, c)
    BY <2>3, TextsAssociate
  <2> QED
    BY Zenon, <2>2, <2>5, <2>6 DEF T, a, b, c, Associate
<1> QED
  BY <1>1, <1>2

LEMMA WordsOfType1 ==
    \A word \in {"STOP", "REGION", "ABDUMP", "TRANSACTION", "CANCEL", "JOBNAME", "START", "LOCAL",
                 "DIS", "ACT", "STA", "TRAN", "PGM", "ALL", "CLASS", "AFFINITY", "OPTION=AOPOUTPUT",
                 "CMD", "ROUTE"} :
       /\ K(word) \in BodyTokens /\ K(word) \notin {Open, Close} /\ K(word) \notin Marks
       /\ K(word) \in Tokens
<1> SUFFICES ASSUME NEW word \in {"STOP", "REGION", "ABDUMP", "TRANSACTION", "CANCEL", "JOBNAME",
                                  "START", "LOCAL", "DIS", "ACT", "STA", "TRAN", "PGM", "ALL", "CLASS",
                                  "AFFINITY", "OPTION=AOPOUTPUT", "CMD", "ROUTE"}
             PROVE  /\ K(word) \in BodyTokens /\ K(word) \notin {Open, Close} /\ K(word) \notin Marks
                    /\ K(word) \in Tokens
  OBVIOUS
<1>1. word \in WordNames
  BY DEF WordNames
<1>2. K(word) \notin Marks
  BY WordsAndValues, MarksDiffer
<1> QED
  BY <1>1, <1>2, WordsAreTokens DEF Marks

LEMMA SingleWords ==
    ASSUME NEW R, NEW key, NEW word \in {"CANCEL", "LOCAL"}
    PROVE  Word(key, word, <<>>) \in Texts(BodyTokens, R, 0)
<1>1. K(word) \in BodyTokens /\ K(word) \notin {Open, Close}
  BY WordsOfType1
<1>2. <<K(word)>> \in Texts(BodyTokens, R, 0) /\ <<>> \in Texts(BodyTokens, R, 0)
  BY <1>1, Single, NoText
<1>3. <<K(word)>> \o <<>> = <<K(word)>>
  OBVIOUS
<1> QED
  BY Zenon, <1>2, <1>3 DEF Word

LEMMA StopOptionsText ==
    ASSUME Inputs, method \notin Type2Methods, NEW R, Apart(BodyTokens) \subseteq R
    PROVE  StopOptions \in Texts(BodyTokens, R, 0)
<1>0. Marks \subseteq BodyTokens
  BY WordsAreTokens
<1> DEFINE a == Phrase("abdump", "ABDUMP")
           b == Phrase("transaction", "TRANSACTION")
           c == Word("cancel", "CANCEL", <<>>)
<1>1. IsLoose(BodyTokens, R, a) /\ IsLoose(BodyTokens, R, b)
  BY Phrases, WordsOfType1 DEF Type1Keys
<1>2. c \in Texts(BodyTokens, R, 0)
  BY SingleWords
<1>3. StopOptions = (a \o b) \o c
  BY Zenon DEF StopOptions
<1> HIDE DEF a, b, c
<1>4. IsLoose(BodyTokens, R, a \o b)
  BY <1>0, <1>1, LooseJoin DEF IsLoose
<1>5. (a \o b) \o c \in Texts(BodyTokens, R, 0)
  BY <1>0, <1>2, <1>4, LooseJoin
<1> QED
  BY Zenon, <1>3, <1>5

LEMMA RegNumbersText ==
    ASSUME NEW T, Marks \subseteq T, NEW R, Apart(T) \subseteq R, NEW values \in Seq(ValueTokens(T)),
           values # <<>>
    PROVE  IsLoose(T, R, RegNumbers(values))
<1>1. CASE Len(values) > 1
  <2> DEFINE s == values[1]
             t == values[2]
  <2>1. s \in ValueTokens(T) /\ t \in ValueTokens(T)
    BY <1>1
  <2>2. RegNumbers(values) = <<s, Hyphen, t, Space>>
    BY <1>1 DEF RegNumbers
  <2> HIDE DEF s, t
  <2> DEFINE a == <<s, Hyphen>>
             b == <<t>> \o <<Space>>
  <2>3. <<s, Hyphen, t, Space>> = a \o b
    OBVIOUS
  <2>4. a \in Texts(T, R, 0) /\ IsLoose(T, R, b)
    BY <2>1, LooseValues
  <2>5. a \in Seq(T) /\ b \in Seq(T) /\ a # <<>> /\ b # <<>> /\ Last(a) = Hyphen /\ Last(b) = Space /\ b[1] = t
    <3>1. s \in T /\ t \in T /\ Hyphen \in T /\ Space \in T
      BY <2>1 DEF Marks, ValueTokens
    <3> QED
      BY <3>1 DEF Last
  <2>6. <<Hyphen, t>> \in R
    <3>1. t \in T /\ Hyphen \in Marks
      BY <2>1 DEF Marks, ValueTokens
    <3> QED
      BY <3>1, ApartPairs
  <2> HIDE DEF a, b
  <2>7. a \o b \in Texts(T, R, 0)
    <3>1. a \o b \in Texts(T, R, 0 + 0)
      BY <2>4, <2>5, <2>6, TextsJoin DEF IsLoose
    <3> QED
      BY <3>1
  <2>8. Last(a \o b) = Space
    BY <2>5, EndsOfBoth
  <2> QED
    BY Zenon, <2>2, <2>3, <2>7, <2>8 DEF IsLoose
<1>2. CASE ~(Len(values) > 1)
  <2> DEFINE t == values[1]
  <2>1. t \in ValueTokens(T) /\ Len(values) = 1 /\ values[1] = t
    <3>1. Len(values) # 0 /\ Len(values) \in Nat
      BY EmptySeq
    <3> DEFINE n == Len(values)
    <3>2. n # 0 /\ n \in Nat /\ ~(n > 1)
      BY <1>2, <3>1
    <3>3. n = 1
      <4> HIDE DEF n
      <4> QED
        BY <3>2
    <3> QED
      BY <3>3
  <2> HIDE DEF t
  <2>2. RegNumbers(values) = Append(values, Space)
    BY <1>2 DEF RegNumbers
  <2>3. values = <<t>>
    <3>1. <<t>> \in Seq(ValueTokens(T)) /\ Len(<<t>>) = 1 /\ <<t>>[1] = t
      BY <2>1
    <3>2. \A i \in 1 .. 1 : values[i] = <<t>>[i]
      BY <2>1, <3>1
    <3> QED
      BY <2>1, <3>1, <3>2, SeqEqual
  <2>4. Append(<<t>>, Space) = <<t>> \o <<Space>>
    OBVIOUS
  <2>5. IsLoose(T, R, <<t>> \o <<Space>>)
    BY <2>1, LooseValues
  <2> QED
    BY Zenon, <2>2, <2>3, <2>4, <2>5
<1> QED
  BY <1>1, <1>2

LEMMA AllowedIsApart ==
    ASSUME method \notin Type2Methods, NEW T
    PROVE  Apart(T) \subseteq Allowed(T)
BY DEF Allowed, Apart

LEMMA StopTexts ==
    ASSUME Inputs, method \notin Type2Methods
    PROVE  StopText \in Texts(BodyTokens, Allowed(BodyTokens), 0)
<1> DEFINE T == BodyTokens
           R == Allowed(BodyTokens)
           both == Given(Param("reg_num")) /\ Given(Param("job_name"))
           first == <<K("STOP"), Space, K("REGION"), Space>>
           numbers == IF Given(Param("reg_num")) THEN RegNumbers(Values(Param("reg_num"))) \o StopOptions
                      ELSE <<>>
           job == IF Given(Param("job_name")) THEN Phrase("job_name", "JOBNAME") \o StopOptions
                  ELSE <<>>
<1>0. Marks \subseteq T /\ Apart(T) \subseteq R
  BY WordsAreTokens, AllowedIsApart
<1>1. StopText = (first \o numbers) \o job
  BY Zenon DEF StopText
<1>2. StopOptions \in Texts(T, R, 0)
  BY <1>0, StopOptionsText
<1>3. IsLoose(T, R, first)
  BY <1>0, LooseWords, WordsOfType1
<1>4. numbers \in Texts(T, R, 0)
  <2>1. CASE ~Given(Param("reg_num"))
    BY Zenon, <2>1, NoText
  <2>2. CASE Given(Param("reg_num"))
    <3> DEFINE values == Values(Param("reg_num"))
    <3>1. values \in Seq(ValueTokens(T)) /\ values # <<>>
      BY <2>2, Type1Values DEF Type1Keys
    <3> HIDE DEF values
    <3>2. IsLoose(T, R, RegNumbers(values))
      BY <1>0, <3>1, RegNumbersText
    <3>3. RegNumbers(values) \o StopOptions \in Texts(T, R, 0)
      BY <1>0, <1>2, <3>2, LooseJoin
    <3> QED
      BY Zenon, <2>2, <3>3 DEF values
  <2> QED
    BY <2>1, <2>2
<1>5. job \in Texts(T, R, 0)
  <2>1. CASE ~Given(Param("job_name"))
    BY Zenon, <2>1, NoText
  <2>2. CASE Given(Param("job_name"))
    <3>1. IsLoose(T, R, Phrase("job_name", "JOBNAME"))
      BY <1>0, Phrases, WordsOfType1 DEF Type1Keys
    <3>2. Phrase("job_name", "JOBNAME") \o StopOptions \in Texts(T, R, 0)
      BY <1>0, <1>2, <3>1, LooseJoin
    <3> QED
      BY Zenon, <2>2, <3>2
  <2> QED
    BY <2>1, <2>2
<1>6. both \/ numbers = <<>> \/ job = <<>>
  BY Zenon
<1>7. both => R = T \X T
  BY DEF Allowed
<1> HIDE DEF T, R, both, first, numbers, job
<1>8. first \o numbers \in Texts(T, R, 0)
  BY <1>0, <1>3, <1>4, LooseJoin
<1>9. first \in Seq(T) /\ numbers \in Seq(T) /\ job \in Seq(T) /\ first \o numbers \in Seq(T)
  BY <1>3, <1>4, <1>5, <1>8 DEF IsLoose, Texts
<1>10. CASE both
  <2> DEFINE s == first \o numbers
  <2>1. s \in Texts(T, R, 0) /\ s \in Seq(T)
    BY <1>8, <1>9
  <2> HIDE DEF s
  <2>2. ASSUME s # <<>>, job # <<>>
        PROVE  <<Last(s), job[1]>> \in R
    <3>1. Last(s) \in T /\ job[1] \in T
      BY <1>9, <2>1, <2>2, EndsOfBoth
    <3> QED
      BY <1>7, <1>10, <3>1
  <2>3. s \o job \in Texts(T, R, 0 + 0)
    BY <1>5, <2>1, <2>2, TextsJoin
  <2>4. s \o job \in Texts(T, R, 0)
    BY <2>3
  <2> QED
    BY Zenon, <1>1, <2>4 DEF s, T, R
<1>11. CASE numbers = <<>>
  <2>1. first \o numbers = first
    BY <1>9, <1>11, EndsOfBoth
  <2>2. first \o job \in Texts(T, R, 0)
    BY <1>0, <1>3, <1>5, LooseJoin
  <2> QED
    BY Zenon, <1>1, <2>1, <2>2 DEF T, R
<1>12. CASE job = <<>>
  <2> DEFINE s == first \o numbers
  <2>1. s \in Seq(T)
    BY <1>9
  <2> HIDE DEF s
  <2>2. s \o job = s
    BY <1>9, <1>12, <2>1, EndsOfBoth
  <2> QED
    BY Zenon, <1>1, <1>8, <2>2 DEF T, R, s
<1> QED
  BY <1>6, <1>10, <1>11, <1>12

LEMMA StartRegionTexts ==
    ASSUME Inputs, method \notin Type2Methods
    PROVE  StartRegionText \in Texts(BodyTokens, Allowed(BodyTokens), 0)
<1> DEFINE T == BodyTokens
           R == Allowed(BodyTokens)
           first == <<K("START"), Space, K("REGION"), Space>>
           member == IF Given(Param("member_name"))
                     THEN Append(Values(Param("member_name")), Space) \o Phrase("job_name", "JOBNAME")
                     ELSE <<>>
           local == Word("local", "LOCAL", <<>>)
<1>0. Marks \subseteq T /\ Apart(T) \subseteq R
  BY WordsAreTokens, AllowedIsApart
<1>1. StartRegionText = (first \o member) \o local
  BY Zenon DEF StartRegionText
<1>2. IsLoose(T, R, first)
  BY <1>0, LooseWords, WordsOfType1
<1>3. IsLoose(T, R, member)
  <2>1. CASE ~Given(Param("member_name"))
    BY Zenon, <2>1, NothingIsLoose
  <2>2. CASE Given(Param("member_name"))
    <3>1. PICK t \in ValueTokens(T) : Values(Param("member_name")) = <<t>>
      BY <2>2, Type1Values DEF Type1Keys
    <3>2. IsLoose(T, R, <<t>> \o <<Space>>)
      BY <1>0, LooseValues
    <3>3. Append(<<t>>, Space) = <<t>> \o <<Space>>
      OBVIOUS
    <3>4. IsLoose(T, R, Append(Values(Param("member_name")), Space))
      BY Zenon, <3>1, <3>2, <3>3
    <3>5. IsLoose(T, R, Phrase("job_name", "JOBNAME"))
      BY <1>0, Phrases, WordsOfType1 DEF Type1Keys
    <3>6. IsLoose(T, R, Append(Values(Param("member_name")), Space) \o Phrase("job_name", "JOBNAME"))
      <4> DEFINE s == Append(Values(Param("member_name")), Space)
                 t1 == Phrase("job_name", "JOBNAME")
      <4>1. IsLoose(T, R, s) /\ IsLoose(T, R, t1)
        BY <3>4, <3>5
      <4>2. Marks \subseteq T /\ Apart(T) \subseteq R
        BY <1>0
      <4> HIDE DEF s, t1, T, R
      <4>3. IsLoose(T, R, s \o t1)
        BY <4>1, <4>2, LooseJoin DEF IsLoose
      <4> QED
        BY Zenon, <4>3 DEF s, t1
    <3> QED
      BY Zenon, <2>2, <3>6
  <2> QED
    BY <2>1, <2>2
<1>4. local \in Texts(T, R, 0)
  BY SingleWords
<1> HIDE DEF T, R, first, member, local
<1>5. IsLoose(T, R, first \o member)
  BY <1>0, <1>2, <1>3, LooseJoin DEF IsLoose
<1>6. (first \o member) \o local \in Texts(T, R, 0)
  BY <1>0, <1>4, <1>5, LooseJoin
<1> QED
  BY Zenon, <1>1, <1>6 DEF T, R

LEMMA NamesText ==
    ASSUME Inputs, method \notin Type2Methods, Given(Param("name"))
    PROVE  Names \in Texts(BodyTokens, Allowed(BodyTokens), 0)
<1> DEFINE T == BodyTokens
           R == Allowed(BodyTokens)
           p == Param("name")
           values == Values(p)
           n == Len(values)
           part(i) == IF i = 1 THEN <<values[i]>> ELSE <<Comma, values[i]>>
           seqs == [i \in 1 .. n |-> part(i)]
<1>0. Marks \subseteq T /\ Apart(T) \subseteq R
  BY WordsAreTokens, AllowedIsApart
<1>1. values \in Seq(ValueTokens(T)) /\ values # <<>>
  BY Type1Values DEF Type1Keys
<1>2. DOMAIN values = DOMAIN given[p]
  BY DEF Values, Given
<1>3. Names = FlattenSeq(seqs)
  <2>1. DOMAIN values = 1 .. n
    BY <1>1
  <2>2. DOMAIN given[p] = 1 .. n
    BY Zenon, <1>2, <2>1
  <2> QED
    BY Zenon, <2>2 DEF Names
<1> HIDE DEF T, R, values
<1>4. n \in Nat \ {0} /\ \A i \in 1 .. n : values[i] \in ValueTokens(T)
  BY <1>1, EmptySeq
<1>5. ASSUME NEW i \in 1 .. n
      PROVE  /\ part(i) \in Texts(T, R, 0) /\ part(i) # <<>> /\ Last(part(i)) \in T
             /\ i # 1 => part(i)[1] = Comma
  <2> DEFINE t == values[i]
  <2>1. t \in ValueTokens(T) /\ t \in T
    BY <1>4 DEF ValueTokens
  <2>2. (i = 1 => part(i) = <<t>>) /\ (i # 1 => part(i) = <<Comma, t>>)
    OBVIOUS
  <2> HIDE DEF t, part
  <2>3. <<t>> \in Texts(T, R, 0) /\ <<Comma, t>> \in Texts(T, R, 0)
    BY <1>0, <2>1, LooseValues
  <2>4. <<t>> # <<>> /\ <<Comma, t>> # <<>> /\ Last(<<t>>) = t /\ Last(<<Comma, t>>) = t
        /\ <<Comma, t>>[1] = Comma
    BY DEF Last
  <2> QED
    BY Zenon, <2>1, <2>2, <2>3, <2>4
<1>6. /\ seqs \in [1 .. n -> Texts(T, R, 0)]
      /\ \A i \in 1 .. n : seqs[i] # <<>> /\ Last(seqs[i]) \in T /\ (i # 1 => seqs[i][1] = Comma)
  <2> HIDE DEF part
  <2> QED
    BY <1>5
<1> HIDE DEF seqs
<1>7. ASSUME NEW i \in 1 .. n - 1
      PROVE  <<Last(seqs[i]), seqs[i + 1][1]>> \in R
  <2>1. i \in 1 .. n /\ i + 1 \in 1 .. n /\ i + 1 # 1
    BY <1>4
  <2>2. Last(seqs[i]) \in T /\ seqs[i + 1][1] = Comma
    BY <1>6, <2>1
  <2>3. Comma \in Marks
    BY DEF Marks
  <2> QED
    BY <1>0, <2>2, <2>3, ApartPairs
<1> HIDE DEF n
<1>8. FlattenSeq(seqs) \in Texts(T, R, 0)
  BY <1>4, <1>6, <1>7, TextsInOrder
<1> QED
  BY Zenon, <1>3, <1>8 DEF T, R

\* A text that starts with a space may follow anything.
LEMMA SpaceJoin ==
    ASSUME NEW T, Marks \subseteq T, NEW R, Apart(T) \subseteq R, NEW s \in Texts(T, R, 0),
           NEW t \in Texts(T, R, 0), t = <<>> \/ t[1] = Space
    PROVE  s \o t \in Texts(T, R, 0)
<1>1. s \in Seq(T) /\ t \in Seq(T)
  BY DEF Texts
<1>2. ASSUME s # <<>>, t # <<>>
      PROVE  <<Last(s), t[1]>> \in R
  <2>1. Last(s) \in T
    BY <1>1, <1>2, EndsOfBoth
  <2>2. t[1] = Space /\ Space \in Marks
    BY <1>2 DEF Marks
  <2> QED
    BY Zenon, <2>1, <2>2, ApartPairs
<1>3. s \o t \in Texts(T, R, 0 + 0)
  BY <1>2, TextsJoin
<1> QED
  BY <1>3

\* A list as it is printed, also one without elements.
LEMMA PrintedTexts ==
    ASSUME NEW T, Marks \subseteq T, NEW R, Apart(T) \subseteq R,
           NEW values \in Seq(ValueTokens(T))
    PROVE  Printed(values) \in Texts(T, R, 0)
<1> DEFINE n == Len(values)
           part(i) == IF i = 1 THEN <<values[i]>> ELSE <<Comma, Space, values[i]>>
           seqs == [i \in 1 .. n |-> part(i)]
           list == FlattenSeq(seqs)
<1>0. /\ OpenList \in Marks /\ CloseList \in Marks /\ Comma \in Marks /\ Space \in Marks
      /\ {OpenList, CloseList, Comma, Space} \cap {Open, Close} = {}
  BY MarksDiffer DEF Marks
<1>1. n \in Nat /\ DOMAIN values = 1 .. n /\ \A i \in 1 .. n : values[i] \in ValueTokens(T)
  OBVIOUS
<1>2. Printed(values) = (<<OpenList>> \o list) \o <<CloseList>>
  <2>1. DOMAIN values = 1 .. n
    BY <1>1
  <2> QED
    BY Zenon, <2>1 DEF Printed
<1>3. ASSUME NEW i \in 1 .. n
      PROVE  /\ part(i) \in Texts(T, R, 0) /\ part(i) # <<>> /\ Last(part(i)) \in T
             /\ i # 1 => part(i)[1] = Comma
  <2> DEFINE t == values[i]
  <2>1. t \in ValueTokens(T) /\ t \in T
    BY <1>1 DEF ValueTokens
  <2>2. (i = 1 => part(i) = <<t>>) /\ (i # 1 => part(i) = <<Comma, Space, t>>)
    OBVIOUS
  <2> HIDE DEF t, part
  <2>3. <<t>> \in Texts(T, R, 0) /\ <<t>> # <<>> /\ Last(<<t>>) = t
    BY <2>1, LooseValues DEF Last
  <2>4. /\ <<Comma, Space, t>> \in Texts(T, R, 0) /\ <<Comma, Space, t>> # <<>>
        /\ <<Comma, Space, t>>[1] = Comma /\ Last(<<Comma, Space, t>>) \in T
    <3> DEFINE a == <<Comma, Space>>
               b == <<t>>
    <3>1. a \o b = <<Comma, Space, t>>
      BY ThreeTokens
    <3>2. IsLoose(T, R, a)
      BY <1>0, LooseTokens
    <3> HIDE DEF a, b
    <3>3. b \in Texts(T, R, 0)
      BY Zenon, <2>3 DEF b
    <3>4. a \o b \in Texts(T, R, 0)
      BY <3>2, <3>3, LooseJoin
    <3>5. /\ <<Comma, Space, t>> # <<>> /\ <<Comma, Space, t>>[1] = Comma
          /\ Last(<<Comma, Space, t>>) = t
      BY DEF Last
    <3> QED
      BY Zenon, <2>1, <3>1, <3>4, <3>5
  <2> QED
    BY Zenon, <2>1, <2>2, <2>3, <2>4
<1>4. /\ seqs \in [1 .. n -> Texts(T, R, 0)]
      /\ \A i \in 1 .. n : seqs[i] # <<>> /\ Last(seqs[i]) \in T /\ (i # 1 => seqs[i][1] = Comma)
  <2> HIDE DEF part
  <2> QED
    BY <1>3
<1> HIDE DEF seqs, n
<1>5. list \in Texts(T, R, 0)
  <2>1. CASE n = 0
    <3> DEFINE steps == [i \in 0 .. n |-> {<<>>}]
    <3>1. seqs \in [1 .. n -> Seq(T)]
      BY <1>4, <2>1 DEF Texts
    <3>2. <<>> \in steps[0]
      BY <2>1
    <3>3. \A i \in 1 .. n : \A s \in Seq(T) : s \in steps[i - 1] => s \o seqs[i] \in steps[i]
      BY <2>1
    <3> HIDE DEF steps
    <3>4. list \in steps[n]
      BY <1>1, <3>1, <3>2, <3>3, FlattenSteps
    <3>5. list = <<>>
      BY <1>1, <3>4 DEF steps
    <3> QED
      BY Zenon, <3>5, NoText
  <2>2. CASE n # 0
    <3>1. ASSUME NEW i \in 1 .. n - 1
          PROVE  <<Last(seqs[i]), seqs[i + 1][1]>> \in R
      <4>1. i \in 1 .. n /\ i + 1 \in 1 .. n /\ i + 1 # 1
        BY <1>1
      <4>2. Last(seqs[i]) \in T /\ seqs[i + 1][1] = Comma
        BY <1>4, <4>1
      <4> QED
        BY <1>0, <4>2, ApartPairs
    <3>2. n \in Nat \ {0}
      BY <1>1, <2>2
    <3> QED
      BY <1>4, <3>1, <3>2, TextsInOrder
  <2> QED
    BY <2>1, <2>2
<1> HIDE DEF list
<1> DEFINE start == <<OpenList>>
           end == <<CloseList>>
<1>6. /\ start \in Texts(T, R, 0) /\ start # <<>> /\ Last(start) = OpenList
      /\ end \in Texts(T, R, 0) /\ end # <<>> /\ end[1] = CloseList
  BY <1>0, Single
<1> HIDE DEF start, end
<1>7. start \o list \in Texts(T, R, 0)
  <2>1. ASSUME list # <<>>
        PROVE  <<Last(start), list[1]>> \in R
    <3>1. list[1] \in T
      BY <1>5, <2>1, EndsOfBoth DEF Texts
    <3> QED
      BY Zenon, <1>0, <1>6, <3>1, ApartPairs
  <2>2. start \o list \in Texts(T, R, 0 + 0)
    BY <1>5, <1>6, <2>1, TextsJoin
  <2> QED
    BY <2>2
<1> DEFINE s == start \o list
<1>8. s \in Texts(T, R, 0) /\ s # <<>> /\ Last(s) \in T
  <2>1. start \in Seq(T) /\ list \in Seq(T)
    BY <1>5, <1>6 DEF Texts
  <2>2. start \o list \in Seq(T) /\ start \o list # <<>>
    BY <1>6, <2>1, EndsOfBoth, BothTexts
  <2> HIDE DEF s
  <2>3. s \in Seq(T) /\ s # <<>>
    BY Zenon, <2>2 DEF s
  <2>4. Last(s) \in T
    BY <2>3, EndsOfBoth
  <2> QED
    BY Zenon, <1>7, <2>3, <2>4 DEF s
<1> HIDE DEF s
<1>9. s \o end \in Texts(T, R, 0)
  <2>1. <<Last(s), end[1]>> \in R
    BY Zenon, <1>0, <1>6, <1>8, ApartPairs
  <2>2. s \o end \in Texts(T, R, 0 + 0)
    BY <1>6, <1>8, <2>1, TextsJoin
  <2> QED
    BY <2>2
<1> QED
  BY Zenon, <1>2, <1>9 DEF s, start, end

LEMMA StartTranTexts ==
    ASSUME Inputs, method \notin Type2Methods
    PROVE  StartTranText \in Texts(BodyTokens, Allowed(BodyTokens), 0)
<1> DEFINE T == BodyTokens
           R == Allowed(BodyTokens)
           all == Given(Param("name")) /\ given[Param("name")] \in {<<"ALL">>, <<"all">>}
           first == <<K("STA"), Space, K("TRAN"), Space>>
           names == IF Given(Param("name")) /\ ~all THEN Names ELSE <<K("ALL")>>
           class == IF all THEN <<Space, K("CLASS"), Space>> \o Printed(Values(Param("class")))
                    ELSE <<>>
           affinity == IF Given(Param("name")) /\ ~all /\ Given(Param("affinity"))
                       THEN <<Space, K("AFFINITY")>> ELSE <<>>
<1>0. Marks \subseteq T /\ Apart(T) \subseteq R
  BY WordsAreTokens, AllowedIsApart
<1>01. Space \in T /\ Space \in Marks /\ Space \notin {Open, Close}
  BY <1>0, MarksDiffer DEF Marks
<1>1. StartTranText = ((first \o names) \o class) \o affinity
  BY Zenon DEF StartTranText
<1>2. IsLoose(T, R, first)
  BY <1>0, LooseWords, WordsOfType1
<1>3. names \in Texts(T, R, 0)
  <2>1. K("ALL") \in T /\ K("ALL") \notin {Open, Close}
    BY WordsOfType1
  <2>2. <<K("ALL")>> \in Texts(T, R, 0)
    BY <2>1, Single
  <2> QED
    BY Zenon, <2>2, NamesText
<1>4. class \in Texts(T, R, 0) /\ (class = <<>> \/ class[1] = Space)
  <2>1. CASE ~all
    BY Zenon, <2>1, NoText
  <2>2. CASE all
    <3>1. Values(Param("class")) \in Seq(ValueTokens(T))
      <4>1. CASE Given(Param("class"))
        BY <4>1, Type1Values DEF Type1Keys
      <4>2. CASE ~Given(Param("class"))
        <5>1. Values(Param("class")) = <<>>
          BY Zenon, <4>2 DEF Values
        <5>2. <<>> \in Seq(ValueTokens(T))
          OBVIOUS
        <5> QED
          BY Zenon, <5>1, <5>2
      <4> QED
        BY <4>1, <4>2
    <3> DEFINE a == <<Space>>
               b == <<K("CLASS"), Space>>
               c == Printed(Values(Param("class")))
    <3>2. class = (a \o b) \o c
      <4>1. <<Space, K("CLASS"), Space>> = a \o b
        BY ThreeTokens
      <4> HIDE DEF a, b
      <4> QED
        BY Zenon, <2>2, <4>1
    <3>3. a \in Texts(T, R, 0) /\ Last(a) = Space /\ a[1] = Space /\ a # <<>>
      BY <1>01, Single
    <3>4. IsLoose(T, R, a)
      BY Zenon, <3>3 DEF IsLoose
    <3>5. IsLoose(T, R, b)
      BY <1>0, LooseWords, WordsOfType1
    <3>6. c \in Texts(T, R, 0)
      <4> HIDE DEF T, R
      <4> QED
        BY <1>0, <3>1, PrintedTexts
    <3> HIDE DEF T, R, a, b, c
    <3>7. IsLoose(T, R, a \o b)
      BY <1>0, <3>4, <3>5, LooseJoin DEF IsLoose
    <3>8. (a \o b) \o c \in Texts(T, R, 0)
      BY <1>0, <3>6, <3>7, LooseJoin
    <3>9. ((a \o b) \o c)[1] = Space
      <4>1. a \in Seq(T) /\ b \in Seq(T) /\ c \in Seq(T)
        BY <3>3, <3>5, <3>6 DEF IsLoose, Texts
      <4>2. a \o b \in Seq(T) /\ a \o b # <<>> /\ (a \o b)[1] = Space
        BY <3>3, <4>1, BothTexts, EndsOfBoth
      <4> DEFINE s == a \o b
      <4>3. s \in Seq(T) /\ s # <<>> /\ s[1] = Space
        BY <4>2
      <4> HIDE DEF s
      <4>4. (s \o c)[1] = s[1]
        BY <4>1, <4>3, EndsOfBoth
      <4> QED
        BY Zenon, <4>3, <4>4 DEF s
    <3> QED
      BY Zenon, <3>2, <3>8, <3>9 DEF T, R
  <2> QED
    BY <2>1, <2>2
<1>5. affinity \in Texts(T, R, 0) /\ (affinity = <<>> \/ affinity[1] = Space)
  <2>1. K("AFFINITY") \in T /\ K("AFFINITY") \notin {Open, Close}
    BY WordsOfType1
  <2>2. <<Space, K("AFFINITY")>> \in R
    BY <1>0, <1>01, <2>1, ApartPairs
  <2>3. <<Space, K("AFFINITY")>> \in Texts(T, R, 0) /\ <<Space, K("AFFINITY")>>[1] = Space
    BY <1>01, <2>1, <2>2, Pair
  <2> QED
    BY Zenon, <2>3, NoText
<1> HIDE DEF T, R, first, names, class, affinity
<1>6. first \o names \in Texts(T, R, 0)
  BY <1>0, <1>2, <1>3, LooseJoin
<1>7. (first \o names) \o class \in Texts(T, R, 0)
  BY <1>0, <1>4, <1>6, SpaceJoin
<1>8. ((first \o names) \o class) \o affinity \in Texts(T, R, 0)
  BY <1>0, <1>5, <1>7, SpaceJoin
<1> QED
  BY Zenon, <1>1, <1>8 DEF T, R

LEMMA StartPgmTexts ==
    ASSUME Inputs, method \notin Type2Methods
    PROVE  StartPgmText \in Texts(BodyTokens, Allowed(BodyTokens), 0)
<1> DEFINE T == BodyTokens
           R == Allowed(BodyTokens)
           first == <<K("STA"), Space, K("PGM"), Space>>
           names == IF Given(Param("name")) THEN Names ELSE <<K("ALL")>>
<1>0. Marks \subseteq T /\ Apart(T) \subseteq R
  BY WordsAreTokens, AllowedIsApart
<1>1. StartPgmText = first \o names
  BY Zenon DEF StartPgmText
<1>2. IsLoose(T, R, first)
  BY <1>0, LooseWords, WordsOfType1
<1>3. names \in Texts(T, R, 0)
  <2>1. K("ALL") \in T /\ K("ALL") \notin {Open, Close}
    BY WordsOfType1
  <2>2. <<K("ALL")>> \in Texts(T, R, 0)
    BY <2>1, Single
  <2> QED
    BY Zenon, <2>2, NamesText
<1> HIDE DEF T, R, first, names
<1>4. first \o names \in Texts(T, R, 0)
  BY <1>0, <1>2, <1>3, LooseJoin
<1> QED
  BY Zenon, <1>1, <1>4 DEF T, R

LEMMA DisplayTexts ==
    ASSUME method \notin Type2Methods
    PROVE  <<K("DIS"), Space, K("ACT"), Space, K("REGION")>>
             \in Texts(BodyTokens, Allowed(BodyTokens), 0)
<1> DEFINE T == BodyTokens
           R == Allowed(BodyTokens)
           first == <<K("DIS"), Space, K("ACT"), Space>>
           region == <<K("REGION")>>
<1>0. Marks \subseteq T /\ Apart(T) \subseteq R
  BY WordsAreTokens, AllowedIsApart
<1>1. <<K("DIS"), Space, K("ACT"), Space, K("REGION")>> = first \o region
  OBVIOUS
<1>2. IsLoose(T, R, first)
  BY <1>0, LooseWords, WordsOfType1
<1>3. region \in Texts(T, R, 0)
  BY WordsOfType1, Single
<1> HIDE DEF T, R, first, region
<1>4. first \o region \in Texts(T, R, 0)
  BY <1>0, <1>2, <1>3, LooseJoin
<1> QED
  BY Zenon, <1>1, <1>4 DEF T, R

LEMMA Type1Texts ==
    ASSUME Inputs, method \notin Type2Methods
    PROVE  Type1Text \in Texts(BodyTokens, Allowed(BodyTokens), 0)
<1>1. method \in {"StopRegion", "StartRegion", "DisplayRegion", "StartTran", "StartPgm"}
  BY MethodsAssumption DEF Inputs, Type1Params
<1>2. /\ method = "StopRegion" => Type1Text = StopText
      /\ method = "StartRegion" => Type1Text = StartRegionText
      /\ method = "DisplayRegion" =>
           Type1Text = <<K("DIS"), Space, K("ACT"), Space, K("REGION")>>
      /\ method = "StartTran" => Type1Text = StartTranText
      /\ method = "StartPgm" => Type1Text = StartPgmText
  BY DEF Type1Text
<1> QED
  BY Zenon, <1>1, <1>2, StopTexts, StartRegionTexts, StartTranTexts, StartPgmTexts, DisplayTexts

-----------------------------------------------------------------------------
(* The commands *)

\* What is in the parentheses of CMD.
IsEssential(b) ==
    /\ b \in Texts(BodyTokens, Allowed(BodyTokens), 0)
    /\ b # <<>> /\ Last(b) # Space
    /\ b[1] \in {K("QUERY"), K("CREATE"), K("UPDATE"), K("DELETE"), Open}

\* What is after them.
IsRest(t) == t \in Seq(RouteTokens) /\ Chosen(ValueTokens(RouteTokens), t) = RouteNames

InCmd(b) == (<<K("CMD"), Open>> \o b) \o <<Close>>

IsCommand(s, b, t) ==
    /\ IsEssential(b) /\ IsRest(t)
    /\ s = InCmd(b) \o t
    /\ s \in Texts(Tokens, Allowed(Tokens), 0)

IsCommandText(s) == \E b, t : IsCommand(s, b, t)

\* A command that is allowed can be closed and followed by its systems.
LEMMA AllowedCommands ==
    ASSUME method \notin Type2Methods, NEW b, IsEssential(b), b[1] = Open,
           NEW t \in Texts(RouteTokens, Fitting(RouteTokens), 0)
    PROVE  InCmd(b) \o t \in Texts(Tokens, Allowed(Tokens), 0)
<1> DEFINE T == Tokens
           R == Allowed(Tokens)
           cmd == <<K("CMD")>>
           open == <<Open>>
           close == <<Close>>
<1>0. Marks \subseteq T /\ Apart(T) \subseteq R
  BY WordsAreTokens, AllowedIsApart
<1>1. /\ K("CMD") \in T /\ K("CMD") \notin {Open, Close}
      /\ Open \in T /\ Open \in Marks /\ Close \in T /\ Close \in Marks
  BY <1>0, WordsOfType1 DEF Marks
<1>2. Allowed(BodyTokens) \subseteq R
  BY WordsAreTokens DEF Allowed, Apart
<1>3. b \in Texts(T, R, 0)
  BY <1>2, WordsAreTokens, MoreTexts DEF IsEssential
<1>4. t \in Texts(T, R, 0)
  <2>1. Fitting(RouteTokens) \subseteq Apart(RouteTokens)
    BY FittingIsApart
  <2>2. Apart(RouteTokens) \subseteq Apart(T)
    BY WordsAreTokens DEF Apart
  <2>3. Fitting(RouteTokens) \subseteq R
    BY <1>0, <2>1, <2>2
  <2> QED
    BY <2>3, WordsAreTokens, MoreTexts
<1>5. b # <<>> /\ b[1] = Open /\ Last(b) \in T /\ b \in Seq(T) /\ t \in Seq(T)
  <2>1. b \in Seq(T) /\ b # <<>> /\ t \in Seq(T)
    BY <1>3, <1>4 DEF Texts, IsEssential
  <2> QED
    BY <2>1, EndsOfBoth
<1>6. cmd \in Texts(T, R, 0) /\ Last(cmd) = K("CMD") /\ cmd # <<>>
  BY <1>1, Single
<1>7. <<K("CMD"), Open>> = cmd \o open
  BY TwoTokens
<1>8. /\ <<K("CMD"), Open>> \in R /\ <<Open, Open>> \in R /\ <<Last(b), Close>> \in R
      /\ \A x \in T : <<Close, x>> \in R
  BY <1>0, <1>1, <1>5, ApartPairs
<1>9. InCmd(b) = ((cmd \o open) \o b) \o close
  BY Zenon, <1>7 DEF InCmd
<1> HIDE DEF T, R, cmd
<1>10. cmd \o open \in Texts(T, R, 0 + 1)
  BY <1>1, <1>6, <1>8, TextsGrow
<1>11. cmd \o open \in Seq(T) /\ cmd \o open # <<>> /\ Last(cmd \o open) = Open
  <2>1. cmd \in Seq(T)
    BY <1>6 DEF Texts
  <2> QED
    BY <1>1, <2>1, EndsOfLonger
<1> DEFINE s1 == cmd \o open
           s2 == s1 \o b
           s3 == s2 \o close
<1>12. s1 \in Texts(T, R, 1) /\ s1 \in Seq(T) /\ Last(s1) = Open
  BY <1>10, <1>11
<1> HIDE DEF s1, open
<1>13. s2 \in Texts(T, R, 1 + 0) /\ s2 \in Seq(T) /\ Last(s2) = Last(b)
  BY <1>3, <1>5, <1>8, <1>12, TextsJoin, BothTexts, EndsOfBoth
<1>14. s2 \in Texts(T, R, 1)
  BY <1>13
<1> HIDE DEF s2
<1>15. s3 \in Texts(T, R, 1 - 1) /\ Last(s3) = Close
  <2>1. Close # Open
    BY MarksDiffer
  <2> QED
    BY <1>1, <1>8, <1>13, <1>14, <2>1, TextsGrow, EndsOfLonger
<1>16. s3 \in Texts(T, R, 0)
  BY <1>15
<1> HIDE DEF s3
<1>17. ASSUME s3 # <<>>, t # <<>>
       PROVE  <<Last(s3), t[1]>> \in R
  <2>1. t[1] \in T
    BY <1>5, <1>17, EndsOfBoth
  <2> QED
    BY <1>8, <1>15, <2>1
<1>18. s3 \o t \in Texts(T, R, 0 + 0)
  BY <1>4, <1>16, <1>17, TextsJoin
<1>19. s3 \o t \in Texts(T, R, 0)
  BY <1>18
<1> QED
  BY Zenon, <1>9, <1>19 DEF T, R, s1, s2, s3

Regroup(a, o, x, e, c) == ((a \o o) \o x) \o (e \o c) = (a \o ((o \o x) \o e)) \o c

LEMMA TextsRegroup ==
    ASSUME NEW T, NEW a \in Seq(T), NEW o \in Seq(T), NEW x \in Seq(T), NEW e \in Seq(T),
           NEW c \in Seq(T)
    PROVE  Regroup(a, o, x, e, c)
<1> DEFINE ox == o \o x
           oxe == ox \o e
           aox == a \o ox
<1>1. Associate(a, o, x) /\ ox \in Seq(T)
  BY TextsAssociate
<1>2. (a \o o) \o x = aox
  BY Zenon, <1>1 DEF Associate
<1> HIDE DEF ox
<1>3. Associate(a, ox, e) /\ oxe \in Seq(T) /\ aox \in Seq(T)
  BY <1>1, TextsAssociate
<1>4. aox \o e = a \o oxe
  BY Zenon, <1>3 DEF Associate
<1> HIDE DEF oxe, aox
<1>5. Associate(aox, e, c)
  BY <1>3, TextsAssociate
<1>6. (aox \o e) \o c = aox \o (e \o c)
  BY Zenon, <1>5 DEF Associate
<1> QED
  BY Zenon, <1>2, <1>4, <1>6 DEF ox, oxe, Regroup

LEMMA Type1Commands ==
    ASSUME Inputs, method \notin Type2Methods
    PROVE  IsCommandText(<<K("CMD"), Open, Open>> \o Type1Text
                           \o <<Close, Space, K("OPTION=AOPOUTPUT"), Close>> \o Type1Route)
<1> DEFINE T == BodyTokens
           R == Allowed(BodyTokens)
           x == Type1Text
           option == K("OPTION=AOPOUTPUT")
           a == <<K("CMD"), Open>>
           o == <<Open>>
           e == <<Close, Space, option>>
           c == <<Close>>
           ox == o \o x
           b == ox \o e
           t == Type1Route
<1>0. Marks \subseteq T /\ Apart(T) \subseteq R
  BY WordsAreTokens, AllowedIsApart
<1>1. /\ option \in T /\ option \notin {Open, Close} /\ option \notin Marks /\ K("CMD") \in T
      /\ Open \in T /\ Open \in Marks /\ Close \in T /\ Close \in Marks
      /\ Space \in T /\ Space \in Marks /\ Space \notin {Open, Close}
      /\ Open # Close
  BY <1>0, WordsOfType1, MarksDiffer DEF Marks
<1> HIDE DEF option
<1>2. a \in Seq(T) /\ o \in Seq(T) /\ e \in Seq(T) /\ c \in Seq(T)
  BY <1>1
<1>3. x \in Texts(T, R, 0) /\ x \in Seq(T)
  BY Type1Texts DEF Texts
<1>4. (<<K("CMD"), Open, Open>> \o x) \o <<Close, Space, option, Close>> = (a \o b) \o c
  <2>1. <<K("CMD"), Open, Open>> = a \o o
    BY ThreeTokens
  <2>2. <<Close, Space, option, Close>> = e \o c
    OBVIOUS
  <2> HIDE DEF a, o, e, c, x
  <2>3. Regroup(a, o, x, e, c)
    BY <1>2, <1>3, TextsRegroup
  <2> QED
    BY Zenon, <2>1, <2>2, <2>3 DEF Regroup
<1> HIDE DEF T, R, x
<1>5. ox \in Texts(T, R, 1) /\ ox \in Seq(T) /\ ox # <<>> /\ ox[1] = Open /\ Last(ox) \in T
  <2>1. o \in Texts(T, R, 1)
    <3>1. <<>> \in Texts(T, R, 0) /\ <<>> \o <<Open>> = <<Open>>
      BY NoText
    <3>2. <<>> \o <<Open>> \in Texts(T, R, 0 + 1)
      BY <1>1, <3>1, TextsGrow
    <3> QED
      BY <3>1, <3>2
  <2>2. o # <<>> /\ o[1] = Open /\ Last(o) = Open
    BY DEF Last
  <2> HIDE DEF o
  <2>3. ASSUME o # <<>>, x # <<>>
        PROVE  <<Last(o), x[1]>> \in R
    <3>1. x[1] \in T
      BY <1>3, <2>3, EndsOfBoth
    <3> QED
      BY <1>0, <1>1, <2>2, <3>1, ApartPairs
  <2>4. ox \in Texts(T, R, 1 + 0)
    BY <1>3, <2>1, <2>3, TextsJoin
  <2>5. ox \in Seq(T) /\ ox # <<>> /\ ox[1] = Open
    BY <1>2, <1>3, <2>2, BothTexts, EndsOfBoth
  <2>6. Last(ox) \in T
    <3> HIDE DEF ox
    <3> QED
      BY <2>5, EndsOfBoth
  <2> QED
    BY <2>4, <2>5, <2>6
<1> HIDE DEF ox
<1>6. b = ((ox \o <<Close>>) \o <<Space>>) \o <<option>>
  <2>1. AddsThree(ox, Close, Space, option)
    BY <1>1, <1>5, ThreeMore
  <2> QED
    BY Zenon, <2>1 DEF AddsThree
<1>7. b \in Texts(T, R, 0) /\ b # <<>> /\ b[1] = Open /\ Last(b) = option
  <2> DEFINE s1 == ox \o <<Close>>
             s2 == s1 \o <<Space>>
             s3 == s2 \o <<option>>
  <2>1. <<Last(ox), Close>> \in R /\ <<Close, Space>> \in R /\ <<Space, option>> \in R
    BY <1>0, <1>1, <1>5, ApartPairs
  <2>2. s1 \in Texts(T, R, 1 - 1) /\ s1 \in Seq(T) /\ s1 # <<>> /\ Last(s1) = Close /\ s1[1] = Open
    BY <1>1, <1>5, <2>1, TextsGrow, EndsOfLonger
  <2>3. s1 \in Texts(T, R, 0)
    BY <2>2
  <2> HIDE DEF s1
  <2>4. s2 \in Texts(T, R, 0) /\ s2 \in Seq(T) /\ s2 # <<>> /\ Last(s2) = Space /\ s2[1] = Open
    BY <1>1, <2>1, <2>2, <2>3, TextsGrow, EndsOfLonger
  <2> HIDE DEF s2
  <2>5. s3 \in Texts(T, R, 0) /\ s3 # <<>> /\ Last(s3) = option /\ s3[1] = Open
    BY <1>1, <2>1, <2>4, TextsGrow, EndsOfLonger
  <2>6. b = s3
    BY Zenon, <1>6 DEF s1, s2
  <2> QED
    BY Zenon, <2>5, <2>6
<1> HIDE DEF b
<1>8. IsEssential(b)
  <2>1. option # Space
    BY <1>1
  <2> QED
    BY <1>7, <2>1 DEF IsEssential, T, R
<1>9. t \in Texts(RouteTokens, Fitting(RouteTokens), 0) /\ Chosen(ValueTokens(RouteTokens), t) = RouteNames
  BY RouteTextOfType1
<1> HIDE DEF t
<1>10. IsRest(t)
  BY <1>9 DEF IsRest, Texts
<1>11. InCmd(b) \o t \in Texts(Tokens, Allowed(Tokens), 0)
  BY <1>7, <1>8, <1>9, AllowedCommands
<1>12. (<<K("CMD"), Open, Open>> \o x) \o <<Close, Space, option, Close>> \o t = InCmd(b) \o t
  BY Zenon, <1>4 DEF InCmd
<1> QED
  BY Zenon, <1>8, <1>10, <1>11, <1>12 DEF IsCommandText, IsCommand, x, option, t

LEMMA Type2Commands ==
    ASSUME Inputs, method \in Type2Methods, NEW s, IsPhrase(BodyTokens, s),
           s[1] = K(Beans[method].verb), NEW written, written = <<K("CMD"), Open>> \o s
    PROVE  IsCommandText(Append(Format(written), Close) \o RouteText(RouteNames))
<1> DEFINE T == BodyTokens
           cmd == <<K("CMD"), Open>>
           t == RouteText(RouteNames)
<1>0. Marks \subseteq T /\ Marks \subseteq Tokens /\ K("CMD") \in T /\ K("CMD") \in Tokens
  BY WordsAreTokens, WordsOfType1
<1>1. cmd \in Seq(T)
  BY <1>0 DEF Marks
<1>2. PICK b : IsBody(T, b) /\ b[1] = s[1] /\ Format(cmd \o s) = cmd \o b
  <2> HIDE DEF T, cmd
  <2>1. IsPhrase(T, s)
    BY DEF T
  <2> QED
    BY <1>0, <1>1, <2>1, Bodies
<1>3. Append(Format(written), Close) = InCmd(b)
  <2>1. Format(written) = cmd \o b
    BY Zenon, <1>2
  <2>2. b \in Seq(T)
    BY <1>2 DEF IsBody, Texts
  <2>3. cmd \o b \in Seq(T) /\ Close \in T
    BY <1>0, <1>1, <2>2, BothTexts DEF Marks
  <2> DEFINE x == cmd \o b
  <2>4. Append(x, Close) = x \o <<Close>>
    <3> HIDE DEF x
    <3> QED
      BY <2>3, Longer DEF x
  <2> QED
    BY Zenon, <2>1, <2>4 DEF InCmd
<1>4. IsEssential(b)
  <2>1. /\ b \in Texts(T, Fitting(T), 0) /\ b # <<>> /\ (Last(b) = Close \/ IsKey(Last(b)))
    BY <1>2 DEF IsBody
  <2>2. Last(b) # Space
    <3>1. ~IsKey(Space) /\ Close # Space
      BY MarksDiffer DEF IsKey, Marks
    <3> QED
      BY Zenon, <2>1, <3>1
  <2>3. b[1] \in {K("QUERY"), K("CREATE"), K("UPDATE"), K("DELETE")}
    <3>1. Beans[method].verb \in {"QUERY", "CREATE", "UPDATE", "DELETE"}
      BY BeansAreBeans DEF IsBean
    <3> QED
      BY <1>2, <3>1
  <2>4. Allowed(T) = Fitting(T)
    BY DEF Allowed
  <2> QED
    BY <2>1, <2>2, <2>3, <2>4 DEF IsEssential
<1>5. IsRest(t) /\ (t = <<>> \/ IsPhrase(RouteTokens, t))
  BY RouteTextOfBean DEF IsRest
<1>6. InCmd(b) \o t \in Texts(Tokens, Allowed(Tokens), 0)
  <2>1. t = <<>> \/ IsPhrase(Tokens, t)
    BY <1>5, MorePhrases, WordsAreTokens
  <2>2. b \in Texts(Tokens, Fitting(Tokens), 0)
    <3>1. Fitting(T) \subseteq Fitting(Tokens)
      BY WordsAreTokens DEF Fitting
    <3> QED
      BY <1>2, <3>1, WordsAreTokens, MoreTexts DEF IsBody
  <2>3. IsBody(Tokens, b)
    BY <1>2, <2>2 DEF IsBody
  <2> HIDE DEF t
  <2>4. InCmd(b) \o t \in Texts(Tokens, Fitting(Tokens), 0)
    BY <1>0, <2>1, <2>3, ClosedCommands DEF InCmd
  <2> QED
    BY <2>4 DEF Allowed
<1> QED
  BY Zenon, <1>3, <1>4, <1>5, <1>6 DEF IsCommandText, IsCommand

\* What Type2CommandSerializable begins with.
LEMMA BegunCommands ==
    ASSUME NEW m \in Type2Methods
    PROVE  LET s == <<K(Beans[m].verb), Space, K(Beans[m].resource), Space>>
           IN  /\ IsPhrase(BodyTokens, s) /\ s[1] = K(Beans[m].verb)
               /\ <<K("CMD"), Open, K(Beans[m].verb), Space, K(Beans[m].resource), Space>>
                    = <<K("CMD"), Open>> \o s
<1> DEFINE T == BodyTokens
           v == K(Beans[m].verb)
           r == K(Beans[m].resource)
           s == <<v, Space, r, Space>>
           u == <<v, Space>> \o <<r>>
<1>0. Marks \subseteq T /\ v \in T /\ r \in T /\ IsKey(v) /\ IsKey(r)
  BY WordsAreTokens, WordsOfBeans, WordsAndValues DEF IsKey
<1>1. s = u \o <<Space>> /\ <<K("CMD"), Open, v, Space, r, Space>> = <<K("CMD"), Open>> \o s
  OBVIOUS
<1>2. s[1] = v
  OBVIOUS
<1> HIDE DEF T, v, r
<1>3. Space \in T /\ Space \notin {Open, Close}
  BY <1>0, MarksDiffer DEF Marks
<1>4. v \notin {Open, Close} /\ r \notin {Open, Close}
  BY <1>0, MarksDiffer DEF IsKey, Marks
<1>5. <<v, Space>> \in Fitting(T) /\ <<Space, r>> \in Fitting(T)
  BY <1>0, <1>3, FittingPairs
<1>6. /\ <<v, Space>> \in Texts(T, Fitting(T), 0) /\ <<v, Space>> \in Seq(T) /\ <<v, Space>> # <<>>
      /\ <<v, Space>>[1] = v /\ Last(<<v, Space>>) = Space
  BY <1>0, <1>3, <1>4, <1>5, Pair
<1>7. u \in Texts(T, Fitting(T), 0)
  BY <1>0, <1>4, <1>5, <1>6, TextsGrow
<1>8. u # <<>> /\ u[1] = v /\ Last(u) = r
  <2> DEFINE w == <<v, Space>>
  <2>1. w \in Seq(T) /\ w # <<>> /\ w[1] = v
    BY <1>6
  <2> HIDE DEF w
  <2>2. w \o <<r>> # <<>> /\ Last(w \o <<r>>) = r /\ (w \o <<r>>)[1] = v
    BY <1>0, <2>1, EndsOfLonger
  <2> QED
    BY Zenon, <2>2 DEF w
<1> HIDE DEF u
<1>9. IsPhrase(T, u \o <<Space>>)
  BY <1>0, <1>7, <1>8, PhrasesWithSpace
<1> QED
  BY Zenon, <1>1, <1>2, <1>9 DEF T, v, r

-----------------------------------------------------------------------------
(* The inductive invariant *)

\* The text that the serializer has written: all its fields so far are complete.
IsBegun(s) ==
    /\ IsPhrase(BodyTokens, s) /\ s[1] = K(Beans[method].verb)
    /\ text = <<K("CMD"), Open>> \o s

Fillings == phase = "Filling" => text = <<>> /\ bean = <<>> /\ next = 1

Refusals == phase = "Refused" => HasBadValue /\ text = <<>> /\ bean = <<>> /\ next = 1

Writings ==
    phase = "Writing" =>
        /\ method \in Type2Methods /\ BeanIsFilled
        /\ next \in 1 .. Len(Beans[method].fields) + 1
        /\ \E s : IsBegun(s)

Writtens ==
    phase = "Written" =>
        /\ IsCommandText(text)
        /\ DOMAIN bean \subseteq DOMAIN given
        /\ next \in 1 .. (IF method \in Type2Methods THEN Len(Beans[method].fields) + 1 ELSE 1)

IInv ==
    /\ Inputs
    /\ phase \in {"Filling", "Writing", "Written", "Refused"}
    /\ Fillings /\ Refusals /\ Writings /\ Writtens

\* What a command is depends on the request alone.
LEMMA SameCommands ==
    ASSUME method' = method, given' = given, route' = route, IsCommandText(text')
    PROVE  IsCommandText(text)'
<1>1. PICK b, t : IsCommand(text', b, t)
  BY DEF IsCommandText
<1>2. RouteNames' = RouteNames
  BY DEF RouteNames
<1>3. Allowed(BodyTokens)' = Allowed(BodyTokens) /\ Allowed(Tokens)' = Allowed(Tokens)
  BY DEF Allowed, Given
<1>4. IsEssential(b)'
  BY Zenon, <1>1, <1>3 DEF IsEssential, IsCommand
<1>5. IsRest(t)'
  BY Zenon, <1>1, <1>2 DEF IsRest, IsCommand
<1>6. IsCommand(text, b, t)'
  BY Zenon, <1>1, <1>3, <1>4, <1>5 DEF IsCommand
<1> QED
  BY Zenon, <1>6 DEF IsCommandText

LEMMA CountsOfFields ==
    ASSUME NEW m \in Type2Methods
    PROVE  Len(Beans[m].fields) \in Nat /\ DOMAIN Beans[m].fields = 1 .. Len(Beans[m].fields)
BY BeansAreBeans DEF IsBean, IsSequence

LEMMA InitIInv == Init => IInv
<1> SUFFICES ASSUME Init
             PROVE  IInv
  OBVIOUS
<1>1. Inputs
  BY RequestsAreInputs
<1>2. text = <<>> /\ bean = <<>> /\ next = 1 /\ phase = "Filling"
  BY DEF Init
<1> QED
  BY <1>1, <1>2 DEF IInv, Fillings, Refusals, Writings, Writtens

LEMMA NextIInv == IInv /\ [Next]_vars => IInv'
<1> SUFFICES ASSUME IInv, [Next]_vars
             PROVE  IInv'
  OBVIOUS
<1>1. CASE FillBean
  <2>1. /\ phase = "Filling" /\ method \in Type2Methods /\ ~HasBadValue
        /\ bean' = [p \in Filled |-> Values(Source(p))]
        /\ text' = <<K("CMD"), Open, K(Beans[method].verb), Space, K(Beans[method].resource), Space>>
        /\ phase' = "Writing"
        /\ method' = method /\ given' = given /\ route' = route /\ next' = next
    BY <1>1 DEF FillBean
  <2>2. Inputs'
    BY <2>1 DEF IInv, Inputs
  <2>3. BeanIsFilled'
    <3>1. HasBadValue' = HasBadValue /\ Filled' = Filled
      BY <2>1 DEF HasBadValue, Filled, LooksAt, Given
    <3>2. \A p : Values(p)' = Values(p)
      BY <2>1 DEF Values, Given
    <3>3. [p \in Filled |-> Values(Source(p))]' = [p \in Filled |-> Values(Source(p))]
      BY Zenon, <2>1, <3>1 DEF Values, Given
    <3> QED
      BY Zenon, <2>1, <3>1, <3>3 DEF BeanIsFilled
  <2>4. next' \in 1 .. Len(Beans[method].fields) + 1
    <3>1. next = 1
      BY <2>1 DEF IInv, Fillings
    <3> QED
      BY <2>1, <3>1, CountsOfFields
  <2>5. \E s : IsBegun(s)'
    <3> DEFINE s == <<K(Beans[method].verb), Space, K(Beans[method].resource), Space>>
    <3>1. IsPhrase(BodyTokens, s) /\ s[1] = K(Beans[method].verb) /\ text' = <<K("CMD"), Open>> \o s
      BY Zenon, <2>1, BegunCommands
    <3> HIDE DEF s
    <3>2. PICK r : r = s
      OBVIOUS
    <3>3. IsBegun(r)'
      BY Zenon, <2>1, <3>1, <3>2 DEF IsBegun
    <3> QED
      BY Zenon, <3>3
  <2>6. Writings'
    BY <2>1, <2>3, <2>4, <2>5 DEF Writings
  <2> QED
    BY <2>1, <2>2, <2>6 DEF IInv, Fillings, Refusals, Writtens
<1>2. CASE Refuse
  <2>1. /\ phase = "Filling" /\ HasBadValue /\ phase' = "Refused"
        /\ method' = method /\ given' = given /\ route' = route /\ bean' = bean /\ next' = next
        /\ text' = text
    BY <1>2 DEF Refuse
  <2>2. Inputs'
    BY <2>1 DEF IInv, Inputs
  <2>3. HasBadValue'
    BY <2>1 DEF HasBadValue, Filled, LooksAt, Given
  <2>4. text = <<>> /\ bean = <<>> /\ next = 1
    BY <2>1 DEF IInv, Fillings
  <2> QED
    BY <2>1, <2>2, <2>3, <2>4 DEF IInv, Fillings, Refusals, Writings, Writtens
<1>3. CASE WriteField
  <2>1. /\ phase = "Writing" /\ next <= Len(Beans[method].fields)
        /\ text' = text \o FieldText(Beans[method].fields[next])
        /\ next' = next + 1
        /\ method' = method /\ given' = given /\ route' = route /\ bean' = bean /\ phase' = phase
    BY <1>3 DEF WriteField
  <2>2. Inputs'
    BY <2>1 DEF IInv, Inputs
  <2>3. /\ Inputs /\ method \in Type2Methods /\ BeanIsFilled
        /\ next \in 1 .. Len(Beans[method].fields) + 1
        /\ \E s : IsBegun(s)
    BY <2>1 DEF IInv, Writings
  <2>4. BeanIsFilled'
    BY <2>1, <2>3 DEF BeanIsFilled, HasBadValue, Filled, LooksAt, Given, Values
  <2>5. next' \in 1 .. Len(Beans[method].fields) + 1 /\ next \in DOMAIN Beans[method].fields
    BY <2>1, <2>3, CountsOfFields
  <2>6. \E s : IsBegun(s)'
    <3> DEFINE t == FieldText(Beans[method].fields[next])
               T == BodyTokens
               cmd == <<K("CMD"), Open>>
    <3>1. PICK s : IsBegun(s)
      BY <2>3
    <3>2. IsPhrase(T, s) /\ s[1] = K(Beans[method].verb) /\ text = cmd \o s
      BY Zenon, <3>1 DEF IsBegun
    <3>3. t = <<>> \/ IsPhrase(T, t)
      BY <2>3, <2>5, FieldTexts
    <3>4. Marks \subseteq T /\ cmd \in Seq(T)
      <4>1. Marks \subseteq T /\ K("CMD") \in T
        BY WordsAreTokens, WordsOfType1
      <4> QED
        BY <4>1 DEF Marks
    <3>5. s \in Seq(T)
      BY <3>2, PhraseFacts
    <3>6. text' = text \o t
      BY <2>1
    <3> HIDE DEF t, T, cmd
    <3>7. CASE t = <<>>
      <4>1. text \o t = text
        <5>1. text \in Seq(T)
          BY <3>2, <3>4, <3>5, BothTexts
        <5> QED
          BY <3>7, <5>1
      <4>2. IsBegun(s)'
        BY Zenon, <2>1, <3>2, <3>6, <4>1 DEF IsBegun, T, cmd
      <4> QED
        BY Zenon, <4>2
    <3>8. CASE IsPhrase(T, t)
      <4>1. IsPhrase(T, s \o t) /\ (s \o t)[1] = s[1]
        BY <3>2, <3>4, <3>8, PhrasesJoin
      <4>2. t \in Seq(T)
        BY <3>8, PhraseFacts
      <4>3. Associate(cmd, s, t)
        BY <3>4, <3>5, <4>2, TextsAssociate
      <4>4. PICK r : r = s \o t
        OBVIOUS
      <4>5. IsPhrase(T, r) /\ r[1] = K(Beans[method].verb) /\ text' = cmd \o r
        BY Zenon, <3>2, <3>6, <4>1, <4>3, <4>4 DEF Associate
      <4>6. IsBegun(r)'
        BY Zenon, <2>1, <4>5 DEF IsBegun, T, cmd
      <4> QED
        BY Zenon, <4>6
    <3> QED
      BY <3>3, <3>7, <3>8
  <2>7. Writings'
    BY <2>1, <2>3, <2>4, <2>5, <2>6 DEF Writings
  <2> QED
    BY <2>1, <2>2, <2>7 DEF IInv, Fillings, Refusals, Writtens
<1>4. CASE CloseCommand
  <2>1. /\ phase = "Writing" /\ phase' = "Written"
        /\ text' = Append(Format(text), Close) \o RouteText(RouteNames)
        /\ method' = method /\ given' = given /\ route' = route /\ bean' = bean /\ next' = next
    BY <1>4 DEF CloseCommand
  <2>2. Inputs'
    BY <2>1 DEF IInv, Inputs
  <2>3. /\ Inputs /\ method \in Type2Methods /\ BeanIsFilled
        /\ next \in 1 .. Len(Beans[method].fields) + 1
        /\ \E s : IsBegun(s)
    BY <2>1 DEF IInv, Writings
  <2>4. IsCommandText(text')
    <3>1. PICK s : IsBegun(s)
      BY <2>3
    <3>2. IsCommandText(Append(Format(text), Close) \o RouteText(RouteNames))
      BY <2>3, <3>1, Type2Commands DEF IsBegun
    <3> QED
      BY Zenon, <2>1, <3>2
  <2>5. IsCommandText(text)'
    BY <2>1, <2>4, SameCommands
  <2>6. DOMAIN bean \subseteq DOMAIN given
    BY <2>3 DEF BeanIsFilled, Filled
  <2>7. Writtens'
    BY <2>1, <2>3, <2>5, <2>6 DEF Writtens
  <2> QED
    BY <2>1, <2>2, <2>7 DEF IInv, Fillings, Refusals, Writings
<1>5. CASE WriteDirect
  <2>1. /\ phase = "Filling" /\ method \notin Type2Methods /\ phase' = "Written"
        /\ text' = <<K("CMD"), Open, Open>> \o Type1Text
                     \o <<Close, Space, K("OPTION=AOPOUTPUT"), Close>> \o Type1Route
        /\ method' = method /\ given' = given /\ route' = route /\ bean' = bean /\ next' = next
    BY <1>5 DEF WriteDirect
  <2>2. Inputs'
    BY <2>1 DEF IInv, Inputs
  <2>3. Inputs /\ bean = <<>> /\ next = 1
    BY <2>1 DEF IInv, Fillings
  <2>4. IsCommandText(text')
    BY Zenon, <2>1, <2>3, Type1Commands
  <2>5. IsCommandText(text)'
    BY <2>1, <2>4, SameCommands
  <2>6. DOMAIN bean \subseteq DOMAIN given
    BY <2>3
  <2>7. Writtens'
    BY <2>1, <2>3, <2>5, <2>6 DEF Writtens
  <2> QED
    BY <2>1, <2>2, <2>7 DEF IInv, Fillings, Refusals, Writings
<1>6. CASE UNCHANGED vars
  <2>1. /\ method' = method /\ given' = given /\ route' = route /\ bean' = bean /\ next' = next
        /\ text' = text /\ phase' = phase
    BY <1>6 DEF vars
  <2>2. Inputs' /\ Fillings' /\ (HasBadValue' <=> HasBadValue)
    BY <2>1 DEF IInv, Inputs, Fillings, HasBadValue, Filled, LooksAt, Given
  <2>3. Refusals'
    BY <2>1, <2>2 DEF IInv, Refusals
  <2>4. ASSUME phase = "Writing"
        PROVE  BeanIsFilled' /\ \E s : IsBegun(s)'
    <3>1. BeanIsFilled /\ \E s : IsBegun(s)
      BY <2>4 DEF IInv, Writings
    <3>2. BeanIsFilled'
      BY <2>1, <3>1 DEF BeanIsFilled, HasBadValue, Filled, LooksAt, Given, Values
    <3>3. PICK s : IsBegun(s)
      BY <3>1
    <3>4. IsBegun(s)'
      BY Zenon, <2>1, <3>3 DEF IsBegun
    <3> QED
      BY <3>2, <3>4
  <2>5. Writings'
    BY <2>1, <2>4 DEF IInv, Writings
  <2>6. Writtens'
    <3>1. IsCommandText(text) => IsCommandText(text)'
      BY <2>1, SameCommands
    <3> QED
      BY <2>1, <3>1 DEF IInv, Writtens
  <2> QED
    BY <2>1, <2>2, <2>3, <2>5, <2>6 DEF IInv
<1> QED
  BY <1>1, <1>2, <1>3, <1>4, <1>5, <1>6 DEF Next

-----------------------------------------------------------------------------
(* The tokens of a command *)

LEMMA KindsOfTokens ==
    ASSUME NEW i \in Tokens
    PROVE  /\ i \in Marks \/ i[1] \in {"K", "V"}
           /\ i[1] = "V" /\ i[4] = "bad" => ~Enumerated(<<i[2], i[3]>>)
<1>1. CASE i \in Marks
  BY <1>1, MarksDiffer
<1>2. CASE i \in Words
  <2>1. PICK word \in WordNames : i = K(word)
    BY <1>2 DEF Words
  <2>2. i[1] = "K"
    BY Zenon, <2>1, WordsAndValues
  <2> QED
    BY <2>2
<1>3. ASSUME NEW params, NEW p \in params, IsPair(p), NEW item \in Items, Allows(p, item),
             i = V(p, item)
      PROVE  /\ i \in Marks \/ i[1] \in {"K", "V"}
             /\ i[1] = "V" /\ i[4] = "bad" => ~Enumerated(<<i[2], i[3]>>)
  <2>1. i[1] = "V" /\ i[2] = p[1] /\ i[3] = p[2] /\ i[4] = item
    BY Zenon, <1>3, WordsAndValues
  <2>2. <<i[2], i[3]>> = p
    BY Zenon, <1>3, <2>1 DEF IsPair
  <2> QED
    BY <1>3, <2>1, <2>2 DEF Allows
<1>4. CASE i \in Said(BodyParams)
  <2>1. PICK p \in BodyParams : \E item \in Items : Allows(p, item) /\ i = V(p, item)
    BY <1>4, SaidTokens
  <2>2. PICK item \in Items : Allows(p, item) /\ i = V(p, item)
    BY <2>1
  <2>3. IsPair(p)
    BY DEF BodyParams
  <2> QED
    BY <1>3, <2>2, <2>3
<1>5. CASE i \in Said({RouteParam})
  <2>1. PICK p \in {RouteParam} : \E item \in Items : Allows(p, item) /\ i = V(p, item)
    BY <1>5, SaidTokens
  <2>2. PICK item \in Items : Allows(p, item) /\ i = V(p, item)
    BY <2>1
  <2>3. p = RouteParam /\ IsPair(RouteParam)
    BY DEF IsPair, RouteParam
  <2> QED
    BY <1>3, <2>2, <2>3
<1> QED
  BY <1>1, <1>2, <1>4, <1>5 DEF Tokens, BodyTokens, RouteTokens

\* No value of the route is in the parentheses of CMD.
LEMMA BodiesHaveNoRoute ==
    ASSUME NEW i \in BodyTokens
    PROVE  ~IsValueOf(i, RouteParam)
<1> SUFFICES ASSUME IsValueOf(i, RouteParam)
             PROVE  FALSE
  OBVIOUS
<1>1. i[1] = "V" /\ <<i[2], i[3]>> = RouteParam
  BY DEF IsValueOf
<1>2. i \notin Marks
  BY <1>1, MarksDiffer
<1>3. i \notin Words
  <2> SUFFICES ASSUME NEW word \in WordNames, i = K(word)
               PROVE  FALSE
    BY DEF Words
  <2>1. i[1] = "K"
    BY Zenon, WordsAndValues
  <2> QED
    BY <1>1, <2>1
<1>4. PICK p \in BodyParams : \E item \in Items : Allows(p, item) /\ i = V(p, item)
  BY <1>2, <1>3, SaidTokens DEF BodyTokens
<1>5. PICK item \in Items : i = V(p, item)
  BY <1>4
<1>6. i[2] = p[1] /\ i[3] = p[2]
  BY Zenon, <1>5, WordsAndValues
<1>7. IsPair(p) /\ p # RouteParam
  BY DEF BodyParams
<1> QED
  BY Zenon, <1>1, <1>6, <1>7 DEF IsPair

\* The pairs of tokens of a command.
LEMMA NextTokens ==
    ASSUME NEW T, NEW R, NEW s \in Texts(T, R, 0), NEW i \in 1 .. Len(s) - 1
    PROVE  <<s[i], s[i + 1]>> \in R
BY DEF Texts, Chain

LEMMA TokensOfTexts ==
    ASSUME NEW T, NEW R, NEW s \in Texts(T, R, 0), NEW i \in DOMAIN s
    PROVE  s[i] \in T
BY DEF Texts

LEMMA WrittenCommands ==
    ASSUME IInv, Written
    PROVE  \E b, t : IsCommand(text, b, t)
BY DEF IInv, Writtens, Written, IsCommandText

-----------------------------------------------------------------------------
(* The parameters of the beans *)

\* No member of a sequence is in it twice.
AreDistinct(s) == \A i, j \in DOMAIN s : s[i] = s[j] => i = j

LEMMA DistinctOfBoth ==
    ASSUME NEW A, NEW B, A \cap B = {}, NEW s \in Seq(A), NEW t \in Seq(B),
           AreDistinct(s), AreDistinct(t)
    PROVE  AreDistinct(s \o t) /\ s \o t \in Seq(A \cup B)
<1> DEFINE u == s \o t
           n == Len(s)
           m == Len(t)
           T == A \cup B
<1>0. s \in Seq(T) /\ t \in Seq(T)
  BY SeqMonotonic
<1>1. /\ u \in Seq(T) /\ Len(u) = n + m /\ n \in Nat /\ m \in Nat
      /\ (\A i \in 1 .. n : u[i] = s[i]) /\ (\A i \in 1 .. m : u[n + i] = t[i])
  <2> HIDE DEF T
  <2> QED
    BY <1>0, BothTexts
<1>2. /\ DOMAIN u = 1 .. n + m /\ DOMAIN s = 1 .. n /\ DOMAIN t = 1 .. m
      /\ (\A i \in 1 .. n : s[i] \in A) /\ (\A i \in 1 .. m : t[i] \in B)
  <2> HIDE DEF u
  <2> QED
    BY <1>1
<1> HIDE DEF u, n, m
<1>3. ASSUME NEW i \in 1 .. n + m
      PROVE  \/ i \in 1 .. n /\ u[i] = s[i] /\ u[i] \in A
             \/ i - n \in 1 .. m /\ u[i] = t[i - n] /\ u[i] \in B
  <2>1. i \in 1 .. n \/ (i - n \in 1 .. m /\ n + (i - n) = i)
    BY <1>1
  <2> QED
    BY Zenon, <1>1, <1>2, <2>1
<1>4. ASSUME NEW i \in 1 .. n + m, NEW j \in 1 .. n + m, u[i] = u[j]
      PROVE  i = j
  <2>1. CASE i \in 1 .. n /\ u[i] = s[i] /\ u[i] \in A
    <3>1. j \in 1 .. n /\ u[j] = s[j]
      BY <1>3, <1>4, <2>1
    <3> QED
      BY <1>2, <1>4, <2>1, <3>1 DEF AreDistinct
  <2>2. CASE i - n \in 1 .. m /\ u[i] = t[i - n] /\ u[i] \in B
    <3>1. j - n \in 1 .. m /\ u[j] = t[j - n]
      BY <1>3, <1>4, <2>2
    <3>2. i - n = j - n
      BY <1>2, <1>4, <2>2, <3>1 DEF AreDistinct
    <3> QED
      BY <1>1, <3>2
  <2> QED
    BY <1>3, <2>1, <2>2
<1>5. AreDistinct(u)
  BY <1>2, <1>4 DEF AreDistinct
<1> QED
  BY <1>1, <1>5 DEF u

LEMMA LastAttributes ==
    AreDistinct(<<"LPRI", "MAXRGN", "MSGTYPE", "MSNAME", "NPRI", "PARLIM", "PGM", "PLCT",
                  "PLCTTIME", "RECOVER", "REMOTE", "RESP", "SEGNO", "SEGSZ", "SERIAL", "SIDL",
                  "SIDR", "SPASZ", "SPATRUNC", "TRANSTAT", "WFI">>)
<1> DEFINE u == <<"LPRI", "MAXRGN", "MSGTYPE", "MSNAME", "NPRI", "PARLIM", "PGM", "PLCT",
                  "PLCTTIME", "RECOVER", "REMOTE", "RESP", "SEGNO", "SEGSZ", "SERIAL", "SIDL",
                  "SIDR", "SPASZ", "SPATRUNC", "TRANSTAT", "WFI">>
<1>1. \A i, j \in 1 .. 21 : u[i] = u[j] => i = j
  OBVIOUS
<1>2. DOMAIN u = 1 .. 21
  OBVIOUS
<1> HIDE DEF u
<1>3. AreDistinct(u)
  BY Zenon, <1>1, <1>2 DEF AreDistinct
<1> QED
  BY <1>3 DEF u

LEMMA DistinctAttributes ==
    /\ \A lock \in {<<>>, <<"LOCK">>} : AreDistinct(PgmAttributes(lock))
    /\ \A cpri \in {<<>>, <<"CPRI">>} : \A lock \in {<<>>, <<"LOCK">>} :
          AreDistinct(TranAttributes(cpri, lock))
<1> DEFINE Lock == {"LOCK"}
           Cpri == {"CPRI"}
<1>0. /\ \A lock \in {<<>>, <<"LOCK">>} : lock \in Seq(Lock) /\ AreDistinct(lock)
      /\ \A cpri \in {<<>>, <<"CPRI">>} : cpri \in Seq(Cpri) /\ AreDistinct(cpri)
  BY DEF AreDistinct
<1>1. ASSUME NEW lock \in {<<>>, <<"LOCK">>}
      PROVE  AreDistinct(PgmAttributes(lock))
  <2> DEFINE A == {"BMPTYPE", "DOPT", "FP", "GPSB", "LANG"}
             B == {"RESIDENT", "SCHDTYPE", "TRANSTAT"}
             s == <<"BMPTYPE", "DOPT", "FP", "GPSB", "LANG">>
             t == <<"RESIDENT", "SCHDTYPE", "TRANSTAT">>
  <2>1. s \in Seq(A) /\ t \in Seq(B)
    OBVIOUS
  <2>2. AreDistinct(s) /\ AreDistinct(t)
    BY DEF AreDistinct
  <2>3. A \cap Lock = {} /\ (A \cup Lock) \cap B = {}
    OBVIOUS
  <2>4. PgmAttributes(lock) = (s \o lock) \o t
    BY DEF PgmAttributes
  <2> HIDE DEF A, B, s, t, Lock
  <2> DEFINE r == s \o lock
  <2>5. AreDistinct(r) /\ r \in Seq(A \cup Lock)
    BY <1>0, <2>1, <2>2, <2>3, DistinctOfBoth
  <2> HIDE DEF r
  <2>6. AreDistinct(r \o t)
    BY <2>1, <2>2, <2>3, <2>5, DistinctOfBoth
  <2> QED
    BY Zenon, <2>4, <2>6 DEF r
<1>2. ASSUME NEW cpri \in {<<>>, <<"CPRI">>}, NEW lock \in {<<>>, <<"LOCK">>}
      PROVE  AreDistinct(TranAttributes(cpri, lock))
  <2> DEFINE A == {"AOCMD", "CLASS", "CMTMODE", "CONV"}
             B == {"DCLWA", "DIRROUTE", "EDITRTN", "EDITUC", "EMHBSZ", "EXPRTIME", "FP", "INQ", "LCT"}
             C == {"LPRI", "MAXRGN", "MSGTYPE", "MSNAME", "NPRI", "PARLIM", "PGM", "PLCT",
                   "PLCTTIME", "RECOVER", "REMOTE", "RESP", "SEGNO", "SEGSZ", "SERIAL", "SIDL",
                   "SIDR", "SPASZ", "SPATRUNC", "TRANSTAT", "WFI"}
             s == <<"AOCMD", "CLASS", "CMTMODE", "CONV">>
             t == <<"DCLWA", "DIRROUTE", "EDITRTN", "EDITUC", "EMHBSZ", "EXPRTIME", "FP", "INQ",
                    "LCT">>
             u == <<"LPRI", "MAXRGN", "MSGTYPE", "MSNAME", "NPRI", "PARLIM", "PGM", "PLCT",
                    "PLCTTIME", "RECOVER", "REMOTE", "RESP", "SEGNO", "SEGSZ", "SERIAL", "SIDL",
                    "SIDR", "SPASZ", "SPATRUNC", "TRANSTAT", "WFI">>
  <2>1. s \in Seq(A) /\ t \in Seq(B)
    OBVIOUS
  <2>2. u \in Seq(C)
    OBVIOUS
  <2>3. AreDistinct(s) /\ AreDistinct(t)
    BY DEF AreDistinct
  <2>4. AreDistinct(u)
    BY Zenon, LastAttributes
  <2>5. A \cap Cpri = {} /\ (A \cup Cpri) \cap B = {} /\ ((A \cup Cpri) \cup B) \cap Lock = {}
    OBVIOUS
  <2>6. (((A \cup Cpri) \cup B) \cup Lock) \cap C = {}
    OBVIOUS
  <2>7. TranAttributes(cpri, lock) = (((s \o cpri) \o t) \o lock) \o u
    BY Zenon DEF TranAttributes
  <2> HIDE DEF A, B, C, s, t, u, Lock, Cpri
  <2> DEFINE r1 == s \o cpri
             r2 == r1 \o t
             r3 == r2 \o lock
             R1 == A \cup Cpri
             R2 == R1 \cup B
             R3 == R2 \cup Lock
  <2>8. AreDistinct(r1) /\ r1 \in Seq(R1)
    BY <1>0, <2>1, <2>3, <2>5, DistinctOfBoth
  <2> HIDE DEF r1, R1
  <2>9. AreDistinct(r2) /\ r2 \in Seq(R2)
    BY <2>1, <2>3, <2>5, <2>8, DistinctOfBoth DEF R1
  <2> HIDE DEF r2, R2
  <2>10. AreDistinct(r3) /\ r3 \in Seq(R3)
    BY <1>0, <2>5, <2>9, DistinctOfBoth DEF R1, R2
  <2> HIDE DEF r3, R3
  <2>11. AreDistinct(r3 \o u)
    <3>1. R3 \cap C = {}
      BY Zenon, <2>6 DEF R1, R2, R3
    <3> QED
      BY <2>2, <2>4, <2>10, <3>1, DistinctOfBoth
  <2> QED
    BY Zenon, <2>7, <2>11 DEF r1, r2, r3
<1> QED
  BY <1>1, <1>2

\* The attributes of a group are distinct.  Those of QCNT and LIKE are few; what is declared
\* and not looked at is an attribute of SET.
IsNamed(field) ==
    /\ field.kind # "group" => field.key \notin {"EMHBSZ", "CPRI"}
    /\ field.kind = "group" =>
          /\ AreDistinct(field.keys)
          /\ field.key = "QCNT" => ToSet(field.keys) \subseteq {"QCNTComp", "QCNTValue"}
          /\ field.key = "LIKE" => ToSet(field.keys) \subseteq {"DESC", "RSC"}

LEMMA NamedFields ==
    /\ \A key : key \notin {"EMHBSZ", "CPRI"} => IsNamed(ListField(key)) /\ IsNamed(OneField(key))
    /\ IsNamed(Group("QCNT", <<"QCNTComp", "QCNTValue">>))
    /\ IsNamed(Group("LIKE", <<"DESC", "RSC">>))
    /\ \A keys : AreDistinct(keys) => IsNamed(Group("SET", keys))
    /\ \A key, keys : /\ ListField(key).key = key /\ OneField(key).key = key
                      /\ Group(key, keys).key = key
<1>1. /\ AreDistinct(<<"QCNTComp", "QCNTValue">>)
      /\ AreDistinct(<<"DESC", "RSC">>)
      /\ ToSet(<<"QCNTComp", "QCNTValue">>) \subseteq {"QCNTComp", "QCNTValue"}
      /\ ToSet(<<"DESC", "RSC">>) \subseteq {"DESC", "RSC"}
  BY DEF AreDistinct, ToSet
<1>2. /\ \A key : /\ ListField(key).kind = "list" /\ ListField(key).key = key
                  /\ OneField(key).kind = "one" /\ OneField(key).key = key
      /\ \A key, keys : /\ Group(key, keys).kind = "group" /\ Group(key, keys).key = key
                        /\ Group(key, keys).keys = keys
  BY DEF ListField, OneField, Group, FieldOf
<1>3. \A key : key \notin {"EMHBSZ", "CPRI"} => IsNamed(ListField(key)) /\ IsNamed(OneField(key))
  BY <1>2 DEF IsNamed
<1>4. IsNamed(Group("QCNT", <<"QCNTComp", "QCNTValue">>))
  BY <1>1, <1>2 DEF IsNamed
<1>5. IsNamed(Group("LIKE", <<"DESC", "RSC">>))
  BY <1>1, <1>2 DEF IsNamed
<1>6. \A keys : AreDistinct(keys) => IsNamed(Group("SET", keys))
  BY <1>2 DEF IsNamed
<1> QED
  BY <1>2, <1>3, <1>4, <1>5, <1>6

\* The fields of a bean are distinct too.
AreNamed(fields) ==
    /\ \A i \in DOMAIN fields : IsNamed(fields[i])
    /\ \A i, j \in DOMAIN fields : fields[i].key = fields[j].key => i = j

LEMMA BeansAreNamed ==
    ASSUME NEW m \in Type2Methods
    PROVE  AreNamed(Beans[m].fields)
<1>0. Type2Methods = {"QueryTran", "CreateTran", "UpdateTran", "DeleteTran", "QueryPgm", "CreatePgm", "UpdatePgm", "DeletePgm"}
  BY DEF Type2Methods, Beans
<1>a. /\ \A key : key \notin {"EMHBSZ", "CPRI"} => IsNamed(ListField(key)) /\ IsNamed(OneField(key))
      /\ IsNamed(Group("QCNT", <<"QCNTComp", "QCNTValue">>))
      /\ IsNamed(Group("LIKE", <<"DESC", "RSC">>))
      /\ IsNamed(Group("SET", TranAttributes(<<>>, <<>>)))
      /\ IsNamed(Group("SET", TranAttributes(<<"CPRI">>, <<"LOCK">>)))
      /\ IsNamed(Group("SET", PgmAttributes(<<>>)))
      /\ IsNamed(Group("SET", PgmAttributes(<<"LOCK">>)))
      /\ \A key, keys : /\ ListField(key).key = key /\ OneField(key).key = key
                        /\ Group(key, keys).key = key
  BY NamedFields, DistinctAttributes
<1>1. CASE m = "QueryTran"
  <2> DEFINE fields == <<ListField("NAME"), ListField("CLASS"), Group("QCNT", <<"QCNTComp", "QCNTValue">>),
               ListField("STATUS"), ListField("SHOW"), OneField("CONV"), OneField("FP"),
               OneField("REMOTE"), OneField("RESP")>>
  <2>1. Beans["QueryTran"].fields = fields
    BY DEF Beans, Bean
  <2>2. DOMAIN fields = 1 .. 9
    OBVIOUS
  <2>3. \A i \in 1 .. 9 : IsNamed(fields[i])
    BY <1>a
  <2>4. \A i \in 1 .. 9 : fields[i].key = <<"NAME", "CLASS", "QCNT", "STATUS", "SHOW", "CONV", "FP", "REMOTE", "RESP">>[i]
    BY <1>a
  <2> HIDE DEF fields
  <2>5. \A i, j \in 1 .. 9 : fields[i].key = fields[j].key => i = j
    BY <2>4
  <2> QED
    BY Zenon, <1>1, <2>1, <2>2, <2>3, <2>5 DEF AreNamed
<1>2. CASE m = "CreateTran"
  <2> DEFINE fields == <<ListField("NAME"), Group("LIKE", <<"DESC", "RSC">>),
               Group("SET", TranAttributes(<<>>, <<>>))>>
  <2>1. Beans["CreateTran"].fields = fields
    BY DEF Beans, Bean
  <2>2. DOMAIN fields = 1 .. 3
    OBVIOUS
  <2>3. \A i \in 1 .. 3 : IsNamed(fields[i])
    BY <1>a
  <2>4. \A i \in 1 .. 3 : fields[i].key = <<"NAME", "LIKE", "SET">>[i]
    BY <1>a
  <2> HIDE DEF fields
  <2>5. \A i, j \in 1 .. 3 : fields[i].key = fields[j].key => i = j
    BY <2>4
  <2> QED
    BY Zenon, <1>2, <2>1, <2>2, <2>3, <2>5 DEF AreNamed
<1>3. CASE m = "UpdateTran"
  <2> DEFINE fields == <<ListField("NAME"), ListField("CLASS"), ListField("START"), ListField("STOP"),
               Group("SET", TranAttributes(<<"CPRI">>, <<"LOCK">>)), ListField("OPTION"),
               OneField("SCOPE")>>
  <2>1. Beans["UpdateTran"].fields = fields
    BY DEF Beans, Bean
  <2>2. DOMAIN fields = 1 .. 7
    OBVIOUS
  <2>3. \A i \in 1 .. 7 : IsNamed(fields[i])
    BY <1>a
  <2>4. \A i \in 1 .. 7 : fields[i].key = <<"NAME", "CLASS", "START", "STOP", "SET", "OPTION", "SCOPE">>[i]
    BY <1>a
  <2> HIDE DEF fields
  <2>5. \A i, j \in 1 .. 7 : fields[i].key = fields[j].key => i = j
    BY <2>4
  <2> QED
    BY Zenon, <1>3, <2>1, <2>2, <2>3, <2>5 DEF AreNamed
<1>4. CASE m = "DeleteTran"
  <2> DEFINE fields == <<ListField("NAME"), OneField("OPTION")>>
  <2>1. Beans["DeleteTran"].fields = fields
    BY DEF Beans, Bean
  <2>2. DOMAIN fields = 1 .. 2
    OBVIOUS
  <2>3. \A i \in 1 .. 2 : IsNamed(fields[i])
    BY <1>a
  <2>4. \A i \in 1 .. 2 : fields[i].key = <<"NAME", "OPTION">>[i]
    BY <1>a
  <2> HIDE DEF fields
  <2>5. \A i, j \in 1 .. 2 : fields[i].key = fields[j].key => i = j
    BY <2>4
  <2> QED
    BY Zenon, <1>4, <2>1, <2>2, <2>3, <2>5 DEF AreNamed
<1>5. CASE m = "QueryPgm"
  <2> DEFINE fields == <<ListField("NAME"), ListField("SHOW"), ListField("STATUS")>>
  <2>1. Beans["QueryPgm"].fields = fields
    BY DEF Beans, Bean
  <2>2. DOMAIN fields = 1 .. 3
    OBVIOUS
  <2>3. \A i \in 1 .. 3 : IsNamed(fields[i])
    BY <1>a
  <2>4. \A i \in 1 .. 3 : fields[i].key = <<"NAME", "SHOW", "STATUS">>[i]
    BY <1>a
  <2> HIDE DEF fields
  <2>5. \A i, j \in 1 .. 3 : fields[i].key = fields[j].key => i = j
    BY <2>4
  <2> QED
    BY Zenon, <1>5, <2>1, <2>2, <2>3, <2>5 DEF AreNamed
<1>6. CASE m = "CreatePgm"
  <2> DEFINE fields == <<ListField("NAME"), Group("LIKE", <<"DESC", "RSC">>), Group("SET", PgmAttributes(<<>>))>>
  <2>1. Beans["CreatePgm"].fields = fields
    BY DEF Beans, Bean
  <2>2. DOMAIN fields = 1 .. 3
    OBVIOUS
  <2>3. \A i \in 1 .. 3 : IsNamed(fields[i])
    BY <1>a
  <2>4. \A i \in 1 .. 3 : fields[i].key = <<"NAME", "LIKE", "SET">>[i]
    BY <1>a
  <2> HIDE DEF fields
  <2>5. \A i, j \in 1 .. 3 : fields[i].key = fields[j].key => i = j
    BY <2>4
  <2> QED
    BY Zenon, <1>6, <2>1, <2>2, <2>3, <2>5 DEF AreNamed
<1>7. CASE m = "UpdatePgm"
  <2> DEFINE fields == <<ListField("NAME"), ListField("START"), ListField("STOP"),
               Group("SET", PgmAttributes(<<"LOCK">>)), OneField("OPTION")>>
  <2>1. Beans["UpdatePgm"].fields = fields
    BY DEF Beans, Bean
  <2>2. DOMAIN fields = 1 .. 5
    OBVIOUS
  <2>3. \A i \in 1 .. 5 : IsNamed(fields[i])
    BY <1>a
  <2>4. \A i \in 1 .. 5 : fields[i].key = <<"NAME", "START", "STOP", "SET", "OPTION">>[i]
    BY <1>a
  <2> HIDE DEF fields
  <2>5. \A i, j \in 1 .. 5 : fields[i].key = fields[j].key => i = j
    BY <2>4
  <2> QED
    BY Zenon, <1>7, <2>1, <2>2, <2>3, <2>5 DEF AreNamed
<1>8. CASE m = "DeletePgm"
  <2> DEFINE fields == <<ListField("NAME"), OneField("OPTION")>>
  <2>1. Beans["DeletePgm"].fields = fields
    BY DEF Beans, Bean
  <2>2. DOMAIN fields = 1 .. 2
    OBVIOUS
  <2>3. \A i \in 1 .. 2 : IsNamed(fields[i])
    BY <1>a
  <2>4. \A i \in 1 .. 2 : fields[i].key = <<"NAME", "OPTION">>[i]
    BY <1>a
  <2> HIDE DEF fields
  <2>5. \A i, j \in 1 .. 2 : fields[i].key = fields[j].key => i = j
    BY <2>4
  <2> QED
    BY Zenon, <1>8, <2>1, <2>2, <2>3, <2>5 DEF AreNamed
<1> QED
  BY <1>0, <1>1, <1>2, <1>3, <1>4, <1>5, <1>6, <1>7, <1>8

-----------------------------------------------------------------------------
(* What a type-2 command says *)

\* The tokens of a command of this request, and those that are values of a parameter.
GivenTokens == Marks \cup Words \cup Said(DOMAIN given \cup {RouteParam})
TokensOf(p) == {t \in GivenTokens : IsValueOf(t, p)}

\* The parameters that a command of this request says.
Sayable == (DOMAIN given \ Lost) \cup {RouteParam}

LEMMA TokensOfRequests ==
    ASSUME Inputs
    PROVE  /\ \A p : Speaks(GivenTokens, TokensOf(p))
           /\ \A word \in WordNames : K(word) \in GivenTokens
           /\ \A t \in GivenTokens : IsValue(t) => <<t[2], t[3]>> \in DOMAIN given \cup {RouteParam}
<1>1. ASSUME NEW p
      PROVE  Speaks(GivenTokens, TokensOf(p))
  <2>1. Marks \subseteq GivenTokens
    BY Zenon DEF GivenTokens
  <2>2. \A t \in TokensOf(p) : IsValue(t)
    BY Zenon DEF TokensOf, IsValueOf, IsValue
  <2> QED
    BY Zenon, <2>1, <2>2 DEF Speaks
<1>2. \A word \in WordNames : K(word) \in GivenTokens
  BY Zenon DEF GivenTokens, Words
<1>3. ASSUME NEW t \in GivenTokens, IsValue(t)
      PROVE  <<t[2], t[3]>> \in DOMAIN given \cup {RouteParam}
  <2>1. t \notin Marks
    BY <1>3, MarksDiffer DEF IsValue
  <2>2. t \notin Words
    <3> SUFFICES ASSUME NEW word \in WordNames, t = K(word)
                 PROVE  FALSE
      BY DEF Words
    <3>1. t[1] = "K"
      BY Zenon, WordsAndValues
    <3> QED
      BY <1>3, <3>1 DEF IsValue
  <2>3. PICK p \in DOMAIN given \cup {RouteParam} : \E item \in Items : Allows(p, item) /\ t = V(p, item)
    BY <2>1, <2>2, SaidTokens DEF GivenTokens
  <2>4. t[2] = p[1] /\ t[3] = p[2]
    <3>1. PICK item : t = V(p, item)
      BY <2>3
    <3> QED
      BY Zenon, <3>1, WordsAndValues
  <2>5. IsPair(p)
    <3>1. IsPair(RouteParam)
      BY DEF IsPair, RouteParam
    <3>2. p \in DOMAIN given => IsPair(p)
      BY GivenLists DEF BodyParams
    <3> QED
      BY <3>1, <3>2
  <2> QED
    BY Zenon, <2>3, <2>4, <2>5 DEF IsPair
<1> QED
  BY <1>1, <1>2, <1>3

\* The values of a list are those of its parameter.
LEMMA TokensOfLists ==
    ASSUME Inputs, NEW p \in DOMAIN given \cup {RouteParam}, IsPair(p), NEW list,
           list \in Seq(ToSet(list)), ToSet(list) \subseteq Items,
           "bad" \in ToSet(list) => ~Enumerated(p)
    PROVE  LET values == [i \in DOMAIN list |-> V(p, list[i])]
           IN  /\ values \in Seq(ValueTokens(GivenTokens))
               /\ \A i \in DOMAIN values : values[i] \in TokensOf(p)
               /\ \A q : q # p => \A i \in DOMAIN values : values[i] \notin TokensOf(q)
<1> DEFINE values == [i \in DOMAIN list |-> V(p, list[i])]
           params == DOMAIN given \cup {RouteParam}
<1>1. values \in Seq(ValueTokens(GivenTokens))
  <2>1. Said(params) \subseteq GivenTokens
    BY Zenon DEF GivenTokens
  <2>2. p \in params
    OBVIOUS
  <2> HIDE DEF values, params
  <2> QED
    BY <2>1, <2>2, TokensOfItems DEF values
<1>2. ASSUME NEW i \in DOMAIN values
      PROVE  values[i] \in GivenTokens /\ values[i][1] = "V" /\ <<values[i][2], values[i][3]>> = p
  <2>1. values[i] \in GivenTokens
    <3> HIDE DEF values
    <3>1. values[i] \in ValueTokens(GivenTokens)
      BY <1>1
    <3> QED
      BY <3>1 DEF ValueTokens
  <2>2. values[i] = V(p, list[i])
    BY Zenon
  <2>3. values[i][1] = "V" /\ values[i][2] = p[1] /\ values[i][3] = p[2]
    BY Zenon, <2>2, WordsAndValues
  <2> QED
    BY Zenon, <2>1, <2>3 DEF IsPair
<1> HIDE DEF values
<1>3. \A i \in DOMAIN values : values[i] \in TokensOf(p)
  BY Zenon, <1>2 DEF TokensOf, IsValueOf
<1>4. ASSUME NEW q, q # p, NEW i \in DOMAIN values
      PROVE  values[i] \notin TokensOf(q)
  <2>1. ~IsValueOf(values[i], q)
    BY Zenon, <1>2, <1>4 DEF IsValueOf
  <2> QED
    BY Zenon, <2>1 DEF TokensOf
<1> QED
  BY <1>1, <1>3, <1>4 DEF values

\* The values of the route.
LEMMA RouteIsSaid ==
    ASSUME Inputs
    PROVE  /\ RouteNames \in Seq(ValueTokens(GivenTokens))
           /\ \A b : b = Place(RouteParam) =>
                        AreOf(TokensOf(RouteParam), Place(RouteParam), b, RouteNames, RouteNames)
           /\ \A p, b : p # RouteParam => AreOf(TokensOf(p), Place(p), b, RouteNames, <<>>)
<1>1. RouteNames = [i \in DOMAIN route |-> V(RouteParam, route[i])]
  BY Zenon DEF RouteNames, RouteParam
<1>2. CASE route = <<>>
  <2>1. RouteNames = <<>>
    BY <1>1, <1>2
  <2>2. \A S, place, b : AreOf(S, place, b, <<>>, <<>>)
    BY DEF AreOf
  <2>3. <<>> \in Seq(ValueTokens(GivenTokens))
    OBVIOUS
  <2> QED
    BY Zenon, <2>1, <2>2, <2>3
<1>3. CASE route # <<>>
  <2>1. route \in Routes
    BY <1>3 DEF Inputs
  <2>2. route \in Seq(ToSet(route)) /\ ToSet(route) \subseteq Items
    BY <2>1, ListsAssumption DEF Items
  <2>3. ~Enumerated(RouteParam) /\ RouteParam \in DOMAIN given \cup {RouteParam} /\ IsPair(RouteParam)
    BY DEF Enumerated, RouteParam, IsPair
  <2>4. LET values == [i \in DOMAIN route |-> V(RouteParam, route[i])]
        IN  /\ values \in Seq(ValueTokens(GivenTokens))
            /\ \A i \in DOMAIN values : values[i] \in TokensOf(RouteParam)
            /\ \A q : q # RouteParam => \A i \in DOMAIN values : values[i] \notin TokensOf(q)
    BY <2>2, <2>3, TokensOfLists
  <2> DEFINE names == RouteNames
  <2>5. /\ names \in Seq(ValueTokens(GivenTokens))
        /\ \A i \in DOMAIN names : names[i] \in TokensOf(RouteParam)
        /\ \A q : q # RouteParam => \A i \in DOMAIN names : names[i] \notin TokensOf(q)
    BY Zenon, <1>1, <2>4
  <2> HIDE DEF names
  <2>6. \A b : b = Place(RouteParam) =>
                  AreOf(TokensOf(RouteParam), Place(RouteParam), b, names, names)
    BY Zenon, <2>5 DEF AreOf
  <2>7. \A p, b : p # RouteParam => AreOf(TokensOf(p), Place(p), b, names, <<>>)
    BY Zenon, <2>5 DEF AreOf
  <2> QED
    BY Zenon, <2>5, <2>6, <2>7 DEF names
<1> QED
  BY <1>2, <1>3

\* Which parameters a method has.
LEMMA ParamsOfBeans ==
    ASSUME Inputs, method \in Type2Methods, NEW p \in DOMAIN given
    PROVE  /\ IsPair(p) /\ p # RouteParam
           /\ p[1] = "QCNT" => p \in {<<"QCNT", "QCNTComp">>, <<"QCNT", "QCNTValue">>}
           /\ p[1] = "LIKE" => p \in {<<"LIKE", "DESC">>, <<"LIKE", "RSC">>}
           /\ p[2] \in {"EMHBSZ", "CPRI"} => p \in {<<"SET", "EMHBSZ">>, <<"SET", "CPRI">>}
<1>1. IsPair(p) /\ p # RouteParam
  BY GivenLists DEF BodyParams
<1>2. p \in Params(method)
  BY DEF Inputs
<1>3. PICK field \in ToSet(Beans[method].fields) : p \in ParamsOf(field)
  BY <1>2 DEF Params
<1>4. PICK n \in DOMAIN Beans[method].fields : field = Beans[method].fields[n]
  BY <1>3 DEF ToSet
<1>5. IsNamed(field) /\ \E ones : IsField(ones, field)
  BY Zenon, <1>4, BeansAreNamed, BeansAreBeans DEF AreNamed, IsBean
<1>6. CASE field.kind = "group"
  <2>1. PICK key \in ToSet(field.keys) : p = <<field.key, key>>
    BY <1>3, <1>6 DEF ParamsOf
  <2>2. field.key \in {"SET", "LIKE", "QCNT"}
    BY <1>5, <1>6 DEF IsField
  <2>3. /\ field.key = "QCNT" => key \in {"QCNTComp", "QCNTValue"}
        /\ field.key = "LIKE" => key \in {"DESC", "RSC"}
    BY <1>5, <1>6 DEF IsNamed
  <2> QED
    BY <1>1, <2>1, <2>2, <2>3
<1>7. CASE field.kind # "group"
  <2>1. p = <<"", field.key>>
    BY <1>3, <1>7 DEF ParamsOf
  <2>2. field.key \notin {"EMHBSZ", "CPRI"}
    BY <1>5, <1>7 DEF IsNamed
  <2>3. p[1] = "" /\ p[2] = field.key
    BY <2>1
  <2> QED
    BY <1>1, <2>2, <2>3
<1> QED
  BY <1>6, <1>7

\* What is not lost is looked at, and a setter gets it.
LEMMA SayableAreFilled ==
    ASSUME Inputs, method \in Type2Methods, NEW p \in Sayable
    PROVE  /\ p \in DOMAIN given => p \in Filled
           /\ p \notin DOMAIN given => Values(p) = <<>>
           /\ \A q \in DOMAIN given : Source(q) # q => p \notin {q, Source(q)}
<1>1. CASE p \in DOMAIN given \ Lost
  <2>1. /\ p[1] = "QCNT" => p \in {<<"QCNT", "QCNTComp">>, <<"QCNT", "QCNTValue">>}
        /\ p[1] = "LIKE" => p \in {<<"LIKE", "DESC">>, <<"LIKE", "RSC">>}
        /\ p[2] \in {"EMHBSZ", "CPRI"} => p \in {<<"SET", "EMHBSZ">>, <<"SET", "CPRI">>}
    BY <1>1, ParamsOfBeans
  <2>2. /\ p \notin {<<"SET", "EMHBSZ">>, <<"SET", "CPRI">>}
        /\ Given(<<"SET", "PLCT">>) => p \notin {<<"SET", "PLCT">>, <<"SET", "PLCTTIME">>}
        /\ method = "CreatePgm" => p \notin {<<"LIKE", "DESC">>, <<"LIKE", "RSC">>}
        /\ ~ (Given(<<"QCNT", "QCNTComp">>) /\ Given(<<"QCNT", "QCNTValue">>)) =>
               p \notin {<<"QCNT", "QCNTComp">>, <<"QCNT", "QCNTValue">>}
    BY <1>1 DEF Lost
  <2>3. LooksAt(p)
    BY Zenon, <2>1, <2>2 DEF LooksAt
  <2>4. ASSUME NEW q \in DOMAIN given, Source(q) # q
        PROVE  p \notin {q, Source(q)}
    <3>1. q = <<"SET", "PLCT">> /\ Source(q) = <<"SET", "PLCTTIME">>
      BY Zenon, <2>4 DEF Source
    <3> QED
      BY Zenon, <2>2, <3>1 DEF Given
  <2> QED
    BY <1>1, <2>3, <2>4 DEF Filled
<1>2. CASE p = RouteParam
  <2>1. p \notin DOMAIN given
    BY <1>2, ParamsOfBeans
  <2>2. Values(p) = <<>>
    BY <2>1 DEF Values, Given
  <2>3. ASSUME NEW q \in DOMAIN given, Source(q) # q
        PROVE  p \notin {q, Source(q)}
    <3>1. Source(q) = <<"SET", "PLCTTIME">>
      BY Zenon, <2>3 DEF Source
    <3>2. Source(q) # RouteParam
      BY <3>1 DEF RouteParam
    <3> QED
      BY Zenon, <1>2, <2>1, <3>2
  <2> QED
    BY <2>1, <2>2, <2>3
<1> QED
  BY <1>1, <1>2 DEF Sayable

\* The value of a field says its parameter and no other.
LEMMA BeanSays ==
    ASSUME Inputs, BeanIsFilled, method \in Type2Methods, NEW p \in Sayable, NEW q, NEW b,
           q = p => b = Place(p)
    PROVE  /\ BeanValue(q) \in Seq(ValueTokens(GivenTokens))
           /\ AreOf(TokensOf(p), Place(p), b, BeanValue(q), IF q = p THEN Values(p) ELSE <<>>)
<1> DEFINE w == IF q = p THEN Values(p) ELSE <<>>
           r == Source(q)
<1>0. <<>> \in Seq(ValueTokens(GivenTokens)) /\ \A S, place : AreOf(S, place, b, <<>>, <<>>)
  BY DEF AreOf
<1>1. CASE BeanValue(q) = <<>> /\ w = <<>>
  BY Zenon, <1>0, <1>1
<1>2. CASE q \notin Filled
  <2>1. BeanValue(q) = <<>>
    BY <1>2 DEF BeanIsFilled, BeanValue
  <2>2. w = <<>>
    BY <1>2, SayableAreFilled
  <2> QED
    BY <1>1, <2>1, <2>2
<1>3. CASE q \in Filled
  <2>0. BeanValue(q) = Values(r) /\ q \in DOMAIN given
    BY <1>3 DEF BeanIsFilled, BeanValue, Filled
  <2>1. r # q => q # p /\ r # p
    BY <2>0, SayableAreFilled
  <2>2. CASE r \notin DOMAIN given
    <3>1. Values(r) = <<>>
      BY <2>2 DEF Values, Given
    <3>2. q # p
      BY <2>0, <2>1, <2>2
    <3> QED
      BY Zenon, <1>1, <2>0, <3>1, <3>2
  <2>3. CASE r \in DOMAIN given
    <3>1. "bad" \in ToSet(given[r]) => ~Enumerated(r)
      <4>1. CASE r = q
        BY <1>3, <4>1 DEF BeanIsFilled, HasBadValue
      <4>2. CASE r # q
        <5>1. r = <<"SET", "PLCTTIME">>
          BY Zenon, <4>2 DEF Source
        <5>2. ~Enumerated(<<"SET", "PLCTTIME">>)
          BY DEF Enumerated
        <5> QED
          BY Zenon, <5>1, <5>2
      <4> QED
        BY <4>1, <4>2
    <3>2. /\ given[r] \in Seq(ToSet(given[r])) /\ ToSet(given[r]) \subseteq Items
          /\ IsPair(r)
      BY <2>3, GivenLists DEF BodyParams
    <3>3. Values(r) = [i \in DOMAIN given[r] |-> V(r, given[r][i])]
      BY Zenon, <2>3 DEF Values, Given
    <3> DEFINE values == Values(r)
               list == given[r]
    <3> HIDE DEF r
    <3>4. LET made == [i \in DOMAIN list |-> V(r, list[i])]
          IN  /\ made \in Seq(ValueTokens(GivenTokens))
              /\ \A i \in DOMAIN made : made[i] \in TokensOf(r)
              /\ \A x : x # r => \A i \in DOMAIN made : made[i] \notin TokensOf(x)
      <4>1. list \in Seq(ToSet(list)) /\ ToSet(list) \subseteq Items
            /\ ("bad" \in ToSet(list) => ~Enumerated(r))
            /\ r \in DOMAIN given \cup {RouteParam} /\ IsPair(r)
        BY <2>3, <3>1, <3>2
      <4> HIDE DEF list
      <4> QED
        BY <4>1, TokensOfLists
    <3>5. /\ values \in Seq(ValueTokens(GivenTokens))
          /\ \A i \in DOMAIN values : values[i] \in TokensOf(r)
          /\ \A x : x # r => \A i \in DOMAIN values : values[i] \notin TokensOf(x)
      BY Zenon, <3>3, <3>4
    <3>6. BeanValue(q) = values
      BY Zenon, <2>0 DEF r
    <3> HIDE DEF values
    <3>7. CASE q = p
      <4>1. r = p /\ w = values /\ b = Place(p)
        BY Zenon, <2>1, <3>7 DEF values, r
      <4>2. AreOf(TokensOf(p), Place(p), b, values, values)
        BY Zenon, <3>5, <4>1 DEF AreOf
      <4> QED
        BY Zenon, <3>5, <3>6, <4>1, <4>2
    <3>8. CASE q # p
      <4>1. r # p /\ w = <<>>
        BY Zenon, <2>1, <3>8 DEF r
      <4>2. AreOf(TokensOf(p), Place(p), b, values, <<>>)
        BY Zenon, <3>5, <4>1 DEF AreOf
      <4> QED
        BY Zenon, <3>5, <3>6, <4>1, <4>2
    <3> QED
      BY <3>7, <3>8
  <2> QED
    BY <2>2, <2>3
<1> QED
  BY <1>2, <1>3

\* A field that takes one value says none or one.
LEMMA OneSays ==
    ASSUME Inputs, BeanIsFilled, method \in Type2Methods, NEW q, ~TakesList(method, q)
    PROVE  BeanValue(q) \in Attribute(GivenTokens)
<1> DEFINE s == BeanValue(q)
<1>1. s \in Seq(ValueTokens(GivenTokens))
  <2>1. RouteParam \in Sayable
    BY Zenon DEF Sayable
  <2> QED
    BY Zenon, <2>1, BeanSays
<1>2. s \in Attribute(BodyTokens)
  BY OneValues
<1> HIDE DEF s
<1>3. CASE s = <<>>
  BY <1>3 DEF Attribute, s
<1>4. CASE s # <<>>
  <2>1. PICK t : s = <<t>>
    BY <1>2, <1>4 DEF Attribute
  <2>2. s[1] \in ValueTokens(GivenTokens)
    BY <1>1, <1>4, EndsOfBoth
  <2>3. s[1] = t
    BY <2>1
  <2>4. s \in {<<x>> : x \in ValueTokens(GivenTokens)}
    BY Zenon, <2>1, <2>2, <2>3
  <2> QED
    BY Zenon, <2>4 DEF Attribute, s
<1> QED
  BY <1>3, <1>4

InCommand == <<K("CMD")>>

LEMMA PlaceOfField ==
    ASSUME NEW key, key # "ROUTE"
    PROVE  Place(<<"", key>>) = InCommand \o <<K(key)>>
<1>1. <<"", key>> # <<"", "ROUTE">> /\ <<"", key>>[1] = "" /\ <<"", key>>[2] = key
  OBVIOUS
<1>2. Place(<<"", key>>) = <<K("CMD"), K(key)>>
  BY <1>1 DEF Place
<1> QED
  BY Zenon, TwoTokens, <1>2 DEF InCommand

LEMMA PlaceOfGroup ==
    ASSUME NEW key, key \in {"SET", "LIKE"}, NEW k
    PROVE  Place(<<key, k>>) = (InCommand \o <<K(key)>>) \o <<K(k)>>
<1> DEFINE p == <<key, k>>
<1>1. p # <<"", "ROUTE">> /\ p[1] # "" /\ p[1] # "QCNT" /\ p[1] = key /\ p[2] = k
  OBVIOUS
<1> HIDE DEF p
<1>2. Place(p) = <<K("CMD"), K(key), K(k)>>
  BY <1>1 DEF Place
<1>3. InCommand \o <<K(key)>> = <<K("CMD"), K(key)>>
  BY Zenon, TwoTokens DEF InCommand
<1>4. <<K("CMD"), K(key)>> \o <<K(k)>> = <<K("CMD"), K(key), K(k)>>
  BY Zenon, ThreeTokens
<1> QED
  BY Zenon, <1>2, <1>3, <1>4 DEF p

LEMMA PlaceOfCount ==
    ASSUME NEW k
    PROVE  Place(<<"QCNT", k>>) = InCommand \o <<K("QCNT")>>
<1> DEFINE p == <<"QCNT", k>>
<1>1. p # <<"", "ROUTE">> /\ p[1] # "" /\ p[1] = "QCNT"
  OBVIOUS
<1> HIDE DEF p
<1>2. Place(p) = <<K("CMD"), K("QCNT")>>
  BY <1>1 DEF Place
<1> QED
  BY Zenon, TwoTokens, <1>2 DEF InCommand, p

LEMMA PlaceOfRoute == Place(RouteParam) = <<K("ROUTE")>>
<1>1. RouteParam = <<"", "ROUTE">> /\ RouteParam[1] = ""
  BY DEF RouteParam
<1> QED
  BY <1>1 DEF Place

LEMMA InCommandIsWords ==
    ASSUME Inputs
    PROVE  InCommand \in Seq(GivenTokens) /\ K("ROUTE") \in GivenTokens
<1>1. "CMD" \in WordNames /\ "ROUTE" \in WordNames
  BY DEF WordNames
<1>2. K("CMD") \in GivenTokens /\ K("ROUTE") \in GivenTokens
  BY Zenon, <1>1, TokensOfRequests
<1> HIDE DEF GivenTokens
<1> QED
  BY <1>2 DEF InCommand

\* The texts that say s of a parameter and close what they open.
SaysOf(p, s) == Says(GivenTokens, TokensOf(p), Place(p), InCommand, InCommand, s)

LEMMA GroupSays ==
    ASSUME Inputs, BeanIsFilled, method \in Type2Methods, NEW p \in Sayable,
           NEW key \in {"SET", "LIKE", "QCNT"}, K(key) \in GivenTokens, NEW keys, IsSequence(keys),
           AreDistinct(keys), \A i \in DOMAIN keys : K(keys[i]) \in GivenTokens,
           NEW params, params = {<<key, k>> : k \in ToSet(keys)}
    PROVE  GroupText(key, keys, [k \in ToSet(keys) |-> BeanValue(<<key, k>>)])
             \in SaysOf(p, IF p \in params THEN Values(p) ELSE <<>>)
<1> DEFINE value == [k \in ToSet(keys) |-> BeanValue(<<key, k>>)]
           b == InCommand \o <<K(key)>>
           words == WordsOf(b, key, keys)
           S == TokensOf(p)
<1>0. PICK m \in Nat : DOMAIN keys = 1 .. m
  BY DEF IsSequence
<1>1. InCommand \in Seq(GivenTokens) /\ Speaks(GivenTokens, S)
  BY TokensOfRequests, InCommandIsWords
<1>2. \A i \in 1 .. m : keys[i] \in ToSet(keys)
  BY <1>0 DEF ToSet
<1>3. PICK j : /\ p \in params => j \in 1 .. m /\ p = <<key, keys[j]>>
               /\ p \notin params => j = 0
  <2>1. CASE p \in params
    <3>1. PICK k \in ToSet(keys) : p = <<key, k>>
      BY <2>1
    <3>2. PICK i \in 1 .. m : k = keys[i]
      BY <1>0 DEF ToSet
    <3> QED
      BY <2>1, <3>1, <3>2
  <2>2. CASE p \notin params
    BY <2>2
  <2> QED
    BY <2>1, <2>2
<1>4. \A i \in 1 .. m : <<key, keys[i]>> = p <=> i = j
  <2> SUFFICES ASSUME NEW i \in 1 .. m
               PROVE  <<key, keys[i]>> = p <=> i = j
    OBVIOUS
  <2>1. CASE p \in params
    <3>1. <<key, keys[i]>> = <<key, keys[j]>> => keys[i] = keys[j]
      OBVIOUS
    <3>2. keys[i] = keys[j] => i = j
      BY Zenon, <1>0, <1>3, <2>1 DEF AreDistinct
    <3> QED
      BY Zenon, <1>3, <2>1, <3>1, <3>2
  <2>2. CASE p \notin params
    <3>1. <<key, keys[i]>> \in params
      BY <1>2
    <3>2. i # 0
      BY <1>0
    <3> QED
      BY Zenon, <1>3, <2>2, <3>1, <3>2
  <2> QED
    BY <2>1, <2>2
<1>5. \A i \in 1 .. m : value[keys[i]] = BeanValue(<<key, keys[i]>>)
  BY <1>2
<1>6. \A i \in 1 .. m : words[i] = Place(<<key, keys[i]>>)
  <2> SUFFICES ASSUME NEW i \in 1 .. m
               PROVE  words[i] = Place(<<key, keys[i]>>)
    OBVIOUS
  <2>1. words[i] = IF key = "QCNT" THEN b ELSE b \o <<K(keys[i])>>
    BY Zenon, <1>0 DEF WordsOf
  <2>2. CASE key = "QCNT"
    <3>1. Place(<<"QCNT", keys[i]>>) = InCommand \o <<K("QCNT")>>
      BY PlaceOfCount
    <3> QED
      BY Zenon, <2>1, <2>2, <3>1
  <2>3. CASE key # "QCNT"
    <3>1. key \in {"SET", "LIKE"}
      BY <2>3
    <3> DEFINE k == keys[i]
    <3> HIDE DEF k
    <3>2. Place(<<key, k>>) = (InCommand \o <<K(key)>>) \o <<K(k)>>
      BY <3>1, PlaceOfGroup
    <3>3. Place(<<key, keys[i]>>) = b \o <<K(keys[i])>>
      BY Zenon, <3>2 DEF k
    <3> QED
      BY Zenon, <2>1, <2>3, <3>3
  <2> QED
    BY <2>2, <2>3
<1>7. \A q : q[1] # "" => ~TakesList(method, q)
  BY DEF TakesList
<1> HIDE DEF value, words
<1>8. AreAttributes(GivenTokens, keys, value)
  <2>1. ASSUME NEW i \in 1 .. m
        PROVE  value[keys[i]] \in Attribute(GivenTokens)
    <3> DEFINE q == <<key, keys[i]>>
    <3>1. q[1] # ""
      OBVIOUS
    <3> HIDE DEF q
    <3>2. BeanValue(q) \in Attribute(GivenTokens)
      BY Zenon, <1>7, <3>1, OneSays
    <3> QED
      BY Zenon, <1>5, <3>2 DEF q
  <2> QED
    BY <1>0, <2>1 DEF AreAttributes
<1>9. OneIsOf(S, Place(p), words, keys, value, j, Values(p))
  <2>1. ASSUME NEW i \in 1 .. m
        PROVE  AreOf(S, Place(p), words[i], value[keys[i]], IF i = j THEN Values(p) ELSE <<>>)
    <3> DEFINE q == <<key, keys[i]>>
               w == words[i]
    <3>1. (q = p <=> i = j) /\ w = Place(q) /\ value[keys[i]] = BeanValue(q)
      BY <1>4, <1>5, <1>6
    <3> HIDE DEF q, w
    <3>2. AreOf(S, Place(p), w, BeanValue(q), IF q = p THEN Values(p) ELSE <<>>)
      <4>1. q = p => w = Place(p)
        BY Zenon, <3>1
      <4> QED
        BY <4>1, BeanSays
    <3> QED
      BY Zenon, <3>1, <3>2 DEF w
  <2> QED
    BY Zenon, <1>0, <2>1 DEF OneIsOf
<1> DEFINE w == IF j \in 1 .. m THEN Values(p) ELSE <<>>
<1>10. w = IF p \in params THEN Values(p) ELSE <<>>
  <2>1. 0 \notin 1 .. m
    BY <1>0
  <2> QED
    BY Zenon, <1>3, <2>1
<1>11. GroupText(key, keys, value) \in Says(GivenTokens, S, Place(p), InCommand, InCommand, w)
  <2> HIDE DEF S
  <2>1. OneIsOf(S, Place(p), WordsOf(b, key, keys), keys, value, j, Values(p))
    BY Zenon, <1>9 DEF words
  <2> QED
    BY <1>0, <1>1, <1>8, <2>1, SaysGroupText
<1> QED
  BY Zenon, <1>10, <1>11 DEF SaysOf, value

\* What a field says is what was given for its parameters.
LEMMA FieldSays ==
    ASSUME Inputs, BeanIsFilled, method \in Type2Methods, NEW n \in DOMAIN Beans[method].fields,
           NEW p \in Sayable
    PROVE  FieldText(Beans[method].fields[n])
             \in SaysOf(p, IF p \in ParamsOf(Beans[method].fields[n]) THEN Values(p) ELSE <<>>)
<1> DEFINE fields == Beans[method].fields
           field == fields[n]
           s == FieldText(field)
           q == <<"", field.key>>
           value == BeanValue(q)
           b == InCommand \o <<K(field.key)>>
           w == IF p \in ParamsOf(field) THEN Values(p) ELSE <<>>
           S == TokensOf(p)
<1>0. /\ K(field.key) \in GivenTokens
      /\ \A j \in DOMAIN field.keys : K(field.keys[j]) \in GivenTokens
      /\ Speaks(GivenTokens, S)
  BY TokensOfRequests, WordsOfBeans
<1>1. InCommand \in Seq(GivenTokens)
  BY InCommandIsWords
<1>2. PICK ones : \A i \in DOMAIN fields : IsField(ones, fields[i])
  BY BeansAreBeans DEF IsBean
<1>3. IsField(ones, field) /\ IsNamed(field)
  BY <1>2, BeansAreNamed DEF AreNamed
<1>4. ASSUME field.kind # "group"
      PROVE  /\ value \in Seq(ValueTokens(GivenTokens))
             /\ AreOf(S, Place(p), b, value, w)
  <2>1. field.key # "ROUTE"
    BY <1>3, <1>4 DEF IsField
  <2>2. Place(q) = b
    BY <2>1, PlaceOfField
  <2>3. ParamsOf(field) = {q}
    BY <1>4 DEF ParamsOf
  <2>4. p \in ParamsOf(field) <=> q = p
    BY <2>3
  <2> HIDE DEF q, b, field, S
  <2>5. /\ BeanValue(q) \in Seq(ValueTokens(GivenTokens))
        /\ AreOf(TokensOf(p), Place(p), b, BeanValue(q), IF q = p THEN Values(p) ELSE <<>>)
    <3>1. q = p => b = Place(p)
      BY Zenon, <2>2
    <3> QED
      BY <3>1, BeanSays
  <2> QED
    BY Zenon, <2>4, <2>5 DEF S
<1>5. CASE field.kind = "list"
  <2>1. s = ListText(field.key, value)
    BY <1>5 DEF FieldText, BeanValue
  <2>2. value \in Seq(ValueTokens(GivenTokens)) /\ AreOf(S, Place(p), b, value, w)
    BY <1>4, <1>5
  <2> DEFINE key == field.key
  <2> HIDE DEF s, value, w, S, key
  <2>3. AreOf(S, Place(p), InCommand \o <<K(key)>>, value, w) /\ K(key) \in GivenTokens
    BY Zenon, <1>0, <2>2 DEF key
  <2>4. ListText(key, value) \in Says(GivenTokens, S, Place(p), InCommand, InCommand, w)
    BY <1>0, <1>1, <2>2, <2>3, SaysListText
  <2> QED
    BY Zenon, <2>1, <2>4 DEF SaysOf, s, w, S, key
<1>6. CASE field.kind = "one"
  <2>1. s = OneText(field.key, value)
    BY <1>6 DEF FieldText, BeanValue
  <2>2. AreOf(S, Place(p), b, value, w)
    BY <1>4, <1>6
  <2>3. ~TakesList(method, q)
    <3>1. field.key \in ones
      BY <1>3, <1>6 DEF IsField
    <3>2. \A i \in DOMAIN fields : fields[i] # ListField(field.key)
      <4> SUFFICES ASSUME NEW i \in DOMAIN fields, fields[i] = ListField(field.key)
                   PROVE  FALSE
        OBVIOUS
      <4>1. fields[i].kind = "list" /\ fields[i].key = field.key
        BY DEF ListField, FieldOf
      <4>2. field.key \notin ones
        BY <1>2, <4>1 DEF IsField
      <4> QED
        BY <3>1, <4>2
    <3> QED
      BY <3>2 DEF TakesList, ToSet
  <2>4. value \in Attribute(GivenTokens)
    <3> HIDE DEF q
    <3> QED
      BY <2>3, OneSays
  <2> DEFINE key == field.key
  <2> HIDE DEF s, value, w, S, key
  <2>5. AreOf(S, Place(p), InCommand \o <<K(key)>>, value, w) /\ K(key) \in GivenTokens
    BY Zenon, <1>0, <2>2 DEF key
  <2>6. OneText(key, value) \in Says(GivenTokens, S, Place(p), InCommand, InCommand, w)
    BY <1>0, <1>1, <2>4, <2>5, SaysOneText
  <2> QED
    BY Zenon, <2>1, <2>6 DEF SaysOf, s, w, S, key
<1>7. CASE field.kind = "group"
  <2>1. /\ field.key \in {"SET", "LIKE", "QCNT"} /\ IsSequence(field.keys)
        /\ AreDistinct(field.keys)
    BY <1>3, <1>7 DEF IsField, IsNamed
  <2>2. ParamsOf(field) = {<<field.key, k>> : k \in ToSet(field.keys)}
    BY <1>7 DEF ParamsOf
  <2> DEFINE values == [k \in ToSet(field.keys) |-> BeanValue(<<field.key, k>>)]
  <2>3. s = IF ParamsOf(field) \cap DOMAIN bean = {} THEN <<>>
            ELSE GroupText(field.key, field.keys, values)
    BY <1>7 DEF FieldText, BeanValue
  <2>4. CASE ParamsOf(field) \cap DOMAIN bean = {}
    <3>1. w = <<>>
      <4>1. DOMAIN bean = Filled
        BY DEF BeanIsFilled
      <4> QED
        BY <2>4, <4>1, SayableAreFilled
    <3>2. <<>> \in Says(GivenTokens, S, Place(p), InCommand, InCommand, <<>>)
      BY <1>1, SaysNothing
    <3> HIDE DEF s, w
    <3> QED
      BY Zenon, <2>3, <2>4, <3>1, <3>2 DEF SaysOf, s, w
  <2>5. CASE ParamsOf(field) \cap DOMAIN bean # {}
    <3> DEFINE key == field.key
               keys == field.keys
               params == ParamsOf(field)
    <3> HIDE DEF field, s, key, keys, params
    <3>1. GroupText(key, keys, [k \in ToSet(keys) |-> BeanValue(<<key, k>>)])
             \in SaysOf(p, IF p \in params THEN Values(p) ELSE <<>>)
      <4>1. /\ key \in {"SET", "LIKE", "QCNT"} /\ IsSequence(keys) /\ AreDistinct(keys)
            /\ K(key) \in GivenTokens /\ (\A i \in DOMAIN keys : K(keys[i]) \in GivenTokens)
            /\ params = {<<key, k>> : k \in ToSet(keys)}
        BY Zenon, <1>0, <2>1, <2>2 DEF key, keys, params
      <4> QED
        BY <4>1, GroupSays
    <3>2. s \in SaysOf(p, w)
      BY Zenon, <2>3, <2>5, <3>1 DEF key, keys, params
    <3> QED
      BY Zenon, <3>2 DEF s, field
  <2> QED
    BY <2>4, <2>5
<1> QED
  BY <1>3, <1>5, <1>6, <1>7 DEF IsField

-----------------------------------------------------------------------------
(* What each step adds to what is said *)

\* What the fields before the n-th say of a parameter.
Due(p, n) ==
    IF \E i \in 1 .. n - 1 : p \in ParamsOf(Beans[method].fields[i]) THEN Values(p) ELSE <<>>

\* What a whole command says of it.
DueAtEnd(p) == IF p = RouteParam THEN RouteNames ELSE Values(p)

\* The texts that say what is due: of a command that is written up to the n-th field, and
\* of a whole one.
SaysFields(n, s) ==
    \A p \in Sayable : s \in Says(GivenTokens, TokensOf(p), Place(p), <<>>, InCommand, Due(p, n))
SaysAll(s) ==
    \A p \in Sayable : s \in Says(GivenTokens, TokensOf(p), Place(p), <<>>, <<>>, DueAtEnd(p))

Sayings ==
    /\ phase = "Writing" => \A n : n = next => SaysFields(n, text)
    /\ phase = "Written" /\ method \in Type2Methods => SaysAll(text)

\* What is due depends on the request alone.
LEMMA SameSayings ==
    ASSUME method' = method, given' = given, route' = route
    PROVE  /\ \A n, s : SaysFields(n, s) => SaysFields(n, s)'
           /\ \A s : SaysAll(s) => SaysAll(s)'
<1>1. Sayable' = Sayable
  BY DEF Sayable, Lost, Given
<1>2. GivenTokens' = GivenTokens
  BY DEF GivenTokens
<1>3. \A p : TokensOf(p)' = TokensOf(p)
  BY Zenon, <1>2 DEF TokensOf
<1>4. \A p : Values(p)' = Values(p)
  BY DEF Values, Given
<1>5. RouteNames' = RouteNames
  BY DEF RouteNames
<1>6. \A p, n : Due(p, n)' = Due(p, n)
  BY Zenon, <1>4 DEF Due
<1>7. \A p : DueAtEnd(p)' = DueAtEnd(p)
  BY Zenon, <1>4, <1>5 DEF DueAtEnd
<1>8. ASSUME NEW n, NEW s, SaysFields(n, s)
      PROVE  SaysFields(n, s)'
  BY Zenon, <1>1, <1>2, <1>3, <1>6, <1>8 DEF SaysFields
<1>9. ASSUME NEW s, SaysAll(s)
      PROVE  SaysAll(s)'
  BY Zenon, <1>1, <1>2, <1>3, <1>7, <1>9 DEF SaysAll
<1> QED
  BY <1>8, <1>9

\* No two fields have a parameter in common.
LEMMA FieldOfParam ==
    ASSUME NEW m \in Type2Methods, NEW i \in DOMAIN Beans[m].fields,
           NEW j \in DOMAIN Beans[m].fields,
           NEW p, p \in ParamsOf(Beans[m].fields[i]), p \in ParamsOf(Beans[m].fields[j])
    PROVE  i = j
<1> DEFINE fields == Beans[m].fields
           key == IF p[1] = "" THEN p[2] ELSE p[1]
<1>1. PICK ones : \A k \in DOMAIN fields : IsField(ones, fields[k])
  BY BeansAreBeans DEF IsBean
<1>2. ASSUME NEW k \in DOMAIN fields, p \in ParamsOf(fields[k])
      PROVE  fields[k].key = key
  <2> DEFINE field == fields[k]
  <2>1. IsField(ones, field)
    BY <1>1
  <2> HIDE DEF field
  <2>2. CASE field.kind = "group"
    <3>1. PICK r : p = <<field.key, r>>
      BY <1>2, <2>2 DEF ParamsOf, field
    <3>2. field.key # ""
      BY <2>1, <2>2 DEF IsField
    <3> QED
      BY <3>1, <3>2 DEF field
  <2>3. CASE field.kind # "group"
    <3>1. p = <<"", field.key>>
      BY <1>2, <2>3 DEF ParamsOf, field
    <3> QED
      BY <3>1 DEF field
  <2> QED
    BY <2>2, <2>3
<1>3. fields[i].key = fields[j].key
  BY <1>2
<1> QED
  BY Zenon, <1>3, BeansAreNamed DEF AreNamed

LEMMA DueSteps ==
    ASSUME Inputs, method \in Type2Methods, NEW p
    PROVE  /\ Due(p, 1) = <<>>
           /\ \A n \in DOMAIN Beans[method].fields :
                 LET w == IF p \in ParamsOf(Beans[method].fields[n]) THEN Values(p) ELSE <<>>
                 IN  w \in Seq(GivenTokens) /\ Due(p, n) \in Seq(GivenTokens) =>
                       Due(p, n + 1) = Due(p, n) \o w
           /\ p \in DOMAIN given => Due(p, Len(Beans[method].fields) + 1) = Values(p)
           /\ \A n : Values(p) = <<>> => Due(p, n) = <<>>
<1> DEFINE fields == Beans[method].fields
<1>0. DOMAIN fields = 1 .. Len(fields) /\ Len(fields) \in Nat
  BY CountsOfFields
<1>1. Due(p, 1) = <<>>
  <2>1. 1 .. 1 - 1 = {}
    OBVIOUS
  <2> QED
    BY <2>1 DEF Due
<1>2. ASSUME NEW n \in DOMAIN fields
      PROVE  LET w == IF p \in ParamsOf(fields[n]) THEN Values(p) ELSE <<>>
             IN  w \in Seq(GivenTokens) /\ Due(p, n) \in Seq(GivenTokens) =>
                   Due(p, n + 1) = Due(p, n) \o w
  <2> DEFINE v == Values(p)
             P(i) == p \in ParamsOf(fields[i])
             w == IF P(n) THEN v ELSE <<>>
             T == GivenTokens
  <2> SUFFICES ASSUME w \in Seq(T), Due(p, n) \in Seq(T)
               PROVE  Due(p, n + 1) = Due(p, n) \o w
    OBVIOUS
  <2>1. n \in Nat /\ (n + 1) - 1 = n /\ \A i \in 1 .. n - 1 : i \in DOMAIN fields /\ i # n
    BY <1>0
  <2>2. \A i \in 1 .. n : i = n \/ i \in 1 .. n - 1
    BY <2>1
  <2>3. \A i \in 1 .. n - 1 : P(n) => ~P(i)
    BY <2>1, FieldOfParam
  <2>4. /\ Due(p, n) = IF \E i \in 1 .. n - 1 : P(i) THEN v ELSE <<>>
        /\ Due(p, n + 1) = IF \E i \in 1 .. n : P(i) THEN v ELSE <<>>
    BY Zenon, <2>1 DEF Due
  <2>5. (\E i \in 1 .. n : P(i)) <=> P(n) \/ \E i \in 1 .. n - 1 : P(i)
    <3>1. n \in 1 .. n /\ 1 .. n - 1 \subseteq 1 .. n
      BY <1>0
    <3> HIDE DEF P
    <3> QED
      BY Zenon, <2>2, <3>1
  <2> HIDE DEF P, v, T
  <2>6. /\ w \in Seq(T) /\ Due(p, n) \in Seq(T)
        /\ \A s \in Seq(T) : <<>> \o s = s /\ s \o <<>> = s
    OBVIOUS
  <2>7. CASE P(n)
    <3>1. Due(p, n) = <<>> /\ Due(p, n + 1) = v /\ w = v
      BY Zenon, <2>3, <2>4, <2>5, <2>7
    <3> QED
      BY Zenon, <2>6, <3>1
  <2>8. CASE ~P(n)
    <3>1. Due(p, n) = Due(p, n + 1) /\ w = <<>>
      BY Zenon, <2>4, <2>5, <2>8
    <3> QED
      BY Zenon, <2>6, <3>1
  <2> QED
    BY <2>7, <2>8
<1>3. ASSUME p \in DOMAIN given
      PROVE  Due(p, Len(fields) + 1) = Values(p)
  <2>1. p \in Params(method)
    BY <1>3 DEF Inputs
  <2>2. PICK field \in ToSet(fields) : p \in ParamsOf(field)
    BY <2>1 DEF Params
  <2>3. PICK i \in DOMAIN fields : field = fields[i]
    BY <2>2 DEF ToSet
  <2>4. i \in 1 .. (Len(fields) + 1) - 1
    BY <1>0
  <2> QED
    BY Zenon, <2>2, <2>3, <2>4 DEF Due
<1>4. \A n : Values(p) = <<>> => Due(p, n) = <<>>
  BY Zenon DEF Due
<1> QED
  BY <1>1, <1>2, <1>3, <1>4

\* The verb and the resource.
LEMMA BeginningSays ==
    ASSUME NEW T, NEW S, Speaks(T, S), NEW place, NEW a \in Seq(T), NEW b, b = a \o <<K("CMD")>>,
           NEW m \in Type2Methods, K("CMD") \in T, K(Beans[m].verb) \in T, K(Beans[m].resource) \in T
    PROVE  <<K("CMD"), Open, K(Beans[m].verb), Space, K(Beans[m].resource), Space>>
             \in Says(T, S, place, a, b, <<>>)
<1> DEFINE v == K(Beans[m].verb)
           r == K(Beans[m].resource)
           s == <<v, Space, r, Space>>
           s1 == <<>> \o <<v>>
           s2 == <<v, Space>>
           s3 == s2 \o <<r>>
           says == Says(T, S, place, b, b, <<>>)
<1>1. s = s3 \o <<Space>> /\ <<K("CMD"), Open, v, Space, r, Space>> = <<K("CMD"), Open>> \o s
  OBVIOUS
<1>2. s1 \in says
  <2>1. b \in Seq(T)
    OBVIOUS
  <2>2. <<>> \in says
    BY <2>1, SaysNothing
  <2> QED
    BY <2>2, SaysMore
<1>3. s2 \in says
  <2>1. s1 = <<v>> /\ <<v>> \o <<Space>> = s2
    BY TwoTokens
  <2> HIDE DEF s1
  <2>2. s1 \o <<Space>> \in says
    BY <1>2, SaysMore
  <2> QED
    BY Zenon, <2>1, <2>2
<1>4. s3 \in says
  <2> HIDE DEF s2
  <2> QED
    BY <1>3, SaysMore
<1>5. s \in says
  <2> HIDE DEF s3
  <2>1. s3 \o <<Space>> \in says
    BY <1>4, SaysMore
  <2> QED
    BY Zenon, <1>1, <2>1
<1>6. <<K("CMD"), Open>> \o s \in Says(T, S, place, a, b, <<>>)
  <2> HIDE DEF s
  <2> DEFINE key == "CMD"
  <2>1. K(key) \in T /\ b = a \o <<K(key)>>
    OBVIOUS
  <2> HIDE DEF key
  <2>2. <<K(key), Open>> \o s \in Says(T, S, place, a, b, <<>>)
    BY <1>5, <2>1, SaysOpening
  <2> QED
    BY Zenon, <2>2 DEF key
<1> QED
  BY Zenon, <1>1, <1>6

\* Every step says what is due.
LEMMA FieldsBegin ==
    ASSUME Inputs, method \in Type2Methods
    PROVE  SaysFields(1, <<K("CMD"), Open, K(Beans[method].verb), Space, K(Beans[method].resource),
                           Space>>)
<1> DEFINE verb == Beans[method].verb
           resource == Beans[method].resource
<1>1. K("CMD") \in GivenTokens /\ K(verb) \in GivenTokens /\ K(resource) \in GivenTokens
  <2>1. "CMD" \in WordNames
    BY DEF WordNames
  <2> QED
    BY Zenon, <2>1, WordsOfBeans, TokensOfRequests
<1>2. ASSUME NEW p \in Sayable
      PROVE  <<K("CMD"), Open, K(verb), Space, K(resource), Space>>
               \in Says(GivenTokens, TokensOf(p), Place(p), <<>>, InCommand, Due(p, 1))
  <2>1. /\ Speaks(GivenTokens, TokensOf(p))
        /\ <<>> \in Seq(GivenTokens) /\ InCommand = <<>> \o <<K("CMD")>>
    BY TokensOfRequests DEF InCommand
  <2>2. Due(p, 1) = <<>>
    BY DueSteps
  <2>3. <<K("CMD"), Open, K(verb), Space, K(resource), Space>>
          \in Says(GivenTokens, TokensOf(p), Place(p), <<>>, InCommand, <<>>)
    BY <1>1, <2>1, BeginningSays
  <2> QED
    BY Zenon, <2>2, <2>3
<1> QED
  BY Zenon, <1>2 DEF SaysFields

LEMMA FieldsGrow ==
    ASSUME Inputs, BeanIsFilled, method \in Type2Methods, NEW n \in DOMAIN Beans[method].fields,
           NEW s, SaysFields(n, s)
    PROVE  SaysFields(n + 1, s \o FieldText(Beans[method].fields[n]))
<1> DEFINE field == Beans[method].fields[n]
<1>1. ASSUME NEW p \in Sayable
      PROVE  s \o FieldText(field)
               \in Says(GivenTokens, TokensOf(p), Place(p), <<>>, InCommand, Due(p, n + 1))
  <2> DEFINE w == IF p \in ParamsOf(field) THEN Values(p) ELSE <<>>
             t == FieldText(field)
             T == GivenTokens
             S == TokensOf(p)
  <2>1. s \in Says(T, S, Place(p), <<>>, InCommand, Due(p, n))
    BY Zenon DEF SaysFields
  <2>2. t \in Says(T, S, Place(p), InCommand, InCommand, w)
    BY Zenon, FieldSays DEF SaysOf
  <2>3. Due(p, n + 1) = Due(p, n) \o w
    <3> HIDE DEF T, S, t
    <3>1. w \in Seq(T) /\ Due(p, n) \in Seq(T)
      BY <2>1, <2>2, SaysType
    <3> QED
      BY Zenon, <3>1, DueSteps DEF T
  <2> HIDE DEF t, w, T, S
  <2>4. s \o t \in Says(T, S, Place(p), <<>>, InCommand, Due(p, n) \o w)
    BY <2>1, <2>2, SaysJoin
  <2> QED
    BY Zenon, <2>3, <2>4 DEF t, T, S
<1> QED
  BY Zenon, <1>1 DEF SaysFields

LEMMA CommandsEnd ==
    ASSUME Inputs, BeanIsFilled, method \in Type2Methods,
           NEW s, SaysFields(Len(Beans[method].fields) + 1, s)
    PROVE  SaysAll(Append(Format(s), Close) \o RouteText(RouteNames))
<1> DEFINE n == Len(Beans[method].fields) + 1
           T == GivenTokens
           none == <<>>
<1>1. none \in Seq(T) /\ InCommand = none \o <<K("CMD")>> /\ InCommand \in Seq(T)
      /\ K("CMD") \in T /\ K("ROUTE") \in T
  <2>1. InCommand \in Seq(T) /\ K("ROUTE") \in T
    BY InCommandIsWords
  <2>2. K("CMD") \in T
    <3>1. "CMD" \in WordNames
      BY DEF WordNames
    <3> QED
      BY Zenon, <3>1, TokensOfRequests
  <2> HIDE DEF T
  <2> QED
    BY <2>1, <2>2 DEF InCommand
<1>2. ASSUME NEW p \in Sayable
      PROVE  Append(Format(s), Close) \o RouteText(RouteNames)
               \in Says(T, TokensOf(p), Place(p), none, none, DueAtEnd(p))
  <2> DEFINE S == TokensOf(p)
             place == Place(p)
             v == Due(p, n)
             w == IF p = RouteParam THEN RouteNames ELSE <<>>
             t == RouteText(RouteNames)
             r == Append(Format(s), Close)
  <2>1. Speaks(T, S)
    BY TokensOfRequests
  <2>2. s \in Says(T, S, place, none, InCommand, v)
    BY Zenon DEF SaysFields
  <2>3. r \in Says(T, S, place, none, none, v)
    <3> HIDE DEF T, S, none, v, place
    <3>1. Format(s) \in Says(T, S, place, none, InCommand, v)
      BY <2>1, <2>2, SaysFormat
    <3> QED
      BY <1>1, <2>1, <3>1, SaysClosing
  <2>4. RouteNames \in Seq(ValueTokens(T)) /\ AreOf(S, place, none \o <<K("ROUTE")>>, RouteNames, w)
    <3>1. RouteNames \in Seq(ValueTokens(T))
      BY RouteIsSaid
    <3>2. CASE p = RouteParam
      <4>1. none \o <<K("ROUTE")>> = Place(RouteParam)
        BY PlaceOfRoute
      <4> HIDE DEF none
      <4>2. AreOf(TokensOf(RouteParam), Place(RouteParam), none \o <<K("ROUTE")>>, RouteNames, RouteNames)
        BY Zenon, <4>1, RouteIsSaid
      <4> QED
        BY Zenon, <3>1, <3>2, <4>2
    <3>3. CASE p # RouteParam
      <4> HIDE DEF none
      <4>1. AreOf(TokensOf(p), Place(p), none \o <<K("ROUTE")>>, RouteNames, <<>>)
        BY Zenon, <3>3, RouteIsSaid
      <4> QED
        BY Zenon, <3>1, <3>3, <4>1
    <3> QED
      BY <3>2, <3>3
  <2>5. t \in Says(T, S, place, none, none, w)
    <3> HIDE DEF T, S, place, none, w
    <3> DEFINE key == "ROUTE"
    <3>1. key = "ROUTE" /\ K(key) \in T /\ AreOf(S, place, none \o <<K(key)>>, RouteNames, w)
      BY <1>1, <2>4
    <3> HIDE DEF key
    <3> QED
      BY <1>1, <2>1, <2>4, <3>1, SaysListText
  <2>6. v \o w = DueAtEnd(p)
    <3>1. v \in Seq(T) /\ w \in Seq(T)
      <4> HIDE DEF T, S, place, none, v, w, t
      <4> QED
        BY <2>2, <2>5, SaysType
    <3>2. CASE p = RouteParam
      <4>1. p \notin DOMAIN given
        BY <3>2, ParamsOfBeans
      <4>2. Values(p) = <<>>
        BY <4>1 DEF Values, Given
      <4>3. v = <<>>
        BY <4>2, DueSteps
      <4>4. w = RouteNames /\ DueAtEnd(p) = RouteNames
        BY <3>2 DEF DueAtEnd
      <4> HIDE DEF v, w, T
      <4> QED
        BY <3>1, <4>3, <4>4
    <3>3. CASE p # RouteParam
      <4>1. p \in DOMAIN given
        BY <3>3 DEF Sayable
      <4>2. v = Values(p)
        BY <4>1, DueSteps
      <4>3. w = <<>> /\ DueAtEnd(p) = Values(p)
        BY <3>3 DEF DueAtEnd
      <4> HIDE DEF v, w, T
      <4> QED
        BY <3>1, <4>2, <4>3
    <3> QED
      BY <3>2, <3>3
  <2> HIDE DEF T, S, place, none, v, w, r, t
  <2>7. r \o t \in Says(T, S, place, none, none, v \o w)
    BY <2>3, <2>5, SaysJoin
  <2>8. r \o t \in Says(T, S, place, none, none, DueAtEnd(p))
    BY Zenon, <2>6, <2>7
  <2> QED
    BY Zenon, <2>8 DEF S, place, r, t
<1> QED
  BY Zenon, <1>2 DEF SaysAll

LEMMA SaidOfText ==
    ASSUME Inputs, NEW p, NEW v,
           text \in Says(GivenTokens, TokensOf(p), Place(p), <<>>, <<>>, v)
    PROVE  IsSaid(p, v) /\ text \in Seq(GivenTokens)
<1> DEFINE T == GivenTokens
           S == TokensOf(p)
<1>1. PICK f : Nests(T, S, Place(p), <<>>, <<>>, text, f)
  BY Zenon DEF Says
<1>2. text \in Seq(T) /\ Chosen(S, text) = v
  BY Zenon DEF Says
<1>3. DOMAIN text = 1 .. Len(text) /\ \A i \in 1 .. Len(text) : text[i] \in T
  <2> HIDE DEF T
  <2> QED
    BY <1>2
<1>4. \A i \in DOMAIN text : IsValueOf(text[i], p) <=> text[i] \in S
  BY Zenon, <1>3 DEF TokensOf
<1>5. ValuesOf(p) = v
  <2> DEFINE chosen == [i \in DOMAIN text |-> IF text[i] \in S THEN <<text[i]>> ELSE <<>>]
             values == [i \in DOMAIN text |-> IF IsValueOf(text[i], p) THEN <<text[i]>> ELSE <<>>]
  <2>1. chosen = values
    <3> HIDE DEF S
    <3> QED
      BY <1>4
  <2> QED
    BY Zenon, <1>2, <2>1 DEF ValuesOf, Chosen
<1>6. ASSUME NEW i \in DOMAIN text, IsValueOf(text[i], p)
      PROVE  Enclosing(i) = Place(p)
  <2> HIDE DEF T, S
  <2>1. IsNesting(T, text, f) /\ f[0] = <<>> /\ \A j \in 1 .. Len(text) : text[j] \in S => f[j] = Place(p)
    BY Zenon, <1>1 DEF Nests
  <2>2. EnclosingIn(text, i) = f[i]
    BY <1>2, <1>3, <2>1, EnclosingWords
  <2>3. Enclosing(i) = EnclosingIn(text, i)
    BY Zenon DEF Enclosing, EnclosingIn, OpenAt
  <2> QED
    BY Zenon, <1>3, <1>4, <1>6, <2>1, <2>2, <2>3
<1> QED
  BY Zenon, <1>2, <1>5, <1>6 DEF IsSaid

LEMMA InitSayings == Init => Sayings
BY DEF Init, Sayings

LEMMA NextSayings == IInv /\ Sayings /\ [Next]_vars => Sayings'
<1> SUFFICES ASSUME IInv, Sayings, [Next]_vars
             PROVE  Sayings'
  OBVIOUS
<1>0. Inputs
  BY DEF IInv
<1>1. CASE FillBean
  <2>1. /\ phase = "Filling" /\ method \in Type2Methods /\ phase' = "Writing"
        /\ text' = <<K("CMD"), Open, K(Beans[method].verb), Space, K(Beans[method].resource), Space>>
        /\ method' = method /\ given' = given /\ route' = route /\ next' = next
    BY <1>1 DEF FillBean
  <2>2. next' = 1
    BY <2>1 DEF IInv, Fillings
  <2>3. SaysFields(1, text')
    BY Zenon, <1>0, <2>1, FieldsBegin
  <2>4. PICK s : s = text'
    OBVIOUS
  <2>5. SaysFields(1, s)'
    BY Zenon, <2>1, <2>3, <2>4, SameSayings
  <2> QED
    BY Zenon, <2>1, <2>2, <2>4, <2>5 DEF Sayings
<1>2. CASE Refuse
  BY <1>2 DEF Refuse, Sayings
<1>3. CASE WriteField
  <2>1. /\ phase = "Writing" /\ next <= Len(Beans[method].fields)
        /\ text' = text \o FieldText(Beans[method].fields[next])
        /\ next' = next + 1
        /\ method' = method /\ given' = given /\ route' = route /\ phase' = phase
    BY <1>3 DEF WriteField
  <2>2. method \in Type2Methods /\ BeanIsFilled /\ next \in 1 .. Len(Beans[method].fields) + 1
    BY <2>1 DEF IInv, Writings
  <2>3. next \in DOMAIN Beans[method].fields
    BY <2>1, <2>2, CountsOfFields
  <2>4. SaysFields(next, text)
    BY Zenon, <2>1 DEF Sayings
  <2>5. SaysFields(next + 1, text \o FieldText(Beans[method].fields[next]))
    BY Zenon, <1>0, <2>2, <2>3, <2>4, FieldsGrow
  <2>6. PICK s, n : s = text' /\ n = next'
    OBVIOUS
  <2>7. SaysFields(n, s)
    BY Zenon, <2>1, <2>5, <2>6
  <2>8. SaysFields(n, s)'
    BY Zenon, <2>1, <2>7, SameSayings
  <2>9. phase' # "Written"
    BY <2>1
  <2> QED
    BY Zenon, <2>6, <2>8, <2>9 DEF Sayings
<1>4. CASE CloseCommand
  <2>1. /\ phase = "Writing" /\ next > Len(Beans[method].fields) /\ phase' = "Written"
        /\ text' = Append(Format(text), Close) \o RouteText(RouteNames)
        /\ method' = method /\ given' = given /\ route' = route
    BY <1>4 DEF CloseCommand
  <2>2. method \in Type2Methods /\ BeanIsFilled /\ next \in 1 .. Len(Beans[method].fields) + 1
    BY <2>1 DEF IInv, Writings
  <2>3. next = Len(Beans[method].fields) + 1
    BY <2>1, <2>2, CountsOfFields
  <2>4. SaysFields(Len(Beans[method].fields) + 1, text)
    BY Zenon, <2>1, <2>3 DEF Sayings
  <2>5. SaysAll(Append(Format(text), Close) \o RouteText(RouteNames))
    BY Zenon, <1>0, <2>2, <2>4, CommandsEnd
  <2>6. PICK s : s = text'
    OBVIOUS
  <2>7. SaysAll(s)'
    BY Zenon, <2>1, <2>5, <2>6, SameSayings
  <2>8. phase' # "Writing"
    BY <2>1
  <2> QED
    BY Zenon, <2>6, <2>7, <2>8 DEF Sayings
<1>5. CASE WriteDirect
  BY <1>5 DEF WriteDirect, Sayings
<1>6. CASE UNCHANGED vars
  <2>1. /\ method' = method /\ given' = given /\ route' = route /\ next' = next
        /\ text' = text /\ phase' = phase
    BY <1>6 DEF vars
  <2>2. \A n, s : SaysFields(n, s) => SaysFields(n, s)'
    BY Zenon, <2>1, SameSayings
  <2>3. \A s : SaysAll(s) => SaysAll(s)'
    BY Zenon, <2>1, SameSayings
  <2>4. PICK s, n : s = text /\ n = next
    OBVIOUS
  <2>5. /\ phase = "Writing" => SaysFields(n, s)
        /\ phase = "Written" /\ method \in Type2Methods => SaysAll(s)
    BY Zenon, <2>4 DEF Sayings
  <2> QED
    BY Zenon, <2>1, <2>2, <2>3, <2>4, <2>5 DEF Sayings
<1> QED
  BY <1>1, <1>2, <1>3, <1>4, <1>5, <1>6 DEF Next

LEMMA SayingsSuffice == Inputs /\ Sayings => ParametersAreSaid
<1> SUFFICES ASSUME Inputs, Sayings, Written, method \in Type2Methods
             PROVE  /\ \A p \in DOMAIN given \ Lost : IsSaid(p, Values(p))
                    /\ IsSaid(<<"", "ROUTE">>, RouteNames)
                    /\ \A i \in DOMAIN text : text[i][1] = "V" =>
                           <<text[i][2], text[i][3]>> \in DOMAIN given \cup {<<"", "ROUTE">>}
  BY Zenon DEF ParametersAreSaid
<1>1. SaysAll(text)
  BY Zenon DEF Sayings, Written
<1>2. ASSUME NEW p \in Sayable
      PROVE  IsSaid(p, DueAtEnd(p)) /\ text \in Seq(GivenTokens)
  <2>1. text \in Says(GivenTokens, TokensOf(p), Place(p), <<>>, <<>>, DueAtEnd(p))
    BY Zenon, <1>1 DEF SaysAll
  <2> QED
    BY Zenon, <2>1, SaidOfText
<1>3. ASSUME NEW p \in DOMAIN given \ Lost
      PROVE  IsSaid(p, Values(p))
  <2>1. p \in Sayable
    BY Zenon DEF Sayable
  <2>2. p # RouteParam
    <3>1. p \in BodyParams
      BY GivenLists
    <3> QED
      BY <3>1 DEF BodyParams
  <2> QED
    BY Zenon, <1>2, <2>1, <2>2 DEF DueAtEnd
<1>4. RouteParam \in Sayable
  BY Zenon DEF Sayable
<1>5. IsSaid(RouteParam, RouteNames) /\ text \in Seq(GivenTokens)
  BY Zenon, <1>2, <1>4 DEF DueAtEnd
<1>6. ASSUME NEW i \in DOMAIN text, text[i][1] = "V"
      PROVE  <<text[i][2], text[i][3]>> \in DOMAIN given \cup {RouteParam}
  <2>1. text[i] \in GivenTokens
    <3> HIDE DEF GivenTokens
    <3> QED
      BY <1>5
  <2> DEFINE t == text[i]
  <2> HIDE DEF t
  <2>2. IsValue(t)
    BY Zenon, <1>6 DEF IsValue, t
  <2> QED
    BY Zenon, <2>1, <2>2, TokensOfRequests DEF t
<1> QED
  BY Zenon, <1>3, <1>5, <1>6 DEF RouteParam

-----------------------------------------------------------------------------
(* The theorems *)

(* The inductive invariant holds of every behaviour. *)
THEOREM Invariance == Spec => []IInv
BY InitIInv, NextIInv, PTL DEF Spec

LEMMA IInvTyping == IInv => TypeOK
<1> SUFFICES ASSUME IInv
             PROVE  TypeOK
  OBVIOUS
<1>1. Inputs /\ phase \in {"Filling", "Writing", "Written", "Refused"}
  BY DEF IInv
<1>2. ASSUME NEW R, text \in Texts(Tokens, R, 0) \/ text \in Seq(Tokens)
      PROVE  \A i \in DOMAIN text : \/ text[i] \in Marks
                                    \/ text[i][1] \in {"K", "V"}
  <2> SUFFICES ASSUME NEW i \in DOMAIN text
               PROVE  \/ text[i] \in Marks
                      \/ text[i][1] \in {"K", "V"}
    OBVIOUS
  <2>1. text \in Seq(Tokens)
    BY <1>2 DEF Texts
  <2>2. text[i] \in Tokens
    BY <2>1
  <2> QED
    BY <2>2, KindsOfTokens
<1>3. ASSUME bean = <<>>
      PROVE  DOMAIN bean \subseteq DOMAIN given
  BY <1>3
<1>4. ASSUME text = <<>>
      PROVE  text \in Seq(Tokens)
  BY <1>4
<1>5. ASSUME method \in Type2Methods
      PROVE  1 \in 1 .. Len(Beans[method].fields) + 1
  BY <1>5, CountsOfFields
<1>6. CASE phase \in {"Filling", "Refused"}
  <2>1. text = <<>> /\ bean = <<>> /\ next = 1
    BY <1>6 DEF IInv, Fillings, Refusals
  <2>2. next \in 1 .. (IF method \in Type2Methods THEN Len(Beans[method].fields) + 1 ELSE 1)
    BY <1>5, <2>1
  <2> QED
    BY <1>1, <1>2, <1>3, <1>4, <2>1, <2>2 DEF TypeOK, Inputs
<1>7. CASE phase = "Writing"
  <2>1. method \in Type2Methods /\ BeanIsFilled /\ next \in 1 .. Len(Beans[method].fields) + 1
    BY <1>7 DEF IInv, Writings
  <2>2. PICK s : IsBegun(s)
    BY <1>7 DEF IInv, Writings
  <2>3. text \in Seq(Tokens)
    <3>1. s \in Seq(Tokens)
      <4>1. IsPhrase(Tokens, s)
        BY <2>2, MorePhrases, WordsAreTokens DEF IsBegun
      <4> QED
        BY <4>1, PhraseFacts
    <3>2. <<K("CMD"), Open>> \in Seq(Tokens)
      <4>1. K("CMD") \in Tokens /\ Open \in Tokens
        BY WordsOfType1, WordsAreTokens DEF Marks
      <4> QED
        BY <4>1
    <3>3. text = <<K("CMD"), Open>> \o s
      BY <2>2 DEF IsBegun
    <3> QED
      BY <3>1, <3>2, <3>3, BothTexts
  <2>4. DOMAIN bean \subseteq DOMAIN given
    BY <2>1 DEF BeanIsFilled, Filled
  <2>5. \A i \in DOMAIN text : \/ text[i] \in Marks
                               \/ text[i][1] \in {"K", "V"}
    BY <1>2, <2>3
  <2> QED
    BY <1>1, <2>1, <2>4, <2>5 DEF TypeOK, Inputs
<1>8. CASE phase = "Written"
  <2>1. /\ DOMAIN bean \subseteq DOMAIN given
        /\ next \in 1 .. (IF method \in Type2Methods THEN Len(Beans[method].fields) + 1 ELSE 1)
    BY <1>8 DEF IInv, Writtens
  <2>2. PICK b, t : IsCommand(text, b, t)
    BY <1>8, WrittenCommands DEF Written
  <2>3. text \in Texts(Tokens, Allowed(Tokens), 0)
    BY <2>2 DEF IsCommand
  <2>4. \A i \in DOMAIN text : \/ text[i] \in Marks
                               \/ text[i][1] \in {"K", "V"}
    BY <1>2, <2>3
  <2> QED
    BY <1>1, <2>1, <2>4 DEF TypeOK, Inputs
<1> QED
  BY <1>1, <1>6, <1>7, <1>8

(* The variables have their types, whatever the parameters and the lists are. *)
THEOREM Typing == Spec => []TypeOK
BY Invariance, IInvTyping, PTL

LEMMA IInvRefusals == IInv => BadValuesAreRefused
<1> SUFFICES ASSUME IInv
             PROVE  BadValuesAreRefused
  OBVIOUS
<1>1. ASSUME Written, NEW i \in DOMAIN text, text[i][1] = "V" /\ text[i][4] = "bad"
      PROVE  ~Enumerated(<<text[i][2], text[i][3]>>)
  <2>1. PICK b, t : IsCommand(text, b, t)
    BY <1>1, WrittenCommands
  <2>2. text[i] \in Tokens
    BY <2>1, TokensOfTexts DEF IsCommand
  <2> QED
    BY <1>1, <2>2, KindsOfTokens
<1>2. ASSUME phase = "Refused"
      PROVE  \E p \in DOMAIN given : Enumerated(p) /\ "bad" \in ToSet(given[p])
  BY <1>2 DEF IInv, Refusals, HasBadValue, Filled
<1> QED
  BY <1>1, <1>2 DEF BadValuesAreRefused

(* The fromValue of the enumerations: no command is made of a value that its        *)
(* parameter does not allow, and no request is refused without one, for every list  *)
(* of values.                                                                       *)
THEOREM Refusing == Spec => []BadValuesAreRefused
BY Invariance, IInvRefusals, PTL

LEMMA IInvSeparated == IInv => WordsAreSeparated
<1> SUFFICES ASSUME IInv, Written
             PROVE  WordsAreSeparated
  BY DEF WordsAreSeparated
<1>1. PICK b, t : IsCommand(text, b, t)
  BY WrittenCommands
<1>2. text \in Texts(Tokens, Allowed(Tokens), 0)
  BY <1>1 DEF IsCommand
<1>3. \A i \in 1 .. Len(text) - 1 : <<text[i], text[i + 1]>> \in Allowed(Tokens)
  BY <1>2, NextTokens
<1>4. ASSUME NEW i \in 1 .. Len(text) - 1, Given(Param("reg_num")) => ~Given(Param("job_name"))
      PROVE  ~(IsWord(text[i]) /\ IsWord(text[i + 1]))
  <2> DEFINE x == text[i]
             y == text[i + 1]
  <2>1. <<x, y>> \in Allowed(Tokens)
    BY <1>3
  <2> HIDE DEF x, y
  <2>2. <<x, y>> \in Apart(Tokens)
    BY <1>4, <2>1, FittingIsApart DEF Allowed
  <2>3. ~(IsWord(x) /\ IsWord(y))
    BY <2>2 DEF Apart
  <2> QED
    BY <2>3 DEF x, y
<1>5. ASSUME method \in Type2Methods, NEW i \in 1 .. Len(text) - 1
      PROVE  /\ text[i] \in {Comma, Space} => text[i + 1] \notin {Close, Comma}
             /\ text[i] = Open => text[i + 1] \notin {Comma, Space}
             /\ text[i][1] = "V" => text[i + 1] \in {Comma, Close}
  <2> DEFINE x == text[i]
             y == text[i + 1]
  <2>1. <<x, y>> \in Allowed(Tokens)
    BY <1>3
  <2> HIDE DEF x, y
  <2>2. Fits(x, y)
    BY <1>5, <2>1 DEF Allowed, Fitting
  <2> QED
    BY <2>2 DEF x, y, Fits, IsValue
<1> QED
  BY <1>4, <1>5 DEF WordsAreSeparated

(* The deletions of trailing commas and spaces, Type2CommandSerializable.format and *)
(* deleteCharAt, and the spaces of the type-1 commands: in no command do two words  *)
(* run together, and no separator is left over or missing, whatever is given.       *)
THEOREM Separating == Spec => []WordsAreSeparated
BY Invariance, IInvSeparated, PTL

LEMMA IInvEssential == IInv => EssentialCommandIsExtracted
<1> SUFFICES ASSUME IInv, Written
             PROVE  EssentialCommandIsExtracted
  BY DEF EssentialCommandIsExtracted
<1> DEFINE T == Tokens
           cmd == <<K("CMD"), Open>>
           close == <<Close>>
<1>1. PICK b, t : IsCommand(text, b, t)
  BY WrittenCommands
<1>2. IsEssential(b) /\ IsRest(t) /\ text = InCmd(b) \o t
  BY <1>1 DEF IsCommand
<1>3. /\ b \in Texts(BodyTokens, Allowed(BodyTokens), 0) /\ b # <<>> /\ Last(b) # Space
      /\ b[1] \in {K("QUERY"), K("CREATE"), K("UPDATE"), K("DELETE"), Open}
      /\ b \in Seq(BodyTokens) /\ Depth(b) = 0
  BY <1>2 DEF IsEssential, Texts
<1>4. K("CMD") \in T /\ Open \in T /\ Close \in T /\ BodyTokens \subseteq T /\ RouteTokens \subseteq T
  BY WordsOfType1, WordsAreTokens DEF Marks
<1>5. t \in Seq(RouteTokens) /\ t \in Seq(T) /\ b \in Seq(T)
  BY <1>2, <1>3, <1>4, SeqMonotonic DEF IsRest
<1>6. b[1] # Space
  <2>1. \A word : K(word) # Space
    BY WordsAndValues, MarksDiffer DEF Marks
  <2>2. Open # Space
    BY MarksDiffer
  <2> QED
    BY <1>3, <2>1, <2>2
<1>7. extractEssentialCommand(text) = b
  <2>1. b \in Texts(T, Allowed(BodyTokens), 0)
    BY <1>3, <1>4, MoreTexts
  <2> DEFINE a == K("CMD")
  <2>2. a \in T
    BY <1>4
  <2>3. text = ((<<a, Open>> \o b) \o <<Close>>) \o t
    BY <1>2 DEF InCmd
  <2> HIDE DEF T, a
  <2>4. extractEssentialCommand(((<<a, Open>> \o b) \o <<Close>>) \o t) = b
    BY <1>3, <1>4, <1>5, <1>6, <2>1, <2>2, EssentialCommands
  <2> QED
    BY Zenon, <2>3, <2>4
<1> DEFINE u == InCmd(b)
<1>8. u \in Seq(T) /\ Len(u) = Len(b) + 3 /\ Len(b) \in Nat
  <2>1. cmd \in Seq(T) /\ Len(cmd) = 2
    BY <1>4
  <2> DEFINE v == cmd \o b
  <2>2. v \in Seq(T) /\ Len(v) = 2 + Len(b) /\ Len(b) \in Nat
    <3>1. b \in Seq(T) /\ cmd \in Seq(T)
      BY <1>5, <2>1
    <3> HIDE DEF cmd, T
    <3>2. cmd \o b \in Seq(T) /\ Len(cmd \o b) = Len(cmd) + Len(b) /\ Len(b) \in Nat
      BY <3>1, BothTexts
    <3> QED
      BY Zenon, <2>1, <3>2
  <2> HIDE DEF v
  <2>3. v \o <<Close>> \in Seq(T) /\ Len(v \o <<Close>>) = Len(v) + 1
    BY <1>4, <2>2, Longer
  <2>4. u = v \o <<Close>>
    BY DEF InCmd, v
  <2> QED
    BY <2>2, <2>3, <2>4
<1> HIDE DEF u, T
<1>9. text \in Seq(T) /\ Len(text) = Len(u) + Len(t) /\ Len(t) \in Nat
  BY <1>2, <1>5, <1>8, BothTexts DEF u
<1>10. IsPrefix(u, text)
  <2>1. SubSeq(u \o t, 1, Len(u)) = SubSeq(u, 1, Len(u))
    <3>1. Len(u) \in 0 .. Len(u)
      BY <1>8
    <3> QED
      BY <1>5, <1>8, <3>1, FirstTokensOfBoth
  <2>2. SubSeq(text, 1, Len(u)) = SubSeq(u, 1, Len(u))
    BY Zenon, <1>2, <2>1 DEF u
  <2> QED
    BY <1>8, <1>9, <2>2 DEF IsPrefix
<1>11. SubSeq(text, Len(b) + 4, Len(text)) = t
  <2>1. Len(t) \in 0 .. Len(t)
    BY <1>9
  <2>2. SubSeq(u \o t, Len(u) + 1, Len(u) + Len(t)) = SubSeq(t, 1, Len(t))
    BY <1>5, <1>8, <2>1, AfterFirst
  <2>3. Len(u) + 1 = Len(b) + 4
    BY <1>8
  <2>4. SubSeq(t, 1, Len(t)) = t
    BY <1>5, SubSeqFull
  <2> QED
    BY Zenon, <1>2, <1>9, <2>2, <2>3, <2>4 DEF u
<1>12. \A i \in DOMAIN b : ~IsValueOf(b[i], <<"", "ROUTE">>)
  <2> SUFFICES ASSUME NEW i \in DOMAIN b
               PROVE  ~IsValueOf(b[i], <<"", "ROUTE">>)
    OBVIOUS
  <2>1. b[i] \in BodyTokens
    BY <1>3
  <2> QED
    BY Zenon, <2>1, BodiesHaveNoRoute DEF RouteParam
<1>13. FlattenSeq([i \in DOMAIN t |-> IF t[i][1] = "V" THEN <<t[i]>> ELSE <<>>]) = RouteNames
  <2> DEFINE S == ValueTokens(RouteTokens)
  <2>1. \A i \in DOMAIN t : t[i] \in S <=> t[i][1] = "V"
    BY <1>5 DEF ValueTokens, IsValue
  <2> HIDE DEF S
  <2>2. [i \in DOMAIN t |-> IF t[i][1] = "V" THEN <<t[i]>> ELSE <<>>]
          = [i \in DOMAIN t |-> IF t[i] \in S THEN <<t[i]>> ELSE <<>>]
    BY <2>1
  <2>3. Chosen(S, t) = RouteNames
    BY <1>2 DEF IsRest, S
  <2> QED
    BY Zenon, <2>2, <2>3 DEF Chosen
<1>14. ASSUME NEW essential, essential = extractEssentialCommand(text),
              NEW rest, rest = SubSeq(text, Len(essential) + 4, Len(text))
       PROVE  /\ IsPrefix(<<K("CMD"), Open>> \o essential \o <<Close>>, text)
              /\ Depth(essential) = 0
              /\ essential[1] \in {K("QUERY"), K("CREATE"), K("UPDATE"), K("DELETE"), Open}
              /\ \A i \in DOMAIN essential : ~IsValueOf(essential[i], <<"", "ROUTE">>)
              /\ FlattenSeq([i \in DOMAIN rest |-> IF rest[i][1] = "V" THEN <<rest[i]>> ELSE <<>>])
                   = RouteNames
  <2>1. essential = b
    BY Zenon, <1>7, <1>14
  <2>2. rest = t
    BY Zenon, <1>11, <1>14, <2>1
  <2> QED
    BY Zenon, <1>3, <1>10, <1>12, <1>13, <2>1, <2>2 DEF u, InCmd
<1> QED
  BY Zenon, <1>14 DEF EssentialCommandIsExtracted

(* OMServlet.extractEssentialCommand: for every command that a method writes, it is *)
(* exactly what stands between "CMD(" and the parenthesis that closes it, and the   *)
(* systems the command goes to are what is left.                                    *)
THEOREM Extracting == Spec => []EssentialCommandIsExtracted
BY Invariance, IInvEssential, PTL

(* Type2CommandSerializable with the beans: for every value of the parameters, a    *)
(* type-2 command says each of them but the known ones in its place, its values in  *)
(* their order and once, and so the systems to route to; no other value is in it.   *)
THEOREM Saying == Spec => []ParametersAreSaid
<1>1. Init => IInv /\ Sayings
  BY InitIInv, InitSayings
<1>2. (IInv /\ Sayings) /\ [Next]_vars => (IInv /\ Sayings)'
  BY NextIInv, NextSayings
<1>3. IInv /\ Sayings => ParametersAreSaid
  BY SayingsSuffice DEF IInv
<1> QED
  BY <1>1, <1>2, <1>3, PTL DEF Spec
=============================================================================
