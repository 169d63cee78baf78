------------------------------- MODULE Commands -------------------------------
(***************************************************************************)
(* From the parameters of a request to the text of its IMS command: the    *)
(* methods of TranService, PgmService and RegionService up to the call of  *)
(* executeImsCommand.                                                      *)
(*                                                                         *)
(* A method of a type-2 command fills a command bean with its parameters   *)
(* and gives it to Type2CommandSerializable, which writes one field of the *)
(* bean after the other.  The methods of type-1 commands write the text    *)
(* themselves.                                                             *)
(*                                                                         *)
(* A parameter is named by the place it is meant for: <<"SET", "PGM">> is  *)
(* the attribute PGM of SET, <<"", "NAME">> the field NAME.  Its value is  *)
(* a sequence: the list that its text is split into at commas, or one      *)
(* value.  A value is a number of an arbitrary meaning, or "bad", which no *)
(* enumeration of the command beans has.                                   *)
(***************************************************************************)
EXTENDS CommandText

CONSTANTS
    Methods,    \* the methods that are called
    MaxGiven,   \* for each method, the most parameters of one request but for the route
    Lists,      \* the lists of values a client gives
    Routes      \* the lists of systems a client gives

ASSUME ListsAssumption ==
    \A list \in Lists \cup Routes : list \in Seq(ToSet(list)) /\ list # <<>>

-----------------------------------------------------------------------------
(* The command beans: their fields in the order of their declaration. *)

FieldOf(kind, key, keys) == [kind |-> kind, key |-> key, keys |-> keys]
ListField(key) == FieldOf("list", key, <<>>)
OneField(key) == FieldOf("one", key, <<>>)
Group(key, keys) == FieldOf("group", key, keys)

TranAttributes(cpri, lock) ==
    <<"AOCMD", "CLASS", "CMTMODE", "CONV">> \o cpri
      \o <<"DCLWA", "DIRROUTE", "EDITRTN", "EDITUC", "EMHBSZ", "EXPRTIME", "FP", "INQ", "LCT">>
      \o lock
      \o <<"LPRI", "MAXRGN", "MSGTYPE", "MSNAME", "NPRI", "PARLIM", "PGM", "PLCT", "PLCTTIME",
           "RECOVER", "REMOTE", "RESP", "SEGNO", "SEGSZ", "SERIAL", "SIDL", "SIDR", "SPASZ",
           "SPATRUNC", "TRANSTAT", "WFI">>

PgmAttributes(lock) ==
    <<"BMPTYPE", "DOPT", "FP", "GPSB", "LANG">> \o lock \o <<"RESIDENT", "SCHDTYPE", "TRANSTAT">>

Bean(verb, resource, fields) == [verb |-> verb, resource |-> resource, fields |-> fields]

Beans ==
    [QueryTran |-> Bean("QUERY", "TRAN",
         <<ListField("NAME"), ListField("CLASS"), Group("QCNT", <<"QCNTComp", "QCNTValue">>),
           ListField("STATUS"), ListField("SHOW"), OneField("CONV"), OneField("FP"),
           OneField("REMOTE"), OneField("RESP")>>),
     CreateTran |-> Bean("CREATE", "TRAN",
         <<ListField("NAME"), Group("LIKE", <<"DESC", "RSC">>),
           Group("SET", TranAttributes(<<>>, <<>>))>>),
     UpdateTran |-> Bean("UPDATE", "TRAN",
         <<ListField("NAME"), ListField("CLASS"), ListField("START"), ListField("STOP"),
           Group("SET", TranAttributes(<<"CPRI">>, <<"LOCK">>)), ListField("OPTION"),
           OneField("SCOPE")>>),
     DeleteTran |-> Bean("DELETE", "TRAN", <<ListField("NAME"), OneField("OPTION")>>),
     QueryPgm |-> Bean("QUERY", "PGM",
         <<ListField("NAME"), ListField("SHOW"), ListField("STATUS")>>),
     CreatePgm |-> Bean("CREATE", "PGM",
         <<ListField("NAME"), Group("LIKE", <<"DESC", "RSC">>), Group("SET", PgmAttributes(<<>>))>>),
     UpdatePgm |-> Bean("UPDATE", "PGM",
         <<ListField("NAME"), ListField("START"), ListField("STOP"),
           Group("SET", PgmAttributes(<<"LOCK">>)), OneField("OPTION")>>),
     DeletePgm |-> Bean("DELETE", "PGM", <<ListField("NAME"), OneField("OPTION")>>)]

Type2Methods == DOMAIN Beans

ParamsOf(field) ==
    IF field.kind = "group" THEN {<<field.key, key>> : key \in ToSet(field.keys)}
    ELSE {<<"", field.key>>}

(* Where a value must be one of an enumeration: its fromValue throws else. *)
Enumerated(p) ==
    p[2] \in {"QCNTComp", "STATUS", "SHOW", "OPTION", "SCOPE", "START", "STOP", "AOCMD", "CMTMODE",
              "CONV", "DCLWA", "DIRROUTE", "EDITUC", "FP", "INQ", "LOCK", "MSGTYPE", "RECOVER",
              "REMOTE", "RESP", "SERIAL", "SPATRUNC", "TRANSTAT", "WFI", "BMPTYPE", "DOPT", "GPSB",
              "LANG", "RESIDENT", "SCHDTYPE"}

-----------------------------------------------------------------------------
(* The parameters of the methods.  A flag is given or not. *)

Type1Params ==
    [StopRegion |-> {<<"", key>> : key \in {"reg_num", "job_name", "abdump", "transaction", "cancel"}},
     StartRegion |-> {<<"", key>> : key \in {"member_name", "job_name", "local"}},
     DisplayRegion |-> {<<"", key>> : key \in {"dc", "region"}},
     StartTran |-> {<<"", key>> : key \in {"name", "class", "affinity"}},
     StartPgm |-> {<<"", "name">>}]

ASSUME MethodsAssumption == Methods \subseteq Type2Methods \cup DOMAIN Type1Params

Params(method) ==
    IF method \in Type2Methods
    THEN UNION {ParamsOf(field) : field \in ToSet(Beans[method].fields)}
    ELSE Type1Params[method]

Flags == {"cancel", "local", "affinity", "dc", "region"}
TakesList(method, p) ==
    \/ method \in Type2Methods /\ ListField(p[2]) \in ToSet(Beans[method].fields) /\ p[1] = ""
    \/ method \notin Type2Methods /\ p[2] \in {"reg_num", "name", "class"}

ValuesFor(method, p) ==
    IF p[2] \in Flags THEN {<<"true">>}
    ELSE {list \in Lists : /\ ~Enumerated(p) => "bad" \notin ToSet(list)
                           /\ ~TakesList(method, p) => Len(list) = 1}

Requests(method) ==
    LET Some == {{}} \cup {{ps[i] : i \in 1 .. MaxGiven[method]} :
                             ps \in [1 .. MaxGiven[method] -> Params(method)]}
    IN  UNION {{given \in [ps -> Lists \cup {<<"true">>}] :
                   \A p \in ps : given[p] \in ValuesFor(method, p)} : ps \in Some}

-----------------------------------------------------------------------------
VARIABLES
    method,    \* the method of the service
    given,     \* the values of the parameters that are given
    route,     \* the list of the parameter route, <<>> when it is not given
    bean,      \* the fields that are not null: the values for each parameter
    next,      \* the field to write
    text,      \* the text of the command so far
    phase      \* "Filling", "Writing", "Written" or "Refused"

vars == <<method, given, route, bean, next, text, phase>>

Init ==
    /\ method \in Methods
    /\ given \in Requests(method)
    /\ route \in Routes \cup {<<>>}
    /\ bean = <<>> /\ next = 1 /\ text = <<>> /\ phase = "Filling"

Given(p) == p \in DOMAIN given

(* The comparison of QCNT is looked at only with a count, and the reverse.  A few   *)
(* parameters are declared and not looked at.                                       *)
LooksAt(p) ==
    /\ p[1] = "QCNT" => Given(<<"QCNT", "QCNTComp">>) /\ Given(<<"QCNT", "QCNTValue">>)
    /\ p[2] \notin {"EMHBSZ", "CPRI"}
    /\ method = "CreatePgm" => p[1] # "LIKE"

(* The parameter whose value a setter gets. *)
Source(p) == IF p = <<"SET", "PLCT">> THEN <<"SET", "PLCTTIME">> ELSE p

Values(p) ==
    IF ~Given(p) THEN <<>> ELSE [i \in DOMAIN given[p] |-> V(p, given[p][i])]

Filled == {p \in DOMAIN given : LooksAt(p)}

\* Variant: the values of a list are taken as they are.
HasBadSingleValue ==
    \E p \in Filled : Enumerated(p) /\ p[2] \notin {"START", "STOP"} /\ "bad" \in ToSet(given[p])

HasBadValue == \E p \in Filled : Enumerated(p) /\ "bad" \in ToSet(given[p])

\* Variant: a new list for each value.
FillBeanWithLast ==
    /\ phase = "Filling" /\ method \in Type2Methods
    /\ ~HasBadValue
    /\ bean' = [p \in Filled |-> IF Values(Source(p)) = <<>> THEN <<>> ELSE <<Last(Values(Source(p)))>>]
    /\ text' = <<K("CMD"), Open, K(Beans[method].verb), Space, K(Beans[method].resource), Space>>
    /\ phase' = "Writing"
    /\ UNCHANGED <<method, given, route, next>>

\* Variant: the bean always has its SET.
FillBeanWithEverySet ==
    /\ phase = "Filling" /\ method \in Type2Methods
    /\ ~HasBadValue
    /\ bean' = [p \in Filled \cup {q \in Params(method) : q[1] = "SET"} |-> Values(Source(p))]
    /\ text' = <<K("CMD"), Open, K(Beans[method].verb), Space, K(Beans[method].resource), Space>>
    /\ phase' = "Writing"
    /\ UNCHANGED <<method, given, route, next>>

FillBean ==
    /\ phase = "Filling" /\ method \in Type2Methods
    /\ ~HasBadValue
    /\ bean' = [p \in Filled |-> Values(Source(p))]
    /\ text' = <<K("CMD"), Open, K(Beans[method].verb), Space, K(Beans[method].resource), Space>>
    /\ phase' = "Writing"
    /\ UNCHANGED <<method, given, route, next>>

(* IllegalArgumentException: answered with 400, nothing is sent. *)
Refuse ==
    /\ phase = "Filling" /\ method \in Type2Methods
    /\ HasBadValue
    /\ phase' = "Refused"
    /\ UNCHANGED <<method, given, route, bean, next, text>>

FieldText(field) ==
    LET Value(p) == IF p \in DOMAIN bean THEN bean[p] ELSE <<>>
        value == Value(<<"", field.key>>)
    IN  CASE field.kind = "list" -> ListText(field.key, value)
          [] field.kind = "one" -> OneText(field.key, value)
          [] field.kind = "group" ->
               IF ParamsOf(field) \cap DOMAIN bean = {} THEN <<>>
               ELSE GroupText(field.key, field.keys,
                              [key \in ToSet(field.keys) |-> Value(<<field.key, key>>)])

WriteField ==
    /\ phase = "Writing" /\ next <= Len(Beans[method].fields)
    /\ text' = text \o FieldText(Beans[method].fields[next])
    /\ next' = next + 1
    /\ UNCHANGED <<method, given, route, bean, phase>>

RouteNames == [i \in DOMAIN route |-> V(<<"", "ROUTE">>, route[i])]

CloseCommand ==
    /\ phase = "Writing" /\ next > Len(Beans[method].fields)
    /\ text' = Append(Format(text), Close) \o RouteText(RouteNames)
    /\ phase' = "Written"
    /\ UNCHANGED <<method, given, route, bean, next>>

-----------------------------------------------------------------------------
(* The texts of the methods of type-1 commands. *)

Param(key) == <<"", key>>
Word(key, word, after) == IF Given(Param(key)) THEN <<K(word)>> \o after ELSE <<>>
Phrase(key, word) ==
    IF Given(Param(key)) THEN <<K(word), Space>> \o Values(Param(key)) \o <<Space>> ELSE <<>>

(* How a region or a job is to be stopped. *)
StopOptions ==
    Phrase("abdump", "ABDUMP") \o Phrase("transaction", "TRANSACTION") \o Word("cancel", "CANCEL", <<>>)

(* Two or more numbers are a range. *)
RegNumbers(values) ==
    IF Len(values) > 1 THEN <<values[1], Hyphen, values[2], Space>> ELSE Append(values, Space)

StopText ==
    <<K("STOP"), Space, K("REGION"), Space>>
      \o (IF Given(Param("reg_num")) THEN RegNumbers(Values(Param("reg_num"))) \o StopOptions ELSE <<>>)
      \o (IF Given(Param("job_name")) THEN Phrase("job_name", "JOBNAME") \o StopOptions ELSE <<>>)

StartRegionText ==
    <<K("START"), Space, K("REGION"), Space>>
      \o (IF Given(Param("member_name"))
          THEN Append(Values(Param("member_name")), Space) \o Phrase("job_name", "JOBNAME") ELSE <<>>)
      \o Word("local", "LOCAL", <<>>)

(* The names go into the text as they were given, with their commas. *)
Names == FlattenSeq([i \in DOMAIN given[Param("name")] |->
             IF i = 1 THEN <<Values(Param("name"))[i]>> ELSE <<Comma, Values(Param("name"))[i]>>])

(* A list as Java prints it, also one without elements. *)
Printed(values) ==
    <<OpenList>>
      \o FlattenSeq([i \in DOMAIN values |->
             IF i = 1 THEN <<values[i]>> ELSE <<Comma, Space, values[i]>>])
      \o <<CloseList>>

(* Only the name "ALL", in any case, starts classes: the list of them is never null *)
(* and is printed even when no class is given.                                      *)
StartTranText ==
    LET all == Given(Param("name")) /\ given[Param("name")] \in {<<"ALL">>, <<"all">>}
    IN  <<K("STA"), Space, K("TRAN"), Space>>
          \o (IF Given(Param("name")) /\ ~all THEN Names ELSE <<K("ALL")>>)
          \o (IF all THEN <<Space, K("CLASS"), Space>> \o Printed(Values(Param("class"))) ELSE <<>>)
          \o (IF Given(Param("name")) /\ ~all /\ Given(Param("affinity"))
              THEN <<Space, K("AFFINITY")>> ELSE <<>>)

StartPgmText ==
    <<K("STA"), Space, K("PGM"), Space>> \o (IF Given(Param("name")) THEN Names ELSE <<K("ALL")>>)

Type1Text ==
    CASE method = "StopRegion" -> StopText
      [] method = "StartRegion" -> StartRegionText
      [] method = "DisplayRegion" -> <<K("DIS"), Space, K("ACT"), Space, K("REGION")>>
      [] method = "StartTran" -> StartTranText
      [] method = "StartPgm" -> StartPgmText

(* ROUTE( and the names, each with a comma, the last of which is dropped. *)
Type1Route ==
    IF route = <<>> THEN <<>>
    ELSE (IF method \in {"StartTran", "StartPgm"} THEN <<>> ELSE <<Space>>)
           \o <<K("ROUTE"), Open>>
           \o Front(FlattenSeq([i \in DOMAIN route |-> <<RouteNames[i], Comma>>])) \o <<Close>>

WriteDirect ==
    /\ phase = "Filling" /\ method \notin Type2Methods
    /\ text' = <<K("CMD"), Open, Open>> \o Type1Text
                 \o <<Close, Space, K("OPTION=AOPOUTPUT"), Close>> \o Type1Route
    /\ phase' = "Written"
    /\ UNCHANGED <<method, given, route, bean, next>>

Next == FillBean \/ Refuse \/ WriteField \/ CloseCommand \/ WriteDirect

Spec == Init /\ [][Next]_vars

-----------------------------------------------------------------------------
(* Properties *)

(* The variables have their types. *)
TypeOK ==
    /\ method \in Methods
    /\ DOMAIN given \subseteq Params(method) /\ route \in Routes \cup {<<>>}
    /\ \A p \in DOMAIN given : given[p] \in ValuesFor(method, p)
    /\ DOMAIN bean \subseteq DOMAIN given
    /\ next \in 1 .. (IF method \in Type2Methods THEN Len(Beans[method].fields) + 1 ELSE 1)
    /\ \A i \in DOMAIN text : \/ text[i] \in Marks
                              \/ text[i][1] \in {"K", "V"}
    /\ phase \in {"Filling", "Writing", "Written", "Refused"}

Written == phase = "Written"

IsValueOf(t, p) == t[1] = "V" /\ <<t[2], t[3]>> = p
ValuesOf(p) ==
    FlattenSeq([i \in DOMAIN text |-> IF IsValueOf(text[i], p) THEN <<text[i]>> ELSE <<>>])

(* The words whose parentheses are open at the i-th token, the outer ones first. *)
Enclosing(i) ==
    LET opens == {j \in 2 .. i : /\ text[j] = Open
                                 /\ \A k \in j + 1 .. i : Depth(SubSeq(text, j + 1, k)) >= 0}
    IN  [n \in 1 .. Cardinality(opens) |-> text[Nth(opens, n) - 1]]

(* Where the values of a parameter belong.  The two of a QCNT have no words of their own. *)
Place(p) ==
    CASE p = <<"", "ROUTE">> -> <<K("ROUTE")>>
      [] p[1] = "" /\ p # <<"", "ROUTE">> -> <<K("CMD"), K(p[2])>>
      [] p[1] = "QCNT" -> <<K("CMD"), K("QCNT")>>
      [] OTHER -> <<K("CMD"), K(p[1]), K(p[2])>>

(* The values of a parameter stand in the text in their order, once, in the         *)
(* parentheses of its keyword and, for an attribute, of its group.                  *)
IsSaid(p, values) ==
    /\ ValuesOf(p) = values
    /\ \A i \in DOMAIN text : IsValueOf(text[i], p) => Enclosing(i) = Place(p)

(* What the methods are known to leave out: see EveryParameterIsSaid. *)
Lost ==
    {<<"SET", "EMHBSZ">>, <<"SET", "CPRI">>}
      \cup (IF Given(<<"SET", "PLCT">>) THEN {<<"SET", "PLCT">>, <<"SET", "PLCTTIME">>} ELSE {})
      \cup (IF method = "CreatePgm" THEN {<<"LIKE", "DESC">>, <<"LIKE", "RSC">>} ELSE {})
      \cup (IF Given(<<"QCNT", "QCNTComp">>) /\ Given(<<"QCNT", "QCNTValue">>) THEN {}
            ELSE {<<"QCNT", "QCNTComp">>, <<"QCNT", "QCNTValue">>})

(* Type2CommandSerializable with the beans: every parameter but the known ones is   *)
(* said at its place, so are the systems to route to, and nothing else is: no value *)
(* moves to another keyword, is dropped, or slips out of the command into ROUTE.    *)
ParametersAreSaid ==
    Written /\ method \in Type2Methods =>
      /\ \A p \in DOMAIN given \ Lost : IsSaid(p, Values(p))
      /\ IsSaid(<<"", "ROUTE">>, RouteNames)
      /\ \A i \in DOMAIN text : text[i][1] = "V" =>
             <<text[i][2], text[i][3]>> \in DOMAIN given \cup {<<"", "ROUTE">>}

(* The deletions of trailing commas and spaces, Type2CommandSerializable.format and *)
(* deleteCharAt, take what they should and no more: two words never run together,   *)
(* and in a type-2 command no separator is left at the end of a list or missing in  *)
(* it.  A region is stopped by its number or by its job: with both, which the       *)
(* description of the parameters forbids, CANCEL and JOBNAME run together.          *)
WordsAreSeparated ==
    Written =>
      /\ (Given(Param("reg_num")) => ~Given(Param("job_name"))) =>
           \A i \in 1 .. Len(text) - 1 : ~(IsWord(text[i]) /\ IsWord(text[i + 1]))
      /\ method \in Type2Methods =>
           \A i \in 1 .. Len(text) - 1 :
              /\ text[i] \in {Comma, Space} => text[i + 1] \notin {Close, Comma}
              /\ text[i] = Open => text[i + 1] \notin {Comma, Space}
              /\ text[i][1] = "V" => text[i + 1] \in {Comma, Close}

(* OMServlet.extractEssentialCommand: what Service looks at to tell a display from  *)
(* other commands is exactly what the method put into the parentheses of CMD; its   *)
(* own are balanced and the names of the systems are not in it.                     *)
EssentialCommandIsExtracted ==
    Written =>
      LET essential == extractEssentialCommand(text)
          rest == SubSeq(text, Len(essential) + 4, Len(text))
      IN  /\ IsPrefix(<<K("CMD"), Open>> \o essential \o <<Close>>, text)
          /\ Depth(essential) = 0
          /\ essential[1] \in {K("QUERY"), K("CREATE"), K("UPDATE"), K("DELETE"), Open}
          /\ \A i \in DOMAIN essential : ~IsValueOf(essential[i], <<"", "ROUTE">>)
          /\ FlattenSeq([i \in DOMAIN rest |-> IF rest[i][1] = "V" THEN <<rest[i]>> ELSE <<>>])
               = RouteNames

(* The fromValue of the enumerations: no command is made of a value that its        *)
(* parameter does not allow, and no request is refused without one.                 *)
BadValuesAreRefused ==
    /\ Written => \A i \in DOMAIN text : text[i][1] = "V" /\ text[i][4] = "bad" =>
                                            ~Enumerated(<<text[i][2], text[i][3]>>)
    /\ phase = "Refused" => \E p \in DOMAIN given : Enumerated(p) /\ "bad" \in ToSet(given[p])

(* What the descriptions of the parameters say: each parameter of a type-2 command  *)
(* is part of the command.                                                          *)
EveryParameterIsSaid ==
    Written /\ method \in Type2Methods => \A p \in DOMAIN given : IsSaid(p, Values(p))

(* The description of reg_num: the regions that a STOP REGION stops, the numbers of *)
(* its text and those between the ends of a range, are the ones given.              *)
StopsNamedRegions ==
    Written /\ method = "StopRegion" /\ Given(Param("reg_num")) =>
      LET Number(v) == CHOOSE n \in 0 .. 9 : ToString(n) = v
          IsNumber(i) == i \in DOMAIN text /\ IsValueOf(text[i], Param("reg_num"))
          stopped == UNION {IF text[i + 1] = Hyphen THEN Number(text[i][4]) .. Number(text[i + 2][4])
                            ELSE {Number(text[i][4])} :
                            i \in {j \in DOMAIN text : IsNumber(j)}}
      IN  stopped = {Number(v) : v \in ToSet(given[Param("reg_num")])}

=============================================================================
