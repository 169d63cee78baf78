------------------------------ MODULE OmResponse ------------------------------
(***************************************************************************)
(* How the answer of OM to a command becomes the body of the HTTP reply:   *)
(* Service.processResponse takes the parts of the answer into the result   *)
(* set, OMServlet.executeImsCommand writes the result set as JSON ("data") *)
(* and omMessageContextToJSON adds the return codes ("messages").          *)
(*                                                                         *)
(* An answer has response elements (type-2 commands), message data of the  *)
(* members that ran the command, a return code of OM, and the members that *)
(* report an error.  Any part may be missing.  The command matters by what *)
(* the code looks for in its text: it contains names the client chose.     *)
(***************************************************************************)
EXTENDS Naturals, Sequences

CONSTANTS
    Members,       \* the names of IMS systems and other members
    Om,            \* the name of the Operations Manager
    Lines,         \* the lines of message data
    Elements,      \* the response elements
    Kind,          \* Kind[l]: what the display parser makes of line l
    Zero, Codes,   \* "00000000" and the return codes of errors
    Commands, Answers,
    Empty,         \* ""
    Null           \* null, and what a message or a row does not have

LineKinds == {"header", "value", "end", "text", "ruler"}

\* Error member lists name a member once.
IsErrorList(errs, codes) ==
    /\ errs \in Seq([mbr : Members, rc : codes])
    /\ \A i, j \in DOMAIN errs : errs[i].mbr = errs[j].mbr => i = j

CommandType == [display : BOOLEAN,   \* contains "DIS"
                fids : BOOLEAN,      \* contains "AOPOUTPUT"
                otma : BOOLEAN]      \* contains "OTMA"

\* A return code and a name may be missing in the answer; the context has "" then.
AnsweredCodes == Codes \cup {Zero, Null}
ContextCodes == Codes \cup {Zero, Empty}

IsAnswer(a) ==
    /\ a.parse \in {"ok", "fails"}
    /\ a.rsp \in Seq(Elements)
    /\ a.msgdata = Null \/ a.msgdata \in Seq([mbr : Members, msg : Seq(Lines)])
    /\ a.cmderr = Null \/ IsErrorList(a.cmderr, AnsweredCodes)
    /\ a.rc \in AnsweredCodes
    /\ a.omname \in {Om, Null}

ASSUME KindAssumption == Kind \in [Lines -> LineKinds]
ASSUME CommandsAssumption == Commands \subseteq CommandType
ASSUME AnswersAssumption == \A a \in Answers : IsAnswer(a)
ASSUME NamesAssumption ==
    /\ Null # Empty
    /\ {Null, Empty} \cap (Members \cup {Om} \cup Codes \cup {Zero}) = {}
ASSUME ErrorsAssumption == ~IsErrorList(Null, ContextCodes)
ASSUME CodesAssumption == Zero \notin Codes

VARIABLES
    command, answer,      \* the inputs
    pc,
    properties,           \* responseProperties of the result set
    member,               \* the member of a display that is parsed next
    context,              \* the return code, name and errors in the message context
    data, messages,       \* the body
    status

inputs == <<command, answer>>
vars == <<inputs, pc, properties, member, context, data, messages, status>>

-----------------------------------------------------------------------------
(* Rows of the body.  A row is a Properties object: lines of one member     *)
(* under its name, or the attributes of a response element.                 *)

ElementRow(e) == [mbr |-> Null, lines |-> {e}]
LineRow(mbr, l) == [mbr |-> mbr, lines |-> {l}]

\* The lines after the first are joined to it but for those with "---".
Text(msg) == {msg[1]} \cup {msg[i] : i \in {j \in 2 .. Len(msg) : Kind[msg[j]] # "ruler"}}
TextRow(m) == [mbr |-> m.mbr, lines |-> Text(m.msg)]

Rows(op(_), s) == [i \in DOMAIN s |-> op(s[i])]

HasText(msgdata) == \A i \in DOMAIN msgdata : msgdata[i].msg # <<>>

-----------------------------------------------------------------------------
(* The parser of displays, FIDReader.parseResults *)

\* The rows stop before the first line with an asterisk.
EndOfRows(msg) ==
    CHOOSE n \in 2 .. Len(msg) + 1 :
        /\ n <= Len(msg) => Kind[msg[n]] = "end"
        /\ \A i \in 2 .. n - 1 : Kind[msg[i]] # "end"

\* Variant: one line too many taken for a header.
ValueLinesAfterTwo(msg) == SubSeq(msg, 3, EndOfRows(msg) - 1)

ValueLines(msg) == SubSeq(msg, 2, EndOfRows(msg) - 1)

\* Variant: the lines after the time stamp are parsed too.
ParsesToTheEnd(msg) ==
    Len(msg) >= 2 => /\ Kind[msg[1]] = "header"
                     /\ \A i \in 2 .. Len(msg) : Kind[msg[i]] = "value"
                     /\ ~command.otma

\* A line whose FID is not known ends in a NullPointerException, and so does the
\* first row of a display of regions whose command contains "OTMA".
Parses(msg) ==
    Len(msg) >= 2 => /\ Kind[msg[1]] = "header"
                     /\ \A i \in DOMAIN ValueLines(msg) :
                           Kind[ValueLines(msg)[i]] = "value"
                     /\ ~command.otma

\* Less than two lines are taken for an error message.
ParseResults(m) ==
    IF Len(m.msg) < 2 THEN <<LineRow(m.mbr, m.msg[1])>>
    ELSE Rows(LAMBDA l : LineRow(m.mbr, l), ValueLines(m.msg))

-----------------------------------------------------------------------------

NoContext == [rc |-> Zero, omname |-> Empty, errs |-> Null]
NoMessages == [n \in {} |-> Null]

Init ==
    /\ command \in Commands
    /\ answer \in Answers
    /\ pc = "parse"
    /\ properties = <<>>
    /\ member = 1
    /\ context = NoContext
    /\ data = <<>>
    /\ messages = NoMessages
    /\ status = 0

GoTo(p) == pc' = p

\* What the service method makes of an exception.
Refuse(s) ==
    /\ GoTo("replied")
    /\ status' = s
    /\ UNCHANGED <<inputs, properties, member, context, data, messages>>

\* The API of IMS Connect cannot read the answer: an OmException.
FailParse == pc = "parse" /\ answer.parse = "fails" /\ Refuse(400)

\* Variant: the arrays are not merged.
ReadElementsOnly ==
    /\ pc = "parse" /\ answer.parse = "ok"
    /\ answer.rsp # <<>>
    /\ answer.msgdata # Null => HasText(answer.msgdata)
    /\ properties' = Rows(ElementRow, answer.rsp)
    /\ GoTo("context")
    /\ UNCHANGED <<inputs, member, context, data, messages, status>>

\* Response elements, and the message data after them.
ReadElements ==
    /\ pc = "parse" /\ answer.parse = "ok"
    /\ answer.rsp # <<>>
    /\ answer.msgdata # Null => HasText(answer.msgdata)
    /\ properties' = Rows(ElementRow, answer.rsp)
                       \o (IF answer.msgdata = Null THEN <<>>
                           ELSE Rows(TextRow, answer.msgdata))
    /\ GoTo("context")
    /\ UNCHANGED <<inputs, member, context, data, messages, status>>

\* Message data only, as type-1 commands have it.
ReadMsgdata ==
    /\ pc = "parse" /\ answer.parse = "ok"
    /\ answer.rsp = <<>>
    /\ answer.msgdata # Null /\ HasText(answer.msgdata)
    /\ properties' = Rows(TextRow, answer.msgdata)
    /\ GoTo(IF command.display /\ command.fids THEN "display" ELSE "context")
    /\ UNCHANGED <<inputs, member, context, data, messages, status>>

ReadNothing ==
    /\ pc = "parse" /\ answer.parse = "ok"
    /\ answer.rsp = <<>> /\ answer.msgdata = Null
    /\ GoTo("context")
    /\ UNCHANGED <<inputs, properties, member, context, data, messages, status>>

\* A member without a message: msgBuffer is null.
FailText ==
    /\ pc = "parse" /\ answer.parse = "ok"
    /\ answer.msgdata # Null /\ ~HasText(answer.msgdata)
    /\ Refuse(500)

-----------------------------------------------------------------------------
(* A display with FIDs: a table for each member, in turn *)

IsLast(i) == i >= Len(answer.msgdata)

\* Variant: the regions of every member are named after the first.
ParseDisplayForFirst ==
    /\ pc = "display" /\ answer.msgdata # <<>>
    /\ Parses(answer.msgdata[member].msg)
    /\ properties' = ParseResults([answer.msgdata[member] EXCEPT !.mbr = answer.msgdata[1].mbr])
    /\ member' = member + 1
    /\ GoTo(IF IsLast(member) THEN "context" ELSE "display")
    /\ UNCHANGED <<inputs, context, data, messages, status>>

\* setResponseProperties for member i replaces what member i - 1 left there.
ParseDisplay ==
    /\ pc = "display" /\ answer.msgdata # <<>>
    /\ Parses(answer.msgdata[member].msg)
    /\ properties' = ParseResults(answer.msgdata[member])
    /\ member' = member + 1
    /\ GoTo(IF IsLast(member) THEN "context" ELSE "display")
    /\ UNCHANGED <<inputs, context, data, messages, status>>

FailDisplay ==
    /\ pc = "display" /\ answer.msgdata # <<>>
    /\ ~Parses(answer.msgdata[member].msg)
    /\ Refuse(500)

SkipDisplay ==
    /\ pc = "display" /\ answer.msgdata = <<>>
    /\ GoTo("context")
    /\ UNCHANGED <<inputs, properties, member, context, data, messages, status>>

-----------------------------------------------------------------------------
(* The message context and the body *)

OrEmpty(x) == IF x = Null THEN Empty ELSE x

\* Variant: the code of a member that gives none is "00000000", as that of OM is at first.
ErrorsOfOrSuccess(errs) ==
    IF errs = Null THEN Null
    ELSE [i \in DOMAIN errs |-> [errs[i] EXCEPT !.rc = IF @ = Null THEN Zero ELSE @]]

ErrorsOf(errs) ==
    IF errs = Null THEN Null
    ELSE [i \in DOMAIN errs |-> [errs[i] EXCEPT !.rc = OrEmpty(@)]]

SetContext ==
    /\ pc = "context"
    /\ context' = [rc |-> OrEmpty(answer.rc), omname |-> OrEmpty(answer.omname),
                   errs |-> ErrorsOf(answer.cmderr)]
    /\ GoTo("body")
    /\ UNCHANGED <<inputs, properties, member, data, messages, status>>

\* Without rows the body has one that is empty.
EmptyRow == [mbr |-> Null, lines |-> {}]
Data == IF properties = <<>> THEN <<EmptyRow>> ELSE properties

\* Variant: a code is always written.
CodeAsIs(rc) == rc

\* The code of a message is left out when it is zero; one that is "" is written.
CodeOf(rc) == IF rc = Zero THEN Null ELSE rc

MessagesOf(errs) ==
    [n \in {errs[i].mbr : i \in DOMAIN errs} |->
        CodeOf(errs[CHOOSE i \in DOMAIN errs : errs[i].mbr = n].rc)]

\* A list of errors, an empty one too, stands in for the code of OM.
Messages ==
    IF context.errs # Null THEN MessagesOf(context.errs)
    ELSE [n \in {context.omname} |-> CodeOf(context.rc)]

Reply ==
    /\ pc = "body"
    /\ data' = Data
    /\ messages' = Messages
    /\ status' = 200
    /\ GoTo("replied")
    /\ UNCHANGED <<inputs, properties, member, context>>

Process ==
    \/ FailParse \/ ReadElements \/ ReadMsgdata \/ ReadNothing \/ FailText
    \/ ParseDisplay \/ FailDisplay \/ SkipDisplay
    \/ SetContext

Next == Process \/ Reply

\* One thread computes the body and waits for nothing.
Spec == Init /\ [][Next]_vars /\ WF_vars(Next)
-----------------------------------------------------------------------------
(* Properties *)

Rowset == [mbr : Members \cup {Null}, lines : SUBSET (Lines \cup Elements)]

\* Every variable keeps to its type.
TypeOK ==
    /\ command \in Commands /\ answer \in Answers
    /\ pc \in {"parse", "display", "context", "body", "replied"}
    /\ properties \in Seq(Rowset)
    /\ member \in Nat \ {0}
    /\ context.rc \in ContextCodes
    /\ context.omname \in {Om, Empty}
    /\ context.errs = Null \/ IsErrorList(context.errs, ContextCodes)
    /\ data \in Seq(Rowset)
    /\ DOMAIN messages \subseteq Members \cup {Om, Empty}
    /\ \A n \in DOMAIN messages : messages[n] \in Codes \cup {Empty, Null}
    /\ status \in {0, 200, 400, 500}

\* Who reports to the client how the command went: the members, or OM without them.
Reports ==
    IF answer.cmderr = Null THEN {[mbr |-> OrEmpty(answer.omname), rc |-> answer.rc]}
    ELSE {answer.cmderr[i] : i \in DOMAIN answer.cmderr}

\* A report of zero is a message without a code, and only such a report is.
Tells(r) ==
    /\ r.mbr \in DOMAIN messages
    /\ r.rc = Zero => messages[r.mbr] = Null
    /\ r.rc = Null => messages[r.mbr] = Empty
    /\ r.rc \in Codes => messages[r.mbr] = r.rc

\* A 200 tells the client of every failure: the code of each member that reports an
\* error is under its name, and without such a report the code of OM is under the
\* name of OM (processResponse 350-474 and omMessageContextToJSON).  A code that the
\* answer does not have is an empty one, never the success that a message without a
\* code stands for, and nobody who has not reported is in the messages.
FailuresReachTheClient ==
    status = 200 =>
        /\ \A r \in Reports : Tells(r)
        /\ \A n \in DOMAIN messages : \E r \in Reports : r.mbr = n

IsDisplay ==
    /\ command.display /\ command.fids
    /\ answer.rsp = <<>> /\ answer.msgdata # Null

LinesOf(i) == {answer.msgdata[i].msg[j] : j \in DOMAIN answer.msgdata[i].msg}

Named(rows) ==
    \A r \in DOMAIN rows :
        rows[r].mbr # Null =>
            /\ answer.msgdata # Null
            /\ \E i \in DOMAIN answer.msgdata : /\ answer.msgdata[i].mbr = rows[r].mbr
                                              /\ rows[r].lines \subseteq LinesOf(i)

ShowsElements(rows) ==
    \A i \in DOMAIN answer.rsp : \E r \in DOMAIN rows : rows[r] = ElementRow(answer.rsp[i])

ShowsMember(rows, i) ==
    \E r \in DOMAIN rows :
        /\ rows[r].mbr = answer.msgdata[i].mbr
        /\ \A l \in LinesOf(i) : Kind[l] # "ruler" => l \in rows[r].lines

ShowsTable(rows, i) ==
    LET m == answer.msgdata[i]
    IN  /\ \A r \in DOMAIN rows : rows[r].mbr \in {m.mbr, Null}
        /\ \A j \in 2 .. Len(m.msg) :
              (\A k \in 2 .. j : Kind[m.msg[k]] # "end") =>
                  \E r \in DOMAIN rows : rows[r] = LineRow(m.mbr, m.msg[j])

\* Whatever the answer, each line in the body is in a row under the name of a member
\* that sent that line: a display routed to several members never shows the region of
\* one as that of another (processResponse 290-337, parseResults 256).
RowsNameTheirMember == Named(data)

\* Apart from displays a 200 withholds nothing but rulers: each response element and
\* each line of each member is in the body (processResponse 197-315, mergeArrays and
\* executeImsCommand 143-154).
NothingIsWithheld ==
    status = 200 /\ ~IsDisplay =>
        /\ ShowsElements(data)
        /\ answer.msgdata # Null => \A i \in DOMAIN answer.msgdata : ShowsMember(data, i)

\* A display shows each region of the member that comes last in the answer, up to the
\* line with the time stamp, and, the call of setResponseProperties being in the loop
\* over the members (processResponse 322-337), of no other member.
DisplayShowsLastMember ==
    status = 200 /\ IsDisplay /\ answer.msgdata # <<>> =>
        ShowsTable(data, Len(answer.msgdata))

\* An answer that OM might well give: each member says something, and the lines of a
\* region display are a table.  A return code or a name may be missing.
IsTable(msg) ==
    Len(msg) >= 2 =>
        /\ Kind[msg[1]] = "header"
        /\ \A j \in 2 .. Len(msg) :
              Kind[msg[j]] = "value" \/ \E k \in 2 .. j : Kind[msg[k]] = "end"

WellFormed ==
    /\ answer.parse = "ok"
    /\ answer.msgdata # Null => HasText(answer.msgdata)
    /\ IsDisplay => /\ \A i \in DOMAIN answer.msgdata : IsTable(answer.msgdata[i].msg)
                    /\ \A i \in DOMAIN answer.msgdata :
                          command.otma => Len(answer.msgdata[i].msg) < 2

\* Each such answer, and no other, gets to the client, with errors in it or without, and
\* each ends in some reply.
AnswersGetThrough == <>(status # 0 /\ (status = 200 <=> WellFormed))

=============================================================================
