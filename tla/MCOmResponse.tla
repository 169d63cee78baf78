----------------------------- MODULE MCOmResponse -----------------------------
(* An instance of OmResponse for TLC *)
EXTENDS OmResponse, TLC

CONSTANTS m1, m2, header, value1, value2, end, text, ruler, e1, c1

MCKind == (header :> "header") @@ (value1 :> "value") @@ (value2 :> "value")
            @@ (end :> "end") @@ (text :> "text") @@ (ruler :> "ruler")

\* Commands of the services: displays, with "OTMA" in a name or not, starts and stops of
\* regions, also of one with "DIS" in its name, and type-2 commands.
Command(d, f, o) == [display |-> d, fids |-> f, otma |-> o]
MCCommands ==
    {Command(TRUE, TRUE, o) : o \in BOOLEAN}
      \cup {Command(FALSE, TRUE, FALSE), Command(FALSE, FALSE, FALSE),
            Command(TRUE, FALSE, TRUE)}

\* What a member may send: nothing, an error message, tables of up to two regions,
\* lines after the time stamp, and a table the parser does not know.
Texts ==
    {<<>>, <<text>>, <<header, end>>, <<header, value1, end, text>>,
     <<header, value1, value2>>, <<text, ruler, value1>>}

Msgdatas ==
    {Null, <<>>} \cup {<<[mbr |-> m1, msg |-> a]>> : a \in Texts}
      \cup {<<[mbr |-> m1, msg |-> a], [mbr |-> m2, msg |-> b]>> : a, b \in Texts}

\* Up to two members report an error, or one that is none, with or without a code.
Errors ==
    {Null, <<>>} \cup {<<[mbr |-> m1, rc |-> r]>> : r \in {c1, Zero, Null}}
      \cup {<<[mbr |-> m1, rc |-> r], [mbr |-> m2, rc |-> q]>> :
               r, q \in {c1, Zero, Null}}

MCAnswers ==
    [parse : {"ok"}, rsp : {<<>>, <<e1>>}, msgdata : Msgdatas, cmderr : Errors,
     rc : {c1, Zero, Null}, omname : {Om, Null}]
      \cup [parse : {"fails"}, rsp : {<<>>}, msgdata : {Null}, cmderr : {Null},
             rc : {Null}, omname : {Null}]

=============================================================================
