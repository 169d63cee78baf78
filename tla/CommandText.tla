----------------------------- MODULE CommandText -----------------------------
(***************************************************************************)
(* The text of type-2 commands, as Type2CommandSerializable appends it     *)
(* piece by piece to a StringBuilder, and the reading of it by             *)
(* OMServlet.extractEssentialCommand.                                      *)
(*                                                                         *)
(* A text is a sequence of tokens: the words of the command language, the  *)
(* characters that have a meaning in it, and the values a client gave.  A  *)
(* value stands for the parameter it was given for and one of its values,  *)
(* none of which has a parenthesis or a comma in it.                       *)
(***************************************************************************)
EXTENDS Positions, SequencesExt, FiniteSetsExt

K(word) == <<"K", word>>
V(param, v) == <<"V", param[1], param[2], v>>
Open == <<"(">>
Close == <<")">>
Comma == <<",">>
Space == <<" ">>
Hyphen == <<"-">>
OpenList == <<"[">>
CloseList == <<"]">>

Marks == {Open, Close, Comma, Space, Hyphen, OpenList, CloseList}

IsWord(t) == t \notin Marks

-----------------------------------------------------------------------------
(* Type2CommandSerializable *)

\* Drops one comma or space from the end.
Format(text) == IF Last(text) \in {Comma, Space} THEN Front(text) ELSE text

\* KEY(a, b) and a space, for the elements of a list, if there are any.
ListText(key, values) ==
    IF values = <<>> THEN <<>>
    ELSE <<K(key), Open>>
           \o FlattenSeq([i \in DOMAIN values |->
                  IF i # Len(values) THEN <<values[i], Comma, Space>> ELSE <<values[i]>>])
           \o <<Close, Space>>

\* The names of the systems a command goes to, without spaces between them.
RouteText(values) ==
    IF values = <<>> THEN <<>>
    ELSE <<K("ROUTE"), Open>>
           \o FlattenSeq([i \in DOMAIN values |->
                  IF i # Len(values) THEN <<values[i], Comma>> ELSE <<values[i]>>])
           \o <<Close, Space>>

\* The attributes of a SET or LIKE that are not null.
Attributes(keys, value) ==
    FlattenSeq([i \in DOMAIN keys |->
        IF value[keys[i]] = <<>> THEN <<>>
        ELSE <<K(keys[i]), Open>> \o value[keys[i]] \o <<Close, Comma, Space>>])

\* Variant: the comma is dropped, or the space, but not both.
SetTextFormattedOnce(keys, value) ==
    LET text == <<K("SET"), Open>> \o Attributes(keys, value)
    IN  IF Last(text) = Open THEN Append(text, Close)
        ELSE Format(text) \o <<Close, Space>>

\* A SET without attributes gets no space.
SetText(keys, value) ==
    LET text == <<K("SET"), Open>> \o Attributes(keys, value)
    IN  IF Last(text) = Open THEN Append(text, Close)
        ELSE Format(Format(text)) \o <<Close, Space>>

LikeText(keys, value) ==
    LET text == <<K("LIKE"), Open>> \o Attributes(keys, value)
    IN  IF Last(text) = Open THEN Append(text, Close)
        ELSE Format(Format(Format(text))) \o <<Close, Space>>

\* The comparison and the count.
QcntText(keys, value) ==
    LET text == <<K("QCNT"), Open>>
                  \o FlattenSeq([i \in DOMAIN keys |->
                         IF value[keys[i]] = <<>> THEN <<>> ELSE Append(value[keys[i]], Comma)])
    IN  IF Last(text) = Open THEN Append(text, Close)
        ELSE Format(text) \o <<Close, Space>>

\* retrieveCommand: which method writes a group of attributes.
GroupText(key, keys, value) ==
    CASE key = "SET" -> SetText(keys, value)
      [] key = "LIKE" -> LikeText(keys, value)
      [] key = "QCNT" -> QcntText(keys, value)

OneText(key, value) ==
    IF value = <<>> THEN <<>> ELSE <<K(key), Open>> \o value \o <<Close, Space>>

-----------------------------------------------------------------------------
(* OMServlet.extractEssentialCommand *)

Depth(text) == Quantify(DOMAIN text, LAMBDA i : text[i] = Open)
                 - Quantify(DOMAIN text, LAMBDA i : text[i] = Close)

Trim(text) ==
    LET kept == {i \in DOMAIN text : text[i] # Space}
    IN  IF kept = {} THEN <<>> ELSE SubSeq(text, Min(kept), Max(kept))

\* Variant: the parenthesis of CMD is not counted.
UpToFirstParenthesis(cmd) ==
    LET ends == {i \in 3 .. Len(cmd) : cmd[i] = Close}
    IN  IF ends = {} THEN Trim(cmd) ELSE Trim(SubSeq(cmd, 3, Min(ends) - 1))

\* What stands between "CMD(", the first four characters, and the parenthesis that
\* closes it.
extractEssentialCommand(cmd) ==
    LET ends == {i \in 3 .. Len(cmd) : 1 + Depth(SubSeq(cmd, 3, i)) = 0}
    IN  IF ends = {} THEN Trim(cmd) ELSE Trim(SubSeq(cmd, 3, Min(ends) - 1))

=============================================================================
