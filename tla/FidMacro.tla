------------------------------- MODULE FidMacro -------------------------------
(***************************************************************************)
(* The columns of a display line: FIDReader.buildFIDObjects derives them   *)
(* from the DSECT of the line's format, parseResults cuts the line by      *)
(* them.                                                                   *)
(*                                                                         *)
(* The DSECT has one storage definition after the other: "CLn" or "nC",    *)
(* which are read alike, or "C", some with a comment that the reader takes *)
(* for that of a blank.  Whether a definition is a value or a blank is for *)
(* IMS to know.  The sections begin with the format identifier, whose      *)
(* definition is skipped, and go on in any way: with no blank, one or      *)
(* more, and with comments that fit the definitions or not.                *)
(***************************************************************************)
EXTENDS Positions, SequencesExt, FiniteSetsExt

CONSTANTS
    MaxItems,    \* the most definitions after the format identifier
    Widths       \* the widths of the definitions

ASSUME MaxItemsAssumption == MaxItems \in Nat
ASSUME WidthsAssumption == Widths \subseteq Nat \ {0}

(* A definition, with what the reader cannot see: whether it is a value. *)
Items ==
    [kind : {"CLn"}, comment : BOOLEAN, width : Widths, value : BOOLEAN]
      \cup [kind : {"C"}, comment : {FALSE}, width : {1}, value : BOOLEAN]

VARIABLES
    macro,      \* the definitions read so far
    columns,    \* FIDMap: the widths found so far
    hadBlankPreviously,    \* whether the last definition counted as a blank
    contents,   \* how many characters each value of the line has
    keys,       \* how many keys the header lines name
    valueRemain,    \* what is left of the line
    props,      \* the values cut so far
    phase       \* "Building", "Built" (between lines) or "Cutting"

vars == <<macro, columns, hadBlankPreviously, contents, keys, valueRemain, props, phase>>

built == <<macro, columns, hadBlankPreviously>>
cut == <<contents, keys, valueRemain, props>>

Init ==
    /\ macro = <<>> /\ columns = <<>> /\ hadBlankPreviously = FALSE
    /\ contents = <<>> /\ keys = 0 /\ valueRemain = <<>> /\ props = <<>>
    /\ phase = "Building"

-----------------------------------------------------------------------------
(* buildFIDObjects *)

(* A blank widens the column before it; before the first column it is dropped. *)
Widen(list, width) ==
    IF list = <<>> THEN <<>> ELSE [list EXCEPT ![Len(list)] = @ + width]

ReadsOne(d, kind) ==
    /\ phase = "Building" /\ Len(macro) < MaxItems
    /\ d.kind = kind
    /\ macro' = Append(macro, d)
    /\ UNCHANGED phase /\ UNCHANGED cut

AddBlank(d) ==
    /\ ReadsOne(d, "CLn")
    /\ d.comment /\ ~hadBlankPreviously
    /\ columns' = Widen(columns, d.width)
    /\ hadBlankPreviously' = TRUE

\* Variant: a single blank has no width.
SkipSingle(d) ==
    /\ ReadsOne(d, "C")
    /\ hadBlankPreviously' = TRUE
    /\ UNCHANGED columns

AddSingle(d) ==
    /\ ReadsOne(d, "C")
    /\ columns' = Widen(columns, 1)
    /\ hadBlankPreviously' = TRUE

\* Variant: the flag stays set after a column.
AddColumnWithoutReset(d) ==
    /\ ReadsOne(d, "CLn")
    /\ ~d.comment \/ hadBlankPreviously
    /\ columns' = Append(columns, d.width)
    /\ UNCHANGED hadBlankPreviously

AddColumn(d) ==
    /\ ReadsOne(d, "CLn")
    /\ ~d.comment \/ hadBlankPreviously
    /\ columns' = Append(columns, d.width)
    /\ hadBlankPreviously' = FALSE

(* The line of asterisks. *)
EndSection ==
    /\ phase = "Building"
    /\ phase' = "Built"
    /\ UNCHANGED built /\ UNCHANGED cut

-----------------------------------------------------------------------------
(* parseResults: the lines of values *)

ValueItems == {i \in DOMAIN macro : macro[i].value}

(* The k-th value. *)
ItemOf(k) == Nth(ValueItems, k)

(* How many characters of a line the definitions before that of the k-th value take. *)
Parts == [i \in DOMAIN macro |-> macro[i].width]
Start(k) == Ends(Parts)[ItemOf(k) - 1]

Filler == 0
Fill(n, c) == [i \in 1 .. n |-> c]
TrimRight(s) ==
    LET kept == {i \in DOMAIN s : s[i] # Filler}
    IN  IF kept = {} THEN <<>> ELSE SubSeq(s, 1, Max(kept))
Trim(s) ==
    LET kept == {i \in DOMAIN s : s[i] # Filler}
    IN  IF kept = {} THEN <<>> ELSE SubSeq(s, Min(kept), Max(kept))

(* What IMS writes: each definition in its width, a value from the left; the blanks *)
(* at the end may be missing.  A character is the number of its value.              *)
Lengths == UNION {0 .. width : width \in Widths}

LineOf(lengths) ==
    LET written == UNION {{<<Start(k) + i, k>> : i \in 1 .. lengths[k]} : k \in DOMAIN lengths}
    IN  [p \in 1 .. Total(Parts) |->
           IF \E k \in DOMAIN lengths : <<p, k>> \in written
           THEN CHOOSE k \in DOMAIN lengths : <<p, k>> \in written
           ELSE Filler]

(* A line of the display: its identifier and the character after it are taken off. *)
BeginLine ==
    /\ phase = "Built"
    /\ \E lengths \in [1 .. Cardinality(ValueItems) -> Lengths] :
          LET line == Fill(3, Filler) \o LineOf(lengths)
              rest == SubSeq(line, 5, Len(line))
          IN  /\ \A k \in DOMAIN lengths : lengths[k] <= macro[ItemOf(k)].width
              /\ contents' = lengths
              /\ valueRemain' \in {rest, TrimRight(rest)}
              /\ \E extra \in 0 .. 1 : keys' = Len(lengths) + extra
    /\ props' = <<>>
    /\ phase' = "Cutting"
    /\ UNCHANGED built

key == Len(props) + 1

\* Variant: one key too many.
CutsOnceMore ==
    /\ phase = "Cutting" /\ key <= keys + 1
    /\ UNCHANGED built /\ UNCHANGED <<contents, keys, phase>>

Cuts ==
    /\ phase = "Cutting" /\ key <= keys
    /\ UNCHANGED built /\ UNCHANGED <<contents, keys, phase>>

LeaveEmpty ==
    /\ Cuts /\ Len(columns) < key
    /\ props' = Append(props, <<>>)
    /\ UNCHANGED valueRemain

TakeRest ==
    /\ Cuts /\ key <= Len(columns)
    /\ key = Len(columns) \/ Len(valueRemain) <= columns[key]
    /\ props' = Append(props, Trim(valueRemain))
    /\ valueRemain' = <<>>

\* Variant: the line is not advanced.
TakeColumnAgain ==
    /\ Cuts /\ key < Len(columns)
    /\ Len(valueRemain) > columns[key]
    /\ props' = Append(props, Trim(SubSeq(valueRemain, 1, columns[key])))
    /\ UNCHANGED valueRemain

TakeColumn ==
    /\ Cuts /\ key < Len(columns)
    /\ Len(valueRemain) > columns[key]
    /\ props' = Append(props, Trim(SubSeq(valueRemain, 1, columns[key])))
    /\ valueRemain' = SubSeq(valueRemain, columns[key] + 1, Len(valueRemain))

EndLine ==
    /\ phase = "Cutting" /\ key > keys
    /\ phase' = "Built"
    /\ contents' = <<>> /\ keys' = 0 /\ valueRemain' = <<>> /\ props' = <<>>
    /\ UNCHANGED built

Next ==
    \/ \E d \in Items : AddBlank(d) \/ AddSingle(d) \/ AddColumn(d)
    \/ EndSection
    \/ BeginLine \/ LeaveEmpty \/ TakeRest \/ TakeColumn \/ EndLine

Spec == Init /\ [][Next]_vars

-----------------------------------------------------------------------------
(* Properties *)

(* The variables have their types; there is no column without a definition, and no *)
(* value without a key.                                                            *)
TypeOK ==
    /\ macro \in Seq(Items) /\ Len(macro) <= MaxItems
    /\ columns \in Seq(Nat \ {0}) /\ Len(columns) <= Len(macro)
    /\ hadBlankPreviously \in BOOLEAN
    /\ contents \in Seq(Lengths)
    /\ keys \in 0 .. Len(macro) + 1
    /\ valueRemain \in Seq(0 .. Len(macro))
    /\ props \in Seq(Seq(0 .. Len(macro))) /\ Len(props) <= keys
    /\ phase \in {"Building", "Built", "Cutting"}

(* Comments that the reader can go by: a single character is a blank, a comment of  *)
(* blanks stands at a blank, or at a value when the definition before is a blank.   *)
WellMarked ==
    \A i \in DOMAIN macro :
       macro[i].value <=> /\ macro[i].kind = "CLn"
                          /\ macro[i].comment => i > 1 /\ ~macro[i - 1].value

(* parseResults takes one blank off after the identifier. *)
HasBlank == contents # <<>> => Start(1) >= 1

(* The blanks that are left move the values to the right in their columns: but for  *)
(* the last, each needs as much room before the next value begins.                  *)
HasRoom ==
    /\ HasBlank
    /\ \A k \in 1 .. Len(contents) - 1 :
          Start(k) + contents[k] + (Start(1) - 1) <= Start(k + 1)

(* buildFIDObjects: of the definitions that may all look alike, it takes for a      *)
(* column each that is a value and no other, whatever came before.                  *)
OneColumnPerValue == WellMarked => Len(columns) = Cardinality(ValueItems)

(* buildFIDObjects: the columns together always cover the definitions read from the *)
(* first value on; no width is lost or counted twice whichever way the blanks are   *)
(* written.                                                                         *)
ColumnsCoverTheLine ==
    WellMarked /\ columns # <<>> => Total(columns) = Total(Parts) - Start(1)

EachKeyHasItsValue ==
    \A i \in DOMAIN props :
       props[i] = IF i <= Len(contents) THEN Fill(contents[i], i) ELSE <<>>

(* parseResults with buildFIDObjects: each key gets exactly the characters of its   *)
(* own value, however many blanks the line begins with, also when values are empty  *)
(* or as wide as the room they have, when blanks at the end of the line are missing,*)
(* or when there are more keys than columns.                                        *)
KeysGetTheirValues ==
    phase = "Cutting" /\ WellMarked /\ HasRoom => EachKeyHasItsValue

(* The comment at FIDReader 411 has the widths of blanks added "so we skip the      *)
(* blanks when parsing", with no condition on how full the values are.              *)
BlanksAreSkipped ==
    phase = "Cutting" /\ WellMarked /\ HasBlank => EachKeyHasItsValue

=============================================================================
