------------------------------- MODULE FidReader -------------------------------
(***************************************************************************)
(* om.fid.FIDReader.parseResults on the answers to display commands, and   *)
(* the map fidToFid it goes through.  FIDManager keeps one reader per IMS  *)
(* version, and CommandServices always asks for version 15.1.0, so all the *)
(* threads of the server share one reader and one fidToFid, a              *)
(* java.util.HashMap without any lock.                                     *)
(*                                                                         *)
(* parseResults first puts an entry into fidToFid for every format id      *)
(* (FID) a row may start with, the FID of the header that names the row's  *)
(* values (processFids), and then gets the entry of each row to find its   *)
(* keys.  A row whose entry is missing, or is no header of this answer,    *)
(* ends in a NullPointerException, and the request in a 500.               *)
(*                                                                         *)
(* A put is modelled in the steps of HashMap.putVal and resize that other  *)
(* threads may come between.  Only the creation of the table matters: the  *)
(* FIDs of region displays are fewer than the 12 that make a table grow,   *)
(* and are taken to fall into different buckets.                           *)
(***************************************************************************)
EXTENDS Naturals, Sequences, FiniteSets, SequencesExt

CONSTANTS
    Displays,      \* calls of parseResults, each by a thread of its own
    HeaderFid,     \* the FID of the header line of a region display
    ValueFids,     \* the FIDs of its rows
    Rows,          \* Rows[d]: the FIDs of the rows of the answer d parses
    Otma,          \* the displays whose command contains "OTMA"
    Blank, Null    \* the empty string and null

Fids == {HeaderFid} \cup ValueFids

ASSUME RowsAssumption == Rows \in [Displays -> Seq(ValueFids)]
ASSUME OtmaAssumption == Otma \subseteq Displays
\* In the macros of IMS a header and its rows have formats of their own.
ASSUME HeaderAssumption == HeaderFid \notin ValueFids
ASSUME NullAssumption == Null \notin Displays \cup Fids

VARIABLES
    table,         \* the array the map uses: that allocated by a display, or null
    array,         \* array[d]: the entries of the array that d allocated
    pc, next,      \* where the thread of d is, and its next put or row
    tab, old,      \* the arrays its put and its resize work with
    alone          \* the displays no other one has overlapped so far (history)

mapVars == <<table, array>>
vars == <<mapVars, pc, next, tab, old, alone>>

-----------------------------------------------------------------------------
(* What processFids computes from the lines of an answer *)

Lines(d) == <<HeaderFid>> \o Rows[d]

\* The lines with a FID that none before has.
FirstLines(d) ==
    {i \in DOMAIN Lines(d) : \A j \in 1 .. i - 1 : Lines(d)[j] # Lines(d)[i]}

\* How many of them there are up to line i.
Position(d, i) == Cardinality(FirstLines(d) \cap 1 .. i)

\* The FIDs in the order of their first lines.
UniqueFids(d) ==
    [n \in 1 .. Cardinality(FirstLines(d)) |->
        Lines(d)[CHOOSE i \in FirstLines(d) : Position(d, i) = n]]

NumOfHeaders ==
    [d \in Displays |-> IF d \in Otma THEN Len(UniqueFids(d)) \div 2 ELSE 1]

\* One header: every other FID goes to it.
PutsToHeader(fids) == [i \in 1 .. Len(fids) - 1 |-> <<fids[i + 1], fids[1]>>]

\* Continuation lines: the FIDs are reversed, the last ones of the answer are
\* blanked, and then each goes to the FID half the answer before it.
PutsToHeaders(fids) ==
    LET fidArray == Reverse(fids)
        limit == Len(fids) \div 2
    IN  [i \in 1 .. limit - 1 |-> <<fidArray[i], Blank>>]
          \o [i \in 1 .. Len(fids) - limit |-> <<fidArray[i], fidArray[limit + i]>>]

Puts ==
    [d \in Displays |-> IF d \in Otma THEN PutsToHeaders(UniqueFids(d))
                                    ELSE PutsToHeader(UniqueFids(d))]

HeaderFids(d) == {Lines(d)[i] : i \in 1 .. NumOfHeaders[d]}

ValueLines ==
    [d \in Displays |-> SubSeq(Lines(d), NumOfHeaders[d] + 1, Len(Lines(d)))]

-----------------------------------------------------------------------------

\* Where a display is while it puts its entries.
Putting == {"put", "resize", "publish", "transfer", "store"}

\* Every variable keeps to its type, and a display stays within its puts and rows.
TypeOK ==
    /\ table \in Displays \cup {Null}
    /\ array \in [Displays -> [Fids -> Fids \cup {Blank, Null}]]
    /\ pc \in [Displays -> Putting \cup {"idle", "get", "done", "failed"}]
    /\ next \in [Displays -> Nat]
    /\ \A d \in Displays :
          next[d] \in 1 .. (IF pc[d] \in Putting
                              THEN Len(Puts[d]) ELSE Len(ValueLines[d]) + 1)
    /\ tab \in [Displays -> Displays \cup {Null}]
    /\ old \in [Displays -> Displays \cup {Null}]
    /\ alone \subseteq Displays

Init ==
    /\ table = Null
    /\ array = [d \in Displays |-> [f \in Fids |-> Null]]
    /\ pc = [d \in Displays |-> "idle"]
    /\ next = [d \in Displays |-> 1]
    /\ tab = [d \in Displays |-> Null]
    /\ old = [d \in Displays |-> Null]
    /\ alone = {}

Active == {d \in Displays : pc[d] \notin {"idle", "done", "failed"}}

GoTo(d, p) == pc' = [pc EXCEPT ![d] = p]

\* The puts come first, if there are any.
Arrive(d) ==
    /\ pc[d] = "idle"
    /\ GoTo(d, IF Puts[d] = <<>> THEN "get" ELSE "put")
    /\ alone' = IF Active = {} THEN alone \cup {d} ELSE alone \ Active
    /\ UNCHANGED <<mapVars, next, tab, old>>

-----------------------------------------------------------------------------
(* fidToFid.put *)

\* (tab = table) == null?
ReadTable(d) ==
    /\ pc[d] = "put"
    /\ tab' = [tab EXCEPT ![d] = table]
    /\ GoTo(d, IF table = Null THEN "resize" ELSE "store")
    /\ UNCHANGED <<mapVars, next, old, alone>>

\* oldTab = table
Resize(d) ==
    /\ pc[d] = "resize"
    /\ old' = [old EXCEPT ![d] = table]
    /\ GoTo(d, "publish")
    /\ UNCHANGED <<mapVars, next, tab, alone>>

\* table = newTab, which is empty
Publish(d) ==
    /\ pc[d] = "publish"
    /\ table' = d
    /\ tab' = [tab EXCEPT ![d] = d]
    /\ GoTo(d, IF old[d] = Null THEN "store" ELSE "transfer")
    /\ UNCHANGED <<array, next, old, alone>>

\* The entries of oldTab are moved.
Transfer(d) ==
    /\ pc[d] = "transfer"
    /\ array' = [array EXCEPT
                    ![d] = [f \in Fids |-> IF array[old[d]][f] # Null
                                             THEN array[old[d]][f] ELSE @[f]],
                    ![old[d]] = [f \in Fids |-> Null]]
    /\ GoTo(d, "store")
    /\ UNCHANGED <<table, next, tab, old, alone>>

\* Variant with an off-by-one at the last put.
NextPutPastLast(d) ==
    IF next[d] <= Len(Puts[d])
      THEN next' = [next EXCEPT ![d] = @ + 1] /\ GoTo(d, "put")
      ELSE next' = [next EXCEPT ![d] = 1] /\ GoTo(d, "get")

\* Go to the next put, or to the rows.
NextPut(d) ==
    IF next[d] < Len(Puts[d])
      THEN next' = [next EXCEPT ![d] = @ + 1] /\ GoTo(d, "put")
      ELSE next' = [next EXCEPT ![d] = 1] /\ GoTo(d, "get")

\* Variant that keeps the entries it finds, as putIfAbsent would.
StoreIfAbsent(d) ==
    /\ pc[d] = "store"
    /\ LET put == Puts[d][next[d]]
       IN  array' = IF array[tab[d]][put[1]] = Null
                      THEN [array EXCEPT ![tab[d]][put[1]] = put[2]]
                      ELSE array
    /\ NextPut(d)
    /\ UNCHANGED <<table, tab, old, alone>>

\* The entry goes into the array this put found or made, whatever table is now.
Store(d) ==
    /\ pc[d] = "store"
    /\ LET put == Puts[d][next[d]]
       IN  array' = [array EXCEPT ![tab[d]][put[1]] = put[2]]
    /\ NextPut(d)
    /\ UNCHANGED <<table, tab, old, alone>>

-----------------------------------------------------------------------------
(* The rows *)

Get(fid) == IF table = Null THEN Null ELSE array[table][fid]

\* The entry of the row names a header of this answer.
ReadRow(d) ==
    /\ pc[d] = "get"
    /\ next[d] <= Len(ValueLines[d])
    /\ Get(ValueLines[d][next[d]]) \in HeaderFids(d)
    /\ next' = [next EXCEPT ![d] = @ + 1]
    /\ UNCHANGED <<mapVars, pc, tab, old, alone>>

\* keyIndexes.get(headerFid).size() throws.
FailRow(d) ==
    /\ pc[d] = "get"
    /\ next[d] <= Len(ValueLines[d])
    /\ Get(ValueLines[d][next[d]]) \notin HeaderFids(d)
    /\ GoTo(d, "failed")
    /\ UNCHANGED <<mapVars, next, tab, old, alone>>

\* With "OTMA" in the command the rows go to coalesceContinuationLine, which
\* throws at the first: a row of a region display has no MEMBER.
EndRows(d) ==
    /\ pc[d] = "get"
    /\ next[d] > Len(ValueLines[d])
    /\ GoTo(d, IF d \in Otma /\ ValueLines[d] # <<>> THEN "failed" ELSE "done")
    /\ UNCHANGED <<mapVars, next, tab, old, alone>>

-----------------------------------------------------------------------------

Next ==
    \E d \in Displays :
        \/ Arrive(d)
        \/ ReadTable(d) \/ Resize(d) \/ Publish(d) \/ Transfer(d) \/ Store(d)
        \/ ReadRow(d) \/ FailRow(d) \/ EndRows(d)

Spec == Init /\ [][Next]_vars

-----------------------------------------------------------------------------
(* Properties *)

\* A display that nobody overlapped finds the header of all its rows, whatever
\* earlier displays, overlapping ones and those with OTMA in their command
\* included, left in fidToFid: processFids writes every entry it needs anew.
AloneSucceeds ==
    \A d \in Displays \ Otma : pc[d] = "failed" => d \notin alone

\* The comment on fidToFid, of any display: the map takes the FID of each row to
\* that of its header.
RowsFindTheirHeader == \A d \in Displays \ Otma : pc[d] # "failed"

=============================================================================
