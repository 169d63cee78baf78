------------------------------ MODULE MCFidReader ------------------------------
(***************************************************************************)
(* Small instances of FidReader for TLC: displays of regions with rows of  *)
(* two or three different FIDs, some of them routed to a member whose name *)
(* contains OTMA.                                                          *)
(***************************************************************************)
EXTENDS FidReader

CONSTANTS d1, d2, d3, A00, A53, A54

MCDisplays == {d1, d2, d3}
MCValueFids == {A00, A53, A54}
MCRows == d1 :> <<A00, A00, A53>> @@ d2 :> <<A53, A00, A54>> @@ d3 :> <<A00, A54>>

=============================================================================
