----------------------------- MODULE MCOmRequests -----------------------------
(***************************************************************************)
(* Small instances of OmRequests for TLC.  Requests and connections are    *)
(* model values and interchangeable, which Symmetry exploits in the runs   *)
(* that check safety only.                                                 *)
(***************************************************************************)
EXTENDS OmRequests, TLC

Symmetry == Permutations(Requests) \cup Permutations(Connections)

=============================================================================
