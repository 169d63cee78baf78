------------------------------ MODULE MCFidMacro ------------------------------
(***************************************************************************)
(* An instance of FidMacro for TLC.                                        *)
(***************************************************************************)
EXTENDS FidMacro

OneOrTwo == {1, 2}
=============================================================================
