------------------------------ MODULE MCCommands ------------------------------
(***************************************************************************)
(* Instances of Commands for TLC.                                          *)
(***************************************************************************)
EXTENDS Commands

(* Every method; three parameters at once where a method has few of them. *)
AllMethods == Type2Methods \cup DOMAIN Type1Params
GivenAtOnce ==
    [m \in AllMethods |-> IF m \in {"CreateTran", "UpdateTran"} THEN 2 ELSE 3]
SomeLists == {<<"1">>, <<"bad">>, <<"1", "2">>, <<"1", "bad">>, <<"all">>}
SomeRoutes == {<<"A">>, <<"A", "B">>}

OnlyCreateTran == {"CreateTran"}
OnlyStopRegion == {"StopRegion"}
TwoValueLists == {<<"1">>, <<"2">>, <<"1", "2">>, <<"1", "3">>}
NoRoutes == {}
=============================================================================
