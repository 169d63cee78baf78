----------------------------- MODULE MCAuthFilter -----------------------------
(***************************************************************************)
(* An instance of AuthFilter for TLC: two users, the first twice with      *)
(* another password and role, a role that no user has, and a name that     *)
(* the file has not.                                                       *)
(***************************************************************************)
EXTENDS AuthFilter

User(name, password, role) == [name |-> name, password |-> password, role |-> role]
FileOfThree == <<User("u1", "p1", "r1"), User("u1", "p2", "r2"), User("u2", "p2", "r2")>>
(* The credentials vary only in requests whose credentials are looked at, the       *)
(* method has one role.                                                             *)
SomeRequests ==
    {q \in Requests : /\ q.roles \in {{"r1"}, {"r2"}}
                      /\ q.racf \/ q.authorization # "Basic" \/ ~q.annotated =>
                             q.name = "u1" /\ q.password = "p1" /\ q.roles = {"r1"}}
=============================================================================
