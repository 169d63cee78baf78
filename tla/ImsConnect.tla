------------------------------ MODULE ImsConnect ------------------------------
(***************************************************************************)
(* The other end of the socket: IMS Connect and the Operations Manager     *)
(* (OM) behind it.  Neither is in the repository; both are modelled from   *)
(* what IconOmConnection and ImsConnectConnection may observe of them.     *)
(*                                                                         *)
(* A connection carries commands one way and answers the other.  OM runs a *)
(* delivered command at some later time, or never; it runs it even when    *)
(* the session that delivered it is gone, and then nobody gets the answer. *)
(* The session may be dropped by IMS Connect, by its restart or by the     *)
(* network at any time.                                                    *)
(***************************************************************************)
EXTENDS Naturals, FiniteSets

CONSTANTS
    Requests,      \* HTTP requests; a command is named by the request it serves
    Connections,   \* IconOmConnection objects the JVM may allocate
    SessionLimit   \* sessions IMS Connect accepts at a time (its MAXSOC)

ASSUME RequestsAssumption == IsFiniteSet(Requests)
ASSUME ConnectionsAssumption == IsFiniteSet(Connections)
ASSUME SessionLimitAssumption == SessionLimit \in Nat

VARIABLES
    sessions,      \* the connections that have a session with IMS Connect
    inbox,         \* inbox[c]: commands delivered over c that OM has not run
    outbox,        \* outbox[c]: answers waiting to be read from c
    ran            \* ran[r]: how many times OM ran the command of r

imsConnectVars == <<sessions, inbox, outbox, ran>>

ImsConnectTypeOK ==
    /\ sessions \subseteq Connections
    /\ inbox \in [Connections -> SUBSET Requests]
    /\ outbox \in [Connections -> SUBSET Requests]
    /\ ran \in [Requests -> Nat]

ImsConnectInit ==
    /\ sessions = {}
    /\ inbox = [c \in Connections |-> {}]
    /\ outbox = [c \in Connections |-> {}]
    /\ ran = [r \in Requests |-> 0]

-----------------------------------------------------------------------------
(* Effects of what a client does *)

HasRoom == Cardinality(sessions) < SessionLimit

OpenSession(c) ==
    /\ HasRoom
    /\ sessions' = sessions \cup {c}
    /\ UNCHANGED <<inbox, outbox, ran>>

CloseSession(c) ==
    /\ sessions' = sessions \ {c}
    /\ outbox' = [outbox EXCEPT ![c] = {}]

Deliver(c, r) ==
    /\ c \in sessions
    /\ inbox' = [inbox EXCEPT ![c] = @ \cup {r}]
    /\ UNCHANGED <<sessions, outbox, ran>>

-----------------------------------------------------------------------------
(* What happens at the other end on its own *)

OmRuns(c, r) ==
    /\ r \in inbox[c]
    /\ inbox' = [inbox EXCEPT ![c] = @ \ {r}]
    /\ ran' = [ran EXCEPT ![r] = @ + 1]
    /\ outbox' = IF c \in sessions
                   THEN [outbox EXCEPT ![c] = @ \cup {r}]
                   ELSE outbox
    /\ UNCHANGED sessions

\* An orderly end leaves what was sent readable, a reset does not.
DropSession(c) ==
    /\ c \in sessions
    /\ sessions' = sessions \ {c}
    /\ outbox' \in {outbox, [outbox EXCEPT ![c] = {}]}
    /\ UNCHANGED <<inbox, ran>>

ImsConnectNext ==
    \/ \E c \in Connections, r \in Requests : OmRuns(c, r)
    \/ \E c \in Connections : DropSession(c)

=============================================================================
