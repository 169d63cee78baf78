---------------------------- MODULE OmInteraction ----------------------------
(***************************************************************************)
(* What the API promises its HTTP clients about the command of a request,  *)
(* with no connection, session or exception in sight.                      *)
(*                                                                         *)
(* A 200 carries the answer to the request's own command, which OM ran     *)
(* once.  Any other reply carries no answer, and says nothing of whether   *)
(* the command ran: it may have, and it may still run after the reply.     *)
(* A command that was not sent when the reply left is never sent.          *)
(***************************************************************************)
EXTENDS Naturals

CONSTANTS Requests, NoRequest

VARIABLES
    phase,         \* "idle", "accepted" or "replied"
    atOm,          \* the commands OM may yet run
    ran,           \* how many times OM ran each command
    status,        \* the HTTP status of the reply, 0 before
    body           \* whose answer the reply carries

abstractVars == <<phase, atOm, ran, status, body>>

AbstractInit ==
    /\ phase = [r \in Requests |-> "idle"]
    /\ atOm = {}
    /\ ran = [r \in Requests |-> 0]
    /\ status = [r \in Requests |-> 0]
    /\ body = [r \in Requests |-> NoRequest]

Accept(r) ==
    /\ phase[r] = "idle"
    /\ phase' = [phase EXCEPT ![r] = "accepted"]
    /\ UNCHANGED <<atOm, ran, status, body>>

Submit(r) ==
    /\ phase[r] = "accepted"
    /\ r \notin atOm
    /\ ran[r] = 0
    /\ atOm' = atOm \cup {r}
    /\ UNCHANGED <<phase, ran, status, body>>

Run(r) ==
    /\ r \in atOm
    /\ atOm' = atOm \ {r}
    /\ ran' = [ran EXCEPT ![r] = @ + 1]
    /\ UNCHANGED <<phase, status, body>>

Succeed(r) ==
    /\ phase[r] = "accepted"
    /\ ran[r] = 1
    /\ phase' = [phase EXCEPT ![r] = "replied"]
    /\ status' = [status EXCEPT ![r] = 200]
    /\ body' = [body EXCEPT ![r] = r]
    /\ UNCHANGED <<atOm, ran>>

Refuse(r) ==
    /\ phase[r] = "accepted"
    /\ phase' = [phase EXCEPT ![r] = "replied"]
    /\ \E s \in {400, 500} : status' = [status EXCEPT ![r] = s]
    /\ UNCHANGED <<atOm, ran, body>>

AbstractNext ==
    \E r \in Requests :
        Accept(r) \/ Submit(r) \/ Run(r) \/ Succeed(r) \/ Refuse(r)

AbstractSpec == AbstractInit /\ [][AbstractNext]_abstractVars

\* A request that was accepted is replied to, one way or the other.
AbstractFairSpec ==
    AbstractSpec /\ \A r \in Requests : WF_abstractVars(Succeed(r) \/ Refuse(r))

=============================================================================
